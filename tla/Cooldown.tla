------------------------------ MODULE Cooldown ------------------------------
(***************************************************************************)
(* internal/cooldown: the Tracker that keeps a matcher silent for a while  *)
(* after it fired, for everyone (perMatcher) and for one sender (perUser), *)
(* and the reaper that deletes old entries from both maps.                 *)
(*                                                                         *)
(* Two goroutines share the maps without a lock around more than one map   *)
(* operation: the pipeline, which calls Allow and then, when the message   *)
(* passed every gate, Record; and the reaper.  Every Load, Store and       *)
(* Delete is one step here.  Allow and Record read the clock in the step   *)
(* of their first map operation, and use that reading in the later one;    *)
(* the reaper reads it in a step of its own, before the round it is for.   *)
(***************************************************************************)
EXTENDS Integers

CONSTANTS Matchers,          \* matcher names
          Users,             \* sender JIDs
          Everyone,          \* stands for the sender in a perMatcher key
          MatcherCooldowns,  \* values of ResolvedMatcher.CooldownDuration
          UserCooldowns,     \* values of Snapshot.UserCooldownDuration
          Expiry,            \* the reaper's "expiry" (an hour)
          MaxTime            \* bound on the clock, for TLC only

\* resolveCooldown turns zero and negative settings into a positive default.
ASSUME CooldownAssumption ==
    /\ Everyone \notin Users
    /\ MatcherCooldowns \subseteq Nat \ {0}
    /\ UserCooldowns \subseteq Nat \ {0}
    /\ Expiry \in Nat
    /\ MaxTime \in Nat

VARIABLES now,       \* the clock
          fired,     \* both maps: the last fire of every key that has an entry
          call,      \* the pipeline goroutine inside Allow ... Record
          reaper,    \* the reaper goroutine
          recorded,  \* history: the last time Record stored each key
          raced      \* history: keys stored while the reaper was deleting them

vars == <<now, fired, call, reaper, recorded, raced>>

-----------------------------------------------------------------------------
Time  == 0 .. MaxTime
Never == -1

\* Mutation of UserKey: the two parts of the key swapped.
UserKey_swapped(m, u) == <<u, m>>

\* The two maps have disjoint key sets, so one function holds both.
MatcherKey(m) == <<m, Everyone>>
UserKey(m, u) == <<m, u>>
MatcherKeys   == Matchers \X {Everyone}
UserKeys      == Matchers \X Users
Keys          == MatcherKeys \cup UserKeys

\* pc is where the goroutine is: "user" has passed the perMatcher gate,
\* "granted" has seen Allow return true, "store" is between Record's stores.
Calls == [pc : {"user", "granted", "store"}, m : Matchers, u : Users,
          at : Time, mc : MatcherCooldowns, uc : UserCooldowns]
Idle  == [pc |-> "idle"]

\* at is the clock reading of this round, left the keys Range has still to
\* visit, doomed the key found expired and not yet deleted.
Rounds  == [pc : {"matchers", "users"}, at : Time, left : SUBSET Keys,
            doomed : SUBSET Keys]
Resting == [pc |-> "idle", at |-> 0, left |-> {}, doomed |-> {}]

\* Does the entry of key k, read by Allow at time t, permit a fire?
OffCooldown(k, t, cooldown) ==
    k \in DOMAIN fired => t - fired[k] >= cooldown

Init == /\ now = 0
        /\ fired = [k \in {} |-> Never]
        /\ call = Idle
        /\ reaper = Resting
        /\ recorded = [k \in Keys |-> Never]
        /\ raced = {}

Tick == /\ now < MaxTime
        /\ now' = now + 1
        /\ UNCHANGED <<fired, call, reaper, recorded, raced>>

-----------------------------------------------------------------------------
(* The pipeline goroutine.                                                 *)

\* Allow reads the clock and finds the matcher off cooldown.  A refusal at
\* this gate changes nothing.
BeginAllow(m, u, mc, uc) ==
    /\ call = Idle
    /\ OffCooldown(MatcherKey(m), now, mc)
    /\ call' = [pc |-> "user", m |-> m, u |-> u, at |-> now,
                mc |-> mc, uc |-> uc]
    /\ UNCHANGED <<now, fired, reaper, recorded, raced>>

\* Mutation of AllowUser: the perUser entry is not looked up.
AllowUser_unchecked ==
    /\ call.pc = "user"
    /\ call' = [call EXCEPT !.pc = "granted"]
    /\ UNCHANGED <<now, fired, reaper, recorded, raced>>

\* The perUser entry permits the fire: Allow returns true.
AllowUser ==
    /\ call.pc = "user"
    /\ OffCooldown(UserKey(call.m, call.u), call.at, call.uc)
    /\ call' = [call EXCEPT !.pc = "granted"]
    /\ UNCHANGED <<now, fired, reaper, recorded, raced>>

\* The perUser entry is on cooldown: Allow returns false.
DenyUser ==
    /\ call.pc = "user"
    /\ ~OffCooldown(UserKey(call.m, call.u), call.at, call.uc)
    /\ call' = Idle
    /\ UNCHANGED <<now, fired, reaper, recorded, raced>>

\* The caller drops the message at a later gate and never calls Record.
Forgo == /\ call.pc = "granted"
         /\ call' = Idle
         /\ UNCHANGED <<now, fired, reaper, recorded, raced>>

\* Store time t under key k; the reaper may be about to delete that key.
Stored(k, t) ==
    /\ fired' = [j \in DOMAIN fired \cup {k} |-> IF j = k THEN t ELSE fired[j]]
    /\ recorded' = [recorded EXCEPT ![k] = t]
    /\ raced' = IF k \in reaper.doomed THEN raced \cup {k} ELSE raced \ {k}

\* Record reads the clock and stores the perMatcher entry ...
RecordMatcher ==
    /\ call.pc = "granted"
    /\ Stored(MatcherKey(call.m), now)
    /\ call' = [call EXCEPT !.pc = "store", !.at = now]
    /\ UNCHANGED <<now, reaper>>

\* ... and then the perUser entry with the same reading.
RecordUser ==
    /\ call.pc = "store"
    /\ Stored(UserKey(call.m, call.u), call.at)
    /\ call' = Idle
    /\ UNCHANGED <<now, reaper>>

-----------------------------------------------------------------------------
(* The reaper goroutine.  Range visits each key at most once; a key stored *)
(* after the round began is too young to be deleted in it, so it makes no  *)
(* difference that Range may skip it.                                      *)

\* A ticker event: read the clock and start to range over perMatcher.  A round
\* over empty maps would change nothing.
ReapBegin ==
    /\ reaper.pc = "idle" /\ DOMAIN fired # {}
    /\ reaper' = [pc |-> "matchers", at |-> now,
                  left |-> DOMAIN fired \cap MatcherKeys, doomed |-> {}]
    /\ UNCHANGED <<now, fired, call, recorded, raced>>

\* Mutation of ReapVisit: an entry exactly as old as the expiry is deleted.
ReapVisit_inclusive(k) ==
    /\ reaper.doomed = {}
    /\ k \in reaper.left
    /\ reaper' = [reaper EXCEPT
                    !.left = @ \ {k},
                    !.doomed = IF reaper.at - fired[k] >= Expiry
                               THEN {k} ELSE {}]
    /\ UNCHANGED <<now, fired, call, recorded, raced>>

\* Range loads the entry of k and the callback compares its age.
ReapVisit(k) ==
    /\ reaper.doomed = {}
    /\ k \in reaper.left
    /\ reaper' = [reaper EXCEPT
                    !.left = @ \ {k},
                    !.doomed = IF reaper.at - fired[k] > Expiry
                               THEN {k} ELSE {}]
    /\ UNCHANGED <<now, fired, call, recorded, raced>>

\* The callback deletes the key, whatever its entry holds by now.
ReapDelete ==
    /\ reaper.doomed # {}
    /\ fired' = [j \in DOMAIN fired \ reaper.doomed |-> fired[j]]
    /\ reaper' = [reaper EXCEPT !.doomed = {}]
    /\ UNCHANGED <<now, call, recorded, raced>>

\* Mutation of ReapUsers: perUser is never ranged over.
ReapUsers_skipped ==
    /\ reaper.pc = "matchers"
    /\ reaper.left = {} /\ reaper.doomed = {}
    /\ reaper' = Resting
    /\ UNCHANGED <<now, fired, call, recorded, raced>>

\* perMatcher is done: range over perUser.
ReapUsers ==
    /\ reaper.pc = "matchers"
    /\ reaper.left = {} /\ reaper.doomed = {}
    /\ reaper' = [reaper EXCEPT !.pc = "users",
                                !.left = DOMAIN fired \cap UserKeys]
    /\ UNCHANGED <<now, fired, call, recorded, raced>>

\* perUser is done: wait for the next ticker event.
ReapEnd ==
    /\ reaper.pc = "users"
    /\ reaper.left = {} /\ reaper.doomed = {}
    /\ reaper' = Resting
    /\ UNCHANGED <<now, fired, call, recorded, raced>>

-----------------------------------------------------------------------------
Pipeline == \/ \E m \in Matchers, u \in Users,
                  mc \in MatcherCooldowns, uc \in UserCooldowns :
                    BeginAllow(m, u, mc, uc)
            \/ AllowUser
            \/ DenyUser
            \/ Forgo
            \/ RecordMatcher
            \/ RecordUser

Reaper == \/ ReapBegin
          \/ \E k \in Keys : ReapVisit(k)
          \/ ReapDelete
          \/ ReapUsers
          \/ ReapEnd

Next == Tick \/ Pipeline \/ Reaper

\* The ticker keeps firing and the reaper is never starved.
Spec == Init /\ [][Next]_vars /\ WF_vars(Reaper)

-----------------------------------------------------------------------------
(* Every variable holds a value of its type: cooldown.go's maps hold only  *)
(* clock readings, and the reaper deletes one key at a time.               *)
TypeOK ==
    /\ now \in Time
    /\ DOMAIN fired \subseteq Keys
    /\ fired \in [DOMAIN fired -> Time]
    /\ call \in Calls \cup {Idle}
    /\ reaper \in Rounds \cup {Resting}
    /\ recorded \in [Keys -> Time \cup {Never}]
    /\ raced \subseteq Keys

\* Key k does not forbid a fire that Allow judged at time t under cooldown c,
\* unless the reaper made the tracker forget it.
Respected(k, t, c) ==
    \/ recorded[k] = Never
    \/ t - recorded[k] >= c
    \/ now - recorded[k] > Expiry
    \/ k \in raced

(* What Allow promises its caller (cooldown.go:34): when it has returned   *)
(* true, the last Record of the matcher and the last Record of the matcher *)
(* and sender are each a full cooldown ago.  A fire the tracker forgot is  *)
(* excused only if it is older than the reaper's expiry or was recorded    *)
(* while the reaper was deleting the same key.                             *)
CooldownHeld ==
    call.pc = "granted" =>
        /\ Respected(MatcherKey(call.m), call.at, call.mc)
        /\ Respected(UserKey(call.m, call.u), call.at, call.uc)

(* The reaper (cooldown.go:91) forgets a fire only when the last Record of *)
(* its key is older than the expiry, or raced with the deletion.           *)
ForgottenOnlyWhenExpired ==
    [][\A k \in DOMAIN fired :
         k \notin DOMAIN fired' => \/ now - recorded[k] > Expiry
                                   \/ k \in raced]_vars

(* An entry past the expiry does not stay: it is deleted or refreshed, so  *)
(* the maps do not grow without bound (cooldown.go:71).                    *)
ExpiredReaped ==
    \A k \in Keys :
        (k \in DOMAIN fired /\ now - fired[k] > Expiry)
            ~> (k \notin DOMAIN fired \/ now - fired[k] <= Expiry)

-----------------------------------------------------------------------------
(* A claim of the documentation that the code does not keep.               *)

(* "a matcher cannot re-fire for any user until its cooldown expires"      *)
(* (REQUIREMENTS, COOLDOWN-01) and a Tracker whose methods "are safe for   *)
(* concurrent use" (cooldown.go:18): with every cooldown shorter than the  *)
(* expiry the reaper never makes the tracker forget a fire too early.      *)
NoEarlyRefire ==
    call.pc = "granted" =>
        \A k \in {MatcherKey(call.m), UserKey(call.m, call.u)} :
            \/ recorded[k] = Never
            \/ now - recorded[k] >= IF k \in MatcherKeys THEN call.mc
                                                        ELSE call.uc
=============================================================================
