--------------------------- MODULE CooldownProofs ---------------------------
(***************************************************************************)
(* Proofs about Cooldown for every set of matchers and users, every        *)
(* cooldown and every expiry: TypeOK, CooldownHeld and                     *)
(* ForgottenOnlyWhenExpired hold of Spec.                                  *)
(***************************************************************************)
EXTENDS Cooldown, TLAPS

-----------------------------------------------------------------------------
(* The inductive invariant.                                                *)

\* No clock reading lies in the future.
PastReadings == /\ \A k \in Keys : recorded[k] <= now
                /\ call.pc # "idle" => call.at <= now
                /\ reaper.at <= now

\* An entry of the maps is the last thing Record stored under its key.
EntryCurrent(k) == fired[k] = recorded[k]

\* Why key k may be missing from the maps.
Excused(k) == \/ recorded[k] = Never
              \/ now - recorded[k] > Expiry
              \/ k \in raced

MapsOK == /\ \A k \in DOMAIN fired : EntryCurrent(k)
          /\ \A k \in Keys \ DOMAIN fired : Excused(k)

\* Only the reaper deletes, and what it is about to delete either was expired
\* when it looked, or has been stored again since.
ReaperOK ==
    /\ reaper.left \subseteq DOMAIN fired
    /\ reaper.left \cap reaper.doomed = {}
    /\ \A k \in reaper.doomed :
         \/ k \in raced
         \/ k \in DOMAIN fired /\ reaper.at - fired[k] > Expiry

\* Each gate that Allow has passed stays passed until the call ends.
CallOK ==
    /\ call.pc \in {"user", "granted"} =>
           Respected(MatcherKey(call.m), call.at, call.mc)
    /\ call.pc = "granted" =>
           Respected(UserKey(call.m, call.u), call.at, call.uc)

IInv == TypeOK /\ PastReadings /\ MapsOK /\ ReaperOK /\ CallOK

-----------------------------------------------------------------------------
LEMMA KeyTypes ==
    ASSUME NEW m \in Matchers, NEW u \in Users
    PROVE  /\ MatcherKey(m) \in Keys
           /\ UserKey(m, u) \in Keys
           /\ MatcherKey(m) # UserKey(m, u)
BY CooldownAssumption
   DEF MatcherKey, UserKey, MatcherKeys, UserKeys, Keys

LEMMA InitIInv == Init => IInv
BY CooldownAssumption
   DEF Init, IInv, TypeOK, PastReadings, MapsOK, EntryCurrent, Excused,
       ReaperOK, CallOK, Idle, Resting, Time, Never

\* What a store does to the maps, the history and the reaper's duties.
LEMMA StoredKeeps ==
    ASSUME IInv, NEW k \in Keys, NEW t \in Time, t <= now, Stored(k, t),
           UNCHANGED <<now, reaper>>
    PROVE  /\ DOMAIN fired' \subseteq Keys
           /\ fired' \in [DOMAIN fired' -> Time]
           /\ recorded' \in [Keys -> Time \cup {Never}]
           /\ raced' \subseteq Keys
           /\ \A j \in Keys : recorded'[j] <= now'
           /\ MapsOK'
           /\ ReaperOK'
<1>1. /\ DOMAIN fired' = DOMAIN fired \cup {k}
      /\ \A j \in DOMAIN fired' : fired'[j] = IF j = k THEN t ELSE fired[j]
    BY DEF Stored
<1>2. /\ DOMAIN fired' \subseteq Keys
      /\ fired' \in [DOMAIN fired' -> Time]
    BY <1>1 DEF IInv, TypeOK, Stored
<1>3. /\ recorded' \in [Keys -> Time \cup {Never}]
      /\ \A j \in Keys : recorded'[j] = IF j = k THEN t ELSE recorded[j]
    BY DEF IInv, TypeOK, Stored
<1>4. /\ raced' \subseteq Keys
      /\ \A j \in Keys : j # k => (j \in raced' <=> j \in raced)
      /\ k \in raced' <=> k \in reaper.doomed
    BY DEF IInv, TypeOK, Stored
<1>5. \A j \in Keys : recorded'[j] <= now'
    BY <1>3 DEF IInv, PastReadings
<1>6. MapsOK'
    BY <1>1, <1>2, <1>3, <1>4 DEF IInv, MapsOK, EntryCurrent, Excused
<1>7. ReaperOK'
    BY <1>1, <1>2, <1>4 DEF IInv, TypeOK, ReaperOK
<1> QED BY <1>2, <1>3, <1>4, <1>5, <1>6, <1>7

LEMMA NextIInv == IInv /\ [Next]_vars => IInv'
<1> SUFFICES ASSUME IInv, [Next]_vars PROVE IInv'
    OBVIOUS
<1> USE CooldownAssumption
<1>1. CASE Tick
  <2>1. TypeOK'
    BY <1>1 DEF IInv, TypeOK, Tick, Time
  <2>2. PastReadings' /\ MapsOK' /\ ReaperOK' /\ CallOK'
    BY <1>1 DEF IInv, TypeOK, Tick, Time, Never, PastReadings, MapsOK,
                EntryCurrent, Excused, ReaperOK, CallOK, Respected,
                Keys, MatcherKey, UserKey, MatcherKeys, UserKeys, Calls,
                Idle, Rounds, Resting
  <2> QED BY <2>1, <2>2 DEF IInv
<1>2. ASSUME NEW m \in Matchers, NEW u \in Users,
             NEW mc \in MatcherCooldowns, NEW uc \in UserCooldowns,
             BeginAllow(m, u, mc, uc)
      PROVE  IInv'
  <2>1. TypeOK'
    BY <1>2 DEF IInv, TypeOK, BeginAllow, Calls
  <2>2. PastReadings' /\ MapsOK' /\ ReaperOK'
    BY <1>2 DEF IInv, TypeOK, BeginAllow, PastReadings, MapsOK, EntryCurrent,
                Excused, ReaperOK, Time
  <2>3. Respected(MatcherKey(m), now, mc)
    BY <1>2, KeyTypes DEF IInv, TypeOK, BeginAllow, OffCooldown, MapsOK,
                          EntryCurrent, Excused, Respected
  <2>4. CallOK'
    BY <1>2, <2>3 DEF BeginAllow, CallOK, Respected
  <2> QED BY <2>1, <2>2, <2>4 DEF IInv
<1>3. CASE AllowUser
  <2>1. call \in Calls
    BY <1>3 DEF IInv, TypeOK, AllowUser, Idle
  <2>2. TypeOK'
    BY <1>3, <2>1 DEF IInv, TypeOK, AllowUser, Calls
  <2>3. PastReadings' /\ MapsOK' /\ ReaperOK'
    BY <1>3, <2>1 DEF IInv, TypeOK, AllowUser, Calls, PastReadings, MapsOK,
                      EntryCurrent, Excused, ReaperOK
  <2>4. Respected(UserKey(call.m, call.u), call.at, call.uc)
    BY <1>3, <2>1, KeyTypes
       DEF IInv, TypeOK, AllowUser, Calls, OffCooldown, MapsOK,
           EntryCurrent, Excused, Respected
  <2>5. CallOK'
    BY <1>3, <2>1, <2>4 DEF IInv, AllowUser, Calls, CallOK, Respected
  <2> QED BY <2>2, <2>3, <2>5 DEF IInv
<1>4. CASE DenyUser \/ Forgo
  BY <1>4 DEF IInv, TypeOK, DenyUser, Forgo, PastReadings, MapsOK,
              EntryCurrent, Excused, ReaperOK, CallOK, Idle
<1>5. CASE RecordMatcher
  <2>1. call \in Calls /\ now \in Time
    BY <1>5 DEF IInv, TypeOK, RecordMatcher, Idle
  <2>2. /\ Stored(MatcherKey(call.m), now)
        /\ MatcherKey(call.m) \in Keys
        /\ UNCHANGED <<now, reaper>>
    BY <1>5, <2>1, KeyTypes DEF RecordMatcher, Calls
  <2>3. /\ call' \in Calls /\ call'.pc = "store" /\ call'.at = now
    BY <1>5, <2>1 DEF RecordMatcher, Calls
  <2>4. now <= now
    BY <2>1 DEF Time
  <2>5. /\ DOMAIN fired' \subseteq Keys
        /\ fired' \in [DOMAIN fired' -> Time]
        /\ recorded' \in [Keys -> Time \cup {Never}]
        /\ raced' \subseteq Keys
        /\ \A j \in Keys : recorded'[j] <= now'
        /\ MapsOK'
        /\ ReaperOK'
    BY <2>1, <2>2, <2>4, StoredKeeps
  <2>6. TypeOK'
    BY <2>2, <2>3, <2>5 DEF IInv, TypeOK
  <2>7. PastReadings'
    BY <2>2, <2>3, <2>4, <2>5 DEF IInv, PastReadings
  <2>8. CallOK'
    BY <2>3 DEF CallOK
  <2> QED BY <2>5, <2>6, <2>7, <2>8 DEF IInv
<1>6. CASE RecordUser
  <2>1. call \in Calls /\ call.at \in Time /\ call.at <= now
    BY <1>6 DEF IInv, TypeOK, RecordUser, Idle, Calls, PastReadings
  <2>2. /\ Stored(UserKey(call.m, call.u), call.at)
        /\ UserKey(call.m, call.u) \in Keys
        /\ UNCHANGED <<now, reaper>>
        /\ call' = Idle
    BY <1>6, <2>1, KeyTypes DEF RecordUser, Calls
  <2>3. /\ DOMAIN fired' \subseteq Keys
        /\ fired' \in [DOMAIN fired' -> Time]
        /\ recorded' \in [Keys -> Time \cup {Never}]
        /\ raced' \subseteq Keys
        /\ \A j \in Keys : recorded'[j] <= now'
        /\ MapsOK'
        /\ ReaperOK'
    BY <2>1, <2>2, StoredKeeps
  <2>4. TypeOK' /\ PastReadings' /\ CallOK'
    BY <2>2, <2>3 DEF IInv, TypeOK, PastReadings, CallOK, Idle
  <2> QED BY <2>3, <2>4 DEF IInv
<1>7. CASE ReapBegin
  <2>1. TypeOK'
    BY <1>7 DEF IInv, TypeOK, ReapBegin, Rounds, Keys
  <2>2. PastReadings' /\ MapsOK' /\ ReaperOK' /\ CallOK'
    BY <1>7 DEF IInv, TypeOK, ReapBegin, PastReadings, MapsOK, EntryCurrent,
                Excused, ReaperOK, CallOK, Respected, Time
  <2> QED BY <2>1, <2>2 DEF IInv
<1>8. ASSUME NEW k \in Keys, ReapVisit(k) PROVE IInv'
  <2>1. reaper \in Rounds
    BY <1>8 DEF IInv, TypeOK, ReapVisit, Resting
  <2>2. /\ reaper' \in Rounds
        /\ reaper'.at = reaper.at
        /\ reaper'.left = reaper.left \ {k}
        /\ reaper'.doomed = IF reaper.at - fired[k] > Expiry THEN {k} ELSE {}
        /\ UNCHANGED <<now, fired, call, recorded, raced>>
    BY <1>8, <2>1 DEF ReapVisit, Rounds
  <2>3. TypeOK' /\ PastReadings' /\ MapsOK' /\ CallOK'
    BY <2>2 DEF IInv, TypeOK, PastReadings, MapsOK, EntryCurrent, Excused,
                CallOK, Respected
  <2>4. ReaperOK'
    BY <1>8, <2>2 DEF IInv, ReaperOK, ReapVisit
  <2> QED BY <2>3, <2>4 DEF IInv
<1>9. CASE ReapDelete
  <2>1. reaper \in Rounds
    BY <1>9 DEF IInv, TypeOK, ReapDelete, Resting
  <2>2. /\ reaper' \in Rounds
        /\ reaper'.at = reaper.at
        /\ reaper'.left = reaper.left
        /\ reaper'.doomed = {}
        /\ UNCHANGED <<now, call, recorded, raced>>
    BY <1>9, <2>1 DEF ReapDelete, Rounds
  <2>3. /\ DOMAIN fired' = DOMAIN fired \ reaper.doomed
        /\ \A j \in DOMAIN fired' : fired'[j] = fired[j]
        /\ fired' \in [DOMAIN fired' -> Time]
    BY <1>9 DEF IInv, TypeOK, ReapDelete
  <2>4. TypeOK' /\ PastReadings' /\ CallOK'
    BY <2>2, <2>3 DEF IInv, TypeOK, PastReadings, CallOK, Respected
  <2>5. \A k \in reaper.doomed : k \in Keys => Excused(k)
    BY <2>1 DEF IInv, TypeOK, Rounds, Time, Never, PastReadings, MapsOK,
                EntryCurrent, Excused, ReaperOK
  <2>6. MapsOK'
    BY <2>2, <2>3, <2>5 DEF IInv, TypeOK, MapsOK, EntryCurrent, Excused
  <2>7. ReaperOK'
    BY <2>2, <2>3 DEF IInv, ReaperOK
  <2> QED BY <2>4, <2>6, <2>7 DEF IInv
<1>10. CASE ReapUsers
  <2>1. reaper \in Rounds
    BY <1>10 DEF IInv, TypeOK, ReapUsers, Resting
  <2>2. TypeOK'
    BY <1>10, <2>1 DEF IInv, TypeOK, ReapUsers, Rounds, Keys
  <2>3. PastReadings' /\ MapsOK' /\ ReaperOK' /\ CallOK'
    BY <1>10, <2>1 DEF IInv, TypeOK, ReapUsers, Rounds, PastReadings, MapsOK,
                EntryCurrent, Excused, ReaperOK, CallOK, Respected
  <2> QED BY <2>2, <2>3 DEF IInv
<1>11. CASE ReapEnd
  BY <1>11 DEF IInv, TypeOK, ReapEnd, Resting, Time, PastReadings, MapsOK,
               EntryCurrent, Excused, ReaperOK, CallOK, Respected
<1>12. CASE UNCHANGED vars
  BY <1>12 DEF IInv, vars, TypeOK, PastReadings, MapsOK, EntryCurrent, Excused,
               ReaperOK, CallOK, Respected
<1> QED
  BY <1>1, <1>2, <1>3, <1>4, <1>5, <1>6, <1>7, <1>8, <1>9, <1>10, <1>11, <1>12
     DEF Next, Pipeline, Reaper

LEMMA SpecIInv == Spec => []IInv
<1>1. Init => IInv
    BY InitIInv
<1>2. IInv /\ [Next]_vars => IInv'
    BY NextIInv
<1> QED BY <1>1, <1>2, PTL DEF Spec

-----------------------------------------------------------------------------
(* Every value in the maps, in the two goroutines and in the history stays *)
(* of its type, whatever the matchers, users and cooldowns.                *)
THEOREM TypeCorrect == Spec => []TypeOK
<1>1. IInv => TypeOK
    BY DEF IInv
<1> QED BY <1>1, SpecIInv, PTL

(* When Allow has returned true, both cooldowns have run out, except for a *)
(* fire older than the reaper's expiry or one whose entry the reaper was   *)
(* deleting at the moment Record stored it (cooldown.go:40, 65, 91).       *)
THEOREM AllowedMeansCooledDown == Spec => []CooldownHeld
<1>1. IInv => CooldownHeld
    BY DEF IInv, CallOK, CooldownHeld
<1> QED BY <1>1, SpecIInv, PTL

\* What the reaper may forget in one step.
Forgets == \A k \in DOMAIN fired :
             k \notin DOMAIN fired' => \/ now - recorded[k] > Expiry
                                       \/ k \in raced

LEMMA ForgetsNext == IInv /\ [Next]_vars => [Forgets]_vars
<1> SUFFICES ASSUME IInv, Next PROVE Forgets
    OBVIOUS
<1> USE DEF Forgets
<1>1. CASE ReapDelete
  <2>1. reaper \in Rounds /\ DOMAIN fired' = DOMAIN fired \ reaper.doomed
    BY <1>1 DEF IInv, TypeOK, ReapDelete, Resting
  <2> QED BY <2>1, CooldownAssumption
             DEF IInv, TypeOK, Rounds, Time, PastReadings, MapsOK,
                 EntryCurrent, ReaperOK
<1>2. CASE RecordMatcher \/ RecordUser
  <2>1. DOMAIN fired \subseteq DOMAIN fired'
    BY <1>2 DEF RecordMatcher, RecordUser, Stored
  <2> QED BY <2>1
<1>3. CASE UNCHANGED fired
  BY <1>3
<1> QED BY <1>1, <1>2, <1>3
    DEF Next, Tick, Pipeline, Reaper, BeginAllow, AllowUser, DenyUser, Forgo,
        ReapBegin, ReapVisit, ReapUsers, ReapEnd

(* The reaper removes no entry younger than its expiry, unless the entry   *)
(* was stored between the reaper's look at the key and its Delete          *)
(* (cooldown.go:91-107).                                                   *)
THEOREM ReaperForgetsOnlyExpired == Spec => ForgottenOnlyWhenExpired
BY ForgetsNext, SpecIInv, PTL DEF Spec, ForgottenOnlyWhenExpired, Forgets
=============================================================================
