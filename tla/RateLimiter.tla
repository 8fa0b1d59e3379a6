----------------------------- MODULE RateLimiter -----------------------------
(***************************************************************************)
(* internal/pipeline, type RateLimiter: sliding-window caps on the number  *)
(* of replies per minute and per hour.  Its mutex makes Allow and Record   *)
(* atomic, but they are two calls, each with a clock reading of its own:   *)
(* the pipeline asks, does other work, and records later.  The caps are    *)
(* arguments of Allow, so a configuration reload changes them between two  *)
(* calls while the logs stay.                                              *)
(***************************************************************************)
EXTENDS Integers, Sequences, FiniteSets

CONSTANTS Minute, Hour,  \* the two window lengths, in clock units
          Caps,          \* values of Limits.RateCap; 0 in a field: no cap
          None,          \* no permission is outstanding
          MaxTime,       \* bound on the clock, for TLC only
          MaxFires       \* bound on the fires recorded, for TLC only

ASSUME RateAssumption ==
    /\ Minute \in Nat /\ Hour \in Nat
    /\ Caps \subseteq [perMin : Nat, perHour : Nat]
    /\ None \notin Caps
    /\ MaxTime \in Nat /\ MaxFires \in Nat

VARIABLES now,        \* the clock
          minuteLog,  \* RateLimiter.minuteLog
          hourLog,    \* RateLimiter.hourLog
          grant,      \* the caps under which Allow returned true, until Record
          fires       \* history: every Record, with the caps it was allowed under

vars == <<now, minuteLog, hourLog, grant, fires>>

-----------------------------------------------------------------------------
Time == 0 .. MaxTime

\* Mutation of pruneOlderThan: an entry as old as the window is dropped.
pruneOlderThan_exclusive(log, at, window) ==
    LET young == {i \in DOMAIN log : log[i] > at - window}
    IN  IF young = {} THEN << >>
        ELSE SubSeq(log, CHOOSE i \in young : \A j \in young : i <= j, Len(log))

\* Mutation of pruneOlderThan: nothing is dropped.
pruneOlderThan_never(log, at, window) == log

\* The log from its first entry that is not older than the window; an entry
\* exactly as old as the window stays.
pruneOlderThan(log, at, window) ==
    LET young == {i \in DOMAIN log : log[i] >= at - window}
    IN  IF young = {} THEN << >>
        ELSE SubSeq(log, CHOOSE i \in young : \A j \in young : i <= j, Len(log))

\* Mutation of Full: the comparison is off by one.
Full_offByOne(log, cap) == cap > 0 /\ Len(log) > cap

\* A cap of zero is no cap.
Full(log, cap) == cap > 0 /\ Len(log) >= cap

Init == /\ now = 0
        /\ minuteLog = << >>
        /\ hourLog = << >>
        /\ grant = None
        /\ fires = << >>

Tick == /\ now < MaxTime
        /\ now' = now + 1
        /\ UNCHANGED <<minuteLog, hourLog, grant, fires>>

\* One of the pruned logs has reached its cap.
Exhausted(caps) == \/ Full(pruneOlderThan(minuteLog, now, Minute), caps.perMin)
                   \/ Full(pruneOlderThan(hourLog, now, Hour), caps.perHour)

\* Allow prunes both logs, whatever it answers.
Pruned == /\ minuteLog' = pruneOlderThan(minuteLog, now, Minute)
          /\ hourLog' = pruneOlderThan(hourLog, now, Hour)
          /\ UNCHANGED <<now, fires>>

\* Allow returns true.
Grant(caps) == /\ grant = None /\ ~Exhausted(caps)
               /\ Len(fires) < MaxFires
               /\ Pruned
               /\ grant' = caps

\* Allow returns false.
Refuse(caps) == /\ grant = None /\ Exhausted(caps)
                /\ Pruned
                /\ UNCHANGED grant

\* Mutation of Record: the hour window is forgotten.
Record_minuteOnly == /\ grant # None
                     /\ minuteLog' = Append(minuteLog, now)
                     /\ fires' = Append(fires, [at |-> now, caps |-> grant])
                     /\ grant' = None
                     /\ UNCHANGED <<now, hourLog>>

\* Mutation of Record: the end of the window is recorded, not the fire.
Record_deadline == /\ grant # None
                   /\ minuteLog' = Append(minuteLog, now + Minute)
                   /\ hourLog' = Append(hourLog, now + Hour)
                   /\ fires' = Append(fires, [at |-> now, caps |-> grant])
                   /\ grant' = None
                   /\ UNCHANGED now

\* Record appends a clock reading of its own to both logs.
Record == /\ grant # None
          /\ minuteLog' = Append(minuteLog, now)
          /\ hourLog' = Append(hourLog, now)
          /\ fires' = Append(fires, [at |-> now, caps |-> grant])
          /\ grant' = None
          /\ UNCHANGED now

Next == \/ Tick
        \/ \E caps \in Caps : Grant(caps)
        \/ \E caps \in Caps : Refuse(caps)
        \/ Record

Spec == Init /\ [][Next]_vars

-----------------------------------------------------------------------------
(* Every variable holds a value of its type: both logs hold clock readings.*)
TypeOK == /\ now \in Time
          /\ minuteLog \in Seq(Time)
          /\ hourLog \in Seq(Time)
          /\ grant \in Caps \cup {None}
          /\ fires \in Seq([at : Time, caps : Caps])

\* The first n fires of a history that a window ending at time t contains.
InWindow(history, n, t, window) ==
    {j \in 1 .. n : history[j].at >= t - window}

\* n fires are within the cap, where a cap of zero allows any number.
Within(n, cap) == cap > 0 => n <= cap

(* The caps hold (pipeline.go:263): at the moment of every fire, the       *)
(* window that ends there contains no more fires than the cap in force     *)
(* when that fire was allowed, itself included.  No window of the same     *)
(* length, wherever it starts, can then exceed the cap of its last fire:   *)
(* pruning, the boundary of the window, the time between Allow and Record, *)
(* and caps that change from call to call never let one through.           *)
WindowCap ==
    \A i \in 1 .. Len(fires) :
        /\ Within(Cardinality(InWindow(fires, i, fires[i].at, Minute)),
                  fires[i].caps.perMin)
        /\ Within(Cardinality(InWindow(fires, i, fires[i].at, Hour)),
                  fires[i].caps.perHour)

(* A permission stays good until it is used: whenever Allow has returned   *)
(* true and Record has not been called, one more fire fits both windows.   *)
RoomForGrant ==
    grant # None =>
        /\ Within(Cardinality(InWindow(fires, Len(fires), now, Minute)) + 1,
                  grant.perMin)
        /\ Within(Cardinality(InWindow(fires, Len(fires), now, Hour)) + 1,
                  grant.perHour)

(* Allow never refuses without cause (pipeline.go:291-296): whenever it    *)
(* would refuse, one of the windows, counted over everything ever recorded,*)
(* has reached its cap, so a quiet spell always restores the permission.   *)
RefusedOnlyAtCap ==
    \A caps \in Caps :
        Exhausted(caps) =>
          \/ ~Within(Cardinality(InWindow(fires, Len(fires), now, Minute)) + 1,
                     caps.perMin)
          \/ ~Within(Cardinality(InWindow(fires, Len(fires), now, Hour)) + 1,
                     caps.perHour)
=============================================================================
