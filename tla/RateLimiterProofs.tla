-------------------------- MODULE RateLimiterProofs --------------------------
(***************************************************************************)
(* Proofs about RateLimiter for every pair of windows and every set of     *)
(* caps: TypeOK, RoomForGrant, WindowCap and RefusedOnlyAtCap hold of Spec.*)
(* The argument: each log is the end of the history of fires, what it has  *)
(* lost is older than its window, and so its length after pruning is the   *)
(* number of fires in the window.                                          *)
(***************************************************************************)
EXTENDS RateLimiter, SequenceTheorems, FiniteSetTheorems,
        WellFoundedInduction, TLAPS

-----------------------------------------------------------------------------
(* Pruning.                                                                *)

LEMMA SmallestNat ==
    ASSUME NEW T, T \subseteq Nat, T # {}
    PROVE  \E x \in T : \A y \in T : x <= y
<1> DEFINE R == OpToRel(<, Nat)
<1>1. \E x \in T : \A y \in T : ~ (<<y, x>> \in R)
    BY NatLessThanWellFounded, WFMin
<1>2. \A x, y \in Nat : y < x => <<y, x>> \in R
    BY Zenon DEF OpToRel
<1> HIDE DEF R
<1>3. PICK x \in T : \A y \in T : ~ (<<y, x>> \in R)
    BY <1>1
<1>4. \A y \in T : ~ (y < x)
    BY <1>2, <1>3, Zenon
<1> QED BY <1>4

\* pruneOlderThan keeps an end of the log, and drops old entries only; what it
\* keeps begins with an entry that is not old.
LEMMA Pruning ==
    ASSUME NEW log \in Seq(Time), NEW at \in Nat, NEW window \in Nat,
           NEW p, p = pruneOlderThan(log, at, window)
    PROVE  /\ p \in Seq(Time)
           /\ Len(p) <= Len(log)
           /\ \A i \in 1 .. Len(p) : p[i] = log[Len(log) - Len(p) + i]
           /\ \A j \in 1 .. Len(log) - Len(p) : log[j] < at - window
           /\ Len(p) > 0 => p[1] >= at - window
<1> DEFINE young == {i \in DOMAIN log : log[i] >= at - window}
<1>1. /\ Len(log) \in Nat
      /\ DOMAIN log = 1 .. Len(log)
      /\ \A i \in 1 .. Len(log) : log[i] \in Time /\ log[i] \in Int
    BY LenProperties, RateAssumption DEF Time
<1>2. CASE young = {}
  <2>1. p = << >>
    BY <1>2 DEF pruneOlderThan
  <2>2. \A j \in 1 .. Len(log) : log[j] < at - window
    BY <1>1, <1>2
  <2> QED BY <1>1, <2>1, <2>2, EmptySeq
<1>3. CASE young # {}
  <2> DEFINE first == CHOOSE i \in young : \A j \in young : i <= j
  <2>1. \E i \in young : \A j \in young : i <= j
    <3>1. young \subseteq Nat
      BY <1>1
    <3> HIDE DEF young
    <3> QED BY <1>3, <3>1, SmallestNat
  <2>2. first \in young /\ \A j \in young : first <= j
    BY <2>1
  <2>3. first \in 1 .. Len(log) /\ log[first] >= at - window
    BY <1>1, <2>2
  <2>4. p = SubSeq(log, first, Len(log))
    BY <1>3 DEF pruneOlderThan
  <2> HIDE DEF first
  <2>5. \A j \in 1 .. first - 1 : log[j] < at - window
    <3> SUFFICES ASSUME NEW j \in 1 .. first - 1, log[j] >= at - window
                 PROVE  FALSE
      <4>1. \A j \in 1 .. first - 1 : log[j] \in Int
        BY <1>1, <2>3
      <4> QED BY <4>1
    <3>1. j \in young
      BY <1>1, <2>3
    <3> QED BY <1>1, <2>2, <2>3, <3>1
  <2>6. /\ p \in Seq(Time)
        /\ Len(p) = Len(log) - first + 1
        /\ \A i \in 1 .. Len(log) - first + 1 : p[i] = log[first + i - 1]
    BY <1>1, <2>3, <2>4, SubSeqProperties
  <2>7. Len(log) - Len(p) = first - 1
    BY <1>1, <2>3, <2>6
  <2>8. \A i \in 1 .. Len(p) : p[i] = log[Len(log) - Len(p) + i]
    <3> SUFFICES ASSUME NEW i \in 1 .. Len(p)
                 PROVE  p[i] = log[Len(log) - Len(p) + i]
        OBVIOUS
    <3>1. first + i - 1 = Len(log) - Len(p) + i
      BY <1>1, <2>3, <2>7
    <3>2. p[i] = log[first + i - 1]
      BY <2>6
    <3> QED BY <3>1, <3>2
  <2>9. p[1] = log[first]
    <3>1. 1 \in 1 .. Len(log) - first + 1 /\ first + 1 - 1 = first
      BY <1>1, <2>3
    <3> QED BY <2>6, <3>1
  <2>10. Len(p) <= Len(log)
    BY <1>1, <2>3, <2>6
  <2> QED BY <2>3, <2>5, <2>6, <2>7, <2>8, <2>9, <2>10
<1> QED BY <1>2, <1>3

-----------------------------------------------------------------------------
(* The inductive invariant.                                                *)

FiresOrdered ==
    /\ \A j \in 1 .. Len(fires) : fires[j].at <= now
    /\ \A i, j \in 1 .. Len(fires) : i <= j => fires[i].at <= fires[j].at

\* The log is an end of the history, and what it lacks is before the cutoff.
EndOf(log, history, cutoff) ==
    /\ Len(log) <= Len(history)
    /\ \A i \in 1 .. Len(log) :
         log[i] = history[Len(history) - Len(log) + i].at
    /\ \A j \in 1 .. Len(history) - Len(log) : history[j].at < cutoff

Mirrors(log, window) == EndOf(log, fires, now - window)

IInv == /\ TypeOK
        /\ FiresOrdered
        /\ Mirrors(minuteLog, Minute)
        /\ Mirrors(hourLog, Hour)
        /\ RoomForGrant
        /\ WindowCap

LEMMA WindowFinite ==
    ASSUME NEW h, NEW n \in Nat, NEW t, NEW window
    PROVE  /\ IsFiniteSet(InWindow(h, n, t, window))
           /\ Cardinality(InWindow(h, n, t, window)) \in Nat
<1>1. IsFiniteSet(1 .. n)
    BY FS_Interval
<1>2. InWindow(h, n, t, window) \in SUBSET (1 .. n)
    BY DEF InWindow
<1> QED BY <1>1, <1>2, FS_Subset, FS_CardinalityType

\* The types the arithmetic below needs.
LEMMA FireTypes ==
    ASSUME TypeOK
    PROVE  /\ now \in Nat
           /\ Time \subseteq Int
           /\ Len(fires) \in Nat
           /\ \A j \in 1 .. Len(fires) : fires[j].at \in Int
<1> DEFINE Fire == [at : Time, caps : Caps]
<1>1. /\ Len(fires) \in Nat
      /\ \A j \in 1 .. Len(fires) : fires[j] \in Fire
  <2>1. fires \in Seq(Fire)
    BY DEF TypeOK
  <2> HIDE DEF Fire
  <2> QED BY <2>1, LenProperties, ElementOfSeq
<1> QED BY <1>1, RateAssumption DEF TypeOK, Time

\* The length of a pruned log is the number of fires in its window.
LEMMA PrunedLength ==
    ASSUME IInv, NEW log \in Seq(Time), NEW window \in Nat,
           Mirrors(log, window),
           NEW p, p = pruneOlderThan(log, now, window)
    PROVE  /\ p \in Seq(Time)
           /\ Mirrors(p, window)
           /\ Len(p) = Cardinality(InWindow(fires, Len(fires), now, window))
<1>1. /\ now \in Nat
      /\ Time \subseteq Int
      /\ Len(fires) \in Nat
      /\ Len(log) \in Nat
      /\ \A j \in 1 .. Len(fires) : fires[j].at \in Int
    BY FireTypes DEF IInv
<1>2. /\ p \in Seq(Time)
      /\ Len(p) <= Len(log)
      /\ \A i \in 1 .. Len(p) : p[i] = log[Len(log) - Len(p) + i]
      /\ \A j \in 1 .. Len(log) - Len(p) : log[j] < now - window
      /\ Len(p) > 0 => p[1] >= now - window
    BY <1>1, Pruning
<1>3. Len(p) \in Nat
    BY <1>2, LenProperties
<1>4. \A i \in 1 .. Len(p) : p[i] = fires[Len(fires) - Len(p) + i].at
  <2> SUFFICES ASSUME NEW i \in 1 .. Len(p)
               PROVE  p[i] = fires[Len(fires) - Len(p) + i].at
      OBVIOUS
  <2> DEFINE k == Len(log) - Len(p) + i
  <2>1. k \in 1 .. Len(log) /\ Len(fires) - Len(log) + k = Len(fires) - Len(p) + i
    BY <1>1, <1>2, <1>3
  <2>2. p[i] = log[k]
    BY <1>2
  <2> QED BY <2>1, <2>2 DEF Mirrors, EndOf
<1>5. \A j \in 1 .. Len(fires) - Len(p) : fires[j].at < now - window
  <2> SUFFICES ASSUME NEW j \in 1 .. Len(fires) - Len(p)
               PROVE  fires[j].at < now - window
      OBVIOUS
  <2>1. CASE j <= Len(fires) - Len(log)
    BY <1>1, <1>3, <2>1 DEF Mirrors, EndOf
  <2>2. CASE j > Len(fires) - Len(log)
    <3> DEFINE i == j - (Len(fires) - Len(log))
    <3>1. i \in 1 .. Len(log) - Len(p) /\ i \in 1 .. Len(log)
      BY <1>1, <1>2, <1>3, <2>2 DEF Mirrors, EndOf
    <3>2. log[i] = fires[j].at
      BY <1>1, <3>1 DEF Mirrors, EndOf
    <3> QED BY <1>2, <3>1, <3>2
  <2> QED BY <1>1, <1>3, <2>1, <2>2
<1>6. Mirrors(p, window)
    BY <1>1, <1>2, <1>3, <1>4, <1>5 DEF Mirrors, EndOf
<1>7. InWindow(fires, Len(fires), now, window)
        = Len(fires) - Len(p) + 1 .. Len(fires)
  <2>1. ASSUME NEW j \in Len(fires) - Len(p) + 1 .. Len(fires)
        PROVE  j \in 1 .. Len(fires) /\ fires[j].at >= now - window
    <3>1. Len(p) > 0 /\ Len(p) <= Len(fires)
      BY <1>1, <1>2, <1>3, <2>1 DEF Mirrors, EndOf
    <3>2. p[1] = fires[Len(fires) - Len(p) + 1].at
      BY <1>3, <1>4, <3>1
    <3>3. /\ Len(fires) - Len(p) + 1 \in 1 .. Len(fires)
          /\ j \in 1 .. Len(fires)
      BY <1>1, <1>3, <2>1, <3>1
    <3>4. fires[Len(fires) - Len(p) + 1].at <= fires[j].at
      BY <1>1, <1>3, <2>1, <3>3 DEF IInv, FiresOrdered
    <3>5. /\ fires[j].at \in Int
          /\ fires[Len(fires) - Len(p) + 1].at \in Int
      BY <1>1, <3>3
    <3> QED BY <1>1, <1>2, <3>1, <3>2, <3>3, <3>4, <3>5
  <2>2. ASSUME NEW j \in 1 .. Len(fires), fires[j].at >= now - window
        PROVE  j \in Len(fires) - Len(p) + 1 .. Len(fires)
    <3>1. fires[j].at \in Int
      BY <1>1
    <3> QED BY <1>1, <1>3, <1>5, <2>2, <3>1
  <2> QED BY <1>1, <1>3, <2>1, <2>2 DEF InWindow
<1>8. Len(p) = Cardinality(Len(fires) - Len(p) + 1 .. Len(fires))
  <2>1. Len(p) <= Len(fires)
    BY <1>1, <1>2, <1>3 DEF Mirrors, EndOf
  <2> DEFINE a == Len(fires) - Len(p) + 1
  <2>2. a \in Int /\ Len(fires) \in Int
    BY <1>1, <1>3
  <2>3. Cardinality(a .. Len(fires))
          = IF a > Len(fires) THEN 0 ELSE Len(fires) - a + 1
    BY <2>2, FS_Interval
  <2> QED BY <1>1, <1>3, <2>1, <2>3
<1> QED BY <1>2, <1>6, <1>7, <1>8

-----------------------------------------------------------------------------
LEMMA InitIInv == Init => IInv
BY RateAssumption, EmptySeq
   DEF Init, IInv, TypeOK, Time, FiresOrdered, Mirrors, EndOf,
       RoomForGrant, WindowCap

\* As time passes a window loses fires and gains none.
LEMMA WindowShrinks ==
    ASSUME IInv, NEW window \in Nat
    PROVE  Cardinality(InWindow(fires, Len(fires), now + 1, window))
             <= Cardinality(InWindow(fires, Len(fires), now, window))
<1>1. /\ now \in Nat
      /\ Len(fires) \in Nat
      /\ \A j \in 1 .. Len(fires) : fires[j].at \in Int
    BY FireTypes DEF IInv
<1>2. InWindow(fires, Len(fires), now + 1, window)
        \subseteq InWindow(fires, Len(fires), now, window)
    BY <1>1 DEF InWindow
<1> QED BY <1>1, <1>2, WindowFinite, FS_Subset

\* What Record does to the history.
LEMMA FireAppended ==
    ASSUME TypeOK, Record
    PROVE  /\ fires' \in Seq([at : Time, caps : Caps])
           /\ Len(fires') = Len(fires) + 1
           /\ \A j \in 1 .. Len(fires) : fires'[j] = fires[j]
           /\ fires'[Len(fires) + 1] = [at |-> now, caps |-> grant]
<1> DEFINE Fire == [at : Time, caps : Caps]
           fire == [at |-> now, caps |-> grant]
<1>1. fires \in Seq(Fire) /\ fire \in Fire /\ fires' = Append(fires, fire)
    BY DEF TypeOK, Record
<1> HIDE DEF Fire, fire
<1>2. /\ Append(fires, fire) \in Seq(Fire)
      /\ Len(Append(fires, fire)) = Len(fires) + 1
      /\ \A j \in 1 .. Len(fires) : Append(fires, fire)[j] = fires[j]
      /\ Append(fires, fire)[Len(fires) + 1] = fire
    BY <1>1, AppendProperties
<1> QED BY <1>1, <1>2 DEF Fire, fire

\* A fire at this moment adds exactly one to the window that ends now.
LEMMA FireCounted ==
    ASSUME IInv, Record, NEW window \in Nat
    PROVE  Cardinality(InWindow(fires', Len(fires) + 1, now, window))
             = Cardinality(InWindow(fires, Len(fires), now, window)) + 1
<1> DEFINE n == Len(fires)
<1>1. /\ now \in Nat
      /\ n \in Nat
      /\ \A j \in 1 .. n : fires[j].at \in Int
    BY FireTypes DEF IInv
<1>2. /\ \A j \in 1 .. n : fires'[j] = fires[j]
      /\ fires'[n + 1].at = now
    BY FireAppended DEF IInv
<1>3. n + 1 \notin InWindow(fires, n, now, window)
    BY <1>1 DEF InWindow
<1>4. InWindow(fires', n + 1, now, window)
        = InWindow(fires, n, now, window) \cup {n + 1}
  <2>1. now >= now - window
    BY <1>1
  <2>2. 1 .. n + 1 = (1 .. n) \cup {n + 1}
    BY <1>1
  <2> HIDE DEF n
  <2> QED BY <1>2, <2>1, <2>2 DEF InWindow
<1> HIDE DEF n
<1>5. /\ IsFiniteSet(InWindow(fires, n, now, window))
      /\ n + 1 \notin InWindow(fires, n, now, window)
    BY <1>1, <1>3, WindowFinite
<1> QED BY <1>4, <1>5, FS_AddElement DEF n

\* Recording the present keeps a log at the end of the history.
LEMMA RecordMirrors ==
    ASSUME IInv, Record, NEW log \in Seq(Time), NEW window \in Nat,
           Mirrors(log, window), NEW p, p = Append(log, now)
    PROVE  p \in Seq(Time) /\ EndOf(p, fires', now' - window)
<1>1. /\ now \in Nat /\ now \in Time /\ now' = now
      /\ Len(fires) \in Nat
      /\ Len(log) \in Nat
    BY FireTypes, LenProperties DEF IInv, TypeOK, Record
<1>2. /\ Len(fires') = Len(fires) + 1
      /\ \A j \in 1 .. Len(fires) : fires'[j] = fires[j]
      /\ fires'[Len(fires) + 1].at = now
    BY FireAppended DEF IInv
<1>3. /\ p \in Seq(Time)
      /\ Len(p) = Len(log) + 1
      /\ \A i \in 1 .. Len(log) : p[i] = log[i]
      /\ p[Len(log) + 1] = now
    BY <1>1, AppendProperties
<1>4. Len(p) <= Len(fires')
    BY <1>1, <1>2, <1>3 DEF Mirrors, EndOf
<1>5. ASSUME NEW i \in 1 .. Len(p)
      PROVE  p[i] = fires'[Len(fires') - Len(p) + i].at
  <2>1. Len(fires') - Len(p) + i = Len(fires) - Len(log) + i
    BY <1>1, <1>2, <1>3
  <2>2. CASE i <= Len(log)
    <3>1. i \in 1 .. Len(log) /\ Len(fires) - Len(log) + i \in 1 .. Len(fires)
      BY <1>1, <1>3, <2>2 DEF Mirrors, EndOf
    <3> QED BY <1>2, <1>3, <2>1, <3>1 DEF Mirrors, EndOf
  <2>3. CASE i = Len(log) + 1
    BY <1>1, <1>2, <1>3, <2>1, <2>3
  <2> QED BY <1>1, <1>3, <2>2, <2>3
<1>6. ASSUME NEW j \in 1 .. Len(fires') - Len(p)
      PROVE  fires'[j].at < now' - window
  <2>1. Len(fires') - Len(p) = Len(fires) - Len(log)
    BY <1>1, <1>2, <1>3
  <2>2. j \in 1 .. Len(fires) - Len(log) /\ j \in 1 .. Len(fires)
    BY <1>1, <2>1
  <2> QED BY <1>1, <1>2, <2>2 DEF Mirrors, EndOf
<1> QED BY <1>3, <1>4, <1>5, <1>6 DEF Mirrors, EndOf

-----------------------------------------------------------------------------
LEMMA NextIInv == IInv /\ [Next]_vars => IInv'
<1> SUFFICES ASSUME IInv, [Next]_vars PROVE IInv'
    OBVIOUS
<1> USE RateAssumption
<1>1. /\ now \in Nat
      /\ Len(fires) \in Nat
      /\ \A j \in 1 .. Len(fires) : fires[j].at \in Int
    BY FireTypes DEF IInv
<1>2. CASE Tick
  <2>1. TypeOK' /\ now' = now + 1
    BY <1>2 DEF IInv, TypeOK, Tick, Time
  <2>2. FiresOrdered'
    BY <1>1, <1>2 DEF IInv, FiresOrdered, Tick
  <2>3. Mirrors(minuteLog, Minute)' /\ Mirrors(hourLog, Hour)'
    <3>1. ASSUME NEW log \in Seq(Time), NEW window \in Nat,
                 Mirrors(log, window)
          PROVE  EndOf(log, fires, (now + 1) - window)
      <4>1. Len(log) \in Nat
        BY LenProperties
      <4>2. ASSUME NEW j \in 1 .. Len(fires) - Len(log)
            PROVE  fires[j].at < (now + 1) - window
        <5>1. fires[j].at \in Int /\ fires[j].at < now - window
          BY <1>1, <3>1, <4>1 DEF Mirrors, EndOf
        <5> QED BY <1>1, <5>1
      <4> QED BY <3>1, <4>2 DEF Mirrors, EndOf
    <3>2. /\ EndOf(minuteLog, fires, (now + 1) - Minute)
          /\ EndOf(hourLog, fires, (now + 1) - Hour)
      BY <3>1 DEF IInv, TypeOK
    <3>3. /\ minuteLog' = minuteLog /\ hourLog' = hourLog
          /\ fires' = fires /\ now' = now + 1
      BY <1>2 DEF Tick
    <3>4. /\ EndOf(minuteLog', fires', now' - Minute)
          /\ EndOf(hourLog', fires', now' - Hour)
      <4>1. /\ now' - Minute = (now + 1) - Minute
            /\ now' - Hour = (now + 1) - Hour
        BY <1>1, <3>3
      <4> QED BY <3>2, <3>3, <4>1
    <3> QED BY <3>4 DEF Mirrors
  <2>4. RoomForGrant'
    <3> SUFFICES ASSUME grant # None
                 PROVE  /\ Within(Cardinality(InWindow(fires, Len(fires), now + 1, Minute)) + 1,
                                  grant.perMin)
                        /\ Within(Cardinality(InWindow(fires, Len(fires), now + 1, Hour)) + 1,
                                  grant.perHour)
        BY <1>2 DEF RoomForGrant, Tick, InWindow
    <3>1. ASSUME NEW window \in Nat
          PROVE  /\ Cardinality(InWindow(fires, Len(fires), now + 1, window))
                       <= Cardinality(InWindow(fires, Len(fires), now, window))
                 /\ Cardinality(InWindow(fires, Len(fires), now + 1, window)) \in Nat
                 /\ Cardinality(InWindow(fires, Len(fires), now, window)) \in Nat
      BY <1>1, WindowShrinks, WindowFinite
    <3>2. grant \in [perMin : Nat, perHour : Nat]
      BY DEF IInv, TypeOK
    <3>3. grant.perMin \in Nat /\ grant.perHour \in Nat
      BY <3>2
    <3>4. /\ Within(Cardinality(InWindow(fires, Len(fires), now, Minute)) + 1,
                    grant.perMin)
          /\ Within(Cardinality(InWindow(fires, Len(fires), now, Hour)) + 1,
                    grant.perHour)
      BY DEF IInv, RoomForGrant
    <3>5. Within(Cardinality(InWindow(fires, Len(fires), now + 1, Minute)) + 1,
                 grant.perMin)
      <4> DEFINE later == Cardinality(InWindow(fires, Len(fires), now + 1, Minute))
                 today == Cardinality(InWindow(fires, Len(fires), now, Minute))
      <4>1. later \in Nat /\ today \in Nat /\ later <= today
        BY <3>1
      <4>2. Within(today + 1, grant.perMin)
        BY <3>4
      <4> HIDE DEF later, today
      <4>3. Within(later + 1, grant.perMin)
        BY <3>3, <4>1, <4>2 DEF Within
      <4> QED BY <4>3 DEF later
    <3>6. Within(Cardinality(InWindow(fires, Len(fires), now + 1, Hour)) + 1,
                 grant.perHour)
      <4> DEFINE later == Cardinality(InWindow(fires, Len(fires), now + 1, Hour))
                 today == Cardinality(InWindow(fires, Len(fires), now, Hour))
      <4>1. later \in Nat /\ today \in Nat /\ later <= today
        BY <3>1
      <4>2. Within(today + 1, grant.perHour)
        BY <3>4
      <4> HIDE DEF later, today
      <4>3. Within(later + 1, grant.perHour)
        BY <3>3, <4>1, <4>2 DEF Within
      <4> QED BY <4>3 DEF later
    <3> QED BY <3>5, <3>6
  <2>5. WindowCap'
    BY <1>2 DEF IInv, WindowCap, InWindow, Tick
  <2> QED BY <2>1, <2>2, <2>3, <2>4, <2>5 DEF IInv
<1>3. ASSUME NEW caps \in Caps, Grant(caps) \/ Refuse(caps)
      PROVE  IInv'
  <2>1. /\ minuteLog' = pruneOlderThan(minuteLog, now, Minute)
        /\ hourLog' = pruneOlderThan(hourLog, now, Hour)
        /\ UNCHANGED <<now, fires>>
    BY <1>3 DEF Grant, Refuse, Pruned
  <2>2. /\ minuteLog' \in Seq(Time)
        /\ Mirrors(minuteLog', Minute)
        /\ Len(minuteLog') = Cardinality(InWindow(fires, Len(fires), now, Minute))
    BY <2>1, PrunedLength DEF IInv, TypeOK
  <2>3. /\ hourLog' \in Seq(Time)
        /\ Mirrors(hourLog', Hour)
        /\ Len(hourLog') = Cardinality(InWindow(fires, Len(fires), now, Hour))
    BY <2>1, PrunedLength DEF IInv, TypeOK
  <2>4. TypeOK' /\ FiresOrdered' /\ WindowCap'
    BY <1>3, <2>1, <2>2, <2>3
       DEF IInv, TypeOK, FiresOrdered, WindowCap, InWindow, Grant, Refuse
  <2>5. Mirrors(minuteLog, Minute)' /\ Mirrors(hourLog, Hour)'
    BY <2>1, <2>2, <2>3 DEF Mirrors, EndOf
  <2>6. RoomForGrant'
    <3> SUFFICES ASSUME grant' # None
                 PROVE  /\ Within(Cardinality(InWindow(fires, Len(fires), now, Minute)) + 1,
                                  grant'.perMin)
                        /\ Within(Cardinality(InWindow(fires, Len(fires), now, Hour)) + 1,
                                  grant'.perHour)
        BY <2>1 DEF RoomForGrant, InWindow
    <3>1. CASE Grant(caps)
      <4>1. /\ grant' = caps /\ caps \in [perMin : Nat, perHour : Nat]
            /\ ~Full(minuteLog', caps.perMin) /\ ~Full(hourLog', caps.perHour)
        BY <2>1, <3>1, RateAssumption DEF Grant, Exhausted
      <4>2. Len(minuteLog') \in Nat /\ Len(hourLog') \in Nat
        BY <2>2, <2>3, LenProperties
      <4> QED BY <2>2, <2>3, <4>1, <4>2 DEF Full, Within
    <3>2. CASE Refuse(caps)
      BY <3>2 DEF Refuse
    <3> QED BY <1>3, <3>1, <3>2
  <2> QED BY <2>4, <2>5, <2>6 DEF IInv
<1>4. CASE Record
  <2>1. /\ fires' \in Seq([at : Time, caps : Caps])
        /\ Len(fires') = Len(fires) + 1
        /\ \A j \in 1 .. Len(fires) : fires'[j] = fires[j]
        /\ fires'[Len(fires) + 1] = [at |-> now, caps |-> grant]
    BY <1>4, FireAppended DEF IInv
  <2>2. minuteLog' \in Seq(Time) /\ Mirrors(minuteLog, Minute)'
    BY <1>4, RecordMirrors DEF IInv, TypeOK, Record, Mirrors
  <2>3. hourLog' \in Seq(Time) /\ Mirrors(hourLog, Hour)'
    BY <1>4, RecordMirrors DEF IInv, TypeOK, Record, Mirrors
  <2>4. TypeOK' /\ now' = now
    BY <1>4, <2>1, <2>2, <2>3 DEF IInv, TypeOK, Record
  <2>5. FiresOrdered'
    <3>1. /\ \A j \in 1 .. Len(fires) : fires'[j].at = fires[j].at
          /\ fires'[Len(fires) + 1].at = now
      BY <2>1
    <3>2. ASSUME NEW j \in 1 .. Len(fires) + 1
          PROVE  fires'[j].at <= now
      <4>1. CASE j \in 1 .. Len(fires)
        BY <3>1, <4>1 DEF IInv, FiresOrdered
      <4>2. CASE j = Len(fires) + 1
        BY <1>1, <3>1, <4>2
      <4> QED BY <1>1, <4>1, <4>2
    <3>3. ASSUME NEW i \in 1 .. Len(fires) + 1, NEW j \in 1 .. Len(fires) + 1,
                 i <= j
          PROVE  fires'[i].at <= fires'[j].at
      <4>1. CASE j \in 1 .. Len(fires)
        <5>1. i \in 1 .. Len(fires)
          BY <1>1, <3>3, <4>1
        <5> QED BY <3>1, <3>3, <4>1, <5>1 DEF IInv, FiresOrdered
      <4>2. CASE j = Len(fires) + 1
        BY <3>1, <3>2, <4>2
      <4> QED BY <1>1, <4>1, <4>2
    <3> QED BY <2>1, <2>4, <3>2, <3>3 DEF FiresOrdered
  <2>6. RoomForGrant'
    BY <1>4 DEF RoomForGrant, Record
  <2>7. WindowCap'
    <3> SUFFICES ASSUME NEW i \in 1 .. Len(fires')
                 PROVE  /\ Within(Cardinality(InWindow(fires', i, fires'[i].at, Minute)),
                                  fires'[i].caps.perMin)
                        /\ Within(Cardinality(InWindow(fires', i, fires'[i].at, Hour)),
                                  fires'[i].caps.perHour)
        BY DEF WindowCap
    <3>1. CASE i \in 1 .. Len(fires)
      <4>1. fires'[i] = fires[i]
        BY <2>1, <3>1
      <4>2. \A j \in 1 .. i : fires'[j] = fires[j]
        BY <1>1, <2>1, <3>1
      <4>3. \A t, window :
              InWindow(fires', i, t, window) = InWindow(fires, i, t, window)
        BY <4>2 DEF InWindow
      <4> QED BY <3>1, <4>1, <4>3 DEF IInv, WindowCap
    <3>2. CASE i = Len(fires) + 1
      <4>1. fires'[i].at = now /\ fires'[i].caps = grant /\ grant # None
        BY <1>4, <2>1, <3>2 DEF Record
      <4>2. \A window \in Nat :
              Cardinality(InWindow(fires', i, now, window))
                = Cardinality(InWindow(fires, Len(fires), now, window)) + 1
        BY <1>4, <3>2, FireCounted
      <4> QED BY <4>1, <4>2 DEF IInv, RoomForGrant
    <3> QED BY <1>1, <2>1, <3>1, <3>2
  <2> QED BY <2>2, <2>3, <2>4, <2>5, <2>6, <2>7 DEF IInv
<1>5. CASE UNCHANGED vars
  BY <1>5 DEF IInv, vars, TypeOK, FiresOrdered, Mirrors, EndOf,
              RoomForGrant,
              WindowCap, InWindow
<1> QED BY <1>2, <1>3, <1>4, <1>5 DEF Next

LEMMA SpecIInv == Spec => []IInv
<1> QED BY InitIInv, NextIInv, PTL DEF Spec

-----------------------------------------------------------------------------
(* The clock, both logs and the history stay of their types.               *)
THEOREM TypeCorrect == Spec => []TypeOK
<1>1. IInv => TypeOK
    BY DEF IInv
<1> QED BY <1>1, SpecIInv, PTL

(* A permission given by Allow stays good until Record uses it, however    *)
(* much time passes between the two calls (pipeline.go:281, 301).          *)
THEOREM PermissionKeeps == Spec => []RoomForGrant
<1>1. IInv => RoomForGrant
    BY DEF IInv
<1> QED BY <1>1, SpecIInv, PTL

(* No minute and no hour that ends with a fire contains more fires than    *)
(* the cap under which that fire was allowed (pipeline.go:263-308).        *)
THEOREM CapsHold == Spec => []WindowCap
<1>1. IInv => WindowCap
    BY DEF IInv
<1> QED BY <1>1, SpecIInv, PTL

(* Allow returns false only when the fires of the last minute or of the    *)
(* last hour have reached the cap (pipeline.go:291-296).                   *)
THEOREM NoNeedlessRefusal == Spec => []RefusedOnlyAtCap
<1>1. IInv => RefusedOnlyAtCap
  <2> DEFINE m == pruneOlderThan(minuteLog, now, Minute)
             h == pruneOlderThan(hourLog, now, Hour)
  <2> SUFFICES ASSUME IInv, NEW caps \in Caps, Exhausted(caps)
               PROVE  \/ ~Within(Cardinality(InWindow(fires, Len(fires), now, Minute)) + 1,
                                 caps.perMin)
                      \/ ~Within(Cardinality(InWindow(fires, Len(fires), now, Hour)) + 1,
                                 caps.perHour)
      BY DEF RefusedOnlyAtCap
  <2>1. /\ Len(m) = Cardinality(InWindow(fires, Len(fires), now, Minute))
        /\ m \in Seq(Time)
    BY PrunedLength, RateAssumption DEF IInv, TypeOK
  <2>2. /\ Len(h) = Cardinality(InWindow(fires, Len(fires), now, Hour))
        /\ h \in Seq(Time)
    BY PrunedLength, RateAssumption DEF IInv, TypeOK
  <2>3. Full(m, caps.perMin) \/ Full(h, caps.perHour)
    BY DEF Exhausted
  <2> HIDE DEF m, h
  <2>4. /\ Len(m) \in Nat /\ Len(h) \in Nat
        /\ caps.perMin \in Nat /\ caps.perHour \in Nat
    BY <2>1, <2>2, LenProperties, RateAssumption
  <2> QED BY <2>1, <2>2, <2>3, <2>4 DEF Full, Within
<1> QED BY <1>1, SpecIInv, PTL
=============================================================================
