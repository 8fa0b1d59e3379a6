--------------------------- MODULE WatcherProofs ---------------------------
(***************************************************************************)
(* Proofs about ConfigWatcher for any files, timers and bounds: TypeOK,    *)
(* HoldsAVersion, OnlyForward and LevelAgrees hold of Spec.                *)
(***************************************************************************)
EXTENDS ConfigWatcher, TLAPS

-----------------------------------------------------------------------------
(* The inductive invariant.                                                *)

Running(r) == reloads[r] # Nothing

\* What a reload has loaded is a version of the file that is valid.
LoadedFrom(version, snap) ==
    /\ version \in DOMAIN written
    /\ snap = Load(written[version])
    /\ snap # None

ReloadsOK == \A r \in Reloaders :
                 (Running(r) /\ reloads[r].pc \in {"swap", "level"}) =>
                     LoadedFrom(reloads[r].version, reloads[r].snap)

StoreOK == LoadedFrom(store.version, store.snap)

\* Without overlap one reload is in progress at a time; what it has loaded is not
\* older than what is in the store, and then is what is in the store.
Alone == ~overlapped =>
             /\ \A q, r \in Reloaders : (Running(q) /\ Running(r)) => q = r
             /\ \A r \in Reloaders :
                  Running(r) =>
                    /\ reloads[r].pc = "swap" => reloads[r].version >= store.version
                    /\ reloads[r].pc = "level" => reloads[r].snap = store.snap

Agreement == store.snap.level \in {None, level}

\* The level is that of the store, or it is still going to be set.
LevelOK == ~overlapped =>
               \/ Agreement
               \/ \E r \in Reloaders : Running(r) /\ reloads[r].pc \in {"swap", "level"}

IInv == TypeOK /\ ReloadsOK /\ StoreOK /\ Alone /\ LevelOK

-----------------------------------------------------------------------------
\* The level of a snapshot is one that validate has accepted.
LEMMA LoadedLevel ==
    ASSUME NEW file, Load(file) # None
    PROVE  /\ Load(file).level = file.level
           /\ Load(file).level \in Levels \cup {None}
BY DEF Load, Resolve, Accepts

LEMMA InitIInv == Init => IInv
<1> SUFFICES ASSUME Init PROVE IInv
    OBVIOUS
<1> USE DEF Init
<1>1. PICK file \in Files : /\ Load(file) # None
                            /\ written = <<file>>
                            /\ store = [version |-> 1, snap |-> Load(file)]
                            /\ level = IF file.level # None THEN file.level
                                       ELSE DefaultLevel
      OBVIOUS
<1>2. StoreOK
      BY <1>1 DEF StoreOK, LoadedFrom
<1>3. TypeOK
      <2>1. written \in Seq(Files) /\ Len(written) = 1
            BY <1>1
      <2>2. store \in [version : 1 .. MaxVersions, snap : Snaps]
            BY <1>1, WatcherAssumption DEF Snaps
      <2>3. level \in Levels \cup {DefaultLevel}
            BY <1>1, LoadedLevel
      <2>4. reloads \in [Reloaders -> InProgress \cup {Nothing}]
            OBVIOUS
      <2>5. events \in Seq({"change", "other"})
            OBVIOUS
      <2>6. Len(written) \in 1 .. MaxVersions
            BY <2>1, WatcherAssumption
      <2>7. QED  BY <2>1, <2>2, <2>3, <2>4, <2>5, <2>6 DEF TypeOK, Modes
<1>4. ReloadsOK /\ Alone
      BY DEF ReloadsOK, Alone, Running
<1>5. LevelOK
      BY <1>1, LoadedLevel DEF LevelOK, Agreement
<1>6. QED  BY <1>2, <1>3, <1>4, <1>5 DEF IInv

-----------------------------------------------------------------------------
(* Reloads: one lemma per step.                                            *)

LEMMA LoadStep ==
    ASSUME IInv, NEW r \in Reloaders, LoadFile(r)
    PROVE  IInv'
<1> USE DEF IInv
<1> DEFINE snap == Load(OnDisk)
           next == IF snap = None THEN Nothing
                   ELSE [pc |-> "swap", version |-> Len(written), snap |-> snap]
<1>1. /\ reloads' = [reloads EXCEPT ![r] = next]
      /\ overlapped' = (overlapped /\ (next = Nothing \/ Others(r)))
      /\ reloads \in [Reloaders -> InProgress \cup {Nothing}]
      /\ UNCHANGED <<fileVars, loopVars, storeVars, ctxDone, told, lost>>
      BY DEF LoadFile, Continue, TypeOK
<1>2. Len(written) \in DOMAIN written /\ Len(written) \in 1 .. MaxVersions
      /\ OnDisk \in Files
      BY DEF TypeOK, OnDisk
<1>3. next \in InProgress \cup {Nothing}
      BY <1>2 DEF InProgress, Snaps
<1>4. TypeOK'
      BY <1>1, <1>3
         DEF TypeOK, fileVars, loopVars, storeVars
<1>5. ReloadsOK'
      <2> SUFFICES ASSUME NEW q \in Reloaders, Running(q)',
                          reloads'[q].pc \in {"swap", "level"}
                   PROVE  LoadedFrom(reloads[q].version, reloads[q].snap)'
          BY DEF ReloadsOK
      <2>1. CASE q = r
            BY <2>1, <1>1, <1>2 DEF LoadedFrom, Running, OnDisk, fileVars
      <2>2. CASE q # r
            BY <2>2, <1>1 DEF ReloadsOK, LoadedFrom, Running, fileVars
      <2>3. QED  BY <2>1, <2>2
<1>6. StoreOK'
      BY <1>1 DEF StoreOK, LoadedFrom, fileVars, storeVars
<1>7. CASE overlapped'
      BY <1>4, <1>5, <1>6, <1>7 DEF Alone, LevelOK
<1>8. CASE ~overlapped' /\ ~overlapped
      <2>1. Alone'
            <3>1. \A q \in Reloaders : Running(q) => q = r
                  BY <1>8 DEF Alone, LoadFile, Running
            <3>2. \A q \in Reloaders : Running(q)' => q = r
                  BY <3>1, <1>1 DEF Running
            <3>3. Running(r)' => /\ reloads'[r].version = Len(written)
                                 /\ reloads'[r].pc = "swap"
                  BY <1>1 DEF Running
            <3>4. Len(written) >= store.version
                  BY DEF StoreOK, LoadedFrom, TypeOK
            <3>5. QED  BY <3>2, <3>3, <3>4, <1>1 DEF Alone, storeVars
      <2>2. LevelOK'
            <3>1. Agreement \/ Running(r)'
                  BY <1>8, <1>1 DEF LevelOK, Alone, LoadFile, Running
            <3>2. CASE Agreement
                  BY <3>2, <1>1 DEF LevelOK, Agreement, storeVars
            <3>3. CASE Running(r)'
                  <4>1. reloads'[r].pc = "swap"
                        BY <3>3, <1>1 DEF Running
                  <4>2. QED  BY <4>1, <3>3 DEF LevelOK
            <3>4. QED  BY <3>1, <3>2, <3>3
      <2>3. QED  BY <1>4, <1>5, <1>6, <2>1, <2>2
<1>9. CASE ~overlapped' /\ overlapped
      <2>1. next # Nothing /\ ~Others(r)
            BY <1>9, <1>1
      <2>2. \A q \in Reloaders : Running(q)' => q = r
            BY <2>1, <1>1 DEF Running, Others
      <2>3. Running(r)' /\ reloads'[r].pc = "swap"
            /\ reloads'[r].version = Len(written)
            BY <2>1, <1>1 DEF Running
      <2>4. Len(written) >= store.version
            BY DEF StoreOK, LoadedFrom, TypeOK
      <2>5. Alone'
            BY <2>2, <2>3, <2>4, <1>1 DEF Alone, storeVars
      <2>6. LevelOK'
            BY <2>3 DEF LevelOK
      <2>7. QED  BY <1>4, <1>5, <1>6, <2>5, <2>6
<1>10. QED  BY <1>7, <1>8, <1>9

LEMMA SwapStep ==
    ASSUME IInv, NEW r \in Reloaders, Swap(r)
    PROVE  IInv'
<1> USE DEF IInv
<1>1. /\ reloads[r] # Nothing /\ reloads[r].pc = "swap"
      /\ store' = [version |-> reloads[r].version, snap |-> reloads[r].snap]
      /\ reloads' = [reloads EXCEPT ![r].pc = "level"]
      /\ reloads \in [Reloaders -> InProgress \cup {Nothing}]
      /\ UNCHANGED <<fileVars, loopVars, level, ctxDone, histVars>>
      BY DEF Swap, TypeOK
<1>2. reloads[r] \in [pc : {"swap", "level"}, version : 1 .. MaxVersions, snap : Snaps]
      BY <1>1 DEF InProgress
<1>3. /\ reloads'[r].pc = "level"
      /\ reloads'[r].version = reloads[r].version
      /\ reloads'[r].snap = reloads[r].snap
      /\ \A q \in Reloaders \ {r} : reloads'[q] = reloads[q]
      BY <1>1, <1>2
<1>4. TypeOK'
      BY <1>1, <1>2 DEF TypeOK, InProgress, fileVars, loopVars, histVars
<1>5. LoadedFrom(reloads[r].version, reloads[r].snap)
      BY <1>1 DEF ReloadsOK, Running
<1>6. StoreOK'
      BY <1>1, <1>5 DEF StoreOK, LoadedFrom, fileVars
<1>7. ReloadsOK'
      BY <1>1, <1>3, <1>5 DEF ReloadsOK, LoadedFrom, Running, fileVars
<1>8. Alone'
      <2> SUFFICES ASSUME ~overlapped PROVE Alone'
          BY <1>1 DEF Alone, histVars
      <2>1. \A q \in Reloaders : Running(q)' => q = r
            BY <1>1, <1>3 DEF Alone, Running
      <2>2. QED  BY <2>1, <1>1, <1>3 DEF Alone
<1>9. LevelOK'
      <2>1. reloads'[r] # Nothing
            BY <1>1, <1>2, NothingAssumption DEF InProgress
      <2>2. QED  BY <2>1, <1>3 DEF LevelOK, Running
<1>10. QED  BY <1>4, <1>6, <1>7, <1>8, <1>9

LEMMA LevelStep ==
    ASSUME IInv, NEW r \in Reloaders, SetLevel(r)
    PROVE  IInv'
<1> USE DEF IInv
<1>1. /\ reloads[r] # Nothing /\ reloads[r].pc = "level"
      /\ level' = IF reloads[r].snap.level # None THEN reloads[r].snap.level ELSE level
      /\ reloads' = [reloads EXCEPT ![r] = Nothing]
      /\ reloads \in [Reloaders -> InProgress \cup {Nothing}]
      /\ UNCHANGED <<fileVars, loopVars, store, ctxDone, histVars>>
      BY DEF SetLevel, TypeOK
<1>2. LoadedFrom(reloads[r].version, reloads[r].snap)
      BY <1>1 DEF ReloadsOK, Running
<1>3. reloads[r].snap.level \in Levels \cup {None}
      BY <1>2, LoadedLevel DEF LoadedFrom
<1>4. TypeOK'
      BY <1>1, <1>3 DEF TypeOK, InProgress, fileVars, loopVars, histVars
<1>5. StoreOK' /\ ReloadsOK' /\ Alone'
      BY <1>1 DEF StoreOK, ReloadsOK, Alone, LoadedFrom, Running, fileVars, histVars
<1>6. LevelOK'
      <2> SUFFICES ASSUME ~overlapped PROVE Agreement'
          BY <1>1 DEF LevelOK, histVars
      <2>1. \A q \in Reloaders : Running(q) => q = r
            BY <1>1 DEF Alone, Running
      <2>2. reloads[r].snap = store.snap
            BY <1>1 DEF Alone, Running
      <2>3. QED  BY <2>2, <1>1, <1>3 DEF Agreement
<1>7. QED  BY <1>4, <1>5, <1>6

LEMMA BeginStep ==
    ASSUME IInv, NEW r \in Reloaders, reloads[r] = Nothing, Begin(r), TypeOK',
           UNCHANGED <<written, storeVars>>
    PROVE  IInv'
<1> USE DEF IInv
<1>1. /\ reloads' = [reloads EXCEPT ![r] = [pc |-> "load"]]
      /\ overlapped' = (overlapped \/ Others(r))
      /\ reloads \in [Reloaders -> InProgress \cup {Nothing}]
      BY DEF Begin, TypeOK
<1>2. ReloadsOK' /\ StoreOK'
      BY <1>1 DEF ReloadsOK, StoreOK, LoadedFrom, Running, storeVars
<1>3. CASE overlapped'
      BY <1>2, <1>3 DEF Alone, LevelOK
<1>4. CASE ~overlapped'
      <2>1. \A q \in Reloaders : ~Running(q)
            BY <1>1, <1>4 DEF Others, Running
      <2>2. \A q \in Reloaders : Running(q)' => q = r /\ reloads'[q].pc = "load"
            BY <2>1, <1>1 DEF Running
      <2>3. Alone'
            BY <2>2 DEF Alone
      <2>4. LevelOK'
            BY <2>1, <1>1, <1>4 DEF LevelOK, Agreement, storeVars
      <2>5. QED  BY <1>2, <2>3, <2>4
<1>5. QED  BY <1>3, <1>4

-----------------------------------------------------------------------------
(* All other steps leave the reloads and the store alone.                  *)

LEMMA SaveStep ==
    ASSUME IInv, NEW file \in Files, NEW time \in Mtimes,
           NEW event \in {"change", "other", "none"}, Save(file, time, event)
    PROVE  IInv'
<1> USE DEF IInv
<1>1. /\ written' = Append(written, file)
      /\ Len(written) < MaxVersions
      /\ written \in Seq(Files)
      BY DEF Save, TypeOK
<1>2. /\ written' \in Seq(Files)
      /\ Len(written') = Len(written) + 1
      /\ \A v \in DOMAIN written : v \in DOMAIN written' /\ written'[v] = written[v]
      BY <1>1
<1>3. \A version, snap : LoadedFrom(version, snap) => LoadedFrom(version, snap)'
      BY <1>2 DEF LoadedFrom
<1>4. TypeOK'
      <2>1. events' \in Seq({"change", "other"})
            BY DEF Save, TypeOK
      <2>2. Len(written') \in 1 .. MaxVersions
            BY <1>1, <1>2, WatcherAssumption DEF TypeOK
      <2>3. lost' \subseteq 1 .. MaxVersions
            BY <2>2 DEF Save, TypeOK
      <2>4. QED  BY <1>2, <2>1, <2>2, <2>3 DEF Save, TypeOK, storeVars
<1>5. ReloadsOK' /\ StoreOK'
      BY <1>3 DEF Save, ReloadsOK, StoreOK, Running, storeVars
<1>6. Alone' /\ LevelOK'
      BY DEF Save, Alone, LevelOK, Agreement, Running, storeVars
<1>7. QED  BY <1>4, <1>5, <1>6

LEMMA QuietStep ==
    ASSUME IInv, TypeOK', UNCHANGED <<written, reloads, storeVars, overlapped>>
    PROVE  IInv'
BY DEF IInv, ReloadsOK, StoreOK, Alone, LevelOK, Agreement, LoadedFrom, Running,
       storeVars

LEMMA LoopStep ==
    ASSUME IInv, Watch \/ Baseline \/ HandleEvent \/ Fail \/ Cancel \/ Return
    PROVE  IInv'
<1> USE DEF IInv, TypeOK
<1>1. Len(written) \in 1 .. MaxVersions
      OBVIOUS
<1>2. CASE Watch
      BY <1>2, QuietStep
         DEF Watch, Modes, fileVars, storeVars, histVars
<1>3. CASE Baseline
      BY <1>1, <1>3, QuietStep DEF Baseline, Modes, fileVars, storeVars
<1>4. CASE HandleEvent
      <2>1. events' \in Seq({"change", "other"})
            BY <1>4 DEF HandleEvent
      <2>2. told' \subseteq 1 .. MaxVersions /\ timer' \in BOOLEAN
            BY <1>1, <1>4 DEF HandleEvent
      <2>3. QED  BY <1>4, <2>1, <2>2, QuietStep
                 DEF HandleEvent, fileVars, storeVars
<1>5. CASE Fail
      BY <1>5, QuietStep DEF Fail, Modes, fileVars, storeVars, histVars
<1>6. CASE Cancel
      BY <1>6, QuietStep DEF Cancel, fileVars, loopVars, storeVars, histVars
<1>7. CASE Return
      BY <1>7, QuietStep DEF Return, Modes, fileVars, storeVars, histVars
<1>8. QED  BY <1>2, <1>3, <1>4, <1>5, <1>6, <1>7

LEMMA StartStep ==
    ASSUME IInv, Poll \/ \E r \in Timers : Fire(r)
    PROVE  IInv'
<1> USE DEF IInv
<1>1. Len(written) \in 1 .. MaxVersions
      BY DEF TypeOK
<1>2. ASSUME NEW r \in Reloaders, Begin(r)
      PROVE  /\ reloads' \in [Reloaders -> InProgress \cup {Nothing}]
             /\ overlapped' \in BOOLEAN
      BY <1>2 DEF Begin, TypeOK, InProgress, Others
<1>3. CASE Poll
      <2>1. "poll" \in Reloaders /\ reloads["poll"] = Nothing /\ Begin("poll")
            BY <1>3 DEF Poll, LoopFree, Reloaders
      <2>2. TypeOK'
            BY <1>1, <1>2, <1>3, <2>1 DEF Poll, TypeOK, fileVars, storeVars
      <2>3. QED  BY <1>3, <2>1, <2>2, BeginStep DEF Poll, fileVars, storeVars
<1>4. ASSUME NEW r \in Timers, Fire(r)
      PROVE  IInv'
      <2>1. r \in Reloaders /\ reloads[r] = Nothing /\ Begin(r)
            BY <1>4 DEF Fire, Reloaders
      <2>2. TypeOK'
            BY <1>2, <1>4, <2>1 DEF Fire, TypeOK, fileVars, storeVars
      <2>3. QED  BY <1>4, <2>1, <2>2, BeginStep DEF Fire, fileVars, storeVars
<1>5. QED  BY <1>3, <1>4

LEMMA NextIInv == IInv /\ [Next]_vars => IInv'
<1> SUFFICES ASSUME IInv, [Next]_vars PROVE IInv'
    OBVIOUS
<1>1. CASE UNCHANGED vars
      BY <1>1, QuietStep
         DEF vars, fileVars, loopVars, storeVars, histVars, IInv, TypeOK
<1>2. CASE \E file \in Files, time \in Mtimes, event \in {"change", "other", "none"} :
             Save(file, time, event)
      BY <1>2, SaveStep
<1>3. CASE Watch \/ Baseline \/ HandleEvent \/ Fail \/ Cancel \/ Return
      BY <1>3, LoopStep
<1>4. CASE Poll \/ \E r \in Timers : Fire(r)
      BY <1>4, StartStep
<1>5. CASE \E r \in Reloaders : Reload(r)
      BY <1>5, LoadStep, SwapStep, LevelStep DEF Reload
<1>6. QED  BY <1>1, <1>2, <1>3, <1>4, <1>5 DEF Next

LEMMA Invariance == Spec => []IInv
<1>1. QED  BY InitIInv, NextIInv, PTL DEF Spec

-----------------------------------------------------------------------------
(* Every variable keeps its type, whatever the files, timers and bounds.   *)
THEOREM TypeCorrect == Spec => []TypeOK
<1>1. IInv => TypeOK
      BY DEF IInv
<1>2. QED  BY <1>1, Invariance, PTL

(* The store always holds what one version of the file validates to        *)
(* (watcher.go:128-134).                                                   *)
THEOREM StoreHoldsAVersion == Spec => []HoldsAVersion
<1>1. IInv => HoldsAVersion
      BY DEF IInv, StoreOK, LoadedFrom, HoldsAVersion
<1>2. QED  BY <1>1, Invariance, PTL

(* Between reloads the log level is that of the snapshot, unless reloads   *)
(* have overlapped (watcher.go:134-138).                                   *)
THEOREM LevelFollows == Spec => []LevelAgrees
<1>1. IInv => LevelAgrees
      BY DEF IInv, LevelOK, Agreement, LevelAgrees, Running
<1>2. QED  BY <1>1, Invariance, PTL

(* A swap never puts an older version into the store, unless reloads have  *)
(* overlapped (watcher.go:135, store.go:25).                               *)
THEOREM StoreGoesForward == Spec => OnlyForward
<1>1. IInv /\ [Next]_vars => [store'.version < store.version => overlapped]_vars
      <2> SUFFICES ASSUME IInv, Next, store'.version < store.version
                   PROVE  overlapped
          OBVIOUS
      <2>1. store.version \in Nat
            BY DEF IInv, TypeOK
      <2>2. PICK r \in Reloaders : Swap(r)
            <3>1. CASE store' = store
                  BY <3>1, <2>1
            <3>2. CASE store' # store
                  BY <3>2 DEF Next, Reload, Save, Watch, Baseline, HandleEvent, Fail,
                              Poll, Fire, Cancel, Return, LoadFile, SetLevel, storeVars
            <3>3. QED  BY <3>1, <3>2
      <2>3. Running(r) /\ reloads[r].pc = "swap"
            /\ store'.version = reloads[r].version
            BY <2>2 DEF Swap, Running
      <2>4. reloads[r].version \in Nat
            BY <2>2, <2>3 DEF IInv, ReloadsOK, LoadedFrom, TypeOK
      <2>5. QED  BY <2>1, <2>3, <2>4 DEF IInv, Alone
<1>2. QED  BY <1>1, Invariance, PTL DEF Spec, OnlyForward
=============================================================================
