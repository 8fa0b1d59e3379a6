---------------------------- MODULE ConfigWatcher ----------------------------
(***************************************************************************)
(* internal/config/watcher.go and store.go: how the store follows the      *)
(* configuration file.  Run's loop reacts to file-system events and, every *)
(* 30 seconds, to the modification time; pollOnly to the latter alone.     *)
(*                                                                         *)
(* An event arms a debounce timer, whose reload runs in a goroutine of its *)
(* own; a reload by the poll runs in the loop.  A reload opens the file,   *)
(* swaps the snapshot and sets the log level, one step each, while editors *)
(* go on saving and other reloads go on running.                           *)
(***************************************************************************)
EXTENDS ConfigRules, FiniteSets

CONSTANTS Files,         \* what may be saved, ill-formed files included
          Timers,        \* reloads of debounce timers that run at a time
          DefaultLevel,  \* the log level without configuration
          Nothing,       \* a reload that does not run
          MaxVersions,   \* bound on the versions of the file, for TLC only
          MaxMtime       \* bound on modification times, for TLC only

ASSUME WatcherAssumption ==
    /\ MaxVersions \in Nat \ {0} /\ MaxMtime \in Nat \ {0}
    /\ \E file \in Files : Load(file) # None
    /\ "poll" \notin Timers

VARIABLES written,     \* every version of the file; the last one is on disk
          mtime,       \* its modification time
          mode,        \* where Run is: see Modes
          lastMtime,   \* lastMtime of Run or of pollOnly; 0 is the zero time
          events,      \* events fsnotify has queued
          timer,       \* debounce is armed
          reloads,     \* the reloads in progress
          store,       \* the snapshot in the Store, and its version
          level,       \* levelVar
          ctxDone,     \* the context is cancelled
          told,        \* history: versions that the watcher has noticed
          lost,        \* history: versions that nothing points it to
          overlapped   \* history: reloads overlapped, none has loaded alone since

fileVars   == <<written, mtime>>
loopVars   == <<mode, lastMtime, events, timer>>
storeVars  == <<store, level>>
histVars   == <<told, lost, overlapped>>
vars == <<fileVars, loopVars, reloads, storeVars, ctxDone, histVars>>

-----------------------------------------------------------------------------
Reloaders == Timers \cup {"poll"}
Modes     == {"boot", "added", "events", "broken", "poll", "returned"}
Mtimes    == 1 .. MaxMtime

OnDisk  == written[Len(written)]
Exists  == OnDisk # None
Watches == mode \in {"added", "events"}

\* Run's goroutine is not inside a reload.
LoopFree == reloads["poll"] = Nothing

\* Something makes the watcher read the file that is on disk now.
Awaited ==
    \/ Watches /\ \E i \in DOMAIN events : events[i] = "change"
    \/ timer
    \/ \E r \in Reloaders : reloads[r] # Nothing /\ reloads[r].pc = "load"
    \/ mode \in {"events", "poll"} /\ Exists /\ mtime > lastMtime

\* app.Run has loaded the file before it starts the watcher.
Init == /\ \E file \in Files :
             /\ Load(file) # None
             /\ written = <<file>>
             /\ store = [version |-> 1, snap |-> Load(file)]
             /\ level = IF file.level # None THEN file.level ELSE DefaultLevel
        /\ mtime \in Mtimes
        /\ mode = "boot" /\ lastMtime = 0
        /\ events = << >> /\ timer = FALSE
        /\ reloads = [r \in Reloaders |-> Nothing]
        /\ ctxDone = FALSE
        /\ told = {} /\ lost = {} /\ overlapped = FALSE

-----------------------------------------------------------------------------
(* Somebody saves the file: in place, by renaming another into its place,  *)
(* or by removing it.  The event is a change, one that Run filters (of     *)
(* another kind, or for another name), or none reaches the directory.      *)

Save(file, time, event) ==
    /\ Len(written) < MaxVersions
    /\ written' = Append(written, file)
    /\ mtime' = time
    /\ events' = IF Watches /\ event # "none" THEN Append(events, event)
                 ELSE events
    /\ UNCHANGED <<mode, lastMtime, timer, reloads, storeVars, ctxDone, told,
                   overlapped>>
    /\ lost' = IF mode = "boot" \/ Awaited' THEN lost
               ELSE lost \cup {Len(written')}

-----------------------------------------------------------------------------
(* Run.                                                                    *)

\* NewWatcher and Add succeed; or one of them fails.
Watch ==
    /\ mode = "boot"
    /\ mode' \in {"added", "broken"}
    /\ UNCHANGED <<fileVars, lastMtime, events, timer, reloads, storeVars,
                   ctxDone, histVars>>

\* The modification time now is the one to compare with: a version that has not
\* been noticed by then is lost.
Baseline ==
    /\ \/ mode = "added" /\ mode' = "events"
       \/ mode = "broken" /\ mode' = "poll"
    /\ lastMtime' = IF Exists THEN mtime ELSE 0
    /\ UNCHANGED <<fileVars, events, timer, reloads, storeVars, ctxDone, told,
                   overlapped>>
    /\ lost' = IF \/ Len(written) \in told \cup {store.version}
                  \/ Awaited'
               THEN lost
               ELSE lost \cup {Len(written)}

\* An event arms the timer, or arms it anew, unless it is filtered.
HandleEvent ==
    /\ mode = "events" /\ LoopFree /\ events # << >>
    /\ events' = Tail(events)
    /\ \/ /\ Head(events) = "change"
          /\ timer' = TRUE
          /\ told' = told \cup {Len(written)}
       \/ Head(events) = "other" /\ UNCHANGED <<timer, told>>
    /\ UNCHANGED <<fileVars, mode, lastMtime, reloads, storeVars, ctxDone, lost,
                   overlapped>>

\* Mutation of Fail: the armed timer is stopped as well.
Fail_stopsTimer ==
    /\ mode = "events" /\ LoopFree
    /\ mode' = "broken"
    /\ events' = << >> /\ timer' = FALSE
    /\ UNCHANGED <<fileVars, lastMtime, reloads, storeVars, ctxDone, histVars>>

\* An error of fsnotify, or a closed channel: what was queued is not read.  An
\* armed timer stays armed.
Fail ==
    /\ mode = "events" /\ LoopFree
    /\ mode' = "broken"
    /\ events' = << >>
    /\ UNCHANGED <<fileVars, lastMtime, timer, reloads, storeVars, ctxDone,
                   histVars>>

\* Another reload than r is in progress.
Others(r) == \E q \in Reloaders \ {r} : reloads[q] # Nothing

\* A reload starts.
Begin(r) ==
    /\ reloads' = [reloads EXCEPT ![r] = [pc |-> "load"]]
    /\ overlapped' = (overlapped \/ Others(r))

\* The ticker: a newer modification time is remembered, and reloaded in place.
Poll ==
    /\ mode \in {"events", "poll"} /\ LoopFree
    /\ Exists /\ mtime > lastMtime
    /\ lastMtime' = mtime
    /\ told' = told \cup {Len(written)}
    /\ Begin("poll")
    /\ UNCHANGED <<fileVars, mode, events, timer, storeVars, ctxDone, lost>>

\* The timer runs out; its function runs in a new goroutine.
Fire(r) ==
    /\ timer /\ reloads[r] = Nothing
    /\ timer' = FALSE
    /\ Begin(r)
    /\ UNCHANGED <<fileVars, mode, lastMtime, events, storeVars, ctxDone, told, lost>>

Cancel == /\ ~ctxDone
          /\ ctxDone' = TRUE
          /\ UNCHANGED <<fileVars, loopVars, reloads, storeVars, histVars>>

\* Run returns.  An armed timer stays armed.
Return ==
    /\ mode \in {"events", "poll"} /\ LoopFree /\ ctxDone
    /\ mode' = "returned"
    /\ UNCHANGED <<fileVars, lastMtime, events, timer, reloads, storeVars,
                   ctxDone, histVars>>

-----------------------------------------------------------------------------
(* reload.                                                                 *)

\* The file has been loaded, or the reload ends.
Continue(r, next) ==
    /\ reloads' = [reloads EXCEPT ![r] = next]
    /\ overlapped' = (overlapped /\ (next = Nothing \/ Others(r)))

\* Mutation of LoadFile: after an error the first configuration is put back.
LoadFile_fallsBack(r) ==
    /\ reloads[r] # Nothing /\ reloads[r].pc = "load"
    /\ LET v == IF Load(OnDisk) # None THEN Len(written) ELSE 1
       IN  Continue(r, [pc |-> "swap", version |-> v, snap |-> Load(written[v])])
    /\ UNCHANGED <<fileVars, loopVars, storeVars, ctxDone, told, lost>>

\* Mutation of LoadFile: the checks of validate are logged only.
LoadFile_unchecked(r) ==
    /\ reloads[r] # Nothing /\ reloads[r].pc = "load"
    /\ Continue(r, IF OnDisk \in {None, Unreadable} THEN Nothing
                   ELSE [pc |-> "swap", version |-> Len(written),
                         snap |-> Resolve(OnDisk)])
    /\ UNCHANGED <<fileVars, loopVars, storeVars, ctxDone, told, lost>>

\* Mutation of LoadFile: the level is set before the other checks are made.
LoadFile_levelFirst(r) ==
    /\ reloads[r] # Nothing /\ reloads[r].pc = "load"
    /\ LET snap == Load(OnDisk)
       IN  Continue(r, IF snap = None THEN Nothing
                       ELSE [pc |-> "swap", version |-> Len(written), snap |-> snap])
    /\ level' = IF OnDisk \notin {None, Unreadable} THEN OnDisk.level ELSE level
    /\ UNCHANGED <<fileVars, loopVars, store, ctxDone, told, lost>>

\* A file that cannot be loaded ends the reload.
LoadFile(r) ==
    /\ reloads[r] # Nothing /\ reloads[r].pc = "load"
    /\ LET snap == Load(OnDisk)
       IN  Continue(r, IF snap = None THEN Nothing
                       ELSE [pc |-> "swap", version |-> Len(written), snap |-> snap])
    /\ UNCHANGED <<fileVars, loopVars, storeVars, ctxDone, told, lost>>

\* store.Swap.
Swap(r) ==
    /\ reloads[r] # Nothing /\ reloads[r].pc = "swap"
    /\ store' = [version |-> reloads[r].version, snap |-> reloads[r].snap]
    /\ reloads' = [reloads EXCEPT ![r].pc = "level"]
    /\ UNCHANGED <<fileVars, loopVars, level, ctxDone, histVars>>

\* levelVar.Set, if the configuration names a level.
SetLevel(r) ==
    /\ reloads[r] # Nothing /\ reloads[r].pc = "level"
    /\ LET set == reloads[r].snap.level
       IN  level' = IF set # None THEN set ELSE level
    /\ reloads' = [reloads EXCEPT ![r] = Nothing]
    /\ UNCHANGED <<fileVars, loopVars, store, ctxDone, histVars>>

Reload(r) == LoadFile(r) \/ Swap(r) \/ SetLevel(r)

-----------------------------------------------------------------------------
Next == \/ \E file \in Files, time \in Mtimes, event \in {"change", "other", "none"} :
             Save(file, time, event)
        \/ Watch \/ Baseline \/ HandleEvent \/ Fail \/ Poll
        \/ Cancel \/ Return
        \/ \E r \in Timers : Fire(r)
        \/ \E r \in Reloaders : Reload(r)

\* Run, its timers and their reloads go on; nobody has to save, and fsnotify
\* does not have to fail.
Fairness == /\ WF_vars(Watch) /\ WF_vars(Baseline)
            /\ WF_vars(HandleEvent) /\ WF_vars(Poll)
            /\ WF_vars(\E r \in Timers : Fire(r))
            /\ \A r \in Reloaders : WF_vars(Reload(r))

Spec == Init /\ [][Next]_vars /\ Fairness

-----------------------------------------------------------------------------
Snaps == {Load(file) : file \in Files} \ {None}

InProgress ==
    [pc : {"load"}]
    \cup [pc : {"swap", "level"}, version : 1 .. MaxVersions, snap : Snaps]

ASSUME NothingAssumption == Nothing \notin InProgress

(* Every variable holds a value of its type.                               *)
TypeOK ==
    /\ written \in Seq(Files) /\ Len(written) \in 1 .. MaxVersions
    /\ mtime \in Mtimes /\ lastMtime \in Mtimes \cup {0}
    /\ mode \in Modes
    /\ events \in Seq({"change", "other"})
    /\ timer \in BOOLEAN /\ ctxDone \in BOOLEAN /\ overlapped \in BOOLEAN
    /\ reloads \in [Reloaders -> InProgress \cup {Nothing}]
    /\ store \in [version : 1 .. MaxVersions, snap : Snaps]
    /\ level \in Levels \cup {DefaultLevel}
    /\ told \subseteq 1 .. MaxVersions /\ lost \subseteq 1 .. MaxVersions

(* Whatever is on disk while it is being saved, the store holds what one   *)
(* version of the file validates to (watcher.go:128-134): never a mixture  *)
(* of two, and never a file that was rejected.                             *)
HoldsAVersion ==
    /\ store.snap # None
    /\ store.snap = Load(written[store.version])

(* The store does not go back to an older file, unless reloads overlapped  *)
(* (store.go:25 says that only the watcher goroutine swaps; the timers'    *)
(* functions do as well).                                                  *)
OnlyForward ==
    [][store'.version < store.version => overlapped]_vars

(* With no reload in progress the log level is the one of the snapshot in  *)
(* the store, if that names one (watcher.go:134-138), unless reloads       *)
(* overlapped and nothing has been loaded since.                           *)
LevelAgrees ==
    (~overlapped /\ \A r \in Reloaders : reloads[r] = Nothing) =>
        store.snap.level \in {None, level}

(* An edit takes effect without a restart (README.md:209): once the file   *)
(* stays as it is, and is valid, the store ends up with it, through every  *)
(* failure of fsnotify and however saves and reloads interleave.  Excused  *)
(* are versions of which neither an event nor a newer modification time    *)
(* tells, overlapping reloads, and the shutdown.                           *)
FollowsFile ==
    <>[](Load(OnDisk) # None =>
            \/ store.version = Len(written)
            \/ Len(written) \in lost
            \/ overlapped \/ ctxDone)
=============================================================================
