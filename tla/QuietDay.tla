------------------------------ MODULE QuietDay ------------------------------
(***************************************************************************)
(* What quiet hours promise, told as events: as the day goes round, the    *)
(* bot falls silent when the clock reaches the start of the window, and    *)
(* speaks again when it reaches the end.  IsActive answers the same from   *)
(* the time of day alone, on every day and on either side of midnight.     *)
(***************************************************************************)
EXTENDS QuietHours, TLAPS

VARIABLES clock,   \* the local time of day
          window,  \* the configured window
          silent   \* whether the last boundary passed was the start

vars == <<clock, window, silent>>

\* The story begins as a window opens.
Init == /\ window \in Windows
        /\ clock = window.start
        /\ silent = TRUE

\* The next time of day, with midnight after the last one.
Later == IF clock = Day - 1 THEN 0 ELSE clock + 1

\* A window that opens as it closes is taken to stay open.
Tick == /\ clock' = Later
        /\ silent' = CASE Later = window.start -> TRUE
                       [] Later # window.start /\ Later = window.end -> FALSE
                       [] OTHER -> silent
        /\ UNCHANGED window

Spec == Init /\ [][Tick]_vars

-----------------------------------------------------------------------------
(* IsActive (quiethours.go:17-51) is true exactly from each start of the   *)
(* window, included, to the next end, excluded, whether or not midnight    *)
(* lies between them.                                                      *)
ActiveFromStartToEnd == IsActive(clock, window) <=> silent

-----------------------------------------------------------------------------
\* The inductive invariant: the types are needed to compare the times.
IInv == /\ clock \in TimesOfDay
        /\ window \in Windows
        /\ silent \in BOOLEAN
        /\ ActiveFromStartToEnd

(* For a day of any length and every window, IsActive follows the          *)
(* boundaries of the window round the clock.                               *)
THEOREM ActiveCorrect == Spec => []ActiveFromStartToEnd
<1> USE DayAssumption, UnsetAssumption
<1>1. Init => IInv
    BY DEF Init, IInv, ActiveFromStartToEnd, IsActive, TimesOfDay, Windows
<1>2. IInv /\ [Tick]_vars => IInv'
  <2> SUFFICES ASSUME IInv, [Tick]_vars PROVE IInv'
      OBVIOUS
  <2>1. CASE Tick
    <3>1. /\ clock' \in TimesOfDay
          /\ window' \in Windows
          /\ silent' \in BOOLEAN
      <4>1. clock' \in TimesOfDay
        BY <2>1 DEF IInv, Tick, Later, TimesOfDay
      <4>2. window' \in Windows
        BY <2>1 DEF IInv, Tick
      <4>3. silent' \in BOOLEAN
        BY <2>1, Zenon DEF IInv, Tick
      <4> QED BY <4>1, <4>2, <4>3
    <3>2. /\ window.start \in TimesOfDay /\ window.end \in TimesOfDay
          /\ window # Unset /\ window' = window
      BY <2>1 DEF IInv, Tick, Windows
    <3>3. (IsActive(clock, window) <=> silent)'
      BY <2>1, <3>1, <3>2
         DEF IInv, ActiveFromStartToEnd, Tick, Later, IsActive, TimesOfDay
    <3> QED BY <3>1, <3>2, <3>3 DEF IInv, ActiveFromStartToEnd
  <2>2. CASE UNCHANGED vars
    BY <2>2 DEF IInv, vars, ActiveFromStartToEnd
  <2> QED BY <2>1, <2>2
<1>3. IInv => ActiveFromStartToEnd
    BY DEF IInv
<1> QED BY <1>1, <1>2, <1>3, PTL DEF Spec
=============================================================================
