----------------------------- MODULE QuietHours -----------------------------
(***************************************************************************)
(* internal/quiethours: is the bot to stay silent at this time of day?     *)
(* A time of day is a number of clock units after local midnight, in the   *)
(* configured time zone, below Day.  A window is Unset when the time zone  *)
(* is missing, or either bound is empty or not of the form "15:04".        *)
(***************************************************************************)
EXTENDS Integers

CONSTANTS Day,   \* clock units in a day
          Unset  \* no usable window is configured

ASSUME DayAssumption == Day \in Nat \ {0}

TimesOfDay == 0 .. Day - 1
Windows    == [start : TimesOfDay, end : TimesOfDay]

ASSUME UnsetAssumption == Unset \notin Windows

-----------------------------------------------------------------------------
\* Mutation of IsActive: the window includes its end.
IsActive_endInclusive(t, window) ==
    /\ window # Unset
    /\ IF window.start < window.end
       THEN window.start <= t /\ t <= window.end
       ELSE window.start <= t \/ t <= window.end

\* A window that starts before it ends lies within the day; any other window,
\* also one that ends when it starts, spans midnight.
IsActive(t, window) ==
    /\ window # Unset
    /\ IF window.start < window.end
       THEN window.start <= t /\ t < window.end
       ELSE window.start <= t \/ t < window.end
=============================================================================
