-------------------------- MODULE MCConfigWatcher --------------------------
(***************************************************************************)
(* A small instance of ConfigWatcher for TLC: valid files without a log    *)
(* level and with either of two, one that names a level and is rejected,   *)
(* and no file.                                                            *)
(***************************************************************************)
EXTENDS ConfigWatcher

CONSTANTS g1, g2, n1, n2, c1, c2, a1, a2, t1, t2

C == INSTANCE MCConfig

WatchedFiles ==
    {C!Plain, [C!Plain EXCEPT !.level = "debug"], [C!Plain EXCEPT !.level = "warn"],
     [C!Plain EXCEPT !.level = "debug", !.listeners = << >>], None}
=============================================================================
