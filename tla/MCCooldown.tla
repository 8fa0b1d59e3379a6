----------------------------- MODULE MCCooldown -----------------------------
(***************************************************************************)
(* Small instances of Cooldown for TLC.                                    *)
(***************************************************************************)
EXTENDS Cooldown

CONSTANTS m1, u1, u2
=============================================================================
