---------------------------- MODULE MCRateLimiter ----------------------------
(***************************************************************************)
(* A small instance of RateLimiter for TLC: a window of two units inside a *)
(* window of four, and caps that bind in each window, in both, or in none. *)
(***************************************************************************)
EXTENDS RateLimiter

MCCaps == {[perMin |-> 1, perHour |-> 2], [perMin |-> 2, perHour |-> 3],
           [perMin |-> 0, perHour |-> 2], [perMin |-> 2, perHour |-> 0]}
=============================================================================
