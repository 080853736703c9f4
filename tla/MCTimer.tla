------------------------------- MODULE MCTimer -------------------------------
(***************************************************************************)
(* The timers of the TLC runs of Timer.                                    *)
(***************************************************************************)
EXTENDS Timer

CONSTANTS k,         \* the client: the logical processor's thread
          i,         \* an identifier
          t1, t2, t3 \* room for three timers

(* Timers without a count, and timers that run once or twice. *)
Counts == {-1, 1, 2}
=============================================================================
