---------------------------- MODULE MCProcessor ----------------------------
(***************************************************************************)
(* The calls of the TLC runs of Processor.                                 *)
(***************************************************************************)
EXTENDS Processor

CONSTANTS h, n1, n2, l,   \* posts: HIGHT, NORMAL, NORMAL, LOW
          s, r, st, i,    \* sends: without limit (r again and again), timed,
                          \* from inside a task
          x               \* a Stop

MCPriority ==
  [c \in PostCall |-> IF c = h THEN "HIGHT" ELSE IF c = l THEN "LOW" ELSE "NORMAL"]

(* One thread posts n1, then n2. *)
MCAfter == {<<n1, n2>>} \cap (Call \X Call)
=============================================================================
