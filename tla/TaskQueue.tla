----------------------------- MODULE TaskQueue -----------------------------
(***************************************************************************)
(* What an RWQueue promises to its one reader and its many writers, with   *)
(* no nodes and no mutex: a sequence of values.  It is the queue that      *)
(* module Processor has in place of an RWQueue.                            *)
(*                                                                         *)
(* A push has two steps.  With the first the value is in the queue, for    *)
(* empty() and front() to see; with the second size() counts it.  No       *)
(* second push comes in between.                                           *)
(***************************************************************************)
EXTENDS Integers, Sequences

CONSTANTS
  Value,    \* what is pushed
  Modulus   \* size() counts modulo this

VARIABLES
  items,    \* the values in the queue
  counting, \* whether a push has been seen and not been counted
  told      \* the reader's last question and its answer

vars == <<items, counting, told>>

Init ==
  /\ items = <<>>
  /\ counting = FALSE
  /\ told = <<"nothing">>

Append1(v) ==
  /\ ~counting
  /\ items' = Append(items, v)
  /\ counting' = TRUE
  /\ UNCHANGED told

Count1 ==
  /\ counting
  /\ counting' = FALSE
  /\ UNCHANGED <<items, told>>

Empty ==
  /\ told' = <<"empty", items = <<>> >>
  /\ UNCHANGED <<items, counting>>

ReadSize ==
  /\ told' = <<"size", (Len(items) - (IF counting THEN 1 ELSE 0)) % Modulus>>
  /\ UNCHANGED <<items, counting>>

Front ==
  /\ items # <<>>
  /\ told' = <<"front", Head(items)>>
  /\ UNCHANGED <<items, counting>>

Pop ==
  /\ items # <<>>
  /\ items' = Tail(items)
  /\ UNCHANGED <<counting, told>>

Next ==
  \/ \E v \in Value : Append1(v)
  \/ Count1 \/ Empty \/ ReadSize \/ Front \/ Pop

Spec == Init /\ [][Next]_vars
=============================================================================
