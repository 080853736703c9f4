---------------------------- MODULE TaskService ----------------------------
(***************************************************************************)
(* What CProcessor promises to its callers, with no queue, no lock and no  *)
(* processor thread: a call is open from its issue to its answer, and the  *)
(* task it carries is executed at some point.                              *)
(*                                                                         *)
(*  - a task is executed at most once;                                     *)
(*  - a call that answers FALSE never has its task executed, neither       *)
(*    before nor after the answer;                                         *)
(*  - a synchronous call (SendTask) answers TRUE only once its task has    *)
(*    been executed, and its task is never executed after the answer.      *)
(*                                                                         *)
(* An asynchronous call (PostTask, Stop) may answer before its task runs.  *)
(***************************************************************************)
EXTENDS Naturals

CONSTANTS
  Sync,     \* calls that answer after their task
  Async,    \* calls that may answer before their task
  Repeat    \* calls issued again and again by their caller

VARIABLES
  answer,   \* answer[c]: "idle", "open", "true" or "false"
  executed  \* executed[c]: how often the task of the current issue of c ran

vars == <<answer, executed>>

Call == Sync \cup Async

Init ==
  /\ answer = [c \in Call |-> "idle"]
  /\ executed = [c \in Call |-> 0]

Issue(c) ==
  /\ answer[c] = "idle"
  /\ answer' = [answer EXCEPT ![c] = "open"]
  /\ UNCHANGED executed

Execute(c) ==
  /\ executed[c] = 0
  /\ answer[c] = "open" \/ (c \in Async /\ answer[c] = "true")
  /\ executed' = [executed EXCEPT ![c] = 1]
  /\ UNCHANGED answer

Accept(c) ==
  /\ answer[c] = "open"
  /\ c \in Sync => executed[c] = 1
  /\ answer' = [answer EXCEPT ![c] = "true"]
  /\ UNCHANGED executed

Refuse(c) ==
  /\ answer[c] = "open"
  /\ executed[c] = 0
  /\ answer' = [answer EXCEPT ![c] = "false"]
  /\ UNCHANGED executed

(* A refusal at once: the issue and the answer are one step. *)
Reject(c) ==
  /\ answer[c] = "idle"
  /\ answer' = [answer EXCEPT ![c] = "false"]
  /\ UNCHANGED executed

Reissue(c) ==
  /\ c \in Repeat
  /\ answer[c] = "true"
  /\ executed[c] = 1
  /\ answer' = [answer EXCEPT ![c] = "idle"]
  /\ executed' = [executed EXCEPT ![c] = 0]

(* A Stop that finds the processor stopping returns at once, and carries   *)
(* no task.                                                                *)
Skip(c) ==
  /\ c \in Async
  /\ answer[c] = "idle"
  /\ answer' = [answer EXCEPT ![c] = "true"]
  /\ UNCHANGED executed

Next ==
  \E c \in Call :
    \/ Issue(c) \/ Execute(c) \/ Accept(c) \/ Refuse(c)
    \/ Reject(c) \/ Reissue(c) \/ Skip(c)

Spec == Init /\ [][Next]_vars
=============================================================================
