---------------------------- MODULE MCProcessors ----------------------------
(***************************************************************************)
(* The scenes of the TLC run of Processor and ProcessorMgr.  Either one    *)
(* processor executes the calls of its scene: posts at two priorities and  *)
(* a send, of which two never cease; or the kinds of SendTask, one of them *)
(* made by a task that is posted again and again.  Or the manager has its  *)
(* clients, with the processors that it starts and joins; the processor of *)
(* module Processor, which is none of those, is not started then.          *)
(***************************************************************************)
EXTENDS MCProcessor, ProcessorMgr

VARIABLE scene   \* the calls that a behaviour may make; none: the manager's

Scenes == {{h, n1, n2, r, x}, {l, s, st, i, x}, {}}

sceneVars == <<vars, mgrVars, scene>>

SceneInit == Init /\ MgrInit /\ scene \in Scenes

(* Nobody has to make a call, so the steps of a scene are those of         *)
(* Processor where some callers make none.                                 *)
SceneNext ==
  /\ UNCHANGED scene
  /\ \/ /\ scene # {}
        /\ Next
        /\ \A c \in Call \ scene : UNCHANGED pc[c]
        /\ UNCHANGED mgrVars
     \/ scene = {} /\ MgrNext /\ UNCHANGED vars

(* The fairness of each module; in the manager's scene the processor does  *)
(* not start, and in the other scenes no client calls the manager.         *)
SceneFairness ==
  /\ WF_vars(scene # {} /\ Worker)
  /\ \A c \in Call : WF_vars(Continue(c))
  /\ MgrFairness

SceneSpec == SceneInit /\ [][SceneNext]_sceneVars /\ SceneFairness

(* The type invariants. *)
SceneTypeOK == TypeOK /\ MgrTypeOK
=============================================================================
