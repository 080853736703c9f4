------------------------------- MODULE MCUtility -------------------------------
(***************************************************************************)
(* The library of the framework: queues, smart pointers, the small-object  *)
(* allocator, singletons, options, modules and their events, blocking      *)
(* clients and digests.  They keep no state of each other, so one run      *)
(* checks them side by side: `unit' says whose steps a behaviour has.      *)
(***************************************************************************)
EXTENDS RWQueue, SharedPtr, DecoratePtr, SmallObj, Singleton, TcpClient, DataManager,
        Options, Modules, Md5, TLC

CONSTANTS classA, classB, classC, classD

VARIABLE unit

utilityVars == <<unit, queueVars, vars, memoryVars, lifeVars, optionVars, manageVars,
                 dataVars, decorateVars, socketVars, digestVars>>

UtilityInit ==
  /\ unit \in {"queue", "pointers", "memory", "singletons", "options", "modules",
               "events", "decorated", "clients", "digests"}
  /\ QueueInit /\ Init /\ MemoryInit /\ LifeInit /\ OptionInit /\ ManageInit
  /\ DataInit /\ DecorateInit /\ SocketInit /\ DigestInit
  /\ unit # "options" => line = <<>>
  /\ unit # "queue" => ~batched

(* One unit moves, and nothing of the others does. *)
UtilityNext ==
  /\ UNCHANGED unit
  /\ IF unit = "queue" THEN QueueNext ELSE UNCHANGED queueVars
  /\ IF unit = "pointers" THEN Next ELSE UNCHANGED vars
  /\ IF unit = "memory" THEN MemoryNext ELSE UNCHANGED memoryVars
  /\ IF unit = "singletons" THEN LifeNext ELSE UNCHANGED lifeVars
  /\ IF unit = "options" THEN OptionNext ELSE UNCHANGED optionVars
  /\ IF unit = "modules" THEN ManageNext ELSE UNCHANGED manageVars
  /\ IF unit = "events" THEN DataNext ELSE UNCHANGED dataVars
  /\ IF unit = "decorated" THEN DecorateNext ELSE UNCHANGED decorateVars
  /\ IF unit = "clients" THEN SocketNext ELSE UNCHANGED socketVars
  /\ IF unit = "digests" THEN DigestNext ELSE UNCHANGED digestVars

UtilitySpec == UtilityInit /\ [][UtilityNext]_utilityVars

-----------------------------------------------------------------------------
(* Class A calls the two others; C must outlive them. *)
LongevityOf == classA :> 0 @@ classB :> 0 @@ classC :> 1
UsesOf == classA :> {classB, classC} @@ classB :> {} @@ classC :> {}

(* One or two tokens of up to three characters, some of them empty. *)
Token == UNION {[1..n -> {"x", "y", "="}] : n \in 0..3}
Lines == Token \cup {first \o <<" ">> \o second : first, second \in Token}
Words == {<<>>, <<"x">>}

(* The configuration does not name C, and gives B the identifier of C. *)
ClassList == <<classA, classB, classC>>
DeclaredId == classA :> 1 @@ classB :> 2 @@ classC :> 0
ConfigId == classA :> 2 @@ classB :> 0
SizeOf == classA :> 1 @@ classB :> 0 @@ classC :> 2

(* B and C share an identifier, and that of D is beyond the table; 2 and 3 *)
(* are events.                                                             *)
ClassIdOf == classA :> 0 @@ classB :> 1 @@ classC :> 1 @@ classD :> 2
PriorityOf == classA :> 1 @@ classB :> 0 @@ classC :> 1 @@ classD :> 0
MessagesOf ==
  classA :> {0, 2} @@ classB :> {2, 3} @@ classC :> {2, 3} @@ classD :> {1, 3}

(* With and without a scheme, a port and a path; a host and a path that    *)
(* look like a scheme and a port.                                          *)
UrlsTo(host, paths) ==
  [scheme : {<<>>, <<"h", "t", "t", "p">>, <<"h", "t", "t", "p", "s">>},
   host : {host}, port : {<<>>, <<"9">>}, path : paths]

Urls == UrlsTo(<<"x">>, {<<>>, <<"/">>})
          \cup UrlsTo(<<"h", "t", "t", "p", "x">>, {<<"/", ":", "9", "/">>})

-----------------------------------------------------------------------------
(* The type invariants of the units. *)
UtilityTypeOK ==
  CASE unit = "queue" -> QueueTypeOK
    [] unit = "pointers" -> TypeOK
    [] unit = "memory" -> MemoryTypeOK
    [] unit = "singletons" -> LifeTypeOK
    [] unit = "options" -> OptionTypeOK
    [] unit = "modules" -> ManageTypeOK
    [] unit = "events" -> DataTypeOK
    [] unit = "decorated" -> DecorateTypeOK
    [] unit = "clients" -> SocketTypeOK
    [] unit = "digests" -> DigestTypeOK
=============================================================================
