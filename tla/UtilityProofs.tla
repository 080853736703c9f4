----------------------------- MODULE UtilityProofs -----------------------------
(***************************************************************************)
(* The library as a whole, as the run checks it: since its parts keep no   *)
(* state of each other, a behaviour of all is one of each, and what        *)
(* RWQueueProofs, LibraryProofs and LayoutProofs show of a part holds of   *)
(* it there.                                                               *)
(***************************************************************************)
EXTENDS MCUtility, RWQueueProofs, LibraryProofs, LayoutProofs

(* A step of the library is one of each part or leaves it alone: so it is  *)
(* the code of each part that the run checks, and nothing else.            *)
THEOREM PartsAreSound ==
  UtilitySpec => /\ QueueSpec
                 /\ Spec /\ MemorySpec /\ LifeSpec /\ OptionSpec /\ ManageSpec
                 /\ DataSpec /\ DecorateSpec /\ SocketSpec /\ DigestSpec
<1>1. UtilityInit => /\ QueueInit
                     /\ Init /\ MemoryInit /\ LifeInit /\ OptionInit /\ ManageInit
                     /\ DataInit /\ DecorateInit /\ SocketInit /\ DigestInit
  BY DEF UtilityInit
<1>2. [UtilityNext]_utilityVars =>
        /\ [QueueNext]_queueVars
        /\ [Next]_vars /\ [MemoryNext]_memoryVars /\ [LifeNext]_lifeVars
        /\ [OptionNext]_optionVars /\ [ManageNext]_manageVars /\ [DataNext]_dataVars
        /\ [DecorateNext]_decorateVars /\ [SocketNext]_socketVars
        /\ [DigestNext]_digestVars
  BY DEF UtilityNext, utilityVars
<1> QED
  BY <1>1, <1>2, PTL DEF UtilitySpec, QueueSpec, Spec, MemorySpec, LifeSpec, OptionSpec,
                         ManageSpec, DataSpec, DecorateSpec, SocketSpec, DigestSpec

(* Every part has its type, whichever moves: lists of nodes, counts of     *)
(* references and blocks, chunks, lifetimes, options, tables of modules,   *)
(* events, decorated pointers, descriptors, and the buffer of MD5, which   *)
(* is never written behind its end.                                        *)
THEOREM PartsAreTyped == UtilitySpec => []UtilityTypeOK
<1> DEFINE Unit == {"queue", "pointers", "memory", "singletons", "options", "modules",
                    "events", "decorated", "clients", "digests"}
           Typed == /\ QueueTypeOK /\ TypeOK /\ MemoryTypeOK /\ LifeTypeOK
                    /\ OptionTypeOK /\ ManageTypeOK
                    /\ DataTypeOK /\ DecorateTypeOK /\ SocketTypeOK /\ DigestTypeOK
<1>1. UtilitySpec => [](unit \in Unit)
  <2>1. UtilityInit => unit \in Unit
    BY DEF UtilityInit
  <2>2. unit \in Unit /\ [UtilityNext]_utilityVars => (unit \in Unit)'
    BY DEF UtilityNext, utilityVars
  <2> QED
    BY <2>1, <2>2, PTL DEF UtilitySpec
<1>2. UtilitySpec => []Typed
  <2>1. PtrSound => TypeOK
    BY DEF PtrSound
  <2>2. MemoryInv => MemoryTypeOK
    BY DEF MemoryInv
  <2>3. LifeInv => LifeTypeOK
    BY DEF LifeInv
  <2>4. OptionInv => OptionTypeOK
    BY DEF OptionInv
  <2>5. ManageInv => ManageTypeOK
    BY DEF ManageInv
  <2>6. DataInv => DataTypeOK
    BY DEF DataInv
  <2>7. DecorateInv => DecorateTypeOK
    BY DEF DecorateInv
  <2>8. SocketInv => SocketTypeOK
    BY DEF SocketInv
  <2>9. DigestInv => DigestTypeOK
    BY DigestIsTyped
  <2>10. QueueInv => QueueTypeOK
    BY DEF QueueInv, ListInv
  <2> QED
    BY <2>1, <2>2, <2>3, <2>4, <2>5, <2>6, <2>7, <2>8, <2>9, <2>10, PTL, PartsAreSound,
       AlwaysSound, QueueInvariant,
       MemoryInvariant, LifeInvariant, OptionInvariant, ManageInvariant, DataInvariant,
       DecorateInvariant, SocketInvariant, DigestInvariant
<1>3. unit \in Unit /\ Typed => UtilityTypeOK
  BY DEF UtilityTypeOK
<1> QED
  BY <1>1, <1>2, <1>3, PTL
=============================================================================
