-------------------------------- MODULE Modules --------------------------------
(***************************************************************************)
(* ModuleManager (src/module_manager.cpp) and the registered classes       *)
(* (src/running_class_info.cpp).  Each user has a manager with a table of  *)
(* modules; the configuration and the identifier of a class are static, so *)
(* all managers share them.  What one manager stores another may restore.  *)
(*                                                                         *)
(* The buffer is a sequence of cells: the number of modules, and for each  *)
(* module a header and the cells of its data.  serialize gives a module    *)
(* the cells behind its header to write to; unserialize gives it a pointer *)
(* to the header itself, so the header is what it reads first.  Buffers    *)
(* are long enough, and every registered class but Module is derived from  *)
(* it directly and can be created.                                         *)
(***************************************************************************)
EXTENDS Integers, Sequences

CONSTANTS
  Manager,
  Classes,     \* the registered classes, from s_pFirst on
  Declared,    \* the identifier each class is declared with
  Config,      \* the identifiers of the file, for the classes in it
  Size,        \* what each class writes and reads, in cells; 0: as Module does
  ProtocolNum, \* the entries of a table: QTH_MAX_PROTOCOL_NUM
  Version,     \* what may be in a cell of a module's data
  Initial,     \* what is in the cells of a new module
  Absent

VARIABLES
  config,  \* s_modulesConfig was read
  m_id,    \* the identifier of each class
  table,   \* m_modules of each manager
  inits,   \* how a manager was initialised: "declared", "configured"
  buffer,  \* what was stored last
  writer,  \* the table of its writer
  reader   \* the manager that has just restored all of it

manageVars == <<config, m_id, table, inits, buffer, writer, reader>>

Class == {Classes[i] : i \in DOMAIN Classes}
Id == 0..(ProtocolNum - 1)
EmptyTable == [id \in Id |-> Absent]
FilledModule(c, version) == [class |-> c, data |-> [k \in 1..Size[c] |-> version]]
NewModule(c) == FilledModule(c, Initial)

Header == [id : Id, size : Nat]
Cell == Version \cup Header
StoredModule ==
  {module \in [class : Class, data : Seq(Cell)] : Len(module.data) = Size[module.class]}

(* Identifiers are within the table, which the code does not test. *)
ASSUME ManageAssumption ==
  /\ ProtocolNum \in Nat
  /\ Classes \in Seq(Class) /\ Declared \in [Class -> Id]
  /\ \A c \in DOMAIN Config : Config[c] \in Id
  /\ \A c \in Class : Size[c] \in Nat
  /\ Initial \in Version
  /\ Absent \notin StoredModule /\ Absent \notin Manager

ManageInit ==
  /\ config = FALSE
  /\ m_id = Declared
  /\ table = [m \in Manager |-> EmptyTable]
  /\ inits = [m \in Manager |-> {}]
  /\ buffer = <<>> /\ writer = EmptyTable /\ reader = Absent

-----------------------------------------------------------------------------
(***************************************************************************)
(* Init and UnInit.                                                        *)
(***************************************************************************)
(* With the configuration, a class that is in it gets its identifier, and  *)
(* one that is not has no module.                                          *)
Identifiers(configured) ==
  [c \in Class |-> IF configured /\ c \in DOMAIN Config THEN Config[c] ELSE m_id[c]]

(* The classes in the order of the list, a module for each: of those with  *)
(* one identifier the last stays.  A module that is in the table under the *)
(* same identifier is forgotten, not deleted.                              *)
Placed(row, ids, configured) ==
  LET created == {i \in DOMAIN Classes : configured => Classes[i] \in DOMAIN Config}
      with(id) == {i \in created : ids[Classes[i]] = id}
      last(S) == CHOOSE i \in S : \A j \in S : j <= i
  IN  [id \in Id |-> IF with(id) = {} THEN row[id]
                       ELSE NewModule(Classes[last(with(id))])]

(* The file is read once; until then it may be missing. *)
InitManager(m, found) ==
  LET configured == config \/ found
      way == IF configured THEN "configured" ELSE "declared"
  IN  /\ config' = configured
      /\ m_id' = Identifiers(configured)
      /\ table' = [table EXCEPT ![m] = Placed(@, m_id', configured)]
      /\ inits' = [inits EXCEPT ![m] = @ \cup {way}]
      /\ reader' = Absent
      /\ UNCHANGED <<buffer, writer>>

UnInitManager(m) ==
  /\ table' = [table EXCEPT ![m] = EmptyTable]
  /\ inits' = [inits EXCEPT ![m] = {}]
  /\ reader' = Absent
  /\ UNCHANGED <<config, m_id, buffer, writer>>

(* The module's own code. *)
ChangeModule(m, id, version) ==
  /\ table[m][id] # Absent
  /\ table' = [table EXCEPT ![m][id] = FilledModule(@.class, version)]
  /\ reader' = Absent
  /\ UNCHANGED <<config, m_id, inits, buffer, writer>>

-----------------------------------------------------------------------------
(***************************************************************************)
(* Serialisation.                                                          *)
(***************************************************************************)
(* Mistake: the identifier is asked of the class, not taken from the table. *)
Record_ClassId(module, id) ==
  <<[id |-> m_id[module.class], size |-> Size[module.class]]>> \o module.data

Record(module, id) ==
  <<[id |-> id, size |-> Size[module.class]]>> \o module.data

(* The modules below each identifier, one record behind the other. *)
Records(row) ==
  LET below[i \in 0..ProtocolNum] ==
        IF i = 0 THEN [num |-> 0, cells |-> <<>>]
        ELSE IF row[i - 1] = Absent THEN below[i - 1]
        ELSE [num |-> below[i - 1].num + 1,
              cells |-> below[i - 1].cells \o Record(row[i - 1], i - 1)]
  IN  below

serialize(m) ==
  LET all == Records(table[m])[ProtocolNum]
  IN  /\ buffer' = <<all.num>> \o all.cells
      /\ writer' = table[m]
      /\ reader' = Absent
      /\ UNCHANGED <<config, m_id, table, inits>>

(* A module reads as many cells as its class writes, from the pointer on   *)
(* that it is given, but not beyond the buffer, whose length it is told.   *)
Restored(module, pByte) ==
  [module EXCEPT !.data =
     [k \in 1..Size[module.class] |->
        IF pByte + k - 1 \in DOMAIN buffer THEN buffer[pByte + k - 1]
        ELSE module.data[k]]]

(* One round of the loop: pByte, where it is, is at a header, which is     *)
(* what the module is given; it ends where a module has read another size  *)
(* than was written.                                                       *)
Round(w) ==
  LET head == buffer[w.pByte]
      module == w.row[head.id]
  IN  IF w.failed THEN w
      ELSE [row |-> IF module = Absent THEN w.row
                      ELSE [w.row EXCEPT ![head.id] = Restored(module, w.pByte)],
            pByte |-> w.pByte + 1 + head.size,
            failed |-> module # Absent /\ Size[module.class] # head.size]

(* After each number of rounds. *)
Walk(row) ==
  LET after[k \in 0..buffer[1]] ==
        IF k = 0 THEN [row |-> row, pByte |-> 2, failed |-> FALSE]
        ELSE Round(after[k - 1])
  IN  after

unserialize(m) ==
  LET end == Walk(table[m])[buffer[1]]
  IN  /\ buffer # <<>>
      /\ table' = [table EXCEPT ![m] = end.row]
      /\ reader' = IF end.failed THEN Absent ELSE m
      /\ UNCHANGED <<config, m_id, inits, buffer, writer>>

-----------------------------------------------------------------------------
ManageNext ==
  \E m \in Manager :
    \/ \E found \in BOOLEAN : InitManager(m, found)
    \/ UnInitManager(m) \/ serialize(m) \/ unserialize(m)
    \/ \E id \in Id, version \in Version : ChangeModule(m, id, version)

ManageSpec == ManageInit /\ [][ManageNext]_manageVars

-----------------------------------------------------------------------------
(***************************************************************************)
(* What must hold.                                                         *)
(***************************************************************************)
ModuleTable == [Id -> StoredModule \cup {Absent}]

(* The type invariant. *)
ManageTypeOK ==
  /\ config \in BOOLEAN
  /\ m_id \in [Class -> Id]
  /\ table \in [Manager -> ModuleTable] /\ writer \in ModuleTable
  /\ inits \in [Manager -> SUBSET {"declared", "configured"}]
  /\ reader \in Manager \cup {Absent}

(* No identifier has modules of different classes in the two tables. *)
Agree(row, other) ==
  \A id \in Id :
    row[id] # Absent /\ other[id] # Absent => row[id].class = other[id].class

(* What a module finds that reads its own record from the header on: the   *)
(* header, and its data but for the last cell.                             *)
FromHeader(module, id) ==
  LET size == Size[module.class]
  IN  [k \in 1..size |-> IF k = 1 THEN [id |-> id, size |-> size]
                           ELSE module.data[k - 1]]

(* A manager that restores a buffer to the end has each of its modules     *)
(* read the record that the writer's module with its identifier wrote, and *)
(* no other, the modules that it does not have being passed over; what is  *)
(* read begins with the header, which is not what was stored.  And the two *)
(* modules are of one class if both managers were initialised in the same  *)
(* way, however often, though the identifiers are shared and the           *)
(* configuration may come between.                                         *)
ReadsItsOwnRecord ==
  /\ \A m \in Manager :
       reader = m =>
         \A id \in Id : table[m][id] # Absent /\ writer[id] # Absent =>
                          table[m][id].data = FromHeader(writer[id], id)
  /\ \A m, n \in Manager :
       (\E way \in {"declared", "configured"} : inits[m] = {way} /\ inits[n] = {way})
         => Agree(table[m], table[n])
=============================================================================
