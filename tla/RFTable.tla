------------------------------- MODULE RFTable -------------------------------
(***************************************************************************)
(* The entry model and the table store of rfserver/rftable.py.             *)
(*                                                                         *)
(* An entry is a record whose unset fields hold the model value None, as   *)
(* the Python objects hold None.  A table is a sequence of the dicts       *)
(* to_dict made: the index of a dict is the "_id" the storage driver gave  *)
(* it on its first set_entry, a new entry is appended, and get_entries     *)
(* returns matches in insertion order, so "result[0]" is the first match.  *)
(* Nothing is ever removed: the server never calls remove_entry.           *)
(*                                                                         *)
(* Configuration ingestion (RFConfig.configure, RFISLConf.configure) is    *)
(* the pure expansion of the JSON documents into configuration entries.   *)
(***************************************************************************)
EXTENDS Integers, Sequences, SequencesExt

CONSTANT None   \* the Python None

\* Status codes, as numbered in rftable.py.
RFENTRY_IDLE_VM_PORT == 1
RFENTRY_IDLE_DP_PORT == 2
RFENTRY_ASSOCIATED   == 3
RFENTRY_ACTIVE       == 4
RFISL_IDLE_DP_PORT   == 5
RFISL_IDLE_REMOTE    == 6
RFISL_ACTIVE         == 7

-----------------------------------------------------------------------------
(* RFEntry: a VM port / datapath port / virtual-switch port binding.       *)

RFEntry(vm_id, vm_port, ct_id, dp_id, dp_port, vs_id, vs_port, eth_addr) ==
    [vm_id |-> vm_id, vm_port |-> vm_port, ct_id |-> ct_id, dp_id |-> dp_id,
     dp_port |-> dp_port, vs_id |-> vs_id, vs_port |-> vs_port,
     eth_addr |-> eth_addr]

IsIdleVmPort(e) ==
    /\ e.vm_id # None /\ e.vm_port # None
    /\ e.ct_id = None /\ e.dp_id = None /\ e.dp_port = None
    /\ e.vs_id = None /\ e.vs_port = None

IsIdleDpPort(e) ==
    /\ e.vm_id = None /\ e.vm_port = None
    /\ e.ct_id # None /\ e.dp_id # None /\ e.dp_port # None
    /\ e.vs_id = None /\ e.vs_port = None

\* RFEntry.make_idle: forget the datapath side (IDLE_VM) or the VM side.
MakeIdle(e, type) ==
    IF type = RFENTRY_IDLE_VM_PORT
    THEN [e EXCEPT !.ct_id = None, !.dp_id = None, !.dp_port = None,
                   !.vs_id = None, !.vs_port = None]
    ELSE IF type = RFENTRY_IDLE_DP_PORT
    THEN [e EXCEPT !.vm_id = None, !.vm_port = None, !.vs_id = None,
                   !.vs_port = None, !.eth_addr = None]
    ELSE e

\* Mutant: the datapath id and port stored the wrong way round.
AssociateSwapped(e, id_, port, ct_id, eth_addr) ==
    IF IsIdleVmPort(e)
    THEN [e EXCEPT !.ct_id = ct_id, !.dp_id = port, !.dp_port = id_]
    ELSE [e EXCEPT !.vm_id = id_, !.vm_port = port, !.eth_addr = eth_addr]

\* RFEntry.associate: fill in the side that is missing.  The source raises
\* ValueError on an entry that is neither idle kind.
Associate(e, id_, port, ct_id, eth_addr) ==
    IF IsIdleVmPort(e)
    THEN [e EXCEPT !.ct_id = ct_id, !.dp_id = id_, !.dp_port = port]
    ELSE IF IsIdleDpPort(e)
    THEN [e EXCEPT !.vm_id = id_, !.vm_port = port, !.eth_addr = eth_addr]
    ELSE Assert(FALSE, "RFEntry.associate raised ValueError")

Activate(e, vs_id, vs_port) == [e EXCEPT !.vs_id = vs_id, !.vs_port = vs_port]

\* RFEntry.get_status: derived from which fields are None, first test wins.
GetStatus(e) ==
    IF IsIdleVmPort(e) THEN RFENTRY_IDLE_VM_PORT
    ELSE IF IsIdleDpPort(e) THEN RFENTRY_IDLE_DP_PORT
    ELSE IF e.vs_id = None /\ e.vs_port = None THEN RFENTRY_ASSOCIATED
    ELSE RFENTRY_ACTIVE

-----------------------------------------------------------------------------
(* RFISLEntry: one direction of an inter-switch link.                      *)

RFISLEntry(vm_id, ct_id, dp_id, dp_port, eth_addr, rem_ct, rem_id, rem_port, rem_eth_addr) ==
    [vm_id |-> vm_id, ct_id |-> ct_id, dp_id |-> dp_id, dp_port |-> dp_port,
     eth_addr |-> eth_addr, rem_ct |-> rem_ct, rem_id |-> rem_id,
     rem_port |-> rem_port, rem_eth_addr |-> rem_eth_addr]

ISLIsIdleDpPort(e) ==
    /\ e.ct_id # None /\ e.dp_id # None /\ e.dp_port # None
    /\ e.rem_ct = None /\ e.rem_id = None /\ e.rem_port = None

ISLIsIdleRemote(e) ==
    /\ e.ct_id = None /\ e.dp_id = None /\ e.dp_port = None
    /\ e.rem_ct # None /\ e.rem_id # None /\ e.rem_port # None

\* Mutant: make_idle(RFISL_IDLE_DP_PORT) forgets nothing.
ISLMakeIdleNoDp(e, type) ==
    IF type = RFISL_IDLE_REMOTE
    THEN [e EXCEPT !.ct_id = None, !.dp_id = None, !.dp_port = None,
                   !.eth_addr = None]
    ELSE e

\* RFISLEntry.make_idle: IDLE_REMOTE forgets the local end, IDLE_DP the remote.
ISLMakeIdle(e, type) ==
    IF type = RFISL_IDLE_REMOTE
    THEN [e EXCEPT !.ct_id = None, !.dp_id = None, !.dp_port = None,
                   !.eth_addr = None]
    ELSE IF type = RFISL_IDLE_DP_PORT
    THEN [e EXCEPT !.rem_ct = None, !.rem_id = None, !.rem_port = None,
                   !.rem_eth_addr = None]
    ELSE e

\* Mutant: an entry idle on its local end is never completed.
ISLAssociateNoRemote(e, ct, id_, port, eth_addr) ==
    IF ISLIsIdleDpPort(e)
    THEN [e EXCEPT !.rem_ct = ct, !.rem_id = id_, !.rem_port = port,
                   !.rem_eth_addr = eth_addr]
    ELSE e

\* RFISLEntry.associate: fill in the missing end; any other entry is kept.
ISLAssociate(e, ct, id_, port, eth_addr) ==
    IF ISLIsIdleDpPort(e)
    THEN [e EXCEPT !.rem_ct = ct, !.rem_id = id_, !.rem_port = port,
                   !.rem_eth_addr = eth_addr]
    ELSE IF ISLIsIdleRemote(e)
    THEN [e EXCEPT !.ct_id = ct, !.dp_id = id_, !.dp_port = port,
                   !.eth_addr = eth_addr]
    ELSE e

\* RFISLEntry.get_status: whatever is neither idle kind counts as ACTIVE.
ISLGetStatus(e) ==
    IF ISLIsIdleDpPort(e) THEN RFISL_IDLE_DP_PORT
    ELSE IF ISLIsIdleRemote(e) THEN RFISL_IDLE_REMOTE
    ELSE RFISL_ACTIVE

-----------------------------------------------------------------------------
(* EntryTable and its lookups.                                             *)

\* get_entries(**filter) keeps the entries whose fields equal every value
\* of the filter, a record of field names to values.
Matches(e, filter) == \A f \in DOMAIN filter : e[f] = filter[f]

\* get_entries(**filter)[0]: index of the first entry matching, 0 if none.
FirstEntry(t, filter) == SelectInSeq(t, LAMBDA e : Matches(e, filter))

\* get_entries(**filter): the indices of all matches, in table order.
EntriesWhere(t, filter) ==
    SelectSeq([i \in DOMAIN t |-> i], LAMBDA i : Matches(t[i], filter))

\* Mutant: the last match instead of the first.
GetEntryByVmPortLast(t, vm_id, vm_port) ==
    SelectLastInSeq(t, LAMBDA e : Matches(e, [vm_id |-> vm_id, vm_port |-> vm_port]))

GetEntryByVmPort(t, vm_id, vm_port) ==
    FirstEntry(t, [vm_id |-> vm_id, vm_port |-> vm_port])

\* Mutant: the filter without dp_id.
GetEntryByDpPortNoDp(t, ct_id, dp_id, dp_port) ==
    FirstEntry(t, [ct_id |-> ct_id, dp_port |-> dp_port])

GetEntryByDpPort(t, ct_id, dp_id, dp_port) ==
    FirstEntry(t, [ct_id |-> ct_id, dp_id |-> dp_id, dp_port |-> dp_port])

GetDpEntries(t, ct_id, dp_id) == EntriesWhere(t, [ct_id |-> ct_id, dp_id |-> dp_id])

ISLGetEntryByAddr(t, ct_id, dp_id, dp_port, eth_addr) ==
    FirstEntry(t, [ct_id |-> ct_id, dp_id |-> dp_id, dp_port |-> dp_port,
                   eth_addr |-> eth_addr])

ISLGetEntryByRemote(t, rem_ct, rem_id, rem_port, rem_eth_addr) ==
    FirstEntry(t, [rem_ct |-> rem_ct, rem_id |-> rem_id, rem_port |-> rem_port,
                   rem_eth_addr |-> rem_eth_addr])

ISLGetRemoteEntries(t, rem_ct, rem_id) ==
    EntriesWhere(t, [rem_ct |-> rem_ct, rem_id |-> rem_id])

-----------------------------------------------------------------------------
(* The configuration entries RFConfig and RFISLConf store.                 *)

RFISLConfEntry(vm_id, ct_id, dp_id, dp_port, eth_addr, rem_ct, rem_id, rem_port, rem_eth_addr) ==
    [vm_id |-> vm_id, ct_id |-> ct_id, dp_id |-> dp_id, dp_port |-> dp_port,
     eth_addr |-> eth_addr, rem_ct |-> rem_ct, rem_id |-> rem_id,
     rem_port |-> rem_port, rem_eth_addr |-> rem_eth_addr]

RFConfigEntry(vm_id, vm_port, ct_id, dp_id, dp_port) ==
    [vm_id |-> vm_id, vm_port |-> vm_port, ct_id |-> ct_id, dp_id |-> dp_id,
     dp_port |-> dp_port]

-----------------------------------------------------------------------------
(* The store: EntryFactory, to_dict / from_dict and set_entry.             *)

\* The entry types of the tables, as numbered in rftable.py.
RFENTRY        == 0
RFCONFIGENTRY  == 1
RFISLCONFENTRY == 2
RFISLENTRY     == 3

\* RFTable() and RFISLTable(): EntryTable.__init__ binds each table to the
\* entry type its get_entries make.
RFTableType    == RFENTRY
RFISLTableType == RFISLENTRY

\* The attributes each entry class's from_dict loads and its to_dict packs:
\* two lists in the code, kept apart here.
RFEntryLoads ==
    {"vm_id", "vm_port", "ct_id", "dp_id", "dp_port", "vs_id", "vs_port", "eth_addr"}
RFEntryPacks ==
    {"vm_id", "vm_port", "ct_id", "dp_id", "dp_port", "vs_id", "vs_port", "eth_addr"}
RFISLEntryLoads ==
    {"vm_id", "ct_id", "dp_id", "dp_port", "eth_addr",
     "rem_ct", "rem_id", "rem_port", "rem_eth_addr"}
RFISLEntryPacks ==
    {"vm_id", "ct_id", "dp_id", "dp_port", "eth_addr",
     "rem_ct", "rem_id", "rem_port", "rem_eth_addr"}
RFISLConfEntryLoads ==
    {"vm_id", "ct_id", "dp_id", "dp_port", "eth_addr",
     "rem_ct", "rem_id", "rem_port", "rem_eth_addr"}
RFISLConfEntryPacks ==
    {"vm_id", "ct_id", "dp_id", "dp_port", "eth_addr",
     "rem_ct", "rem_id", "rem_port", "rem_eth_addr"}
RFConfigEntryLoads == {"vm_id", "vm_port", "ct_id", "dp_id", "dp_port"}
RFConfigEntryPacks == {"vm_id", "vm_port", "ct_id", "dp_id", "dp_port"}

\* EntryFactory.make(type_): an entry of the table's class, every
\* attribute at its constructor default None.
Make(type_) ==
    CASE type_ = RFENTRY        -> RFEntry(None, None, None, None, None, None, None, None)
      [] type_ = RFCONFIGENTRY  -> RFConfigEntry(None, None, None, None, None)
      [] type_ = RFISLENTRY     -> RFISLEntry(None, None, None, None, None, None, None, None, None)
      [] type_ = RFISLCONFENTRY -> RFISLConfEntry(None, None, None, None, None, None, None, None, None)

\* entry.from_dict(result) in get_entries: the attributes the made entry's
\* class loads.
LoadedAttrs(type_) ==
    CASE type_ = RFENTRY        -> RFEntryLoads
      [] type_ = RFCONFIGENTRY  -> RFConfigEntryLoads
      [] type_ = RFISLENTRY     -> RFISLEntryLoads
      [] type_ = RFISLCONFENTRY -> RFISLConfEntryLoads

\* entry.to_dict() in set_entry: the attributes the entry's class packs.
PackedAttrs(type_) ==
    CASE type_ = RFENTRY        -> RFEntryPacks
      [] type_ = RFCONFIGENTRY  -> RFConfigEntryPacks
      [] type_ = RFISLENTRY     -> RFISLEntryPacks
      [] type_ = RFISLCONFENTRY -> RFISLConfEntryPacks

\* to_dict of an entry of type type_ with id id: "_id" only when the entry
\* has one, then pack_into_dict (dest[attr] = getattr(obj, attr)) of every
\* attribute of its class.
ToDict(type_, id, e) ==
    [a \in PackedAttrs(type_) \cup (IF id = None THEN {} ELSE {"_id"}) |->
        IF a = "_id" THEN id ELSE e[a]]

\* from_dict on a fresh EntryFactory.make(type_): the id from data["_id"],
\* then load_from_dict (setattr(obj, attr, src[attr])) of every attribute
\* the class loads; an attribute it does not load keeps its default.
FromDict(type_, data) ==
    LET made == Make(type_) IN
    [id |-> data["_id"],
     e  |-> [a \in DOMAIN made |-> IF a \in LoadedAttrs(type_) THEN data[a] ELSE made[a]]]

\* set_entry: set_dict(entry.to_dict()).  set_dict belongs to the storage
\* driver (MemoryTable / MongoTable), which is not in the source: a dict
\* with an "_id" replaces the row of that id, one without is stored under
\* the next id.
SetEntry(t, type_, id, e) ==
    LET d == ToDict(type_, id, e)
    IN IF "_id" \in DOMAIN d THEN [t EXCEPT ![id] = d]
       ELSE Append(t, ("_id" :> Len(t) + 1) @@ d)

\* The entry object get_entries makes of the row at index i.
EntryAt(t, type_, i) == FromDict(type_, t[i]).e

\* The set_entry calls of a configure loop, each on a new entry, in order.
SetEntries(t, type_, es) == FoldLeft(LAMBDA acc, e : SetEntry(acc, type_, None, e), t, es)

=============================================================================
