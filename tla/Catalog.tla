------------------------------ MODULE Catalog -------------------------------
(***************************************************************************)
(* Db and Table: the tables of a database, the files they are made of, and *)
(* the DDL statements that change both.                                    *)
(*                                                                         *)
(* A table is a meta file, a data file and one file per index; a name in   *)
(* opened_tables_ refers to a Table object, which keeps its own copy of    *)
(* the meta data (meta) and the index objects (indexes).  A statement is   *)
(* split where it touches the disk, so that it may fail there or the       *)
(* process may end there.  What is left behind is never cleaned up.        *)
(* A meta file is written through a std::fstream, which holds a small file *)
(* back until close(); nobody looks at the result of close(), so a write   *)
(* that fails there goes unnoticed and the statement succeeds.             *)
(***************************************************************************)
EXTENDS Integers, Sequences, FiniteSets

CONSTANTS Tables,       \* names of tables
          Indexes,      \* names of indexes
          MaxIds,       \* bound: table ids given out since a start
          MaxFaults     \* bound: failed system calls and crashes

\* A crash is always possible; the first one must still be counted.
ASSUME CatalogAssumption == MaxIds \in Nat /\ MaxFaults \in Nat \ {0}

VARIABLES meta,     \* the meta file of a table: kind, table_id, indexes
          tmp,      \* its temporary successor
          data,     \* tables that have a data file
          ixfile,   \* index files, <<table, index>>
          opened,   \* opened_tables_
          next_id,  \* next_table_id_
          op,       \* the statement being executed
          up,       \* the database is open
          created,  \* history: ids of tables whose CREATE succeeded
          faults,   \* history: system calls that failed, crashes
          refused   \* history: names whose CREATE was refused for its columns

disk == <<meta, tmp, data, ixfile>>
history == <<created, faults, refused>>
vars == <<disk, opened, next_id, op, up, history>>

NoFile == [kind |-> "none", id |-> -1, indexes |-> <<>>]
\* A meta file that has not been written yet, or not all of it.
Torn == [kind |-> "torn", id |-> -1, indexes |-> <<>>]
\* One that its writer takes for complete: the failure went unnoticed.
Cut == [kind |-> "cut", id |-> -1, indexes |-> <<>>]
MetaFile(id, indexes) == [kind |-> "full", id |-> id, indexes |-> indexes]

NotOpened == [state |-> "none", id |-> -1, meta |-> <<>>, indexes |-> <<>>]
TableObject(id, indexes) == [state |-> "open", id |-> id, meta |-> indexes, indexes |-> indexes]

Idle == [kind |-> "idle", at |-> "", table |-> "", index |-> "", id |-> -1, n |-> 0]
Names(seq) == {seq[i] : i \in DOMAIN seq}

Init ==
    /\ meta = [t \in Tables |-> NoFile] /\ tmp = meta /\ data = {} /\ ixfile = {}
    /\ opened = [t \in Tables |-> NotOpened] /\ next_id = 0
    /\ op = Idle /\ up = TRUE
    /\ created = [t \in Tables |-> -1] /\ faults = 0 /\ refused = {}

Executing(kind, at) == up /\ op.kind = kind /\ op.at = at
Goto(at) == op' = [op EXCEPT !.at = at]
Done == op' = Idle

\* A call fails, and the statement ends with an error that undoes nothing.
GiveUp(kind) ==
    /\ up /\ op.kind = kind /\ faults < MaxFaults
    /\ faults' = faults + 1
    /\ Done
    /\ UNCHANGED <<disk, opened, next_id, up, created, refused>>

\* A file is closed whose last write fails: nobody is told.
Unnoticed == faults < MaxFaults /\ faults' = faults + 1

-----------------------------------------------------------------------------
(* CREATE TABLE                                                            *)

\* A table id is used up even if the statement fails.
CreateTable(t) ==
    /\ up /\ op = Idle /\ opened[t].state = "none" /\ next_id < MaxIds
    /\ next_id' = next_id + 1
    /\ op' = [Idle EXCEPT !.kind = "create", !.at = "meta", !.table = t, !.id = next_id]
    /\ UNCHANGED <<disk, opened, up, history>>

\* O_EXCL: an existing file is an error.
CreateMetaFile ==
    /\ Executing("create", "meta")
    /\ IF meta[op.table].kind = "none"
       THEN meta' = [meta EXCEPT ![op.table] = Torn] /\ Goto("write")
       ELSE Done /\ UNCHANGED meta
    /\ UNCHANGED <<tmp, data, ixfile, opened, next_id, up, history>>

\* TableMeta::init refuses a column without a name or of no length.
RefuseColumns ==
    /\ Executing("create", "write")
    /\ Done
    /\ refused' = refused \cup {op.table}
    /\ UNCHANGED <<disk, opened, next_id, up, created, faults>>

\* The results of serialize and close are not looked at.
WriteMeta ==
    /\ Executing("create", "write")
    /\ \/ meta' = [meta EXCEPT ![op.table] = MetaFile(op.id, <<>>)] /\ UNCHANGED faults
       \/ meta' = [meta EXCEPT ![op.table] = Cut] /\ Unnoticed
    /\ Goto("data")
    /\ UNCHANGED <<tmp, data, ixfile, opened, next_id, up, created, refused>>

CreateDataFile ==
    /\ Executing("create", "data")
    /\ IF op.table \notin data
       THEN data' = data \cup {op.table} /\ Goto("open")
       ELSE Done /\ UNCHANGED data
    /\ UNCHANGED <<meta, tmp, ixfile, opened, next_id, up, history>>

OpenCreated ==
    /\ Executing("create", "open")
    /\ opened' = [opened EXCEPT ![op.table] = TableObject(op.id, <<>>)]
    /\ created' = [created EXCEPT ![op.table] = op.id]
    /\ Done
    /\ UNCHANGED <<disk, next_id, up, faults, refused>>

\* A file that cannot be made or opened.
FailCreate == GiveUp("create")

-----------------------------------------------------------------------------
(* DROP TABLE                                                              *)

DropTable(t) ==
    /\ up /\ op = Idle /\ opened[t].state = "open"
    /\ op' = [Idle EXCEPT !.kind = "drop", !.at = "meta", !.table = t]
    /\ created' = [created EXCEPT ![t] = -1]
    /\ UNCHANGED <<disk, opened, next_id, up, faults, refused>>

UnlinkMeta ==
    /\ Executing("drop", "meta") /\ meta[op.table].kind # "none"
    /\ meta' = [meta EXCEPT ![op.table] = NoFile]
    /\ Goto("data")
    /\ UNCHANGED <<tmp, data, ixfile, opened, next_id, up, history>>

UnlinkData ==
    /\ Executing("drop", "data") /\ op.table \in data
    /\ data' = data \ {op.table}
    /\ Goto("index")
    /\ UNCHANGED <<meta, tmp, ixfile, opened, next_id, up, history>>

\* Mutant of UnlinkIndex: the last index is forgotten.
UnlinkIndex_NotLast ==
    LET m == opened[op.table].meta
    IN /\ Executing("drop", "index") /\ op.n < Len(m)
       /\ ixfile' = IF op.n + 1 < Len(m) THEN ixfile \ {<<op.table, m[op.n + 1]>>} ELSE ixfile
       /\ op' = [op EXCEPT !.n = @ + 1]
       /\ UNCHANGED <<meta, tmp, data, opened, next_id, up, history>>

\* One turn of the loop over the indexes that the table's meta data names.
UnlinkIndex ==
    LET m == opened[op.table].meta
    IN /\ Executing("drop", "index") /\ op.n < Len(m) /\ <<op.table, m[op.n + 1]>> \in ixfile
       /\ ixfile' = ixfile \ {<<op.table, m[op.n + 1]>>}
       /\ op' = [op EXCEPT !.n = @ + 1]
       /\ UNCHANGED <<meta, tmp, data, opened, next_id, up, history>>

EraseTable ==
    /\ Executing("drop", "index") /\ op.n = Len(opened[op.table].meta)
    /\ opened' = [opened EXCEPT ![op.table] = NotOpened]
    /\ Done
    /\ UNCHANGED <<disk, next_id, up, history>>

\* When Table::drop fails the object is deleted, but its name stays in
\* opened_tables_ and refers to it.
DropFails ==
    /\ up /\ op.kind = "drop" /\ faults < MaxFaults
    /\ opened' = [opened EXCEPT ![op.table].state = "freed"]
    /\ faults' = faults + 1
    /\ Done
    /\ UNCHANGED <<disk, next_id, up, created, refused>>

-----------------------------------------------------------------------------
(* CREATE INDEX                                                            *)

\* CreateIndexStmt asks the index objects for the name.
CreateIndex(t, i) ==
    /\ up /\ op = Idle /\ opened[t].state = "open" /\ i \notin Names(opened[t].indexes)
    /\ op' = [Idle EXCEPT !.kind = "index", !.at = "file", !.table = t, !.index = i]
    /\ UNCHANGED <<disk, opened, next_id, up, history>>

CreateIndexFile ==
    /\ Executing("index", "file")
    /\ IF <<op.table, op.index>> \notin ixfile
       THEN ixfile' = ixfile \cup {<<op.table, op.index>>} /\ Goto("scan")
       ELSE Done /\ UNCHANGED ixfile
    /\ UNCHANGED <<meta, tmp, data, opened, next_id, up, history>>

\* The records have been added to the index, whose object now belongs to the
\* table.
PushIndex ==
    /\ Executing("index", "scan")
    /\ opened' = [opened EXCEPT ![op.table].indexes = Append(@, op.index)]
    /\ Goto("tmp")
    /\ UNCHANGED <<disk, next_id, up, history>>

\* Mutant of OpenTmp: the meta file itself is opened and truncated.
OpenTmp_InPlace ==
    /\ Executing("index", "tmp")
    /\ meta' = [meta EXCEPT ![op.table] = Torn]
    /\ Goto("serialize")
    /\ UNCHANGED <<tmp, data, ixfile, opened, next_id, up, history>>

OpenTmp ==
    /\ Executing("index", "tmp")
    /\ tmp' = [tmp EXCEPT ![op.table] = Torn]
    /\ Goto("serialize")
    /\ UNCHANGED <<meta, data, ixfile, opened, next_id, up, history>>

\* serialize is checked, close is not.
SerializeTmp ==
    /\ Executing("index", "serialize")
    /\ \/ /\ tmp' = [tmp EXCEPT ![op.table] =
                          MetaFile(opened[op.table].id, Append(opened[op.table].meta, op.index))]
          /\ UNCHANGED faults
       \/ tmp' = [tmp EXCEPT ![op.table] = Cut] /\ Unnoticed
    /\ Goto("rename")
    /\ UNCHANGED <<meta, data, ixfile, opened, next_id, up, created, refused>>

RenameTmp ==
    /\ Executing("index", "rename")
    /\ meta' = [meta EXCEPT ![op.table] = tmp[op.table]]
    /\ tmp' = [tmp EXCEPT ![op.table] = NoFile]
    /\ opened' = [opened EXCEPT ![op.table].meta = Append(@, op.index)]
    /\ Done
    /\ UNCHANGED <<data, ixfile, next_id, up, history>>

\* A call of create_index that is checked fails.
FailIndex == GiveUp("index")

-----------------------------------------------------------------------------
(* Stop and start                                                          *)

Closed ==
    /\ up' = FALSE /\ op' = Idle /\ next_id' = 0
    /\ opened' = [t \in Tables |-> NotOpened]

\* DefaultHandler::destroy; deleting a freed table again is undefined.
Shutdown ==
    /\ up /\ op = Idle /\ \A t \in Tables : opened[t].state # "freed"
    /\ Closed
    /\ UNCHANGED <<disk, history>>

\* The process ends between two steps.
Crash ==
    /\ up
    /\ faults' = IF faults < MaxFaults THEN faults + 1 ELSE faults
    /\ Closed
    /\ UNCHANGED <<disk, created, refused>>

\* TableMeta::deserialize.
MetaReads(t) == meta[t].kind = "full"

\* A table opens when its meta file can be read, its data file is there, and its
\* indexes can be read: their header page was never written (BufferPool).
Readable(t) == MetaReads(t) /\ t \in data /\ meta[t].indexes = <<>>
Listed == {t \in Tables : meta[t].kind # "none"}
Startable == \A t \in Listed : Readable(t)

\* Mutant of NextId: the highest id is given out again.
NextId_Reuses == LET ids == {meta[t].id : t \in Listed}
                 IN IF ids = {} THEN 0 ELSE CHOOSE n \in ids : \A m \in ids : m <= n

\* One more than the highest id that is on disk.
NextId == LET ids == {meta[t].id : t \in Listed}
          IN IF ids = {} THEN 0 ELSE 1 + CHOOSE n \in ids : \A m \in ids : m <= n

\* Mutant of OpenAllTables: the newest table is left out.
OpenAllTables_AllButLast ==
    /\ ~up /\ Startable
    /\ up' = TRUE
    /\ opened' = [t \in Tables |-> IF t \in Listed /\ meta[t].id < NextId - 1
                                   THEN TableObject(meta[t].id, meta[t].indexes) ELSE NotOpened]
    /\ next_id' = NextId
    /\ UNCHANGED <<disk, op, history>>

OpenAllTables ==
    /\ ~up /\ Startable
    /\ up' = TRUE
    /\ opened' = [t \in Tables |-> IF t \in Listed
                                   THEN TableObject(meta[t].id, meta[t].indexes) ELSE NotOpened]
    /\ next_id' = NextId
    /\ UNCHANGED <<disk, op, history>>

\* The first table that does not open ends the start of the server.
StartFails == ~up /\ ~Startable /\ UNCHANGED vars

Next ==
    \/ \E t \in Tables : CreateTable(t) \/ DropTable(t)
    \/ \E t \in Tables, i \in Indexes : CreateIndex(t, i)
    \/ CreateMetaFile \/ RefuseColumns \/ WriteMeta \/ CreateDataFile \/ OpenCreated \/ FailCreate
    \/ UnlinkMeta \/ UnlinkData \/ UnlinkIndex \/ EraseTable \/ DropFails
    \/ CreateIndexFile \/ PushIndex \/ OpenTmp \/ SerializeTmp \/ RenameTmp \/ FailIndex
    \/ Shutdown \/ Crash \/ OpenAllTables \/ StartFails

Spec == Init /\ [][Next]_vars

-----------------------------------------------------------------------------
(* Properties                                                              *)

MetaFiles == [kind : {"none", "torn", "cut", "full"}, id : -1 .. MaxIds, indexes : Seq(Indexes)]

\* Every variable keeps its type.
TypeOK ==
    /\ meta \in [Tables -> MetaFiles] /\ tmp \in [Tables -> MetaFiles]
    /\ data \subseteq Tables /\ ixfile \subseteq Tables \X Indexes
    /\ opened \in [Tables -> [state : {"none", "open", "freed"}, id : -1 .. MaxIds,
                              meta : Seq(Indexes), indexes : Seq(Indexes)]]
    /\ next_id \in 0 .. MaxIds + 1 /\ up \in BOOLEAN
    /\ created \in [Tables -> -1 .. MaxIds] /\ faults \in 0 .. MaxFaults
    /\ refused \subseteq Tables

\* Between two statements an open table is on disk as it is in memory: the same
\* id and indexes in its meta file, and every file that the meta data names.  The
\* exception is a meta file whose last write failed when the file was closed: the
\* statement, CREATE TABLE or CREATE INDEX, has succeeded all the same.
MatchesDisk ==
    up /\ op = Idle => \A t \in Tables : opened[t].state = "open" =>
        /\ \/ meta[t] = MetaFile(opened[t].id, opened[t].meta)
           \/ meta[t] = Cut /\ faults > 0
        /\ t \in data
        /\ \A i \in Names(opened[t].meta) : <<t, i>> \in ixfile

\* The catalog in memory agrees with the files and with itself, over restarts,
\* drops and failed statements.  Two open tables never have the same id, so that
\* Db::find_table(table_id) of the redo finds the right one, and an index that the
\* meta data names has an object, so that find_index_by_field does not return a null
\* pointer for it.  (An object may have no meta data, after a failed CREATE INDEX.)
CatalogExact ==
    /\ TypeOK
    /\ MatchesDisk
    /\ \A t, u \in Tables :
         opened[t].state # "none" /\ opened[u].state # "none" /\ opened[t].id = opened[u].id => t = u
    /\ \A t \in Tables : Names(opened[t].meta) \subseteq Names(opened[t].indexes)

\* Without faults a statement leaves nothing behind that it did not mean to:
\* each file belongs to an open table, and dropping one removes them all.
NoOrphans ==
    up /\ op = Idle /\ faults = 0 /\ refused = {} =>
        /\ {t \in Tables : opened[t].state = "open"} = Listed
        /\ data = Listed
        /\ ixfile = {f \in Tables \X Indexes : f[2] \in Names(opened[f[1]].meta)}
        /\ \A t \in Tables : tmp[t] = NoFile

\* The comment at create_index says that writing beside the meta file and renaming
\* keeps its content from being incomplete.  So it does whenever a failure is
\* noticed or the process ends: until its table is dropped, a complete meta file is
\* only ever replaced by a complete one of the same table with one more index.  But
\* when close() fails to write the new file, what there is of it is renamed.
MetaReplacedWhole ==
    [][\A t \in Tables : meta[t].kind = "full" =>
         \/ meta'[t] = meta[t]
         \/ \E i \in Indexes : meta'[t] = MetaFile(meta[t].id, Append(meta[t].indexes, i))
         \/ meta'[t] = NoFile /\ created[t] = -1
         \/ meta'[t] = Cut /\ tmp[t] = Cut /\ faults > 0]_vars

\* The database starts again, unless a table has an index, a statement was
\* interrupted, or a CREATE TABLE was refused; and whenever it is open, a table
\* whose CREATE succeeded, and that nobody has begun to drop, is there with its id.
StartsAgain ==
    /\ ~up /\ faults = 0 /\ refused = {} /\ (\A t \in Tables : meta[t].indexes = <<>>)
        => Startable
    /\ up => \A t \in Tables : created[t] # -1 =>
                opened[t].state = "open" /\ opened[t].id = created[t]

=============================================================================
