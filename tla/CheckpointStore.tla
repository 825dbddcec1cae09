--------------------------- MODULE CheckpointStore ---------------------------
(***************************************************************************)
(* The checkpoint stores of persistence/: FileStore, which replaces one    *)
(* file holding every record, and BoltStore, which commits a transaction;  *)
(* and replica.Session, which acknowledges a checkpoint only once a store  *)
(* has it.                                                                 *)
(*                                                                         *)
(* A record is a checkpoint's number and its format version.  A writer     *)
(* holds the store's lock while it replaces the file: it writes and syncs  *)
(* a temporary file, renames it, then syncs the directory.  Between the    *)
(* rename and the directory's sync a power failure may leave either file.  *)
(* A Load of a legacy record releases the read lock before migrateAndLoad  *)
(* takes the write lock, and others write in between.  A process may stop  *)
(* at any step and reopen under another format.                            *)
(***************************************************************************)
EXTENDS Naturals, FiniteSets, Functions

CONSTANTS
    Name,            \* checkpoint names
    Group,           \* the name the session's checkpoints are saved under
    Checkpoint,      \* checkpoints, numbered
    Backend,         \* the stores in use, a subset of {"file", "bolt"}
    Format,          \* FormatConfig: version, previous, migrate
    MaxRecords,      \* MaxStoreBytes, in records of equal size
    MaxWrites        \* bound: calls of Save, Delete and Install

VARIABLES
    backend,    \* which store this is
    disk,       \* the file, and every content a power failure may leave
    records,    \* FileStore.records; a Bolt read goes to the file
    format,     \* Config.Format
    closed,     \* FileStore.closed
    writer,     \* who holds the lock, what for, and how far it is
    loader,     \* the name a Load is about to migrate, or NoName
    session,    \* Session.checkpoint, or None
    acks,       \* ghost: the acknowledgements given
    promised,   \* ghost: by name, the records a restart may find
    writes

vars == <<backend, disk, records, format, closed, writer, loader, session, acks,
          promised, writes>>

None == 0
NoName == "none"
Free == [step |-> "free"]

Init ==
    /\ backend \in Backend
    /\ disk = [now |-> << >>, left |-> {<< >>}]
    /\ records = << >>
    /\ format \in Format
    /\ closed = FALSE
    /\ writer = Free /\ loader = NoName
    /\ session = None /\ acks = {}
    /\ promised = [n \in Name |-> {None}]
    /\ writes = 0

Accepts(f, version) == version = f.version \/ (f.previous /\ version = 1)

NumberIn(rs, n) == IF n \in DOMAIN rs THEN rs[n].number ELSE None

Put(rs, n, r) == [m \in DOMAIN rs \cup {n} |-> IF m = n THEN r ELSE rs[m]]

\* marshalFileRecords decodes every record under the current format again.
Marshals(rs) ==
    backend = "file" =>
        /\ Cardinality(DOMAIN rs) <= MaxRecords
        /\ \A n \in DOMAIN rs : Accepts(format, rs[n].version)

\* A writer takes the lock with the records it will install.
Lock(n, candidate, installs) ==
    /\ writer = Free
    /\ ~closed
    /\ Marshals(candidate)
    /\ writer' = [step |-> "write", name |-> n, records |-> candidate,
                  number |-> NumberIn(candidate, n), installs |-> installs]
    /\ promised' = [promised EXCEPT ![n] = @ \cup {NumberIn(candidate, n)}]

Save(n, number) ==
    /\ n # Group
    /\ writes < MaxWrites /\ writes' = writes + 1
    /\ Lock(n, Put(records, n, [number |-> number, version |-> format.version]),
            FALSE)
    /\ UNCHANGED <<backend, disk, records, format, closed, loader, session, acks>>

Delete(n) ==
    /\ n # Group /\ n \in DOMAIN records
    /\ writes < MaxWrites /\ writes' = writes + 1
    /\ Lock(n, Restrict(records, DOMAIN records \ {n}), FALSE)
    /\ UNCHANGED <<backend, disk, records, format, closed, loader, session, acks>>

\* Load found a record of an older format it must rewrite.
Load(n) ==
    /\ ~closed /\ loader = NoName
    /\ n \in DOMAIN records
    /\ format.migrate
    /\ records[n].version # format.version
    /\ Accepts(format, records[n].version)
    /\ loader' = n
    /\ UNCHANGED <<backend, disk, records, format, closed, writer, session, acks,
                   promised, writes>>

\* migrateAndLoad reads the record again under the write lock.
MigrateAndLoad ==
    /\ loader # NoName
    /\ writer = Free
    /\ loader' = NoName
    /\ IF closed \/ loader \notin DOMAIN records
          \/ records[loader].version = format.version
         THEN UNCHANGED <<writer, promised>>
         ELSE Lock(loader, Put(records, loader, [records[loader] EXCEPT
                                                    !.version = format.version]),
                   FALSE)
    /\ UNCHANGED <<backend, disk, records, format, closed, session, acks, writes>>

\* Session.Install saves the checkpoint before it publishes it, under the
\* session's lock.  Once a checkpoint was acknowledged the host's contract is
\* to install, after a restart, the one it loads.
Install(number) ==
    /\ session = None
    /\ acks # {} => NumberIn(records, Group) = number
    /\ writes < MaxWrites /\ writes' = writes + 1
    /\ Lock(Group, Put(records, Group, [number |-> number,
                                        version |-> format.version]), TRUE)
    /\ UNCHANGED <<backend, disk, records, format, closed, loader, session,
                   acks>>

Acknowledge ==
    /\ session # None
    /\ acks' = acks \cup {session}
    /\ UNCHANGED <<backend, disk, records, format, closed, writer, loader, session,
                   promised, writes>>

(***************************************************************************)
(* replaceFile.                                                            *)
(***************************************************************************)
\* Mutated form: the session publishes the checkpoint though it was not saved.
ReleasePublishing(done) ==
    /\ writer' = Free
    /\ promised' = IF done THEN [promised EXCEPT ![writer.name] = {writer.number}]
                   ELSE promised
    /\ session' = IF writer.installs THEN writer.number ELSE session

\* The call ends: with success, or with an error and no claim.
Release(done) ==
    /\ writer' = Free
    /\ promised' = IF done THEN [promised EXCEPT ![writer.name] = {writer.number}]
                   ELSE promised
    /\ session' = IF done /\ writer.installs THEN writer.number ELSE session

\* The temporary file cannot be written or renamed.
WriteFails ==
    /\ writer.step = "write"
    /\ Release(FALSE)
    /\ UNCHANGED <<backend, disk, records, format, closed, loader, acks, writes>>

Rename ==
    /\ backend = "file" /\ writer.step = "write"
    /\ writer' = [writer EXCEPT !.step = "renamed"]
    /\ disk' = [now |-> writer.records, left |-> disk.left \cup {writer.records}]
    /\ UNCHANGED <<backend, records, format, closed, loader, session, acks,
                   promised, writes>>

\* The mutated form: a failed directory sync leaves the records as they were.
AlignedOnSuccess(done) == records' = IF done THEN writer.records ELSE records

\* The file was replaced: memory follows it, whatever the sync's result.
Aligned(done) == records' = writer.records

SyncDirectory(done) ==
    /\ writer.step = "renamed"
    /\ disk' = IF done THEN [disk EXCEPT !.left = {disk.now}] ELSE disk
    /\ Aligned(done)
    /\ Release(done)
    /\ UNCHANGED <<backend, format, closed, loader, acks, writes>>

\* A Bolt transaction commits or does not.
Commit ==
    /\ backend = "bolt" /\ writer.step = "write"
    /\ disk' = [now |-> writer.records, left |-> {writer.records}]
    /\ records' = writer.records
    /\ Release(TRUE)
    /\ UNCHANGED <<backend, format, closed, loader, acks, writes>>

\* Close refuses new calls at once and waits for the one that holds the lock.
Close ==
    /\ ~closed
    /\ closed' = TRUE
    /\ UNCHANGED <<backend, disk, records, format, writer, loader, session, acks,
                   promised, writes>>

\* The store is opened again, after Close or, with one of the contents that
\* may be left, after the process stopped.  OpenFile validates every record.
Reopen(f) ==
    /\ \/ closed /\ writer = Free /\ loader = NoName /\ disk' = disk
       \/ \E rs \in disk.left : disk' = [now |-> rs, left |-> {rs}]
    /\ backend = "file" => \A n \in DOMAIN disk'.now :
                               Accepts(f, disk'.now[n].version)
    /\ records' = disk'.now
    /\ format' = f
    /\ closed' = FALSE
    /\ writer' = Free /\ loader' = NoName
    /\ session' = None
    /\ UNCHANGED <<backend, acks, promised, writes>>

Next ==
    \/ \E n \in Name, c \in Checkpoint : Save(n, c)
    \/ \E n \in Name : Delete(n)
    \/ \E n \in Name : Load(n)
    \/ MigrateAndLoad
    \/ \E c \in Checkpoint : Install(c)
    \/ Acknowledge
    \/ WriteFails
    \/ Rename
    \/ \E done \in BOOLEAN : SyncDirectory(done)
    \/ Commit
    \/ Close
    \/ \E f \in Format : Reopen(f)

Spec == Init /\ [][Next]_vars

-----------------------------------------------------------------------------
\* Between calls an open store answers Load from what the file holds, also
\* after a replacement whose directory sync failed, so that the next call
\* does not write an older record back.
MemoryAligned == writer = Free => records = disk.now

\* A crash at any moment leaves, under every name, the record whose Save,
\* Delete or migration was acknowledged last, or one a later call that did
\* not report success was writing; and what Load answers is what the file holds.
AcknowledgedKept ==
    /\ MemoryAligned
    /\ \A rs \in disk.left : \A n \in Name : NumberIn(rs, n) \in promised[n]

\* A group's members are never told of two checkpoints, and the one they were
\* told of is the one any restart finds.
OneRecoveryBase ==
    \A a \in acks : \A rs \in disk.left : NumberIn(rs, Group) = a
=============================================================================
