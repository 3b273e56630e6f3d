------------------------------- MODULE LockDb -------------------------------
(***************************************************************************)
(* The record table of the lock service: the operations of lockdb.cpp on   *)
(* one table, whether it is the map in memory or the leveldb on disk.      *)
(* Locks and strings share the table; their key prefixes are empty.        *)
(***************************************************************************)
EXTENDS Integers

CONSTANTS
    Key,         \* lock and string keys of one paxos group
    Client,      \* client ids
    NoRecord     \* the key does not exist

AnyVersion == -1      \* UINT64_MAX: set a string whatever its version
Cleaner == "clean_thread"

\* LocalRecordInfo: the version is the paxos instance that wrote the record.
Record == [ver : Nat, who : Client \cup {Cleaner}]
Tables == [Key -> Record \cup {NoRecord}]
NoRecords == [k \in Key |-> NoRecord]

ASSUME RecordAssumption == NoRecord \notin Record /\ Cleaner \notin Client

\* LockPaxosArgs: an acquire_lock_req or a set_string_req.  A lease of zero
\* (free) deletes the record.
Op == [kind : {"lock", "string"}, key : Key, ver : Nat \cup {AnyVersion},
       who : Client \cup {Cleaner}, free : BOOLEAN]

\* A value of the group's log that is not for the lock state machine, such as
\* a master election.
Blank == [kind |-> "blank"]

\* Mutant: versions are not compared.
FitsAlways(t, op) == TRUE

\* The version check of AcquireLock and VersionSetString: what does not exist
\* fits every version.
Fits(t, op) ==
    t[op.key] # NoRecord =>
        \/ t[op.key].ver = op.ver
        \/ op.kind = "string" /\ op.ver = AnyVersion

\* Instance i, with value op, executed on table t.
Accepts(t, op) == op.kind # "blank" /\ Fits(t, op)

\* Mutant: the record keeps the version of the request.
AfterOldVersion(t, op, i) ==
    IF ~Accepts(t, op) THEN t
    ELSE [t EXCEPT ![op.key] =
            IF op.free THEN NoRecord ELSE [ver |-> op.ver, who |-> op.who]]

After(t, op, i) ==
    IF ~Accepts(t, op) THEN t
    ELSE [t EXCEPT ![op.key] =
            IF op.free THEN NoRecord ELSE [ver |-> i, who |-> op.who]]
=============================================================================
