----------------------------- MODULE LockTable -----------------------------
(***************************************************************************)
(* What the lock service promises its clients: one table of versioned      *)
(* records, changed by one operation at a time.  An operation that names   *)
(* the version of a record takes effect only while the record has that     *)
(* version or does not exist, and RET_OK is answered only for an operation *)
(* that took effect.                                                       *)
(***************************************************************************)
EXTENDS Integers

CONSTANTS
    Key,         \* the keys
    NoRecord,    \* the key does not exist
    AnyVersion   \* an operation with this version ignores the record's

VARIABLES
    table,       \* the records
    clock,       \* the version that the next operation will create
    done,        \* the operations that took effect, and when
    granted      \* those that were answered with RET_OK

Init ==
    /\ table = [k \in Key |-> NoRecord]
    /\ clock = 0
    /\ done = {}
    /\ granted = {}

\* Operation op (a record with fields key, ver, who and free) finds the
\* version it expects, and writes or frees the record.
Perform(op) ==
    /\ table[op.key] # NoRecord => op.ver \in {table[op.key].ver, AnyVersion}
    /\ table' = [table EXCEPT ![op.key] =
                    IF op.free THEN NoRecord
                    ELSE [ver |-> clock, who |-> op.who]]
    /\ done' = done \cup {[inst |-> clock, op |-> op]}
    /\ clock' = clock + 1
    /\ UNCHANGED granted

\* An operation without effect, or a change of master.
Skip ==
    /\ clock' = clock + 1
    /\ UNCHANGED <<table, done, granted>>

Answer(d) ==
    /\ granted' = granted \cup {d}
    /\ UNCHANGED <<table, clock, done>>

Next ==
    \/ \E d \in done' \ done : Perform(d.op)
    \/ Skip
    \/ \E d \in done : Answer(d)

Spec == Init /\ [][Next]_<<table, clock, done, granted>>
=============================================================================
