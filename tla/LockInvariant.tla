--------------------------- MODULE LockInvariant ---------------------------
(***************************************************************************)
(* The inductive invariants behind the properties of Lock.  The first is    *)
(* that of CheckpointIsDurable: what a checkpoint covers must be in         *)
(* leveldb's durable part; a synchronous write makes durable what the       *)
(* replayer has executed, so a checkpoint must not cover more than that     *)
(* either, and neither must one that the clean thread is about to write.    *)
(***************************************************************************)
EXTENDS Lock

\* Every operation of log l up to instance c lies before instance x.
Before(l, c, x) ==
    \A i \in 0 .. c : i < Len(l) /\ l[i + 1].kind # "blank" => i < x

\* Positions and checkpoints of node n in the log.
PositionsOK(n) ==
    /\ dbnext[n] <= applied[n]
    /\ applied[n] <= Len(log)
    /\ disk[n] < applied[n]
    /\ rst[n] < applied[n]
    /\ mem[n] < dbnext[n]

\* The last operation that memory executed is known.
LastOK(n) == Before(log, applied[n] - 1, last[n] + 1)

\* Both checkpoints cover only operations that the replayer has executed and
\* that are durable.
CheckpointsOK(n) ==
    /\ Before(log, disk[n], dbnext[n]) /\ Before(log, disk[n], synced[n].upto)
    /\ Before(log, rst[n], dbnext[n]) /\ Before(log, rst[n], synced[n].upto)

\* So does the restart checkpoint that the clean thread is about to write.
WriteOK(n) ==
    /\ wr[n].now <= applied[n]
    /\ wr[n].mem < dbnext[n]
    /\ wr[n].ph = "write" => Before(log, wr[n].now - 1, dbnext[n])

\* A call that has its result knows its instance.
AnswersOK == \A c \in Client : call[c].ph = "done" => call[c].inst \in Nat

NodeOK(n) == PositionsOK(n) /\ LastOK(n) /\ CheckpointsOK(n) /\ WriteOK(n)

DurableInv == TypeOK /\ AnswersOK /\ \A n \in Node : NodeOK(n)

-----------------------------------------------------------------------------
(* Behind ReplicasAgree and ActsAsOneTable, where nobody releases a lock   *)
(* and no node restarts.                                                   *)

\* No call will delete a key outside the log.
NoReleases ==
    \A c \in Client : call[c].ph # "idle" => ~(call[c].op.kind = "lock" /\ call[c].op.free)

\* A record of the table has the version of an instance before i.
VersionsBefore(t, i) == \A k \in Key : t[k] # NoRecord => t[k].ver < i

\* The history is that of the log, it reaches as far as any node, and its
\* records have versions of the past.
HistoryOK ==
    /\ Len(hist) <= Len(log) + 1
    /\ \A n \in Node : applied[n] < Len(hist)
    /\ \A i \in 1 .. Len(hist) - 1 : hist[i + 1] = After(hist[i], log[i], i - 1)
    /\ \A i \in 1 .. Len(hist) : VersionsBefore(hist[i], i - 1)

\* A call waits for its own proposal, knows the instance that holds it, and
\* is told that it was accepted only if it took effect.
CallOK(c) ==
    call[c].ph # "idle" =>
        /\ call[c].inst # NoCheckpoint =>
              call[c].inst < Len(log) /\ log[call[c].inst + 1] = call[c].op
        /\ call[c].ph = "done" /\ call[c].ok => [inst |-> call[c].inst, op |-> call[c].op] \in Done

ProposalOK(p) ==
    p.cli # Nobody =>
        /\ call[p.cli].ph = "wait"
        /\ call[p.cli].op = p.op
        /\ call[p.cli].inst = NoCheckpoint

AgreeInv ==
    /\ DurableInv /\ NoReleases /\ HistoryOK /\ ReplicasAgree /\ GrantedIsAcquired
    /\ \A c \in Client : CallOK(c)
    /\ \A p \in pend : ProposalOK(p)

-----------------------------------------------------------------------------
(* Behind VersionsNeverRetreat, where nobody sets a string.                *)

\* An operation names a version of the past, unless it deletes a string.
NamesOld(op, i) == op.kind # "blank" => op.ver <= i /\ (op.kind = "string" => op.free)

VersionInv ==
    /\ DurableInv
    /\ \A i \in 1 .. Len(log) : NamesOld(log[i], i - 1)
    /\ \A p \in pend : NamesOld(p.op, Len(log))
    /\ \A n \in Node : /\ VersionsBefore(map[n], Len(log))
                       /\ VersionsBefore(db[n], Len(log))
                       /\ VersionsBefore(synced[n].table, Len(log))
=============================================================================
