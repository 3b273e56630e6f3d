-------------------------------- MODULE Lock --------------------------------
(***************************************************************************)
(* One paxos group of the lock service.  The master checks a request       *)
(* against its table in memory and proposes it; every node executes the    *)
(* chosen operations on its table in memory, and a replayer executes them  *)
(* once more, later, on the table in leveldb.  After a restart the table   *)
(* in memory is read from leveldb and the log is replayed from the larger  *)
(* of two checkpoints: the disk checkpoint, written with an operation, and *)
(* the restart checkpoint, written by the clean thread when the group is   *)
(* idle.                                                                   *)
(***************************************************************************)
EXTENDS LockDb, FiniteSets, Sequences

CONSTANTS
    Node,        \* the nodes of the lock service
    Nobody,      \* stands for "no master" and "no client"
    Requests,    \* the kinds of request that clients send
    Background,  \* bound on the nodes whose replayer and clean thread run
    Trimming,    \* does paxos delete old log files?
    MaxLog,      \* bound on the paxos log
    MaxPend,     \* bound on proposals in flight
    MaxWrite,    \* bound on nodes in WriteRestartCheckpoint at the same time
    MaxFault,    \* bound on time-outs and losses of mastership
    MaxRestart   \* bound on restarts

\* Requests: AcquireLock with a lease, AcquireLock with lease zero, SetString
\* and DeleteString.
RequestKinds == {"acquire", "release", "set", "delete"}

ASSUME LockAssumption ==
    /\ Nobody \notin Node /\ Nobody \notin Client
    /\ Requests \subseteq RequestKinds
    /\ Background \subseteq Node
    /\ Trimming \in BOOLEAN
    /\ MaxLog \in Nat /\ MaxPend \in Nat /\ MaxFault \in Nat
    /\ MaxWrite \in Nat /\ MaxRestart \in Nat

VARIABLES
    log,         \* the chosen paxos values; instance i is log[i + 1]
    pend,        \* proposals in flight, with the client whose call waits
    master,      \* the node that holds the master lease
    applied,     \* applied[n]: first instance not executed in memory
    dbnext,      \* dbnext[n]: first instance not replayed into leveldb
    minc,        \* minc[n]: first instance n's paxos still stores
    map,         \* map[n]: the table in memory
    db,          \* db[n]: the table in leveldb
    synced,      \* synced[n]: the part of leveldb that survives a power cut
    last,        \* last[n]: last instance that held an operation
    mem,         \* mem[n]: memory checkpoint
    disk,        \* disk[n]: disk checkpoint
    rst,         \* rst[n]: restart checkpoint
    wr,          \* wr[n]: the clean thread's WriteRestartCheckpoint
    call,        \* call[c]: the request of client c
    granted,     \* the operations that were answered with RET_OK
    hist,        \* history: the table after each instance, by its first executor
    faults, restarts

vars == <<log, pend, master, applied, dbnext, minc, map, db, synced, last, mem,
          disk, rst, wr, call, granted, hist, faults, restarts>>

NoCheckpoint == -1
IdleCall == [ph |-> "idle"]
IdleWrite == [ph |-> "idle", now |-> 0, mem |-> NoCheckpoint]

Init ==
    /\ log = <<>>
    /\ pend = {}
    /\ master = Nobody
    /\ applied = [n \in Node |-> 0]
    /\ dbnext = [n \in Node |-> 0]
    /\ minc = [n \in Node |-> 0]
    /\ map = [n \in Node |-> NoRecords]
    /\ db = [n \in Node |-> NoRecords]
    /\ synced = [n \in Node |-> [upto |-> 0, table |-> NoRecords]]
    /\ last = [n \in Node |-> NoCheckpoint]
    /\ mem = [n \in Node |-> NoCheckpoint]
    /\ disk = [n \in Node |-> NoCheckpoint]
    /\ rst = [n \in Node |-> NoCheckpoint]
    /\ wr = [n \in Node |-> IdleWrite]
    /\ call = [c \in Client |-> IdleCall]
    /\ granted = {}
    /\ hist = <<NoRecords>>
    /\ faults = 0
    /\ restarts = 0

logVars  == <<log, pend>>
execVars == <<applied, map, last, hist>>
diskVars == <<dbnext, db, synced, mem, disk, rst>>

Fault == faults < MaxFault /\ faults' = faults + 1

-----------------------------------------------------------------------------
(* Paxos.                                                                  *)

Propose(op, cli) ==
    /\ Cardinality(pend) < MaxPend
    /\ pend' = pend \cup {[op |-> op, cli |-> cli]}

\* A proposal is chosen.  The call that waits for it learns its instance.
Chosen(p) ==
    /\ Len(log) < MaxLog
    /\ log' = Append(log, p.op)
    /\ pend' = pend \ {p}
    /\ call' = IF p.cli = Nobody THEN call
               ELSE [call EXCEPT ![p.cli].inst = Len(log)]
    /\ UNCHANGED <<execVars, diskVars, master, minc, wr, granted, faults,
                   restarts>>

\* A proposal that nobody waits for may also get lost.
ProposalLost(p) ==
    /\ p.cli = Nobody
    /\ pend' = pend \ {p}
    /\ UNCHANGED <<execVars, diskVars, log, master, minc, wr, call, granted,
                   faults, restarts>>

\* A master is elected, or renews its lease, by a value of the group's log.
MasterElect(n) ==
    /\ master \in {n, Nobody}
    /\ Len(log) < MaxLog
    /\ log' = Append(log, Blank)
    /\ master' = n
    /\ UNCHANGED <<execVars, diskVars, pend, minc, wr, call, granted, faults,
                   restarts>>

\* The lease runs out, or is dropped: by the keep-master thread, or by Execute
\* on the value of a keep-master thread that names another master.
MasterLost ==
    /\ master # Nobody
    /\ Fault
    /\ master' = Nobody
    /\ UNCHANGED <<logVars, execVars, diskVars, minc, wr, call, granted,
                   restarts>>

\* Paxos deletes log files before the disk checkpoint.
CleanPaxosLog(n, i) ==
    /\ Trimming
    /\ minc[n] < i /\ i <= disk[n]
    /\ minc' = [minc EXCEPT ![n] = i]
    /\ UNCHANGED <<logVars, execVars, diskVars, master, wr, call, granted,
                   faults, restarts>>

-----------------------------------------------------------------------------
(* Requests.                                                               *)

\* The operation that a request of client c proposes.
OpOf(r, k, v, c) ==
    [kind |-> IF r \in {"acquire", "release"} THEN "lock" ELSE "string",
     key |-> k, ver |-> v, who |-> c, free |-> r \in {"release", "delete"}]

Call(c, n, op) ==
    /\ call[c].ph = "idle"
    /\ master = n
    /\ Propose(op, c)
    /\ call' = [call EXCEPT ![c] = [ph |-> "wait", node |-> n, op |-> op,
                                    inst |-> NoCheckpoint, ok |-> FALSE]]
    /\ UNCHANGED <<execVars, diskVars, log, master, minc, wr, granted, faults,
                   restarts>>

\* Lock::AcquireLock: a request that the master's table refuses is answered
\* at once, another is proposed.
AcquireLock(c, n, r, k, v) ==
    /\ r \in Requests \cap {"acquire", "release"}
    /\ Fits(map[n], OpOf(r, k, v, c))
    /\ Call(c, n, OpOf(r, k, v, c))

\* Lock::SetString and DeleteString propose unseen.
SetString(c, n, r, k, v) ==
    /\ r \in Requests \cap {"set", "delete"}
    /\ Call(c, n, OpOf(r, k, v, c))

\* Mutant: every failed or refused lock request deletes the key.
DeleteLockAlways(c) ==
    map' = LET n == call[c].node op == call[c].op IN
           IF op.kind = "lock" /\ (op.free \/ ~call[c].ok)
           THEN [map EXCEPT ![n][op.key] = NoRecord] ELSE map

\* A release deletes the key from the server's own table, whatever became of
\* the proposal.
DeleteLock(c) ==
    map' = LET n == call[c].node op == call[c].op IN
           IF op.kind = "lock" /\ op.free
           THEN [map EXCEPT ![n][op.key] = NoRecord] ELSE map

\* The proposal was executed on the proposer's node: the call returns.
Answer(c) ==
    /\ call[c].ph = "done"
    /\ DeleteLock(c)
    /\ granted' = IF call[c].ok /\ ~call[c].op.free
                  THEN granted \cup {[inst |-> call[c].inst, op |-> call[c].op]}
                  ELSE granted
    /\ call' = [call EXCEPT ![c] = IdleCall]
    /\ UNCHANGED <<logVars, diskVars, applied, last, hist, master, minc, wr,
                   faults, restarts>>

\* Propose fails or times out; the proposal may still be chosen.
CallFails(c) ==
    /\ call[c].ph = "wait"
    /\ Fault
    /\ DeleteLock(c)
    /\ pend' = {[p EXCEPT !.cli = IF @ = c THEN Nobody ELSE @] : p \in pend}
    /\ call' = [call EXCEPT ![c] = IdleCall]
    /\ UNCHANGED <<diskVars, log, applied, last, hist, master, minc, wr,
                   granted, restarts>>

\* CleanThread::CleanRecord: the master proposes to free a record whose lease
\* is over, in the version it saw.
CleanRecord(n, k) ==
    /\ n \in Background
    /\ master = n
    /\ map[n][k] # NoRecord
    /\ Propose([kind |-> "lock", key |-> k, ver |-> map[n][k].ver,
                who |-> Cleaner, free |-> TRUE], Nobody)
    /\ UNCHANGED <<execVars, diskVars, log, master, minc, wr, call, granted,
                   faults, restarts>>

-----------------------------------------------------------------------------
(* The state machine.                                                      *)

\* Mutant: the result of the operation is not looked at.
ReturnsOK(n, i, ok) ==
    [c \in Client |->
        IF call[c].ph = "wait" /\ call[c].node = n /\ call[c].inst = i
        THEN [call[c] EXCEPT !.ph = "done", !.ok = TRUE] ELSE call[c]]

\* The call on node n that waits for instance i gets its result.
Returns(n, i, ok) ==
    [c \in Client |->
        IF call[c].ph = "wait" /\ call[c].node = n /\ call[c].inst = i
        THEN [call[c] EXCEPT !.ph = "done", !.ok = ok] ELSE call[c]]

\* LockSM::Execute: the next instance, on the table in memory.
Execute(n) ==
    LET i == applied[n] op == log[i + 1] new == After(map[n], op, i) IN
    /\ i < Len(log)
    /\ \E m \in Node : minc[m] <= i
    /\ map' = [map EXCEPT ![n] = new]
    /\ last' = IF op.kind = "blank" THEN last ELSE [last EXCEPT ![n] = i]
    /\ applied' = [applied EXCEPT ![n] = i + 1]
    /\ call' = Returns(n, i, Accepts(map[n], op))
    /\ hist' = IF Len(hist) = i + 1 THEN Append(hist, new) ELSE hist
    /\ UNCHANGED <<logVars, diskVars, master, minc, wr, granted, faults,
                   restarts>>

\* LockSM::ExecuteForCheckpoint: the replayer executes on leveldb an instance
\* that memory has executed.  Only an accepted operation moves a checkpoint:
\* the memory checkpoint, or, with a synchronous write, also that on disk.
ExecuteForCheckpoint(n, sync) ==
    LET i == dbnext[n] op == log[i + 1] new == After(db[n], op, i)
        ok == Accepts(db[n], op)
    IN
    /\ n \in Background
    /\ i < applied[n]
    /\ db' = [db EXCEPT ![n] = new]
    /\ dbnext' = [dbnext EXCEPT ![n] = i + 1]
    /\ mem' = IF ok THEN [mem EXCEPT ![n] = i] ELSE mem
    /\ disk' = IF ok /\ sync THEN [disk EXCEPT ![n] = i] ELSE disk
    /\ synced' = IF ok /\ sync
                 THEN [synced EXCEPT ![n] = [upto |-> i + 1, table |-> new]]
                 ELSE synced
    /\ UNCHANGED <<logVars, execVars, rst, master, minc, wr, call, granted,
                   faults, restarts>>

-----------------------------------------------------------------------------
(* CleanThread::WriteRestartCheckpoint.                                    *)

ReadNowInstanceID(n) ==
    /\ wr[n].ph = "idle"
    /\ Cardinality({m \in Node : wr[m].ph # "idle"}) < MaxWrite
    /\ wr' = [wr EXCEPT ![n] = [IdleWrite EXCEPT !.ph = "mem",
                                                 !.now = applied[n]]]
    /\ UNCHANGED <<logVars, execVars, diskVars, master, minc, call, granted,
                   faults, restarts>>

ReadMemoryCheckpoint(n) ==
    /\ wr[n].ph = "mem"
    /\ wr' = [wr EXCEPT ![n] = [@ EXCEPT !.ph = "last", !.mem = mem[n]]]
    /\ UNCHANGED <<logVars, execVars, diskVars, master, minc, call, granted,
                   faults, restarts>>

\* The group is idle if leveldb has executed the last operation and instances
\* without one followed.
ReadLastInstanceID(n) ==
    /\ wr[n].ph = "last"
    /\ wr' = [wr EXCEPT ![n] =
                IF last[n] = wr[n].mem /\ wr[n].now > wr[n].mem + 1
                THEN [@ EXCEPT !.ph = "write"] ELSE IdleWrite]
    /\ UNCHANGED <<logVars, execVars, diskVars, master, minc, call, granted,
                   faults, restarts>>

\* Mutant: the current instance is read when the checkpoint is written.
WriteCurrentInstance(n) ==
    /\ wr[n].ph = "write"
    /\ synced' = [synced EXCEPT ![n] = [upto |-> dbnext[n], table |-> db[n]]]
    /\ rst' = [rst EXCEPT ![n] = applied[n] - 1]
    /\ wr' = [wr EXCEPT ![n] = IdleWrite]
    /\ UNCHANGED <<logVars, execVars, dbnext, db, mem, disk, master, minc,
                   call, granted, faults, restarts>>

\* LockDb::Sync, then the synchronous write of the restart checkpoint.
WriteRestartCheckpoint(n) ==
    /\ wr[n].ph = "write"
    /\ synced' = [synced EXCEPT ![n] = [upto |-> dbnext[n], table |-> db[n]]]
    /\ rst' = [rst EXCEPT ![n] = wr[n].now - 1]
    /\ wr' = [wr EXCEPT ![n] = IdleWrite]
    /\ UNCHANGED <<logVars, execVars, dbnext, db, mem, disk, master, minc,
                   call, granted, faults, restarts>>

-----------------------------------------------------------------------------
(* Restarts.                                                               *)

\* Mutant: the table in memory starts empty.
RecoverNothing(n, t) == [map EXCEPT ![n] = NoRecords]

\* LockMgr::Init reads the table in memory from leveldb.
RecoverMap(n, t) == [map EXCEPT ![n] = t]

\* LockMgr::Init with leveldb table t, disk checkpoint d and restart
\* checkpoint r: the larger checkpoint counts and becomes the disk checkpoint.
StartFrom(n, t, d, r) ==
    LET cp == IF r > d THEN r ELSE d IN
    /\ db' = [db EXCEPT ![n] = t]
    /\ map' = RecoverMap(n, t)
    /\ disk' = [disk EXCEPT ![n] = cp]
    /\ rst' = [rst EXCEPT ![n] = r]
    /\ mem' = [mem EXCEPT ![n] = cp]
    /\ last' = [last EXCEPT ![n] = cp]
    /\ applied' = [applied EXCEPT ![n] = cp + 1]
    /\ dbnext' = [dbnext EXCEPT ![n] = cp + 1]
    /\ wr' = [wr EXCEPT ![n] = IdleWrite]
    /\ master' = IF master = n THEN Nobody ELSE master
    /\ call' = [c \in Client |-> IF call[c].ph # "idle" /\ call[c].node = n
                                 THEN IdleCall ELSE call[c]]
    /\ pend' = {[p EXCEPT !.cli = IF @ # Nobody /\ call[@].node = n
                                  THEN Nobody ELSE @] : p \in pend}
    /\ restarts < MaxRestart /\ restarts' = restarts + 1
    /\ UNCHANGED <<log, hist, granted, faults>>

\* The process dies and is started again; after a power cut leveldb has only
\* what was written synchronously.  That opening leveldb flushes it is not
\* relied upon.
Restart(n, powercut) ==
    /\ StartFrom(n, IF powercut THEN synced[n].table ELSE db[n], disk[n], rst[n])
    /\ UNCHANGED <<minc, synced>>

\* Mutant: the checkpoint is taken over, the table is not.
LoadCheckpointOnly(n, m) ==
    /\ applied[n] < minc[m]
    /\ StartFrom(n, db[n], disk[m], rst[m])
    /\ minc' = [minc EXCEPT ![n] = disk'[n] + 1]
    /\ UNCHANGED synced

\* LockSM::LoadCheckpointState: n lags behind what m still stores, takes over
\* m's leveldb, checkpoints included, and is restarted by paxos.  The copied
\* files are taken to be durable.
LoadCheckpointState(n, m) ==
    /\ applied[n] < minc[m]
    /\ StartFrom(n, db[m], disk[m], rst[m])
    /\ minc' = [minc EXCEPT ![n] = disk'[n] + 1]
    /\ synced' = [synced EXCEPT ![n] = [upto |-> dbnext[m], table |-> db[m]]]

-----------------------------------------------------------------------------
\* The versions of key k that clients may know (from Lock::GetLockInfo and
\* GetString): zero, when there was no record, and those of its operations.
Versions(k) ==
    {0} \cup {i \in 0 .. Len(log) - 1 :
                log[i + 1].kind # "blank" /\ log[i + 1].key = k
                /\ ~log[i + 1].free}

ClientNext(c) ==
    \/ \E n \in Node, r \in Requests, k \in Key :
        \/ \E v \in Versions(k) : AcquireLock(c, n, r, k, v)
        \/ \E v \in Versions(k) \cup {AnyVersion} : SetString(c, n, r, k, v)
    \/ Answer(c)
    \/ CallFails(c)

NodeNext(n) ==
    \/ MasterElect(n)
    \/ \E i \in 0 .. disk[n] : CleanPaxosLog(n, i)
    \/ \E k \in Key : CleanRecord(n, k)
    \/ Execute(n)
    \/ \E sync \in BOOLEAN : ExecuteForCheckpoint(n, sync)
    \/ ReadNowInstanceID(n)
    \/ ReadMemoryCheckpoint(n)
    \/ ReadLastInstanceID(n)
    \/ WriteRestartCheckpoint(n)
    \/ \E powercut \in BOOLEAN : Restart(n, powercut)
    \/ \E m \in Node : LoadCheckpointState(n, m)

Next ==
    \/ \E p \in pend : Chosen(p) \/ ProposalLost(p)
    \/ MasterLost
    \/ \E c \in Client : ClientNext(c)
    \/ \E n \in Node : NodeNext(n)

Spec == Init /\ [][Next]_vars

-----------------------------------------------------------------------------
(* Properties.                                                             *)

Instance == Nat \cup {NoCheckpoint}
ActiveCall == [ph : {"wait", "done"}, node : Node, op : Op, inst : Instance,
               ok : BOOLEAN]

\* The shape of the state.
TypeOK ==
    /\ log \in Seq(Op \cup {Blank})
    /\ pend \in SUBSET [op : Op, cli : Client \cup {Nobody}]
    /\ master \in Node \cup {Nobody}
    /\ applied \in [Node -> Nat]
    /\ dbnext \in [Node -> Nat]
    /\ minc \in [Node -> Nat]
    /\ map \in [Node -> Tables]
    /\ db \in [Node -> Tables]
    /\ synced \in [Node -> [upto : Nat, table : Tables]]
    /\ last \in [Node -> Instance]
    /\ mem \in [Node -> Instance]
    /\ disk \in [Node -> Instance]
    /\ rst \in [Node -> Instance]
    /\ wr \in [Node -> [ph : {"idle", "mem", "last", "write"}, now : Nat,
                         mem : Instance]]
    /\ call \in [Client -> ActiveCall \cup {IdleCall}]
    /\ granted \in SUBSET [inst : Nat, op : Op]
    /\ hist \in Seq(Tables)
    /\ faults \in Nat /\ restarts \in Nat

\* The operations that took effect in the table that the first executors of
\* the instances produced.
TookEffect(i) ==
    LET op == log[i + 1] IN
    /\ op.kind # "blank"
    /\ hist[i + 2][op.key] = IF op.free THEN NoRecord
                             ELSE [ver |-> i, who |-> op.who]

Done == {[inst |-> i, op |-> log[i + 1]] :
            i \in {j \in 0 .. Len(hist) - 2 : TookEffect(j)}}

Table == INSTANCE LockTable WITH
            table <- hist[Len(hist)], clock <- Len(hist) - 1, done <- Done

\* Without restarts and releases the service is one versioned table: an
\* operation takes effect only on the version it names, and a client is told
\* RET_OK only if its operation did.
ActsAsOneTable == Table!Spec

\* RET_OK from Lock::AcquireLock means acquired (lock.cpp:346): the replicas
\* have recorded the operation.
GrantedIsAcquired == granted \subseteq Done

\* Without restarts and releases the replicas agree: both tables of a node,
\* in memory and in leveldb, are those of whoever executed the instance first.
ReplicasAgree ==
    \A n \in Node : /\ map[n] = hist[applied[n] + 1]
                    /\ db[n] = hist[dbnext[n] + 1]

\* Leveldb follows memory, through restarts and checkpoint transfer: when the
\* replayer has caught up, both tables are the same.
LeveldbFollows ==
    \A n \in Node : dbnext[n] = applied[n] => db[n] = map[n]

\* A checkpoint covers an operation only if leveldb has executed it and would
\* keep it in a power cut: nothing that the replay skips is lost.
CheckpointIsDurable ==
    \A n \in Node : \A i \in (0 .. disk[n]) \cup (0 .. rst[n]) :
        log[i + 1].kind # "blank" => i < synced[n].upto

\* Where no string is set, executing or replaying an operation never
\* replaces a record by an older version of it.  (A string that is set in any
\* version does, when it is replayed on a leveldb that is ahead.)
VersionsNeverRetreat ==
    [][\A n \in Node, k \in Key :
        restarts' = restarts /\ map[n][k] # NoRecord /\ map'[n][k] # NoRecord
            => map'[n][k].ver >= map[n][k].ver]_map
=============================================================================
