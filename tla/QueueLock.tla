----------------------------- MODULE QueueLock -----------------------------
(***************************************************************************)
(* The lock that keeps two consumer processes off the same queue:          *)
(* HeartBeatLock::Lock and DoLock of every consumer process, the loop of   *)
(* Consumer::ChildRun around them, and the records of the lock service.    *)
(*                                                                         *)
(* The service is the one table of LockTable; here its records also carry  *)
(* the time they were written.  All steady clocks run at the same rate, so *)
(* one clock stands for them.  A request takes at most Delay, one round of *)
(* Get and Consume at most Body.                                           *)
(***************************************************************************)
EXTENDS Integers

CONSTANTS
    Proc,          \* consumer processes (host and vpid), also the client ids
    Queue,         \* queues of one consumer group, also the lock keys
    None,          \* no queue, no record
    PaxosGroup,    \* paxos groups of the lock service
    GroupOfKey,    \* the paxos group of each key
    Lease,         \* consumer_lock_lease_time_s
    Interval,      \* consumer_lock_interval_s
    Delay, Body,   \* bounds on a request and on a round of Process
    MaxTime, MaxVersion    \* bounds of the model

ASSUME LeaseAssumption ==
    /\ Lease \in Nat /\ Interval \in Nat /\ Delay \in Nat /\ Body \in Nat
    /\ MaxTime \in Nat /\ MaxVersion \in Nat
    /\ GroupOfKey \in [Queue -> PaxosGroup]
    /\ None \notin Queue
    /\ None \notin [ver : Nat, who : Proc, at : Nat]

VARIABLES
    time,        \* the steady clock
    table,       \* the lock records
    instance,    \* per paxos group, the version of the latest record
    pc,          \* per process, where it is in ChildRun
    queue,       \* the queue that Lock() copied from the slot
    version,     \* DoLock's thread-local version
    overdue,     \* DoLock's thread-local overdue_time_ms
    began        \* when the request under way was sent (for GetLockInfo it is
                 \* cur_time_ms), or start_loop_time of Process; 0 when asleep

lockVars == <<time, table, instance, pc, queue, version, overdue, began>>
service == <<table, instance>>
threadLocal == <<version, overdue>>

Records == [ver : Nat, who : Proc, at : Nat]

LockTypeOK ==
    /\ time \in Nat
    /\ table \in [Queue -> Records \cup {None}]
    /\ instance \in [PaxosGroup -> Nat]
    /\ pc \in [Proc -> {"sleep", "info", "acquire", "reply", "process"}]
    /\ queue \in [Proc -> Queue \cup {None}]
    /\ version \in [Proc -> Nat]
    /\ overdue \in [Proc -> Nat]
    /\ began \in [Proc -> Nat]

LockInit ==
    /\ time = 1
    /\ table = [q \in Queue |-> None]
    /\ instance = [g \in PaxosGroup |-> 0]
    /\ pc = [p \in Proc |-> "sleep"]
    /\ queue = [p \in Proc |-> None]
    /\ version = [p \in Proc |-> 0]
    /\ overdue = [p \in Proc |-> 0]
    /\ began = [p \in Proc |-> 0]

\* ChildRun goes on to its next request, to Process, or to sleep.
Goto(p, where) ==
    /\ pc' = [pc EXCEPT ![p] = where]
    /\ began' = [began EXCEPT ![p] = time]
    /\ UNCHANGED queue

Sleep(p) ==
    /\ pc' = [pc EXCEPT ![p] = "sleep"]
    /\ began' = [began EXCEPT ![p] = 0]
    /\ queue' = [queue EXCEPT ![p] = None]

\* Lock() copies the slot, to which the host's sync process may have written
\* any queue since; without one DoLock returns RET_NO_LOCK_TARGET.  DoLock
\* reads the clock and sends GetLockInfo.  Its release of the previous key
\* cannot happen: last_lock_key is only assigned where it is not empty.
StartLock(p, q) ==
    /\ pc[p] = "sleep"
    /\ queue' = [queue EXCEPT ![p] = q]
    /\ began' = [began EXCEPT ![p] = time]
    /\ pc' = [pc EXCEPT ![p] = "info"]
    /\ UNCHANGED <<time, service, threadLocal>>

\* What GetLockInfo answers: the empty response when the key does not exist.
InfoVersion(q) == IF table[q] = None THEN 0 ELSE table[q].ver
InfoLease(q) == IF table[q] = None THEN 0 ELSE Lease

\* Mutant: a new version does not start a new lease.
OverdueAfterStale(p) == overdue[p]

\* overdue_time_ms after the answer to GetLockInfo.
OverdueAfter(p) ==
    IF version[p] # InfoVersion(queue[p]) THEN began[p] + InfoLease(queue[p])
                                          ELSE overdue[p]

NeedAcquire(p) ==
    \/ table[queue[p]] # None /\ table[queue[p]].who = p
    \/ began[p] > OverdueAfter(p)

\* The answer to GetLockInfo: acquire, or sleep two seconds.
GetLockInfo(p) ==
    /\ pc[p] = "info"
    /\ version' = [version EXCEPT ![p] = InfoVersion(queue[p])]
    /\ overdue' = [overdue EXCEPT ![p] = OverdueAfter(p)]
    /\ IF NeedAcquire(p) THEN Goto(p, "acquire") ELSE Sleep(p)
    /\ UNCHANGED <<time, service>>

\* The service's version check: what does not exist fits every version.
MayAcquire(p) == table[queue[p]] # None => table[queue[p]].ver = version[p]

\* The service performs AcquireLock, or refuses it.
AcquireLock(p) ==
    /\ pc[p] = "acquire"
    /\ LET g == GroupOfKey[queue[p]] IN
       /\ instance[g] < MaxVersion
       /\ instance' = [instance EXCEPT ![g] = @ + 1]
       /\ IF MayAcquire(p)
          THEN /\ table' = [table EXCEPT ![queue[p]] =
                               [ver |-> instance[g] + 1, who |-> p, at |-> time]]
               /\ pc' = [pc EXCEPT ![p] = "reply"]
               /\ UNCHANGED <<queue, began>>
          ELSE Sleep(p) /\ UNCHANGED table
    /\ UNCHANGED <<time, threadLocal>>

\* Lock() returned RET_OK: Process starts its loop.
Acquired(p) ==
    /\ pc[p] = "reply"
    /\ Goto(p, "process")
    /\ UNCHANGED <<time, service, threadLocal>>

\* A request or its answer is lost: ChildRun sleeps and locks again.
Lost(p) ==
    /\ pc[p] \in {"info", "acquire", "reply"}
    /\ Sleep(p)
    /\ UNCHANGED <<time, service, threadLocal>>

\* Process finds at the head of its loop that the interval is over, or fails.
LeaveProcess(p) ==
    /\ pc[p] = "process"
    /\ Sleep(p)
    /\ UNCHANGED <<time, service, threadLocal>>

\* The process dies and is started again.
Crash(p) ==
    /\ Sleep(p)
    /\ version' = [version EXCEPT ![p] = 0]
    /\ overdue' = [overdue EXCEPT ![p] = 0]
    /\ UNCHANGED <<time, service>>

\* The clean thread deletes a record whose lease is over.
Clean(q) ==
    /\ table[q] # None
    /\ time > table[q].at + Lease
    /\ table' = [table EXCEPT ![q] = None]
    /\ UNCHANGED <<time, instance, pc, queue, threadLocal, began>>

\* Mutant: Process keeps going for as long as there are items.
InTimeNoBreak(p) ==
    /\ pc[p] \in {"info", "acquire", "reply"} => time < began[p] + Delay
    /\ pc[p] = "process" => time < began[p] + Lease

\* No request is older than Delay; Process breaks its loop the first time it
\* looks at the clock after the interval, one Body later at most.
InTime(p) ==
    /\ pc[p] \in {"info", "acquire", "reply"} => time < began[p] + Delay
    /\ pc[p] = "process" => time < began[p] + Interval + Body

Tick ==
    /\ time < MaxTime
    /\ \A p \in Proc : InTime(p)
    /\ time' = time + 1
    /\ UNCHANGED <<service, pc, queue, threadLocal, began>>

ProcStep(p) ==
    \/ \E q \in Queue : StartLock(p, q)
    \/ GetLockInfo(p) \/ AcquireLock(p) \/ Acquired(p)
    \/ Lost(p) \/ LeaveProcess(p) \/ Crash(p)

LockNext ==
    \/ \E p \in Proc : ProcStep(p)
    \/ \E q \in Queue : Clean(q)
    \/ Tick

LockSpec == LockInit /\ [][LockNext]_lockVars

-----------------------------------------------------------------------------
\* The process has the lock of q, or is about to learn that it has.
Holds(p, q) == pc[p] \in {"reply", "process"} /\ queue[p] = q

\* No queue is consumed by two processes at the same time, whatever requests
\* are lost, processes die and slots change: a rival lets a lease pass that
\* covers the holder's interval (DoLock, Process).
OneConsumerPerQueue ==
    \A p1, p2 \in Proc, q \in Queue : Holds(p1, q) /\ Holds(p2, q) => p1 = p2

\* What the deployment has to see to: the keys are in one paxos group, and the
\* lease covers a loop of Process and the delays of the requests around it.
SameGroup == \A q1, q2 \in Queue : GroupOfKey[q1] = GroupOfKey[q2]
LeaseCovers == Interval + Body + 2 * Delay <= Lease

\* The parts of the inductive invariant, if that is so.
\* Clocks: how old a request or a loop of Process can be.
Clocks ==
    /\ time \in Nat /\ time > 0
    /\ \A q \in Queue : table[q] # None => table[q].at <= time
    /\ \A p \in Proc :
        /\ pc[p] # "sleep" => queue[p] \in Queue /\ began[p] <= time
        /\ pc[p] \in {"info", "acquire", "reply"} => time <= began[p] + Delay
        /\ pc[p] = "process" => time <= began[p] + Interval + Body

\* The record of a held queue is the holder's, and it is not older than the
\* holder's request or loop allow.
HolderOwnsRecord ==
    \A p \in Proc, q \in Queue : Holds(p, q) =>
        /\ table[q] # None
        /\ table[q].who = p
        /\ pc[p] = "reply" => began[p] <= table[q].at
        /\ pc[p] = "process" => began[p] <= table[q].at + Delay

\* Versions are not used twice, and nobody knows a version of the future.
VersionsAreUnique ==
    /\ \A q \in Queue : table[q] # None =>
          table[q].ver > 0 /\ table[q].ver <= instance[GroupOfKey[q]]
    /\ \A q1, q2 \in Queue :
          table[q1] # None /\ table[q2] # None /\ table[q1].ver = table[q2].ver
              => q1 = q2
    /\ \A p \in Proc, q \in Queue : version[p] <= instance[GroupOfKey[q]]

\* Who has seen a record counts a lease from the record's time, less the delay
\* of the answer; who goes on to acquire another's record waited for its end.
SeenLeaseIsCounted ==
    \A p \in Proc, q \in Queue :
        table[q] # None /\ version[p] = table[q].ver =>
            /\ overdue[p] + Delay >= table[q].at + Lease
            /\ pc[p] = "acquire" /\ queue[p] = q /\ table[q].who # p =>
                  time > overdue[p]

\* The inductive invariant behind OneConsumerPerQueue: ownership of records,
\* ages of requests, and what rivals know of a lease (DoLock).
LockInv ==
    /\ LockTypeOK
    /\ Clocks
    /\ HolderOwnsRecord
    /\ VersionsAreUnique
    /\ SeenLeaseIsCounted
=============================================================================
