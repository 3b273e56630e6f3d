---------------------------- MODULE LeaseProofs -----------------------------
(***************************************************************************)
(* What the leases of the lock service are used for.  No queue is consumed *)
(* by two processes at a time, for any number of processes and queues and  *)
(* any lease that covers the loop of Process, if the keys of the queues    *)
(* are in one paxos group.  Schedulers on different ips are masters at     *)
(* once only briefly, for any number of schedulers and ips, any lease and  *)
(* any bound on a round of KeepMaster.                                     *)
(***************************************************************************)
EXTENDS QueueLock, SchedulerMaster, TLAPS

-----------------------------------------------------------------------------
(* The queue lock.                                                         *)

\* The program starts in the invariant.
LEMMA InitInv == LockInit => LockInv
  <1> SUFFICES ASSUME LockInit PROVE LockInv
    OBVIOUS
  <1>1. LockTypeOK
    BY LeaseAssumption DEF LockInit, LockTypeOK
  <1>2. Clocks
    BY DEF LockInit, Clocks
  <1>3. HolderOwnsRecord
    BY DEF LockInit, HolderOwnsRecord, Holds
  <1>4. VersionsAreUnique
    BY LeaseAssumption DEF LockInit, VersionsAreUnique
  <1>5. SeenLeaseIsCounted
    BY DEF LockInit, SeenLeaseIsCounted
  <1> QED
    BY <1>1, <1>2, <1>3, <1>4, <1>5 DEF LockInv

\* The record of a held queue is younger than the lease.
LEMMA HeldIsYoung ==
  ASSUME LeaseCovers, LockTypeOK, Clocks, HolderOwnsRecord,
         NEW p \in Proc, NEW q \in Queue, Holds(p, q)
  PROVE  /\ table[q] \in Records /\ table[q].who = p
         /\ time + Delay <= table[q].at + Lease
  <1>1. table[q] # None /\ table[q].who = p /\ table[q] \in Records
    BY DEF HolderOwnsRecord, LockTypeOK
  <1>2. table[q].at \in Nat /\ time \in Nat /\ began[p] \in Nat
    BY <1>1 DEF LockTypeOK, Records
  <1>3. CASE pc[p] = "reply"
    <2>1. began[p] <= table[q].at
      BY <1>3 DEF HolderOwnsRecord
    <2>2. time <= began[p] + Delay
      BY <1>3 DEF Clocks
    <2> QED
      BY <2>1, <2>2, <1>1, <1>2, LeaseAssumption DEF LeaseCovers
  <1>4. CASE pc[p] = "process"
    <2>1. began[p] <= table[q].at + Delay
      BY <1>4 DEF HolderOwnsRecord
    <2>2. time <= began[p] + Interval + Body
      BY <1>4 DEF Clocks
    <2> QED
      BY <2>1, <2>2, <1>1, <1>2, LeaseAssumption DEF LeaseCovers
  <1> QED
    BY <1>3, <1>4 DEF Holds

-----------------------------------------------------------------------------
\* The steps that leave the service and what the process knows alone.
Waiting(p) == Acquired(p) \/ Lost(p) \/ LeaveProcess(p) \/ \E q \in Queue : StartLock(p, q)

LEMMA WaitingInv ==
  ASSUME LockInv, NEW p \in Proc, Waiting(p)
  PROVE  LockInv'
  <1> USE DEF LockInv
  <1>0. UNCHANGED <<time, service, threadLocal>>
    BY DEF Waiting, Acquired, Lost, LeaveProcess, StartLock
  <1>1. /\ \A r \in Proc : r # p => /\ pc'[r] = pc[r] /\ queue'[r] = queue[r] /\ began'[r] = began[r]
        /\ \/ /\ pc'[p] = "sleep" /\ queue'[p] = None /\ began'[p] = 0
           \/ /\ pc'[p] = "info" /\ queue'[p] \in Queue /\ began'[p] = time
           \/ /\ pc[p] = "reply" /\ pc'[p] = "process" /\ queue'[p] = queue[p] /\ began'[p] = time
    BY DEF Waiting, Acquired, Lost, LeaveProcess, StartLock, Goto, Sleep, LockTypeOK
  <1>2. LockTypeOK'
    BY <1>0 DEF Waiting, Acquired, Lost, LeaveProcess, StartLock, Goto, Sleep, LockTypeOK, service, threadLocal
  <1>3. Clocks'
    BY <1>0, <1>1, <1>2, LeaseAssumption DEF Clocks, LockTypeOK, service
  <1>4. HolderOwnsRecord'
    <2> SUFFICES ASSUME NEW r \in Proc, NEW q \in Queue, Holds(r, q)'
                 PROVE  /\ table[q] # None
                        /\ table[q].who = r
                        /\ pc'[r] = "reply" => began'[r] <= table[q].at
                        /\ pc'[r] = "process" => began'[r] <= table[q].at + Delay
      BY <1>0 DEF HolderOwnsRecord, service
    <2>1. CASE r # p
      BY <2>1, <1>1 DEF HolderOwnsRecord, Holds
    <2>2. CASE r = p
      <3>1. /\ pc[p] = "reply" /\ pc'[p] = "process" /\ queue[p] = q /\ began'[p] = time
        BY <2>2, <1>1, LeaseAssumption DEF Holds
      <3>2. /\ table[q] # None /\ table[q].who = p /\ began[p] <= table[q].at
        BY <3>1 DEF HolderOwnsRecord, Holds
      <3>3. time <= began[p] + Delay
        BY <3>1 DEF Clocks
      <3>4. table[q].at \in Nat /\ began[p] \in Nat /\ time \in Nat
        BY <3>2 DEF LockTypeOK, Records
      <3> QED
        BY <2>2, <3>1, <3>2, <3>3, <3>4, LeaseAssumption
    <2> QED
      BY <2>1, <2>2
  <1>5. VersionsAreUnique'
    BY <1>0 DEF VersionsAreUnique, service, threadLocal
  <1>6. SeenLeaseIsCounted'
    <2> SUFFICES ASSUME NEW r \in Proc, NEW q \in Queue,
                        table[q] # None, version[r] = table[q].ver
                 PROVE  /\ overdue[r] + Delay >= table[q].at + Lease
                        /\ pc'[r] = "acquire" /\ queue'[r] = q /\ table[q].who # r => time > overdue[r]
      BY <1>0 DEF SeenLeaseIsCounted, service, threadLocal
    <2>1. pc'[r] = "acquire" => r # p
      BY <1>1
    <2> QED
      BY <2>1, <1>1 DEF SeenLeaseIsCounted
  <1> QED
    BY <1>2, <1>3, <1>4, <1>5, <1>6

LEMMA CrashInv ==
  ASSUME LockInv, NEW p \in Proc, Crash(p)
  PROVE  LockInv'
  <1> USE DEF LockInv
  <1>0. UNCHANGED <<time, service>>
    BY DEF Crash
  <1>1. /\ \A r \in Proc : r # p => /\ pc'[r] = pc[r] /\ queue'[r] = queue[r] /\ began'[r] = began[r]
                                   /\ version'[r] = version[r] /\ overdue'[r] = overdue[r]
        /\ pc'[p] = "sleep" /\ version'[p] = 0
    BY DEF Crash, Sleep, LockTypeOK
  <1>2. LockTypeOK'
    BY <1>0 DEF Crash, Sleep, LockTypeOK, service
  <1>3. Clocks'
    BY <1>0, <1>1 DEF Clocks, service
  <1>4. HolderOwnsRecord'
    BY <1>0, <1>1 DEF HolderOwnsRecord, Holds, service
  <1>5. VersionsAreUnique'
    BY <1>0, <1>1, LeaseAssumption DEF VersionsAreUnique, service, LockTypeOK
  <1>6. SeenLeaseIsCounted'
    <2>1. \A q \in Queue : table[q] # None => version'[p] # table[q].ver
      BY <1>1 DEF VersionsAreUnique
    <2> QED
      BY <2>1, <1>0, <1>1 DEF SeenLeaseIsCounted, service
  <1> QED
    BY <1>2, <1>3, <1>4, <1>5, <1>6

LEMMA GetLockInfoInv ==
  ASSUME SameGroup, LockInv, NEW p \in Proc, GetLockInfo(p)
  PROVE  LockInv'
  <1> USE DEF LockInv
  <1>0. UNCHANGED <<time, service>> /\ queue[p] \in Queue /\ pc[p] = "info"
    BY DEF GetLockInfo, Clocks
  <1>1. /\ \A r \in Proc : r # p => /\ pc'[r] = pc[r] /\ queue'[r] = queue[r] /\ began'[r] = began[r]
                                   /\ version'[r] = version[r] /\ overdue'[r] = overdue[r]
        /\ version'[p] = InfoVersion(queue[p]) /\ overdue'[p] = OverdueAfter(p)
        /\ \/ /\ pc'[p] = "sleep" /\ queue'[p] = None /\ began'[p] = 0
           \/ /\ pc'[p] = "acquire" /\ queue'[p] = queue[p] /\ began'[p] = time
              /\ NeedAcquire(p)
    BY DEF GetLockInfo, Goto, Sleep, LockTypeOK
  <1>a. InfoVersion(queue[p]) \in Nat /\ OverdueAfter(p) \in Nat
    BY <1>0, LeaseAssumption DEF InfoVersion, InfoLease, OverdueAfter, LockTypeOK, Records
  <1>2. LockTypeOK'
    BY <1>0, <1>a DEF GetLockInfo, Goto, Sleep, LockTypeOK, service
  <1>3. Clocks'
    BY <1>0, <1>1, <1>2, LeaseAssumption DEF Clocks, LockTypeOK, service
  <1>4. HolderOwnsRecord'
    BY <1>0, <1>1 DEF HolderOwnsRecord, Holds, service
  <1>5. VersionsAreUnique'
    <2>1. \A q \in Queue : InfoVersion(queue[p]) <= instance[GroupOfKey[q]]
      <3>1. InfoVersion(queue[p]) <= instance[GroupOfKey[queue[p]]]
        BY <1>0, LeaseAssumption DEF InfoVersion, VersionsAreUnique, LockTypeOK
      <3> QED
        BY <3>1, <1>0 DEF SameGroup
    <2> QED
      BY <2>1, <1>0, <1>1 DEF VersionsAreUnique, service
  <1>6. SeenLeaseIsCounted'
    <2> SUFFICES ASSUME NEW r \in Proc, NEW q \in Queue,
                        table[q] # None, version'[r] = table[q].ver
                 PROVE  /\ overdue'[r] + Delay >= table[q].at + Lease
                        /\ pc'[r] = "acquire" /\ queue'[r] = q /\ table[q].who # r => time > overdue'[r]
      BY <1>0 DEF SeenLeaseIsCounted, service
    <2>1. CASE r # p
      BY <2>1, <1>1 DEF SeenLeaseIsCounted
    <2>2. CASE r = p
      <3>1. table[queue[p]] # None /\ table[queue[p]].ver = table[q].ver
        BY <2>2, <1>0, <1>1 DEF InfoVersion, VersionsAreUnique
      <3>2. queue[p] = q
        BY <3>1, <1>0 DEF VersionsAreUnique
      <3>3. table[q].at \in Nat /\ began[p] \in Nat /\ time \in Nat /\ overdue[p] \in Nat
        BY DEF LockTypeOK, Records
      <3>4. table[q].at <= time /\ began[p] <= time /\ time <= began[p] + Delay
        BY <1>0 DEF Clocks
      <3>5. overdue'[p] + Delay >= table[q].at + Lease
        <4>1. CASE version[p] = table[q].ver
          BY <4>1, <1>1, <3>2 DEF OverdueAfter, InfoVersion, SeenLeaseIsCounted
        <4>2. CASE version[p] # table[q].ver
          <5>1. overdue'[p] = began[p] + Lease
            BY <4>2, <1>1, <3>2 DEF OverdueAfter, InfoVersion, InfoLease
          <5> QED
            BY <5>1, <3>3, <3>4, LeaseAssumption
        <4> QED
          BY <4>1, <4>2
      <3>6. ASSUME pc'[p] = "acquire", table[q].who # p
            PROVE  time > overdue'[p]
        <4>1. began[p] > OverdueAfter(p)
          BY <3>6, <1>1, <3>2 DEF NeedAcquire
        <4> QED
          BY <4>1, <1>1, <1>a, <3>3, <3>4
      <3> QED
        BY <2>2, <3>5, <3>6
    <2> QED
      BY <2>1, <2>2
  <1> QED
    BY <1>2, <1>3, <1>4, <1>5, <1>6

\* Nobody but the holder can acquire the record of a held queue.
LEMMA HeldIsNotTaken ==
  ASSUME LeaseCovers, LockInv, NEW p \in Proc, NEW r \in Proc, NEW q \in Queue,
         pc[p] = "acquire", queue[p] = q, MayAcquire(p), Holds(r, q)
  PROVE  FALSE
  <1> USE DEF LockInv
  <1>1. /\ table[q] \in Records /\ table[q].who = r /\ table[q] # None
        /\ time + Delay <= table[q].at + Lease
    BY HeldIsYoung, LeaseAssumption DEF Records
  <1>2. r # p
    BY DEF Holds
  <1>3. version[p] = table[q].ver
    BY <1>1 DEF MayAcquire
  <1>4. time > overdue[p] /\ overdue[p] + Delay >= table[q].at + Lease
    BY <1>1, <1>2, <1>3 DEF SeenLeaseIsCounted
  <1> QED
    BY <1>1, <1>4, LeaseAssumption DEF LockTypeOK, Records

LEMMA AcquireLockInv ==
  ASSUME SameGroup, LeaseCovers, LockInv, NEW p \in Proc, AcquireLock(p)
  PROVE  LockInv'
  <1> USE DEF LockInv
  <1> DEFINE k == queue[p]
             g == GroupOfKey[k]
             new == [ver |-> instance[g] + 1, who |-> p, at |-> time]
  <1>0. /\ UNCHANGED <<time, threadLocal>> /\ k \in Queue /\ pc[p] = "acquire"
        /\ g \in PaxosGroup /\ instance[g] \in Nat
    BY LeaseAssumption DEF AcquireLock, Clocks, LockTypeOK
  <1>1. /\ instance' = [instance EXCEPT ![g] = @ + 1]
        /\ \A q \in Queue : /\ instance'[GroupOfKey[q]] = instance[GroupOfKey[q]] + 1
                            /\ instance[GroupOfKey[q]] = instance[g]
    BY <1>0, LeaseAssumption DEF AcquireLock, SameGroup, LockTypeOK
  <1>2. new \in Records /\ new # None /\ new.ver = instance[g] + 1 /\ new.who = p /\ new.at = time
    BY <1>0, LeaseAssumption DEF Records, LockTypeOK
  <1> HIDE DEF new
  <1>3. CASE MayAcquire(p)
    <2>1. /\ table' = [table EXCEPT ![k] = new]
          /\ pc' = [pc EXCEPT ![p] = "reply"]
          /\ UNCHANGED <<queue, began>>
      BY <1>3 DEF AcquireLock, new
    <2>2. LockTypeOK'
      BY <2>1, <1>0, <1>1, <1>2 DEF LockTypeOK, threadLocal
    <2>3. /\ table'[k] = new /\ pc'[p] = "reply"
          /\ \A q \in Queue : q # k => table'[q] = table[q]
          /\ \A r \in Proc : r # p => pc'[r] = pc[r]
      BY <2>1, <1>0 DEF LockTypeOK
    <2>4. Clocks'
      BY <1>0, <1>2, <2>1, <2>3, LeaseAssumption DEF Clocks, LockTypeOK
    <2>5. HolderOwnsRecord'
      <3> SUFFICES ASSUME NEW r \in Proc, NEW q \in Queue, Holds(r, q)'
                   PROVE  /\ table'[q] # None
                          /\ table'[q].who = r
                          /\ pc'[r] = "reply" => began[r] <= table'[q].at
                          /\ pc'[r] = "process" => began[r] <= table'[q].at + Delay
        BY <2>1 DEF HolderOwnsRecord
      <3>1. CASE r = p
        <4>1. q = k /\ began[p] <= time
          BY <3>1, <2>1, <1>0 DEF Holds, Clocks
        <4> QED
          BY <3>1, <4>1, <2>3, <1>2
      <3>2. CASE r # p
        <4>1. Holds(r, q)
          BY <3>2, <2>1, <2>3 DEF Holds
        <4>2. q # k
          BY <4>1, <1>0, <1>3, HeldIsNotTaken
        <4> QED
          BY <3>2, <4>1, <4>2, <2>3 DEF HolderOwnsRecord
      <3> QED
        BY <3>1, <3>2
    <2>6. VersionsAreUnique'
      <3>1. \A q \in Queue : table'[q] # None =>
              table'[q].ver > 0 /\ table'[q].ver <= instance'[GroupOfKey[q]]
        BY <1>0, <1>1, <1>2, <2>3 DEF VersionsAreUnique, LockTypeOK, Records
      <3>2. \A q \in Queue : q # k /\ table[q] # None => table[q].ver # new.ver
        BY <1>0, <1>1, <1>2 DEF VersionsAreUnique, LockTypeOK, Records
      <3>3. \A q1, q2 \in Queue :
              table'[q1] # None /\ table'[q2] # None /\ table'[q1].ver = table'[q2].ver => q1 = q2
        BY <3>2, <2>3, <1>0 DEF VersionsAreUnique
      <3>4. \A r \in Proc, q \in Queue : version'[r] <= instance'[GroupOfKey[q]]
        BY <1>0, <1>1 DEF VersionsAreUnique, LockTypeOK, threadLocal
      <3> QED
        BY <3>1, <3>3, <3>4 DEF VersionsAreUnique
    <2>7. SeenLeaseIsCounted'
      <3> SUFFICES ASSUME NEW r \in Proc, NEW q \in Queue,
                          table'[q] # None, version[r] = table'[q].ver
                   PROVE  /\ overdue[r] + Delay >= table'[q].at + Lease
                          /\ pc'[r] = "acquire" /\ queue[r] = q /\ table'[q].who # r => time > overdue[r]
        BY <1>0, <2>1 DEF SeenLeaseIsCounted, threadLocal
      <3>1. version[r] # new.ver
        BY <1>0, <1>1, <1>2 DEF VersionsAreUnique, LockTypeOK
      <3>2. q # k /\ table'[q] = table[q]
        BY <3>1, <2>3
      <3>3. pc'[r] = "acquire" => pc[r] = "acquire"
        BY <2>3
      <3> QED
        BY <3>2, <3>3 DEF SeenLeaseIsCounted
    <2> QED
      BY <2>2, <2>4, <2>5, <2>6, <2>7
  <1>4. CASE ~MayAcquire(p)
    <2>1. Sleep(p) /\ UNCHANGED table
      BY <1>4 DEF AcquireLock
    <2>2. /\ pc'[p] = "sleep"
          /\ \A r \in Proc : r # p => /\ pc'[r] = pc[r] /\ queue'[r] = queue[r] /\ began'[r] = began[r]
      BY <2>1 DEF Sleep, LockTypeOK
    <2>3. LockTypeOK'
      BY <2>1, <1>0, <1>1 DEF LockTypeOK, threadLocal, Sleep
    <2>4. Clocks'
      BY <1>0, <2>1, <2>2 DEF Clocks
    <2>5. HolderOwnsRecord'
      BY <2>1, <2>2 DEF HolderOwnsRecord, Holds
    <2>6. VersionsAreUnique'
      BY <1>0, <1>1, <2>1 DEF VersionsAreUnique, LockTypeOK, Records, threadLocal
    <2>7. SeenLeaseIsCounted'
      BY <1>0, <2>1, <2>2 DEF SeenLeaseIsCounted, threadLocal
    <2> QED
      BY <2>3, <2>4, <2>5, <2>6, <2>7
  <1> QED
    BY <1>3, <1>4

LEMMA CleanInv ==
  ASSUME LeaseCovers, LockInv, NEW k \in Queue, Clean(k)
  PROVE  LockInv'
  <1> USE DEF LockInv
  <1>0. /\ UNCHANGED <<time, instance, pc, queue, threadLocal, began>>
        /\ table[k] # None /\ time > table[k].at + Lease
        /\ table' = [table EXCEPT ![k] = None]
    BY DEF Clean
  <1>1. /\ table'[k] = None
        /\ \A q \in Queue : q # k => table'[q] = table[q]
    BY <1>0 DEF LockTypeOK
  <1>2. LockTypeOK'
    BY <1>0 DEF LockTypeOK, threadLocal
  <1>3. Clocks'
    BY <1>0, <1>1 DEF Clocks
  <1>4. HolderOwnsRecord'
    <2>1. \A r \in Proc : ~Holds(r, k)
      <3> SUFFICES ASSUME NEW r \in Proc, Holds(r, k) PROVE FALSE
        OBVIOUS
      <3>1. table[k] \in Records /\ time + Delay <= table[k].at + Lease
        BY HeldIsYoung
      <3> QED
        BY <3>1, <1>0, LeaseAssumption DEF LockTypeOK, Records
    <2> QED
      BY <2>1, <1>0, <1>1 DEF HolderOwnsRecord, Holds
  <1>5. VersionsAreUnique'
    BY <1>0, <1>1 DEF VersionsAreUnique, threadLocal
  <1>6. SeenLeaseIsCounted'
    BY <1>0, <1>1 DEF SeenLeaseIsCounted, threadLocal
  <1> QED
    BY <1>2, <1>3, <1>4, <1>5, <1>6

LEMMA TickInv ==
  ASSUME LockInv, Tick
  PROVE  LockInv'
  <1> USE DEF LockInv
  <1>0. /\ UNCHANGED <<service, pc, queue, threadLocal, began>>
        /\ time' = time + 1 /\ time \in Nat
        /\ \A p \in Proc : InTime(p)
    BY DEF Tick, LockTypeOK
  <1>1. LockTypeOK'
    BY <1>0 DEF LockTypeOK, service, threadLocal
  <1>2. Clocks'
    <2>1. \A q \in Queue : table[q] # None => table[q].at <= time'
      BY <1>0 DEF Clocks, LockTypeOK, Records
    <2>2. ASSUME NEW p \in Proc
          PROVE  /\ pc[p] # "sleep" => queue[p] \in Queue /\ began[p] <= time'
                 /\ pc[p] \in {"info", "acquire", "reply"} => time' <= began[p] + Delay
                 /\ pc[p] = "process" => time' <= began[p] + Interval + Body
      BY <1>0, LeaseAssumption DEF Clocks, InTime, LockTypeOK
    <2> QED
      BY <2>1, <2>2, <1>0 DEF Clocks, service
  <1>3. HolderOwnsRecord'
    BY <1>0 DEF HolderOwnsRecord, Holds, service
  <1>4. VersionsAreUnique'
    BY <1>0 DEF VersionsAreUnique, service, threadLocal
  <1>5. SeenLeaseIsCounted'
    BY <1>0 DEF SeenLeaseIsCounted, service, threadLocal, LockTypeOK
  <1> QED
    BY <1>1, <1>2, <1>3, <1>4, <1>5

LEMMA StutterInv ==
  ASSUME LockInv, UNCHANGED lockVars
  PROVE  LockInv'
  BY DEF LockInv, lockVars, LockTypeOK, Clocks, HolderOwnsRecord, Holds, VersionsAreUnique,
         SeenLeaseIsCounted

-----------------------------------------------------------------------------
\* The inductive invariant: the record of a queue that a process consumes is
\* its own and younger than the lease, and who knows a record counts its lease
\* from its time on (DoLock, LockMgr, CleanThread).
THEOREM LeasesAreKept ==
  ASSUME SameGroup, LeaseCovers
  PROVE  LockSpec => []LockInv
  <1>1. LockInv /\ [LockNext]_lockVars => LockInv'
    <2> SUFFICES ASSUME LockInv, [LockNext]_lockVars PROVE LockInv'
      OBVIOUS
    <2>1. CASE UNCHANGED lockVars
      BY <2>1, StutterInv
    <2>2. ASSUME NEW p \in Proc, ProcStep(p) PROVE LockInv'
      <3>1. CASE GetLockInfo(p)
        BY <3>1, GetLockInfoInv
      <3>2. CASE AcquireLock(p)
        BY <3>2, AcquireLockInv
      <3>3. CASE Crash(p)
        BY <3>3, CrashInv
      <3>4. CASE Waiting(p)
        BY <3>4, WaitingInv
      <3> QED
        BY <2>2, <3>1, <3>2, <3>3, <3>4 DEF ProcStep, Waiting
    <2>3. ASSUME NEW q \in Queue, Clean(q) PROVE LockInv'
      BY <2>3, CleanInv
    <2>4. CASE Tick
      BY <2>4, TickInv
    <2> QED
      BY <2>1, <2>2, <2>3, <2>4 DEF LockNext
  <1> QED
    BY <1>1, InitInv, PTL DEF LockSpec

\* No queue is consumed by two processes at a time, for any number of hosts,
\* processes and queues, any lease that covers Process, and any pattern of lost
\* requests, crashes and changes of the distribution (HeartBeatLock::DoLock).
THEOREM ExclusiveQueues ==
  ASSUME SameGroup, LeaseCovers
  PROVE  LockSpec => []OneConsumerPerQueue
  <1>1. LockInv => OneConsumerPerQueue
    BY DEF LockInv, HolderOwnsRecord, OneConsumerPerQueue
  <1> QED
    BY <1>1, LeasesAreKept, PTL

-----------------------------------------------------------------------------
(* The master of the schedulers.                                           *)

\* How old a round of KeepMaster can be.
RoundsAreShort ==
    /\ now > 0
    /\ \A s \in Sched :
        /\ readAt[s] <= now
        /\ keep[s] # "sleep" => now <= readAt[s] + Round

\* Versions are not used twice, and nobody knows a version of the future.
VersionsAreNew ==
    /\ record # NoMaster =>
          record.at <= now /\ 0 < record.ver /\ record.ver <= lastVersion
    /\ \A s \in Sched : seen[s] <= lastVersion

\* Who has seen the record counts its lease from a clock that was read at most
\* a round before the record was written; who goes on to take the record from
\* another waited for the end of it.
SeenLeaseIsWaitedFor ==
    \A s \in Sched : record # NoMaster /\ seen[s] = record.ver =>
        /\ over[s] + Round >= record.at + SchedLease
        /\ keep[s] = "acquire" /\ record.who # IpOf[s] => readAt[s] > over[s]

\* A time until which s is the master, or will be once its answer arrives, is
\* covered by the record of its ip, or it is over within a round.
Covered(s, until) ==
    \/ record # NoMaster /\ record.who = IpOf[s] /\ until <= record.at + SchedLease
    \/ until < now + Round

ClaimsAreCovered ==
    \A s \in Sched :
        /\ Covered(s, expire[s]) \/ expire[s] = 0
        /\ keep[s] = "renew" => Covered(s, readAt[s] + SchedLease)

\* The inductive invariant behind MastersOverlapBriefly.
MasterInv ==
    /\ MasterTypeOK
    /\ RoundsAreShort
    /\ VersionsAreNew
    /\ SeenLeaseIsWaitedFor
    /\ ClaimsAreCovered

\* The program starts in the invariant.
LEMMA MasterInitInv == MasterInit => MasterInv
  BY SchedLeaseAssumption
     DEF MasterInit, MasterInv, MasterTypeOK, RoundsAreShort, VersionsAreNew,
         SeenLeaseIsWaitedFor, ClaimsAreCovered

-----------------------------------------------------------------------------
\* The steps of KeepMaster that leave the record and the claims alone.
LEMMA MasterStartInv ==
  ASSUME MasterInv, NEW s \in Sched, StartKeepMaster(s)
  PROVE  MasterInv'
  <1> USE SchedLeaseAssumption DEF MasterInv, StartKeepMaster
  <1>1. MasterTypeOK'
    BY DEF MasterTypeOK
  <1>2. RoundsAreShort'
    BY DEF RoundsAreShort, MasterTypeOK
  <1>3. VersionsAreNew'
    BY DEF VersionsAreNew
  <1>4. SeenLeaseIsWaitedFor'
    BY DEF SeenLeaseIsWaitedFor, MasterTypeOK
  <1>5. ClaimsAreCovered'
    BY DEF ClaimsAreCovered, Covered, MasterTypeOK
  <1> QED
    BY <1>1, <1>2, <1>3, <1>4, <1>5

LEMMA MasterFailsInv ==
  ASSUME MasterInv, NEW s \in Sched, KeepMasterFails(s)
  PROVE  MasterInv'
  <1> USE SchedLeaseAssumption DEF MasterInv, KeepMasterFails
  <1>1. MasterTypeOK'
    BY DEF MasterTypeOK
  <1>2. RoundsAreShort'
    BY DEF RoundsAreShort, MasterTypeOK
  <1>3. VersionsAreNew'
    BY DEF VersionsAreNew
  <1>4. SeenLeaseIsWaitedFor'
    BY DEF SeenLeaseIsWaitedFor, MasterTypeOK
  <1>5. ClaimsAreCovered'
    BY DEF ClaimsAreCovered, Covered, MasterTypeOK
  <1> QED
    BY <1>1, <1>2, <1>3, <1>4, <1>5

\* A version that was not known before is counted from the clock of this round,
\* which is at most a round older than the record.
LEMMA MasterInfoInv ==
  ASSUME MasterInv, NEW s \in Sched, RawGetLockInfo(s)
  PROVE  MasterInv'
  <1> USE SchedLeaseAssumption DEF MasterRecords, MasterInv, RawGetLockInfo
  <1>1. LeaseEnds(s) \in Nat
    BY DEF LeaseEnds, MasterTypeOK
  <1>2. MasterTypeOK'
    BY <1>1 DEF MasterTypeOK
  <1>3. RoundsAreShort'
    BY DEF RoundsAreShort, MasterTypeOK
  <1>4. VersionsAreNew'
    BY DEF VersionsAreNew, MasterTypeOK
  <1>5. SeenLeaseIsWaitedFor'
    <2> SUFFICES ASSUME NEW t \in Sched, record # NoMaster, seen'[t] = record.ver
                 PROVE  /\ over'[t] + Round >= record.at + SchedLease
                        /\ keep'[t] = "acquire" /\ record.who # IpOf[t] => readAt'[t] > over'[t]
      BY DEF SeenLeaseIsWaitedFor
    <2>1. CASE t # s
      BY <2>1 DEF SeenLeaseIsWaitedFor, MasterTypeOK
    <2>2. CASE t = s
      <3>1. over'[s] = LeaseEnds(s) /\ record.at \in Nat /\ readAt[s] \in Nat /\ now \in Nat
        BY DEF MasterTypeOK
      <3>2. record.at <= readAt[s] + Round
        BY <3>1 DEF RoundsAreShort, VersionsAreNew
      <3>3. over'[s] + Round >= record.at + SchedLease
        BY <3>1, <3>2 DEF LeaseEnds, SeenLeaseIsWaitedFor
      <3>4. keep'[s] = "acquire" /\ record.who # IpOf[s] => readAt'[s] > over'[s]
        BY <3>1 DEF NeedAcquireLock, MasterTypeOK
      <3> QED
        BY <2>2, <3>3, <3>4
    <2> QED
      BY <2>1, <2>2
  <1>6. ClaimsAreCovered'
    BY DEF ClaimsAreCovered, Covered, MasterTypeOK
  <1> QED
    BY <1>2, <1>3, <1>4, <1>5, <1>6

-----------------------------------------------------------------------------
\* Who takes the record from another waited until a round before the end of
\* every claim that the record covered.
LEMMA MasterAcquireInv ==
  ASSUME MasterInv, NEW s \in Sched, RawAcquireLock(s)
  PROVE  MasterInv'
  <1> USE SchedLeaseAssumption DEF MasterRecords, MasterInv, RawAcquireLock
  <1>1. MasterTypeOK'
    BY DEF MasterTypeOK
  <1>2. RoundsAreShort'
    BY DEF RoundsAreShort, MasterTypeOK
  <1>3. VersionsAreNew'
    BY DEF VersionsAreNew, MasterTypeOK
  <1>4. CASE ~(record = NoMaster \/ record.ver = seen[s])
    <2>1. SeenLeaseIsWaitedFor'
      BY <1>4 DEF SeenLeaseIsWaitedFor, MasterTypeOK
    <2>2. ClaimsAreCovered'
      BY <1>4 DEF ClaimsAreCovered, Covered, MasterTypeOK
    <2> QED
      BY <1>1, <1>2, <1>3, <2>1, <2>2
  <1>5. CASE record = NoMaster \/ record.ver = seen[s]
    <2>1. record' = [ver |-> lastVersion + 1, who |-> IpOf[s], at |-> now] /\ record' # NoMaster
      BY <1>5 DEF MasterTypeOK
    <2>2. SeenLeaseIsWaitedFor'
      <3>1. \A t \in Sched : seen'[t] # record'.ver
        BY <2>1 DEF VersionsAreNew, MasterTypeOK
      <3> QED
        BY <3>1 DEF SeenLeaseIsWaitedFor
    <2>3. ASSUME NEW t \in Sched, NEW until \in Nat, Covered(t, until)
          PROVE  Covered(t, until)'
      <3>1. CASE until < now + Round
        BY <3>1 DEF Covered
      <3>2. CASE record # NoMaster /\ record.who = IpOf[t] /\ until <= record.at + SchedLease
        <4>1. record.at \in Nat /\ now \in Nat /\ record.at <= now
          BY <3>2 DEF VersionsAreNew, MasterTypeOK
        <4>2. CASE IpOf[t] = IpOf[s]
          BY <4>1, <4>2, <3>2, <2>1 DEF Covered
        <4>3. CASE IpOf[t] # IpOf[s]
          <5>1. over[s] + Round >= record.at + SchedLease /\ readAt[s] > over[s]
            BY <1>5, <3>2, <4>3 DEF SeenLeaseIsWaitedFor
          <5>2. readAt[s] <= now /\ readAt[s] \in Nat /\ over[s] \in Nat
            BY DEF RoundsAreShort, MasterTypeOK
          <5>3. until < now + Round
            BY <3>2, <4>1, <5>1, <5>2
          <5> QED
            BY <5>3 DEF Covered
        <4> QED
          BY <4>2, <4>3
      <3> QED
        BY <2>3, <3>1, <3>2 DEF Covered
    <2>4. Covered(s, readAt[s] + SchedLease)'
      BY <1>5, <2>1 DEF Covered, RoundsAreShort, MasterTypeOK
    <2>5. ClaimsAreCovered'
      <3> SUFFICES ASSUME NEW t \in Sched
                   PROVE  /\ Covered(t, expire[t])' \/ expire'[t] = 0
                          /\ keep'[t] = "renew" => Covered(t, readAt[t] + SchedLease)'
        BY DEF ClaimsAreCovered, Covered
      <3>1. Covered(t, expire[t])' \/ expire'[t] = 0
        BY <2>3 DEF ClaimsAreCovered, MasterTypeOK, Covered
      <3>2. ASSUME keep'[t] = "renew" PROVE Covered(t, readAt[t] + SchedLease)'
        <4>1. CASE t = s
          BY <2>4, <4>1
        <4>2. CASE t # s
          <5>1. keep[t] = "renew" /\ readAt'[t] = readAt[t] /\ readAt[t] + SchedLease \in Nat
            BY <3>2, <4>2, <1>5 DEF MasterTypeOK
          <5>2. Covered(t, readAt[t] + SchedLease)
            BY <5>1 DEF ClaimsAreCovered
          <5> QED
            BY <5>1, <5>2, <2>3 DEF Covered
        <4> QED
          BY <4>1, <4>2
      <3> QED
        BY <3>1, <3>2
    <2> QED
      BY <1>1, <1>2, <1>3, <2>2, <2>5
  <1> QED
    BY <1>4, <1>5

\* The claim that the answer brings is covered already.
LEMMA MasterRenewInv ==
  ASSUME MasterInv, NEW s \in Sched, RenewMaster(s)
  PROVE  MasterInv'
  <1> USE SchedLeaseAssumption DEF MasterInv, RenewMaster, RenewedUntil
  <1>1. MasterTypeOK'
    BY DEF MasterTypeOK
  <1>2. RoundsAreShort'
    BY DEF RoundsAreShort, MasterTypeOK
  <1>3. VersionsAreNew'
    BY DEF VersionsAreNew
  <1>4. SeenLeaseIsWaitedFor'
    BY DEF SeenLeaseIsWaitedFor, MasterTypeOK
  <1>5. ClaimsAreCovered'
    BY DEF ClaimsAreCovered, Covered, MasterTypeOK
  <1> QED
    BY <1>1, <1>2, <1>3, <1>4, <1>5

LEMMA MasterRestartInv ==
  ASSUME MasterInv, NEW s \in Sched, RestartScheduler(s)
  PROVE  MasterInv'
  <1> USE SchedLeaseAssumption DEF MasterInv, RestartScheduler
  <1>1. MasterTypeOK'
    BY DEF MasterTypeOK
  <1>2. RoundsAreShort'
    BY DEF RoundsAreShort, MasterTypeOK
  <1>3. VersionsAreNew'
    BY DEF VersionsAreNew, MasterTypeOK
  <1>4. SeenLeaseIsWaitedFor'
    BY DEF SeenLeaseIsWaitedFor, VersionsAreNew, MasterTypeOK
  <1>5. ClaimsAreCovered'
    BY DEF ClaimsAreCovered, Covered, MasterTypeOK
  <1> QED
    BY <1>1, <1>2, <1>3, <1>4, <1>5

-----------------------------------------------------------------------------
\* A record is cleaned after its lease, when the claims it covered are over.
LEMMA MasterCleanInv ==
  ASSUME MasterInv, CleanRecord
  PROVE  MasterInv'
  <1> USE SchedLeaseAssumption DEF MasterRecords, MasterInv, CleanRecord
  <1>1. MasterTypeOK'
    BY DEF MasterTypeOK
  <1>2. RoundsAreShort'
    BY DEF RoundsAreShort
  <1>3. VersionsAreNew'
    BY DEF VersionsAreNew
  <1>4. SeenLeaseIsWaitedFor'
    BY DEF SeenLeaseIsWaitedFor
  <1>5. ClaimsAreCovered'
    BY DEF ClaimsAreCovered, Covered, MasterTypeOK
  <1> QED
    BY <1>1, <1>2, <1>3, <1>4, <1>5

\* The clock waits for the rounds under way.
LEMMA MasterTickInv ==
  ASSUME MasterInv, ClockTick
  PROVE  MasterInv'
  <1> USE SchedLeaseAssumption DEF MasterRecords, MasterInv, ClockTick
  <1>1. MasterTypeOK'
    BY DEF MasterTypeOK
  <1>2. RoundsAreShort'
    BY DEF RoundsAreShort, MasterTypeOK
  <1>3. VersionsAreNew'
    BY DEF VersionsAreNew, MasterTypeOK
  <1>4. SeenLeaseIsWaitedFor'
    BY DEF SeenLeaseIsWaitedFor
  <1>5. ClaimsAreCovered'
    BY DEF ClaimsAreCovered, Covered, MasterTypeOK
  <1> QED
    BY <1>1, <1>2, <1>3, <1>4, <1>5

LEMMA MasterNextInv == MasterInv /\ [MasterNext]_masterVars => MasterInv'
  <1> SUFFICES ASSUME MasterInv, [MasterNext]_masterVars PROVE MasterInv'
    OBVIOUS
  <1>1. ASSUME NEW s \in Sched, SchedStep(s) PROVE MasterInv'
    BY <1>1, MasterStartInv, MasterInfoInv, MasterAcquireInv, MasterRenewInv, MasterFailsInv, MasterRestartInv DEF SchedStep
  <1>2. CASE UNCHANGED masterVars
    BY <1>2 DEF masterVars, MasterInv, MasterTypeOK, RoundsAreShort, VersionsAreNew,
                SeenLeaseIsWaitedFor, ClaimsAreCovered, Covered
  <1> QED
    BY <1>1, <1>2, MasterCleanInv, MasterTickInv DEF MasterNext

\* Of two schedulers on different ips that are masters at once, one has less
\* than a round left, for every number of schedulers, every placement on ips and
\* every lease, whatever answers are late or lost and processes restarted
\* (KeepMaster, SchedulerMgr::IsMaster).
THEOREM MastershipPasses == MasterSpec => []MastersOverlapBriefly
  <1>1. MasterInv => MastersOverlapBriefly
    <2> SUFFICES ASSUME MasterInv, NEW s1 \in Sched, NEW s2 \in Sched, IpOf[s1] # IpOf[s2],
                        IsMaster(s1), IsMaster(s2)
                 PROVE  \E s \in {s1, s2} : expire[s] < now + Round
      BY DEF MastersOverlapBriefly
    <2>1. now < expire[s1] /\ now < expire[s2]
      BY DEF IsMaster
    <2>2. Covered(s1, expire[s1]) /\ Covered(s2, expire[s2])
      BY <2>1 DEF MasterInv, ClaimsAreCovered, MasterTypeOK
    <2> QED
      BY <2>2 DEF Covered
  <1> QED
    BY <1>1, MasterInitInv, MasterNextInv, PTL DEF MasterSpec
=============================================================================
