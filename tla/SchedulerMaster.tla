-------------------------- MODULE SchedulerMaster --------------------------
(***************************************************************************)
(* How the schedulers of a topic choose a master: KeepMasterThread of the  *)
(* scheduler renews a lease in the lock service, and SchedulerMgr answers  *)
(* requests and balances loads while it is the master.  The lock service   *)
(* is the one table of LockTable; its record also carries the time it was  *)
(* written.  One clock stands for all steady clocks.                       *)
(*                                                                         *)
(* A scheduler is an ip and a port, but the client id under which it takes *)
(* the lock is the ip alone: schedulers on one ip take each other's record *)
(* for their own.                                                          *)
(***************************************************************************)
EXTENDS Integers

CONSTANTS
    Sched,          \* schedulers
    IpOf,           \* their ips, which are their client ids
    NoMaster,       \* no scheduler, no record
    SchedLease,     \* scheduler_lock_lease_time_s
    Round,          \* bound on one round of KeepMaster, from its clock reading
    ForceMaster,    \* scheduler_master_ip and _port, or NoMaster
    MaxNow, MaxRecord   \* bounds of the model

\* What the lock service keeps: version, client id, time of writing.
MasterRecords == [ver : Nat, who : {IpOf[s] : s \in Sched}, at : Nat]

ASSUME SchedLeaseAssumption ==
    /\ SchedLease \in Nat /\ Round \in Nat /\ MaxNow \in Nat /\ MaxRecord \in Nat
    /\ ForceMaster \in Sched \cup {NoMaster}
    /\ NoMaster \notin Sched
    /\ NoMaster \notin MasterRecords

VARIABLES
    now,          \* the steady clock
    record,       \* the record under scheduler_lock_key
    lastVersion,  \* the latest version the lock service gave out
    expire,       \* SchedulerMgr's master_expire_time_ms
    keep,         \* where KeepMaster is
    readAt,       \* KeepMaster's local now
    seen,         \* KeepMaster's thread-local version
    over          \* KeepMaster's thread-local overdue_time_ms

masterVars == <<now, record, lastVersion, expire, keep, readAt, seen, over>>

MasterTypeOK ==
    /\ now \in Nat
    /\ record \in MasterRecords \cup {NoMaster}
    /\ lastVersion \in Nat
    /\ expire \in [Sched -> Nat]
    /\ keep \in [Sched -> {"sleep", "info", "acquire", "renew"}]
    /\ readAt \in [Sched -> Nat]
    /\ seen \in [Sched -> Nat]
    /\ over \in [Sched -> Nat]

MasterInit ==
    /\ now = 1
    /\ record = NoMaster
    /\ lastVersion = 0
    /\ expire = [s \in Sched |-> 0]
    /\ keep = [s \in Sched |-> "sleep"]
    /\ readAt = [s \in Sched |-> 0]
    /\ seen = [s \in Sched |-> 0]
    /\ over = [s \in Sched |-> 0]

\* KeepMaster reads the clock and sends GetLockInfo (unless NeedDropMaster).
StartKeepMaster(s) ==
    /\ keep[s] = "sleep"
    /\ keep' = [keep EXCEPT ![s] = "info"]
    /\ readAt' = [readAt EXCEPT ![s] = now]
    /\ UNCHANGED <<now, record, lastVersion, expire, seen, over>>

\* overdue_time_ms after RawGetLockInfo.
LeaseEnds(s) ==
    IF record = NoMaster THEN readAt[s]
    ELSE IF seen[s] # record.ver THEN readAt[s] + SchedLease
    ELSE over[s]

\* A record under the own ip is the own one, or that of a neighbour.
NeedAcquireLock(s) ==
    \/ record = NoMaster
    \/ record.who = IpOf[s]
    \/ readAt[s] > LeaseEnds(s)

RawGetLockInfo(s) ==
    /\ keep[s] = "info"
    /\ seen' = [seen EXCEPT ![s] = IF record = NoMaster THEN 0 ELSE record.ver]
    /\ over' = [over EXCEPT ![s] = LeaseEnds(s)]
    /\ keep' = [keep EXCEPT ![s] = IF NeedAcquireLock(s) THEN "acquire" ELSE "sleep"]
    /\ readAt' = [readAt EXCEPT ![s] = IF NeedAcquireLock(s) THEN @ ELSE 0]
    /\ UNCHANGED <<now, record, lastVersion, expire>>

\* The lock service compares versions and writes the record, or refuses.
RawAcquireLock(s) ==
    /\ keep[s] = "acquire"
    /\ lastVersion < MaxRecord
    /\ lastVersion' = lastVersion + 1
    /\ IF record = NoMaster \/ record.ver = seen[s]
       THEN /\ record' = [ver |-> lastVersion + 1, who |-> IpOf[s], at |-> now]
            /\ keep' = [keep EXCEPT ![s] = "renew"]
            /\ UNCHANGED readAt
       ELSE /\ keep' = [keep EXCEPT ![s] = "sleep"]
            /\ readAt' = [readAt EXCEPT ![s] = 0]
            /\ UNCHANGED record
    /\ UNCHANGED <<now, expire, seen, over>>

\* Mutant: the lease of the master starts with the answer.
RenewedUntilLate(s) == now + SchedLease

\* The lease of the master starts when it read the clock.
RenewedUntil(s) == readAt[s] + SchedLease

\* RawAcquireLock returned RET_OK: RenewMaster.
RenewMaster(s) ==
    /\ keep[s] = "renew"
    /\ expire' = [expire EXCEPT ![s] = RenewedUntil(s)]
    /\ keep' = [keep EXCEPT ![s] = "sleep"]
    /\ readAt' = [readAt EXCEPT ![s] = 0]
    /\ UNCHANGED <<now, record, lastVersion, seen, over>>

\* A request or its answer is lost; KeepMaster tries again after its sleep.
KeepMasterFails(s) ==
    /\ keep[s] # "sleep"
    /\ keep' = [keep EXCEPT ![s] = "sleep"]
    /\ readAt' = [readAt EXCEPT ![s] = 0]
    /\ UNCHANGED <<now, record, lastVersion, expire, seen, over>>

\* The process is killed and started again.
RestartScheduler(s) ==
    /\ expire[s] > 0 \/ seen[s] > 0
    /\ keep' = [keep EXCEPT ![s] = "sleep"]
    /\ expire' = [expire EXCEPT ![s] = 0]
    /\ readAt' = [readAt EXCEPT ![s] = 0]
    /\ seen' = [seen EXCEPT ![s] = 0]
    /\ over' = [over EXCEPT ![s] = 0]
    /\ UNCHANGED <<now, record, lastVersion>>

\* The clean thread of the lock service deletes a record after its lease.
CleanRecord ==
    /\ record # NoMaster
    /\ now > record.at + SchedLease
    /\ record' = NoMaster
    /\ UNCHANGED <<now, lastVersion, expire, keep, readAt, seen, over>>

ClockTick ==
    /\ now < MaxNow
    /\ \A s \in Sched : keep[s] # "sleep" => now < readAt[s] + Round
    /\ now' = now + 1
    /\ UNCHANGED <<record, lastVersion, expire, keep, readAt, seen, over>>

SchedStep(s) ==
    \/ StartKeepMaster(s) \/ RawGetLockInfo(s) \/ RawAcquireLock(s)
    \/ RenewMaster(s) \/ KeepMasterFails(s) \/ RestartScheduler(s)

MasterNext == (\E s \in Sched : SchedStep(s)) \/ CleanRecord \/ ClockTick

MasterSpec == MasterInit /\ [][MasterNext]_masterVars

-----------------------------------------------------------------------------
IsMaster(s) == IF ForceMaster # NoMaster THEN s = ForceMaster ELSE now < expire[s]

\* Two schedulers on different ips are masters at once for less than one round
\* of KeepMaster: the rival counts the lease from a clock that it read before
\* the request.  Schedulers on one ip renew the same record and may all be
\* masters for as long as they like; that they do holds no other ip off longer.
MastersOverlapBriefly ==
    \A s1, s2 \in Sched :
        IpOf[s1] # IpOf[s2] /\ IsMaster(s1) /\ IsMaster(s2) =>
            \E s \in {s1, s2} : expire[s] < now + Round
=============================================================================
