----------------------------- MODULE MCClients -----------------------------
(* Small instances of the components whose safety depends on leases, lost    *)
(* requests and unlocked steps.  A behaviour is one of a single component,   *)
(* named by part; the variables of the others do not change.                 *)
EXTENDS QueueLock, SchedulerMaster, Delivery, MasterClient, FreqMan, Cursor

CONSTANTS p1, p2, q1, q2, s1, s2, s3, g1, g2, Parts

VARIABLE part

\* All keys in one paxos group; every key in its own.
OneGroup == [q \in Queue |-> g1]
TwoGroups == [q \in Queue |-> IF q = q1 THEN g1 ELSE g2]

\* Three schedulers on two ips.
SharedIp == [s \in Sched |-> IF s = s2 THEN 2 ELSE 1]

\* A pub with two consumer groups, a queue for new items and one for retries,
\* in two stores, one of which takes every pub.
Pubs == << [groups |-> {1, 2}, infos |-> <<2, 1>>] >>
QueueInfos == << [count |-> 1, ranges |-> << <<3, 3>> >>],
                 [count |-> 1, ranges |-> << <<1, 1>> >>] >>
Stores == << {}, {1} >>
OneRequest == {[pub |-> 1, mask |-> {1, 2}, size |-> 1]}

\* Two pubs with a store and a consumer group each.
PubPerStore == << [groups |-> {1}, infos |-> <<2, 1>>], [groups |-> {2}, infos |-> <<2, 1>>] >>
StorePerPub == << {1}, {2} >>
BothPubs == {[pub |-> p, mask |-> {p}, size |-> 1] : p \in {1, 2}}

\* A limit for all handlers and one for one of them, on the same queues.
Freq(handle, limit) == [queues |-> {1, 2}, handle |-> handle, limit |-> limit, key |-> 1]
TwoFreqInfos == <<Freq(0, 2), Freq(1, 1)>>
OneWorks == <<1>>

\* Replay from a cursor, and from a time.
TwoReplays == {[cursor |-> 0, time |-> 0], [cursor |-> -1, time |-> 2]}

\* A log whose second instance is a master lease.
LogStamps == <<1, NoStamp, 2>>

\* Bound: the cursors that are synchronised are those of items.
SyncsItems == syncing' # syncing /\ syncing'.at = "prev" => HasItem(syncing'.to)

ClientsInit ==
    /\ part \in Parts
    /\ LockInit /\ MasterInit /\ DeliveryInit /\ RouteInit /\ FreqInit /\ CursorInit
    /\ \A i \in Inst : stamp[i] = LogStamps[i + 1]
    /\ part # "route" => group = 0

Only(p) ==
    /\ part = p /\ UNCHANGED part
    /\ p # "queues" => UNCHANGED lockVars
    /\ p # "masters" => UNCHANGED masterVars
    /\ p # "delivery" => UNCHANGED deliveryVars
    /\ p # "route" => UNCHANGED routeVars
    /\ p # "freq" => UNCHANGED freqVars
    /\ p # "cursor" => UNCHANGED cursorVars

\* A bound on three schedulers: the third takes no part, or the rounds of
\* KeepMaster come one after another and get their answers.
Resting(s) == keep[s] = "sleep" /\ over[s] = 0 /\ expire[s] = 0
RoundsInTurn ==
    \/ CleanRecord \/ ClockTick
    \/ \E s \in Sched :
        /\ \A t \in Sched \ {s} : keep[t] = "sleep"
        /\ StartKeepMaster(s) \/ RawGetLockInfo(s) \/ RawAcquireLock(s) \/ RenewMaster(s)

ClientsNext ==
    \/ Only("queues") /\ LockNext
    \/ Only("masters") /\ ((MasterNext /\ Resting(s3)') \/ RoundsInTurn)
    \/ Only("delivery") /\ DeliveryNext
    \/ Only("route") /\ RouteNext
    \/ Only("freq") /\ FreqNext
    \/ Only("cursor") /\ CursorNext /\ SyncsItems

ClientsSpec ==
    /\ ClientsInit
    /\ [][ClientsNext]_<<part, lockVars, masterVars, deliveryVars, routeVars, freqVars, cursorVars>>

\* Every variable of the six components has its type.
ClientsTypeOK ==
    /\ part = "queues" => LockTypeOK
    /\ part = "masters" => MasterTypeOK
    /\ part = "delivery" => DeliveryTypeOK
    /\ part = "route" => RouteTypeOK
    /\ part = "freq" => FreqTypeOK
    /\ part = "cursor" => CursorTypeOK
=============================================================================
