----------------------------- MODULE QueueShare -----------------------------
(***************************************************************************)
(* How the consumer hosts of a topic share out its queues: the sync        *)
(* process of HeartBeatLock gets the scale of every host, puts the hosts   *)
(* on a hash ring, and writes the queues that fall to its own host into    *)
(* the slots of the consumer processes, in shared memory.                  *)
(***************************************************************************)
EXTENDS Naturals, Sequences, FiniteSets, FiniteSetsExt, Ordered

CONSTANTS
    NHost, NProc, NGroup,   \* hosts (in the order of addr_scales), processes
                            \* per host, consumer groups
    QueuesOf,     \* per group, its queues (numbered in the order of GetAllQueues)
    HostPoint,    \* per host, the hashes of its virtual nodes
    QueuePoint,   \* per group and queue, its hash
    RingSize,     \* one more than the largest hash
    Dynamic,      \* groups with use_dynamic_scale
    Confs         \* the consumer configs, one after the other: scale and
                  \* consumer groups of each listed host

Host == 1..NHost
Group == 1..NGroup
Vpid == 1..NProc
NoQueue == <<0, 0>>     \* a slot without LOCK_ITEM_MAGIC
NoScales == << >>

ASSUME ShareAssumption ==
    /\ NHost \in Nat /\ NProc \in Nat /\ NGroup \in Nat /\ RingSize \in Nat \ {0}
    /\ \A g \in Group : /\ QueuePoint[g] \in Seq(0..(RingSize - 1))
                         /\ QueuesOf[g] \subseteq DOMAIN QueuePoint[g]
    /\ \A h \in Host : HostPoint[h] \in Seq(0..(RingSize - 1))
    /\ Len(Confs) \in Nat \ {0} /\ DOMAIN Confs = 1..Len(Confs)
    /\ \A c \in DOMAIN Confs : \A h \in DOMAIN Confs[c].scale :
         /\ h \in Host
         /\ Confs[c].scale[h] \in 0..Len(HostPoint[h])
         /\ Confs[c].groups[h] \subseteq Group

VARIABLES
    conf,        \* the config in force, an index of Confs
    up,          \* hosts that run
    slots,       \* per host, the queues of its processes: <<group, queue>>
    scaleSeen,   \* per host and group, the scales whose hash is in scale_hashs
    confSeen     \* per host, its conf_last_mod_time

shareVars == <<conf, up, slots, scaleSeen, confSeen>>

\* Scales of hosts, each with as many virtual nodes.
AreScales(s) == \A h \in DOMAIN s : h \in Host /\ s[h] \in 0..Len(HostPoint[h])

Slots == {<<g, q>> : g \in Group, q \in UNION {QueuesOf[k] : k \in Group}}

ShareTypeOK ==
    /\ conf \in DOMAIN Confs
    /\ up \subseteq Host
    /\ slots \in [Host -> [Vpid -> Slots \cup {NoQueue}]]
    /\ DOMAIN scaleSeen = Host
    /\ \A h \in Host : /\ DOMAIN scaleSeen[h] = Group
                       /\ \A g \in Group : AreScales(scaleSeen[h][g])
    /\ confSeen \in [Host -> 0..Len(Confs)]

ShareInit ==
    /\ conf = 1
    /\ up = Host
    /\ slots = [h \in Host |-> [v \in Vpid |-> NoQueue]]
    /\ scaleSeen = [h \in Host |-> [g \in Group |-> NoScales]]
    /\ confSeen = [h \in Host |-> 0]

Listed == DOMAIN Confs[conf].scale

\* GetConsumerGroupIDsByConsumerAddr: nothing for an address not listed.
GroupsOf(h) == IF h \in Listed THEN Confs[conf].groups[h] ELSE {}

\* The scales that count for a group: those of the hosts that serve it.
ScalesFor(scales, g) ==
    [h \in {k \in DOMAIN scales : g \in GroupsOf(k)} |-> scales[h]]

-----------------------------------------------------------------------------
\* How far the point x is from p, going round the ring.
Clockwise(p, x) == (x + RingSize - p) % RingSize

\* Mutant: a queue behind the last virtual node is nobody's.
FallsToNoWrap(h, scales, p) ==
    \E i \in 1..scales[h] :
        /\ HostPoint[h][i] >= p
        /\ \A k \in DOMAIN scales : \A j \in 1..scales[k] :
              HostPoint[k][j] >= p => HostPoint[h][i] <= HostPoint[k][j]

\* GetQueueByAddrScale: each host has as many virtual nodes as its scale, and
\* a queue falls to the host of the node that lower_bound finds, from the end
\* back to the first one; of two nodes with the same hash emplace keeps the
\* first.
FallsTo(h, scales, p) ==
    \E i \in 1..scales[h] : \A k \in DOMAIN scales : \A j \in 1..scales[k] :
        \/ Clockwise(p, HostPoint[h][i]) < Clockwise(p, HostPoint[k][j])
        \/ Clockwise(p, HostPoint[h][i]) = Clockwise(p, HostPoint[k][j]) /\ h <= k

\* GetPendingQueues: the queues of the group that fall to the host.
Pending(h, scales, g) ==
    {q \in QueuesOf[g] : h \in DOMAIN scales /\ FallsTo(h, scales, QueuePoint[g][q])}

-----------------------------------------------------------------------------
\* A process keeps its queue of the group while it is pending, unless a
\* process with a lower vpid has it too.
Kept(s, g, pending, v) ==
    s[v][1] = g =>
        /\ s[v][2] \in pending
        /\ \A w \in 1..(v - 1) : s[w] # s[v]

\* Mutant: what a process keeps is given to another, too.
LeftAll(kept, g, pending) == pending

\* The pending queues that no process keeps.
Left(kept, g, pending) == {q \in pending : \A v \in Vpid : kept[v] # <<g, q>>}

\* One round of DistubePendingQueues: keep or clear the slots of the group,
\* then the free processes take the queues that are left, in order.
DistributeGroup(s, g, pending) ==
    LET kept == [v \in Vpid |-> IF Kept(s, g, pending, v) THEN s[v] ELSE NoQueue]
        free == {v \in Vpid : kept[v] = NoQueue}
        left == Left(kept, g, pending)
        nth(v) == Cardinality({w \in free : w <= v})
    IN  [v \in Vpid |->
           IF v \in free /\ nth(v) <= Cardinality(left)
           THEN <<g, InOrder(left)[nth(v)]>>
           ELSE kept[v]]

\* DistubePendingQueues: the groups one after the other.
Distribute(s, pendingOf) ==
    LET after[g \in 0..NGroup] ==
          IF g = 0 THEN s
          ELSE IF g \in DOMAIN pendingOf THEN DistributeGroup(after[g - 1], g, pendingOf[g])
          ELSE after[g - 1]
    IN  after[NGroup]

\* ClearInvalidConsumerGroupIDs.
ClearInvalid(s, valid) ==
    [v \in Vpid |-> IF s[v][1] \in valid THEN s[v] ELSE NoQueue]

\* GetAddrScale of HeartBeatLock: the scales of each group, from the answer of
\* the scheduler for the dynamic ones, from the config for the others and, in a
\* process that never got an answer, for all.
SeenBy(h, g, answer) ==
    ScalesFor(IF g \in Dynamic /\ answer # NoScales THEN answer ELSE Confs[conf].scale, g)

\* The config or the scales of the group changed since the last Sync.
NeedAdjust(h, g, scales) == conf # confSeen[h] \/ scales # scaleSeen[h][g]

\* Sync, once GetAddrScale returned: clear, compare hashes, distribute.
ApplySync(h, answer) ==
    \E seen \in {[g \in GroupsOf(h) |-> SeenBy(h, g, answer)]} :
    \E adjust \in {{g \in DOMAIN seen : DOMAIN seen[g] # {} /\ NeedAdjust(h, g, seen[g])}} :
    \E pendingOf \in {[g \in adjust |-> Pending(h, seen[g], g)]} :
        /\ slots' = [slots EXCEPT ![h] =
              Distribute(ClearInvalid(@, {g \in DOMAIN seen : DOMAIN seen[g] # {}}), pendingOf)]
        /\ scaleSeen' = [scaleSeen EXCEPT ![h] =
              [g \in Group |-> IF g \in adjust THEN seen[g] ELSE @[g]]]
        /\ confSeen' = [confSeen EXCEPT ![h] = conf]

\* Sync when the scheduler did not answer: an error, except in a process that
\* never finished one.
SyncUnanswered(h) ==
    IF confSeen[h] = 0 THEN ApplySync(h, NoScales)
                       ELSE UNCHANGED <<slots, scaleSeen, confSeen>>

\* The sync process is started again: its memory is lost, the slots are not.
SyncStarts(h) ==
    /\ scaleSeen' = [scaleSeen EXCEPT ![h] = [g \in Group |-> NoScales]]
    /\ confSeen' = [confSeen EXCEPT ![h] = 0]

-----------------------------------------------------------------------------
\* No two processes have the same queue.
Distinct(s) == \A v, w \in Vpid : s[v] # NoQueue /\ s[v] = s[w] => v = w

\* No two processes of a host work on the same queue, however scales, configs
\* and groups change and processes restart on old shared memory
\* (DistubePendingQueues).
SlotsAreDistinct == \A h \in Host : Distinct(slots[h])

\* A host that applied the config in force has no queues but those that fall
\* to it by the scales it saw last.
SlotsArePending ==
    \A h \in Host :
        /\ confSeen[h] <= conf
        /\ confSeen[h] = conf =>
             \A v \in Vpid, g \in Group :
                slots[h][v][1] = g => slots[h][v][2] \in Pending(h, scaleSeen[h][g], g)

\* The hosts that applied the same scales share the queues of a group out
\* among them: none falls to two hosts, and none to nobody while a scale is
\* positive (GetQueueByAddrScale).
SameScalesSplitQueues ==
    \A h \in Host, g \in Group : LET s == scaleSeen[h][g] IN
        /\ \A q \in QueuesOf[g] :
             (\E k \in DOMAIN s : s[k] > 0) =>
                Cardinality({k \in DOMAIN s : q \in Pending(k, s, g)}) = 1
        /\ confSeen[h] = conf =>
             \A v \in Vpid : slots[h][v][1] = g => slots[h][v][2] \in Pending(h, s, g)
=============================================================================
