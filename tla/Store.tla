------------------------------- MODULE Store -------------------------------
(***************************************************************************)
(* One paxos group of a PhxQueue store, with the consumers that drain it.  *)
(*                                                                         *)
(* A store replicates AddRequests through a paxos log.  The instance id of *)
(* a chosen value is the cursor id of its items.  Every node keeps, for    *)
(* each queue of the group, an in-memory index of the cursors still of     *)
(* interest (StoreMetaQueue, lost in a restart); in mmap'd files it keeps  *)
(* the consumer groups' cursors (SyncCtrl) and the checkpoint from which   *)
(* paxos replays the log into the index after a restart (CheckPointStat).  *)
(* Consumers read with Get: a Get acknowledges what the consumer handled   *)
(* before and returns the items that follow.                               *)
(*                                                                         *)
(* Cursor ids are uint64_t in the code, where -1 is the LARGEST value;     *)
(* here NoCursor is the integer -1 and every comparison the code makes     *)
(* against it is written out.                                              *)
(***************************************************************************)
EXTENDS Integers, Sequences, FiniteSets

CONSTANTS
    Node,        \* the store's nodes: one paxos member each
    NQueue,      \* queues that share the paxos group (nqueue / ngroup)
    Group,       \* consumer groups
    Subs,        \* Subs[q]: the consumer groups the config makes valid for q
    Consumer,    \* consumer processes
    GroupOf,     \* GroupOf[c]: the consumer group that c works for
    Worker,      \* server threads that run Get, on any node
    Batches,     \* the batches of items that one paxos instance may carry
    Nobody,      \* stands for "no master" and "no client"
    Trimming,    \* does paxos delete old log files?
    MaxLog,      \* bound on the paxos log
    MaxPend,     \* bound on proposals in flight
    MaxScan,     \* bound on nodes that run MakeCheckPoint at the same time
    MaxFault     \* bound on restarts, timeouts and master changes

Queue == 0 .. NQueue - 1

\* An item names its queue and the consumer groups it is addressed to
\* (QItem.consumer_group_ids).
Item == [q : Queue, to : SUBSET Group]

ASSUME ConstantsAssumption ==
    /\ NQueue \in Nat \ {0}
    /\ Subs \in [Queue -> SUBSET Group]
    /\ GroupOf \in [Consumer -> Group]
    /\ Batches \subseteq SUBSET Item
    /\ Nobody \notin Node /\ Nobody \notin Consumer
    /\ Trimming \in BOOLEAN
    /\ MaxLog \in Nat /\ MaxPend \in Nat /\ MaxScan \in Nat /\ MaxFault \in Nat

VARIABLES
    log,         \* the chosen paxos values; instance i is log[i + 1]
    pend,        \* SyncCursorID values proposed and not yet chosen
    applied,     \* applied[n]: first instance n's state machine has not executed
    minc,        \* minc[n]: first instance n's paxos still stores
    metas,       \* metas[n][q]: StoreMetaQueue, an ordered set of cursors
    prevc,       \* prevc[n][g][q]: SyncCtrl's prev cursor (acknowledged)
    nextc,       \* nextc[n][g][q]: SyncCtrl's next cursor (handed out)
    cp,          \* cp[n]: CheckPointStat
    mk,          \* mk[n]: the MakeCheckPoint of n's KeepSyncThread
    master,      \* the node that holds the paxos master lease
    op,          \* op[w]: the Get that server thread w runs
    cons,        \* cons[c]: consumer c's context and phase
    delivered,   \* delivered[g][q]: cursors g's handlers have run on
    faults       \* faults so far

logVars  == <<log, pend>>
nodeVars == <<applied, minc, metas, cp>>
curVars  == <<prevc, nextc>>
vars == <<log, pend, applied, minc, metas, prevc, nextc, cp, mk, master, op,
          cons, delivered, faults>>

NoCursor == -1
Cursor == Nat \cup {NoCursor}
Cursors == [Group -> [Queue -> Cursor]]
NoCursors == [g \in Group |-> [q \in Queue |-> NoCursor]]

\* A chosen value: StorePaxosArgs with an add_req or a sync_ctrl_info.  One
\* instance may hold a batch of add_reqs (BatchPropose).
Entry == [adds : SUBSET Item, sync : Cursors]

\* Instance i holds an item of queue q; one addressed to group g.
HasItem(i, q) == \E a \in log[i + 1].adds : a.q = q
ItemFor(i, q, g) == \E a \in log[i + 1].adds : a.q = q /\ g \in a.to

IdleMk == [ph |-> "idle", q |-> 0, now |-> 0, cp |-> NoCursor,
           min |-> NoCursor, update |-> TRUE]
FreeOp == [ph |-> "free"]
IdleConsumer == [ph |-> "idle", q |-> NoCursor, next |-> NoCursor,
                 items |-> {}]

Init ==
    /\ log = <<>>
    /\ pend = {}
    /\ applied = [n \in Node |-> 0]
    /\ minc = [n \in Node |-> 0]
    /\ metas = [n \in Node |-> [q \in Queue |-> {}]]
    /\ prevc = [n \in Node |-> NoCursors]
    /\ nextc = [n \in Node |-> NoCursors]
    /\ cp = [n \in Node |-> NoCursor]
    /\ mk = [n \in Node |-> IdleMk]
    /\ master = Nobody
    /\ op = [w \in Worker |-> FreeOp]
    /\ cons = [c \in Consumer |-> IdleConsumer]
    /\ delivered = [g \in Group |-> [q \in Queue |-> {}]]
    /\ faults = 0

Fault == faults < MaxFault /\ faults' = faults + 1

-----------------------------------------------------------------------------
(* Paxos.                                                                  *)

\* Store::Add proposes on the master and waits; a proposal that timed out,
\* or whose proposer lost the master lease, may still be chosen.  The
\* proposal changes nothing before it is chosen.
PaxosAdd(b) ==
    /\ Len(log) < MaxLog
    /\ log' = Append(log, [adds |-> b, sync |-> NoCursors])
    /\ UNCHANGED <<pend, applied, minc, metas, prevc, nextc, cp, mk, master,
                   op, cons, delivered, faults>>

\* KeepSyncThread::SyncCursorID: the master proposes all its prev cursors.
SyncCursorID(n) ==
    /\ master = n
    /\ Cardinality(pend) < MaxPend
    /\ pend' = pend \cup {prevc[n]}
    /\ UNCHANGED <<log, applied, minc, metas, prevc, nextc, cp, mk, master,
                   op, cons, delivered, faults>>

SyncChosen(v) ==
    /\ Len(log) < MaxLog
    /\ log' = Append(log, [adds |-> {}, sync |-> v])
    /\ pend' = pend \ {v}
    /\ UNCHANGED <<applied, minc, metas, prevc, nextc, cp, mk, master, op,
                   cons, delivered, faults>>

SyncLost(v) ==
    /\ pend' = pend \ {v}
    /\ UNCHANGED <<log, applied, minc, metas, prevc, nextc, cp, mk, master,
                   op, cons, delivered, faults>>

\* The master lease passes to another node, or to none.
MasterChange(m) ==
    /\ m # master
    /\ IF master = Nobody THEN UNCHANGED faults ELSE Fault
    /\ master' = m
    /\ UNCHANGED <<log, pend, applied, minc, metas, prevc, nextc, cp, mk, op,
                   cons, delivered>>

\* Paxos deletes log files that the checkpoint covers.
CleanPaxosLog(n, m) ==
    /\ Trimming
    /\ minc[n] < m /\ m <= cp[n]
    /\ minc' = [minc EXCEPT ![n] = m]
    /\ UNCHANGED <<log, pend, applied, metas, prevc, nextc, cp, mk, master,
                   op, cons, delivered, faults>>

-----------------------------------------------------------------------------
(* The state machine.                                                      *)

\* BaseMgr::NeedSkipAdd: the cursor is already at the back of the index.
NeedSkipAdd(n, q, i) == \E m \in metas[n][q] : m >= i

\* BaseMgr::Add for every queue that instance i has items of.
AddMetas(n, i) ==
    [q \in Queue |->
        IF HasItem(i, q) /\ ~NeedSkipAdd(n, q, i)
        THEN metas[n][q] \cup {i} ELSE metas[n][q]]

\* Mutant: a synchronised cursor is taken whatever the node's own is.
SyncMovesAlways(n, v, g, q) == v[g][q] # NoCursor

\* SyncCtrl::SyncCursorID moves a prev cursor only forward, ...
SyncMoves(n, v, g, q) ==
    v[g][q] # NoCursor /\ prevc[n][g][q] < v[g][q]

\* ... and then the next cursor with it.
SyncTo(cur, n, v) ==
    [g \in Group |-> [q \in Queue |->
        IF SyncMoves(n, v, g, q) THEN v[g][q] ELSE cur[g][q]]]

\* StoreSM::Execute: node n learns and executes its next instance.
Execute(n) ==
    /\ applied[n] < Len(log)
    /\ \E m \in Node : minc[m] <= applied[n]
    /\ metas' = [metas EXCEPT ![n] = AddMetas(n, applied[n])]
    /\ LET v == log[applied[n] + 1].sync IN
       /\ prevc' = [prevc EXCEPT ![n] = SyncTo(prevc[n], n, v)]
       /\ nextc' = [nextc EXCEPT ![n] = SyncTo(nextc[n], n, v)]
    /\ applied' = [applied EXCEPT ![n] = @ + 1]
    /\ UNCHANGED <<log, pend, minc, cp, mk, master, op, cons, delivered,
                   faults>>

\* What a process start leaves of n, given the checkpoint it starts from:
\* an empty index, no threads, and a log replayed from the checkpoint on.
StartFrom(n, c) ==
    /\ cp' = [cp EXCEPT ![n] = c]
    /\ applied' = [applied EXCEPT ![n] = c + 1]
    /\ metas' = [metas EXCEPT ![n] = [q \in Queue |-> {}]]
    /\ mk' = [mk EXCEPT ![n] = IdleMk]
    /\ op' = [w \in Worker |->
                IF op[w].ph # "free" /\ op[w].node = n THEN FreeOp ELSE op[w]]
    /\ master' = IF master = n THEN Nobody ELSE master

\* The process of node n dies and is started again.
Restart(n) ==
    /\ Fault
    /\ StartFrom(n, cp[n])
    /\ UNCHANGED <<log, pend, minc, prevc, nextc, cons, delivered>>

\* Mutant: a checkpoint is taken without looking who is ahead.
LoadAnyCheckpoint(n, m) ==
    /\ StartFrom(n, cp[m])
    /\ minc' = [minc EXCEPT ![n] = cp[m] + 1]
    /\ UNCHANGED <<log, pend, prevc, nextc, cons, delivered, faults>>

\* StoreSM::LoadCheckpointState: n lags behind what m still stores, takes m's
\* checkpoint (not its cursors) and is restarted by paxos.
LoadCheckpointState(n, m) ==
    /\ applied[n] < minc[m]
    /\ StartFrom(n, cp[m])
    /\ minc' = [minc EXCEPT ![n] = cp[m] + 1]
    /\ UNCHANGED <<log, pend, prevc, nextc, cons, delivered, faults>>

-----------------------------------------------------------------------------
(* KeepSyncThread::MakeCheckPoint.                                         *)

\* The current instance is read before the queues are visited.
MakeCheckPoint(n) ==
    /\ mk[n].ph = "idle"
    /\ Cardinality({m \in Node : mk[m].ph # "idle"}) < MaxScan
    /\ mk' = [mk EXCEPT ![n] = [IdleMk EXCEPT !.ph = "cursors",
                                              !.now = applied[n]]]
    /\ UNCHANGED <<log, pend, applied, minc, metas, prevc, nextc, cp, master,
                   op, cons, delivered, faults>>

\* Mutant: the cursors of the group's first queue are used for every queue.
ScanFirstQueue(n) ==
    LET found == {prevc[n][g][0] : g \in Subs[0]} \ {NoCursor} IN
    /\ mk[n].ph = "cursors"
    /\ \E m \in found \cup {NoCursor} :
        /\ m = NoCursor <=> found = {}
        /\ \A x \in found : m <= x
        /\ mk' = [mk EXCEPT ![n] = [@ EXCEPT !.ph = "metas", !.min = m,
                    !.update = \A g \in Subs[0] : prevc[n][g][0] # NoCursor]]
    /\ UNCHANGED <<log, pend, applied, minc, metas, prevc, nextc, cp, master,
                   op, cons, delivered, faults>>

\* The smallest prev cursor of the valid groups of mk[n].q.  A group without
\* a cursor keeps the index from being cut.
ScanCursors(n) ==
    LET q == mk[n].q
        found == {prevc[n][g][q] : g \in Subs[q]} \ {NoCursor}
    IN
    /\ mk[n].ph = "cursors"
    /\ \E m \in found \cup {NoCursor} :
        /\ m = NoCursor <=> found = {}
        /\ \A x \in found : m <= x
        /\ mk' = [mk EXCEPT ![n] = [@ EXCEPT !.ph = "metas", !.min = m,
                    !.update = \A g \in Subs[q] : prevc[n][g][q] # NoCursor]]
    /\ UNCHANGED <<log, pend, applied, minc, metas, prevc, nextc, cp, master,
                   op, cons, delivered, faults>>

\* EraseFrontTill(min), or Clear when no group is valid for the queue.
CutMetas(n) ==
    LET q == mk[n].q IN
    IF ~mk[n].update THEN metas[n][q]
    ELSE IF mk[n].min = NoCursor THEN {}
    ELSE {m \in metas[n][q] : m > mk[n].min}

\* Mutant: the checkpoint is the queue's front itself.
LowerCpToFront(old, front) == IF old = NoCursor \/ front < old THEN front ELSE old

\* The checkpoint so far: the queue's front, minus one, if that is smaller.
LowerCp(old, front) ==
    IF old = NoCursor \/ front - 1 < old THEN front - 1 ELSE old

\* Mutant: one queue too many.
NextQueueOffByOne(n, newcp) ==
    IF mk[n].q < NQueue
    THEN [IdleMk EXCEPT !.ph = "cursors", !.q = mk[n].q + 1,
                        !.now = mk[n].now, !.cp = newcp]
    ELSE [IdleMk EXCEPT !.ph = "dump",
              !.cp = IF newcp = NoCursor THEN mk[n].now - 1 ELSE newcp]

\* The next queue of the group, or the dump after the last one; all queues
\* empty makes the instance read at the start the checkpoint.
NextQueue(n, newcp) ==
    IF mk[n].q + 1 < NQueue
    THEN [IdleMk EXCEPT !.ph = "cursors", !.q = mk[n].q + 1,
                        !.now = mk[n].now, !.cp = newcp]
    ELSE [IdleMk EXCEPT !.ph = "dump",
              !.cp = IF newcp = NoCursor THEN mk[n].now - 1 ELSE newcp]

ScanMetas(n) ==
    LET left == CutMetas(n) IN
    /\ mk[n].ph = "metas"
    /\ metas' = [metas EXCEPT ![n][mk[n].q] = left]
    /\ \/ /\ left = {}
          /\ mk' = [mk EXCEPT ![n] = NextQueue(n, mk[n].cp)]
       \/ \E f \in left :
            /\ \A x \in left : f <= x
            /\ mk' = [mk EXCEPT ![n] =
                        IF f = 0 THEN IdleMk
                        ELSE NextQueue(n, LowerCp(mk[n].cp, f))]
    /\ UNCHANGED <<log, pend, applied, minc, prevc, nextc, cp, master, op,
                   cons, delivered, faults>>

\* DumpCheckPoint: no checkpoint, or one below the stored one, is not dumped.
DumpCheckPoint(n) ==
    /\ mk[n].ph = "dump"
    /\ cp' = [cp EXCEPT ![n] = IF mk[n].cp > @ THEN mk[n].cp ELSE @]
    /\ mk' = [mk EXCEPT ![n] = IdleMk]
    /\ UNCHANGED <<log, pend, applied, minc, metas, prevc, nextc, master, op,
                   cons, delivered, faults>>

-----------------------------------------------------------------------------
(* Get.                                                                    *)

\* Mutant: a consumer that does not know the next cursor resumes from it.
AdjustResume(n, g, q, c) ==
    IF nextc[n][g][q] = NoCursor THEN <<prevc[n][g][q], prevc[n][g][q]>>
    ELSE <<prevc[n][g][q], nextc[n][g][q]>>

\* SyncCtrl::AdjustNextCursorID for a request that acknowledges c (its prev
\* and next cursors are both c): the pair <<prev, next>> to read from.  The
\* request is honoured only if c is what the server handed out last; if not,
\* reading restarts after the acknowledged cursor, or from the start.
AdjustNextCursorID(n, g, q, c) ==
    LET prev == prevc[n][g][q] IN
    IF nextc[n][g][q] = NoCursor \/ nextc[n][g][q] # c
    THEN <<prev, prev>>
    ELSE <<IF prev > c THEN prev ELSE c, c>>

\* Consumer::Process sends a Get that acknowledges what c has handled
\* (CustomGetRequest makes the prev cursor the next one); Store::CheckMaster
\* lets only the master serve it.
Get(c, w, n) ==
    LET g == GroupOf[c]
        q == cons[c].q
        adj == AdjustNextCursorID(n, g, q, cons[c].next)
    IN
    /\ cons[c].ph = "idle" /\ q # NoCursor
    /\ op[w].ph = "free"
    /\ master = n
    /\ op' = [op EXCEPT ![w] = [ph |-> "cp", node |-> n, cli |-> c, g |-> g,
                 q |-> q, prev |-> adj[1], next |-> adj[2], cp |-> NoCursor,
                 min |-> 0, moved |-> FALSE, items |-> {}]]
    /\ cons' = [cons EXCEPT ![c].ph = "wait"]
    /\ UNCHANGED <<log, pend, applied, minc, metas, prevc, nextc, cp, mk,
                   master, delivered, faults>>

GetCheckPoint(w) ==
    /\ op[w].ph = "cp"
    /\ op' = [op EXCEPT ![w] = [@ EXCEPT !.ph = "loop",
                    !.cp = cp[op[w].node], !.min = minc[op[w].node]]]
    /\ UNCHANGED <<log, pend, applied, minc, metas, prevc, nextc, cp, mk,
                   master, cons, delivered, faults>>

\* The loop reads the index when the position is at or past the checkpoint
\* (as uint64_t, "none" is past every checkpoint), and the log before it.
ReadsMetaQueue(w) ==
    op[w].cp = NoCursor \/ op[w].next = NoCursor \/ op[w].next >= op[w].cp

\* The rest of one iteration, at cursor i.  Items at or before prev are
\* skipped, an instance not chosen yet ends the loop, a deleted one is empty,
\* and items not addressed to the group are left out.
GetItemsByCursorID(w, i) ==
    LET n == op[w].node
        read == {x \in {i} : x >= minc[n] /\ ItemFor(x, op[w].q, op[w].g)}
    IN
    IF op[w].prev # NoCursor /\ op[w].prev >= i
    THEN [op[w] EXCEPT !.next = i, !.moved = TRUE]
    ELSE IF i >= applied[n]
    THEN [op[w] EXCEPT !.ph = "prev"]
    ELSE [op[w] EXCEPT !.next = i, !.moved = TRUE, !.items = @ \cup read]

\* StoreMetaQueue::Next: the first cursor after the position.
GetFromMetaQueue(w) ==
    /\ op[w].ph = "loop" /\ ReadsMetaQueue(w)
    /\ LET ahead == {m \in metas[op[w].node][op[w].q] : m > op[w].next} IN
       \E i \in ahead :
            /\ \A x \in ahead : i <= x
            /\ op' = [op EXCEPT ![w] = GetItemsByCursorID(w, i)]
    /\ UNCHANGED <<log, pend, applied, minc, metas, prevc, nextc, cp, mk,
                   master, cons, delivered, faults>>

GetFromPaxosLog(w) ==
    /\ op[w].ph = "loop" /\ ~ReadsMetaQueue(w)
    /\ LET i == IF op[w].next < op[w].min THEN op[w].min ELSE op[w].next + 1 IN
       op' = [op EXCEPT ![w] = GetItemsByCursorID(w, i)]
    /\ UNCHANGED <<log, pend, applied, minc, metas, prevc, nextc, cp, mk,
                   master, cons, delivered, faults>>

\* The loop ends when the index has no more, or, after a first iteration, on
\* any of its limits (items, bytes, iterations, time).
GetLoopEnd(w) ==
    /\ op[w].ph = "loop"
    /\ \/ op[w].moved
       \/ /\ ReadsMetaQueue(w)
          /\ \A m \in metas[op[w].node][op[w].q] : m <= op[w].next
    /\ op' = [op EXCEPT ![w].ph = "prev"]
    /\ UNCHANGED <<log, pend, applied, minc, metas, prevc, nextc, cp, mk,
                   master, cons, delivered, faults>>

\* Mutant: what is handed out is acknowledged at once.
UpdatePrevToNext(w) ==
    /\ op[w].ph = "prev"
    /\ prevc' = IF op[w].next = NoCursor THEN prevc
                ELSE [prevc EXCEPT ![op[w].node][op[w].g][op[w].q] = op[w].next]
    /\ op' = [op EXCEPT ![w].ph = "next"]
    /\ UNCHANGED <<log, pend, applied, minc, metas, nextc, cp, mk, master,
                   cons, delivered, faults>>

\* The two UpdateCursorID calls at the end of Get: the prev cursor ...
UpdatePrevCursorID(w) ==
    /\ op[w].ph = "prev"
    /\ prevc' = IF op[w].prev = NoCursor THEN prevc
                ELSE [prevc EXCEPT ![op[w].node][op[w].g][op[w].q] = op[w].prev]
    /\ op' = [op EXCEPT ![w].ph = "next"]
    /\ UNCHANGED <<log, pend, applied, minc, metas, nextc, cp, mk, master,
                   cons, delivered, faults>>

\* ... then the next cursor.  The reply reaches the client if it still waits.
UpdateNextCursorID(w) ==
    /\ op[w].ph = "next"
    /\ nextc' = IF op[w].next = NoCursor THEN nextc
                ELSE [nextc EXCEPT ![op[w].node][op[w].g][op[w].q] = op[w].next]
    /\ cons' = IF op[w].cli = Nobody THEN cons
               ELSE [cons EXCEPT ![op[w].cli] =
                        [@ EXCEPT !.ph = "work", !.next = op[w].next,
                                  !.items = op[w].items]]
    /\ op' = [op EXCEPT ![w] = FreeOp]
    /\ UNCHANGED <<log, pend, applied, minc, metas, prevc, cp, mk, master,
                   delivered, faults>>

-----------------------------------------------------------------------------
(* Consumers.                                                              *)

\* Consumer::ChildRun: a process that obtains another queue forgets its
\* cursors.  The queue lock is not assumed to exclude anybody.
ChildRun(c, q) ==
    /\ cons[c].ph = "idle" /\ cons[c].q # q
    /\ GroupOf[c] \in Subs[q]
    /\ cons' = [cons EXCEPT ![c] = [IdleConsumer EXCEPT !.q = q]]
    /\ UNCHANGED <<log, pend, applied, minc, metas, prevc, nextc, cp, mk,
                   master, op, delivered, faults>>

\* Consumer::Consume and AfterConsume: every item's handler has run and the
\* failed items were added again.
Consume(c) ==
    /\ cons[c].ph = "work"
    /\ delivered' = [delivered EXCEPT ![GroupOf[c]][cons[c].q] =
                        @ \cup cons[c].items]
    /\ cons' = [cons EXCEPT ![c] = [@ EXCEPT !.ph = "idle", !.items = {}]]
    /\ UNCHANGED <<log, pend, applied, minc, metas, prevc, nextc, cp, mk,
                   master, op, faults>>

\* Nobody waits for the Get of consumer c any more.
Abandon(c) ==
    op' = [w \in Worker |->
             IF op[w].ph # "free" /\ op[w].cli = c
             THEN [op[w] EXCEPT !.cli = Nobody] ELSE op[w]]

\* The Get call fails or times out at the client; the server may go on.  The
\* consumer keeps its cursors and tries again.
GetFails(c) ==
    /\ cons[c].ph = "wait"
    /\ IF \E w \in Worker : op[w].ph # "free" /\ op[w].cli = c
       THEN Fault ELSE UNCHANGED faults
    /\ Abandon(c)
    /\ cons' = [cons EXCEPT ![c].ph = "idle"]
    /\ UNCHANGED <<log, pend, applied, minc, metas, prevc, nextc, cp, mk,
                   master, delivered>>

\* The consumer process dies at any point and is started again.
ConsumerRestart(c) ==
    /\ Fault
    /\ Abandon(c)
    /\ cons' = [cons EXCEPT ![c] = IdleConsumer]
    /\ UNCHANGED <<log, pend, applied, minc, metas, prevc, nextc, cp, mk,
                   master, delivered>>

-----------------------------------------------------------------------------
PaxosNext ==
    \/ \E b \in Batches : PaxosAdd(b)
    \/ \E n \in Node : SyncCursorID(n)
    \/ \E v \in pend : SyncChosen(v) \/ SyncLost(v)
    \/ \E m \in Node \cup {Nobody} : MasterChange(m)
    \/ \E n \in Node : \E m \in 0 .. cp[n] : CleanPaxosLog(n, m)

NodeNext(n) ==
    \/ Execute(n)
    \/ Restart(n)
    \/ \E m \in Node : LoadCheckpointState(n, m)
    \/ MakeCheckPoint(n)
    \/ ScanCursors(n)
    \/ ScanMetas(n)
    \/ DumpCheckPoint(n)

WorkerNext(w) ==
    \/ GetCheckPoint(w)
    \/ GetFromMetaQueue(w)
    \/ GetFromPaxosLog(w)
    \/ GetLoopEnd(w)
    \/ UpdatePrevCursorID(w)
    \/ UpdateNextCursorID(w)

ConsumerNext(c) ==
    \/ \E w \in Worker, n \in Node : Get(c, w, n)
    \/ \E q \in Queue : ChildRun(c, q)
    \/ Consume(c)
    \/ GetFails(c)
    \/ ConsumerRestart(c)

Next ==
    \/ PaxosNext
    \/ \E n \in Node : NodeNext(n)
    \/ \E w \in Worker : WorkerNext(w)
    \/ \E c \in Consumer : ConsumerNext(c)

Spec == Init /\ [][Next]_vars

\* Fairness.  Paxos goes on electing a master and every node goes on learning
\* and executing; a server thread finishes its Get; a consumer's loop takes a
\* queue, issues its Gets, gives up one that is lost, and runs its handlers.
\* Nothing is assumed of checkpoints, of cursor synchronisation or of faults,
\* of which there are at most MaxFault.
Fairness ==
    /\ WF_vars(master = Nobody /\ \E m \in Node : MasterChange(m))
    /\ \A n \in Node : WF_vars(Execute(n))
    /\ \A w \in Worker : WF_vars(WorkerNext(w))
    /\ \A c \in Consumer :
        /\ WF_vars(\E q \in Queue : ChildRun(c, q) /\ cons[c].q = NoCursor)
        /\ WF_vars(\E w \in Worker, n \in Node : Get(c, w, n))
        /\ WF_vars(GetFails(c))
        /\ WF_vars(Consume(c))

FairSpec == Spec /\ Fairness

-----------------------------------------------------------------------------
(* Properties.                                                             *)

MkState == [ph : {"idle", "cursors", "metas", "dump"}, q : Queue, now : Nat,
            cp : Cursor, min : Cursor, update : BOOLEAN]
ActiveOp == [ph : {"cp", "loop", "prev", "next"}, node : Node,
             cli : Consumer \cup {Nobody}, g : Group, q : Queue,
             prev : Cursor, next : Cursor, cp : Cursor, min : Nat,
             moved : BOOLEAN, items : SUBSET Nat]
ConsumerState == [ph : {"idle", "wait", "work"}, q : Queue \cup {NoCursor},
                  next : Cursor, items : SUBSET Nat]

\* The shape of the state.
TypeOK ==
    /\ log \in Seq(Entry)
    /\ pend \in SUBSET Cursors
    /\ applied \in [Node -> Nat]
    /\ minc \in [Node -> Nat]
    /\ metas \in [Node -> [Queue -> SUBSET Nat]]
    /\ prevc \in [Node -> Cursors]
    /\ nextc \in [Node -> Cursors]
    /\ cp \in [Node -> Cursor]
    /\ mk \in [Node -> MkState]
    /\ master \in Node \cup {Nobody}
    /\ op \in [Worker -> ActiveOp \cup {FreeOp}]
    /\ cons \in [Consumer -> ConsumerState]
    /\ delivered \in [Group -> [Queue -> SUBSET Nat]]
    /\ faults \in Nat

\* Group g has been given every item of queue q, up to cursor c, that is
\* addressed to it.
DeliveredTo(g, q, c) ==
    \A i \in 0 .. c : i < Len(log) /\ ItemFor(i, q, g) => i \in delivered[g][q]

\* At-least-once: a prev cursor that any node holds for a consumer group (the
\* acknowledgement that lets the index be cut, the checkpoint move and other
\* nodes skip) never covers an item whose handler has not run.
AckedWasDelivered ==
    \A n \in Node, q \in Queue : \A g \in Subs[q] :
        DeliveredTo(g, q, prevc[n][g][q])

\* No gaps: when an item has been handed to a group's handlers, so has every
\* earlier item of its queue; first deliveries follow the paxos order, through
\* restarts, duplicate consumers and changes of master.
FirstDeliveryInOrder ==
    \A q \in Queue : \A g \in Subs[q] : \A i \in delivered[g][q] :
        DeliveredTo(g, q, i)

\* The checkpoint, before which the index is not rebuilt after a restart and
\* the paxos log may be deleted, covers only items that every group has seen.
CheckpointCoversDelivered ==
    \A n \in Node, q \in Queue : \A g \in Subs[q] : DeliveredTo(g, q, cp[n])

\* No item is out of reach: what a node has executed and a group has not
\* seen is in the node's index, where a Get that starts afresh finds it.
UndeliveredIsIndexed ==
    \A n \in Node, q \in Queue : \A g \in Subs[q] : \A i \in 0 .. applied[n] - 1 :
        i < Len(log) /\ ItemFor(i, q, g) =>
            i \in delivered[g][q] \/ i \in metas[n][q]

\* The checkpoint file of a node never goes back.
CheckpointNeverRetreats ==
    [][\A n \in Node : cp'[n] >= cp[n]]_cp

\* Synchronised cursors only advance: without a Get under way on the node, a
\* step never takes a prev cursor back.
SyncNeverRetreats ==
    [][\A n \in Node, g \in Group, q \in Queue :
        (~ \E w \in Worker : op[w].ph # "free" /\ op[w].node = n)
            => prevc'[n][g][q] >= prevc[n][g][q]]_prevc

\* Liveness of delivery: an item that paxos has chosen is eventually handed to
\* every group it is addressed to, whatever crashes, timeouts and changes of
\* master happen on the way.
EveryItemIsDelivered ==
    \A q \in Queue, i \in 0 .. MaxLog - 1 : \A g \in Subs[q] :
        (i < Len(log) /\ ItemFor(i, q, g)) ~> (i \in delivered[g][q])

\* What the consumer groups see of the store: the items of the log, what they
\* were given, what any node holds for acknowledged, what any node deleted.
AckedBy(g, q) == UNION {0 .. prevc[n][g][q] : n \in Node}

Queues == INSTANCE AtLeastOnce WITH
             batches <- [k \in DOMAIN log |-> log[k].adds],
             acked <- [g \in Group |-> [q \in Queue |-> AckedBy(g, q)]],
             gone <- UNION {0 .. minc[n] - 1 : n \in Node}

\* The paxos group is an at-least-once queue to every consumer group: each
\* Consume, SyncCursorID entry, Get and deletion of paxos log is a step that
\* the contract allows, whatever was lost, late or restarted before.
DeliversAtLeastOnce == Queues!Spec
=============================================================================
