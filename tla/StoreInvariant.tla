--------------------------- MODULE StoreInvariant ---------------------------
(***************************************************************************)
(* The inductive invariant behind AckedWasDelivered and the other safety   *)
(* properties of Store.  Every cursor in the system, wherever it is held,  *)
(* is settled: it lies inside the log and covers only items that the       *)
(* consumer group has been given.  Of checkpoints this is only true when   *)
(* the paxos group serves one queue; with several, the invariant is        *)
(* inductive as long as paxos keeps its log and no node is restarted, that *)
(* is, as long as nobody relies on a checkpoint.                           *)
(***************************************************************************)
EXTENDS Store

\* Cursor c lies inside the log and, but for the cursors of set s, covers
\* only items of queue q that were delivered to group g.
Covered(g, q, c, s) ==
    /\ c < Len(log)
    /\ \A i \in 0 .. c : ItemFor(i, q, g) => i \in delivered[g][q] \cup s

Settled(g, q, c) == Covered(g, q, c, {})

\* What a node has executed is in the log; its index holds executed cursors;
\* its checkpoint is executed; paxos keeps the log after the checkpoint.
NodeBound(n) ==
    /\ applied[n] <= Len(log)
    /\ cp[n] < applied[n]
    /\ minc[n] <= cp[n] + 1
    /\ \A q \in Queue : \A m \in metas[n][q] : m < applied[n]

NodeBounds == \A n \in Node : NodeBound(n)

\* Cursors in SyncCtrl, in proposals and in the log.
CursorsSettled ==
    \A q \in Queue : \A g \in Subs[q] :
        /\ \A n \in Node : Settled(g, q, prevc[n][g][q])
        /\ \A v \in pend : Settled(g, q, v[g][q])
        /\ \A k \in 1 .. Len(log) : Settled(g, q, log[k].sync[g][q])

\* With one queue, the checkpoints.  With several, paxos keeps the whole log.
CheckpointsSettled ==
    NQueue = 1 =>
        \A n \in Node, q \in Queue : \A g \in Subs[q] : Settled(g, q, cp[n])

LogKept == NQueue # 1 => \A n \in Node : minc[n] = 0

\* The progress of MakeCheckPoint: the instance it read was executed, and so
\* was the checkpoint it is about to dump; what it is about to cut is settled,
\* and with one queue so is that checkpoint.
ScanBound(n) == mk[n].now <= applied[n] /\ mk[n].cp < applied[n]

ScanOK(n) ==
    /\ ScanBound(n)
    /\ mk[n].ph = "metas" /\ mk[n].update =>
          \A g \in Subs[mk[n].q] :
             mk[n].min # NoCursor /\ Settled(g, mk[n].q, mk[n].min)
    /\ NQueue = 1 =>
          /\ mk[n].ph \in {"cursors", "metas"} => mk[n].cp = NoCursor
          /\ \A q \in Queue : \A g \in Subs[q] : Settled(g, q, mk[n].cp)

ScanBounds == \A n \in Node : ScanBound(n)

\* What is only about numbers holds for any number of queues, whatever is
\* trimmed and whoever is restarted.
BoundInv == TypeOK /\ NodeBounds /\ ScanBounds

ScanSettled == \A n \in Node : ScanOK(n)

\* A Get works for a subscribed group, with a settled prev cursor; up to its
\* position everything was delivered before or is in its reply.
GetOK(w) ==
    op[w].ph # "free" =>
        /\ op[w].g \in Subs[op[w].q]
        /\ op[w].min <= minc[op[w].node]
        /\ Settled(op[w].g, op[w].q, op[w].prev)
        /\ Covered(op[w].g, op[w].q, op[w].next, op[w].items)
        /\ \A i \in op[w].items : i <= op[w].next
        /\ op[w].cli # Nobody =>
              /\ cons[op[w].cli].ph = "wait"
              /\ cons[op[w].cli].q = op[w].q
              /\ GroupOf[op[w].cli] = op[w].g

GetSettled == \A w \in Worker : GetOK(w)

\* A client waits for one server thread at most.
OneServer ==
    \A v, w \in Worker :
        /\ op[v].ph # "free" /\ op[w].ph # "free"
        /\ op[v].cli = op[w].cli /\ op[v].cli # Nobody
        => v = w

\* A consumer that has a queue is subscribed to it, and its position covers
\* what was delivered and what it is handling.
ConsumerOK(c) ==
    /\ cons[c].ph # "work" => cons[c].items = {}
    /\ cons[c].ph # "idle" => cons[c].q # NoCursor
    /\ cons[c].q # NoCursor =>
          /\ GroupOf[c] \in Subs[cons[c].q]
          /\ Covered(GroupOf[c], cons[c].q, cons[c].next, cons[c].items)
          /\ \A i \in cons[c].items : i <= cons[c].next

ConsumersSettled == \A c \in Consumer : ConsumerOK(c)

\* Deliveries have no gaps and concern chosen instances.
DeliveriesSettled ==
    \A q \in Queue : \A g \in Subs[q] : \A i \in delivered[g][q] :
        Settled(g, q, i)

\* A Get reads, and a consumer handles, only what is addressed to the group.
Addressed(g, q, S) == \A i \in S : i < Len(log) /\ ItemFor(i, q, g)

ItemsAddressed ==
    /\ \A w \in Worker :
          op[w].ph # "free" => Addressed(op[w].g, op[w].q, op[w].items)
    /\ \A c \in Consumer : Addressed(GroupOf[c], cons[c].q, cons[c].items)

IInv ==
    /\ TypeOK
    /\ NodeBounds
    /\ CursorsSettled
    /\ CheckpointsSettled
    /\ LogKept
    /\ UndeliveredIsIndexed
    /\ ScanSettled
    /\ GetSettled
    /\ OneServer
    /\ ConsumersSettled
    /\ DeliveriesSettled
=============================================================================
