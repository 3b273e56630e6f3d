------------------------------ MODULE MCStore ------------------------------
(* Small instances of Store for TLC.                                       *)
EXTENDS StoreInvariant, TLC

CONSTANTS n1, n2, g1, c1, c2, w1, w2

\* One consumer group, subscribed to every queue; all consumers work for it.
G1Subs == [q \in Queue |-> {g1}]
AllInG1 == [c \in Consumer |-> g1]

\* Instances with one item for the group; with one for either of two queues.
PlainBatches == {{[q |-> 0, to |-> {g1}]}}
TwoQueueBatches == {{[q |-> 0, to |-> {g1}]}, {[q |-> 1, to |-> {g1}]}}

\* A bound: either one consumer is at work and the last instance, if any,
\* synchronises cursors, after items only; or two share a queue, and the log is
\* shorter and holds items only.
RivalsOrSync ==
    /\ \A k \in 1..Len(log) : log[k].adds # {} <=> k < MaxLog
    /\ \/ \E c \in Consumer : cons[c] = IdleConsumer
       \/ /\ \A c, d \in Consumer : cons[c].q = cons[d].q
          /\ Len(log) < MaxLog /\ pend = {}

NodeSym == Permutations({n1, n2})
ClientSym == Permutations({c1, c2}) \cup Permutations({w1, w2})
=============================================================================
