----------------------------- MODULE Delivery -----------------------------
(***************************************************************************)
(* The way of an item: Producer::Enqueue routes it to a queue of a store,  *)
(* every consumer group of its pub gets it from there, and what a group    *)
(* could not handle is added again, for that group alone, to the queues    *)
(* that the pub has for the number of retries.  A queue of a store is what *)
(* Store.tla shows it to be to one group: a log and an acknowledged cursor *)
(* that is handed over when the consumer process is replaced.              *)
(***************************************************************************)
EXTENDS Naturals, Integers, Sequences, FiniteSets, FiniteSetsExt, SequencesExt, Ordered

CONSTANTS
    PubOf,        \* TopicConfig: pub -> [groups, infos (a sequence)]
    InfoOf,       \* queue_info_id -> [count, ranges (a sequence of <<lo, hi>>)]
    StoreOf,      \* StoreConfig: store -> the pubs it lists, none for all
    Skip,         \* skip_infos: pairs <<pub, group>>
    Dropping,     \* queue infos with drop_all
    BatchLimit, ByteLimit,   \* batch_limit, items_byte_size_limit
    NRetry,       \* producer_nretry_raw_add
    SwitchStore,  \* producer_retry_switch_store
    Requests,     \* what Enqueue is called with: records [pub, mask, size]
    Hashes,       \* what the uin of a request and the attempt can hash to
    Sizes,        \* what a handler can make of the size of an item
    MaxItem, MaxCount, MaxLoss   \* bounds of the model: Enqueue calls, tries
                                 \* without a limit of their own, faults

Pub == DOMAIN PubOf
StoreID == DOMAIN StoreOf
GroupID == UNION {PubOf[p].groups : p \in Pub}

-----------------------------------------------------------------------------
\* The queues of each queue info by rank: range after range.
Ranked ==
    [i \in DOMAIN InfoOf |->
        FlattenSeq([k \in DOMAIN InfoOf[i].ranges |->
            [j \in 1..(InfoOf[i].ranges[k][2] - InfoOf[i].ranges[k][1] + 1) |->
                InfoOf[i].ranges[k][1] + j - 1]])]

QueuesOfInfo(i) == Range(Ranked[i])
QueueID == UNION {QueuesOfInfo(i) : i \in DOMAIN InfoOf}
InfosInOrder == InOrder(DOMAIN InfoOf)

GetQueueByLoopRank(i, rank) == Ranked[i][(rank % Len(Ranked[i])) + 1]

\* The queue infos of each pub, every one as often as its count says; a count
\* of -1 has no limit.
InfoByCount ==
    [p \in Pub |-> FlattenSeq([k \in DOMAIN PubOf[p].infos |->
        LET n == InfoOf[PubOf[p].infos[k]].count IN
        [j \in 1..(IF n = -1 THEN MaxCount ELSE n) |-> PubOf[p].infos[k]]])]

\* RET_ERR_RANGE_CNT when there is none.
Takable(it) == it.count < Len(InfoByCount[it.pub])
GetQueueInfoIDByCount(p, cnt) == InfoByCount[p][cnt + 1]

GetPubIDsByStoreID(s) == IF StoreOf[s] # {} THEN StoreOf[s] \cap Pub ELSE Pub
StoresFor(p) == {s \in StoreID : p \in GetPubIDsByStoreID(s)}

\* The queues that the consumers of a group share out.
GetAllQueues(g) ==
    {sq \in StoreID \X QueueID : \E p \in GetPubIDsByStoreID(sq[1]) :
        g \in PubOf[p].groups /\ \E i \in Range(PubOf[p].infos) : sq[2] \in QueuesOfInfo(i)}

\* A valid config: ids and batch_limit are positive, a pub has queue infos and
\* stores, a queue info has queues.
ASSUME DeliveryAssumption ==
    /\ IsFiniteSet(DOMAIN InfoOf) /\ DOMAIN InfoOf \subseteq Nat \ {0}
    /\ IsFiniteSet(StoreID) /\ StoreID \subseteq Nat \ {0}
    /\ 0 \notin GroupID
    /\ \A i \in DOMAIN InfoOf :
         /\ InfoOf[i].count \in (Nat \ {0}) \cup {-1}
         /\ InfoOf[i].ranges \in Seq(Nat \X Nat) /\ InfoOf[i].ranges # << >>
         /\ \A k \in DOMAIN InfoOf[i].ranges : InfoOf[i].ranges[k][1] <= InfoOf[i].ranges[k][2]
    /\ \A p \in Pub : PubOf[p].infos \in Seq(DOMAIN InfoOf) /\ PubOf[p].infos # << >> /\ StoresFor(p) # {}
    /\ Requests \subseteq [pub : Pub, mask : SUBSET GroupID, size : Nat]
    /\ Hashes \subseteq Nat /\ Sizes \subseteq Nat
    /\ BatchLimit \in Nat \ {0} /\ ByteLimit \in Nat /\ NRetry \in Nat
    /\ MaxItem \in Nat /\ MaxCount \in Nat /\ MaxLoss \in Nat

-----------------------------------------------------------------------------
\* One process for each queue of each group.
Worker == {w \in GroupID \X StoreID \X QueueID : <<w[2], w[3]>> \in GetAllQueues(w[1])}
Producer == <<0, 0, 0>>
Caller == Worker \cup {Producer}

VARIABLES
    log,        \* per store and queue, the items added
    acked,      \* per worker, how many items were acknowledged
    got,        \* per worker, how many it got and handled
    todo,       \* per caller, the Add requests it still has to send
    tried,      \* per caller, the attempts of SelectAndAdd for the first of
                \* them: the stores tried and their number
    ring,       \* per caller, the stores on its thread's hash ring
    accepted,   \* the items whose Enqueue returned RET_OK
    settled,    \* pairs <<item, group>>: handled, skipped or given up
    failed,     \* triples <<item, group, count>>: a handler returned RES_ERROR
    nitem, losses

deliveryVars == <<log, acked, got, todo, tried, ring, accepted, settled,
                  failed, nitem, losses>>
consuming == <<acked, got>>

Item == [id : 1..MaxItem, pub : Pub, mask : SUBSET GroupID, count : Nat, size : Nat]
Fresh == [n |-> 0, stores |-> {}]

DeliveryTypeOK ==
    /\ log \in [StoreID \X QueueID -> Seq(Item)]
    /\ acked \in [Worker -> Nat] /\ got \in [Worker -> Nat]
    /\ \A w \in Worker : acked[w] <= got[w] /\ got[w] <= Len(log[<<w[2], w[3]>>])
    /\ todo \in [Caller -> Seq(Seq(Item))]
    /\ ring \in [Caller -> SUBSET StoreID]
    /\ tried \in [Caller -> [n : 0..NRetry, stores : SUBSET StoreID]]
    /\ accepted \subseteq Item
    /\ settled \subseteq (1..MaxItem) \X GroupID
    /\ nitem \in 0..MaxItem /\ losses \in 0..MaxLoss

DeliveryInit ==
    /\ log = [sq \in StoreID \X QueueID |-> << >>]
    /\ acked = [w \in Worker |-> 0]
    /\ got = [w \in Worker |-> 0]
    /\ todo = [c \in Caller |-> << >>]
    /\ tried = [c \in Caller |-> Fresh]
    /\ ring = [c \in Caller |-> {}]
    /\ accepted = {} /\ settled = {} /\ failed = {}
    /\ nitem = 0 /\ losses = 0

-----------------------------------------------------------------------------
TotalSize(r) == FoldLeft(LAMBDA n, it : n + it.size, 0, r)

\* A request for the items of a queue info takes the next one if it stays
\* within both limits; else a new request starts.
Append1(reqs, it) ==
    IF /\ reqs # << >>
       /\ Len(Last(reqs)) + 1 <= BatchLimit
       /\ TotalSize(Last(reqs)) + it.size <= ByteLimit
    THEN [reqs EXCEPT ![Len(reqs)] = Append(@, it)]
    ELSE Append(reqs, <<it>>)

\* The elements of a sequence that are in a set, in their order.
Picked(seq, S) ==
    LET at == InOrder({k \in DOMAIN seq : seq[k] \in S}) IN [j \in DOMAIN at |-> seq[at[j]]]

\* The requests for the items of one queue info.
Split(items) ==
    LET made[k \in 0..Len(items)] == IF k = 0 THEN << >> ELSE Append1(made[k - 1], items[k])
    IN  made[Len(items)]

\* The items of one queue info; one that has none is skipped.
OfInfo(items, i) ==
    Picked(items, {it \in Range(items) : Takable(it) /\ GetQueueInfoIDByCount(it.pub, it.count) = i})

\* MakeAddRequests: the items by queue info.  The call fails when the first of
\* them is too large; another one that is gets a request of its own.
TooLarge(items) ==
    \E i \in DOMAIN InfoOf :
        LET own == OfInfo(items, i) IN own # << >> /\ own[1].size > ByteLimit
MakeAddRequests(items) ==
    FlattenSeq([n \in DOMAIN InfosInOrder |-> Split(OfInfo(items, InfosInOrder[n]))])

\* Enqueue: one item.
Enqueue(req) ==
    /\ nitem < MaxItem
    /\ todo[Producer] = << >>
    /\ nitem' = nitem + 1
    /\ LET it == [id |-> nitem + 1, pub |-> req.pub, mask |-> req.mask, count |-> 0,
                  size |-> req.size]
       IN  IF TooLarge(<<it>>) THEN UNCHANGED todo
           ELSE todo' = [todo EXCEPT ![Producer] = MakeAddRequests(<<it>>)]
    /\ UNCHANGED <<log, consuming, tried, ring, accepted, settled, failed, losses>>

-----------------------------------------------------------------------------
\* The ring of the thread: built by the first call, from the stores of its pub,
\* and kept while the store config does not change.
RingAfter(c, p) == IF ring[c] = {} THEN StoresFor(p) ELSE ring[c]

\* The store of a set that a hash falls to.
HashInto(stores, hash) ==
    InOrder(stores)[(hash % Cardinality(stores)) + 1]

\* StoreSelectorDefault::GetStoreID: from the ring, or for another attempt from
\* the stores of the pub that have a place on it and were not tried, or from
\* all stores of the pub.
GetStoreID(c, p, onRing, hash) ==
    LET untried == (StoresFor(p) \cap onRing) \ tried[c].stores IN
    HashInto(IF ~(SwitchStore /\ tried[c].n > 0) THEN onRing
             ELSE IF untried # {} THEN untried
             ELSE StoresFor(p), hash)

\* The first request of the caller is done.
Sent(c) ==
    /\ todo' = [todo EXCEPT ![c] = Tail(@)]
    /\ tried' = [tried EXCEPT ![c] = Fresh]
    /\ accepted' = IF c = Producer THEN accepted \cup {todo[c][1][1]} ELSE accepted

\* Enqueue fails; AfterConsume tries the same request again for ever.
AfterLastAttempt(c) == IF c = Producer THEN << >> ELSE todo[c]

\* SelectAndAdd: the next attempt, the error after the last one.
NotSent(c, s) ==
    /\ IF tried[c].n < NRetry
       THEN /\ tried' = [tried EXCEPT ![c] = [n |-> @.n + 1, stores |-> @.stores \cup {s}]]
            /\ UNCHANGED todo
       ELSE /\ tried' = [tried EXCEPT ![c] = Fresh]
            /\ todo' = [todo EXCEPT ![c] = AfterLastAttempt(c)]
    /\ UNCHANGED accepted

\* One attempt: the pub and the count of the first item choose the queue and
\* the store for all.  "lost" is an error before the commit, "late" one after.
SelectAndAdd(c, hash, outcome) ==
    /\ todo[c] # << >>
    /\ LET req == todo[c][1]
           p == req[1].pub
           i == GetQueueInfoIDByCount(p, req[1].count)
           q == GetQueueByLoopRank(i, hash)
           s == GetStoreID(c, p, RingAfter(c, p), hash)
       IN    /\ ring' = [ring EXCEPT ![c] = RingAfter(c, p)]
             /\ IF i \in Dropping
                THEN /\ outcome = "ok" /\ Sent(c)
                     /\ settled' = settled \cup UNION {{it.id} \X it.mask : it \in Range(req)}
                     /\ UNCHANGED <<log, losses>>
                ELSE /\ log' = IF outcome = "lost" THEN log
                               ELSE [log EXCEPT ![<<s, q>>] = @ \o req]
                     /\ IF outcome = "ok"
                        THEN Sent(c) /\ UNCHANGED losses
                        ELSE losses < MaxLoss /\ losses' = losses + 1 /\ NotSent(c, s)
                     /\ UNCHANGED settled
    /\ UNCHANGED <<consuming, failed, nitem>>

-----------------------------------------------------------------------------
LogOf(w) == log[<<w[2], w[3]>>]

NextGot(w) == Min({got[w] + BatchLimit, Len(LogOf(w))})

\* Mutant: a Get acknowledges what it returns.
AckedAtOnce(w) == NextGot(w)

\* UpdateConsumerContextByGetResponse: the next Get acknowledges this one.
AckedBy(w) == got[w]

\* Mutant: a failed item is added again for every group of its mask.
RetryForAll(g, it, size) == [it EXCEPT !.count = @ + 1, !.size = size]

\* item_update_func of AfterConsume; the handler may have changed the buffer.
RetryItem(g, it, size) == [it EXCEPT !.count = @ + 1, !.mask = {g}, !.size = size]

\* A turn of the loop of Process.  Get acknowledges the batch before and
\* returns the next one; Consume passes over items for other groups and skipped
\* ones, and of the others some fail; AfterConsume makes the requests for them.
Process(w, fails, size) ==
    LET g == w[1]
        batch == SubSeq(LogOf(w), got[w] + 1, NextGot(w))
        mine == {it \in Range(batch) : g \in it.mask}
        again == [k \in DOMAIN Picked(batch, fails) |-> RetryItem(g, Picked(batch, fails)[k], size)]
    IN  /\ todo[w] = << >>
        /\ got[w] < Len(LogOf(w)) \/ acked[w] < got[w]
        /\ fails \subseteq {it \in mine : <<it.pub, g>> \notin Skip}
        /\ acked' = [acked EXCEPT ![w] = AckedBy(w)]
        /\ got' = [got EXCEPT ![w] = NextGot(w)]
        /\ todo' = [todo EXCEPT ![w] = IF TooLarge(again) THEN << >> ELSE MakeAddRequests(again)]
        /\ settled' = settled \cup {<<it.id, g>> : it \in mine \ fails}
              \cup {<<it.id, g>> : it \in {x \in Range(again) : ~Takable(x)}}
        /\ failed' = failed \cup {<<it.id, g, it.count>> : it \in fails}
        /\ UNCHANGED <<log, tried, ring, accepted, nitem, losses>>

\* The worker dies, or the queue goes to another one: the next worker gets
\* what was not acknowledged.
Replaced(w) ==
    /\ acked[w] < got[w] \/ todo[w] # << >>
    /\ losses < MaxLoss /\ losses' = losses + 1
    /\ got' = [got EXCEPT ![w] = acked[w]]
    /\ todo' = [todo EXCEPT ![w] = << >>]
    /\ tried' = [tried EXCEPT ![w] = Fresh]
    /\ ring' = [ring EXCEPT ![w] = {}]
    /\ UNCHANGED <<log, acked, accepted, settled, failed, nitem>>

AddStep(c) == \E hash \in Hashes, o \in {"ok", "lost", "late"} : SelectAndAdd(c, hash, o)
ProcessStep(w) ==
    \E fails \in SUBSET Range(SubSeq(LogOf(w), got[w] + 1, NextGot(w))), size \in Sizes :
        Process(w, fails, size)

DeliveryNext ==
    \/ \E req \in Requests : Enqueue(req)
    \/ \E c \in Caller : AddStep(c)
    \/ \E w \in Worker : ProcessStep(w) \/ Replaced(w)

-----------------------------------------------------------------------------
DeliverySpec == DeliveryInit /\ [][DeliveryNext]_deliveryVars

Carries(it, id, g) == it.id = id /\ g \in it.mask

\* Whoever gets this item of the log next, worker w has it before it or at hand.
Coming(w, id, g) ==
    \/ \E k \in (acked[w] + 1)..Len(LogOf(w)) : Carries(LogOf(w)[k], id, g)
    \/ \E k \in DOMAIN todo[w] : \E it \in Range(todo[w][k]) : Carries(it, id, g)

\* An item whose Enqueue succeeded is not lost for any group it is meant for:
\* it was handled or given up after the last retry, or a worker of the group
\* still has it coming.  Routing by pub, store and retry count, requests split
\* by size, lost and late answers and replaced workers all bear on it.
NoItemLost ==
    \A it \in accepted : \A g \in it.mask \cap PubOf[it.pub].groups :
        <<it.id, g>> \in settled \/ \E w \in Worker : w[1] = g /\ Coming(w, it.id, g)

\* A group failed on the copy before this one, and this one is for it alone.
IsOwn(it) ==
    it.count > 0 => \E g \in GroupID : it.mask = {g} /\ <<it.id, g, it.count - 1>> \in failed

\* A copy with a positive count is for one group, and that group failed on the
\* copy before it: a group's failure costs no other group a second delivery
\* (AfterConsume).
RetriesAreOwn == \A sq \in DOMAIN log : \A it \in Range(log[sq]) : IsOwn(it)

-----------------------------------------------------------------------------
(* The inductive invariant.                                                *)

\* The items of a request belong to one queue info.
Routed(req) ==
    /\ req # << >>
    /\ \E i \in DOMAIN InfoOf : \A it \in Range(req) :
         Takable(it) /\ GetQueueInfoIDByCount(it.pub, it.count) = i

RequestsOK ==
    \A c \in Caller : \A k \in DOMAIN todo[c] :
        Routed(todo[c][k]) /\ \A it \in Range(todo[c][k]) : IsOwn(it)

\* What is in a thread's ring was put there for some pub.
RingsOK == \A c \in Caller : ring[c] = {} \/ \E p \in Pub : ring[c] = StoresFor(p)

\* An item with this id and pub is for group g, and the group has not got it
\* yet or is about to add it again.
Ahead(w, id, p, g) ==
    \/ \E k \in (got[w] + 1)..Len(LogOf(w)) :
        Carries(LogOf(w)[k], id, g) /\ LogOf(w)[k].pub = p
    \/ \E k \in DOMAIN todo[w] : \E it \in Range(todo[w][k]) : Carries(it, id, g) /\ it.pub = p

Reached(id, p, g) ==
    <<id, g>> \in settled \/ \E w \in Worker : w[1] = g /\ Ahead(w, id, p, g)

\* What a group got is settled or comes again.
GotIsReached ==
    \A w \in Worker : \A it \in {LogOf(w)[k] : k \in 1..got[w]} :
        w[1] \in it.mask \cap PubOf[it.pub].groups => Reached(it.id, it.pub, w[1])

AcceptedIsReached ==
    \A it \in accepted : \A g \in it.mask \cap PubOf[it.pub].groups : Reached(it.id, it.pub, g)

\* What a worker adds again it has not acknowledged: its successor gets it.
RetriesAreUnacked ==
    \A w \in Worker : \A n \in DOMAIN todo[w] : \A it \in Range(todo[w][n]) :
        it.mask = {w[1]} /\ \E k \in (acked[w] + 1)..got[w] :
            Carries(LogOf(w)[k], it.id, w[1]) /\ LogOf(w)[k].pub = it.pub

DeliveryInv == DeliveryTypeOK /\ RequestsOK /\ RingsOK /\ RetriesAreOwn

ReachInv == DeliveryInv /\ RetriesAreUnacked /\ GotIsReached /\ AcceptedIsReached

\* All pubs have the same stores: a request goes to a store of the pub of its
\* first item, or of the first request of the thread, whose pub may be another.
SameStores == \A p \in Pub : StoresFor(p) # {} /\ \A r \in Pub : StoresFor(p) = StoresFor(r)

\* No handler makes an item too large to be added again: AfterConsume would drop
\* all that failed with it.
NoneGrowsTooLarge == \A z \in Sizes : z <= ByteLimit
=============================================================================
