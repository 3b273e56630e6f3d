----------------------------- MODULE Dispatch -----------------------------
(***************************************************************************)
(* How a consumer process handles a batch: Consume wakes the dispatch      *)
(* coroutine of the consume thread over a socket pair, which fills the     *)
(* buckets of the handle coroutines and answers when all have finished.    *)
(***************************************************************************)
EXTENDS Naturals, Sequences, FiniteSets, FiniteSetsExt, Ordered

CONSTANTS
    NHandler, NBatchHandler,   \* nhandler, nbatch_handler
    Uins,                      \* the uins of items; 0 for none
    RandomUin,                 \* handle_by_random_uin
    MaxBatch                   \* batch_limit

ASSUME DispatchAssumption ==
    NHandler \in Nat /\ NBatchHandler \in Nat /\ MaxBatch \in Nat /\ RandomUin \in BOOLEAN

Handler == 1..NHandler
BatchHandler == 1..NBatchHandler

VARIABLES
    stage,      \* "idle"; "asked": a byte is under way to the dispatch coroutine;
                \* "handling"; "answered": one is under way back
    uins,       \* the uins of the batch
    bucket,     \* per handle coroutine, the indexes it still has to handle
    running,    \* per handle coroutine, the index at hand, 0 for none
    busy,       \* batch handle coroutines that have not finished
    finished,   \* nhandle_task_finished
    batchFinished,
    handled     \* per index, how often it was handled

dispatchVars == <<stage, uins, bucket, running, busy, finished, batchFinished, handled>>

DispatchTypeOK ==
    /\ stage \in {"idle", "asked", "handling", "answered"}
    /\ uins \in Seq(Uins) /\ Len(uins) <= MaxBatch
    /\ bucket \in [Handler -> Seq(1..MaxBatch)]
    /\ running \in [Handler -> 0..MaxBatch]
    /\ busy \subseteq BatchHandler
    /\ finished \in 0..MaxBatch /\ batchFinished \in 0..NBatchHandler
    /\ handled \in [DOMAIN uins -> 0..1]

DispatchInit ==
    /\ stage = "idle"
    /\ uins = << >> /\ handled = << >>
    /\ bucket = [h \in Handler |-> << >>]
    /\ running = [h \in Handler |-> 0]
    /\ busy = {}
    /\ finished = 0 /\ batchFinished = 0

-----------------------------------------------------------------------------
\* Consume: a batch of items, and the byte that wakes the other thread.
Consume(batch) ==
    /\ stage = "idle"
    /\ stage' = "asked"
    /\ uins' = batch
    /\ handled' = [i \in DOMAIN batch |-> 0]
    /\ UNCHANGED <<bucket, running, busy, finished, batchFinished>>

\* Mutant: every item looks for a bucket of its own.
FollowsNot(batch, i) == {}

\* The items before i that share its bucket because of the uin.
Follows(batch, i) ==
    {j \in 1..(i - 1) : batch[j] = batch[i] /\ batch[i] # 0 /\ ~RandomUin}

Opening(batch) == {i \in DOMAIN batch : Follows(batch, i) = {}}

\* MakeHandleBuckets: an item without such predecessors opens the next bucket
\* while there is one, then any bucket will do.
Buckets(batch) ==
    {f \in [DOMAIN batch -> Handler] : \A i \in DOMAIN batch :
        IF i \in Opening(batch)
        THEN LET used == Cardinality({j \in Opening(batch) : j < i}) IN
             used < NHandler => f[i] = used + 1
        ELSE f[i] = f[Min(Follows(batch, i))]}

\* Mutant: the counters of the last batch are not reset.
CounterKept(n) == n
CounterReset(n) == 0

\* TaskDispatch: the byte is read, the buckets are filled, all coroutines with
\* something to do are resumed.
TaskDispatch ==
    /\ stage = "asked"
    /\ stage' = "handling"
    /\ \E f \in Buckets(uins) :
         bucket' = [h \in Handler |-> InOrder({i \in DOMAIN uins : f[i] = h})]
    /\ busy' = BatchHandler
    /\ finished' = CounterReset(finished)
    /\ batchFinished' = CounterReset(batchFinished)
    /\ UNCHANGED <<uins, running, handled>>

\* A coroutine takes the next item of its bucket; the handler may yield.
HandleRoutineFunc(h) ==
    /\ running[h] = 0 /\ bucket[h] # << >>
    /\ running' = [running EXCEPT ![h] = Head(bucket[h])]
    /\ bucket' = [bucket EXCEPT ![h] = Tail(@)]
    /\ UNCHANGED <<stage, uins, busy, finished, batchFinished, handled>>

\* The handler returned: HandleTaskFinish.
HandleTaskFinish(h) ==
    /\ running[h] # 0
    /\ handled' = [handled EXCEPT ![running[h]] = @ + 1]
    /\ finished' = finished + 1
    /\ running' = [running EXCEPT ![h] = 0]
    /\ UNCHANGED <<stage, uins, bucket, busy, batchFinished>>

BatchHandleTaskFinish(b) ==
    /\ b \in busy
    /\ busy' = busy \ {b}
    /\ batchFinished' = batchFinished + 1
    /\ UNCHANGED <<stage, uins, bucket, running, finished, handled>>

\* Mutant: a full batch is waited for, not the items at hand.
FullBatchFinished == finished = MaxBatch /\ batchFinished = NBatchHandler

IsAllTaskFinish == finished = Len(uins) /\ batchFinished = NBatchHandler

\* The dispatch coroutine sees that all is done and writes its byte.
TaskDispatchFinish ==
    /\ stage = "handling" /\ IsAllTaskFinish
    /\ stage' = "answered"
    /\ UNCHANGED <<uins, bucket, running, busy, finished, batchFinished, handled>>

\* Consume returns.
ConsumeReturn ==
    /\ stage = "answered"
    /\ stage' = "idle"
    /\ UNCHANGED <<uins, bucket, running, busy, finished, batchFinished, handled>>

RoutineStep(h) == HandleRoutineFunc(h) \/ HandleTaskFinish(h)
DispatchStep == TaskDispatch \/ TaskDispatchFinish \/ ConsumeReturn

DispatchNext ==
    \/ \E n \in 1..MaxBatch : \E batch \in [1..n -> Uins] : Consume(batch)
    \/ \E h \in Handler : RoutineStep(h)
    \/ \E b \in BatchHandler : BatchHandleTaskFinish(b)
    \/ DispatchStep

DispatchSpec == DispatchInit /\ [][DispatchNext]_dispatchVars

\* Both threads run on, and handlers return.
DispatchFairness ==
    /\ WF_dispatchVars(DispatchStep)
    /\ \A h \in Handler : WF_dispatchVars(RoutineStep(h))
    /\ \A b \in BatchHandler : WF_dispatchVars(BatchHandleTaskFinish(b))

-----------------------------------------------------------------------------
\* Items of the same uin are handled one after the other in the order of the
\* queue, whatever the handlers yield and however few buckets there are; when
\* Consume returns, every item was handled once, and no coroutine still works
\* on the batch that is about to be replaced (MakeHandleBuckets, TaskDispatch).
HandledInOrder ==
    /\ ~RandomUin =>
         \A h \in Handler : running[h] # 0 =>
            \A j \in 1..(running[h] - 1) :
                uins[j] = uins[running[h]] /\ uins[j] # 0 => handled[j] = 1
    /\ stage \in {"answered", "idle"} =>
         /\ \A i \in DOMAIN uins : handled[i] = 1
         /\ busy = {} /\ \A h \in Handler : running[h] = 0 /\ bucket[h] = << >>

\* The items that a handle coroutine has, at hand or in its bucket.
Holds(h) ==
    {i \in DOMAIN uins : i = running[h] \/ \E k \in DOMAIN bucket[h] : bucket[h][k] = i}

\* The items not yet handled are with one coroutine each, in their order, and
\* with them those before of the same uin.
BucketsAreOrdered ==
    /\ \A h \in Handler :
         /\ \A k \in DOMAIN bucket[h] : bucket[h][k] \in DOMAIN uins
         /\ running[h] # 0 => running[h] \in DOMAIN uins
         /\ Rises(bucket[h])
         /\ running[h] # 0 => \A k \in DOMAIN bucket[h] : running[h] < bucket[h][k]
         /\ \A i \in Holds(h) : handled[i] = 0
    /\ \A g, h \in Handler : g # h => Holds(g) \cap Holds(h) = {}
    /\ ~RandomUin =>
         \A h \in Handler : \A i \in Holds(h) : \A j \in 1..(i - 1) :
            uins[j] = uins[i] /\ uins[j] # 0 /\ handled[j] = 0 => j \in Holds(h)

\* The counters count: the items handled, and the coroutines not busy.
CountersCount ==
    stage = "handling" =>
        /\ finished = Cardinality({i \in DOMAIN uins : handled[i] = 1})
        /\ batchFinished + Cardinality(busy) = NBatchHandler
        /\ \A i \in DOMAIN uins : handled[i] = 0 => \E h \in Handler : i \in Holds(h)

\* The inductive invariant behind HandledInOrder.
DispatchInv ==
    /\ DispatchTypeOK /\ BucketsAreOrdered /\ CountersCount
    /\ stage # "handling" => busy = {} /\ \A h \in Handler : running[h] = 0 /\ bucket[h] = << >>
    /\ stage = "asked" => \A i \in DOMAIN uins : handled[i] = 0
    /\ stage \in {"answered", "idle"} => \A i \in DOMAIN uins : handled[i] = 1

\* Consume returns for every batch.
ConsumeReturns == [](stage # "idle" => <>(stage = "idle"))
=============================================================================
