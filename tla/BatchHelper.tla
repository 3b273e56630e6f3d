---------------------------- MODULE BatchHelper ----------------------------
(***************************************************************************)
(* BatchHelper of the producer: callers of BatchRawAdd put their requests  *)
(* for the same queue into one batch and wait on a pipe from NotifierPool. *)
(* The caller that fills a batch sends it itself; the others are sent by   *)
(* the coroutines of a daemon thread, when producer_batch_delay_time_ms    *)
(* has passed.                                                             *)
(***************************************************************************)
EXTENDS Naturals, Sequences, FiniteSets, SequencesExt, Ordered

CONSTANTS
    Thread,       \* the threads that call BatchRawAdd, with one item each
    NKey,         \* topic, store and queue: the keys of one daemon thread
    NRoutine,     \* nprocess_routine
    AddLimit,     \* batch_limit; items_byte_size_limit is reached with it
    BatchDelay,   \* producer_batch_delay_time_ms in ticks
    NNotifier     \* bound of the model: pipes ever made, enough for all

Key == 1..NKey
Routine == 1..NRoutine

ASSUME BatchAssumption ==
    /\ NKey \in Nat /\ NRoutine \in Nat /\ AddLimit \in Nat /\ BatchDelay \in Nat
    /\ IsFiniteSet(Thread) /\ Thread \cap Routine = {}
    /\ NNotifier \in Nat /\ Cardinality(Thread) <= NNotifier

Notifier == 1..NNotifier
NoNotifier == 0

VARIABLES
    batch,     \* per key, the threads whose tasks are in its BatchTask
    age,       \* per key, the ticks since the first of them
    wake,      \* ticks until next_dispatch_timestampe_ms
    sending,   \* per thread and routine, the tasks it sends: [tasks, code]
    notifier,  \* per thread, the pipe it waits on
    pipe,      \* per pipe, the codes in it
    pool,      \* the pipes of NotifierPool, first in first out
    calling,   \* threads inside BatchRawAdd
    adds,      \* per thread, how often its request was sent
    outcome    \* per thread, the code its request was sent with

batchVars == <<batch, age, wake, sending, notifier, pipe, pool, calling, adds,
               outcome>>

Code == {"ok", "fail"}
NoJob == [tasks |-> << >>, code |-> "none"]
Sender == Routine \cup Thread

BatchTypeOK ==
    /\ batch \in [Key -> Seq(Thread)]
    /\ age \in [Key -> 0..BatchDelay] /\ wake \in 0..BatchDelay
    /\ sending \in [Sender -> [tasks : Seq(Thread), code : Code \cup {"none"}]]
    /\ notifier \in [Thread -> Notifier \cup {NoNotifier}]
    /\ pipe \in [Notifier -> Seq(Code)]
    /\ pool \in Seq(Notifier)
    /\ calling \subseteq Thread
    /\ adds \in [Thread -> 0..1]
    /\ outcome \in [Thread -> Code \cup {"none"}]

BatchInit ==
    /\ batch = [k \in Key |-> << >>]
    /\ age = [k \in Key |-> 0]
    /\ wake = 0
    /\ sending = [s \in Sender |-> NoJob]
    /\ notifier = [t \in Thread |-> NoNotifier]
    /\ pipe = [n \in Notifier |-> << >>]
    /\ pool = [n \in Notifier |-> n]     \* made when first needed
    /\ calling = {}
    /\ adds = [t \in Thread |-> 0]
    /\ outcome = [t \in Thread |-> "none"]

-----------------------------------------------------------------------------
\* Mutant: a batch is sent only when it is full.
ReadyFull(tasks, old) == Len(tasks) * 2 >= AddLimit

\* BatchTask::Ready.
Ready(tasks, old) ==
    /\ tasks # << >>
    /\ Len(tasks) * 2 >= AddLimit \/ old >= BatchDelay

\* The batches that a sender took are moved out.
Taken(b, keys) == [k \in Key |-> IF k \in keys THEN << >> ELSE b[k]]

\* BatchRawAdd up to Process or Wait: the task joins the batch under its mutex;
\* it gets a pipe before the batch can be taken.
BatchRawAdd(t, k) ==
    LET tasks == Append(batch[k], t) IN
    /\ t \notin calling
    /\ calling' = calling \cup {t}
    /\ IF Ready(tasks, age[k])
       THEN /\ sending' = [sending EXCEPT ![t].tasks = tasks]
            /\ batch' = Taken([batch EXCEPT ![k] = tasks], {k})
            /\ age' = [age EXCEPT ![k] = 0]
            /\ UNCHANGED <<notifier, pool>>
       ELSE /\ batch' = [batch EXCEPT ![k] = tasks]
            /\ notifier' = [notifier EXCEPT ![t] = Head(pool)]
            /\ pool' = Tail(pool)
            /\ UNCHANGED <<sending, age>>
    /\ UNCHANGED <<wake, pipe, adds, outcome>>

\* A tick of the daemon thread's event loop: batches that are ready go to the
\* idle routines as far as there are any; the next dispatch is when the first
\* of the others is due.  A routine that got its code notifies everybody and
\* is idle again before the loop goes on: they share the thread.
DispatchBatchTask ==
    LET keys == InOrder({k \in Key : Ready(batch[k], age[k])})
        idle == InOrder({r \in Routine : sending[r] = NoJob})
        n == Min({Len(keys), Len(idle)})
        due == {BatchDelay - age[k] : k \in {j \in Key : batch[j] # << >> /\ ~Ready(batch[j], age[j])}}
    IN  /\ wake = 0
        /\ \A r \in Routine : sending[r].code = "none"
        /\ wake' = IF due = {} THEN 0 ELSE Min(due)
        /\ sending' = [s \in Sender |->
              IF \E i \in 1..n : idle[i] = s
              THEN [NoJob EXCEPT !.tasks = batch[keys[CHOOSE i \in 1..n : idle[i] = s]]]
              ELSE sending[s]]
        /\ batch' = Taken(batch, {keys[i] : i \in 1..n})
        /\ age' = [k \in Key |-> IF batch'[k] = << >> THEN 0 ELSE age[k]]
        /\ UNCHANGED <<notifier, pipe, pool, calling, adds, outcome>>

\* BatchTask::Process: RawAdd with the items of all tasks returns.
RawAdd(s, code) ==
    /\ sending[s].tasks # << >> /\ sending[s].code = "none"
    /\ sending' = [sending EXCEPT ![s].code = code]
    /\ adds' = [t \in Thread |-> IF t \in Range(sending[s].tasks) THEN adds[t] + 1 ELSE adds[t]]
    /\ outcome' = [t \in Thread |-> IF t \in Range(sending[s].tasks) THEN code ELSE outcome[t]]
    /\ UNCHANGED <<batch, age, wake, notifier, pipe, pool, calling>>

\* Task::Notify, one task after the other; the sender's own has no pipe.
Notify(s) ==
    /\ sending[s].code # "none" /\ sending[s].tasks # << >>
    /\ LET t == Head(sending[s].tasks) IN
       pipe' = IF notifier[t] = NoNotifier THEN pipe
               ELSE [pipe EXCEPT ![notifier[t]] = Append(@, sending[s].code)]
    /\ sending' = [sending EXCEPT ![s].tasks = Tail(@)]
    /\ UNCHANGED <<batch, age, wake, notifier, pool, calling, adds, outcome>>

\* BatchRawAdd of a thread returns.
Return(t) ==
    /\ calling' = calling \ {t}
    /\ adds' = [u \in Thread |-> IF u = t THEN 0 ELSE adds[u]]
    /\ outcome' = [u \in Thread |-> IF u = t THEN "none" ELSE outcome[u]]

\* The sender is through: a thread returns, a routine is idle again.
Finish(s) ==
    /\ sending[s].code # "none" /\ sending[s].tasks = << >>
    /\ sending' = [sending EXCEPT ![s] = NoJob]
    /\ Return(s)
    /\ UNCHANGED <<batch, age, wake, notifier, pipe, pool>>

\* Mutant: the pipe goes back before the code was read.
PipeAfterPut(n) == pipe[n]

\* Notifier::Wait takes the code out of the pipe.
PipeAfterWait(n) == Tail(pipe[n])

\* Task::Wait: a code is in the pipe, which goes back to the pool.
Wait(t) ==
    /\ notifier[t] # NoNotifier /\ pipe[notifier[t]] # << >>
    /\ pipe' = [pipe EXCEPT ![notifier[t]] = PipeAfterWait(notifier[t])]
    /\ pool' = Append(pool, notifier[t])
    /\ notifier' = [notifier EXCEPT ![t] = NoNotifier]
    /\ Return(t)
    /\ UNCHANGED <<batch, age, wake, sending>>

\* The daemon thread has something to do at once.
DaemonBusy ==
    \/ \E r \in Routine : sending[r].code # "none"
    \/ /\ wake = 0
       /\ \E k \in Key : Ready(batch[k], age[k])
       /\ \E r \in Routine : sending[r] = NoJob

\* The clock, in units of the batch delay: the event loop turns every
\* millisecond, so time does not go on over what the daemon thread can do.
BatchTick ==
    /\ ~DaemonBusy
    /\ age' = [k \in Key |-> IF batch[k] = << >> THEN 0 ELSE Min({age[k] + 1, BatchDelay})]
    /\ wake' = IF wake = 0 THEN 0 ELSE wake - 1
    /\ <<age, wake>>' # <<age, wake>>
    /\ UNCHANGED <<batch, sending, notifier, pipe, pool, calling, adds, outcome>>

SenderStep(s) == (\E code \in Code : RawAdd(s, code)) \/ Notify(s) \/ Finish(s)

BatchNext ==
    \/ \E t \in Thread : (\E k \in Key : BatchRawAdd(t, k)) \/ Wait(t)
    \/ \E s \in Sender : SenderStep(s)
    \/ DispatchBatchTask
    \/ BatchTick

BatchSpec == BatchInit /\ [][BatchNext]_batchVars

-----------------------------------------------------------------------------
\* The code that BatchRawAdd of the thread is about to return.
Answer(t) ==
    IF notifier[t] # NoNotifier /\ pipe[notifier[t]] # << >> THEN Head(pipe[notifier[t]])
    ELSE sending[t].code

\* A request is sent exactly once, before BatchRawAdd returns and not again by
\* the daemon thread while or after it does; and what BatchRawAdd returns is the
\* code its own request was sent with, although tasks share a batch and pipes
\* are used again.
SentOnceWithOwnCode ==
    \A t \in Thread :
        /\ adds[t] <= (IF t \in calling THEN 1 ELSE 0)
        /\ Answer(t) # "none" => adds[t] = 1 /\ Answer(t) = outcome[t]

\* Where the task of a thread is: in the batch of a key, or with a sender.
InBatch(t, k) == Contains(batch[k], t)
InJob(t, s) == Contains(sending[s].tasks, t)

\* No task is in two places, nor twice in one.
TasksAreOnce ==
    /\ \A k \in Key : IsInjective(batch[k])
    /\ \A s \in Sender : IsInjective(sending[s].tasks)
    /\ \A t \in Thread :
         /\ \A j, k \in Key : InBatch(t, j) /\ InBatch(t, k) => j = k
         /\ \A r, s \in Sender : InJob(t, r) /\ InJob(t, s) => r = s
         /\ \A k \in Key, s \in Sender : ~(InBatch(t, k) /\ InJob(t, s))

\* A pipe is in the pool, and empty, or one thread's.
PipesAreOwn ==
    /\ IsInjective(pool)
    /\ \A n \in Notifier :
         /\ Contains(pool, n) => pipe[n] = << >>
         /\ Contains(pool, n) \/ \E t \in Thread : notifier[t] = n
    /\ \A t \in Thread : notifier[t] # NoNotifier =>
         /\ ~Contains(pool, notifier[t])
         /\ \A u \in Thread : notifier[u] = notifier[t] => u = t

\* What is known of a thread by the place of its task and by its pipe.
Known(t) ==
    /\ t \notin calling => notifier[t] = NoNotifier /\ adds[t] = 0 /\ sending[t] = NoJob
    /\ \A k \in Key : InBatch(t, k) =>
         /\ t \in calling /\ adds[t] = 0
         /\ notifier[t] # NoNotifier /\ pipe[notifier[t]] = << >>
    /\ \A s \in Sender : InJob(t, s) =>
         /\ t \in calling
         /\ IF notifier[t] = NoNotifier THEN s = t ELSE pipe[notifier[t]] = << >>
         /\ IF sending[s].code = "none" THEN adds[t] = 0
            ELSE adds[t] = 1 /\ outcome[t] = sending[s].code
    /\ notifier[t] # NoNotifier =>
         /\ sending[t] = NoJob
         /\ pipe[notifier[t]] # << >> =>
              pipe[notifier[t]] = <<outcome[t]>> /\ adds[t] = 1 /\ outcome[t] # "none"
    /\ sending[t].tasks # << >> /\ sending[t].code = "none" => InJob(t, t)
    /\ sending[t].code # "none" => adds[t] = 1 /\ outcome[t] = sending[t].code

ThreadsAreKnown == \A t \in Thread : Known(t)

\* The inductive invariant behind SentOnceWithOwnCode.
BatchInv == BatchTypeOK /\ TasksAreOnce /\ PipesAreOwn /\ ThreadsAreKnown

\* Every call returns: a batch that does not fill up is sent when it is due.
CallsReturn == \A t \in Thread : [](t \in calling => <>(t \notin calling))
=============================================================================
