------------------------------ MODULE FreqMan ------------------------------
(***************************************************************************)
(* The frequency limits of a consumer: FreqMan::Run is a process of its    *)
(* own that turns what the consumer processes handled in the last round    *)
(* into a limit for each, and clears the statistics; Consumer::Process     *)
(* asks Judge before every Get and counts after every Consume.  Limits and *)
(* statistics are plain integers in shared memory, without a lock.         *)
(***************************************************************************)
EXTENDS Integers, Sequences, FiniteSets, FiniteSetsExt, Ordered

CONSTANTS
    NWorker,      \* nprocs
    NFreqQueue,   \* queues
    FirstQueues,  \* the queue each worker begins with, 0 for none
    FreqInfos,    \* sequence of [queues, handle, limit, key]: what matches a
                  \* freq_info, its handle_id (0 for all), the limit in
                  \* limit_per_min scaled to a round, and the pub, consumer
                  \* group and queue_info_id
    GetLimit,     \* batch_limit
    RoundTime,    \* ticks of a round
    QuotaCap,     \* 1e7: what a quota accrues at most
    MaxIdle,      \* bound of the model: ticks a quota accrues for
    MaxTot,       \* bound of the model on nhandle_tot
    MaxMoves      \* bound of the model: changes of the distribution

FreqWorker == 1..NWorker

ASSUME FreqAssumption ==
    /\ NWorker \in Nat \ {0} /\ NFreqQueue \in Nat
    /\ FirstQueues \in [FreqWorker -> 0..NFreqQueue]
    /\ FreqInfos \in Seq([queues : SUBSET (1..NFreqQueue), handle : Nat, limit : Nat, key : Nat])
    /\ GetLimit \in Nat /\ RoundTime \in Nat \ {0} /\ QuotaCap \in Nat
    /\ MaxIdle \in Nat /\ MaxTot \in Nat /\ MaxMoves \in Nat

VARIABLES
    stat,      \* consume_stats: [tot, own] (nhandle_tot, those of handle id 1)
    bound,     \* limit_infos: [limit, refill, interval], limit 0 for none
    owned,     \* GetQueuesDistribute: the queue of each worker, 0 for none
    quota,     \* freq_quota, rounded down
    idle,      \* ticks since last_fill_time, -1 when that is 0
    at,        \* "loop", or the batch at hand: "count", "write"
    inHand,    \* the batch that was handled: [tot, own], skipped items left out
    reg,       \* the statistics that UpdateConsumeStat read
    clearing,  \* 0, or the next worker whose statistics Run clears
    since,     \* items handled since the statistics were cleared
    moves

freqVars == <<stat, bound, owned, quota, idle, at, inHand, reg, clearing,
              since, moves>>

Counts == {c \in [tot : Nat, own : Nat] : c.own <= c.tot}
NoStat == [tot |-> 0, own |-> 0]
NoBound == [limit |-> 0, refill |-> 0, interval |-> 0]

FreqTypeOK ==
    /\ \A p \in FreqWorker :
         /\ stat[p].tot \in Nat /\ stat[p].own \in 0..stat[p].tot
         /\ bound[p] = NoBound \/ (bound[p].limit > 0 /\ bound[p].refill > 0 /\ bound[p].interval > 0)
         /\ owned[p] \in 0..NFreqQueue
         /\ quota[p] >= -GetLimit
         /\ at[p] \in {"loop", "count", "write"}
    /\ clearing \in 0..NWorker

FreqInit ==
    /\ stat = [p \in FreqWorker |-> NoStat]
    /\ bound = [p \in FreqWorker |-> NoBound]
    /\ owned = FirstQueues
    /\ quota = [p \in FreqWorker |-> 0]
    /\ idle = [p \in FreqWorker |-> -1]
    /\ at = [p \in FreqWorker |-> "loop"]
    /\ inHand = [p \in FreqWorker |-> NoStat] /\ reg = [p \in FreqWorker |-> NoStat]
    /\ clearing = 0
    /\ since = [p \in FreqWorker |-> 0]
    /\ moves = 0

-----------------------------------------------------------------------------
\* Of a worker, what it handled of a freq_info's handle id.  For all handle ids
\* the code reads the array at -1, where nhandle_tot lies.
HandledOf(info, p) == IF info.handle = 0 THEN stat[p].tot ELSE stat[p].own

MatchedBy(info) == {p \in FreqWorker : owned[p] \in info.queues}

AtLeastOne(n) == IF n = 0 THEN 1 ELSE n

\* The sum of a number per worker over those that a freq_info matches.
SumMatched(info, f) ==
    SumUpTo(NWorker, [p \in FreqWorker |-> IF p \in MatchedBy(info) THEN f[p] ELSE 0])

\* proc_used, nhandle_tot and nhandle of a freq_info.
TotalsOf(info) ==
    [used |-> Cardinality(MatchedBy(info)),
     tot |-> AtLeastOne(SumMatched(info, [p \in FreqWorker |-> stat[p].tot])),
     nhandle |-> AtLeastOne(SumMatched(info, [p \in FreqWorker |-> HandledOf(info, p)]))]

\* The limit of a worker that handled own.  limit_per_proc is limit / |queues|,
\* handle_rate is nhandle / tot, prop is own / (nhandle / used) but at least
\* 1/10, and 1 when the worker handled none.
BoundOf(info, t, own) ==
    LET small == own > 0 /\ 10 * own * t.used < t.nhandle
        propNum == IF own = 0 \/ small THEN 1 ELSE own * t.used
        propDen == IF own = 0 THEN 1 ELSE IF small THEN 10 ELSE t.nhandle
        \* nhandle_limit is share / den
        share == info.limit * t.tot
        den == Cardinality(info.queues) * t.nhandle
        interval == (RoundTime * den) \div share
    IN  [limit |-> AtLeastOne((share * propNum) \div (den * propDen)),
         refill |-> IF interval = 0 THEN share \div (RoundTime * den) ELSE 1,
         interval |-> AtLeastOne((AtLeastOne(interval) * propDen) \div propNum)]

\* The freq_infos that set limits: the loop goes on when one before it with the
\* same key had the higher handled_pct_per_proc.
Applied(totals) ==
    {i \in DOMAIN FreqInfos :
       /\ FreqInfos[i].limit > 0 /\ totals[i].used > 0
       /\ \A j \in 1..(i - 1) : FreqInfos[j].key = FreqInfos[i].key =>
            totals[i].nhandle * FreqInfos[j].limit >= totals[j].nhandle * FreqInfos[i].limit}

\* UpdateLimitInfo: the last freq_info that matches a worker sets its limit.
UpdateLimitInfo ==
    /\ clearing = 0 /\ clearing' = 1
    /\ \E totals \in {[i \in DOMAIN FreqInfos |-> TotalsOf(FreqInfos[i])]} :
       \E applied \in {Applied(totals)} :
         bound' = [p \in FreqWorker |->
           LET mine == {i \in applied : p \in MatchedBy(FreqInfos[i])}
               last == FreqInfos[Max(mine)]
           IN  IF mine = {} THEN NoBound
               ELSE BoundOf(last, totals[Max(mine)], HandledOf(last, p))]
    /\ UNCHANGED <<stat, owned, quota, idle, at, inHand, reg, since, moves>>

\* Mutant: the last process is left out.
NextButLast(p) == IF p + 1 < NWorker THEN p + 1 ELSE 0

\* Mutant: one process too many.
NextEvenAfter(p) == p + 1

NextToClear(p) == IF p < NWorker THEN p + 1 ELSE 0

\* ClearAllConsumeStat, one process after the other.
ClearConsumeStat ==
    /\ clearing # 0
    /\ stat' = [stat EXCEPT ![clearing] = NoStat]
    /\ since' = [since EXCEPT ![clearing] = 0]
    /\ clearing' = NextToClear(clearing)
    /\ UNCHANGED <<bound, owned, quota, idle, at, inHand, reg, moves>>

-----------------------------------------------------------------------------
\* The refill of the quota in Process, when limited.
Refilled(p) ==
    Min({QuotaCap,
         IF idle[p] = -1 THEN bound[p].refill
         ELSE IF idle[p] >= bound[p].interval
         THEN quota[p] + (idle[p] * bound[p].refill) \div bound[p].interval
         ELSE quota[p]})

\* Judge: need_block.
Blocked(p) == bound[p].limit # 0 /\ stat[p].tot > bound[p].limit

Block(p) ==
    /\ at[p] = "loop" /\ owned[p] # 0 /\ Blocked(p)
    /\ quota' = [quota EXCEPT ![p] = IF @ > 0 THEN bound[p].refill ELSE @]
    /\ idle' = [idle EXCEPT ![p] = 0]
    /\ UNCHANGED <<stat, bound, owned, at, inHand, reg, clearing, since, moves>>

\* The limit of the next Get.
NextLimit(p) ==
    IF bound[p].limit = 0 THEN GetLimit
    ELSE Max({0, Min({GetLimit, Refilled(p)})})

\* A turn of Process that gets items, up to its quota, and handles them.
GetAndConsume(p, items, batch) ==
    /\ at[p] = "loop" /\ owned[p] # 0 /\ ~Blocked(p)
    /\ stat[p].tot < MaxTot
    /\ items <= NextLimit(p) /\ batch.tot <= items
    /\ IF bound[p].limit = 0
       THEN /\ quota' = [quota EXCEPT ![p] = -items]
            /\ idle' = [idle EXCEPT ![p] = -1]
       ELSE /\ quota' = [quota EXCEPT ![p] = Refilled(p) - items]
            /\ idle' = [idle EXCEPT ![p] = IF @ = -1 \/ @ >= bound[p].interval THEN 0 ELSE @]
    /\ at' = [at EXCEPT ![p] = IF items > 0 THEN "count" ELSE "loop"]
    /\ inHand' = [inHand EXCEPT ![p] = batch]
    /\ UNCHANGED <<stat, bound, owned, reg, clearing, since, moves>>

\* UpdateConsumeStat reads the statistics.  The first time after the topic
\* config changed it clears them.
ReadStat(p, cleared) ==
    /\ at[p] = "count" /\ at' = [at EXCEPT ![p] = "write"]
    /\ IF cleared THEN /\ moves < MaxMoves /\ moves' = moves + 1
                       /\ reg' = [reg EXCEPT ![p] = NoStat]
                       /\ since' = [since EXCEPT ![p] = 0]
       ELSE reg' = [reg EXCEPT ![p] = stat[p]] /\ UNCHANGED <<moves, since>>
    /\ UNCHANGED <<stat, bound, owned, quota, idle, inHand, clearing>>

\* Mutant: only the latest batch.
CountLatest(old, batch) == batch

Counted(old, batch) == [tot |-> old.tot + batch.tot, own |-> old.own + batch.own]

\* ... and writes them, over what Run may have cleared meanwhile.
WriteStat(p) ==
    /\ at[p] = "write" /\ at' = [at EXCEPT ![p] = "loop"]
    /\ stat' = [stat EXCEPT ![p] = Counted(reg[p], inHand[p])]
    /\ since' = [since EXCEPT ![p] = @ + inHand[p].tot]
    /\ inHand' = [inHand EXCEPT ![p] = NoStat] /\ reg' = [reg EXCEPT ![p] = NoStat]
    /\ UNCHANGED <<bound, owned, quota, idle, clearing, moves>>

\* HeartBeatLock::Sync gives a worker another queue, or none.
Redistribute(p, q) ==
    /\ moves < MaxMoves /\ moves' = moves + 1
    /\ q # owned[p] /\ owned' = [owned EXCEPT ![p] = q]
    /\ UNCHANGED <<stat, bound, quota, idle, at, inHand, reg, clearing, since>>

FreqTick ==
    /\ idle' = [p \in FreqWorker |-> IF idle[p] \in {-1, MaxIdle} THEN idle[p] ELSE idle[p] + 1]
    /\ UNCHANGED <<stat, bound, owned, quota, at, inHand, reg, clearing, since, moves>>

Batches == [tot : 0..GetLimit, own : 0..GetLimit]

WorkerTurn(p) ==
    \/ Block(p)
    \/ \E items \in 0..GetLimit, batch \in {b \in Batches : b.own <= b.tot} :
         GetAndConsume(p, items, batch)
    \/ \E cleared \in BOOLEAN : ReadStat(p, cleared)
    \/ WriteStat(p)

FreqRound == UpdateLimitInfo \/ ClearConsumeStat

FreqNext ==
    \/ \E p \in FreqWorker : \/ WorkerTurn(p)
                             \/ \E q \in 0..NFreqQueue : Redistribute(p, q)
    \/ FreqRound
    \/ FreqTick

FreqSpec == FreqInit /\ [][FreqNext]_freqVars

-----------------------------------------------------------------------------
\* A worker gets no further batch once it handled more than the limit that
\* Judge reads, although its counter is cleared by another process without a
\* lock and the clearing can be lost (Judge, UpdateConsumeStat).
HandledWithinLimit ==
    [][\A p \in FreqWorker :
         at[p] = "loop" /\ at'[p] = "count" /\ bound[p].limit # 0
           => since[p] <= bound[p].limit]_freqVars

\* What a worker handled since its statistics were cleared is in them, or in
\* what UpdateConsumeStat has read of them; the statistics may say more, when a
\* clearing was lost, but never less.
CountsCoverHandled ==
    \A p \in FreqWorker :
        since[p] <= (IF at[p] = "write" THEN reg[p] ELSE stat[p]).tot

\* The inductive invariant.
FreqInv ==
    /\ FreqTypeOK
    /\ CountsCoverHandled
    /\ stat \in [FreqWorker -> Counts] /\ reg \in [FreqWorker -> Counts]
    /\ inHand \in [FreqWorker -> Counts]
    /\ bound \in [FreqWorker -> [limit : Nat, refill : Nat, interval : Nat]]
    /\ owned \in [FreqWorker -> 0..NFreqQueue]
    /\ quota \in [FreqWorker -> Int] /\ idle \in [FreqWorker -> Nat \cup {-1}]
    /\ at \in [FreqWorker -> {"loop", "count", "write"}]
    /\ since \in [FreqWorker -> Nat] /\ moves \in Nat

\* A worker may get items again and again, however it was limited: a limit is
\* at least 1, the quota is refilled, and a counter is cleared in the end even
\* if one clearing is lost (Process, ClearAllConsumeStat).
LimitedGoesOn ==
    \A p \in FreqWorker : []<>(at[p] # "loop" \/ (~Blocked(p) /\ NextLimit(p) > 0))
=============================================================================
