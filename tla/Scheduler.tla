----------------------------- MODULE Scheduler -----------------------------
(***************************************************************************)
(* The scheduler of a topic together with the consumer hosts it balances:  *)
(* SchedulerMgr answers GetAddrScale of the hosts' sync processes, and its *)
(* load balance thread turns their reports into scales.                    *)
(*                                                                         *)
(* Time: a host syncs every scheduler_get_scale_interval_s (10 s), is dead *)
(* after scheduler_hash_keep_time_s (20 s) without a report, and the load  *)
(* balance thread sleeps scheduler_load_balance_interval_s (60 s).  So     *)
(* every host tries to sync while that thread sleeps, and a report is old  *)
(* when the thread has slept once more.                                    *)
(***************************************************************************)
EXTENDS QueueShare, Integers

CONSTANTS
    Loads,              \* the loads that can be reported (mean of the latest)
    MaxLoad, MaxMeanLoadPercent, MaxInitWeightPercent,   \* scheduler_max_...
    LoadSticky, WeightSticky,                            \* scheduler_..._sticky
    MaxFaults           \* bound of the model: what goes wrong, and new configs

ASSUME SchedAssumption ==
    /\ Loads \subseteq Nat /\ MaxLoad \in Nat /\ MaxMeanLoadPercent \in Nat
    /\ MaxInitWeightPercent \in Nat /\ LoadSticky \in Nat /\ WeightSticky \in Nat
    /\ MaxFaults \in Nat
    /\ \A c \in DOMAIN Confs : \A h \in DOMAIN Confs[c].scale :
         (Confs[c].scale[h] * MaxInitWeightPercent) \div 100 <= Len(HostPoint[h])

VARIABLES
    useInit,    \* scheduler_use_init_weight
    mastering,  \* IsMaster
    warm,       \* Mode::Dynamic: three sync intervals passed since the start
    info,       \* consumer_addr2info_map
    seenConf,   \* conf_last_mod_time of the topic data
    report,     \* per host since the thread last slept: "none", "fresh" (it
                \* reported less than the keep time ago), "old" (tried, not fresh)
    lb,         \* the load balance thread: "start" (before its first round, for
                \* which it does not sleep), "sleep", "live" or "adjust"
    dying,      \* hosts that UpdateLive found to be dead, or alive again
    waking,
    modified,   \* consumer_conf_modified or live_modified
    faults,     \* faults so far
    suspect     \* hosts that were down, unlisted or not answered at some time

schedVars == <<shareVars, useInit, mastering, warm, info, seenConf, report, lb,
               dying, waking, modified, faults, suspect>>
round == <<lb, dying, waking, modified>>
fixed == <<useInit, warm, seenConf>>

Info == [weight : Nat, init : Nat, live : BOOLEAN, sticky : Nat]

SchedTypeOK ==
    /\ ShareTypeOK
    /\ useInit \in BOOLEAN /\ mastering \in BOOLEAN /\ warm \in BOOLEAN
    /\ modified \in BOOLEAN
    /\ DOMAIN info \subseteq Host /\ \A h \in DOMAIN info : info[h] \in Info
    /\ seenConf \in 0..Len(Confs)
    /\ report \in [Host -> {"none", "fresh", "old"}]
    /\ lb \in {"start", "sleep", "live", "adjust"}
    /\ dying \subseteq Host /\ waking \subseteq Host
    /\ faults \in 0..MaxFaults
    /\ suspect \subseteq Host

\* A consumer that the config brings in: weight and init_weight are its scale.
NewInfo(scale) == [weight |-> scale, init |-> scale, live |-> FALSE, sticky |-> 0]

\* ReloadConsumerConfig: add, remove, and update the init weights.
Reloaded(infos) ==
    [h \in Listed |-> IF h \in DOMAIN infos
                      THEN [infos[h] EXCEPT !.init = Confs[conf].scale[h]]
                      ELSE NewInfo(Confs[conf].scale[h])]

\* The process starts: Init calls LoadBalance once, in Mode::Static.
SchedInit ==
    /\ ShareInit
    /\ useInit \in BOOLEAN
    /\ mastering = TRUE
    /\ warm = FALSE
    /\ info = Reloaded(<< >>)
    /\ seenConf = 1
    /\ report = [h \in Host |-> "none"]
    /\ lb = "start" /\ dying = {} /\ waking = {} /\ modified = FALSE
    /\ faults = 0
    /\ suspect = Host \ Listed

-----------------------------------------------------------------------------
\* BuildTopicScaleResponse.
Response == [h \in DOMAIN info |-> info[h].weight]

\* sticky_load follows the mean of the loads when it moved enough.
StickyAfter(old, new) ==
    IF LoadSticky < new - old \/ LoadSticky < old - new \/ old <= 0 THEN new ELSE old

\* GetAddrScale of a host that is found: its load and the time are recorded,
\* and the host applies the scales it is answered.
GetAddrScale(h, load) ==
    /\ h \in up
    /\ GroupsOf(h) \cap Dynamic # {}
    /\ mastering
    /\ h \in DOMAIN info
    /\ info' = [info EXCEPT ![h].sticky = StickyAfter(@, load)]
    /\ report' = [report EXCEPT ![h] = "fresh"]
    /\ ApplySync(h, Response)
    /\ UNCHANGED <<conf, up, fixed, mastering, round, faults, suspect>>

\* The request is lost, or answered NOT_MASTER or RANGE_CONSUMER.
GetAddrScaleFails(h) ==
    /\ h \in up
    /\ GroupsOf(h) \cap Dynamic # {}
    /\ IF mastering /\ h \in DOMAIN info
       THEN faults < MaxFaults /\ faults' = faults + 1
       ELSE UNCHANGED faults
    /\ report' \in {[report EXCEPT ![h] = "old"],
                    [report EXCEPT ![h] = IF @ = "none" THEN "old" ELSE @]}
    /\ suspect' = suspect \cup {h}
    /\ SyncUnanswered(h)
    /\ UNCHANGED <<conf, up, fixed, mastering, info, round>>

\* A host without dynamic groups asks nobody; one that is not listed fails.
SyncAlone(h) ==
    /\ h \in up
    /\ GroupsOf(h) \cap Dynamic = {}
    /\ report' = [report EXCEPT ![h] = "old"]
    /\ suspect' = suspect \cup {h}
    /\ IF h \in Listed THEN ApplySync(h, NoScales)
                       ELSE UNCHANGED <<slots, scaleSeen, confSeen>>
    /\ UNCHANGED <<conf, up, fixed, mastering, info, round, faults>>

\* The keep time passed since the last report of a host that is down.
ReportAges(h) ==
    /\ h \notin up
    /\ report[h] = "fresh"
    /\ report' = [report EXCEPT ![h] = "old"]
    /\ UNCHANGED <<shareVars, fixed, mastering, info, round, faults, suspect>>

-----------------------------------------------------------------------------
\* Every running host tried to sync since the thread last slept.
AllTried == \A h \in up : report[h] # "none"

\* Mutant: no waiting for the reports of the consumers.
ReadyAtOnce == TRUE

\* GetMode: the topic data is older than three sync intervals.
ReadyForDynamic == AllTried

WarmUp ==
    /\ ~warm /\ ReadyForDynamic
    /\ warm' = TRUE
    /\ UNCHANGED <<shareVars, useInit, seenConf, mastering, info, report, round, faults, suspect>>

\* The thread wakes up as the master: it reloads the config and, in dynamic
\* mode, UpdateLive compares the times of the latest reports with the clock.
WakeLoadBalance ==
    /\ lb \in {"start", "sleep"} /\ mastering
    /\ lb = "sleep" => AllTried
    /\ info' = IF conf # seenConf THEN Reloaded(info) ELSE info
    /\ seenConf' = conf
    /\ report' = [h \in Host |-> IF h \in DOMAIN info' \ DOMAIN info THEN "old" ELSE report[h]]
    /\ IF warm
       THEN /\ lb' = "live"
            /\ dying' = {h \in DOMAIN info' : info'[h].live /\ report'[h] # "fresh"}
            /\ waking' = {h \in DOMAIN info' : ~info'[h].live /\ report'[h] = "fresh"}
            /\ modified' = (conf # seenConf)
       ELSE lb' = "sleep" /\ UNCHANGED <<dying, waking, modified>>
    /\ UNCHANGED <<shareVars, useInit, warm, mastering, faults, suspect>>

\* ConsumerInfo::Reset, and live is false.
Dead(c) == [weight |-> 0, init |-> c.init, live |-> FALSE, sticky |-> 0]

\* UpdateLive sets what it decided; reports may have come in since.
UpdateLive ==
    /\ lb = "live"
    /\ info' = [h \in DOMAIN info |-> IF h \in dying THEN Dead(info[h])
                                      ELSE [info[h] EXCEPT !.live = @ \/ h \in waking]]
    /\ lb' = "adjust"
    /\ modified' = (modified \/ dying \cup waking # {})
    /\ dying' = {} /\ waking' = {}
    /\ UNCHANGED <<shareVars, fixed, mastering, report, faults, suspect>>

Live == {h \in DOMAIN info : info[h].live}

\* The sum of a number per host, as the loops over the consumers make it.
SumOver(f) == SumUpTo(NHost, f)

SumLoad == SumOver([h \in Host |-> IF h \in Live THEN info[h].sticky ELSE 0])
MeanLoad == SumLoad \div Cardinality(Live)

Imbalanced(h) ==
    /\ MaxLoad < info[h].sticky
    /\ MeanLoad * MaxMeanLoadPercent < 100 * info[h].sticky

\* CheckImbalance counts the balanced consumers and compares their number with
\* nr_live, which stays 0.
Balanced == {h \in Live : ~Imbalanced(h)} = {}

NextConsumerWeight(h) ==
    LET cap == (info[h].init * MaxInitWeightPercent) \div 100 IN
    IF info[h].sticky <= 0 THEN 0
    ELSE Min({cap, (info[h].init * MeanLoad) \div info[h].sticky})

\* Mutant: the weights of dead consumers are not taken away.
PreviewAll(h) == IF useInit THEN info[h].init ELSE NextConsumerWeight(h)

\* The weight AdjustScale would give to a consumer.
Preview(h) ==
    IF ~info[h].live THEN 0
    ELSE IF useInit THEN info[h].init
    ELSE NextConsumerWeight(h)

Diff(h) ==
    IF Preview(h) > info[h].weight THEN Preview(h) - info[h].weight
                                   ELSE info[h].weight - Preview(h)
SumDiff == SumOver([h \in Host |-> IF h \in DOMAIN info THEN Diff(h) ELSE 0])

\* GetMeanLoad, CheckImbalance and AdjustScale.  Without a live consumer or
\* without any load the round ends, and with it what UpdateLive noted.
AdjustScale ==
    /\ lb = "adjust"
    /\ info' = IF /\ Live # {} /\ SumLoad > 0
                  /\ \/ modified
                     \/ ~Balanced /\ Cardinality(DOMAIN info) * WeightSticky < SumDiff
               THEN [h \in DOMAIN info |-> [info[h] EXCEPT !.weight = Preview(h)]]
               ELSE info
    /\ lb' = "sleep" /\ modified' = FALSE
    /\ report' = [h \in Host |-> "none"]
    /\ UNCHANGED <<shareVars, fixed, mastering, dying, waking, faults, suspect>>

-----------------------------------------------------------------------------
Fault == faults < MaxFaults /\ faults' = faults + 1

\* A host stops; the model keeps one of the listed hosts running.
HostDown(h) ==
    /\ h \in up /\ (up \ {h}) \cap Listed # {}
    /\ Fault
    /\ up' = up \ {h}
    /\ suspect' = suspect \cup {h}
    /\ SyncStarts(h)
    /\ UNCHANGED <<conf, slots, fixed, mastering, info, report, round>>

HostUp(h) ==
    /\ h \notin up
    /\ up' = up \cup {h}
    /\ UNCHANGED <<conf, slots, scaleSeen, confSeen, fixed, mastering, info, report, round,
                   faults, suspect>>

NewConfig ==
    /\ conf < Len(Confs)
    /\ up \cap DOMAIN Confs[conf + 1].scale # {}
    /\ conf' = conf + 1
    /\ suspect' = suspect \cup (Host \ DOMAIN Confs[conf + 1].scale)
    /\ UNCHANGED <<up, slots, scaleSeen, confSeen, fixed, mastering, info, report, round, faults>>

\* The lease runs out, and is acquired again.
LoseMaster ==
    /\ mastering /\ lb \in {"start", "sleep"}
    /\ Fault
    /\ mastering' = FALSE
    /\ suspect' = Host
    /\ UNCHANGED <<shareVars, fixed, info, report, round>>

TakeMaster ==
    /\ ~mastering
    /\ mastering' = TRUE
    /\ UNCHANGED <<shareVars, fixed, info, report, round, faults, suspect>>

\* The scheduler is killed and started again.
RestartSched ==
    /\ warm
    /\ Fault
    /\ warm' = FALSE
    /\ info' = Reloaded(<< >>)
    /\ seenConf' = conf
    /\ report' = [h \in Host |-> "none"]
    /\ lb' = "start" /\ dying' = {} /\ waking' = {} /\ modified' = FALSE
    /\ UNCHANGED <<shareVars, useInit, mastering, suspect>>

HostSync(h) == (\E load \in Loads : GetAddrScale(h, load)) \/ GetAddrScaleFails(h) \/ SyncAlone(h)
LoadBalanceStep == WarmUp \/ WakeLoadBalance \/ UpdateLive \/ AdjustScale

SchedNext ==
    \/ \E h \in Host : HostSync(h) \/ ReportAges(h) \/ HostDown(h) \/ HostUp(h)
    \/ LoadBalanceStep \/ NewConfig \/ LoseMaster \/ TakeMaster \/ RestartSched

\* The sync processes and the load balance thread run for ever, the clock goes
\* on, and some scheduler is the master again; hosts may stay down.
SchedFairness ==
    /\ \A h \in Host : WF_schedVars(HostSync(h)) /\ WF_schedVars(ReportAges(h))
    /\ WF_schedVars(LoadBalanceStep)
    /\ WF_schedVars(TakeMaster)

SchedSpec == SchedInit /\ [][SchedNext]_schedVars /\ SchedFairness

-----------------------------------------------------------------------------
\* A host that was never down and whose requests were all answered keeps a
\* positive scale while the others come and go and the scheduler restarts
\* (UpdateLive, GetMode).
OthersKeepWeight ==
    \A h \in DOMAIN info \ suspect : info[h].init > 0 => info[h].weight > 0

\* Every scale that is answered, or that the next rounds can make of what is
\* known of a host, is one the host has virtual nodes for.
WeightsFit ==
    \A h \in DOMAIN info :
        /\ info[h].weight <= Len(HostPoint[h])
        /\ info[h].init <= Len(HostPoint[h])
        /\ (info[h].init * MaxInitWeightPercent) \div 100 <= Len(HostPoint[h])

\* What every step of the scheduler and of the hosts preserves.
SchedInv ==
    /\ SchedTypeOK
    /\ WeightsFit
    /\ SlotsAreDistinct
    /\ SlotsArePending

\* The configs and loads with which no positive weight is rounded down to 0
\* (AdjustScale divides integers): a host's scale is positive in all configs
\* that list it or in none, and is large enough for its cap and for its share
\* by any two loads.
WeightsSuffice ==
    /\ 0 \notin Loads
    /\ \A c, d \in DOMAIN Confs :
       \A h \in DOMAIN Confs[c].scale \cap DOMAIN Confs[d].scale :
         Confs[c].scale[h] > 0 =>
           /\ Confs[d].scale[h] > 0
           /\ Confs[c].scale[h] * MaxInitWeightPercent >= 100
           /\ \A k, l \in Loads : l <= Confs[c].scale[h] * k

\* What is known of the listed hosts comes from the config that was read last.
InfoIsOfSeenConf ==
    /\ seenConf \in DOMAIN Confs
    /\ DOMAIN info = DOMAIN Confs[seenConf].scale
    /\ \A h \in DOMAIN info : info[h].init = Confs[seenConf].scale[h]

\* A host that is live, or about to be, has reported a load.
MayBeLive(h) ==
    \/ info[h].live
    \/ lb \in {"start", "sleep"} /\ report[h] = "fresh"
    \/ h \in waking

LiveHaveLoads ==
    /\ \A h \in DOMAIN info : info[h].sticky \in (IF MayBeLive(h) THEN Loads ELSE Loads \cup {0})
    /\ waking \cap dying = {}
    /\ waking # {} => lb = "live"

\* A host that was always answered is never taken for dead: a thread that
\* compares reports with the clock finds a fresh one.
AnsweredStayLive ==
    \A h \in Host \ suspect :
        /\ h \in up /\ h \in Listed /\ h \in DOMAIN info
        /\ h \notin dying /\ report[h] # "old"
        /\ lb = "start" /\ warm => report[h] = "fresh"
        /\ lb = "live" => info[h].live \/ h \in waking
        /\ lb = "adjust" => info[h].live

WeightInv == InfoIsOfSeenConf /\ LiveHaveLoads /\ AnsweredStayLive /\ OthersKeepWeight

Served(g, q) == \E h \in up, v \in Vpid : slots[h][v] = <<g, q>>

\* When nothing goes wrong any more, every queue ends up in a slot of a
\* running host, whichever hosts died, came back or were not answered.
EveryQueueIsServed == <>[](\A g \in Group : \A q \in QueuesOf[g] : Served(g, q))
=============================================================================
