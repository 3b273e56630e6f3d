----------------------------- MODULE MCServices -----------------------------
(* Small instances of the components that have to get on: what is promised   *)
(* in the end, under the fairness of their threads.  A behaviour is one of a *)
(* single component, named by part; the variables of the others do not       *)
(* change.                                                                   *)
EXTENDS Scheduler, BatchHelper, Dispatch, FreqMan, Placement, LockClean, ConfigLoad

CONSTANTS t1, t2, Parts

VARIABLE part

\* Two hosts with scale 2 share the two queues of a group; the third nodes of
\* both have the same hash.
TwoQueues == << {1, 2} >>
HostPoints == << <<10, 40, 60, 75>>, <<20, 30, 60, 85>> >>
QueuePoints == << <<15, 90>> >>
Conf(hosts) == [scale |-> [h \in hosts |-> 2], groups |-> [h \in hosts |-> {1}]]
OneConf == << Conf({1, 2}) >>
HostLeaves == << Conf({1, 2}), Conf({1}) >>

\* A limit for all handlers and one for one of them, on the same queues.
Freq(handle, limit) == [queues |-> {1, 2}, handle |-> handle, limit |-> limit, key |-> 1]
TwoFreqInfos == <<Freq(0, 2), Freq(1, 1)>>
SecondWorks == <<0, 1>>

ServicesInit ==
    /\ part \in Parts
    /\ SchedInit /\ BatchInit /\ DispatchInit /\ FreqInit /\ PlacementInit /\ CleanInit /\ ConfigInit
    /\ part # "sched" => useInit
    /\ part # "placement" => group = 0

Only(p) ==
    /\ part = p /\ UNCHANGED part
    /\ p # "sched" => UNCHANGED schedVars
    /\ p # "batch" => UNCHANGED batchVars
    /\ p # "dispatch" => UNCHANGED dispatchVars
    /\ p # "freq" => UNCHANGED freqVars
    /\ p # "placement" => UNCHANGED placementVars
    /\ p # "clean" => UNCHANGED cleanVars
    /\ p # "config" => UNCHANGED configVars

ServicesNext ==
    \/ Only("sched") /\ SchedNext
    \/ Only("batch") /\ BatchNext
    \/ Only("dispatch") /\ DispatchNext
    \/ Only("freq") /\ FreqNext
    \/ Only("placement") /\ PlacementNext
    \/ Only("clean") /\ CleanNext
    \/ Only("config") /\ ConfigNext

\* Every thread of the component at hand goes on; clocks do; handlers and
\* requests end; some scheduler, and some node of a paxos group, is the master
\* again.  What goes wrong, or is changed from outside, need not happen.
ServicesFairness ==
    /\ \A h \in Host : /\ WF_schedVars(part = "sched" /\ HostSync(h))
                       /\ WF_schedVars(part = "sched" /\ ReportAges(h))
    /\ WF_schedVars(part = "sched" /\ LoadBalanceStep)
    /\ WF_schedVars(part = "sched" /\ TakeMaster)
    /\ \A s \in Sender : WF_batchVars(part = "batch" /\ SenderStep(s))
    /\ \A t \in Thread : WF_batchVars(part = "batch" /\ Wait(t))
    /\ WF_batchVars(part = "batch" /\ DispatchBatchTask)
    /\ WF_batchVars(part = "batch" /\ BatchTick)
    /\ WF_dispatchVars(part = "dispatch" /\ DispatchStep)
    /\ \A h \in Handler : WF_dispatchVars(part = "dispatch" /\ RoutineStep(h))
    /\ \A b \in BatchHandler : WF_dispatchVars(part = "dispatch" /\ BatchHandleTaskFinish(b))
    /\ \A p \in FreqWorker : WF_freqVars(part = "freq" /\ WorkerTurn(p))
    /\ WF_freqVars(part = "freq" /\ FreqRound)
    /\ WF_freqVars(part = "freq" /\ FreqTick)
    /\ \A n \in Node : /\ WF_placementVars(part = "placement" /\ ElectionStep(n))
                       /\ WF_placementVars(part = "placement" /\ KeepMaster(n))
    /\ WF_placementVars(part = "placement" /\ LeaseRunsOut)
    /\ WF_cleanVars(part = "clean" /\ CleanStep)
    /\ WF_cleanVars(part = "clean" /\ TakeLead)
    /\ \A k \in LockKey : WF_cleanVars(part = "clean" /\ LeaseOver(k))
    /\ WF_configVars(part = "config" /\ ConfigStep)
    /\ WF_configVars(part = "config" /\ ConfigTick)

servicesVars == <<part, schedVars, batchVars, dispatchVars, freqVars, placementVars,
                  cleanVars, configVars>>

ServicesSpec == ServicesInit /\ [][ServicesNext]_servicesVars /\ ServicesFairness

\* Every variable of the seven components has its type.
ServicesTypeOK ==
    /\ part = "sched" => SchedTypeOK
    /\ part = "batch" => BatchTypeOK
    /\ part = "dispatch" => DispatchTypeOK
    /\ part = "freq" => FreqTypeOK
    /\ part = "placement" => PlacementTypeOK
    /\ part = "clean" => CleanTypeOK
    /\ part = "config" => ConfigTypeOK

\* When nothing goes wrong any more, every queue ends up in a slot of a running
\* host, whichever hosts died, came back or were not answered (HeartBeatLock::Sync,
\* SchedulerMgr::LoadBalance).
ServedInTheEnd == part = "sched" => EveryQueueIsServed

\* A paxos group ends up with its master on the node it is at home on, if that
\* node stays up and may be master (KeepMaster, StoreSM::Execute).
HomeInTheEnd == part = "placement" => HomeBecomesMaster

\* A thread ends up with the config that the files keep (LoadIfModified,
\* GlobalConfig::Rebuild).
ConfigInTheEnd == part = "config" => ConfigCatchesUp
=============================================================================
