----------------------------- MODULE LockClean -----------------------------
(***************************************************************************)
(* How the records of a lock service go away: CleanThread walks through    *)
(* the map of a paxos group, max_clean_lock_num records a round at most,   *)
(* and proposes the deletion of those whose lease is over.  The table is   *)
(* that of the node that is the master; Lock.tla has the replicas.         *)
(***************************************************************************)
EXTENDS Naturals, FiniteSets, FiniteSetsExt

CONSTANTS
    NLockKey,     \* lock keys, in the order of the map
    MaxClean,     \* max_clean_lock_num
    MaxAcquire,   \* bound of the model: requests of clients
    MaxTrouble    \* bound of the model: failed proposals, lost mastership,
                  \* restarts

LockKey == 1..NLockKey
NoKey == 0

VARIABLES
    rec,        \* per key: "none", "live", "expired", or "forever" (lease -1,
                \* as strings have)
    due,        \* keys that were expired at the round's now
    prevKey,    \* prev_loop_key_
    stop,       \* "sleep", "loop", or "propose"
    turn,       \* i of CleanRecord
    victim,     \* the key whose deletion is proposed
    touched,    \* its record was changed since
    lead,       \* IsIMMaster
    acquires, trouble

cleanVars == <<rec, due, prevKey, stop, turn, victim, touched, lead, acquires, trouble>>
walk == <<prevKey, stop, turn, victim>>

CleanTypeOK ==
    /\ rec \in [LockKey -> {"none", "live", "expired", "forever"}]
    /\ due \subseteq LockKey
    /\ prevKey \in LockKey \cup {NoKey} /\ victim \in LockKey \cup {NoKey}
    /\ stop \in {"sleep", "loop", "propose"}
    /\ turn \in 0..MaxClean
    /\ touched \in BOOLEAN /\ lead \in BOOLEAN

CleanInit ==
    /\ rec = [k \in LockKey |-> "none"]
    /\ due = {}
    /\ prevKey = NoKey /\ stop = "sleep" /\ turn = 0 /\ victim = NoKey
    /\ touched = FALSE /\ lead = TRUE
    /\ acquires = 0 /\ trouble = 0

Present == {k \in LockKey : rec[k] # "none"}

\* A request of a client changes the record of a key.
Change(k, to) ==
    /\ acquires < MaxAcquire /\ acquires' = acquires + 1
    /\ rec' = [rec EXCEPT ![k] = to]
    /\ due' = due \ {k}
    /\ touched' = (touched \/ k = victim)
    /\ UNCHANGED <<walk, lead, trouble>>

\* AcquireLock with a lease, SetString or a lease of -1, a release.
AcquireKey(k) == Change(k, "live")
KeepForever(k) == Change(k, "forever")
ReleaseKey(k) == rec[k] # "none" /\ Change(k, "none")

\* The lease passes without being renewed.
LeaseOver(k) ==
    /\ rec[k] = "live"
    /\ rec' = [rec EXCEPT ![k] = "expired"]
    /\ UNCHANGED <<due, walk, touched, lead, acquires, trouble>>

-----------------------------------------------------------------------------
\* DoRun reads the clock and calls CleanRecord, which returns on a node that
\* is not the master.
StartRound ==
    /\ stop = "sleep" /\ lead
    /\ stop' = "loop" /\ turn' = 0
    /\ due' = {k \in LockKey : rec[k] = "expired"}
    /\ UNCHANGED <<rec, prevKey, victim, touched, lead, acquires, trouble>>

\* Mutant: the walk ends with the last key.
ForwardNoWrap == IF {k \in Present : k > prevKey} = {} THEN prevKey
                 ELSE Min({k \in Present : k > prevKey})

\* ForwardLoopKey: the next key; the first one after the last, and also when
\* the key before was deleted.
ForwardLoopKey ==
    LET later == {k \in Present : k > prevKey} IN
    IF prevKey \notin Present \/ later = {} THEN Min(Present) ELSE Min(later)

\* A turn of the loop of CleanRecord, under the mutex of the map.
CleanTurn ==
    /\ stop = "loop"
    /\ IF Cardinality(Present) > turn /\ MaxClean > turn
       THEN /\ turn' = turn + 1
            /\ prevKey' = ForwardLoopKey
            /\ IF ForwardLoopKey \in due
               THEN stop' = "propose" /\ victim' = ForwardLoopKey
               ELSE UNCHANGED <<stop, victim>>
       ELSE /\ stop' = "sleep" /\ turn' = 0
            /\ UNCHANGED <<prevKey, victim>>
    /\ UNCHANGED <<rec, due, touched, lead, acquires, trouble>>

\* Propose: chosen, executed unless the version changed, or failed.
ProposeClean(chosen) ==
    /\ stop = "propose"
    /\ IF chosen THEN UNCHANGED trouble
                 ELSE trouble < MaxTrouble /\ trouble' = trouble + 1
    /\ rec' = IF chosen /\ ~touched THEN [rec EXCEPT ![victim] = "none"] ELSE rec
    /\ due' = IF chosen THEN due \ {victim} ELSE due
    /\ stop' = "loop" /\ victim' = NoKey /\ touched' = FALSE
    /\ UNCHANGED <<prevKey, turn, lead, acquires>>

-----------------------------------------------------------------------------
LoseLead ==
    /\ lead /\ trouble < MaxTrouble /\ trouble' = trouble + 1
    /\ lead' = FALSE
    /\ UNCHANGED <<rec, due, walk, touched, acquires>>

TakeLead ==
    /\ ~lead /\ lead' = TRUE
    /\ UNCHANGED <<rec, due, walk, touched, acquires, trouble>>

\* LockMgr::Init: every lease starts anew.
RestartLock ==
    /\ trouble < MaxTrouble /\ trouble' = trouble + 1
    /\ rec' = [k \in LockKey |-> IF rec[k] = "expired" THEN "live" ELSE rec[k]]
    /\ due' = {} /\ touched' = FALSE
    /\ prevKey' = NoKey /\ stop' = "sleep" /\ turn' = 0 /\ victim' = NoKey
    /\ UNCHANGED <<lead, acquires>>

CleanStep == StartRound \/ CleanTurn \/ \E chosen \in BOOLEAN : ProposeClean(chosen)

CleanNext ==
    \/ \E k \in LockKey : AcquireKey(k) \/ KeepForever(k) \/ ReleaseKey(k) \/ LeaseOver(k)
    \/ CleanStep \/ LoseLead \/ TakeLead \/ RestartLock

-----------------------------------------------------------------------------
\* A record whose lease is over goes away or is acquired again, although the
\* walk does a few records a round, starts over when its key was deleted, and
\* proposals fail (CleanRecord, ForwardLoopKey).
CleanedInTheEnd == \A k \in LockKey : [](rec[k] = "expired" => <>(rec[k] # "expired"))
=============================================================================
