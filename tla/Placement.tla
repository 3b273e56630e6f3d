----------------------------- MODULE Placement -----------------------------
(***************************************************************************)
(* The master of one paxos group of a store or lock service: phxpaxos      *)
(* elects one of the nodes, and KeepMasterThread of every node moves it to *)
(* the node the config has the group at home on.                           *)
(*                                                                         *)
(* phxpaxos (external): a master holds a lease that it renews; after       *)
(* DropMaster it lets the lease run out and does not try again for two     *)
(* lease times.  Who becomes the master has committed a value in the       *)
(* group, so it has executed all that was chosen before.                   *)
(***************************************************************************)
EXTENDS Naturals, FiniteSets

CONSTANTS
    NNode,        \* addrs of the store or lock
    NPaxos,       \* ngroup
    MasterRate,   \* store_adjust_max_master_rate
    Refusing,     \* nodes where NeedDropMaster returns true
    MaxFail       \* bound of the model: crashes, failed proposals

ASSUME PlacementAssumption ==
    /\ NNode \in Nat \ {0} /\ NPaxos \in Nat \ {0} /\ MasterRate \in Nat
    /\ MaxFail \in Nat

Node == 0..(NNode - 1)
Nobody == NNode

VARIABLES
    group,     \* the paxos group, fixed
    master,    \* the node with the lease
    view,      \* per node, what GetMaster says
    alive,     \* nodes that run
    dropped,   \* nodes that let the election be after DropMaster
    ordered,   \* nodes that have yet to execute a proposed master_addr
    fails

placementVars == <<group, master, view, alive, dropped, ordered, fails>>

PlacementTypeOK ==
    /\ group \in 0..(NPaxos - 1)
    /\ master \in Node \cup {Nobody}
    /\ view \in [Node -> Node \cup {Nobody}]
    /\ alive \subseteq Node /\ dropped \subseteq Node /\ ordered \subseteq Node
    /\ fails \in 0..MaxFail

PlacementInit ==
    /\ group \in 0..(NPaxos - 1)
    /\ master = Nobody
    /\ view = [n \in Node |-> Nobody]
    /\ alive = Node
    /\ dropped = {} /\ ordered = {}
    /\ fails = 0

Majority(nodes) == 2 * Cardinality(nodes) > NNode

-----------------------------------------------------------------------------
\* phxpaxos: a node that tries when there is no lease becomes the master.
BeMaster(n) ==
    /\ n \in alive \ (dropped \cup ordered)
    /\ master = Nobody /\ Majority(alive)
    /\ master' = n
    /\ view' = [view EXCEPT ![n] = n]
    /\ UNCHANGED <<group, alive, dropped, ordered, fails>>

\* phxpaxos: a lease that is not renewed runs out.
LeaseRunsOut ==
    /\ master # Nobody /\ (master \notin alive \/ master \in dropped)
    /\ master' = Nobody
    /\ UNCHANGED <<group, view, alive, dropped, ordered, fails>>

\* phxpaxos: two lease times after DropMaster; what was chosen was executed,
\* leases ran out, and others had their turn.
TryAgain(n) ==
    /\ n \in dropped
    /\ ordered \cap alive = {}
    /\ \/ master # Nobody /\ master # n /\ master \notin dropped /\ master \in alive
       \/ alive \subseteq dropped /\ master = Nobody
    /\ dropped' = dropped \ {n}
    /\ UNCHANGED <<group, master, view, alive, ordered, fails>>

\* phxpaxos: a node learns of a new master, or sees the lease of one run out.
Learn(n) ==
    /\ n \in alive /\ view[n] # master
    /\ view' = [view EXCEPT ![n] = master]
    /\ UNCHANGED <<group, master, alive, dropped, ordered, fails>>

-----------------------------------------------------------------------------
\* The node of a group: idx_in_store is paxos_group_id % addrs_size.
Home == group % NNode

\* group / ngroup * 100.0 + 0.5 > master_rate.
RateTooLow == 200 * group + NPaxos > 2 * MasterRate * NPaxos

MustDrop(n) == RateTooLow \/ n \in Refusing

\* Mutant: the node that proposed drops the master, too.
MeantForAll(n) == Node

\* Nodes that drop the master when they execute the proposal of n.
MeantFor(n) == Node \ {n}

\* Propose with the node's own address as master_addr; the other nodes execute
\* it each in its time.  The lock service does the same (ProposeMaster).
ProposeMaster(n) ==
    \/ /\ Majority(alive)
       /\ ordered' = MeantFor(n)
       /\ UNCHANGED fails
    \/ /\ fails < MaxFail /\ fails' = fails + 1
       /\ UNCHANGED ordered

\* A round of KeepMaster, after AdjustMasterRate took the rate of the config
\* (so that of InitMasterRate is never used).
KeepMaster(n) ==
    /\ n \in alive
    /\ IF MustDrop(n)
       THEN dropped' = dropped \cup {n} /\ UNCHANGED <<ordered, fails>>
       ELSE /\ master # n /\ n = Home
            /\ ProposeMaster(n)
            /\ UNCHANGED dropped
    /\ UNCHANGED <<group, master, view, alive>>

\* StoreSM::Execute of a proposed master_addr: every node but that one.
ExecuteMasterAddr(n) ==
    /\ n \in ordered \cap alive
    /\ ordered' = ordered \ {n}
    /\ dropped' = IF n \in MeantFor(Home) THEN dropped \cup {n} ELSE dropped
    /\ UNCHANGED <<group, master, view, alive, fails>>

CrashNode(n) ==
    /\ n \in alive /\ Majority(alive \ {n})
    /\ fails < MaxFail /\ fails' = fails + 1
    /\ alive' = alive \ {n}
    /\ dropped' = dropped \ {n}
    /\ UNCHANGED <<group, master, view, ordered>>

\* A node starts: what it executes before GetNode() is set drops nothing.
StartNode(n) ==
    /\ n \notin alive
    /\ alive' = alive \cup {n}
    /\ view' = [view EXCEPT ![n] = Nobody]
    /\ master' = IF master = n THEN Nobody ELSE master
    /\ ordered' \in {ordered, ordered \ {n}}
    /\ UNCHANGED <<group, dropped, fails>>

ElectionStep(n) == BeMaster(n) \/ TryAgain(n) \/ ExecuteMasterAddr(n)

PlacementNext ==
    \/ \E n \in Node : \/ ElectionStep(n) \/ Learn(n) \/ KeepMaster(n)
                       \/ CrashNode(n) \/ StartNode(n)
    \/ LeaseRunsOut

-----------------------------------------------------------------------------
\* A group ends up with the node it is at home on as its master, if that node
\* runs and may be master, whoever was elected, crashed or came back before
\* (KeepMaster, StoreSM::Execute).
HomeBecomesMaster ==
    <>[](Home \in {n \in alive : ~MustDrop(n)}) => <>[](master = Home)
=============================================================================
