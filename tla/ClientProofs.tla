---------------------------- MODULE ClientProofs ----------------------------
(***************************************************************************)
(* Two proofs about clients.  A client finds the master: MasterClient and   *)
(* the nodes of Placement it calls.  No accepted item is lost: Delivery,    *)
(* with what its operators on sequences compute.                            *)
(***************************************************************************)
EXTENDS MasterClient, Delivery, Induction

\* The next address of the loop, which wraps around after the last.
LEMMA NextAddress ==
  ASSUME NEW i \in Node
  PROVE  /\ (i + 1) % NNode = IF i + 1 = NNode THEN 0 ELSE i + 1
         /\ (i + 1) % NNode \in Node
  <1>1. NNode \in Nat /\ NNode > 0 /\ i \in Nat /\ i < NNode
    BY PlacementAssumption DEF Node
  <1>2. CASE i + 1 = NNode
    <2>1. NNode % NNode = 0
      BY <1>1
    <2> QED
      BY <1>1, <1>2, <2>1 DEF Node
  <1>3. CASE i + 1 < NNode
    <2>1. (i + 1) % NNode = i + 1
      BY <1>1, <1>3
    <2> QED
      BY <1>1, <1>3, <2>1 DEF Node
  <1> QED
    BY <1>1, <1>2, <1>3

\* The loop is less than a round away from the master, and one address nearer
\* after an address that is not the master.
LEMMA Nearer ==
  ASSUME NEW i \in Node, master \in Node
  PROVE  /\ ToMaster(i) \in 0..(NNode - 1)
         /\ i # master => /\ ToMaster(i) > 0
                          /\ ToMaster((i + 1) % NNode) = ToMaster(i) - 1
  <1>1. NNode \in Nat /\ i \in Nat /\ i < NNode /\ master \in Nat /\ master < NNode
    BY PlacementAssumption DEF Node
  <1>2. CASE i + 1 = NNode
    <2>1. (i + 1) % NNode = 0
      BY <1>2, NextAddress
    <2>2. ToMaster(0) = master /\ (i # master => ToMaster(i) = master + NNode - i)
      BY <1>1, <1>2 DEF ToMaster
    <2>3. ToMaster((i + 1) % NNode) = master
      BY <2>1, <2>2
    <2>4. i # master => ToMaster(i) = master + 1 /\ ToMaster(i) > 0
      BY <1>1, <1>2, <2>2
    <2>5. ToMaster(i) \in 0..(NNode - 1)
      BY <1>1, <1>2 DEF ToMaster
    <2>6. i # master => ToMaster(i) - 1 = master
      BY <1>1, <2>4
    <2> QED
      BY <2>3, <2>4, <2>5, <2>6, Zenon
  <1>3. CASE i + 1 < NNode
    <2>1. (i + 1) % NNode = i + 1
      BY <1>1, <1>3, NextAddress
    <2>2. ToMaster((i + 1) % NNode) = ToMaster(i + 1)
      BY <2>1
    <2>3. i # master => ToMaster(i) > 0 /\ ToMaster(i + 1) = ToMaster(i) - 1
      BY <1>1, <1>3 DEF ToMaster
    <2>4. ToMaster(i) \in 0..(NNode - 1)
      BY <1>1, <1>3 DEF ToMaster
    <2> QED
      BY <2>2, <2>3, <2>4, Zenon
  <1> QED
    BY <1>1, <1>2, <1>3

\* A node is an address, and Nobody is none.
LEMMA NobodyIsNoNode == Nobody \notin Node /\ 0 \in Node /\ 0 \in 0..MaxFail
  BY PlacementAssumption DEF Nobody, Node

LEMMA RouteInitInv == RouteInit => RouteInv
  <1> SUFFICES ASSUME RouteInit PROVE RouteInv
    OBVIOUS
  <1> USE NobodyIsNoNode, PlacementAssumption DEF RouteInit, PlacementInit, ClientInit
  <1>1. PlacementTypeOK
    BY DEF PlacementTypeOK
  <1>2. ClientTypeOK
    <2>1. tries \in 0..NNode
      OBVIOUS
    <2>2. << >> \in Seq(0..MaxFail)
      OBVIOUS
    <2>3. conns \in [Node -> Seq(0..MaxFail)]
      BY <2>2
    <2> QED
      BY <2>1, <2>3 DEF ClientTypeOK
  <1>3. LoopComesToMaster
    BY DEF LoopComesToMaster
  <1>4. MasterIsFound
    BY DEF MasterIsFound
  <1> QED
    BY <1>1, <1>2, <1>3, <1>4 DEF RouteInv, RouteTypeOK

\* The nodes keep their types.
LEMMA PlacementKeepsType == PlacementTypeOK /\ PlacementNext => PlacementTypeOK'
  <1> SUFFICES ASSUME PlacementTypeOK, PlacementNext PROVE PlacementTypeOK'
    OBVIOUS
  <1> USE NobodyIsNoNode, PlacementAssumption DEF PlacementTypeOK
  <1>1. ASSUME NEW n \in Node, BeMaster(n) PROVE PlacementTypeOK'
    BY <1>1 DEF BeMaster
  <1>2. ASSUME NEW n \in Node, TryAgain(n) PROVE PlacementTypeOK'
    BY <1>2 DEF TryAgain
  <1>3. ASSUME NEW n \in Node, ExecuteMasterAddr(n) PROVE PlacementTypeOK'
    BY <1>3 DEF ExecuteMasterAddr
  <1>4. ASSUME NEW n \in Node, Learn(n) PROVE PlacementTypeOK'
    BY <1>4 DEF Learn
  <1>5. ASSUME NEW n \in Node, KeepMaster(n) PROVE PlacementTypeOK'
    BY <1>5 DEF KeepMaster, ProposeMaster, MeantFor
  <1>6. ASSUME NEW n \in Node, CrashNode(n) PROVE PlacementTypeOK'
    BY <1>6 DEF CrashNode
  <1>7. ASSUME NEW n \in Node, StartNode(n) PROVE PlacementTypeOK'
    BY <1>7 DEF StartNode
  <1>8. ASSUME LeaseRunsOut PROVE PlacementTypeOK'
    BY <1>8 DEF LeaseRunsOut
  <1> QED
    BY <1>1, <1>2, <1>3, <1>4, <1>5, <1>6, <1>7, <1>8 DEF PlacementNext, ElectionStep

\* No step of the nodes leads from one master they agree on to another.
LEMMA SettledKeepsMaster ==
  ASSUME PlacementTypeOK, PlacementNext, Settled, Settled' PROVE master' = master
  <1> USE NobodyIsNoNode DEF PlacementTypeOK, Settled
  <1>1. ASSUME NEW n \in Node, ElectionStep(n) PROVE master' = master
    BY <1>1 DEF ElectionStep, BeMaster, TryAgain, ExecuteMasterAddr
  <1>2. ASSUME NEW n \in Node, Learn(n) \/ KeepMaster(n) \/ CrashNode(n)
        PROVE  master' = master
    BY <1>2 DEF Learn, KeepMaster, CrashNode
  <1>3. ASSUME NEW n \in Node, StartNode(n) PROVE master' = master
    BY <1>3 DEF StartNode
  <1>4. ~LeaseRunsOut
    BY DEF LeaseRunsOut
  <1> QED
    BY <1>1, <1>2, <1>3, <1>4 DEF PlacementNext

\* A step of the nodes during a call.
LEMMA PlacementKeepsRoute ==
  ASSUME RouteInv, PlacementNext, calm' = (calm /\ Settled'),
         UNCHANGED <<cache, call, target, idx, tries, conns>>
  PROVE  RouteInv'
  <1>1. PlacementTypeOK'
    BY PlacementKeepsType DEF RouteInv, RouteTypeOK
  <1>2. ClientTypeOK'
    BY DEF RouteInv, RouteTypeOK, ClientTypeOK
  <1>3. LoopComesToMaster'
    <2> SUFFICES ASSUME calm', call \in {"cached", "loop"}
                 PROVE  LoopComesToMaster'
      BY DEF LoopComesToMaster
    <2>1. calm /\ Settled'
      OBVIOUS
    <2>2. Settled
      BY <2>1 DEF RouteInv, LoopComesToMaster
    <2>3. master' = master
      BY <2>1, <2>2, SettledKeepsMaster DEF RouteInv, RouteTypeOK
    <2> QED
      BY <2>1, <2>3 DEF RouteInv, LoopComesToMaster, ToMaster
  <1>4. MasterIsFound'
    BY DEF RouteInv, MasterIsFound
  <1> QED
    BY <1>1, <1>2, <1>3, <1>4 DEF RouteInv, RouteTypeOK

\* A loop that begins anywhere has tries enough.
LEMMA LoopBegins ==
  ASSUME RouteInv, NEW start \in Node, NEW done, LoopFrom(start, done)
  PROVE  /\ call' = "loop" /\ tries' = 0 /\ idx' \in Node /\ target' = idx'
         /\ master \in Node => ToMaster(idx') < NNode
  <1>1. idx' \in Node
    BY NextAddress DEF LoopFrom
  <1>2. ASSUME master \in Node PROVE ToMaster(idx') < NNode
    <2>1. \A i \in Node : ToMaster(i) \in 0..(NNode - 1)
      BY <1>2, Nearer
    <2>2. ToMaster(idx') \in 0..(NNode - 1)
      BY <2>1, <1>1
    <2> QED
      BY <2>2, PlacementAssumption
  <1> QED
    BY <1>1, <1>2 DEF LoopFrom

LEMMA StartKeepsRoute ==
  ASSUME RouteInv, NEW expired \in BOOLEAN, NEW start \in Node,
         StartCall(expired, start), UNCHANGED placementVars
  PROVE  RouteInv'
  <1> USE DEF placementVars
  <1>0. ClientTypeOK /\ PlacementTypeOK /\ MasterIsFound
    BY DEF RouteInv, RouteTypeOK
  <1>1. PlacementTypeOK'
    BY <1>0 DEF PlacementTypeOK
  <1>2. calm' = Settled /\ Settled' = Settled /\ cache' = cache /\ conns' = conns
    BY DEF StartCall, Settled
  <1>3. Settled \in BOOLEAN /\ (Settled => master \in Node)
    BY <1>0 DEF Settled, PlacementTypeOK
  <1>4. MasterIsFound'
    <2>1. call' # "failed"
      BY LoopBegins DEF StartCall
    <2> QED
      BY <2>1, <1>0, <1>2 DEF MasterIsFound
  <1>5. CASE cache # Nobody /\ ~expired
    <2>1. call' = "cached" /\ target' = cache /\ idx' = idx /\ tries' = tries
      BY <1>5 DEF StartCall
    <2>2. cache \in Node
      BY <1>5, <1>0 DEF ClientTypeOK
    <2>3. ClientTypeOK'
      BY <2>1, <2>2, <1>0, <1>2, <1>3 DEF ClientTypeOK
    <2>4. LoopComesToMaster'
      BY <2>1, <1>2 DEF LoopComesToMaster
    <2> QED
      BY <1>1, <1>4, <2>1, <2>2, <2>3, <2>4 DEF RouteInv, RouteTypeOK
  <1>6. CASE ~(cache # Nobody /\ ~expired)
    <2>0. LoopFrom(start, Nobody)
      BY <1>6 DEF StartCall
    <2>1. /\ call' = "loop" /\ tries' = 0 /\ idx' \in Node /\ target' = idx'
          /\ master \in Node => ToMaster(idx') < NNode
      BY <2>0, LoopBegins
    <2>3. ClientTypeOK'
      BY <2>1, <1>0, <1>2, <1>3, PlacementAssumption DEF ClientTypeOK
    <2>4. LoopComesToMaster'
      <3> SUFFICES ASSUME calm' PROVE LoopComesToMaster'
        BY DEF LoopComesToMaster
      <3>1. Settled /\ ToMaster(idx') < NNode /\ ToMaster(idx') \in Int /\ master' = master
        BY <1>2, <1>3, <2>1, Nearer
      <3>2. tries' + ToMaster(idx') < NNode
        BY <3>1, <2>1, PlacementAssumption
      <3>3. ToMaster(idx)' = ToMaster(idx')
        BY <3>1 DEF ToMaster
      <3> QED
        BY <3>1, <3>2, <3>3, <2>1, <1>2 DEF LoopComesToMaster
    <2> QED
      BY <1>1, <1>4, <2>1, <2>3, <2>4 DEF RouteInv, RouteTypeOK
  <1> QED
    BY <1>5, <1>6

\* What a node says: itself, nobody, or another node.
LEMMA AnswersAreKnown ==
  ASSUME RouteTypeOK, NEW n \in Node, NEW a \in Answers(n)
  PROVE  /\ a.code \in {"ok", "notmaster", "nomaster", "sys", "other"}
         /\ a.code = "notmaster" => a.redirect \in Node
         /\ n \in alive /\ a # CheckMaster(n) => fails < MaxFail
  BY NobodyIsNoNode DEF Answers, CheckMaster, Said, RouteTypeOK, PlacementTypeOK

\* While the nodes agree: the master answers the call, a node that runs sends
\* the client to it, and one that is down says nothing.
LEMMA SettledAnswers ==
  ASSUME RouteTypeOK, Settled, NEW n \in Node, NEW a \in Answers(n),
         ~(n \in alive /\ a # CheckMaster(n))
  PROVE  /\ n = master => a.code = "ok"
         /\ n # master => \/ a.code = "sys"
                          \/ a.code = "notmaster" /\ a.redirect = master
  <1>1. CASE n \in alive
    <2>1. a = CheckMaster(n) /\ view[n] = master /\ master # Nobody
      BY <1>1, NobodyIsNoNode DEF Settled, RouteTypeOK, PlacementTypeOK
    <2> QED
      BY <2>1 DEF CheckMaster
  <1>2. CASE n \notin alive
    BY <1>2 DEF Settled, Answers, Said
  <1> QED
    BY <1>1, <1>2

\* No connection goes back with an answer on it.
LEMMA ConnectionsStayClean ==
  ASSUME ClientTypeOK, MasterIsFound, NEW n \in Node, NEW a, UseConnection(n, a)
  PROVE  /\ conns' \in [Node -> Seq(0..MaxFail)]
         /\ \A m \in Node : \A k \in DOMAIN conns'[m] : conns'[m][k] = 0
  <1> DEFINE pool == conns[n]
             rest == IF pool = << >> THEN << >> ELSE Tail(pool)
             conn == IF pool = << >> THEN 0 ELSE Head(pool)
  <1>1. pool \in Seq(0..MaxFail) /\ \A k \in 1..Len(pool) : pool[k] = 0
    BY DEF ClientTypeOK, MasterIsFound
  <1>2. conn = 0
    BY <1>1
  <1>3. rest \in Seq(0..MaxFail) /\ \A k \in 1..Len(rest) : rest[k] = 0
    <2>1. CASE pool = << >>
      BY <2>1
    <2>2. CASE pool # << >>
      <3> HIDE DEF pool
      <3>1. Tail(pool) \in Seq(0..MaxFail) /\ Len(Tail(pool)) = Len(pool) - 1
        BY <1>1, <2>2
      <3>2. \A k \in 1..Len(Tail(pool)) : Tail(pool)[k] = pool[k + 1] /\ k + 1 \in 1..Len(pool)
        BY <1>1, <2>2, <3>1
      <3> QED
        BY <1>1, <2>2, <3>1, <3>2
    <2> QED
      BY <2>1, <2>2
  <1> DEFINE late == IF a.code = "sys" THEN conn + 1 ELSE conn
             new == KeepConnection(rest, late, a)
  <1>4. conns' = [conns EXCEPT ![n] = new]
    BY DEF UseConnection
  <1> HIDE DEF conn, rest, pool
  <1>5. new \in Seq(0..MaxFail) /\ \A k \in 1..Len(new) : new[k] = 0
    <2>1. CASE a.code = "sys"
      BY <2>1, <1>3 DEF KeepConnection
    <2>2. CASE a.code # "sys"
      <3>1. new = Append(rest, 0)
        BY <2>2, <1>2 DEF KeepConnection
      <3>2. Append(rest, 0) \in Seq(0..MaxFail)
        BY <1>3, NobodyIsNoNode
      <3>3. \A k \in 1..Len(Append(rest, 0)) : Append(rest, 0)[k] = 0
        BY <1>3
      <3> QED
        BY <3>1, <3>2, <3>3
    <2> QED
      BY <2>1, <2>2
  <1> HIDE DEF new
  <1>6. conns' \in [Node -> Seq(0..MaxFail)]
    BY <1>4, <1>5 DEF ClientTypeOK
  <1>7. ASSUME NEW m \in Node, NEW k \in DOMAIN conns'[m] PROVE conns'[m][k] = 0
    <2>1. CASE m = n
      BY <2>1, <1>4, <1>5, <1>7 DEF ClientTypeOK
    <2>2. CASE m # n
      BY <2>2, <1>4, <1>7 DEF ClientTypeOK, MasterIsFound
    <2> QED
      BY <2>1, <2>2
  <1> QED
    BY <1>6, <1>7

\* What a call that returns leaves behind.
LEMMA ReturnsKeepsType ==
  ASSUME NEW result, Returns(result)
  PROVE  call' = result /\ target' = Nobody /\ idx' \in Node /\ tries' \in 0..NNode
  BY NobodyIsNoNode, PlacementAssumption DEF Returns

\* The next try of the loop, if there is one left.
LEMMA NextAddrKeepsType ==
  ASSUME RouteInv, call = "loop", NEW addr \in Node, NEW i \in Node, NextAddr(addr, i)
  PROVE  /\ call' \in {"loop", "failed"} /\ idx' \in Node /\ tries' \in 0..NNode
         /\ target' \in Node \cup {Nobody}
         /\ call' = "loop" => target' \in Node
         /\ TriesLeft => call' = "loop" /\ target' = addr /\ idx' = i /\ tries' = tries + 1
  <1>1. tries \in 0..NNode
    BY DEF RouteInv, RouteTypeOK, ClientTypeOK
  <1>2. CASE TriesLeft
    BY <1>1, <1>2, PlacementAssumption DEF NextAddr, TriesLeft
  <1>3. CASE ~TriesLeft
    BY <1>3, ReturnsKeepsType DEF NextAddr
  <1> QED
    BY <1>2, <1>3

\* A remote call from the cached address.
LEMMA CachedKeepsRoute ==
  ASSUME RouteInv, NEW a \in Answers(target), NEW start \in Node, target \in Node,
         TryCached(a, start)
  PROVE  /\ call' \in {"idle", "loop", "failed"} /\ idx' \in Node /\ tries' \in 0..NNode
         /\ cache' \in Node \cup {Nobody} /\ target' \in Node \cup {Nobody}
         /\ call' = "loop" => target' \in Node
         /\ calm /\ ~(target \in alive /\ a # CheckMaster(target)) =>
              /\ call' # "failed"
              /\ call' = "loop" => \/ target' = master
                                   \/ target' = idx' /\ tries' + ToMaster(idx') < NNode
  <1>0. /\ RouteTypeOK /\ cache \in Node \cup {Nobody} /\ call = "cached"
        /\ calm => Settled
    BY DEF RouteInv, RouteTypeOK, ClientTypeOK, TryCached, LoopComesToMaster
  <1>1. /\ a.code \in {"ok", "notmaster", "nomaster", "sys", "other"}
        /\ a.code = "notmaster" => a.redirect \in Node
    BY <1>0, AnswersAreKnown
  <1>2. ASSUME calm, ~(target \in alive /\ a # CheckMaster(target))
        PROVE  /\ a.code = "ok" \/ a.code = "sys" \/ (a.code = "notmaster" /\ a.redirect = master)
               /\ master \in Node
    BY <1>0, <1>2, SettledAnswers DEF Settled, RouteTypeOK, PlacementTypeOK
  <1>3. CASE a.code = "ok"
    <2>1. Returns("idle") /\ cache' = cache
      BY <1>3 DEF TryCached
    <2> QED
      BY <2>1, <1>0, ReturnsKeepsType
  <1>4. CASE a.code = "notmaster"
    <2>1. cache' = a.redirect /\ call' = "loop" /\ tries' = 0 /\ idx' = a.redirect /\ target' = a.redirect
      BY <1>4 DEF TryCached
    <2> QED
      BY <1>1, <1>2, <1>4, <2>1, PlacementAssumption
  <1>5. CASE a.code \in {"nomaster", "sys"}
    <2>1. LoopFrom(start, target) /\ cache' \in {cache, Nobody}
      BY <1>5 DEF TryCached
    <2>2. /\ call' = "loop" /\ tries' = 0 /\ idx' \in Node /\ target' = idx'
          /\ master \in Node => ToMaster(idx') < NNode /\ ToMaster(idx') \in Int
      BY <2>1, LoopBegins, Nearer
    <2>3. tries' \in 0..NNode /\ (master \in Node => tries' + ToMaster(idx') < NNode)
      BY <2>2, PlacementAssumption
    <2> QED
      BY <1>0, <1>2, <2>1, <2>2, <2>3
  <1>6. CASE a.code = "other"
    <2>1. Returns("failed") /\ cache' = cache
      BY <1>6 DEF TryCached
    <2> QED
      BY <2>1, <1>0, <1>2, <1>6, ReturnsKeepsType
  <1> QED
    BY <1>1, <1>3, <1>4, <1>5, <1>6

\* A turn of the loop.
LEMMA LoopKeepsRoute ==
  ASSUME RouteInv, NEW a \in Answers(target), target \in Node, TryNext(a)
  PROVE  /\ call' \in {"idle", "loop", "failed"} /\ idx' \in Node /\ tries' \in 0..NNode
         /\ cache' \in Node \cup {Nobody} /\ target' \in Node \cup {Nobody}
         /\ call' = "loop" => target' \in Node
         /\ calm /\ ~(target \in alive /\ a # CheckMaster(target)) =>
              /\ call' # "failed"
              /\ call' = "loop" => \/ target' = master
                                   \/ target' = idx' /\ tries' + ToMaster(idx') < NNode
  <1>0. /\ RouteTypeOK /\ cache \in Node \cup {Nobody} /\ call = "loop" /\ idx \in Node
        /\ tries \in 0..NNode
        /\ calm => Settled /\ (target = master \/ (target = idx /\ tries + ToMaster(idx) < NNode))
    BY DEF RouteInv, RouteTypeOK, ClientTypeOK, TryNext, LoopComesToMaster
  <1>1. /\ a.code \in {"ok", "notmaster", "nomaster", "sys", "other"}
        /\ a.code = "notmaster" => a.redirect \in Node
    BY <1>0, AnswersAreKnown
  <1> DEFINE ok == calm /\ ~(target \in alive /\ a # CheckMaster(target))
  <1>2. ASSUME ok
        PROVE  /\ a.code = "ok" \/ a.code = "sys" \/ (a.code = "notmaster" /\ a.redirect = master)
               /\ master \in Node
               /\ target = master => a.code = "ok"
    BY <1>0, <1>2, SettledAnswers DEF Settled, RouteTypeOK, PlacementTypeOK
  \* Away from the master there is a try left, and the next address is nearer.
  <1>3. ASSUME ok, a.code # "ok"
        PROVE  TriesLeft /\ tries + 1 + ToMaster((idx + 1) % NNode) < NNode
    <2>1. target # master /\ target = idx /\ tries + ToMaster(idx) < NNode /\ master \in Node
      BY <1>0, <1>2, <1>3
    <2>2. ToMaster(idx) > 0 /\ ToMaster(idx) \in 0..(NNode - 1)
          /\ ToMaster((idx + 1) % NNode) = ToMaster(idx) - 1
      BY <2>1, <1>0, Nearer, Zenon
    <2> HIDE DEF ok
    <2>3. \A x : x = ToMaster(idx) - 1 => tries + 1 + x < NNode
      BY <1>0, <2>1, <2>2, PlacementAssumption
    <2>4. TriesLeft
      BY <1>0, <2>1, <2>2, PlacementAssumption DEF TriesLeft
    <2> QED
      BY <2>2, <2>3, <2>4, Zenon
  <1> HIDE DEF ok
  <1>4. CASE a.code = "ok"
    <2>1. Returns("idle") /\ cache' = target
      BY <1>4 DEF TryNext
    <2> QED
      BY <2>1, <1>0, ReturnsKeepsType
  <1>5. CASE a.code = "notmaster"
    <2>1. cache' = a.redirect /\ NextAddr(a.redirect, idx)
      BY <1>5 DEF TryNext
    <2>2. /\ call' \in {"loop", "failed"} /\ idx' \in Node /\ tries' \in 0..NNode
          /\ target' \in Node \cup {Nobody}
          /\ call' = "loop" => target' \in Node
          /\ TriesLeft => call' = "loop" /\ target' = a.redirect
      BY <1>0, <1>1, <1>5, <2>1, NextAddrKeepsType
    <2>3. ok => call' # "failed" /\ target' = master
      BY <2>2, <1>2, <1>3, <1>5
    <2> QED
      BY <1>1, <1>5, <2>1, <2>2, <2>3 DEF ok
  <1>6. CASE a.code \in {"nomaster", "sys"}
    <2>1. NextAddr((idx + 1) % NNode, (idx + 1) % NNode) /\ cache' = cache
      BY <1>6 DEF TryNext
    <2>2. (idx + 1) % NNode \in Node
      BY <1>0, NextAddress
    <2>3. /\ call' \in {"loop", "failed"} /\ idx' \in Node /\ tries' \in 0..NNode
          /\ target' \in Node \cup {Nobody}
          /\ call' = "loop" => target' \in Node
          /\ TriesLeft => /\ call' = "loop" /\ target' = (idx + 1) % NNode
                         /\ idx' = (idx + 1) % NNode /\ tries' = tries + 1
      BY <1>0, <2>1, <2>2, NextAddrKeepsType, Zenon
    <2>4. ok => call' # "failed" /\ target' = idx' /\ tries' + ToMaster(idx') < NNode
      <3> SUFFICES ASSUME ok
                   PROVE  call' # "failed" /\ target' = idx' /\ tries' + ToMaster(idx') < NNode
        OBVIOUS
      <3>1. a.code # "ok"
        BY <1>6
      <3>2. TriesLeft /\ tries + 1 + ToMaster((idx + 1) % NNode) < NNode
        BY <3>1, <1>3
      <3>3. call' = "loop" /\ target' = (idx + 1) % NNode
            /\ idx' = (idx + 1) % NNode /\ tries' = tries + 1
        BY <2>3, <3>2
      <3> QED
        BY <3>2, <3>3, Zenon
    <2> QED
      BY <1>0, <2>1, <2>3, <2>4 DEF ok
  <1>7. CASE a.code = "other"
    <2>1. Returns("failed") /\ cache' = cache
      BY <1>7 DEF TryNext
    <2>2. ~ok
      BY <1>2, <1>7
    <2> QED
      BY <2>1, <2>2, <1>0, ReturnsKeepsType DEF ok
  <1> QED
    BY <1>1, <1>4, <1>5, <1>6, <1>7

\* A remote call keeps the invariant.
LEMMA RemoteKeepsRoute ==
  ASSUME RouteInv, target # Nobody, NEW a \in Answers(target), NEW start \in Node,
         RemoteCall(a, start), UNCHANGED <<group, master, view, alive, dropped, ordered>>
  PROVE  RouteInv'
  <1> DEFINE fault == target \in alive /\ a # CheckMaster(target)
  <1>0. RouteTypeOK /\ ClientTypeOK /\ PlacementTypeOK /\ MasterIsFound /\ target \in Node
    BY DEF RouteInv, RouteTypeOK, ClientTypeOK
  <1>1. /\ fails' = IF fault THEN fails + 1 ELSE fails
        /\ calm' = (calm /\ ~fault)
        /\ TryCached(a, start) \/ TryNext(a)
    BY DEF RemoteCall
  <1>2. PlacementTypeOK'
    <2>1. fault => fails < MaxFail
      BY <1>0, AnswersAreKnown
    <2>2. fails \in 0..MaxFail
      BY <1>0 DEF PlacementTypeOK
    <2>3. fails' \in 0..MaxFail
      BY <1>1, <2>1, <2>2, PlacementAssumption
    <2> QED
      BY <1>0, <2>3 DEF PlacementTypeOK
  <1>3. UseConnection(target, a)
    BY <1>1 DEF TryCached, TryNext
  <1>4. /\ conns' \in [Node -> Seq(0..MaxFail)]
        /\ \A m \in Node : \A k \in DOMAIN conns'[m] : conns'[m][k] = 0
    BY <1>0, <1>3, ConnectionsStayClean
  <1>5. /\ call' \in {"idle", "loop", "failed"} /\ idx' \in Node /\ tries' \in 0..NNode
        /\ cache' \in Node \cup {Nobody} /\ target' \in Node \cup {Nobody}
        /\ call' = "loop" => target' \in Node
        /\ calm /\ ~fault =>
              /\ call' # "failed"
              /\ call' = "loop" => \/ target' = master
                                   \/ target' = idx' /\ tries' + ToMaster(idx') < NNode
    BY <1>0, <1>1, CachedKeepsRoute, LoopKeepsRoute
  <1>6. ClientTypeOK'
    BY <1>0, <1>1, <1>4, <1>5 DEF ClientTypeOK
  <1>7. MasterIsFound'
    BY <1>1, <1>4, <1>5 DEF MasterIsFound
  <1>8. calm => Settled
    BY <1>1 DEF RouteInv, LoopComesToMaster, TryCached, TryNext
  <1>9. LoopComesToMaster'
    <2>1. Settled' = Settled /\ master' = master /\ ToMaster(idx)' = ToMaster(idx')
      BY DEF Settled, ToMaster
    <2> QED
      BY <1>1, <1>5, <1>8, <2>1 DEF LoopComesToMaster
  <1> QED
    BY <1>2, <1>5, <1>6, <1>7, <1>9 DEF RouteInv, RouteTypeOK

LEMMA RouteStepInv == RouteInv /\ [RouteNext]_routeVars => RouteInv'
  <1> SUFFICES ASSUME RouteInv, [RouteNext]_routeVars PROVE RouteInv'
    OBVIOUS
  <1>1. CASE \E expired \in BOOLEAN, start \in Node : StartCall(expired, start) /\ UNCHANGED placementVars
    BY <1>1, StartKeepsRoute
  <1>2. CASE /\ target # Nobody
             /\ \E a \in Answers(target), start \in Node : RemoteCall(a, start)
             /\ UNCHANGED <<group, master, view, alive, dropped, ordered>>
    BY <1>2, RemoteKeepsRoute
  <1>3. CASE /\ PlacementNext
             /\ calm' = (calm /\ Settled')
             /\ UNCHANGED <<cache, call, target, idx, tries, conns>>
    BY <1>3, PlacementKeepsRoute
  <1>4. CASE UNCHANGED routeVars
    BY <1>4 DEF routeVars, placementVars, clientVars, RouteInv, RouteTypeOK, PlacementTypeOK,
                ClientTypeOK, LoopComesToMaster, MasterIsFound, Settled, ToMaster
  <1> QED
    BY <1>1, <1>2, <1>3, <1>4 DEF RouteNext, ClientStep

\* However many nodes there are, whatever address is cached, wherever the loop
\* begins and whatever nodes crash, start and are elected, the loop of
\* ClientCall always has the tries it needs to come to the master that the
\* nodes agree on.
THEOREM LoopHasTriesEnough == RouteSpec => []RouteInv
  BY RouteInitInv, RouteStepInv, PTL DEF RouteSpec

\* So a call fails only if a fault came in its way or the nodes did not agree,
\* and no connection in the pool has the answer of an earlier call on it.
THEOREM CallsFindMaster == RouteSpec => []MasterIsFound
  <1>1. RouteInv => MasterIsFound
    BY DEF RouteInv
  <1> QED
    BY <1>1, LoopHasTriesEnough, PTL

-----------------------------------------------------------------------------
(* The way of an item: operators.                                          *)

\* The elements of two sequences, one after the other.
LEMMA ConcatRange ==
  ASSUME NEW S, NEW a \in Seq(S), NEW b \in Seq(S)
  PROVE  a \o b \in Seq(S) /\ Range(a \o b) = Range(a) \cup Range(b)
  <1>1. a \o b \in Seq(S) /\ Len(a \o b) = Len(a) + Len(b)
    OBVIOUS
  <1>2. \A i \in 1..(Len(a) + Len(b)) : (a \o b)[i] = IF i <= Len(a) THEN a[i] ELSE b[i - Len(a)]
    OBVIOUS
  <1>3. ASSUME NEW i \in 1..Len(a) PROVE i \in 1..(Len(a) + Len(b)) /\ (a \o b)[i] = a[i]
    BY <1>2
  <1>4. ASSUME NEW i \in 1..Len(b)
        PROVE  Len(a) + i \in 1..(Len(a) + Len(b)) /\ (a \o b)[Len(a) + i] = b[i]
    <2>1. Len(a) + i \in 1..(Len(a) + Len(b)) /\ ~(Len(a) + i <= Len(a)) /\ (Len(a) + i) - Len(a) = i
      OBVIOUS
    <2> QED
      BY <1>2, <2>1
  <1>5. ASSUME NEW i \in 1..(Len(a) + Len(b)) PROVE (a \o b)[i] \in Range(a) \cup Range(b)
    <2>1. CASE i <= Len(a)
      BY <1>2, <2>1 DEF Range
    <2>2. CASE ~(i <= Len(a))
      <3>1. i - Len(a) \in 1..Len(b)
        BY <2>2
      <3> QED
        BY <1>2, <2>2, <3>1 DEF Range
    <2> QED
      BY <2>1, <2>2
  <1>6. Range(a) \subseteq Range(a \o b)
    <2> SUFFICES ASSUME NEW i \in 1..Len(a) PROVE a[i] \in Range(a \o b)
      BY DEF Range
    <2> QED
      BY <1>1, <1>3 DEF Range
  <1>7. Range(b) \subseteq Range(a \o b)
    <2> SUFFICES ASSUME NEW i \in 1..Len(b) PROVE b[i] \in Range(a \o b)
      BY DEF Range
    <2>1. DOMAIN (a \o b) = 1..(Len(a) + Len(b))
      BY <1>1
    <2>2. Len(a) + i \in DOMAIN (a \o b) /\ (a \o b)[Len(a) + i] = b[i]
      BY <1>4, <2>1
    <2> QED
      BY <2>2 DEF Range
  <1>8. Range(a \o b) \subseteq Range(a) \cup Range(b)
    <2> SUFFICES ASSUME NEW i \in 1..(Len(a) + Len(b)) PROVE (a \o b)[i] \in Range(a) \cup Range(b)
      BY <1>1 DEF Range
    <2> QED
      BY <1>5
  <1> QED
    BY <1>1, <1>6, <1>7, <1>8

\* The elements of a sequence.
LEMMA RangeType ==
  ASSUME NEW S, NEW a \in Seq(S)
  PROVE  /\ Range(a) \subseteq S
         /\ \A i \in 1..Len(a) : a[i] \in Range(a)
         /\ \A x \in Range(a) : \E i \in 1..Len(a) : x = a[i]
         /\ a \in Seq(Range(a))
         /\ DOMAIN a = 1..Len(a)
  <1>1. DOMAIN a = 1..Len(a) /\ \A i \in 1..Len(a) : a[i] \in S
    OBVIOUS
  <1>2. \A i \in 1..Len(a) : a[i] \in Range(a)
    BY <1>1 DEF Range
  <1>3. a \in Seq(Range(a))
    BY <1>1, <1>2
  <1> QED
    BY <1>1, <1>2, <1>3 DEF Range

\* What the parts of a sequence of sequences contain.
Content(ss) == UNION {Range(ss[i]) : i \in DOMAIN ss}

Flattens(f, ss) == f = [i \in 1..Len(ss) |-> IF i = 1 THEN ss[i] ELSE f[i - 1] \o ss[i]]

LEMMA FlattensExists ==
  ASSUME NEW S, NEW ss \in Seq(Seq(S))
  PROVE  \E f : Flattens(f, ss)
  <1> DEFINE N == Len(ss)
             step == [n \in 1..N |-> [a \in Seq(S) |-> IF n = 1 THEN ss[n] ELSE a \o ss[n]]]
  <1>0. N \in Nat /\ \A n \in 1..N : ss[n] \in Seq(S)
    OBVIOUS
  <1>1. \A n \in 1..N : step[n] \in [Seq(S) -> Seq(S)]
    BY <1>0
  <1>2. \A n \in 1..N : \A a \in Seq(S) : step[n][a] = IF n = 1 THEN ss[n] ELSE a \o ss[n]
    OBVIOUS
  <1>3. << >> \in Seq(S)
    OBVIOUS
  <1> HIDE DEF step, N
  <1>4. PICK f \in [0..N -> Seq(S)] : Iterates(f, N, << >>, step)
    BY <1>0, <1>1, <1>3, IterationExists
  <1> DEFINE g == [i \in 1..N |-> f[i]]
  <1>5. \A i \in 1..N : g[i] = IF i = 1 THEN ss[i] ELSE g[i - 1] \o ss[i]
    <2> SUFFICES ASSUME NEW i \in 1..N PROVE g[i] = IF i = 1 THEN ss[i] ELSE g[i - 1] \o ss[i]
      OBVIOUS
    <2>1. i \in 0..N /\ i # 0 /\ i - 1 \in 0..N
      BY <1>0
    <2>2. f[i] = step[i][f[i - 1]] /\ f[i - 1] \in Seq(S)
      BY <2>1, <1>4 DEF Iterates
    <2>3. g[i] = IF i = 1 THEN ss[i] ELSE f[i - 1] \o ss[i]
      BY <2>2, <1>2
    <2>4. i # 1 => i - 1 \in 1..N
      BY <1>0
    <2> QED
      BY <2>3, <2>4
  <1>6. Flattens(g, ss)
    <2>1. g = [i \in 1..N |-> IF i = 1 THEN ss[i] ELSE g[i - 1] \o ss[i]]
      <3>1. DOMAIN g = 1..N
        OBVIOUS
      <3> HIDE DEF g
      <3> QED
        BY <3>1, <1>5, <1>4 DEF g
    <2> HIDE DEF g
    <2> QED
      BY <2>1 DEF Flattens, N
  <1> QED
    BY <1>6

\* FlattenSeq keeps the elements.
LEMMA FlattenContent ==
  ASSUME NEW S, NEW ss \in Seq(Seq(S))
  PROVE  FlattenSeq(ss) \in Seq(S) /\ Range(FlattenSeq(ss)) = Content(ss)
  <1> DEFINE N == Len(ss)
             f == CHOOSE x : Flattens(x, ss)
  <1>0. N \in Nat /\ DOMAIN ss = 1..N /\ \A n \in 1..N : ss[n] \in Seq(S)
    OBVIOUS
  <1>1. CASE N = 0
    <2>1. ss = << >>
      BY <1>1
    <2>2. FlattenSeq(ss) = ss
      BY <1>1 DEF FlattenSeq
    <2>3. << >> \in Seq(S) /\ DOMAIN << >> = {}
      OBVIOUS
    <2>4. Range(<< >>) = {}
      BY <2>3 DEF Range
    <2>5. Content(<< >>) = {}
      BY <2>3 DEF Content
    <2> QED
      BY <2>1, <2>2, <2>3, <2>4, <2>5
  <1>2. CASE N # 0
    <2>1. Flattens(f, ss)
      BY FlattensExists
    <2>2. FlattenSeq(ss) = f[N]
      BY <1>2 DEF FlattenSeq, Flattens
    <2> HIDE DEF f
    <2> DEFINE Upto(n) == UNION {Range(ss[i]) : i \in 1..n}
               P == {n \in Nat : n + 1 <= N => f[n + 1] \in Seq(S) /\ Range(f[n + 1]) = Upto(n + 1)}
    <2>3. 0 \in P
      <3>1. f[1] = ss[1] /\ ss[1] \in Seq(S)
        BY <1>0, <1>2, <2>1 DEF Flattens
      <3>2. Upto(1) = Range(ss[1])
        OBVIOUS
      <3> HIDE DEF Upto, N
      <3> QED
        BY <3>1, <3>2
    <2>4. ASSUME NEW n \in P PROVE n + 1 \in P
      <3> SUFFICES ASSUME (n + 1) + 1 <= N
                   PROVE  f[(n + 1) + 1] \in Seq(S) /\ Range(f[(n + 1) + 1]) = Upto((n + 1) + 1)
        OBVIOUS
      <3>1. n \in Nat /\ (n + 1) + 1 \in 1..N /\ (n + 1) + 1 # 1 /\ ((n + 1) + 1) - 1 = n + 1 /\ n + 1 <= N
        BY <1>0
      <3>2. PICK m : m = (n + 1) + 1
        OBVIOUS
      <3>3. f[m] = f[n + 1] \o ss[m] /\ ss[m] \in Seq(S)
        BY <1>0, <2>1, <3>1, <3>2 DEF Flattens
      <3>4. f[n + 1] \in Seq(S) /\ Range(f[n + 1]) = Upto(n + 1)
        BY <3>1
      <3>5. f[m] \in Seq(S) /\ Range(f[m]) = Upto(n + 1) \cup Range(ss[m])
        <4> HIDE DEF Upto, N
        <4> QED
          BY <3>3, <3>4, ConcatRange
      <3>6. 1..m = (1..(n + 1)) \cup {m}
        BY <3>1, <3>2
      <3>7. Upto(m) = Upto(n + 1) \cup Range(ss[m])
        BY <3>6
      <3> HIDE DEF Upto, N
      <3> QED
        BY <3>2, <3>5, <3>7
    <2>5. P = Nat
      <3> HIDE DEF P
      <3>1. P \in SUBSET Nat
        BY DEF P
      <3> QED
        BY <2>3, <2>4, <3>1, NatSetInduction
    <2>6. N - 1 \in Nat /\ (N - 1) + 1 = N
      BY <1>0, <1>2
    <2>7. f[N] \in Seq(S) /\ Range(f[N]) = Upto(N)
      <3>1. N - 1 \in P
        BY <2>5, <2>6
      <3> HIDE DEF Upto, N
      <3> QED
        BY <2>6, <3>1
    <2> QED
      BY <2>2, <2>7, <1>0 DEF Content
  <1> QED
    BY <1>1, <1>2

\* A finite set of numbers has a bound.
LEMMA FiniteIsBounded ==
  ASSUME NEW S \in SUBSET (Nat \ {0}), IsFiniteSet(S)
  PROVE  \E n \in Nat : S \in SUBSET (1..n)
  <1> DEFINE Bounded(f, n) == \E b \in Nat : \A i \in 1..n : f[i] <= b
             P == {n \in Nat : \A f \in [1..n -> Nat] : Bounded(f, n)}
  <1>1. 0 \in P
    OBVIOUS
  <1>2. ASSUME NEW n \in P PROVE n + 1 \in P
    <2>0. n + 1 \in Nat
      OBVIOUS
    <2> SUFFICES ASSUME NEW f \in [1..(n + 1) -> Nat] PROVE Bounded(f, n + 1)
      BY <2>0
    <2>1. n \in Nat /\ 1..n \subseteq 1..(n + 1) /\ n + 1 \in 1..(n + 1)
      OBVIOUS
    <2>2. [i \in 1..n |-> f[i]] \in [1..n -> Nat]
      BY <2>1
    <2>3. Bounded([i \in 1..n |-> f[i]], n)
      BY <2>2
    <2>4. PICK b \in Nat : \A i \in 1..n : f[i] <= b
      BY <2>3
    <2>5. f[n + 1] \in Nat
      BY <2>1
    <2>6. ASSUME NEW i \in 1..(n + 1) PROVE f[i] <= b + f[n + 1]
      <3>1. i \in 1..n \/ i = n + 1
        BY <2>1
      <3>2. f[i] \in Nat
        OBVIOUS
      <3> QED
        BY <3>1, <3>2, <2>4, <2>5
    <2>7. b + f[n + 1] \in Nat
      BY <2>5
    <2> QED
      BY <2>6, <2>7
  <1>3. P = Nat
    <2> HIDE DEF P
    <2>1. P \in SUBSET Nat
      BY DEF P
    <2> QED
      BY <1>1, <1>2, <2>1, NatSetInduction
  <1>4. PICK n \in Nat : ExistsBijection(1..n, S)
    BY FS_NatBijection
  <1>5. PICK f : f \in [1..n -> S] /\ \A t \in S : \E s \in 1..n : f[s] = t
    BY <1>4 DEF ExistsBijection, Bijection, Surjection
  <1>6. n \in P /\ f \in [1..n -> Nat]
    <2>1. f \in [1..n -> Nat]
      BY <1>5
    <2> HIDE DEF P
    <2> QED
      BY <1>3, <2>1
  <1>7. PICK b \in Nat : \A i \in 1..n : f[i] <= b
    BY <1>6
  <1>8. \A t \in S : t \in 1..b
    BY <1>5, <1>7
  <1> QED
    BY <1>8

\* The queue infos by count are those of the pub.
LEMMA InfoFacts ==
  ASSUME NEW p \in Pub
  PROVE  /\ InfoByCount[p] \in Seq(DOMAIN InfoOf)
         /\ Range(InfoByCount[p]) \subseteq Range(PubOf[p].infos)
         /\ Range(PubOf[p].infos) \subseteq DOMAIN InfoOf
  <1> DEFINE D == DOMAIN InfoOf
             infos == PubOf[p].infos
             n(k) == IF InfoOf[infos[k]].count = -1 THEN MaxCount ELSE InfoOf[infos[k]].count
             ss == [k \in DOMAIN infos |-> [j \in 1..n(k) |-> infos[k]]]
  <1>1. infos \in Seq(D)
    BY DeliveryAssumption
  <1>2. DOMAIN infos = 1..Len(infos) /\ Len(infos) \in Nat /\ \A k \in DOMAIN infos : infos[k] \in D
    BY <1>1
  <1>3. \A k \in DOMAIN infos : n(k) \in Nat
    BY <1>2, DeliveryAssumption
  <1>4. InfoByCount[p] = FlattenSeq(ss)
    BY DEF InfoByCount
  <1>5. ASSUME NEW k \in DOMAIN infos
        PROVE  /\ ss[k] \in Seq(D)
               /\ \A x \in Range(ss[k]) : x = infos[k]
    <2>1. ss[k] = [j \in 1..n(k) |-> infos[k]]
      OBVIOUS
    <2>2. PICK m \in Nat : m = n(k)
      BY <1>3
    <2>3. PICK v \in D : v = infos[k]
      BY <1>2
    <2>4. ss[k] = [j \in 1..m |-> v]
      BY <2>1, <2>2, <2>3
    <2> HIDE DEF ss
    <2>5. ss[k] \in Seq(D)
      BY <2>4
    <2>6. \A x \in Range(ss[k]) : x = v
      BY <2>4 DEF Range
    <2> QED
      BY <2>3, <2>5, <2>6
  <1>6. ss \in Seq(Seq(D))
    <2>1. DOMAIN ss = 1..Len(infos)
      BY <1>2
    <2>2. \A k \in 1..Len(infos) : ss[k] \in Seq(D)
      BY <1>2, <1>5
    <2>3. ss = [k \in 1..Len(infos) |-> ss[k]]
      BY <1>2
    <2> HIDE DEF ss
    <2> QED
      BY <1>2, <2>1, <2>2, <2>3
  <1>7. DOMAIN ss = DOMAIN infos
    OBVIOUS
  <1> HIDE DEF ss
  <1>8. InfoByCount[p] \in Seq(D) /\ Range(InfoByCount[p]) = Content(ss)
    BY <1>4, <1>6, FlattenContent
  <1>9. Content(ss) \subseteq Range(infos)
    BY <1>5, <1>7 DEF Content, Range
  <1>10. Range(infos) \subseteq D
    BY <1>2 DEF Range
  <1> QED
    BY <1>8, <1>9, <1>10

\* The queue info of an item that has one is one of its pub.
LEMMA InfoOfItem ==
  ASSUME NEW it \in Item, Takable(it)
  PROVE  GetQueueInfoIDByCount(it.pub, it.count) \in Range(PubOf[it.pub].infos)
  <1>1. it.pub \in Pub /\ it.count \in Nat
    BY DEF Item
  <1>2. PICK s : s = InfoByCount[it.pub]
    OBVIOUS
  <1>3. s \in Seq(DOMAIN InfoOf) /\ Range(s) \subseteq Range(PubOf[it.pub].infos)
    BY <1>1, <1>2, InfoFacts
  <1>4. it.count + 1 \in 1..Len(s)
    BY <1>1, <1>2, <1>3 DEF Takable
  <1>5. s[it.count + 1] \in Range(s)
    BY <1>3, <1>4, RangeType
  <1> QED
    BY <1>2, <1>3, <1>5 DEF GetQueueInfoIDByCount

\* A rank falls to a queue of the queue info.
LEMMA RankFacts ==
  ASSUME NEW i \in DOMAIN InfoOf, NEW rank \in Nat
  PROVE  GetQueueByLoopRank(i, rank) \in QueuesOfInfo(i) /\ QueuesOfInfo(i) \subseteq QueueID
  <1> DEFINE r == InfoOf[i].ranges
             ss == [k \in DOMAIN r |-> [j \in 1..(r[k][2] - r[k][1] + 1) |-> r[k][1] + j - 1]]
  <1>1. r \in Seq(Nat \X Nat) /\ r # << >> /\ \A k \in DOMAIN r : r[k][1] <= r[k][2]
    BY DeliveryAssumption
  <1>2. /\ DOMAIN r = 1..Len(r) /\ Len(r) \in Nat /\ Len(r) > 0
        /\ \A k \in DOMAIN r : r[k][1] \in Nat /\ r[k][2] \in Nat
    BY <1>1
  <1>3. Ranked[i] = FlattenSeq(ss)
    BY DEF Ranked
  <1>4. ASSUME NEW k \in DOMAIN r PROVE ss[k] \in Seq(Int) /\ 1 \in DOMAIN ss[k]
    <2>1. PICK lo \in Nat, hi \in Nat : lo = r[k][1] /\ hi = r[k][2]
      BY <1>2
    <2>2. lo <= hi
      BY <1>1, <2>1
    <2>3. ss[k] = [j \in 1..(hi - lo + 1) |-> lo + j - 1]
      BY <2>1
    <2>4. hi - lo + 1 \in Nat /\ \A j \in 1..(hi - lo + 1) : lo + j - 1 \in Int
      BY <2>2
    <2>5. PICK m \in Nat : m = hi - lo + 1
      BY <2>4
    <2> HIDE DEF ss
    <2>6. ss[k] \in Seq(Int)
      BY <2>3, <2>4, <2>5
    <2>7. 1 \in DOMAIN ss[k]
      BY <2>2, <2>3
    <2> QED
      BY <2>6, <2>7
  <1>5. DOMAIN ss = 1..Len(r)
    BY <1>2
  <1>6. ss \in Seq(Seq(Int))
    <2>1. \A k \in 1..Len(r) : ss[k] \in Seq(Int)
      BY <1>2, <1>4
    <2>2. ss = [k \in 1..Len(r) |-> ss[k]]
      BY <1>2
    <2> HIDE DEF ss
    <2> QED
      BY <1>2, <2>1, <2>2
  <1> HIDE DEF ss
  <1>7. Ranked[i] \in Seq(Int) /\ Range(Ranked[i]) = Content(ss)
    BY <1>3, <1>6, FlattenContent
  <1>8. Len(Ranked[i]) > 0
    <2>1. 1 \in DOMAIN ss /\ 1 \in DOMAIN ss[1]
      BY <1>2, <1>4, <1>5
    <2>2. ss[1][1] \in Content(ss)
      BY <2>1 DEF Content, Range
    <2>3. Range(Ranked[i]) # {}
      BY <1>7, <2>2
    <2> QED
      BY <1>7, <2>3 DEF Range
  <1>9. PICK n \in Nat : n = Len(Ranked[i]) /\ n > 0
    BY <1>7, <1>8
  <1>10. (rank % n) + 1 \in 1..n
    <2>1. n \in Nat \ {0}
      BY <1>9
    <2>2. rank % n \in 0..(n - 1)
      BY <2>1
    <2> QED
      BY <2>1, <2>2
  <1>11. Ranked[i][(rank % n) + 1] \in Range(Ranked[i])
    BY <1>7, <1>9, <1>10, RangeType
  <1>12. QueuesOfInfo(i) \subseteq QueueID
    BY DEF QueueID
  <1> QED
    BY <1>9, <1>11, <1>12 DEF GetQueueByLoopRank, QueuesOfInfo

LEMMA AppendRange ==
  ASSUME NEW S, NEW s \in Seq(S), NEW it \in S
  PROVE  Append(s, it) \in Seq(S) /\ Append(s, it) # << >> /\ Range(Append(s, it)) = Range(s) \cup {it}
  <1> DEFINE one == <<it>>
  <1>1. one \in Seq(S) /\ Append(s, it) = s \o one
    OBVIOUS
  <1>2. Range(one) = {it}
    BY DEF Range
  <1> HIDE DEF one
  <1>3. Range(s \o one) = Range(s) \cup Range(one)
    BY <1>1, ConcatRange
  <1>4. Append(s, it) \in Seq(S) /\ Len(Append(s, it)) = Len(s) + 1 /\ Len(s) \in Nat
    OBVIOUS
  <1>5. Len(Append(s, it)) # 0
    BY <1>4
  <1>6. Append(s, it) # << >>
    BY <1>4, <1>5
  <1> QED
    BY <1>1, <1>2, <1>3, <1>4, <1>6

\* A request takes one more item, or a new one starts with it.
LEMMA Append1Facts ==
  ASSUME NEW S, NEW reqs \in Seq(Seq(S)), NEW it \in S, \A k \in DOMAIN reqs : reqs[k] # << >>,
         NEW r, r = Append1(reqs, it)
  PROVE  /\ r \in Seq(Seq(S)) /\ \A k \in DOMAIN r : r[k] # << >>
         /\ Content(r) = Content(reqs) \cup {it}
  <1>0. Len(reqs) \in Nat /\ DOMAIN reqs = 1..Len(reqs) /\ \A k \in 1..Len(reqs) : reqs[k] \in Seq(S)
    OBVIOUS
  <1>1. ASSUME reqs # << >>, r = [reqs EXCEPT ![Len(reqs)] = Append(@, it)]
        PROVE  /\ r \in Seq(Seq(S)) /\ \A k \in DOMAIN r : r[k] # << >>
               /\ Content(r) = Content(reqs) \cup {it}
    <2>0. Len(reqs) # 0
      BY <1>1
    <2>1. PICK n : n = Len(reqs) /\ n \in Nat /\ n > 0
      <3>1. Len(reqs) > 0
        BY <1>0, <2>0
      <3> QED
        BY <1>0, <3>1
    <2>2. PICK last \in Seq(S) : last = reqs[n]
      BY <1>0, <2>1
    <2>3. Append(last, it) \in Seq(S) /\ Append(last, it) # << >>
          /\ Range(Append(last, it)) = Range(last) \cup {it}
      BY AppendRange
    <2>4. PICK more \in Seq(S) : more = Append(last, it) /\ more # << >> /\ Range(more) = Range(last) \cup {it}
      BY <2>3
    <2>5. r = [reqs EXCEPT ![n] = more]
      BY <1>1, <2>1, <2>2, <2>4
    <2>6. r \in Seq(Seq(S)) /\ Len(r) = n /\ DOMAIN r = 1..n
      BY <1>0, <2>1, <2>5
    <2>7. \A k \in 1..n : r[k] = IF k = n THEN more ELSE reqs[k]
      BY <1>0, <2>1, <2>5
    <2>8. \A k \in DOMAIN r : r[k] # << >>
      BY <1>0, <2>1, <2>4, <2>6, <2>7
    <2>9. Content(r) = Content(reqs) \cup {it}
      <3>1. Content(r) \subseteq Content(reqs) \cup {it}
        BY <1>0, <2>1, <2>2, <2>4, <2>6, <2>7 DEF Content
      <3>2. ASSUME NEW k \in 1..n PROVE Range(reqs[k]) \subseteq Range(r[k])
        BY <2>2, <2>4, <2>7
      <3>3. Content(reqs) \subseteq Content(r)
        BY <1>0, <2>1, <2>6, <3>2 DEF Content
      <3>4. it \in Range(r[n]) /\ n \in DOMAIN r
        <4>1. n \in 1..n
          BY <2>1
        <4>2. r[n] = more
          BY <2>7, <4>1
        <4> QED
          BY <2>4, <2>6, <4>1, <4>2
      <3>5. it \in Content(r)
        BY <3>4 DEF Content
      <3> QED
        BY <3>1, <3>3, <3>5
    <2> QED
      BY <2>6, <2>8, <2>9
  <1>2. ASSUME r = Append(reqs, <<it>>)
        PROVE  /\ r \in Seq(Seq(S)) /\ \A k \in DOMAIN r : r[k] # << >>
               /\ Content(r) = Content(reqs) \cup {it}
    <2>1. PICK one \in Seq(S) : one = <<it>> /\ one # << >> /\ Range(one) = {it}
      <3>1. <<it>> \in Seq(S) /\ <<it>> # << >>
        OBVIOUS
      <3>2. Range(<<it>>) = {it}
        BY DEF Range
      <3> QED
        BY <3>1, <3>2
    <2>2. r \in Seq(Seq(S)) /\ Len(r) = Len(reqs) + 1 /\ DOMAIN r = 1..(Len(reqs) + 1)
      BY <1>2, <2>1
    <2>3. \A k \in 1..(Len(reqs) + 1) : r[k] = IF k = Len(reqs) + 1 THEN one ELSE reqs[k]
      BY <1>2, <2>1
    <2>4. 1..(Len(reqs) + 1) = (1..Len(reqs)) \cup {Len(reqs) + 1} /\ Len(reqs) + 1 \notin 1..Len(reqs)
      BY <1>0
    <2>5. \A k \in DOMAIN r : r[k] # << >>
      BY <1>0, <2>1, <2>2, <2>3, <2>4
    <2>6. Content(r) = Content(reqs) \cup {it}
      <3>1. r[Len(reqs) + 1] = one /\ \A k \in 1..Len(reqs) : r[k] = reqs[k]
        BY <2>3, <2>4
      <3> QED
        <4>1. {Range(r[k]) : k \in DOMAIN r} = {Range(reqs[k]) : k \in DOMAIN reqs} \cup {Range(one)}
          BY <1>0, <2>2, <2>4, <3>1
        <4> QED
          BY <2>1, <4>1 DEF Content
    <2> QED
      BY <2>2, <2>5, <2>6
  <1> QED
    BY <1>1, <1>2 DEF Append1

Makes(f, items) == f = [k \in 0..Len(items) |-> IF k = 0 THEN << >> ELSE Append1(f[k - 1], items[k])]

\* The requests hold the items, and no request is empty.
LEMMA SplitFacts ==
  ASSUME NEW S, NEW items \in Seq(S)
  PROVE  /\ Split(items) \in Seq(Seq(S)) /\ \A k \in DOMAIN Split(items) : Split(items)[k] # << >>
         /\ Content(Split(items)) = Range(items)
  <1> DEFINE N == Len(items)
             T == {r \in Seq(Seq(S)) : \A k \in DOMAIN r : r[k] # << >>}
             step == [n \in 1..N |-> [r \in T |-> Append1(r, items[n])]]
  <1>0. N \in Nat /\ DOMAIN items = 1..N /\ \A n \in 1..N : items[n] \in S
    OBVIOUS
  <1>1. ASSUME NEW r \in T, NEW n \in 1..N
        PROVE  Append1(r, items[n]) \in T /\ Content(Append1(r, items[n])) = Content(r) \cup {items[n]}
    <2>1. r \in Seq(Seq(S)) /\ \A k \in DOMAIN r : r[k] # << >>
      OBVIOUS
    <2> HIDE DEF N
    <2>2. items[n] \in S
      BY <1>0
    <2> QED
      BY <2>1, <2>2, Append1Facts
  <1>2. << >> \in T
    OBVIOUS
  <1>3. T \subseteq Seq(Seq(S)) /\ \A r \in T : \A k \in DOMAIN r : r[k] # << >>
    OBVIOUS
  <1> HIDE DEF T, N
  <1>4. \A n \in 1..N : step[n] \in [T -> T]
    BY <1>1
  <1>5. \A n \in 1..N : \A r \in T : step[n][r] = Append1(r, items[n])
    OBVIOUS
  <1> HIDE DEF step
  <1>6. PICK g \in [0..N -> T] : Iterates(g, N, << >>, step)
    BY <1>0, <1>2, <1>4, IterationExists
  <1>7. Makes(g, items)
    <2>1. \A n \in 1..N : step[n][g[n - 1]] = Append1(g[n - 1], items[n])
      <3> SUFFICES ASSUME NEW n \in 1..N PROVE step[n][g[n - 1]] = Append1(g[n - 1], items[n])
        OBVIOUS
      <3>1. g[n - 1] \in T
        BY <1>0
      <3> QED
        BY <3>1, <1>5
    <2> QED
      BY <1>0, <1>6, <2>1 DEF Iterates, Makes, N
  <1> DEFINE f == CHOOSE x : Makes(x, items)
  <1>8. Makes(f, items)
    BY <1>7
  <1>9. Split(items) = f[N]
    BY DEF Split, Makes, N
  <1> HIDE DEF f
  <1> DEFINE Upto(n) == {items[i] : i \in 1..n}
             P == {n \in Nat : n <= N => f[n] \in T /\ Content(f[n]) = Upto(n)}
  <1>10. 0 \in P
    <2>1. f[0] = << >>
      BY <1>0, <1>8 DEF Makes, N
    <2>2. Content(<< >>) = {} /\ Upto(0) = {}
      BY DEF Content
    <2> HIDE DEF Upto
    <2> QED
      BY <2>1, <2>2, <1>2
  <1>11. ASSUME NEW n \in P PROVE n + 1 \in P
    <2>0. n + 1 \in Nat /\ n \in Nat
      OBVIOUS
    <2> SUFFICES ASSUME n + 1 <= N PROVE f[n + 1] \in T /\ Content(f[n + 1]) = Upto(n + 1)
      BY <2>0
    <2>1. n <= N /\ n + 1 \in 1..N /\ n + 1 \in 0..N /\ n + 1 # 0 /\ (n + 1) - 1 = n
      BY <1>0, <2>0
    <2>2. f[n] \in T /\ Content(f[n]) = Upto(n)
      BY <2>1
    <2>3. f[n + 1] = Append1(f[n], items[n + 1])
      BY <1>8, <2>1 DEF Makes, N
    <2>4. f[n + 1] \in T /\ Content(f[n + 1]) = Upto(n) \cup {items[n + 1]}
      <3> HIDE DEF Upto
      <3> QED
        BY <1>1, <2>1, <2>2, <2>3
    <2>5. 1..(n + 1) = (1..n) \cup {n + 1}
      BY <2>0
    <2>6. Upto(n + 1) = Upto(n) \cup {items[n + 1]}
      BY <2>5
    <2> HIDE DEF Upto
    <2> QED
      BY <2>4, <2>6
  <1>12. P = Nat
    <2> HIDE DEF P
    <2>1. P \in SUBSET Nat
      BY DEF P
    <2> QED
      BY <1>10, <1>11, <2>1, NatSetInduction
  <1>13. f[N] \in T /\ Content(f[N]) = Upto(N)
    <2>1. N \in P /\ N <= N
      <3> HIDE DEF P
      <3> QED
        BY <1>0, <1>12
    <2> HIDE DEF Upto
    <2> QED
      BY <2>1
  <1>14. Upto(N) = Range(items)
    BY <1>0 DEF Range
  <1> HIDE DEF Upto
  <1> QED
    BY <1>3, <1>9, <1>13, <1>14

\* What is picked out of a sequence.
LEMMA PickedFacts ==
  ASSUME NEW A, NEW s \in Seq(A), NEW S
  PROVE  Picked(s, S) \in Seq(A) /\ Range(Picked(s, S)) = Range(s) \cap S
  <1> DEFINE K == {k \in DOMAIN s : s[k] \in S}
             at == InOrder(K)
             n == Cardinality(K)
  <1>0. Len(s) \in Nat /\ DOMAIN s = 1..Len(s) /\ \A k \in 1..Len(s) : s[k] \in A
    OBVIOUS
  <1>1. K \in SUBSET (1..Len(s))
    BY <1>0
  <1>2. Picked(s, S) = [j \in DOMAIN at |-> s[at[j]]]
    BY DEF Picked
  <1>3. \A k \in K : k \in 1..Len(s) /\ s[k] \in S /\ s[k] \in Range(s)
    BY <1>0 DEF Range
  <1>4. \A x \in Range(s) \cap S : \E k \in K : s[k] = x
    BY DEF Range
  <1> HIDE DEF K
  <1>5. n \in Nat /\ at \in [1..n -> K] /\ \A k \in K : \E j \in 1..n : at[j] = k
    BY <1>0, <1>1, InOrderIsOrder
  <1> HIDE DEF n, at
  <1>6. DOMAIN at = 1..n /\ \A j \in 1..n : at[j] \in K
    BY <1>5
  <1>7. PICK t : t = [j \in 1..n |-> s[at[j]]]
    OBVIOUS
  <1>8. Picked(s, S) = t
    BY <1>2, <1>6, <1>7
  <1>9. \A j \in 1..n : t[j] = s[at[j]] /\ s[at[j]] \in A
    BY <1>0, <1>3, <1>6, <1>7
  <1>10. t \in Seq(A) /\ DOMAIN t = 1..n
    <2>1. t \in [1..n -> A]
      BY <1>7, <1>9
    <2> QED
      BY <2>1, <1>5
  <1>11. Range(t) \subseteq Range(s) \cap S
    BY <1>3, <1>6, <1>9, <1>10 DEF Range
  <1>12. ASSUME NEW x \in Range(s) \cap S PROVE x \in Range(t)
    <2>1. PICK k \in K : s[k] = x
      BY <1>4
    <2>2. PICK j \in 1..n : at[j] = k
      BY <1>5
    <2>3. t[j] = x
      BY <1>9, <2>1, <2>2
    <2> QED
      BY <1>10, <2>3 DEF Range
  <1> QED
    BY <1>8, <1>10, <1>11, <1>12

\* MakeAddRequests: each request holds items of one queue info, and every item
\* that has a queue info is in one.
LEMMA RequestFacts ==
  ASSUME NEW items \in Seq(Item), NEW r, r = MakeAddRequests(items)
  PROVE  /\ r \in Seq(Seq(Item)) /\ \A k \in DOMAIN r : Routed(r[k])
         /\ Content(r) = {it \in Range(items) : Takable(it)}
  <1> DEFINE D == DOMAIN InfoOf
             n == Cardinality(D)
             Mine(i) == {it \in Range(items) : Takable(it) /\ GetQueueInfoIDByCount(it.pub, it.count) = i}
             part(i) == Split(Picked(items, Mine(i)))
             ss == [j \in DOMAIN InfosInOrder |-> part(InfosInOrder[j])]
  <1>1. /\ n \in Nat /\ InfosInOrder \in [1..n -> D]
        /\ \A i \in D : \E j \in 1..n : InfosInOrder[j] = i
    <2>1. PICK b \in Nat : D \in SUBSET (1..b)
      BY DeliveryAssumption, FiniteIsBounded
    <2> HIDE DEF D
    <2> QED
      BY <2>1, InOrderIsOrder DEF InfosInOrder, D
  <1> HIDE DEF D, n
  <1>2. ASSUME NEW i
        PROVE  /\ part(i) \in Seq(Seq(Item)) /\ \A k \in DOMAIN part(i) : part(i)[k] # << >>
               /\ Content(part(i)) = Mine(i)
    <2>1. Picked(items, Mine(i)) \in Seq(Item) /\ Range(Picked(items, Mine(i))) = Range(items) \cap Mine(i)
      <3> HIDE DEF Mine
      <3> QED
        BY PickedFacts
    <2>2. Range(items) \cap Mine(i) = Mine(i)
      OBVIOUS
    <2> HIDE DEF Mine
    <2> QED
      BY <2>1, <2>2, SplitFacts
  <1>3. r = FlattenSeq(ss)
    BY DEF MakeAddRequests, OfInfo
  <1>4. DOMAIN ss = 1..n /\ \A j \in 1..n : ss[j] = part(InfosInOrder[j])
    BY <1>1
  <1> HIDE DEF part
  <1>5. ss \in Seq(Seq(Seq(Item)))
    <2>1. \A j \in 1..n : ss[j] \in Seq(Seq(Item))
      BY <1>2, <1>4
    <2>2. ss \in [1..n -> Seq(Seq(Item))]
      BY <1>1, <2>1, <1>4
    <2> HIDE DEF ss
    <2> QED
      BY <1>1, <2>2
  <1> HIDE DEF ss
  <1>6. r \in Seq(Seq(Item)) /\ Range(r) = Content(ss)
    BY <1>3, <1>5, FlattenContent
  <1>7. ASSUME NEW k \in DOMAIN r
        PROVE  \E i \in D : r[k] \in Range(part(i))
    <2>1. r[k] \in Content(ss)
      BY <1>6 DEF Range
    <2>2. PICK j \in 1..n : r[k] \in Range(ss[j])
      BY <2>1, <1>4 DEF Content
    <2> QED
      BY <2>2, <1>1, <1>4
  <1>8. ASSUME NEW i \in D, NEW q \in Range(part(i))
        PROVE  q # << >> /\ Range(q) \subseteq Mine(i) /\ q \in Range(r)
    <2>1. PICK k \in DOMAIN part(i) : q = part(i)[k]
      BY DEF Range
    <2>2. q # << >>
      BY <1>2, <2>1
    <2>3. Range(q) \subseteq Content(part(i))
      BY <2>1 DEF Content
    <2>4. PICK j \in 1..n : InfosInOrder[j] = i
      BY <1>1
    <2>5. q \in Content(ss)
      BY <1>4, <2>4 DEF Content
    <2> HIDE DEF Mine
    <2> QED
      BY <1>2, <1>6, <2>2, <2>3, <2>5
  <1>9. ASSUME NEW k \in DOMAIN r PROVE Routed(r[k])
    <2>1. PICK i \in D : r[k] \in Range(part(i))
      BY <1>7
    <2>2. r[k] # << >> /\ Range(r[k]) \subseteq Mine(i)
      BY <1>8, <2>1
    <2> QED
      BY <2>2 DEF Routed, D
  <1>10. Content(r) \subseteq {it \in Range(items) : Takable(it)}
    <2> SUFFICES ASSUME NEW k \in DOMAIN r PROVE Range(r[k]) \subseteq {it \in Range(items) : Takable(it)}
      BY DEF Content
    <2>1. PICK i \in D : r[k] \in Range(part(i))
      BY <1>7
    <2>2. Range(r[k]) \subseteq Mine(i)
      BY <1>8, <2>1
    <2> QED
      BY <2>2
  <1>11. ASSUME NEW it \in Range(items), Takable(it) PROVE it \in Content(r)
    <2>0. Range(items) \subseteq Item
      BY RangeType
    <2>1. it \in Item /\ it.pub \in Pub
      BY <2>0 DEF Item
    <2>2. PICK i : i = GetQueueInfoIDByCount(it.pub, it.count)
      OBVIOUS
    <2>3. i \in D
      BY <1>11, <2>1, <2>2, InfoOfItem, InfoFacts DEF D
    <2>4. it \in Mine(i)
      BY <1>11, <2>2
    <2>5. it \in Content(part(i))
      <3> HIDE DEF Mine
      <3> QED
        BY <1>2, <2>4
    <2>6. PICK k \in DOMAIN part(i) : it \in Range(part(i)[k])
      BY <2>5 DEF Content
    <2>7. part(i)[k] \in Range(part(i))
      BY DEF Range
    <2>8. part(i)[k] \in Range(r)
      BY <1>8, <2>3, <2>7
    <2>9. PICK m \in DOMAIN r : r[m] = part(i)[k]
      BY <2>8 DEF Range
    <2> QED
      BY <2>6, <2>9 DEF Content
  <1> QED
    BY <1>6, <1>9, <1>10, <1>11

-----------------------------------------------------------------------------
(* The way of an item: types, requests and retries.                        *)

\* A hash falls to one of the stores.
LEMMA HashFacts ==
  ASSUME NEW stores \in SUBSET StoreID, stores # {}, NEW hash \in Nat
  PROVE  HashInto(stores, hash) \in stores
  <1> DEFINE n == Cardinality(stores)
  <1>1. IsFiniteSet(StoreID) /\ StoreID \in SUBSET (Nat \ {0})
    BY DeliveryAssumption
  <1>2. PICK b \in Nat : StoreID \in SUBSET (1..b)
    BY <1>1, FiniteIsBounded
  <1>3. stores \in SUBSET (1..b)
    BY <1>2
  <1>4. /\ n \in Nat /\ InOrder(stores) \in [1..n -> stores]
        /\ \A x \in stores : \E i \in 1..n : InOrder(stores)[i] = x
    BY <1>3, InOrderIsOrder
  <1> HIDE DEF n
  <1>5. n \in Nat \ {0}
    BY <1>4
  <1>6. hash % n \in 0..(n - 1)
    BY <1>5
  <1>7. (hash % n) + 1 \in 1..n
    BY <1>5, <1>6
  <1> QED
    BY <1>4, <1>7 DEF HashInto, n

\* The store of an attempt serves some pub, and the ring stays one.
LEMMA StoreFacts ==
  ASSUME DeliveryTypeOK, RingsOK, NEW c \in Caller, NEW p \in Pub, NEW hash \in Nat
  PROVE  /\ GetStoreID(c, p, RingAfter(c, p), hash) \in StoreID
         /\ \E r \in Pub : GetStoreID(c, p, RingAfter(c, p), hash) \in StoresFor(r)
         /\ \E r \in Pub : RingAfter(c, p) = StoresFor(r)
         /\ RingAfter(c, p) \in SUBSET StoreID
  <1>1. PICK r \in Pub : RingAfter(c, p) = StoresFor(r)
    BY DEF RingAfter, RingsOK
  <1>2. \A z \in Pub : StoresFor(z) \in SUBSET StoreID /\ StoresFor(z) # {}
    BY DeliveryAssumption DEF StoresFor
  <1>3. PICK onRing : onRing = RingAfter(c, p)
    OBVIOUS
  <1>4. onRing = StoresFor(r) /\ onRing \in SUBSET StoreID /\ onRing # {}
    BY <1>1, <1>2, <1>3
  <1>5. PICK untried : untried = (StoresFor(p) \cap onRing) \ tried[c].stores
    OBVIOUS
  <1>6. PICK stores : stores = IF ~(SwitchStore /\ tried[c].n > 0) THEN onRing
                               ELSE IF untried # {} THEN untried ELSE StoresFor(p)
    OBVIOUS
  <1>7. GetStoreID(c, p, onRing, hash) = HashInto(stores, hash)
    BY <1>5, <1>6 DEF GetStoreID
  <1>8. stores \in SUBSET StoreID /\ stores # {} /\ (stores \subseteq StoresFor(r) \/ stores \subseteq StoresFor(p))
    BY <1>2, <1>4, <1>5, <1>6
  <1>9. HashInto(stores, hash) \in stores
    BY <1>8, HashFacts
  <1> QED
    BY <1>1, <1>3, <1>4, <1>7, <1>8, <1>9

\* One attempt of SelectAndAdd.
LEMMA AttemptFacts ==
  ASSUME DeliveryTypeOK, RequestsOK, RingsOK, NEW c \in Caller, NEW hash \in Hashes, NEW o,
         SelectAndAdd(c, hash, o)
  PROVE  \E req \in Seq(Item), s \in StoreID, q \in QueueID, i \in DOMAIN InfoOf :
           /\ todo[c] # << >> /\ req = todo[c][1] /\ req # << >>
           /\ \A it \in Range(req) : Takable(it) /\ GetQueueInfoIDByCount(it.pub, it.count) = i
           /\ \A it \in Range(req) : IsOwn(it)
           /\ q \in QueuesOfInfo(i) /\ \E r \in Pub : s \in StoresFor(r)
           /\ \/ /\ Sent(c) /\ log' = log
                 /\ settled' = settled \cup UNION {{it.id} \X it.mask : it \in Range(req)}
              \/ /\ Sent(c) /\ log' = [log EXCEPT ![<<s, q>>] = @ \o req] /\ settled' = settled
              \/ /\ NotSent(c, s) /\ settled' = settled
                 /\ log' = log \/ log' = [log EXCEPT ![<<s, q>>] = @ \o req]
  <1>0. hash \in Nat /\ todo[c] \in Seq(Seq(Item)) /\ todo[c] # << >>
    BY DeliveryAssumption DEF DeliveryTypeOK, SelectAndAdd
  <1>1. PICK req : req = todo[c][1]
    OBVIOUS
  <1>2. 1 \in DOMAIN todo[c] /\ req \in Seq(Item)
    BY <1>0, <1>1
  <1>3. Routed(req) /\ \A it \in Range(req) : IsOwn(it)
    BY <1>1, <1>2 DEF RequestsOK
  <1>4. req # << >>
    BY <1>3 DEF Routed
  <1>5. req[1] \in Range(req) /\ req[1] \in Item
    <2>1. 1 \in DOMAIN req
      BY <1>2, <1>4
    <2> QED
      BY <1>2, <2>1 DEF Range
  <1>6. PICK i \in DOMAIN InfoOf :
          \A it \in Range(req) : Takable(it) /\ GetQueueInfoIDByCount(it.pub, it.count) = i
    BY <1>3 DEF Routed
  <1>7. PICK p \in Pub : p = req[1].pub
    BY <1>5 DEF Item
  <1>8. i = GetQueueInfoIDByCount(p, req[1].count)
    BY <1>5, <1>6, <1>7
  <1>9. PICK q : q = GetQueueByLoopRank(i, hash)
    OBVIOUS
  <1>10. PICK s : s = GetStoreID(c, p, RingAfter(c, p), hash)
    OBVIOUS
  <1>11. q \in QueuesOfInfo(i) /\ q \in QueueID
    BY <1>0, <1>9, RankFacts
  <1>12. s \in StoreID /\ \E r \in Pub : s \in StoresFor(r)
    BY <1>0, <1>10, StoreFacts
  <1>13. \/ /\ Sent(c) /\ log' = log
            /\ settled' = settled \cup UNION {{it.id} \X it.mask : it \in Range(req)}
         \/ /\ Sent(c) /\ log' = [log EXCEPT ![<<s, q>>] = @ \o req] /\ settled' = settled
         \/ /\ NotSent(c, s) /\ settled' = settled
            /\ log' = log \/ log' = [log EXCEPT ![<<s, q>>] = @ \o req]
    BY <1>1, <1>7, <1>8, <1>9, <1>10 DEF SelectAndAdd
  <1> QED
    BY <1>0, <1>1, <1>2, <1>3, <1>4, <1>6, <1>11, <1>12, <1>13

\* What an attempt does to the logs.
LEMMA LogMore ==
  ASSUME DeliveryTypeOK, NEW req \in Seq(Item), NEW sq \in StoreID \X QueueID,
         log' = log \/ log' = [log EXCEPT ![sq] = @ \o req]
  PROVE  /\ log' \in [StoreID \X QueueID -> Seq(Item)]
         /\ \A x \in StoreID \X QueueID :
              /\ Len(log[x]) \in Nat /\ Len(log'[x]) \in Nat /\ Len(log[x]) <= Len(log'[x])
              /\ \A k \in 1..Len(log[x]) : log'[x][k] = log[x][k]
              /\ Range(log'[x]) \subseteq Range(log[x]) \cup Range(req)
  <1>0. log \in [StoreID \X QueueID -> Seq(Item)]
    BY DEF DeliveryTypeOK
  <1>1. CASE log' = log
    BY <1>0, <1>1
  <1>2. CASE log' = [log EXCEPT ![sq] = @ \o req]
    <2>1. PICK old \in Seq(Item) : old = log[sq]
      BY <1>0
    <2>2. PICK new : new = old \o req
      OBVIOUS
    <2>3. new \in Seq(Item) /\ Range(new) = Range(old) \cup Range(req)
      BY <2>2, ConcatRange
    <2>4. /\ Len(new) = Len(old) + Len(req) /\ Len(old) \in Nat /\ Len(req) \in Nat
          /\ \A k \in 1..Len(old) : new[k] = old[k]
      BY <2>2
    <2>5. log' = [log EXCEPT ![sq] = new]
      BY <1>2, <2>1, <2>2
    <2>6. log' \in [StoreID \X QueueID -> Seq(Item)]
      BY <1>0, <2>3, <2>5
    <2>7. ASSUME NEW x \in StoreID \X QueueID
          PROVE  /\ Len(log[x]) \in Nat /\ Len(log'[x]) \in Nat /\ Len(log[x]) <= Len(log'[x])
                 /\ \A k \in 1..Len(log[x]) : log'[x][k] = log[x][k]
                 /\ Range(log'[x]) \subseteq Range(log[x]) \cup Range(req)
      <3>1. CASE x = sq
        <4>1. log[x] = old /\ log'[x] = new
          BY <1>0, <2>1, <2>5, <3>1
        <4> QED
          BY <2>3, <2>4, <4>1
      <3>2. CASE x # sq
        <4>1. log'[x] = log[x] /\ log[x] \in Seq(Item)
          BY <1>0, <2>5, <3>2
        <4> QED
          BY <4>1
      <3> QED
        BY <3>1, <3>2
    <2> QED
      BY <2>6, <2>7
  <1> QED
    BY <1>1, <1>2

\* What an attempt does to the requests: the first one may be gone.
LEMMA TodoLess ==
  ASSUME DeliveryTypeOK, NEW c \in Caller, NEW s \in StoreID, NEW req \in Seq(Item), req # << >>,
         todo[c] # << >>, req = todo[c][1], Sent(c) \/ NotSent(c, s)
  PROVE  /\ todo' \in [Caller -> Seq(Seq(Item))]
         /\ tried' \in [Caller -> [n : 0..NRetry, stores : SUBSET StoreID]]
         /\ accepted' \subseteq Item
         /\ \A d \in Caller : \A k \in DOMAIN todo'[d] : \E m \in DOMAIN todo[d] : todo'[d][k] = todo[d][m]
  <1>0. /\ todo \in [Caller -> Seq(Seq(Item))] /\ accepted \subseteq Item
        /\ tried \in [Caller -> [n : 0..NRetry, stores : SUBSET StoreID]] /\ NRetry \in Nat
    BY DeliveryAssumption DEF DeliveryTypeOK
  <1>1. PICK t \in Seq(Seq(Item)) : t = todo[c] /\ t # << >>
    BY <1>0
  <1>2. Fresh \in [n : 0..NRetry, stores : SUBSET StoreID]
    BY <1>0 DEF Fresh
  <1>3. /\ Tail(t) \in Seq(Seq(Item)) /\ DOMAIN Tail(t) = 1..(Len(t) - 1) /\ DOMAIN t = 1..Len(t) /\ Len(t) \in Nat
        /\ \A k \in 1..(Len(t) - 1) : k + 1 \in 1..Len(t) /\ Tail(t)[k] = t[k + 1]
    BY <1>1
  <1>4. req[1] \in Item
    OBVIOUS
  <1>5. accepted' \subseteq Item
    BY <1>0, <1>4 DEF Sent, NotSent
  <1>6. tried' \in [Caller -> [n : 0..NRetry, stores : SUBSET StoreID]]
    <2>1. CASE tried' = [tried EXCEPT ![c] = Fresh]
      BY <1>0, <1>2, <2>1
    <2>2. CASE tried[c].n < NRetry
               /\ tried' = [tried EXCEPT ![c] = [n |-> @.n + 1, stores |-> @.stores \cup {s}]]
      <3>1. PICK v \in [n : 0..NRetry, stores : SUBSET StoreID] : v = tried[c]
        BY <1>0
      <3>2. [n |-> v.n + 1, stores |-> v.stores \cup {s}] \in [n : 0..NRetry, stores : SUBSET StoreID]
        BY <1>0, <2>2, <3>1
      <3>3. tried' = [tried EXCEPT ![c] = [n |-> v.n + 1, stores |-> v.stores \cup {s}]]
        BY <2>2, <3>1
      <3> QED
        BY <1>0, <3>2, <3>3
    <2> QED
      BY <2>1, <2>2 DEF Sent, NotSent
  <1>7. todo' = todo \/ \E u \in {t, Tail(t), << >>} : todo' = [todo EXCEPT ![c] = u]
    <2>1. CASE Sent(c)
      BY <1>1, <2>1 DEF Sent
    <2>2. CASE NotSent(c, s)
      BY <1>1, <2>2 DEF NotSent, AfterLastAttempt
    <2> QED
      BY <2>1, <2>2
  <1>8. ASSUME NEW u \in {t, Tail(t), << >>}, todo' = [todo EXCEPT ![c] = u]
        PROVE  /\ todo' \in [Caller -> Seq(Seq(Item))]
               /\ \A d \in Caller : \A k \in DOMAIN todo'[d] : \E m \in DOMAIN todo[d] : todo'[d][k] = todo[d][m]
    <2>1. u \in Seq(Seq(Item)) /\ \A k \in DOMAIN u : \E m \in DOMAIN t : u[k] = t[m]
      <3>1. CASE u = t
        BY <1>1, <3>1
      <3>2. CASE u = Tail(t)
        <4>1. u \in Seq(Seq(Item)) /\ DOMAIN u = 1..(Len(t) - 1)
          BY <1>3, <3>2
        <4>2. \A k \in 1..(Len(t) - 1) : k + 1 \in DOMAIN t /\ u[k] = t[k + 1]
          BY <1>3, <3>2
        <4> QED
          BY <4>1, <4>2
      <3>3. CASE u = << >>
        BY <3>3
      <3> QED
        BY <3>1, <3>2, <3>3
    <2>2. \A k \in DOMAIN u : \E m \in DOMAIN t : u[k] = t[m]
      BY <2>1
    <2>3. todo' \in [Caller -> Seq(Seq(Item))]
      BY <1>0, <1>8, <2>1
    <2>4. ASSUME NEW d \in Caller, NEW k \in DOMAIN todo'[d] PROVE \E m \in DOMAIN todo[d] : todo'[d][k] = todo[d][m]
      <3>1. CASE d = c
        BY <1>0, <1>1, <1>8, <2>2, <3>1
      <3>2. CASE d # c
        BY <1>0, <1>8, <3>2
      <3> QED
        BY <3>1, <3>2
    <2> QED
      BY <2>3, <2>4
  <1> QED
    BY <1>0, <1>5, <1>6, <1>7, <1>8

\* A worker's log is one of the logs; the producer is no worker.
LEMMA WorkerFacts ==
  /\ \A w \in Worker : w[1] \in GroupID /\ <<w[2], w[3]>> \in StoreID \X QueueID
  /\ Producer \notin Worker /\ Worker \subseteq Caller
  <1>1. \A w \in Worker : w[1] \in GroupID /\ <<w[2], w[3]>> \in StoreID \X QueueID
    BY DEF Worker
  <1>2. Producer[1] = 0
    BY DEF Producer
  <1> QED
    BY <1>1, <1>2, DeliveryAssumption DEF Caller

\* Whether a copy is its group's own depends on failures alone, which stay.
LEMMA OwnStays ==
  ASSUME failed \subseteq failed', NEW it, IsOwn(it)
  PROVE  IsOwn(it)'
  BY DEF IsOwn

\* SelectAndAdd keeps the invariant.
LEMMA AddKeeps ==
  ASSUME DeliveryInv, NEW c \in Caller, NEW hash \in Hashes, NEW o, SelectAndAdd(c, hash, o)
  PROVE  DeliveryInv'
  <1>0. DeliveryTypeOK /\ RequestsOK /\ RingsOK /\ RetriesAreOwn
    BY DEF DeliveryInv
  <1>1. PICK req \in Seq(Item), s \in StoreID, q \in QueueID, i \in DOMAIN InfoOf :
           /\ todo[c] # << >> /\ req = todo[c][1] /\ req # << >>
           /\ \A it \in Range(req) : Takable(it) /\ GetQueueInfoIDByCount(it.pub, it.count) = i
           /\ \A it \in Range(req) : IsOwn(it)
           /\ q \in QueuesOfInfo(i) /\ \E r \in Pub : s \in StoresFor(r)
           /\ \/ /\ Sent(c) /\ log' = log
                 /\ settled' = settled \cup UNION {{it.id} \X it.mask : it \in Range(req)}
              \/ /\ Sent(c) /\ log' = [log EXCEPT ![<<s, q>>] = @ \o req] /\ settled' = settled
              \/ /\ NotSent(c, s) /\ settled' = settled
                 /\ log' = log \/ log' = [log EXCEPT ![<<s, q>>] = @ \o req]
    BY <1>0, AttemptFacts
  <1>2. UNCHANGED <<acked, got, failed, nitem>>
    BY DEF SelectAndAdd, consuming
  <1>3. losses' \in 0..MaxLoss
    <2>1. losses \in 0..MaxLoss /\ MaxLoss \in Nat
      BY <1>0, DeliveryAssumption DEF DeliveryTypeOK
    <2>2. losses' = losses \/ (losses < MaxLoss /\ losses' = losses + 1)
      BY DEF SelectAndAdd
    <2> QED
      BY <2>1, <2>2
  <1>4. /\ log' \in [StoreID \X QueueID -> Seq(Item)]
        /\ \A x \in StoreID \X QueueID :
              /\ Len(log[x]) \in Nat /\ Len(log'[x]) \in Nat /\ Len(log[x]) <= Len(log'[x])
              /\ \A k \in 1..Len(log[x]) : log'[x][k] = log[x][k]
              /\ Range(log'[x]) \subseteq Range(log[x]) \cup Range(req)
    <2>1. <<s, q>> \in StoreID \X QueueID
      OBVIOUS
    <2>2. log' = log \/ log' = [log EXCEPT ![<<s, q>>] = @ \o req]
      BY <1>1
    <2> QED
      BY <1>0, <2>1, <2>2, LogMore
  <1>5. /\ todo' \in [Caller -> Seq(Seq(Item))]
        /\ tried' \in [Caller -> [n : 0..NRetry, stores : SUBSET StoreID]]
        /\ accepted' \subseteq Item
        /\ \A d \in Caller : \A k \in DOMAIN todo'[d] : \E m \in DOMAIN todo[d] : todo'[d][k] = todo[d][m]
    <2>1. Sent(c) \/ NotSent(c, s)
      BY <1>1
    <2> QED
      BY <1>0, <1>1, <2>1, TodoLess
  <1>6. ring' \in [Caller -> SUBSET StoreID] /\ RingsOK'
    <2>1. PICK p \in Pub : ring' = [ring EXCEPT ![c] = RingAfter(c, p)]
      <3>1. req[1] \in Item
        BY <1>1
      <3>2. req[1].pub \in Pub
        BY <3>1 DEF Item
      <3> QED
        BY <1>1, <3>2 DEF SelectAndAdd
    <2>2. RingAfter(c, p) \in SUBSET StoreID /\ \E r \in Pub : RingAfter(c, p) = StoresFor(r)
      <3>1. PICK h \in Nat : h = hash
        BY DeliveryAssumption
      <3> QED
        BY <1>0, <3>1, StoreFacts
    <2>3. PICK new \in SUBSET StoreID : ring' = [ring EXCEPT ![c] = new] /\ \E r \in Pub : new = StoresFor(r)
      BY <2>1, <2>2
    <2>4. ring \in [Caller -> SUBSET StoreID]
      BY <1>0 DEF DeliveryTypeOK
    <2>5. ring' \in [Caller -> SUBSET StoreID]
      BY <2>3, <2>4
    <2>6. \A d \in Caller : ring'[d] = ring[d] \/ ring'[d] = new
      BY <2>3, <2>4
    <2> QED
      BY <1>0, <2>3, <2>5, <2>6 DEF RingsOK
  <1>7. settled' \subseteq (1..MaxItem) \X GroupID
    <2>1. \A it \in Range(req) : it.id \in 1..MaxItem /\ it.mask \subseteq GroupID
      <3>1. Range(req) \subseteq Item
        BY RangeType
      <3> QED
        BY <3>1 DEF Item
    <2>2. settled \subseteq (1..MaxItem) \X GroupID
      BY <1>0 DEF DeliveryTypeOK
    <2>3. UNION {{it.id} \X it.mask : it \in Range(req)} \subseteq (1..MaxItem) \X GroupID
      BY <2>1
    <2> QED
      BY <1>1, <2>2, <2>3
  <1>8. \A w \in Worker : acked[w] <= got[w] /\ got[w] <= Len(log'[<<w[2], w[3]>>])
    <2> SUFFICES ASSUME NEW w \in Worker PROVE acked[w] <= got[w] /\ got[w] <= Len(log'[<<w[2], w[3]>>])
      OBVIOUS
    <2>1. /\ acked[w] <= got[w] /\ got[w] <= Len(log[<<w[2], w[3]>>]) /\ got[w] \in Nat
      BY <1>0 DEF DeliveryTypeOK
    <2>2. <<w[2], w[3]>> \in StoreID \X QueueID
      BY WorkerFacts
    <2>3. PICK x \in StoreID \X QueueID : x = <<w[2], w[3]>>
      BY <2>2
    <2> QED
      BY <1>4, <2>1, <2>3
  <1>9. DeliveryTypeOK'
    BY <1>0, <1>2, <1>3, <1>4, <1>5, <1>6, <1>7, <1>8 DEF DeliveryTypeOK
  <1>10. failed' = failed
    BY <1>2
  <1>11. RequestsOK'
    <2> SUFFICES ASSUME NEW d \in Caller, NEW k \in DOMAIN todo'[d]
                 PROVE  Routed(todo'[d][k]) /\ \A it \in Range(todo'[d][k]) : IsOwn(it)'
      BY DEF RequestsOK, Routed
    <2>1. PICK m \in DOMAIN todo[d] : todo'[d][k] = todo[d][m]
      BY <1>5
    <2> QED
      BY <1>0, <1>10, <2>1, OwnStays DEF RequestsOK
  <1>12. RetriesAreOwn'
    <2> SUFFICES ASSUME NEW x \in DOMAIN log', NEW it \in Range(log'[x]) PROVE IsOwn(it)'
      BY DEF RetriesAreOwn
    <2>1. x \in StoreID \X QueueID /\ x \in DOMAIN log
      BY <1>0, <1>4 DEF DeliveryTypeOK
    <2>2. it \in Range(log[x]) \/ it \in Range(req)
      BY <1>4, <2>1
    <2>3. IsOwn(it)
      BY <1>0, <1>1, <2>1, <2>2 DEF RetriesAreOwn
    <2> QED
      BY <2>3, <1>10, OwnStays
  <1> QED
    BY <1>6, <1>9, <1>11, <1>12 DEF DeliveryInv

\* New requests of one caller.
LEMMA NewRequests ==
  ASSUME DeliveryTypeOK, RequestsOK, failed \subseteq failed', NEW c \in Caller,
         NEW items \in Seq(Item), \A it \in Range(items) : IsOwn(it)', NEW r,
         r = << >> \/ r = MakeAddRequests(items), todo' = [todo EXCEPT ![c] = r]
  PROVE  todo' \in [Caller -> Seq(Seq(Item))] /\ RequestsOK'
  <1>0. todo \in [Caller -> Seq(Seq(Item))]
    BY DEF DeliveryTypeOK
  <1>1. /\ r \in Seq(Seq(Item)) /\ \A k \in DOMAIN r : Routed(r[k])
        /\ Content(r) \subseteq Range(items)
    <2>1. CASE r = << >>
      BY <2>1 DEF Content
    <2>2. CASE r = MakeAddRequests(items)
      <3>1. Content(r) = {it \in Range(items) : Takable(it)} /\ r \in Seq(Seq(Item)) /\ \A k \in DOMAIN r : Routed(r[k])
        BY <2>2, RequestFacts
      <3> QED
        BY <3>1
    <2> QED
      BY <2>1, <2>2
  <1>2. todo' \in [Caller -> Seq(Seq(Item))]
    BY <1>0, <1>1
  <1>3. RequestsOK'
    <2> SUFFICES ASSUME NEW d \in Caller, NEW k \in DOMAIN todo'[d]
                 PROVE  Routed(todo'[d][k]) /\ \A it \in Range(todo'[d][k]) : IsOwn(it)'
      BY DEF RequestsOK, Routed
    <2>1. CASE d = c
      <3>1. todo'[d] = r
        BY <1>0, <2>1
      <3>2. Range(r[k]) \subseteq Range(items)
        BY <1>1, <3>1 DEF Content
      <3> QED
        BY <1>1, <3>1, <3>2
    <2>2. CASE d # c
      <3>1. todo'[d] = todo[d]
        BY <1>0, <2>2
      <3>2. Routed(todo[d][k]) /\ \A it \in Range(todo[d][k]) : IsOwn(it)
        BY <3>1 DEF RequestsOK
      <3> QED
        BY <3>1, <3>2, OwnStays
    <2> QED
      BY <2>1, <2>2
  <1> QED
    BY <1>2, <1>3

\* Enqueue keeps the invariant.
LEMMA EnqueueKeeps ==
  ASSUME DeliveryInv, NEW req \in Requests, Enqueue(req)
  PROVE  DeliveryInv'
  <1>0. DeliveryTypeOK /\ RequestsOK /\ RingsOK /\ RetriesAreOwn
    BY DEF DeliveryInv
  <1>1. PICK it : it = [id |-> nitem + 1, pub |-> req.pub, mask |-> req.mask, count |-> 0, size |-> req.size]
    OBVIOUS
  <1>2. nitem \in 0..MaxItem /\ MaxItem \in Nat /\ nitem < MaxItem /\ nitem' = nitem + 1
    BY <1>0, DeliveryAssumption DEF DeliveryTypeOK, Enqueue
  <1>3. nitem + 1 \in 1..MaxItem /\ nitem' \in 0..MaxItem
    BY <1>2
  <1>4. req \in [pub : Pub, mask : SUBSET GroupID, size : Nat]
    BY DeliveryAssumption
  <1>5. it \in Item /\ it.count = 0
    BY <1>1, <1>3, <1>4 DEF Item
  <1>6. UNCHANGED <<log, acked, got, tried, ring, accepted, settled, failed, losses>>
    BY DEF Enqueue, consuming
  <1>7. <<it>> \in Seq(Item) /\ Range(<<it>>) = {it}
    BY <1>5 DEF Range
  <1>8. \A x \in Range(<<it>>) : IsOwn(x)'
    BY <1>5, <1>7 DEF IsOwn
  <1>9. todo' \in [Caller -> Seq(Seq(Item))] /\ RequestsOK'
    <2>1. CASE TooLarge(<<it>>)
      <3>1. todo' = todo
        BY <1>1, <2>1 DEF Enqueue
      <3>2. ASSUME NEW d \in Caller, NEW k \in DOMAIN todo'[d]
            PROVE  Routed(todo'[d][k]) /\ \A x \in Range(todo'[d][k]) : IsOwn(x)'
        BY <1>0, <1>6, <3>1, OwnStays DEF RequestsOK
      <3>3. RequestsOK'
        BY <3>2 DEF RequestsOK, Routed
      <3> QED
        BY <1>0, <3>1, <3>3 DEF DeliveryTypeOK
    <2>2. CASE ~TooLarge(<<it>>)
      <3>1. todo' = [todo EXCEPT ![Producer] = MakeAddRequests(<<it>>)]
        BY <1>1, <2>2 DEF Enqueue
      <3>2. Producer \in Caller
        BY DEF Caller
      <3> QED
        BY <1>0, <1>6, <1>7, <1>8, <3>1, <3>2, NewRequests
    <2> QED
      BY <2>1, <2>2
  <1>10. DeliveryTypeOK'
    BY <1>0, <1>3, <1>6, <1>9 DEF DeliveryTypeOK
  <1>11. RingsOK' /\ RetriesAreOwn'
    BY <1>0, <1>6 DEF RingsOK, RetriesAreOwn, IsOwn
  <1> QED
    BY <1>9, <1>10, <1>11 DEF DeliveryInv

\* Replaced keeps the invariant.
LEMMA ReplacedKeeps ==
  ASSUME DeliveryInv, NEW w \in Worker, Replaced(w)
  PROVE  DeliveryInv'
  <1>0. DeliveryTypeOK /\ RequestsOK /\ RingsOK /\ RetriesAreOwn /\ w \in Caller
    BY WorkerFacts DEF DeliveryInv
  <1>1. UNCHANGED <<log, acked, accepted, settled, failed, nitem>>
    BY DEF Replaced
  <1>2. losses' \in 0..MaxLoss
    <2>1. losses \in 0..MaxLoss /\ MaxLoss \in Nat
      BY <1>0, DeliveryAssumption DEF DeliveryTypeOK
    <2>2. losses < MaxLoss /\ losses' = losses + 1
      BY DEF Replaced
    <2> QED
      BY <2>1, <2>2
  <1>3. ring' \in [Caller -> SUBSET StoreID] /\ RingsOK'
    <2>1. ring \in [Caller -> SUBSET StoreID] /\ ring' = [ring EXCEPT ![w] = {}]
      BY <1>0 DEF DeliveryTypeOK, Replaced
    <2>2. ring' \in [Caller -> SUBSET StoreID] /\ \A d \in Caller : ring'[d] = ring[d] \/ ring'[d] = {}
      BY <2>1
    <2> QED
      BY <1>0, <2>2 DEF RingsOK
  <1>4. tried' \in [Caller -> [n : 0..NRetry, stores : SUBSET StoreID]]
    <2>1. Fresh \in [n : 0..NRetry, stores : SUBSET StoreID]
      BY DeliveryAssumption DEF Fresh
    <2> QED
      BY <1>0, <2>1 DEF DeliveryTypeOK, Replaced
  <1>5. got' \in [Worker -> Nat] /\ \A v \in Worker : acked[v] <= got'[v] /\ got'[v] <= Len(log[<<v[2], v[3]>>])
    <2>1. /\ acked \in [Worker -> Nat] /\ got \in [Worker -> Nat] /\ got' = [got EXCEPT ![w] = acked[w]]
          /\ log \in [StoreID \X QueueID -> Seq(Item)]
      BY <1>0 DEF DeliveryTypeOK, Replaced
    <2>2. ASSUME NEW v \in Worker PROVE acked[v] <= got'[v] /\ got'[v] <= Len(log[<<v[2], v[3]>>])
      <3>1. acked[v] <= got[v] /\ got[v] <= Len(log[<<v[2], v[3]>>])
        BY <1>0 DEF DeliveryTypeOK
      <3>2. Len(log[<<v[2], v[3]>>]) \in Nat
        <4>1. PICK x \in StoreID \X QueueID : x = <<v[2], v[3]>>
          BY WorkerFacts
        <4> QED
          BY <2>1, <4>1
      <3>3. acked[v] \in Nat /\ got[v] \in Nat /\ (got'[v] = got[v] \/ got'[v] = acked[v])
        BY <2>1
      <3> QED
        BY <3>1, <3>2, <3>3
    <2> QED
      BY <2>1, <2>2
  <1>6. todo' \in [Caller -> Seq(Seq(Item))] /\ RequestsOK'
    <2>0. << >> \in Seq(Item)
      OBVIOUS
    <2>1. PICK none \in Seq(Item) : none = << >>
      BY <2>0
    <2>2. \A it \in Range(none) : IsOwn(it)'
      BY <2>1 DEF Range
    <2>3. todo' = [todo EXCEPT ![w] = << >>] /\ failed \subseteq failed'
      BY <1>1 DEF Replaced
    <2> QED
      BY <1>0, <2>2, <2>3, NewRequests
  <1>7. DeliveryTypeOK'
    BY <1>0, <1>1, <1>2, <1>3, <1>4, <1>5, <1>6 DEF DeliveryTypeOK
  <1>8. RetriesAreOwn'
    BY <1>0, <1>1 DEF RetriesAreOwn, IsOwn
  <1> QED
    BY <1>3, <1>6, <1>7, <1>8 DEF DeliveryInv

\* The smaller of two numbers.
LEMMA SmallerOfTwo ==
  ASSUME NEW a \in Int, NEW b \in Int
  PROVE  Min({a, b}) \in {a, b} /\ Min({a, b}) <= a /\ Min({a, b}) <= b
  <1>1. \E x \in {a, b} : \A y \in {a, b} : x <= y
    OBVIOUS
  <1> QED
    BY <1>1 DEF Min

\* A part of a sequence.
LEMMA PartFacts ==
  ASSUME NEW S, NEW t \in Seq(S), NEW a \in Nat, NEW b \in Nat, a <= b, b <= Len(t)
  PROVE  /\ SubSeq(t, a + 1, b) \in Seq(S)
         /\ \A x \in Range(SubSeq(t, a + 1, b)) : \E k \in (a + 1)..b : x = t[k]
         /\ \A k \in (a + 1)..b : t[k] \in Range(SubSeq(t, a + 1, b))
  <1>1. PICK u : u = SubSeq(t, a + 1, b)
    OBVIOUS
  <1>2. u \in Seq(S) /\ Len(u) = b - a /\ \A i \in 1..(b - a) : u[i] = t[a + i]
    BY <1>1
  <1>3. DOMAIN u = 1..(b - a)
    BY <1>2
  <1>4. \A i \in 1..(b - a) : a + i \in (a + 1)..b
    OBVIOUS
  <1>5. \A k \in (a + 1)..b : k - a \in 1..(b - a) /\ a + (k - a) = k
    OBVIOUS
  <1>6. \A x \in Range(u) : \E k \in (a + 1)..b : x = t[k]
    BY <1>2, <1>3, <1>4 DEF Range
  <1>7. \A k \in (a + 1)..b : t[k] \in Range(u)
    BY <1>2, <1>3, <1>5 DEF Range
  <1> QED
    BY <1>1, <1>2, <1>6, <1>7

\* The copy for another try.
LEMMA RetryFacts ==
  ASSUME NEW g \in GroupID, NEW x \in Item, NEW size \in Sizes, NEW y, y = RetryItem(g, x, size)
  PROVE  /\ y \in Item /\ y.id = x.id /\ y.pub = x.pub /\ y.mask = {g}
         /\ y.count = x.count + 1 /\ y.size = size /\ x.count \in Nat
  <1>1. size \in Nat
    BY DeliveryAssumption
  <1>2. x.id \in 1..MaxItem /\ x.pub \in Pub /\ x.count \in Nat
    BY DEF Item
  <1>3. y = [id |-> x.id, pub |-> x.pub, mask |-> {g}, count |-> x.count + 1, size |-> size]
    BY DEF RetryItem, Item
  <1> QED
    BY <1>1, <1>2, <1>3 DEF Item

\* A turn of Process.
LEMMA ProcessFacts ==
  ASSUME DeliveryTypeOK, NEW w \in Worker, NEW size \in Sizes, NEW failing, Process(w, failing, size)
  PROVE  \E L \in Seq(Item), a \in Nat, b \in Nat, batch \in Seq(Item), again \in Seq(Item) :
           /\ L = LogOf(w) /\ a = got[w] /\ a <= b /\ b <= Len(L)
           /\ \A x \in Range(batch) : \E k \in (a + 1)..b : x = L[k]
           /\ \A k \in (a + 1)..b : L[k] \in Range(batch)
           /\ \A x \in failing : x \in Range(batch) /\ w[1] \in x.mask
           /\ Range(again) = {RetryItem(w[1], x, size) : x \in failing}
           /\ acked' = [acked EXCEPT ![w] = a] /\ got' = [got EXCEPT ![w] = b]
           /\ todo' = [todo EXCEPT ![w] = IF TooLarge(again) THEN << >> ELSE MakeAddRequests(again)]
           /\ settled' = settled
                \cup {<<it.id, w[1]>> : it \in {x \in Range(batch) : w[1] \in x.mask} \ failing}
                \cup {<<it.id, w[1]>> : it \in {x \in Range(again) : ~Takable(x)}}
           /\ failed' = failed \cup {<<it.id, w[1], it.count>> : it \in failing}
  <1>0. /\ w[1] \in GroupID /\ <<w[2], w[3]>> \in StoreID \X QueueID
        /\ log \in [StoreID \X QueueID -> Seq(Item)] /\ got \in [Worker -> Nat] /\ BatchLimit \in Nat
    BY WorkerFacts, DeliveryAssumption DEF DeliveryTypeOK
  <1>1. PICK L \in Seq(Item) : L = LogOf(w)
    <2>1. PICK x \in StoreID \X QueueID : x = <<w[2], w[3]>>
      BY <1>0
    <2>2. log[x] \in Seq(Item)
      BY <1>0
    <2> QED
      BY <2>1, <2>2 DEF LogOf
  <1>2. PICK a \in Nat : a = got[w]
    BY <1>0
  <1>3. a <= Len(L) /\ Len(L) \in Nat
    <2>1. got[w] <= Len(log[<<w[2], w[3]>>])
      BY DEF DeliveryTypeOK
    <2>2. Len(L) \in Nat
      BY <1>1
    <2> QED
      BY <1>1, <1>2, <2>1, <2>2 DEF LogOf
  <1>4. PICK b \in Nat : b = NextGot(w) /\ a <= b /\ b <= Len(L)
    <2>1. a + BatchLimit \in Int /\ Len(L) \in Int /\ a + BatchLimit >= a
      BY <1>0, <1>3
    <2>2. /\ Min({a + BatchLimit, Len(L)}) \in {a + BatchLimit, Len(L)}
          /\ Min({a + BatchLimit, Len(L)}) <= Len(L)
      BY <2>1, SmallerOfTwo
    <2>3. NextGot(w) = Min({a + BatchLimit, Len(L)})
      BY <1>1, <1>2 DEF NextGot
    <2>4. PICK m : m = Min({a + BatchLimit, Len(L)})
      OBVIOUS
    <2>5. m \in Nat /\ a <= m /\ m <= Len(L)
      BY <1>0, <1>3, <2>1, <2>2, <2>4
    <2> QED
      BY <2>3, <2>4, <2>5
  <1>5. PICK batch : batch = SubSeq(L, a + 1, b)
    OBVIOUS
  <1>6. /\ batch \in Seq(Item)
        /\ \A x \in Range(batch) : \E k \in (a + 1)..b : x = L[k]
        /\ \A k \in (a + 1)..b : L[k] \in Range(batch)
    BY <1>4, <1>5, PartFacts
  <1>7. \A x \in failing : x \in Range(batch) /\ w[1] \in x.mask
    BY <1>1, <1>2, <1>4, <1>5 DEF Process
  <1>8. PICK picked : picked = Picked(batch, failing)
    OBVIOUS
  <1>9. picked \in Seq(Item) /\ Range(picked) = failing
    <2>1. picked \in Seq(Item) /\ Range(picked) = Range(batch) \cap failing
      BY <1>6, <1>8, PickedFacts
    <2> QED
      BY <1>7, <2>1
  <1>10. PICK again : again = [k \in DOMAIN picked |-> RetryItem(w[1], picked[k], size)]
    OBVIOUS
  <1>11. again \in Seq(Item) /\ Range(again) = {RetryItem(w[1], x, size) : x \in failing}
    <2>1. DOMAIN picked = 1..Len(picked) /\ Len(picked) \in Nat /\ \A k \in 1..Len(picked) : picked[k] \in Item
      BY <1>9
    <2>2. \A k \in 1..Len(picked) : RetryItem(w[1], picked[k], size) \in Item
      BY <1>0, <2>1, RetryFacts
    <2>3. again \in [1..Len(picked) -> Item]
      BY <1>10, <2>1, <2>2
    <2>4. again \in Seq(Item)
      BY <2>1, <2>3
    <2>5. Range(again) = {again[k] : k \in 1..Len(picked)} /\ failing = {picked[k] : k \in 1..Len(picked)}
      BY <1>9, <2>1, <2>3 DEF Range
    <2>6. \A k \in 1..Len(picked) : again[k] = RetryItem(w[1], picked[k], size)
      BY <1>10, <2>1
    <2> QED
      BY <2>4, <2>5, <2>6
  <1>12. /\ acked' = [acked EXCEPT ![w] = a] /\ got' = [got EXCEPT ![w] = b]
         /\ todo' = [todo EXCEPT ![w] = IF TooLarge(again) THEN << >> ELSE MakeAddRequests(again)]
         /\ settled' = settled
                \cup {<<it.id, w[1]>> : it \in {x \in Range(batch) : w[1] \in x.mask} \ failing}
                \cup {<<it.id, w[1]>> : it \in {x \in Range(again) : ~Takable(x)}}
         /\ failed' = failed \cup {<<it.id, w[1], it.count>> : it \in failing}
    BY <1>1, <1>2, <1>4, <1>5, <1>8, <1>10, Zenon DEF Process, AckedBy
  <1> batch \in Seq(Item) /\ again \in Seq(Item)
    BY <1>6, <1>11
  <1> WITNESS L \in Seq(Item), a \in Nat, b \in Nat, batch \in Seq(Item), again \in Seq(Item)
  <1> QED
    BY <1>1, <1>2, <1>4, <1>6, <1>7, <1>11, <1>12, Zenon

\* Process keeps the invariant.
LEMMA ProcessKeeps ==
  ASSUME DeliveryInv, NEW w \in Worker, NEW size \in Sizes, NEW failing, Process(w, failing, size)
  PROVE  DeliveryInv'
  <1>0. DeliveryTypeOK /\ RequestsOK /\ RingsOK /\ RetriesAreOwn /\ w \in Caller /\ w[1] \in GroupID
    BY WorkerFacts DEF DeliveryInv
  <1>1. PICK L \in Seq(Item), a \in Nat, b \in Nat, batch \in Seq(Item), again \in Seq(Item) :
           /\ L = LogOf(w) /\ a = got[w] /\ a <= b /\ b <= Len(L)
           /\ \A x \in Range(batch) : \E k \in (a + 1)..b : x = L[k]
           /\ \A k \in (a + 1)..b : L[k] \in Range(batch)
           /\ \A x \in failing : x \in Range(batch) /\ w[1] \in x.mask
           /\ Range(again) = {RetryItem(w[1], x, size) : x \in failing}
           /\ acked' = [acked EXCEPT ![w] = a] /\ got' = [got EXCEPT ![w] = b]
           /\ todo' = [todo EXCEPT ![w] = IF TooLarge(again) THEN << >> ELSE MakeAddRequests(again)]
           /\ settled' = settled
                \cup {<<it.id, w[1]>> : it \in {x \in Range(batch) : w[1] \in x.mask} \ failing}
                \cup {<<it.id, w[1]>> : it \in {x \in Range(again) : ~Takable(x)}}
           /\ failed' = failed \cup {<<it.id, w[1], it.count>> : it \in failing}
    BY <1>0, ProcessFacts, Zenon
  <1>2. UNCHANGED <<log, tried, ring, accepted, nitem, losses>>
    BY DEF Process
  <1>3. \A x \in failing : x \in Item
    BY <1>1, RangeType
  <1>4. \A y \in Range(again) : IsOwn(y)'
    <2> SUFFICES ASSUME NEW x \in failing, NEW y, y = RetryItem(w[1], x, size) PROVE IsOwn(y)'
      BY <1>1
    <2>1. y.id = x.id /\ y.mask = {w[1]} /\ y.count = x.count + 1 /\ x.count \in Nat
      BY <1>0, <1>3, RetryFacts
    <2>2. <<x.id, w[1], x.count>> \in failed'
      BY <1>1
    <2>3. y.count - 1 = x.count
      BY <2>1
    <2>4. <<y.id, w[1], y.count - 1>> \in failed'
      BY <2>1, <2>2, <2>3
    <2> QED
      BY <1>0, <2>1, <2>4 DEF IsOwn
  <1>5. failed \subseteq failed'
    BY <1>1
  <1>6. todo' \in [Caller -> Seq(Seq(Item))] /\ RequestsOK'
    <2>1. PICK r : r = IF TooLarge(again) THEN << >> ELSE MakeAddRequests(again)
      OBVIOUS
    <2>2. r = << >> \/ r = MakeAddRequests(again)
      BY <2>1
    <2>3. todo' = [todo EXCEPT ![w] = r]
      BY <1>1, <2>1
    <2> QED
      BY <1>0, <1>4, <1>5, <2>2, <2>3, NewRequests
  <1>7. settled' \subseteq (1..MaxItem) \X GroupID
    <2>1. settled \subseteq (1..MaxItem) \X GroupID
      BY <1>0 DEF DeliveryTypeOK
    <2>2. \A it \in Range(batch) \cup Range(again) : it.id \in 1..MaxItem
      <3>1. Range(batch) \subseteq Item /\ Range(again) \subseteq Item
        BY RangeType
      <3> QED
        BY <3>1 DEF Item
    <2>3. {<<it.id, w[1]>> : it \in {x \in Range(batch) : w[1] \in x.mask} \ failing} \subseteq (1..MaxItem) \X GroupID
      BY <1>0, <2>2
    <2>4. {<<it.id, w[1]>> : it \in {x \in Range(again) : ~Takable(x)}} \subseteq (1..MaxItem) \X GroupID
      BY <1>0, <2>2
    <2> QED
      BY <1>1, <2>1, <2>3, <2>4
  <1>8. /\ acked' \in [Worker -> Nat] /\ got' \in [Worker -> Nat]
        /\ \A v \in Worker : acked'[v] <= got'[v] /\ got'[v] <= Len(log[<<v[2], v[3]>>])
    <2>1. acked \in [Worker -> Nat] /\ got \in [Worker -> Nat]
      BY <1>0 DEF DeliveryTypeOK
    <2>2. acked' \in [Worker -> Nat] /\ got' \in [Worker -> Nat]
      BY <1>1, <2>1
    <2>3. ASSUME NEW v \in Worker PROVE acked'[v] <= got'[v] /\ got'[v] <= Len(log[<<v[2], v[3]>>])
      <3>1. CASE v = w
        <4>1. acked'[v] = a /\ got'[v] = b /\ LogOf(v) = L
          BY <1>1, <2>1, <3>1
        <4> QED
          BY <1>1, <4>1 DEF LogOf
      <3>2. CASE v # w
        <4>1. acked'[v] = acked[v] /\ got'[v] = got[v]
          BY <1>1, <2>1, <3>2
        <4> QED
          BY <1>0, <4>1 DEF DeliveryTypeOK
      <3> QED
        BY <3>1, <3>2
    <2> QED
      BY <2>2, <2>3
  <1>9. DeliveryTypeOK'
    BY <1>0, <1>2, <1>6, <1>7, <1>8 DEF DeliveryTypeOK
  <1>10. RingsOK'
    BY <1>0, <1>2 DEF RingsOK
  <1>11. RetriesAreOwn'
    <2> SUFFICES ASSUME NEW x \in DOMAIN log, NEW it \in Range(log[x]) PROVE IsOwn(it)'
      BY <1>2 DEF RetriesAreOwn
    <2>1. IsOwn(it)
      BY <1>0 DEF RetriesAreOwn
    <2> QED
      BY <1>5, <2>1, OwnStays
  <1> QED
    BY <1>6, <1>9, <1>10, <1>11 DEF DeliveryInv

\* The start.
LEMMA DeliveryInitInv == DeliveryInit => DeliveryInv
  <1> SUFFICES ASSUME DeliveryInit PROVE DeliveryInv
    OBVIOUS
  <1>1. Fresh \in [n : 0..NRetry, stores : SUBSET StoreID] /\ MaxItem \in Nat /\ MaxLoss \in Nat
    BY DeliveryAssumption DEF Fresh
  <1>2. /\ log \in [StoreID \X QueueID -> Seq(Item)] /\ todo \in [Caller -> Seq(Seq(Item))]
        /\ \A x \in StoreID \X QueueID : log[x] = << >>
        /\ \A c \in Caller : todo[c] = << >>
    BY DEF DeliveryInit
  <1>3. \A w \in Worker : acked[w] <= got[w] /\ got[w] <= Len(log[<<w[2], w[3]>>])
    <2> SUFFICES ASSUME NEW w \in Worker PROVE acked[w] <= got[w] /\ got[w] <= Len(log[<<w[2], w[3]>>])
      OBVIOUS
    <2>1. PICK x \in StoreID \X QueueID : x = <<w[2], w[3]>>
      BY WorkerFacts
    <2>2. acked[w] = 0 /\ got[w] = 0 /\ Len(log[x]) = 0
      BY <1>2 DEF DeliveryInit
    <2> QED
      BY <2>1, <2>2
  <1>4. DeliveryTypeOK
    BY <1>1, <1>2, <1>3 DEF DeliveryInit, DeliveryTypeOK
  <1>5. RequestsOK /\ RingsOK
    BY <1>2 DEF RequestsOK, RingsOK, DeliveryInit
  <1>6. RetriesAreOwn
    <2>1. \A x \in DOMAIN log : Range(log[x]) = {}
      BY <1>2 DEF Range
    <2> QED
      BY <2>1 DEF RetriesAreOwn
  <1> QED
    BY <1>4, <1>5, <1>6 DEF DeliveryInv

\* Every step keeps the invariant.
LEMMA DeliveryStepInv == DeliveryInv /\ [DeliveryNext]_deliveryVars => DeliveryInv'
  <1> SUFFICES ASSUME DeliveryInv, [DeliveryNext]_deliveryVars PROVE DeliveryInv'
    OBVIOUS
  <1>1. ASSUME NEW req \in Requests, Enqueue(req) PROVE DeliveryInv'
    BY <1>1, EnqueueKeeps
  <1>2. ASSUME NEW c \in Caller, AddStep(c) PROVE DeliveryInv'
    BY <1>2, AddKeeps DEF AddStep
  <1>3. ASSUME NEW w \in Worker, ProcessStep(w) PROVE DeliveryInv'
    <2>1. PICK failing \in SUBSET Range(SubSeq(LogOf(w), got[w] + 1, NextGot(w))), size \in Sizes :
            Process(w, failing, size)
      BY <1>3 DEF ProcessStep
    <2> QED
      BY <2>1, ProcessKeeps
  <1>4. ASSUME NEW w \in Worker, Replaced(w) PROVE DeliveryInv'
    BY <1>4, ReplacedKeeps
  <1>5. CASE UNCHANGED deliveryVars
    <2>1. UNCHANGED <<log, acked, got, todo, tried, ring, accepted, settled, failed, nitem, losses>>
      BY <1>5 DEF deliveryVars
    <2>2. DeliveryTypeOK /\ RequestsOK /\ RingsOK /\ RetriesAreOwn
      BY DEF DeliveryInv
    <2>3. DeliveryTypeOK'
      BY <2>1, <2>2 DEF DeliveryTypeOK
    <2>4. RingsOK'
      BY <2>1, <2>2 DEF RingsOK
    <2>5. ASSUME NEW it, IsOwn(it) PROVE IsOwn(it)'
      BY <2>1, <2>5, OwnStays
    <2>6. RetriesAreOwn'
      BY <2>1, <2>2, <2>5 DEF RetriesAreOwn
    <2>7. RequestsOK'
      BY <2>1, <2>2, <2>5 DEF RequestsOK, Routed
    <2> QED
      BY <2>3, <2>4, <2>6, <2>7 DEF DeliveryInv
  <1> QED
    BY <1>1, <1>2, <1>3, <1>4, <1>5 DEF DeliveryNext

\* The variables of the way of an item keep their types, each Add request is for
\* the queues of one queue info (MakeAddRequests), and a thread's hash ring is
\* that of some pub.
THEOREM RequestsAreRouted == DeliverySpec => []DeliveryInv
  BY DeliveryInitInv, DeliveryStepInv, PTL DEF DeliverySpec

\* A copy that was added again is for the one group that failed on the copy
\* before it (AfterConsume).
THEOREM FailuresStayPrivate == DeliverySpec => []RetriesAreOwn
  <1>1. DeliveryInv => RetriesAreOwn
    BY DEF DeliveryInv
  <1> QED
    BY <1>1, RequestsAreRouted, PTL

-----------------------------------------------------------------------------
(* The way of an item: none is lost.                                       *)

\* Where an item is added, each group of its pub has a worker.
LEMMA DestinationFacts ==
  ASSUME SameStores, NEW it \in Item, Takable(it), NEW i, i = GetQueueInfoIDByCount(it.pub, it.count),
         NEW q \in QueueID, q \in QueuesOfInfo(i), NEW s \in StoreID, \E r \in Pub : s \in StoresFor(r),
         NEW g \in PubOf[it.pub].groups
  PROVE  <<g, s, q>> \in Worker
  <1>1. PICK p \in Pub : p = it.pub
    BY DEF Item
  <1>2. i \in Range(PubOf[p].infos)
    BY <1>1, InfoOfItem
  <1>3. s \in StoresFor(p)
    BY DEF SameStores
  <1>4. p \in GetPubIDsByStoreID(s)
    BY <1>3 DEF StoresFor
  <1>5. <<s, q>> \in GetAllQueues(g)
    BY <1>1, <1>2, <1>4 DEF GetAllQueues
  <1>6. g \in GroupID
    BY <1>1 DEF GroupID
  <1> QED
    BY <1>5, <1>6 DEF Worker

\* What stays ahead when a log grows and no request goes away.
LEMMA AheadStays ==
  ASSUME DeliveryTypeOK, NEW w \in Worker, NEW id, NEW p, NEW g, Ahead(w, id, p, g),
         Len(log'[<<w[2], w[3]>>]) \in Nat,
         Len(log[<<w[2], w[3]>>]) <= Len(log'[<<w[2], w[3]>>]),
         \A k \in 1..Len(log[<<w[2], w[3]>>]) : log'[<<w[2], w[3]>>][k] = log[<<w[2], w[3]>>][k],
         got'[w] \in Nat, got'[w] <= got[w], todo'[w] = todo[w]
  PROVE  Ahead(w, id, p, g)'
  <1>1. PICK L : L = log[<<w[2], w[3]>>]
    OBVIOUS
  <1>2. PICK M : M = log'[<<w[2], w[3]>>]
    OBVIOUS
  <1>3. got[w] \in Nat /\ Len(L) \in Nat
    <2>1. PICK x \in StoreID \X QueueID : x = <<w[2], w[3]>>
      BY WorkerFacts
    <2>2. log[x] \in Seq(Item) /\ got[w] \in Nat
      BY DEF DeliveryTypeOK
    <2> QED
      BY <1>1, <2>1, <2>2
  <1>4. CASE \E k \in (got[w] + 1)..Len(L) : Carries(L[k], id, g) /\ L[k].pub = p
    <2>1. PICK k \in (got[w] + 1)..Len(L) : Carries(L[k], id, g) /\ L[k].pub = p
      BY <1>4
    <2>2. k \in 1..Len(L) /\ k \in (got'[w] + 1)..Len(M)
      BY <1>1, <1>2, <1>3
    <2>3. M[k] = L[k]
      BY <1>1, <1>2, <2>2
    <2>4. \E j \in (got'[w] + 1)..Len(M) : Carries(M[j], id, g) /\ M[j].pub = p
      BY <2>1, <2>2, <2>3
    <2> QED
      BY <1>2, <2>4 DEF Ahead, LogOf, Carries
  <1>5. CASE \E k \in DOMAIN todo[w] : \E it \in Range(todo[w][k]) : Carries(it, id, g) /\ it.pub = p
    BY <1>5 DEF Ahead, Carries
  <1> QED
    BY <1>1, <1>4, <1>5 DEF Ahead, LogOf

\* An item in a request that was sent is ahead of a worker of each of its
\* groups, or was dropped for all.
LEMMA SentIsReached ==
  ASSUME DeliveryTypeOK, SameStores, NEW c \in Caller, NEW req \in Seq(Item), NEW s \in StoreID,
         NEW q \in QueueID, NEW i, q \in QueuesOfInfo(i), \E r \in Pub : s \in StoresFor(r),
         \A x \in Range(req) : Takable(x) /\ GetQueueInfoIDByCount(x.pub, x.count) = i,
         \/ settled' = settled \cup UNION {{x.id} \X x.mask : x \in Range(req)}
         \/ log' = [log EXCEPT ![<<s, q>>] = @ \o req],
         got' = got,
         NEW it \in Range(req), NEW g \in it.mask \cap PubOf[it.pub].groups
  PROVE  Reached(it.id, it.pub, g)'
  <1>0. it \in Item /\ Takable(it) /\ i = GetQueueInfoIDByCount(it.pub, it.count)
    BY RangeType
  <1>1. CASE settled' = settled \cup UNION {{x.id} \X x.mask : x \in Range(req)}
    <2>1. <<it.id, g>> \in {it.id} \X it.mask
      OBVIOUS
    <2>2. <<it.id, g>> \in settled'
      BY <1>1, <2>1
    <2> QED
      BY <2>2 DEF Reached
  <1>2. CASE log' = [log EXCEPT ![<<s, q>>] = @ \o req]
    <2>1. PICK v : v = <<g, s, q>>
      OBVIOUS
    <2>2. v \in Worker /\ v[1] = g /\ <<v[2], v[3]>> = <<s, q>>
      BY <1>0, <2>1, DestinationFacts
    <2>3. PICK sq \in StoreID \X QueueID : sq = <<s, q>>
      OBVIOUS
    <2>4. log \in [StoreID \X QueueID -> Seq(Item)] /\ got[v] \in Nat /\ got[v] <= Len(log[sq])
      BY <2>2, <2>3 DEF DeliveryTypeOK
    <2>5. PICK L \in Seq(Item) : L = log[sq]
      BY <2>4
    <2>6. log'[sq] = L \o req
      BY <1>2, <2>3, <2>4, <2>5
    <2>7. PICK j \in 1..Len(req) : it = req[j]
      BY RangeType
    <2>8. PICK M : M = L \o req
      OBVIOUS
    <2>9. Len(M) = Len(L) + Len(req) /\ Len(L) \in Nat /\ Len(req) \in Nat /\ M[Len(L) + j] = req[j]
      BY <2>8
    <2>10. Len(L) + j \in (got'[v] + 1)..Len(M)
      BY <2>4, <2>5, <2>9
    <2>11. Carries(M[Len(L) + j], it.id, g) /\ M[Len(L) + j].pub = it.pub
      BY <2>7, <2>9 DEF Carries
    <2>12. LogOf(v)' = M
      BY <2>2, <2>3, <2>6, <2>8 DEF LogOf
    <2>13. Ahead(v, it.id, it.pub, g)'
      BY <2>10, <2>11, <2>12 DEF Ahead, Carries
    <2> QED
      BY <2>2, <2>13 DEF Reached
  <1> QED
    BY <1>1, <1>2

\* After an attempt, an item is still reached.
LEMMA AddKeepsReached ==
  ASSUME DeliveryInv, SameStores, NEW c \in Caller, NEW hash \in Hashes, NEW o, SelectAndAdd(c, hash, o),
         NEW id, NEW p \in Pub, NEW g \in PubOf[p].groups, Reached(id, p, g)
  PROVE  Reached(id, p, g)'
  <1>0. DeliveryTypeOK /\ RequestsOK /\ RingsOK
    BY DEF DeliveryInv
  <1>1. PICK req \in Seq(Item), s \in StoreID, q \in QueueID, i \in DOMAIN InfoOf :
           /\ todo[c] # << >> /\ req = todo[c][1] /\ req # << >>
           /\ \A it \in Range(req) : Takable(it) /\ GetQueueInfoIDByCount(it.pub, it.count) = i
           /\ \A it \in Range(req) : IsOwn(it)
           /\ q \in QueuesOfInfo(i) /\ \E r \in Pub : s \in StoresFor(r)
           /\ \/ /\ Sent(c) /\ log' = log
                 /\ settled' = settled \cup UNION {{it.id} \X it.mask : it \in Range(req)}
              \/ /\ Sent(c) /\ log' = [log EXCEPT ![<<s, q>>] = @ \o req] /\ settled' = settled
              \/ /\ NotSent(c, s) /\ settled' = settled
                 /\ log' = log \/ log' = [log EXCEPT ![<<s, q>>] = @ \o req]
    BY <1>0, AttemptFacts
  <1>2. got' = got
    BY DEF SelectAndAdd, consuming
  <1>3. \A x \in StoreID \X QueueID :
              /\ Len(log[x]) \in Nat /\ Len(log'[x]) \in Nat /\ Len(log[x]) <= Len(log'[x])
              /\ \A k \in 1..Len(log[x]) : log'[x][k] = log[x][k]
    <2>1. <<s, q>> \in StoreID \X QueueID
      OBVIOUS
    <2>2. log' = log \/ log' = [log EXCEPT ![<<s, q>>] = @ \o req]
      BY <1>1
    <2> QED
      BY <1>0, <2>1, <2>2, LogMore
  <1>4. settled \subseteq settled'
    BY <1>1
  <1>5. CASE <<id, g>> \in settled
    BY <1>4, <1>5 DEF Reached
  <1>6. ASSUME NEW w \in Worker, w[1] = g, Ahead(w, id, p, g) PROVE Reached(id, p, g)'
    <2>0. w \in Caller /\ got[w] \in Nat /\ got'[w] \in Nat /\ got'[w] <= got[w]
      BY <1>0, <1>2, WorkerFacts DEF DeliveryTypeOK
    <2>1. ASSUME todo'[w] = todo[w] PROVE Reached(id, p, g)'
      <3>1. PICK x \in StoreID \X QueueID : x = <<w[2], w[3]>>
        BY WorkerFacts
      <3>2. /\ Len(log'[x]) \in Nat /\ Len(log[x]) <= Len(log'[x])
            /\ \A k \in 1..Len(log[x]) : log'[x][k] = log[x][k]
        BY <1>3
      <3>3. Ahead(w, id, p, g)'
        BY <1>0, <1>6, <2>0, <2>1, <3>1, <3>2, AheadStays
      <3> QED
        BY <1>6, <3>3 DEF Reached
    <2>2. todo \in [Caller -> Seq(Seq(Item))]
      BY <1>0 DEF DeliveryTypeOK
    <2>3. CASE w # c
      <3>1. todo'[w] = todo[w]
        BY <1>1, <2>0, <2>2, <2>3 DEF Sent, NotSent
      <3> QED
        BY <2>1, <3>1
    <2>4. CASE w = c /\ NotSent(c, s)
      <3>1. c # Producer
        BY <2>4, WorkerFacts
      <3>2. todo'[w] = todo[w]
        BY <2>0, <2>2, <2>4, <3>1 DEF NotSent, AfterLastAttempt
      <3> QED
        BY <2>1, <3>2
    <2>5. CASE w = c /\ Sent(c) /\ ~NotSent(c, s)
      <3>1. PICK t \in Seq(Seq(Item)) : t = todo[w] /\ t # << >>
        BY <1>1, <2>0, <2>2, <2>5
      <3>2. todo'[w] = Tail(t)
        BY <2>0, <2>2, <2>5, <3>1 DEF Sent
      <3>3. CASE \E k \in DOMAIN t : \E it \in Range(t[k]) : Carries(it, id, g) /\ it.pub = p
        <4>1. PICK k \in DOMAIN t : \E it \in Range(t[k]) : Carries(it, id, g) /\ it.pub = p
          BY <3>3
        <4>2. PICK it \in Range(t[k]) : Carries(it, id, g) /\ it.pub = p
          BY <4>1
        <4>3. CASE k = 1
          <5>1. it \in Range(req)
            BY <1>1, <2>5, <3>1, <4>2, <4>3
          <5>2. g \in it.mask \cap PubOf[it.pub].groups /\ it.id = id
            BY <4>2 DEF Carries
          <5>3. \/ settled' = settled \cup UNION {{x.id} \X x.mask : x \in Range(req)}
                \/ log' = [log EXCEPT ![<<s, q>>] = @ \o req]
            BY <1>1, <2>5
          <5>4. Reached(it.id, it.pub, g)'
            BY <1>0, <1>1, <1>2, <5>1, <5>2, <5>3, SentIsReached
          <5> QED
            BY <4>2, <5>2, <5>4
        <4>4. CASE k # 1
          <5>1. k - 1 \in DOMAIN Tail(t) /\ Tail(t)[k - 1] = t[k]
            BY <3>1, <4>4
          <5>2. Ahead(w, id, p, g)'
            BY <3>2, <4>2, <5>1 DEF Ahead, Carries
          <5> QED
            BY <1>6, <5>2 DEF Reached
        <4> QED
          BY <4>3, <4>4
      <3>4. CASE \E k \in (got[w] + 1)..Len(LogOf(w)) : Carries(LogOf(w)[k], id, g) /\ LogOf(w)[k].pub = p
        <4>1. PICK k \in (got[w] + 1)..Len(LogOf(w)) : Carries(LogOf(w)[k], id, g) /\ LogOf(w)[k].pub = p
          BY <3>4
        <4>2. PICK x \in StoreID \X QueueID : x = <<w[2], w[3]>>
          BY WorkerFacts
        <4>3. k \in 1..Len(log[x]) /\ k \in (got[w] + 1)..Len(log'[x])
          BY <1>3, <2>0, <4>1, <4>2 DEF LogOf
        <4>4. log'[x][k] = LogOf(w)[k]
          BY <1>3, <4>2, <4>3 DEF LogOf
        <4>5. Ahead(w, id, p, g)'
          BY <1>2, <4>1, <4>2, <4>3, <4>4 DEF Ahead, Carries, LogOf
        <4> QED
          BY <1>6, <4>5 DEF Reached
      <3> QED
        BY <1>6, <3>1, <3>3, <3>4 DEF Ahead
    <2> QED
      BY <1>1, <2>3, <2>4, <2>5
  <1> QED
    BY <1>5, <1>6 DEF Reached

\* SelectAndAdd keeps the invariant.
LEMMA AddKeepsReach ==
  ASSUME ReachInv, SameStores, NEW c \in Caller, NEW hash \in Hashes, NEW o, SelectAndAdd(c, hash, o)
  PROVE  ReachInv'
  <1>0. /\ DeliveryInv /\ DeliveryTypeOK /\ RequestsOK /\ RingsOK /\ DeliveryInv'
        /\ RetriesAreUnacked /\ GotIsReached /\ AcceptedIsReached
    BY AddKeeps DEF DeliveryInv, ReachInv
  <1>1. PICK req \in Seq(Item), s \in StoreID, q \in QueueID, i \in DOMAIN InfoOf :
           /\ todo[c] # << >> /\ req = todo[c][1] /\ req # << >>
           /\ \A it \in Range(req) : Takable(it) /\ GetQueueInfoIDByCount(it.pub, it.count) = i
           /\ \A it \in Range(req) : IsOwn(it)
           /\ q \in QueuesOfInfo(i) /\ \E r \in Pub : s \in StoresFor(r)
           /\ \/ /\ Sent(c) /\ log' = log
                 /\ settled' = settled \cup UNION {{it.id} \X it.mask : it \in Range(req)}
              \/ /\ Sent(c) /\ log' = [log EXCEPT ![<<s, q>>] = @ \o req] /\ settled' = settled
              \/ /\ NotSent(c, s) /\ settled' = settled
                 /\ log' = log \/ log' = [log EXCEPT ![<<s, q>>] = @ \o req]
    BY <1>0, AttemptFacts
  <1>2. got' = got /\ acked' = acked
    BY DEF SelectAndAdd, consuming
  <1>3. \A x \in StoreID \X QueueID :
              /\ Len(log[x]) \in Nat /\ Len(log'[x]) \in Nat /\ Len(log[x]) <= Len(log'[x])
              /\ \A k \in 1..Len(log[x]) : log'[x][k] = log[x][k]
    <2>1. <<s, q>> \in StoreID \X QueueID
      OBVIOUS
    <2>2. log' = log \/ log' = [log EXCEPT ![<<s, q>>] = @ \o req]
      BY <1>1
    <2> QED
      BY <1>0, <2>1, <2>2, LogMore
  <1>4. \A w \in Worker : \A k \in 1..got[w] : LogOf(w)'[k] = LogOf(w)[k] /\ LogOf(w)[k] \in Item
    <2> SUFFICES ASSUME NEW w \in Worker, NEW k \in 1..got[w] PROVE LogOf(w)'[k] = LogOf(w)[k] /\ LogOf(w)[k] \in Item
      OBVIOUS
    <2>1. PICK x \in StoreID \X QueueID : x = <<w[2], w[3]>>
      BY WorkerFacts
    <2>2. got[w] \in Nat /\ got[w] <= Len(log[x]) /\ log[x] \in Seq(Item)
      BY <1>0, <2>1 DEF DeliveryTypeOK
    <2>3. k \in 1..Len(log[x])
      BY <2>2
    <2> QED
      BY <1>3, <2>1, <2>2, <2>3 DEF LogOf
  <1>5. ASSUME NEW id, NEW p \in Pub, NEW g \in PubOf[p].groups, Reached(id, p, g) PROVE Reached(id, p, g)'
    BY <1>0, <1>5, AddKeepsReached
  <1>6. RetriesAreUnacked'
    <2> SUFFICES ASSUME NEW w \in Worker, NEW n \in DOMAIN todo'[w], NEW it \in Range(todo'[w][n])
                 PROVE  it.mask = {w[1]} /\ \E k \in (acked'[w] + 1)..got'[w] :
                          Carries(LogOf(w)'[k], it.id, w[1]) /\ LogOf(w)'[k].pub = it.pub
      BY DEF RetriesAreUnacked, Carries
    <2>1. w \in Caller /\ (Sent(c) \/ NotSent(c, s))
      BY <1>1, WorkerFacts
    <2>2. \A d \in Caller : \A k \in DOMAIN todo'[d] : \E m \in DOMAIN todo[d] : todo'[d][k] = todo[d][m]
      BY <1>0, <1>1, <2>1, TodoLess
    <2>3. PICK m \in DOMAIN todo[w] : todo'[w][n] = todo[w][m]
      BY <2>1, <2>2
    <2>4. it.mask = {w[1]} /\ \E k \in (acked[w] + 1)..got[w] :
            Carries(LogOf(w)[k], it.id, w[1]) /\ LogOf(w)[k].pub = it.pub
      BY <1>0, <2>3 DEF RetriesAreUnacked
    <2>5. PICK k \in (acked[w] + 1)..got[w] : Carries(LogOf(w)[k], it.id, w[1]) /\ LogOf(w)[k].pub = it.pub
      BY <2>4
    <2>6. k \in 1..got[w]
      BY <1>0 DEF DeliveryTypeOK
    <2>7. LogOf(w)'[k] = LogOf(w)[k]
      BY <1>4, <2>6
    <2> QED
      BY <1>2, <2>4, <2>5, <2>7
  <1>7. GotIsReached'
    <2> SUFFICES ASSUME NEW w \in Worker, NEW it, NEW k \in 1..got[w], it = LogOf(w)'[k],
                        w[1] \in it.mask \cap PubOf[it.pub].groups
                 PROVE  Reached(it.id, it.pub, w[1])'
      BY <1>2 DEF GotIsReached
    <2>1. it \in Item /\ it = LogOf(w)[k]
      BY <1>4
    <2>2. it.pub \in Pub
      BY <2>1 DEF Item
    <2>3. Reached(it.id, it.pub, w[1])
      BY <1>0, <2>1 DEF GotIsReached
    <2>4. Reached(it.id, it.pub, w[1])'
      BY <1>5, <2>1, <2>2, <2>3
    <2> QED
      BY <2>1, <2>4
  <1>8. AcceptedIsReached'
    <2> SUFFICES ASSUME NEW it \in accepted', NEW g \in it.mask \cap PubOf[it.pub].groups
                 PROVE  Reached(it.id, it.pub, g)'
      BY DEF AcceptedIsReached
    <2>1. CASE it \in accepted
      <3>1. it.pub \in Pub
        BY <1>0, <2>1 DEF DeliveryTypeOK, Item
      <3>2. Reached(it.id, it.pub, g)
        BY <1>0, <2>1 DEF AcceptedIsReached
      <3> QED
        BY <1>5, <3>1, <3>2
    <2>2. CASE it \notin accepted
      <3>1. Sent(c) /\ ~NotSent(c, s) /\ it = req[1]
        BY <1>1, <2>2 DEF Sent, NotSent
      <3>2. it \in Range(req)
        <4>1. 1 \in 1..Len(req)
          BY <1>1
        <4> QED
          BY <3>1, <4>1, RangeType
      <3>3. \/ settled' = settled \cup UNION {{x.id} \X x.mask : x \in Range(req)}
            \/ log' = [log EXCEPT ![<<s, q>>] = @ \o req]
        BY <1>1, <3>1
      <3> QED
        BY <1>0, <1>1, <1>2, <3>2, <3>3, SentIsReached
    <2> QED
      BY <2>1, <2>2
  <1> QED
    BY <1>0, <1>6, <1>7, <1>8 DEF ReachInv

\* Enqueue keeps the invariant: it changes the producer's requests alone.
LEMMA EnqueueKeepsReach ==
  ASSUME ReachInv, NEW req \in Requests, Enqueue(req)
  PROVE  ReachInv'
  <1>0. /\ DeliveryInv /\ DeliveryTypeOK /\ DeliveryInv'
        /\ RetriesAreUnacked /\ GotIsReached /\ AcceptedIsReached
    BY EnqueueKeeps DEF DeliveryInv, ReachInv
  <1>1. UNCHANGED <<log, acked, got, accepted, settled>>
    BY DEF Enqueue, consuming
  <1>2. \A w \in Worker : todo'[w] = todo[w]
    <2>1. todo \in [Caller -> Seq(Seq(Item))]
      BY <1>0 DEF DeliveryTypeOK
    <2> QED
      BY <2>1, WorkerFacts DEF Enqueue
  <1>3. \A w \in Worker : LogOf(w)' = LogOf(w)
    BY <1>1 DEF LogOf
  <1>4. ASSUME NEW id, NEW p, NEW g, Reached(id, p, g) PROVE Reached(id, p, g)'
    BY <1>1, <1>2, <1>3, <1>4 DEF Reached, Ahead, Carries
  <1>5. RetriesAreUnacked'
    BY <1>0, <1>1, <1>2, <1>3 DEF RetriesAreUnacked, Carries
  <1>6. GotIsReached'
    BY <1>0, <1>1, <1>3, <1>4 DEF GotIsReached
  <1>7. AcceptedIsReached'
    BY <1>0, <1>1, <1>4 DEF AcceptedIsReached
  <1> QED
    BY <1>0, <1>5, <1>6, <1>7 DEF ReachInv

\* Replaced keeps the invariant: what was in the requests comes again.
LEMMA ReplacedKeepsReach ==
  ASSUME ReachInv, NEW w \in Worker, Replaced(w)
  PROVE  ReachInv'
  <1>0. /\ DeliveryInv /\ DeliveryTypeOK /\ DeliveryInv' /\ w \in Caller
        /\ RetriesAreUnacked /\ GotIsReached /\ AcceptedIsReached
    BY ReplacedKeeps, WorkerFacts DEF DeliveryInv, ReachInv
  <1>1. UNCHANGED <<log, acked, accepted, settled>>
    BY DEF Replaced
  <1>2. /\ todo \in [Caller -> Seq(Seq(Item))] /\ got \in [Worker -> Nat] /\ acked \in [Worker -> Nat]
        /\ got' = [got EXCEPT ![w] = acked[w]] /\ todo' = [todo EXCEPT ![w] = << >>]
    BY <1>0 DEF DeliveryTypeOK, Replaced
  <1>3. /\ \A v \in Worker : v # w => todo'[v] = todo[v] /\ got'[v] = got[v]
        /\ todo'[w] = << >> /\ got'[w] = acked[w]
    BY <1>0, <1>2, WorkerFacts
  <1>4. \A v \in Worker : LogOf(v)' = LogOf(v)
    BY <1>1 DEF LogOf
  <1>5. \A v \in Worker : /\ acked[v] \in Nat /\ got[v] \in Nat /\ got'[v] \in Nat /\ Len(LogOf(v)) \in Nat
                          /\ acked[v] <= got[v] /\ got[v] <= Len(LogOf(v)) /\ got'[v] <= got[v]
    <2> SUFFICES ASSUME NEW v \in Worker
                 PROVE  /\ acked[v] \in Nat /\ got[v] \in Nat /\ got'[v] \in Nat /\ Len(LogOf(v)) \in Nat
                        /\ acked[v] <= got[v] /\ got[v] <= Len(LogOf(v)) /\ got'[v] <= got[v]
      OBVIOUS
    <2>1. acked[v] <= got[v] /\ got[v] <= Len(LogOf(v))
      BY <1>0 DEF DeliveryTypeOK, LogOf
    <2>2. Len(LogOf(v)) \in Nat
      <3>1. PICK x \in StoreID \X QueueID : x = <<v[2], v[3]>>
        BY WorkerFacts
      <3>2. log[x] \in Seq(Item)
        BY <1>0 DEF DeliveryTypeOK
      <3> QED
        BY <3>1, <3>2 DEF LogOf
    <2>3. acked[v] \in Nat /\ got[v] \in Nat /\ (got'[v] = got[v] \/ got'[v] = acked[v])
      BY <1>2, <1>3
    <2> QED
      BY <2>1, <2>2, <2>3
  <1>6. ASSUME NEW id, NEW p, NEW g, Reached(id, p, g) PROVE Reached(id, p, g)'
    <2>1. CASE <<id, g>> \in settled
      BY <1>1, <2>1 DEF Reached
    <2>2. ASSUME NEW v \in Worker, v[1] = g, Ahead(v, id, p, g) PROVE Reached(id, p, g)'
      <3>1. CASE \E k \in (got[v] + 1)..Len(LogOf(v)) : Carries(LogOf(v)[k], id, g) /\ LogOf(v)[k].pub = p
        <4>1. PICK k \in (got[v] + 1)..Len(LogOf(v)) : Carries(LogOf(v)[k], id, g) /\ LogOf(v)[k].pub = p
          BY <3>1
        <4>2. k \in (got'[v] + 1)..Len(LogOf(v))
          BY <1>5
        <4> QED
          BY <1>4, <2>2, <4>1, <4>2 DEF Reached, Ahead, Carries
      <3>2. CASE \E k \in DOMAIN todo[v] : \E it \in Range(todo[v][k]) : Carries(it, id, g) /\ it.pub = p
        <4>1. CASE v = w
          <5>1. PICK n \in DOMAIN todo[w] : \E it \in Range(todo[w][n]) : Carries(it, id, g) /\ it.pub = p
            BY <3>2, <4>1
          <5>2. PICK it \in Range(todo[w][n]) : Carries(it, id, g) /\ it.pub = p
            BY <5>1
          <5>3. PICK k \in (acked[w] + 1)..got[w] : Carries(LogOf(w)[k], it.id, w[1]) /\ LogOf(w)[k].pub = it.pub
            BY <1>0 DEF RetriesAreUnacked
          <5>4. k \in (got'[w] + 1)..Len(LogOf(w))
            BY <1>3, <1>5
          <5>5. Carries(LogOf(w)[k], id, g) /\ LogOf(w)[k].pub = p
            BY <2>2, <4>1, <5>2, <5>3 DEF Carries
          <5>6. Ahead(w, id, p, g)'
            BY <1>4, <5>4, <5>5 DEF Ahead, Carries
          <5> QED
            BY <2>2, <4>1, <5>6 DEF Reached
        <4>2. CASE v # w
          BY <1>3, <2>2, <3>2, <4>2 DEF Reached, Ahead, Carries
        <4> QED
          BY <4>1, <4>2
      <3> QED
        BY <2>2, <3>1, <3>2 DEF Ahead
    <2> QED
      BY <1>6, <2>1, <2>2 DEF Reached
  <1>7. RetriesAreUnacked'
    <2> SUFFICES ASSUME NEW v \in Worker, NEW n \in DOMAIN todo'[v], NEW it \in Range(todo'[v][n])
                 PROVE  it.mask = {v[1]} /\ \E k \in (acked[v] + 1)..got'[v] :
                          Carries(LogOf(v)[k], it.id, v[1]) /\ LogOf(v)[k].pub = it.pub
      BY <1>1, <1>4 DEF RetriesAreUnacked, Carries
    <2>1. v # w
      BY <1>3
    <2> QED
      BY <1>0, <1>3, <2>1 DEF RetriesAreUnacked
  <1>8. GotIsReached'
    <2> SUFFICES ASSUME NEW v \in Worker, NEW it, NEW k \in 1..got'[v], it = LogOf(v)[k],
                        v[1] \in it.mask \cap PubOf[it.pub].groups
                 PROVE  Reached(it.id, it.pub, v[1])'
      BY <1>4 DEF GotIsReached
    <2>1. k \in 1..got[v]
      BY <1>5
    <2>2. Reached(it.id, it.pub, v[1])
      BY <1>0, <2>1 DEF GotIsReached
    <2> QED
      BY <1>6, <2>2
  <1>9. AcceptedIsReached'
    BY <1>0, <1>1, <1>6 DEF AcceptedIsReached
  <1> QED
    BY <1>0, <1>7, <1>8, <1>9 DEF ReachInv

\* Process keeps the invariant: each item of the batch is handled, given up or
\* in the requests for the retries.
LEMMA ProcessKeepsReach ==
  ASSUME ReachInv, NoneGrowsTooLarge, NEW w \in Worker, NEW size \in Sizes, NEW failing, Process(w, failing, size)
  PROVE  ReachInv'
  <1>0. /\ DeliveryInv /\ DeliveryTypeOK /\ DeliveryInv' /\ w \in Caller /\ w[1] \in GroupID
        /\ RetriesAreUnacked /\ GotIsReached /\ AcceptedIsReached
    BY ProcessKeeps, WorkerFacts DEF DeliveryInv, ReachInv
  <1>1. PICK L \in Seq(Item), a \in Nat, b \in Nat, batch \in Seq(Item), again \in Seq(Item) :
           /\ L = LogOf(w) /\ a = got[w] /\ a <= b /\ b <= Len(L)
           /\ \A x \in Range(batch) : \E k \in (a + 1)..b : x = L[k]
           /\ \A k \in (a + 1)..b : L[k] \in Range(batch)
           /\ \A x \in failing : x \in Range(batch) /\ w[1] \in x.mask
           /\ Range(again) = {RetryItem(w[1], x, size) : x \in failing}
           /\ acked' = [acked EXCEPT ![w] = a] /\ got' = [got EXCEPT ![w] = b]
           /\ todo' = [todo EXCEPT ![w] = IF TooLarge(again) THEN << >> ELSE MakeAddRequests(again)]
           /\ settled' = settled
                \cup {<<it.id, w[1]>> : it \in {x \in Range(batch) : w[1] \in x.mask} \ failing}
                \cup {<<it.id, w[1]>> : it \in {x \in Range(again) : ~Takable(x)}}
           /\ failed' = failed \cup {<<it.id, w[1], it.count>> : it \in failing}
    BY <1>0, ProcessFacts, Zenon
  <1>2. UNCHANGED <<log, accepted>> /\ todo[w] = << >>
    BY DEF Process
  <1>3. /\ todo \in [Caller -> Seq(Seq(Item))] /\ got \in [Worker -> Nat] /\ acked \in [Worker -> Nat]
    BY <1>0 DEF DeliveryTypeOK
  <1>4. \A x \in failing : x \in Item
    BY <1>1, RangeType
  <1>5. \A y \in Range(again) : \E x \in failing : /\ y.id = x.id /\ y.pub = x.pub /\ y.mask = {w[1]}
                                                 /\ y.size = size
    <2> SUFFICES ASSUME NEW x \in failing, NEW y, y = RetryItem(w[1], x, size)
                 PROVE  y.id = x.id /\ y.pub = x.pub /\ y.mask = {w[1]} /\ y.size = size
      BY <1>1
    <2> QED
      BY <1>0, <1>4, RetryFacts
  <1>6. \A x \in failing : \E y \in Range(again) : y.id = x.id /\ y.pub = x.pub /\ y.mask = {w[1]}
    <2> SUFFICES ASSUME NEW x \in failing PROVE \E y \in Range(again) : y.id = x.id /\ y.pub = x.pub /\ y.mask = {w[1]}
      OBVIOUS
    <2>1. PICK y : y = RetryItem(w[1], x, size)
      OBVIOUS
    <2>2. y.id = x.id /\ y.pub = x.pub /\ y.mask = {w[1]}
      BY <1>0, <1>4, <2>1, RetryFacts
    <2>3. y \in Range(again)
      BY <1>1, <2>1
    <2> QED
      BY <2>2, <2>3
  <1>7. PICK r : r = MakeAddRequests(again)
    OBVIOUS
  <1>8. r \in Seq(Seq(Item)) /\ Content(r) = {it \in Range(again) : Takable(it)}
    BY <1>7, RequestFacts
  <1>9. ~TooLarge(again)
    <2>1. \A y \in Range(again) : y.size <= ByteLimit /\ y.size \in Nat
      BY <1>5, DeliveryAssumption DEF NoneGrowsTooLarge
    <2>2. ASSUME NEW i \in DOMAIN InfoOf, NEW own, own = OfInfo(again, i), own # << >>
          PROVE  ~(own[1].size > ByteLimit)
      <3>1. own \in Seq(Item) /\ Range(own) \subseteq Range(again)
        BY <2>2, PickedFacts DEF OfInfo
      <3>2. 1 \in 1..Len(own)
        BY <2>2, <3>1
      <3>3. own[1] \in Range(again)
        BY <3>1, <3>2, RangeType
      <3> QED
        BY <2>1, <3>3, DeliveryAssumption
    <2> QED
      BY <2>2 DEF TooLarge
  <1>10. /\ todo'[w] = r /\ acked'[w] = a /\ got'[w] = b
         /\ \A v \in Worker : v # w => todo'[v] = todo[v] /\ got'[v] = got[v] /\ acked'[v] = acked[v]
    BY <1>0, <1>1, <1>3, <1>7, <1>9, WorkerFacts
  <1>11. \A v \in Worker : LogOf(v)' = LogOf(v)
    BY <1>2 DEF LogOf
  <1>12. settled \subseteq settled'
    BY <1>1
  <1>13. ASSUME NEW k \in (a + 1)..b, NEW x, x = L[k], w[1] \in x.mask PROVE Reached(x.id, x.pub, w[1])'
    <2>1. x \in Range(batch)
      BY <1>1, <1>13
    <2>2. CASE x \notin failing
      <3>1. <<x.id, w[1]>> \in settled'
        BY <1>1, <1>13, <2>1, <2>2
      <3> QED
        BY <3>1 DEF Reached
    <2>3. CASE x \in failing
      <3>1. PICK y \in Range(again) : y.id = x.id /\ y.pub = x.pub /\ y.mask = {w[1]}
        BY <1>6, <2>3
      <3>2. CASE ~Takable(y)
        <4>1. <<y.id, w[1]>> \in settled'
          BY <1>1, <3>2
        <4> QED
          BY <3>1, <4>1 DEF Reached
      <3>3. CASE Takable(y)
        <4>1. y \in Content(r)
          BY <1>8, <3>3
        <4>2. PICK n \in DOMAIN r : y \in Range(r[n])
          BY <4>1 DEF Content
        <4>3. Carries(y, x.id, w[1]) /\ y.pub = x.pub
          BY <3>1 DEF Carries
        <4>4. Ahead(w, x.id, x.pub, w[1])'
          BY <1>10, <4>2, <4>3 DEF Ahead, Carries
        <4> QED
          BY <4>4 DEF Reached
      <3> QED
        BY <3>2, <3>3
    <2> QED
      BY <2>2, <2>3
  <1>14. ASSUME NEW id, NEW p, NEW g, Reached(id, p, g) PROVE Reached(id, p, g)'
    <2>1. CASE <<id, g>> \in settled
      BY <1>12, <2>1 DEF Reached
    <2>2. ASSUME NEW v \in Worker, v[1] = g, Ahead(v, id, p, g) PROVE Reached(id, p, g)'
      <3>1. CASE v # w
        BY <1>10, <1>11, <2>2, <3>1 DEF Reached, Ahead, Carries
      <3>2. CASE v = w
        <4>1. PICK k \in (a + 1)..Len(L) : Carries(L[k], id, g) /\ L[k].pub = p
          <5>1. DOMAIN todo[w] = {}
            BY <1>2
          <5> QED
            BY <1>1, <2>2, <3>2, <5>1 DEF Ahead
        <4>2. CASE k <= b
          <5>1. k \in (a + 1)..b
            BY <4>2
          <5>2. PICK x : x = L[k]
            OBVIOUS
          <5>3. x.id = id /\ x.pub = p /\ w[1] \in x.mask /\ w[1] = g
            BY <2>2, <3>2, <4>1, <5>2 DEF Carries
          <5>4. Reached(x.id, x.pub, w[1])'
            BY <1>13, <5>1, <5>2, <5>3
          <5> QED
            BY <5>3, <5>4
        <4>3. CASE ~(k <= b)
          <5>1. k \in (b + 1)..Len(L)
            BY <1>1, <4>3
          <5>2. Ahead(w, id, p, g)'
            BY <1>1, <1>10, <1>11, <4>1, <5>1 DEF Ahead, Carries
          <5> QED
            BY <2>2, <3>2, <5>2 DEF Reached
        <4> QED
          BY <4>2, <4>3
      <3> QED
        BY <3>1, <3>2
    <2> QED
      BY <1>14, <2>1, <2>2 DEF Reached
  <1>15. RetriesAreUnacked'
    <2> SUFFICES ASSUME NEW v \in Worker, NEW n \in DOMAIN todo'[v], NEW it \in Range(todo'[v][n])
                 PROVE  it.mask = {v[1]} /\ \E k \in (acked'[v] + 1)..got'[v] :
                          Carries(LogOf(v)[k], it.id, v[1]) /\ LogOf(v)[k].pub = it.pub
      BY <1>11 DEF RetriesAreUnacked, Carries
    <2>1. CASE v # w
      BY <1>0, <1>10, <2>1 DEF RetriesAreUnacked
    <2>2. CASE v = w
      <3>1. it \in Content(r)
        BY <1>10, <2>2 DEF Content
      <3>2. PICK x \in failing : it.id = x.id /\ it.pub = x.pub /\ it.mask = {w[1]}
        BY <1>5, <1>8, <3>1
      <3>3. PICK k \in (a + 1)..b : x = L[k]
        BY <1>1, <3>2
      <3>4. Carries(L[k], it.id, w[1]) /\ L[k].pub = it.pub
        BY <1>1, <3>2, <3>3 DEF Carries
      <3> QED
        BY <1>1, <1>10, <2>2, <3>2, <3>4
    <2> QED
      BY <2>1, <2>2
  <1>16. GotIsReached'
    <2> SUFFICES ASSUME NEW v \in Worker, NEW it, NEW k \in 1..got'[v], it = LogOf(v)[k],
                        v[1] \in it.mask \cap PubOf[it.pub].groups
                 PROVE  Reached(it.id, it.pub, v[1])'
      BY <1>11 DEF GotIsReached
    <2>1. CASE k \in 1..got[v]
      <3>1. Reached(it.id, it.pub, v[1])
        BY <1>0, <2>1 DEF GotIsReached
      <3> QED
        BY <1>14, <3>1
    <2>2. CASE k \notin 1..got[v]
      <3>1. v = w
        BY <1>10, <2>2
      <3>2. k \in (a + 1)..b
        BY <1>1, <1>10, <2>2, <3>1
      <3> QED
        BY <1>1, <1>13, <3>1, <3>2
    <2> QED
      BY <2>1, <2>2
  <1>17. AcceptedIsReached'
    BY <1>0, <1>2, <1>14 DEF AcceptedIsReached
  <1> QED
    BY <1>0, <1>15, <1>16, <1>17 DEF ReachInv

\* The start.
LEMMA ReachInitInv == DeliveryInit => ReachInv
  <1> SUFFICES ASSUME DeliveryInit PROVE ReachInv
    OBVIOUS
  <1>1. DeliveryInv
    BY DeliveryInitInv
  <1>2. (\A w \in Worker : todo[w] = << >> /\ got[w] = 0) /\ accepted = {}
    BY WorkerFacts DEF DeliveryInit
  <1>3. RetriesAreUnacked
    BY <1>2 DEF RetriesAreUnacked
  <1>4. GotIsReached
    BY <1>2 DEF GotIsReached
  <1>5. AcceptedIsReached
    BY <1>2 DEF AcceptedIsReached
  <1> QED
    BY <1>1, <1>3, <1>4, <1>5 DEF ReachInv

\* Every step keeps the invariant.
LEMMA ReachStepInv ==
  ASSUME SameStores, NoneGrowsTooLarge, ReachInv, [DeliveryNext]_deliveryVars
  PROVE  ReachInv'
  <1>1. ASSUME NEW req \in Requests, Enqueue(req) PROVE ReachInv'
    BY <1>1, EnqueueKeepsReach
  <1>2. ASSUME NEW c \in Caller, AddStep(c) PROVE ReachInv'
    BY <1>2, AddKeepsReach DEF AddStep
  <1>3. ASSUME NEW w \in Worker, ProcessStep(w) PROVE ReachInv'
    <2>1. PICK failing \in SUBSET Range(SubSeq(LogOf(w), got[w] + 1, NextGot(w))), size \in Sizes :
            Process(w, failing, size)
      BY <1>3 DEF ProcessStep
    <2> QED
      BY <2>1, ProcessKeepsReach
  <1>4. ASSUME NEW w \in Worker, Replaced(w) PROVE ReachInv'
    BY <1>4, ReplacedKeepsReach
  <1>5. CASE UNCHANGED deliveryVars
    <2>1. UNCHANGED <<log, acked, got, todo, tried, ring, accepted, settled, failed, nitem, losses>>
      BY <1>5 DEF deliveryVars
    <2>2. DeliveryInv'
      BY <1>5, DeliveryStepInv DEF ReachInv
    <2>3. RetriesAreUnacked /\ GotIsReached /\ AcceptedIsReached
      BY DEF ReachInv
    <2>4. \A w \in Worker : LogOf(w)' = LogOf(w)
      BY <2>1 DEF LogOf
    <2>5. ASSUME NEW id, NEW p, NEW g, Reached(id, p, g) PROVE Reached(id, p, g)'
      BY <2>1, <2>4, <2>5 DEF Reached, Ahead, Carries
    <2>6. RetriesAreUnacked'
      BY <2>1, <2>3, <2>4 DEF RetriesAreUnacked, Carries
    <2>7. GotIsReached'
      BY <2>1, <2>3, <2>4, <2>5 DEF GotIsReached
    <2>8. AcceptedIsReached'
      BY <2>1, <2>3, <2>5 DEF AcceptedIsReached
    <2> QED
      BY <2>2, <2>6, <2>7, <2>8 DEF ReachInv
  <1> QED
    BY <1>1, <1>2, <1>3, <1>4, <1>5 DEF DeliveryNext

\* What is ahead of a worker is still coming to it.
LEMMA ReachedIsNotLost == ReachInv => NoItemLost
  <1> SUFFICES ASSUME ReachInv, NEW it \in accepted, NEW g \in it.mask \cap PubOf[it.pub].groups
               PROVE  <<it.id, g>> \in settled \/ \E w \in Worker : w[1] = g /\ Coming(w, it.id, g)
    BY DEF NoItemLost
  <1>1. Reached(it.id, it.pub, g)
    BY DEF ReachInv, AcceptedIsReached
  <1>2. ASSUME NEW w \in Worker, Ahead(w, it.id, it.pub, g) PROVE Coming(w, it.id, g)
    <2>1. acked[w] \in Nat /\ got[w] \in Nat /\ acked[w] <= got[w]
      BY DEF ReachInv, DeliveryInv, DeliveryTypeOK
    <2>2. CASE \E k \in (got[w] + 1)..Len(LogOf(w)) :
                 Carries(LogOf(w)[k], it.id, g) /\ LogOf(w)[k].pub = it.pub
      <3>1. PICK k \in (got[w] + 1)..Len(LogOf(w)) : Carries(LogOf(w)[k], it.id, g)
        BY <2>2
      <3>2. PICK n : n = Len(LogOf(w))
        OBVIOUS
      <3>3. n \in Nat
        <4>1. PICK x \in StoreID \X QueueID : x = <<w[2], w[3]>>
          BY WorkerFacts
        <4>2. log[x] \in Seq(Item)
          BY DEF ReachInv, DeliveryInv, DeliveryTypeOK
        <4> QED
          BY <3>2, <4>1, <4>2 DEF LogOf
      <3>4. k \in (acked[w] + 1)..n
        BY <2>1, <3>1, <3>2, <3>3
      <3> QED
        BY <3>1, <3>2, <3>4 DEF Coming
    <2> QED
      BY <1>2, <2>2 DEF Ahead, Coming
  <1> QED
    BY <1>1, <1>2 DEF Reached

\* An item whose Enqueue returned RET_OK is not lost for a group it is meant
\* for, whatever the topic config, the limits of a request, the number of items,
\* retries, lost and late answers and replaced workers, if the stores serve the
\* same pubs and no handler makes an item too large to be added again.
THEOREM AcceptedIsDelivered ==
  SameStores /\ NoneGrowsTooLarge => (DeliverySpec => []NoItemLost)
  <1> SUFFICES ASSUME SameStores, NoneGrowsTooLarge PROVE DeliverySpec => []NoItemLost
    OBVIOUS
  <1>1. ReachInv /\ [DeliveryNext]_deliveryVars => ReachInv'
    BY ReachStepInv
  <1> QED
    BY <1>1, ReachInitInv, ReachedIsNotLost, PTL DEF DeliverySpec
=============================================================================
