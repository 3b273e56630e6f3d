---------------------------- MODULE StoreProofs -----------------------------
(***************************************************************************)
(* Type correctness of Store, and the safety of delivery: IInv is          *)
(* inductive for a paxos group that serves one queue, and for any number   *)
(* of queues as long as no node has to start from a checkpoint.            *)
(***************************************************************************)
EXTENDS StoreInvariant, TLAPS

-----------------------------------------------------------------------------
(* Typing.                                                                 *)

\* Queue 0 exists and queue numbers are naturals; subscribed groups are groups.
LEMMA QueueFacts ==
    /\ Queue \subseteq Nat /\ 0 \in Queue
    /\ \A q \in Queue : Subs[q] \subseteq Group
  BY ConstantsAssumption DEF Queue

\* A server thread that is not free runs a Get.
LEMMA OpActive ==
    ASSUME TypeOK, NEW w \in Worker, op[w].ph # "free"
    PROVE  op[w] \in ActiveOp
  BY DEF TypeOK, FreeOp

\* The records that stand for "nothing under way" have their types.
LEMMA IdleTypes == /\ IdleMk \in MkState
                   /\ IdleConsumer \in ConsumerState
                   /\ NoCursors \in Cursors
                   /\ FreeOp.ph = "free"
  BY QueueFacts DEF IdleMk, MkState, IdleConsumer, ConsumerState, NoCursors,
     Cursors, Cursor, NoCursor, FreeOp

\* One iteration of Get's loop at a cursor i keeps the thread's Get well typed.
LEMMA IterationType ==
    ASSUME TypeOK, NEW w \in Worker, op[w] \in ActiveOp, NEW i \in Nat
    PROVE  GetItemsByCursorID(w, i) \in ActiveOp
<1> DEFINE read == {x \in {i} : x >= minc[op[w].node]
                                /\ ItemFor(x, op[w].q, op[w].g)}
<1>1. read \subseteq Nat
  OBVIOUS
<1> HIDE DEF read
<1>2. /\ [op[w] EXCEPT !.next = i, !.moved = TRUE] \in ActiveOp
      /\ [op[w] EXCEPT !.ph = "prev"] \in ActiveOp
      /\ [op[w] EXCEPT !.next = i, !.moved = TRUE, !.items = @ \cup read]
            \in ActiveOp
  BY <1>1 DEF ActiveOp, Cursor
<1> QED
  BY <1>2 DEF GetItemsByCursorID, read

\* Giving up the Gets of a consumer keeps the threads well typed.
LEMMA AbandonType ==
    ASSUME TypeOK, NEW c \in Consumer, Abandon(c)
    PROVE  op' \in [Worker -> ActiveOp \cup {FreeOp}]
<1>1. ASSUME NEW w \in Worker, op[w].ph # "free"
      PROVE  [op[w] EXCEPT !.cli = Nobody] \in ActiveOp
  BY <1>1, OpActive DEF ActiveOp
<1> QED
  BY <1>1 DEF Abandon, TypeOK

\* So does a process start.
LEMMA StartType ==
    ASSUME TypeOK, NEW n \in Node, NEW c \in Cursor, StartFrom(n, c)
    PROVE  /\ cp' \in [Node -> Cursor] /\ applied' \in [Node -> Nat]
           /\ metas' \in [Node -> [Queue -> SUBSET Nat]]
           /\ mk' \in [Node -> MkState]
           /\ op' \in [Worker -> ActiveOp \cup {FreeOp}]
           /\ master' \in Node \cup {Nobody}
<1>1. c + 1 \in Nat
  BY DEF Cursor, NoCursor
<1> QED
  BY <1>1, IdleTypes DEF StartFrom, TypeOK

\* Every step keeps the state well typed.
LEMMA TypeStep == TypeOK /\ [Next]_vars => TypeOK'
<1> SUFFICES ASSUME TypeOK, [Next]_vars PROVE TypeOK'
  OBVIOUS
<1>1. ASSUME NEW b \in Batches, PaxosAdd(b) PROVE TypeOK'
  <2>1. [adds |-> b, sync |-> NoCursors] \in Entry
    BY ConstantsAssumption, IdleTypes DEF Entry
  <2> QED
    BY <1>1, <2>1 DEF PaxosAdd, TypeOK
<1>2. ASSUME NEW n \in Node, SyncCursorID(n) PROVE TypeOK'
  BY <1>2 DEF SyncCursorID, TypeOK
<1>3. ASSUME NEW v \in pend, SyncChosen(v) PROVE TypeOK'
  <2>1. [adds |-> {}, sync |-> v] \in Entry
    BY DEF Entry, TypeOK
  <2> QED
    BY <1>3, <2>1 DEF SyncChosen, TypeOK
<1>4. ASSUME NEW v \in pend, SyncLost(v) PROVE TypeOK'
  BY <1>4 DEF SyncLost, TypeOK
<1>5. ASSUME NEW m \in Node \cup {Nobody}, MasterChange(m) PROVE TypeOK'
  BY <1>5 DEF MasterChange, Fault, TypeOK
<1>6. ASSUME NEW n \in Node, NEW m \in 0 .. cp[n], CleanPaxosLog(n, m)
      PROVE  TypeOK'
  BY <1>6 DEF CleanPaxosLog, TypeOK
<1>7. ASSUME NEW n \in Node, Execute(n) PROVE TypeOK'
  <2>1. log[applied[n] + 1] \in Entry
    BY <1>7 DEF Execute, TypeOK
  <2>2. log[applied[n] + 1].sync \in Cursors
    BY <2>1 DEF Entry
  <2>3. /\ SyncTo(prevc[n], n, log[applied[n] + 1].sync) \in Cursors
        /\ SyncTo(nextc[n], n, log[applied[n] + 1].sync) \in Cursors
    BY <2>2 DEF SyncTo, Cursors, TypeOK
  <2>4. AddMetas(n, applied[n]) \in [Queue -> SUBSET Nat]
    BY DEF AddMetas, TypeOK
  <2> QED
    BY <1>7, <2>3, <2>4 DEF Execute, TypeOK
<1>8. ASSUME NEW n \in Node, Restart(n) PROVE TypeOK'
  BY <1>8, StartType DEF Restart, Fault, TypeOK
<1>9. ASSUME NEW n \in Node, NEW m \in Node, LoadCheckpointState(n, m)
      PROVE  TypeOK'
  <2>1. cp[m] \in Cursor /\ cp[m] + 1 \in Nat
    BY DEF TypeOK, Cursor, NoCursor
  <2> QED
    BY <1>9, <2>1, StartType DEF LoadCheckpointState, TypeOK
<1>10. ASSUME NEW n \in Node, MakeCheckPoint(n) PROVE TypeOK'
  <2>1. [IdleMk EXCEPT !.ph = "cursors", !.now = applied[n]] \in MkState
    BY IdleTypes DEF MkState, TypeOK
  <2> QED
    BY <1>10, <2>1 DEF MakeCheckPoint, TypeOK
<1>11. ASSUME NEW n \in Node, ScanCursors(n) PROVE TypeOK'
  <2>1. mk[n].q \in Queue
    BY DEF TypeOK, MkState
  <2>2. ASSUME NEW g \in Subs[mk[n].q] PROVE prevc[n][g][mk[n].q] \in Cursor
    <3>1. g \in Group /\ prevc[n] \in [Group -> [Queue -> Cursor]]
      BY <2>1, QueueFacts DEF TypeOK, Cursors
    <3> QED
      BY <2>1, <3>1
  <2> DEFINE found == {prevc[n][g][mk[n].q] : g \in Subs[mk[n].q]} \ {NoCursor}
  <2>a. found \cup {NoCursor} \subseteq Cursor
    BY <2>2 DEF Cursor
  <2>3. PICK m \in found \cup {NoCursor} :
          mk' = [mk EXCEPT ![n] = [@ EXCEPT !.ph = "metas", !.min = m,
                  !.update = \A g \in Subs[mk[n].q] :
                                prevc[n][g][mk[n].q] # NoCursor]]
    BY <1>11 DEF ScanCursors
  <2>4. [mk[n] EXCEPT !.ph = "metas", !.min = m,
           !.update = \A g \in Subs[mk[n].q] :
                        prevc[n][g][mk[n].q] # NoCursor] \in MkState
    BY <2>a DEF TypeOK, MkState
  <2> QED
    BY <1>11, <2>3, <2>4 DEF ScanCursors, TypeOK
<1>12. ASSUME NEW n \in Node, ScanMetas(n) PROVE TypeOK'
  <2>1. mk[n] \in MkState /\ mk[n].q \in Queue /\ mk[n].cp \in Cursor
    BY DEF TypeOK, MkState
  <2>2. CutMetas(n) \in SUBSET Nat
    BY <2>1 DEF CutMetas, TypeOK
  <2>3. ASSUME NEW c \in Cursor PROVE NextQueue(n, c) \in MkState
    <3>1. CASE mk[n].q + 1 < NQueue
      <4>1. mk[n].q + 1 \in Queue /\ mk[n].now \in Nat
        BY <2>1, <3>1, QueueFacts, ConstantsAssumption DEF Queue, MkState
      <4>2. [IdleMk EXCEPT !.ph = "cursors", !.q = mk[n].q + 1,
                           !.now = mk[n].now, !.cp = c] \in MkState
        BY <4>1, IdleTypes DEF MkState
      <4> QED
        BY <3>1, <4>2 DEF NextQueue
    <3>2. CASE ~(mk[n].q + 1 < NQueue)
      <4> DEFINE d == IF c = NoCursor THEN mk[n].now - 1 ELSE c
      <4>1. d \in Cursor
        BY <2>1 DEF MkState, Cursor, NoCursor
      <4>2. [IdleMk EXCEPT !.ph = "dump", !.cp = d] \in MkState
        <5> HIDE DEF d
        <5> QED
          BY <4>1, IdleTypes DEF MkState
      <4> QED
        BY <3>2, <4>2 DEF NextQueue
    <3> QED
      BY <3>1, <3>2
  <2>4. \A f \in Nat \ {0} : LowerCp(mk[n].cp, f) \in Cursor
    BY <2>1 DEF LowerCp, Cursor, NoCursor
  <2>5. mk' \in [Node -> MkState]
    <3>1. CASE mk' = [mk EXCEPT ![n] = NextQueue(n, mk[n].cp)]
      BY <2>1, <2>3, <3>1 DEF TypeOK
    <3>2. ASSUME NEW f \in CutMetas(n),
                 mk' = [mk EXCEPT ![n] =
                          IF f = 0 THEN IdleMk
                          ELSE NextQueue(n, LowerCp(mk[n].cp, f))]
          PROVE  mk' \in [Node -> MkState]
      <4>1. CASE f = 0
        BY <3>2, <4>1, IdleTypes DEF TypeOK
      <4>2. CASE f # 0
        <5>1. LowerCp(mk[n].cp, f) \in Cursor
          BY <2>2, <2>4, <4>2
        <5> QED
          BY <2>3, <3>2, <4>2, <5>1 DEF TypeOK
      <4> QED
        BY <4>1, <4>2
    <3> QED
      BY <1>12, <3>1, <3>2 DEF ScanMetas
  <2>6. metas' \in [Node -> [Queue -> SUBSET Nat]]
    BY <1>12, <2>1, <2>2 DEF ScanMetas, TypeOK
  <2> QED
    BY <1>12, <2>5, <2>6 DEF ScanMetas, TypeOK
<1>13. ASSUME NEW n \in Node, DumpCheckPoint(n) PROVE TypeOK'
  BY <1>13, IdleTypes DEF DumpCheckPoint, MkState, TypeOK
<1>14. ASSUME NEW c \in Consumer, NEW w \in Worker, NEW n \in Node, Get(c, w, n)
       PROVE  TypeOK'
  <2> DEFINE adj == AdjustNextCursorID(n, GroupOf[c], cons[c].q, cons[c].next)
  <2>1. GroupOf[c] \in Group /\ cons[c].q \in Queue /\ cons[c].next \in Cursor
    BY <1>14, ConstantsAssumption DEF Get, TypeOK, ConsumerState
  <2>2. prevc[n][GroupOf[c]][cons[c].q] \in Cursor
    BY <2>1 DEF TypeOK, Cursors
  <2>3. adj[1] \in Cursor /\ adj[2] \in Cursor
    BY <2>1, <2>2 DEF AdjustNextCursorID
  <2>4. [ph |-> "cp", node |-> n, cli |-> c, g |-> GroupOf[c],
         q |-> cons[c].q, prev |-> adj[1], next |-> adj[2], cp |-> NoCursor,
         min |-> 0, moved |-> FALSE, items |-> {}] \in ActiveOp
    BY <2>1, <2>3 DEF ActiveOp, Cursor
  <2>5. [cons[c] EXCEPT !.ph = "wait"] \in ConsumerState
    BY DEF TypeOK, ConsumerState
  <2> QED
    BY <1>14, <2>4, <2>5 DEF Get, TypeOK
<1>15. ASSUME NEW w \in Worker, GetCheckPoint(w) PROVE TypeOK'
  <2>1. op[w] \in ActiveOp
    BY <1>15, OpActive DEF GetCheckPoint
  <2>2. [op[w] EXCEPT !.ph = "loop", !.cp = cp[op[w].node],
                      !.min = minc[op[w].node]] \in ActiveOp
    BY <2>1 DEF ActiveOp, TypeOK
  <2> QED
    BY <1>15, <2>2 DEF GetCheckPoint, TypeOK
<1>16. ASSUME NEW w \in Worker, GetFromMetaQueue(w) PROVE TypeOK'
  <2>1. op[w] \in ActiveOp
    BY <1>16, OpActive DEF GetFromMetaQueue
  <2>a. metas[op[w].node][op[w].q] \subseteq Nat
    BY <2>1 DEF ActiveOp, TypeOK
  <2>2. PICK i \in metas[op[w].node][op[w].q] :
          op' = [op EXCEPT ![w] = GetItemsByCursorID(w, i)]
    BY <1>16 DEF GetFromMetaQueue
  <2>3. GetItemsByCursorID(w, i) \in ActiveOp
    BY <2>1, <2>a, IterationType
  <2> QED
    BY <1>16, <2>2, <2>3 DEF GetFromMetaQueue, TypeOK
<1>17. ASSUME NEW w \in Worker, GetFromPaxosLog(w) PROVE TypeOK'
  <2>1. op[w] \in ActiveOp
    BY <1>17, OpActive DEF GetFromPaxosLog
  <2> DEFINE i == IF op[w].next < op[w].min THEN op[w].min ELSE op[w].next + 1
  <2>a. i \in Nat
    BY <2>1 DEF ActiveOp, Cursor, NoCursor
  <2>2. op' = [op EXCEPT ![w] = GetItemsByCursorID(w, i)]
    BY <1>17 DEF GetFromPaxosLog
  <2> HIDE DEF i
  <2>3. GetItemsByCursorID(w, i) \in ActiveOp
    BY <2>1, <2>a, IterationType
  <2> QED
    BY <1>17, <2>2, <2>3 DEF GetFromPaxosLog, TypeOK
<1>18. ASSUME NEW w \in Worker, GetLoopEnd(w) PROVE TypeOK'
  <2>1. op[w] \in ActiveOp
    BY <1>18, OpActive DEF GetLoopEnd
  <2>2. [op[w] EXCEPT !.ph = "prev"] \in ActiveOp
    BY <2>1 DEF ActiveOp
  <2> QED
    BY <1>18, <2>2 DEF GetLoopEnd, TypeOK
<1>19. ASSUME NEW w \in Worker, UpdatePrevCursorID(w) PROVE TypeOK'
  <2>1. op[w] \in ActiveOp
    BY <1>19, OpActive DEF UpdatePrevCursorID
  <2>2. [op[w] EXCEPT !.ph = "next"] \in ActiveOp
    BY <2>1 DEF ActiveOp
  <2>3. prevc' \in [Node -> Cursors]
    BY <1>19, <2>1 DEF UpdatePrevCursorID, ActiveOp, Cursors, TypeOK
  <2> QED
    BY <1>19, <2>2, <2>3 DEF UpdatePrevCursorID, TypeOK
<1>20. ASSUME NEW w \in Worker, UpdateNextCursorID(w) PROVE TypeOK'
  <2>1. op[w] \in ActiveOp
    BY <1>20, OpActive DEF UpdateNextCursorID
  <2>2. nextc' \in [Node -> Cursors]
    BY <1>20, <2>1 DEF UpdateNextCursorID, ActiveOp, Cursors, TypeOK
  <2>a. op[w].next \in Cursor /\ op[w].items \in SUBSET Nat
    BY <2>1 DEF ActiveOp
  <2>3. ASSUME NEW c \in Consumer
        PROVE  [cons[c] EXCEPT !.ph = "work", !.next = op[w].next,
                          !.items = op[w].items] \in ConsumerState
    BY <2>a DEF TypeOK, ConsumerState
  <2>4. cons' \in [Consumer -> ConsumerState]
    BY <1>20, <2>1, <2>3 DEF UpdateNextCursorID, TypeOK, ActiveOp
  <2> QED
    BY <1>20, <2>2, <2>4 DEF UpdateNextCursorID, TypeOK
<1>21. ASSUME NEW c \in Consumer, NEW q \in Queue, ChildRun(c, q) PROVE TypeOK'
  <2>1. [IdleConsumer EXCEPT !.q = q] \in ConsumerState
    BY IdleTypes DEF ConsumerState
  <2> QED
    BY <1>21, <2>1 DEF ChildRun, TypeOK
<1>22. ASSUME NEW c \in Consumer, Consume(c) PROVE TypeOK'
  <2>1. /\ cons[c].items \in SUBSET Nat
        /\ [cons[c] EXCEPT !.ph = "idle", !.items = {}] \in ConsumerState
    BY DEF TypeOK, ConsumerState
  <2>2. delivered' \in [Group -> [Queue -> SUBSET Nat]]
    <3>1. GroupOf[c] \in Group
      BY ConstantsAssumption
    <3>2. CASE cons[c].q \in Queue
      BY <1>22, <2>1, <3>1, <3>2 DEF Consume, TypeOK
    <3>3. CASE cons[c].q \notin Queue
      BY <1>22, <2>1, <3>1, <3>3 DEF Consume, TypeOK
    <3> QED
      BY <3>2, <3>3
  <2> QED
    BY <1>22, <2>1, <2>2 DEF Consume, TypeOK
<1>23. ASSUME NEW c \in Consumer, GetFails(c) PROVE TypeOK'
  <2>1. [cons[c] EXCEPT !.ph = "idle"] \in ConsumerState
    BY DEF TypeOK, ConsumerState
  <2> QED
    BY <1>23, <2>1, AbandonType DEF GetFails, Fault, TypeOK
<1>24. ASSUME NEW c \in Consumer, ConsumerRestart(c) PROVE TypeOK'
  BY <1>24, AbandonType, IdleTypes DEF ConsumerRestart, Fault, TypeOK
<1>25. CASE UNCHANGED vars
  BY <1>25 DEF vars, TypeOK
<1> QED
  BY <1>1, <1>2, <1>3, <1>4, <1>5, <1>6, <1>7, <1>8, <1>9, <1>10, <1>11,
     <1>12, <1>13, <1>14, <1>15, <1>16, <1>17, <1>18, <1>19, <1>20, <1>21,
     <1>22, <1>23, <1>24, <1>25
     DEF Next, PaxosNext, NodeNext, WorkerNext, ConsumerNext

\* Store's variables keep their types: cursors stay naturals or NoCursor
\* through all the arithmetic on -1, and every thread stays in a known phase.
THEOREM TypeCorrect == Spec => []TypeOK
<1>1. Init => TypeOK
  BY IdleTypes, QueueFacts DEF Init, TypeOK, Cursor
<1> QED
  BY <1>1, TypeStep, PTL DEF Spec

-----------------------------------------------------------------------------
(* Covered cursors.                                                        *)

\* A step appends to the log and adds deliveries, or leaves them alone.
Grows ==
    /\ Len(log) <= Len(log')
    /\ \A k \in 1 .. Len(log) : log'[k] = log[k]
    /\ \A g \in Group, q \in Queue : delivered[g][q] \subseteq delivered'[g][q]

\* What is covered before a step is covered after it.
Stays ==
    \A g \in Group, q \in Queue, c \in Cursor, s \in SUBSET Nat :
        Covered(g, q, c, s) => Covered(g, q, c, s)'

\* Every step grows the log and the deliveries.
LEMMA GrowsStep == TypeOK /\ [Next]_vars => Grows
<1> SUFFICES ASSUME TypeOK, [Next]_vars PROVE Grows
  OBVIOUS
<1>1. CASE UNCHANGED <<log, delivered>>
  BY <1>1 DEF Grows, TypeOK
<1>2. ASSUME NEW b \in Batches, PaxosAdd(b) PROVE Grows
  BY <1>2 DEF PaxosAdd, Grows, TypeOK
<1>3. ASSUME NEW v \in pend, SyncChosen(v) PROVE Grows
  BY <1>3 DEF SyncChosen, Grows, TypeOK
<1>4. ASSUME NEW c \in Consumer, Consume(c) PROVE Grows
  <2>1. /\ log' = log /\ TypeOK
        /\ delivered' = [delivered EXCEPT ![GroupOf[c]][cons[c].q] =
                             @ \cup cons[c].items]
    BY <1>4 DEF Consume
  <2> QED
    BY <2>1 DEF Grows, TypeOK
<1> QED
  BY <1>1, <1>2, <1>3, <1>4
     DEF Next, PaxosNext, NodeNext, WorkerNext, ConsumerNext, vars,
         SyncCursorID, SyncLost, MasterChange, CleanPaxosLog, Execute, Restart,
         LoadCheckpointState, MakeCheckPoint, ScanCursors, ScanMetas,
         DumpCheckPoint, Get, GetCheckPoint, GetFromMetaQueue,
         GetFromPaxosLog, GetLoopEnd, UpdatePrevCursorID, UpdateNextCursorID,
         ChildRun, GetFails, ConsumerRestart

\* An instance of the log keeps its items.
LEMMA ItemsStay ==
    ASSUME TypeOK, Grows, NEW i \in Nat, i < Len(log), NEW q, NEW g
    PROVE  ItemFor(i, q, g)' <=> ItemFor(i, q, g)
<1>1. i + 1 \in 1 .. Len(log)
  BY DEF TypeOK
<1>2. log'[i + 1] = log[i + 1]
  BY <1>1 DEF Grows
<1> QED
  BY <1>2 DEF ItemFor

LEMMA CoveredStays == TypeOK /\ TypeOK' /\ Grows => Stays
<1> SUFFICES ASSUME TypeOK, TypeOK', Grows,
                    NEW g \in Group, NEW q \in Queue, NEW c \in Cursor,
                    NEW s \in SUBSET Nat, Covered(g, q, c, s)
             PROVE  Covered(g, q, c, s)'
  BY DEF Stays
<1>1. c < Len(log) /\ c < Len(log')
  BY DEF Covered, Grows, TypeOK, Cursor, NoCursor
<1>2. ASSUME NEW i \in 0 .. c, ItemFor(i, q, g)'
      PROVE  i \in delivered'[g][q] \cup s
  <2>1. i \in Nat /\ i < Len(log)
    BY <1>1 DEF Cursor, NoCursor, TypeOK
  <2>2. ItemFor(i, q, g)
    BY <1>2, <2>1, ItemsStay
  <2>3. i \in delivered[g][q] \cup s
    BY <2>2 DEF Covered
  <2> QED
    BY <2>3 DEF Grows
<1> QED
  BY <1>1, <1>2 DEF Covered

\* A cursor before a covered one is covered, and so is no cursor at all.
LEMMA CoveredBefore ==
    ASSUME TypeOK, NEW g, NEW q, NEW c \in Cursor, NEW s, NEW d \in Cursor,
           NEW t, d <= c, s \subseteq t, Covered(g, q, c, s)
    PROVE  Covered(g, q, d, t)
  BY DEF Covered, TypeOK, Cursor, NoCursor

LEMMA CoveredNone ==
    ASSUME TypeOK, NEW g, NEW q, NEW s
    PROVE  Covered(g, q, NoCursor, s)
  BY DEF Covered, TypeOK, NoCursor

-----------------------------------------------------------------------------
(* The parts of the invariant after a step that leaves them alone, or that *)
(* moves cursors only to places that were covered before it.               *)

\* The context of a step: the invariant before it, types after it.
Step == IInv /\ TypeOK' /\ Grows /\ Stays

LEMMA StepContext == IInv /\ [Next]_vars => Step
  BY TypeStep, GrowsStep, CoveredStays DEF IInv, Step

LEMMA SettledStays ==
    ASSUME Step
    PROVE  \A q \in Queue : \A g \in Subs[q] : \A c \in Cursor :
              Settled(g, q, c) => Settled(g, q, c)'
  BY QueueFacts DEF Step, Stays, Settled

LEMMA NodeKept ==
    ASSUME Step, NEW n \in Node, applied'[n] = applied[n], cp'[n] = cp[n],
           minc'[n] = minc[n], metas'[n] = metas[n]
    PROVE  NodeBound(n)'
<1>1. NodeBound(n)
  BY DEF Step, IInv, NodeBounds
<1> QED
  BY <1>1 DEF Step, Grows, NodeBound, TypeOK, IInv

LEMMA CursorsKept ==
    ASSUME Step,
           \A q \in Queue : \A g \in Subs[q] :
              /\ \A n \in Node : Settled(g, q, prevc'[n][g][q])
              /\ \A v \in pend' : Settled(g, q, v[g][q])
              /\ \A k \in 1 .. Len(log') : Settled(g, q, log'[k].sync[g][q])
    PROVE  CursorsSettled'
<1> SUFFICES ASSUME NEW q \in Queue, NEW g \in Subs[q]
             PROVE /\ \A n \in Node : Settled(g, q, prevc[n][g][q])'
                   /\ \A v \in pend' : Settled(g, q, v[g][q])'
                   /\ \A k \in 1 .. Len(log') :
                         Settled(g, q, log[k].sync[g][q])'
  BY DEF CursorsSettled
<1>0. g \in Group /\ \A v \in Cursors : v[g][q] \in Cursor
  BY QueueFacts DEF Cursors
<1>1. \A n \in Node : prevc'[n][g][q] \in Cursor
  BY <1>0 DEF Step, TypeOK
<1>2. \A v \in pend' : v[g][q] \in Cursor
  BY <1>0 DEF Step, TypeOK
<1>3. \A k \in 1 .. Len(log') : log'[k].sync[g][q] \in Cursor
  <2>1. \A k \in 1 .. Len(log') : log'[k] \in Entry
    BY DEF Step, TypeOK
  <2>2. \A k \in 1 .. Len(log') : log'[k].sync \in Cursors
    BY <2>1 DEF Entry
  <2> QED
    BY <1>0, <2>2
<1> QED
  BY <1>1, <1>2, <1>3, SettledStays

LEMMA CheckpointsKept ==
    ASSUME Step,
           NQueue = 1 => \A n \in Node, q \in Queue : \A g \in Subs[q] :
                            Settled(g, q, cp'[n])
    PROVE  CheckpointsSettled'
<1>1. \A n \in Node : cp'[n] \in Cursor
  BY DEF Step, TypeOK
<1> QED
  BY <1>1, SettledStays DEF CheckpointsSettled

\* The index of node n, after a step that executes nothing on it and removes
\* from it only what was delivered.
IndexOK(n) ==
    \A q \in Queue : \A g \in Subs[q] : \A i \in 0 .. applied[n] - 1 :
        i < Len(log) /\ ItemFor(i, q, g) =>
            i \in delivered[g][q] \/ i \in metas[n][q]

LEMMA IndexKept ==
    ASSUME Step, NEW n \in Node, applied'[n] <= applied[n],
           \A q \in Queue : \A g \in Subs[q] : \A i \in 0 .. applied'[n] - 1 :
              i \in metas[n][q] /\ ItemFor(i, q, g) =>
                i \in delivered[g][q] \/ i \in metas'[n][q]
    PROVE  IndexOK(n)'
<1> SUFFICES ASSUME NEW q \in Queue, NEW g \in Subs[q],
                    NEW i \in 0 .. applied'[n] - 1,
                    i < Len(log'), ItemFor(i, q, g)'
             PROVE  i \in delivered'[g][q] \/ i \in metas'[n][q]
  BY DEF IndexOK
<1>0. g \in Group
  BY QueueFacts
<1>1. i \in Nat /\ i \in 0 .. applied[n] - 1 /\ i < Len(log)
  BY DEF Step, IInv, TypeOK, NodeBounds, NodeBound
<1>2. ItemFor(i, q, g)
  BY <1>1, ItemsStay DEF Step, IInv
<1>3. i \in delivered[g][q] \/ i \in metas[n][q]
  BY <1>1, <1>2 DEF Step, IInv, UndeliveredIsIndexed
<1> QED
  BY <1>0, <1>2, <1>3 DEF Step, Grows

LEMMA ScanKept ==
    ASSUME Step, NEW n \in Node, mk'[n] = mk[n], applied[n] <= applied'[n]
    PROVE  ScanOK(n)'
<1>1. ScanOK(n) /\ mk[n] \in MkState
  BY DEF Step, IInv, ScanSettled, TypeOK
<1>2. mk[n].cp \in Cursor /\ mk[n].min \in Cursor /\ mk[n].q \in Queue
      /\ mk[n].now \in Nat
  BY <1>1 DEF MkState
<1>3. /\ mk[n].now <= applied'[n]
      /\ mk[n].cp < applied'[n]
  <2>1. applied[n] \in Nat /\ applied'[n] \in Nat
    BY DEF Step, IInv, TypeOK
  <2>2. mk[n].now <= applied[n] /\ mk[n].cp < applied[n]
    BY <1>1 DEF ScanOK, ScanBound
  <2>3. mk[n].cp \in Int
    BY <1>2 DEF Cursor, NoCursor
  <2> QED
    BY <1>2, <2>1, <2>2, <2>3
<1>4. NQueue = 1 => \A q \in Queue : \A g \in Subs[q] : Settled(g, q, mk[n].cp)'
  BY <1>1, <1>2, SettledStays DEF ScanOK
<1>5. mk[n].ph = "metas" /\ mk[n].update =>
          \A g \in Subs[mk[n].q] :
             mk[n].min # NoCursor /\ Settled(g, mk[n].q, mk[n].min)'
  BY <1>1, <1>2, SettledStays DEF ScanOK
<1> QED
  BY <1>1, <1>3, <1>4, <1>5 DEF ScanOK, ScanBound

\* The Get of thread w after a step, when its new cursors were covered before.
LEMMA GetMoved ==
    ASSUME Step, NEW w \in Worker,
           op'[w].ph # "free" =>
              /\ op'[w].g \in Subs[op'[w].q]
              /\ op'[w].min <= minc'[op'[w].node]
              /\ Settled(op'[w].g, op'[w].q, op'[w].prev)
              /\ Covered(op'[w].g, op'[w].q, op'[w].next, op'[w].items)
              /\ \A i \in op'[w].items : i <= op'[w].next
              /\ op'[w].cli # Nobody =>
                    /\ cons'[op'[w].cli].ph = "wait"
                    /\ cons'[op'[w].cli].q = op'[w].q
                    /\ GroupOf[op'[w].cli] = op'[w].g
    PROVE  GetOK(w)'
<1> SUFFICES ASSUME op'[w].ph # "free" PROVE GetOK(w)'
  BY DEF GetOK
<1>1. op'[w] \in ActiveOp
  BY DEF Step, TypeOK, FreeOp
<1>2. /\ op'[w].q \in Queue /\ op'[w].prev \in Cursor
      /\ op'[w].next \in Cursor /\ op'[w].items \in SUBSET Nat
  BY <1>1 DEF ActiveOp
<1>3. op'[w].g \in Group
  BY <1>2, QueueFacts
<1>4. Settled(op[w].g, op[w].q, op[w].prev)'
  BY <1>2, SettledStays
<1>5. Covered(op[w].g, op[w].q, op[w].next, op[w].items)'
  BY <1>2, <1>3 DEF Step, Stays
<1> QED
  BY <1>4, <1>5 DEF GetOK

LEMMA GetKept ==
    ASSUME Step, NEW w \in Worker, op'[w] = op[w],
           op[w].ph # "free" =>
              /\ minc[op[w].node] <= minc'[op[w].node]
              /\ op[w].cli # Nobody =>
                   /\ cons'[op[w].cli].ph = cons[op[w].cli].ph
                   /\ cons'[op[w].cli].q = cons[op[w].cli].q
    PROVE  GetOK(w)'
<1> SUFFICES ASSUME op[w].ph # "free" PROVE GetOK(w)'
  BY DEF GetOK
<1>1. GetOK(w)
  BY DEF Step, IInv, GetSettled
<1>2. op[w] \in ActiveOp
  BY OpActive DEF Step, IInv
<1>3. op[w].min <= minc'[op[w].node]
  <2>1. op[w].min \in Nat /\ op[w].node \in Node
    BY <1>2 DEF ActiveOp
  <2>2. minc[op[w].node] \in Nat /\ minc'[op[w].node] \in Nat
    BY <2>1 DEF Step, IInv, TypeOK
  <2> QED
    BY <1>1, <2>1, <2>2 DEF GetOK
<1> QED
  BY <1>1, <1>3, GetMoved DEF GetOK

\* Consumer c after a step, when its new position was covered before.
LEMMA ConsumerMoved ==
    ASSUME Step, NEW c \in Consumer,
           cons'[c].ph # "work" => cons'[c].items = {},
           cons'[c].ph # "idle" => cons'[c].q # NoCursor,
           cons'[c].q # NoCursor =>
              /\ GroupOf[c] \in Subs[cons'[c].q]
              /\ Covered(GroupOf[c], cons'[c].q, cons'[c].next, cons'[c].items)
              /\ \A i \in cons'[c].items : i <= cons'[c].next
    PROVE  ConsumerOK(c)'
<1>1. cons'[c] \in ConsumerState /\ GroupOf[c] \in Group
  BY ConstantsAssumption DEF Step, TypeOK
<1>2. /\ cons'[c].q \in Queue \cup {NoCursor} /\ cons'[c].next \in Cursor
      /\ cons'[c].items \in SUBSET Nat
  BY <1>1 DEF ConsumerState
<1>3. cons'[c].q # NoCursor =>
        Covered(GroupOf[c], cons[c].q, cons[c].next, cons[c].items)'
  BY <1>1, <1>2 DEF Step, Stays
<1> QED
  BY <1>3 DEF ConsumerOK

LEMMA ConsumerKept ==
    ASSUME Step, NEW c \in Consumer, cons'[c] = cons[c]
    PROVE  ConsumerOK(c)'
<1>1. ConsumerOK(c)
  BY DEF Step, IInv, ConsumersSettled
<1> QED
  BY <1>1, ConsumerMoved DEF ConsumerOK

LEMMA DeliveriesKept ==
    ASSUME Step, UNCHANGED delivered
    PROVE  DeliveriesSettled'
<1> SUFFICES ASSUME NEW q \in Queue, NEW g \in Subs[q], NEW i \in delivered[g][q]
             PROVE  Settled(g, q, i)'
  BY DEF DeliveriesSettled
<1>1. Settled(g, q, i)
  BY DEF Step, IInv, DeliveriesSettled
<1>2. i \in Cursor
  BY QueueFacts DEF Step, IInv, TypeOK, Cursor
<1> QED
  BY <1>1, <1>2, SettledStays

\* The numbers of a node, as integers.
LEMMA NodeNumbers ==
    ASSUME TypeOK, NEW n \in Node
    PROVE  /\ cp[n] \in Int /\ cp[n] >= -1 /\ NoCursor = -1
           /\ applied[n] \in Nat /\ minc[n] \in Nat /\ Len(log) \in Nat
<1>1. cp[n] \in Cursor
  BY DEF TypeOK
<1> QED
  BY <1>1 DEF TypeOK, Cursor, NoCursor

\* Each part of the invariant, after a step that leaves its variables alone.
LEMMA Frame ==
    ASSUME Step
    PROVE  /\ UNCHANGED <<applied, minc, metas, cp>> => NodeBounds'
           /\ UNCHANGED <<log, prevc>> /\ pend' \subseteq pend => CursorsSettled'
           /\ UNCHANGED cp => CheckpointsSettled'
           /\ UNCHANGED minc => LogKept'
           /\ UNCHANGED <<applied, metas>> => UndeliveredIsIndexed'
           /\ UNCHANGED <<applied, mk>> => ScanSettled'
           /\ UNCHANGED <<op, cons, minc>> => GetSettled'
           /\ UNCHANGED op => OneServer'
           /\ UNCHANGED cons => ConsumersSettled'
           /\ UNCHANGED delivered => DeliveriesSettled'
<1>1. UNCHANGED <<applied, minc, metas, cp>> => NodeBounds'
  BY NodeKept DEF NodeBounds
<1>2. ASSUME UNCHANGED <<log, prevc>>, pend' \subseteq pend
      PROVE  CursorsSettled'
  BY <1>2, CursorsKept DEF CursorsSettled, Step, IInv
<1>3. UNCHANGED cp => CheckpointsSettled'
  BY CheckpointsKept DEF CheckpointsSettled, Step, IInv
<1>4. ASSUME UNCHANGED <<applied, metas>> PROVE UndeliveredIsIndexed'
  <2>1. \A n \in Node : applied'[n] <= applied[n]
    BY <1>4 DEF Step, IInv, TypeOK
  <2>2. \A n \in Node : IndexOK(n)'
    BY <1>4, <2>1, IndexKept
  <2> QED
    BY <2>2 DEF IndexOK, UndeliveredIsIndexed
<1>5. ASSUME UNCHANGED <<applied, mk>> PROVE ScanSettled'
  <2>1. \A n \in Node : applied[n] <= applied'[n]
    BY <1>5 DEF Step, IInv, TypeOK
  <2> QED
    BY <1>5, <2>1, ScanKept DEF ScanSettled
<1>6. ASSUME UNCHANGED <<op, cons, minc>> PROVE GetSettled'
  <2>1. \A n \in Node : minc[n] <= minc'[n]
    BY <1>6, NodeNumbers DEF Step, IInv
  <2>2. \A w \in Worker : op[w].ph # "free" => op[w].node \in Node
    BY OpActive DEF ActiveOp, Step, IInv
  <2> QED
    BY <1>6, <2>1, <2>2, GetKept DEF GetSettled
<1>7. UNCHANGED op => OneServer'
  BY DEF OneServer, Step, IInv
<1>8. UNCHANGED cons => ConsumersSettled'
  BY ConsumerKept DEF ConsumersSettled
<1>9. UNCHANGED delivered => DeliveriesSettled'
  BY DeliveriesKept
<1>10. UNCHANGED minc => LogKept'
  BY DEF LogKept, Step, IInv
<1> QED
  BY <1>1, <1>2, <1>3, <1>4, <1>5, <1>6, <1>7, <1>8, <1>9, <1>10

-----------------------------------------------------------------------------
(* The paxos log.                                                          *)

LEMMA PaxosAddSafe ==
    ASSUME Step, NEW b \in Batches, PaxosAdd(b) PROVE IInv'
<1>1. CursorsSettled'
  <2> SUFFICES ASSUME NEW q \in Queue, NEW g \in Subs[q],
                      NEW k \in 1 .. Len(log')
               PROVE  Settled(g, q, log'[k].sync[g][q])
    BY CursorsKept DEF PaxosAdd, Step, IInv, CursorsSettled
  <2>1. CASE k \in 1 .. Len(log)
    <3>1. log'[k] = log[k]
      BY <2>1 DEF Step, Grows
    <3> QED
      BY <2>1, <3>1 DEF Step, IInv, CursorsSettled
  <2>2. CASE k \notin 1 .. Len(log)
    <3>1. log'[k].sync = NoCursors
      BY <2>2 DEF PaxosAdd, Step, IInv, TypeOK
    <3>2. log'[k].sync[g][q] = NoCursor
      BY <3>1, QueueFacts DEF NoCursors
    <3> QED
      BY <3>2, CoveredNone DEF Settled, Step, IInv
  <2> QED
    BY <2>1, <2>2
<1> QED
  BY <1>1, Frame DEF PaxosAdd, Step, IInv

LEMMA SyncCursorIDSafe ==
    ASSUME Step, NEW n \in Node, SyncCursorID(n) PROVE IInv'
<1>1. CursorsSettled'
  BY CursorsKept DEF SyncCursorID, Step, IInv, CursorsSettled
<1> QED
  BY <1>1, Frame DEF SyncCursorID, Step, IInv

LEMMA SyncChosenSafe ==
    ASSUME Step, NEW v \in pend, SyncChosen(v) PROVE IInv'
<1>1. CursorsSettled'
  <2> SUFFICES ASSUME NEW q \in Queue, NEW g \in Subs[q],
                      NEW k \in 1 .. Len(log')
               PROVE  Settled(g, q, log'[k].sync[g][q])
    BY CursorsKept DEF SyncChosen, Step, IInv, CursorsSettled
  <2>1. CASE k \in 1 .. Len(log)
    <3>1. log'[k] = log[k]
      BY <2>1 DEF Step, Grows
    <3> QED
      BY <2>1, <3>1 DEF Step, IInv, CursorsSettled
  <2>2. CASE k \notin 1 .. Len(log)
    <3>1. log'[k].sync = v
      BY <2>2 DEF SyncChosen, Step, IInv, TypeOK
    <3> QED
      BY <3>1 DEF Step, IInv, CursorsSettled
  <2> QED
    BY <2>1, <2>2
<1> QED
  BY <1>1, Frame DEF SyncChosen, Step, IInv

LEMMA SyncLostSafe ==
    ASSUME Step, NEW v \in pend, SyncLost(v) PROVE IInv'
  BY Frame DEF SyncLost, Step, IInv

LEMMA MasterChangeSafe ==
    ASSUME Step, NEW m \in Node \cup {Nobody}, MasterChange(m) PROVE IInv'
  BY Frame DEF MasterChange, Step, IInv

LEMMA CleanPaxosLogSafe ==
    ASSUME NQueue = 1 \/ ~Trimming, Step, NEW n \in Node, NEW m \in 0 .. cp[n],
           CleanPaxosLog(n, m)
    PROVE  IInv'
<1>1. ASSUME NEW k \in Node PROVE NodeBound(k)'
  <2>1. CASE k = n
    <3>1. NodeBound(n) /\ TypeOK
      BY DEF Step, IInv, NodeBounds
    <3>2. /\ minc'[n] = m /\ applied' = applied /\ metas' = metas /\ cp' = cp
          /\ log' = log
      BY <3>1 DEF CleanPaxosLog, TypeOK
    <3>3. m <= cp[n] + 1
      BY <3>1, NodeNumbers
    <3> QED
      BY <2>1, <3>1, <3>2, <3>3 DEF NodeBound
  <2>2. CASE k # n
    BY <2>2, NodeKept DEF CleanPaxosLog, Step, IInv, TypeOK
  <2> QED
    BY <2>1, <2>2
<1>2. LogKept'
  BY DEF CleanPaxosLog, LogKept
<1>3. GetSettled'
  <2>1. \A k \in Node : minc[k] <= minc'[k]
    BY NodeNumbers DEF CleanPaxosLog, Step, IInv, TypeOK
  <2>2. \A w \in Worker : op[w].ph # "free" => op[w].node \in Node
    BY OpActive DEF ActiveOp, Step, IInv
  <2> QED
    BY <2>1, <2>2, GetKept DEF GetSettled, CleanPaxosLog
<1> QED
  BY <1>1, <1>2, <1>3, Frame DEF CleanPaxosLog, NodeBounds, Step, IInv

-----------------------------------------------------------------------------
(* The state machine.                                                      *)

LEMMA ExecuteSafe ==
    ASSUME Step, NEW n \in Node, Execute(n) PROVE IInv'
<1> DEFINE i == applied[n]
           v == log[i + 1].sync
<1>0. TypeOK /\ NodeBounds /\ NodeBound(n) /\ i \in Nat /\ i < Len(log)
  BY DEF Execute, Step, IInv, NodeBounds, TypeOK
<1>1. /\ log' = log /\ pend' = pend /\ cp' = cp /\ minc' = minc /\ mk' = mk
      /\ op' = op /\ cons' = cons /\ delivered' = delivered
      /\ applied'[n] = i + 1
      /\ metas'[n] = AddMetas(n, i)
      /\ prevc'[n] = SyncTo(prevc[n], n, v)
      /\ \A k \in Node \ {n} : /\ applied'[k] = applied[k]
                               /\ metas'[k] = metas[k] /\ prevc'[k] = prevc[k]
  BY <1>0 DEF Execute, TypeOK
<1>2. \A q \in Queue :
         /\ metas'[n][q] \subseteq metas[n][q] \cup {i}
         /\ metas[n][q] \subseteq metas'[n][q]
         /\ HasItem(i, q) => i \in metas'[n][q]
  <2>1. \A q \in Queue : ~NeedSkipAdd(n, q, i)
    BY <1>0 DEF NeedSkipAdd, NodeBound, TypeOK
  <2> QED
    BY <1>1, <2>1 DEF AddMetas
<1>3. NodeBounds'
  <2>1. NodeBound(n)'
    <3>1. /\ i + 1 <= Len(log) /\ cp[n] < i + 1 /\ minc[n] <= cp[n] + 1
      BY <1>0, NodeNumbers DEF NodeBound
    <3>2. ASSUME NEW q \in Queue, NEW m \in metas'[n][q] PROVE m < i + 1
      <4>1. m \in Nat /\ (m = i \/ m < i)
        BY <1>0, <1>2 DEF NodeBound, TypeOK
      <4> QED
        BY <1>0, <4>1
    <3> QED
      BY <1>1, <3>1, <3>2 DEF NodeBound
  <2>2. \A k \in Node \ {n} : NodeBound(k)'
    BY <1>1, NodeKept
  <2> QED
    BY <2>1, <2>2 DEF NodeBounds
<1>4. CursorsSettled'
  <2>1. ASSUME NEW q \in Queue, NEW g \in Subs[q], NEW k \in Node
        PROVE  Settled(g, q, prevc'[k][g][q])
    <3>1. Settled(g, q, prevc[k][g][q]) /\ g \in Group
      BY QueueFacts DEF Step, IInv, CursorsSettled
    <3>2. Settled(g, q, v[g][q])
      BY <1>0 DEF Step, IInv, CursorsSettled
    <3>3. k = n => prevc'[k][g][q] \in {v[g][q], prevc[k][g][q]}
      BY <1>1, <3>1 DEF SyncTo
    <3> QED
      BY <1>1, <3>1, <3>2, <3>3
  <2> QED
    BY <1>1, <2>1, CursorsKept DEF Step, IInv, CursorsSettled
<1>5. UndeliveredIsIndexed'
  <2>1. IndexOK(n)'
    <3> SUFFICES ASSUME NEW q \in Queue, NEW g \in Subs[q],
                        NEW j \in 0 .. applied'[n] - 1, ItemFor(j, q, g)'
                 PROVE  j \in delivered'[g][q] \/ j \in metas'[n][q]
      BY DEF IndexOK
    <3>1. ItemFor(j, q, g)
      BY <1>1 DEF ItemFor
    <3>2. CASE j = i
      BY <1>2, <3>1, <3>2 DEF ItemFor, HasItem
    <3>3. CASE j # i
      <4>1. j \in 0 .. applied[n] - 1 /\ j < Len(log)
        BY <1>0, <1>1, <3>3
      <4> QED
        BY <1>1, <1>2, <3>1, <4>1 DEF Step, IInv, UndeliveredIsIndexed
    <3> QED
      BY <3>2, <3>3
  <2>2. ASSUME NEW k \in Node \ {n} PROVE IndexOK(k)'
    <3>1. applied'[k] <= applied[k] /\ metas'[k] = metas[k]
      BY <1>0, <1>1, NodeNumbers
    <3> QED
      BY <3>1, IndexKept
  <2> QED
    BY <2>1, <2>2 DEF IndexOK, UndeliveredIsIndexed
<1>6. ScanSettled'
  <2>1. \A k \in Node : applied[k] <= applied'[k]
    BY <1>0, <1>1, NodeNumbers
  <2> QED
    BY <1>1, <2>1, ScanKept DEF ScanSettled
<1> QED
  BY <1>1, <1>3, <1>4, <1>5, <1>6, Frame DEF Step, IInv

\* A process start from a settled checkpoint that is not before the old one.
LEMMA StartSafe ==
    ASSUME NQueue = 1, Step, NEW n \in Node, NEW c \in Cursor, StartFrom(n, c),
           UNCHANGED <<log, pend, prevc, nextc, cons, delivered>>,
           \A k \in Node \ {n} : minc'[k] = minc[k],
           minc'[n] <= c + 1, cp[n] <= c, c < Len(log),
           \A q \in Queue : \A g \in Subs[q] : Settled(g, q, c)
    PROVE  IInv'
<1>0. TypeOK /\ c \in Int /\ c >= -1
  BY DEF Step, IInv, Cursor, NoCursor
<1>1. /\ cp'[n] = c /\ applied'[n] = c + 1 /\ mk'[n] = IdleMk
      /\ metas'[n] = [q \in Queue |-> {}]
      /\ \A k \in Node \ {n} : /\ cp'[k] = cp[k] /\ applied'[k] = applied[k]
                               /\ metas'[k] = metas[k] /\ mk'[k] = mk[k]
      /\ op' = [w \in Worker |->
                  IF op[w].ph # "free" /\ op[w].node = n THEN FreeOp ELSE op[w]]
  BY <1>0 DEF StartFrom, TypeOK
<1>2. NodeBounds'
  <2>1. NodeBound(n)'
    BY <1>0, <1>1, NodeNumbers DEF NodeBound
  <2>2. \A k \in Node \ {n} : NodeBound(k)'
    BY <1>1, NodeKept
  <2> QED
    BY <2>1, <2>2 DEF NodeBounds
<1>3. CheckpointsSettled'
  BY <1>1, CheckpointsKept DEF Step, IInv, CheckpointsSettled
<1>4. UndeliveredIsIndexed'
  <2>1. IndexOK(n)'
    <3> SUFFICES ASSUME NEW q \in Queue, NEW g \in Subs[q],
                        NEW j \in 0 .. applied'[n] - 1, ItemFor(j, q, g)'
                 PROVE  j \in delivered'[g][q]
      BY DEF IndexOK
    <3>1. ItemFor(j, q, g) /\ j \in 0 .. c
      BY <1>0, <1>1 DEF ItemFor
    <3> QED
      BY <3>1 DEF Settled, Covered
  <2>2. \A k \in Node \ {n} : IndexOK(k)'
    BY <1>0, <1>1, IndexKept, NodeNumbers
  <2> QED
    BY <2>1, <2>2 DEF IndexOK, UndeliveredIsIndexed
<1>5. ScanSettled'
  <2>1. ScanOK(n)'
    <3>1. /\ IdleMk.ph = "idle" /\ IdleMk.now = 0 /\ IdleMk.cp = NoCursor
          /\ NoCursor = -1
      BY DEF IdleMk, NoCursor
    <3>2. \A q \in Queue : \A g \in Subs[q] : Settled(g, q, NoCursor)
      BY <1>0, CoveredNone DEF Settled
    <3>3. \A q \in Queue : \A g \in Subs[q] : Settled(g, q, NoCursor)'
      BY <3>2, SettledStays DEF Cursor
    <3> QED
      BY <1>0, <1>1, <3>1, <3>3 DEF ScanOK, ScanBound
  <2>2. \A k \in Node \ {n} : ScanOK(k)'
    BY <1>0, <1>1, ScanKept, NodeNumbers
  <2> QED
    BY <2>1, <2>2 DEF ScanSettled
<1>6. GetSettled'
  <2> SUFFICES ASSUME NEW w \in Worker PROVE GetOK(w)'
    BY DEF GetSettled
  <2>1. CASE op'[w].ph = "free"
    BY <2>1 DEF GetOK
  <2>2. CASE op'[w].ph # "free"
    <3>1. op'[w] = op[w] /\ op[w].ph # "free" /\ op[w].node # n
      BY <1>1, <2>2 DEF FreeOp
    <3>2. op[w].node \in Node \ {n}
      BY <1>0, <3>1, OpActive DEF ActiveOp
    <3>3. minc[op[w].node] <= minc'[op[w].node]
      BY <1>0, <3>2, NodeNumbers
    <3> QED
      BY <3>1, <3>3, GetKept
  <2> QED
    BY <2>1, <2>2
<1>7. OneServer'
  BY <1>1 DEF OneServer, Step, IInv, FreeOp
<1>8. LogKept'
  BY DEF LogKept
<1> QED
  BY <1>2, <1>3, <1>4, <1>5, <1>6, <1>7, <1>8, Frame DEF Step, IInv

LEMMA RestartSafe ==
    ASSUME NQueue = 1, Step, NEW n \in Node, Restart(n) PROVE IInv'
<1>1. TypeOK /\ NodeBound(n) /\ cp[n] \in Cursor
  BY DEF Step, IInv, NodeBounds, TypeOK
<1>2. minc'[n] <= cp[n] + 1 /\ cp[n] <= cp[n] /\ cp[n] < Len(log)
  BY <1>1, NodeNumbers DEF NodeBound, Restart
<1>3. \A q \in Queue : \A g \in Subs[q] : Settled(g, q, cp[n])
  BY DEF Step, IInv, CheckpointsSettled
<1> QED
  BY <1>1, <1>2, <1>3, StartSafe DEF Restart

\* No node lags behind a log that is kept as a whole.
LEMMA LoadCheckpointStateSafe ==
    ASSUME Step, NEW n \in Node, NEW m \in Node, LoadCheckpointState(n, m)
    PROVE  IInv'
<1>1. TypeOK /\ NodeBound(n) /\ NodeBound(m) /\ cp[m] \in Cursor
  BY DEF Step, IInv, NodeBounds, TypeOK
<1>2. minc'[n] = cp[m] + 1 /\ \A k \in Node \ {n} : minc'[k] = minc[k]
  BY <1>1 DEF LoadCheckpointState, TypeOK
<1>3. minc'[n] <= cp[m] + 1 /\ cp[n] <= cp[m] /\ cp[m] < Len(log)
  BY <1>1, <1>2, NodeNumbers DEF NodeBound, LoadCheckpointState
<1>4. NQueue = 1
  BY <1>1, NodeNumbers DEF LoadCheckpointState, Step, IInv, LogKept
<1>5. \A q \in Queue : \A g \in Subs[q] : Settled(g, q, cp[m])
  BY <1>4 DEF Step, IInv, CheckpointsSettled
<1> QED
  BY <1>1, <1>2, <1>3, <1>4, <1>5, StartSafe DEF LoadCheckpointState

-----------------------------------------------------------------------------
(* MakeCheckPoint.                                                         *)

\* Only the scan of node n moves.
LEMMA ScanMoved ==
    ASSUME Step, NEW n \in Node, UNCHANGED applied,
           \A k \in Node \ {n} : mk'[k] = mk[k],
           /\ mk'[n].now <= applied[n] /\ mk'[n].cp < applied[n]
           /\ mk'[n].ph = "metas" /\ mk'[n].update =>
                 \A g \in Subs[mk'[n].q] :
                    mk'[n].min # NoCursor /\ Settled(g, mk'[n].q, mk'[n].min)
           /\ NQueue = 1 =>
                 /\ mk'[n].ph \in {"cursors", "metas"} => mk'[n].cp = NoCursor
                 /\ \A q \in Queue : \A g \in Subs[q] : Settled(g, q, mk'[n].cp)
    PROVE  ScanSettled'
<1>1. mk'[n] \in MkState
  BY DEF Step, TypeOK
<1>2. mk'[n].cp \in Cursor /\ mk'[n].min \in Cursor /\ mk'[n].q \in Queue
  BY <1>1 DEF MkState
<1>3. NQueue = 1 => \A q \in Queue : \A g \in Subs[q] : Settled(g, q, mk[n].cp)'
  BY <1>2, SettledStays
<1>4. mk'[n].ph = "metas" /\ mk'[n].update =>
         \A g \in Subs[mk'[n].q] :
            mk'[n].min # NoCursor /\ Settled(g, mk[n].q, mk[n].min)'
  BY <1>2, SettledStays
<1>5. ScanOK(n)'
  BY <1>3, <1>4 DEF ScanOK, ScanBound
<1>6. \A k \in Node \ {n} : ScanOK(k)'
  BY ScanKept, NodeNumbers DEF Step, IInv
<1> QED
  BY <1>5, <1>6 DEF ScanSettled

\* An idle scan holds no cursor.
LEMMA IdleScan ==
    ASSUME Step, NEW n \in Node
    PROVE  /\ IdleMk.ph = "idle" /\ IdleMk.now = 0 /\ IdleMk.cp = NoCursor
           /\ NoCursor < applied[n]
           /\ \A q \in Queue : \A g \in Subs[q] : Settled(g, q, NoCursor)
<1>1. TypeOK
  BY DEF Step, IInv
<1>2. \A q \in Queue : \A g \in Subs[q] : Settled(g, q, NoCursor)
  BY <1>1, CoveredNone DEF Settled
<1> QED
  BY <1>1, <1>2, NodeNumbers DEF IdleMk

LEMMA MakeCheckPointSafe ==
    ASSUME Step, NEW n \in Node, MakeCheckPoint(n) PROVE IInv'
<1>1. /\ \A k \in Node \ {n} : mk'[k] = mk[k]
      /\ mk'[n] = [IdleMk EXCEPT !.ph = "cursors", !.now = applied[n]]
  BY DEF MakeCheckPoint, Step, IInv, TypeOK
<1>2. mk'[n].ph = "cursors" /\ mk'[n].now = applied[n] /\ mk'[n].cp = NoCursor
  BY <1>1 DEF IdleMk
<1>3. applied[n] <= applied[n]
  BY NodeNumbers DEF Step, IInv
<1>4. ScanSettled'
  BY <1>1, <1>2, <1>3, IdleScan, ScanMoved DEF MakeCheckPoint
<1> QED
  BY <1>4, Frame DEF MakeCheckPoint, Step, IInv

LEMMA ScanCursorsSafe ==
    ASSUME Step, NEW n \in Node, ScanCursors(n) PROVE IInv'
<1> DEFINE q == mk[n].q
           found == {prevc[n][g][q] : g \in Subs[q]} \ {NoCursor}
           all == \A g \in Subs[q] : prevc[n][g][q] # NoCursor
<1>0. TypeOK /\ ScanOK(n) /\ mk[n] \in MkState /\ q \in Queue
  BY DEF Step, IInv, ScanSettled, TypeOK, MkState
<1>1. PICK m \in found \cup {NoCursor} :
        /\ m = NoCursor <=> found = {}
        /\ \A x \in found : m <= x
        /\ mk' = [mk EXCEPT ![n] = [@ EXCEPT !.ph = "metas", !.min = m,
                                             !.update = all]]
  BY DEF ScanCursors
<1>2. /\ \A k \in Node \ {n} : mk'[k] = mk[k]
      /\ mk'[n] = [mk[n] EXCEPT !.ph = "metas", !.min = m, !.update = all]
  BY <1>0, <1>1 DEF TypeOK
<1>3. /\ mk'[n].ph = "metas" /\ mk'[n].now = mk[n].now /\ mk'[n].cp = mk[n].cp
      /\ mk'[n].q = q /\ mk'[n].min = m /\ mk'[n].update = all
  <2> HIDE DEF all
  <2> QED
    BY <1>0, <1>2 DEF MkState
<1>4. ASSUME all, NEW g \in Subs[q] PROVE m # NoCursor /\ Settled(g, q, m)
  <2>1. g \in Group /\ Subs[q] \subseteq Group
    BY <1>0, QueueFacts
  <2>2. prevc[n][g][q] \in found
    BY <1>4
  <2>3. m # NoCursor /\ m \in found /\ m <= prevc[n][g][q]
    BY <1>1, <2>2
  <2>4. found \subseteq Cursor
    BY <1>0, <2>1 DEF TypeOK, Cursors
  <2>5. Settled(g, q, prevc[n][g][q])
    BY <1>0 DEF Step, IInv, CursorsSettled
  <2> QED
    BY <1>0, <2>2, <2>3, <2>4, <2>5, CoveredBefore DEF Settled
<1>5. mk[n].ph = "cursors"
  BY DEF ScanCursors
<1>6. ScanSettled'
  <2>1. /\ mk'[n].now <= applied[n] /\ mk'[n].cp < applied[n]
        /\ NQueue = 1 =>
              /\ mk'[n].cp = NoCursor
              /\ \A p \in Queue : \A g \in Subs[p] : Settled(g, p, mk'[n].cp)
    BY <1>0, <1>3, <1>5 DEF ScanOK, ScanBound
  <2>2. mk'[n].update => \A g \in Subs[mk'[n].q] :
                    mk'[n].min # NoCursor /\ Settled(g, mk'[n].q, mk'[n].min)
    BY <1>3, <1>4
  <2> QED
    BY <1>2, <2>1, <2>2, ScanMoved DEF ScanCursors
<1> QED
  BY <1>6, Frame DEF ScanCursors, Step, IInv

LEMMA DumpCheckPointSafe ==
    ASSUME Step, NEW n \in Node, DumpCheckPoint(n) PROVE IInv'
<1>0. TypeOK /\ NodeBound(n) /\ ScanOK(n) /\ mk[n] \in MkState
  BY DEF Step, IInv, ScanSettled, NodeBounds, TypeOK
<1>1. mk[n].cp \in Int
  BY <1>0 DEF MkState, Cursor, NoCursor
<1>2. /\ \A k \in Node \ {n} : mk'[k] = mk[k] /\ cp'[k] = cp[k]
      /\ mk'[n] = IdleMk
      /\ cp'[n] = IF mk[n].cp > cp[n] THEN mk[n].cp ELSE cp[n]
  BY <1>0 DEF DumpCheckPoint, TypeOK
<1>3. cp'[n] \in {mk[n].cp, cp[n]} /\ cp[n] <= cp'[n] /\ cp'[n] < applied[n]
      /\ minc[n] <= cp'[n] + 1
  BY <1>0, <1>1, <1>2, NodeNumbers DEF NodeBound, ScanOK, ScanBound
<1>4. NodeBounds'
  <2>1. NodeBound(n)'
    BY <1>0, <1>3 DEF NodeBound, DumpCheckPoint
  <2>2. \A k \in Node \ {n} : NodeBound(k)'
    BY <1>2, NodeKept DEF DumpCheckPoint
  <2> QED
    BY <2>1, <2>2 DEF NodeBounds
<1>5. CheckpointsSettled'
  <2>1. NQueue = 1 => \A k \in Node, q \in Queue : \A g \in Subs[q] :
                         Settled(g, q, cp'[k])
    BY <1>0, <1>2, <1>3 DEF ScanOK, Step, IInv, CheckpointsSettled
  <2> QED
    BY <2>1, CheckpointsKept
<1>6. ScanSettled'
  <2>1. 0 <= applied[n]
    BY <1>0, NodeNumbers
  <2> QED
    BY <1>2, <2>1, IdleScan, ScanMoved DEF DumpCheckPoint
<1> QED
  BY <1>4, <1>5, <1>6, Frame DEF DumpCheckPoint, Step, IInv

\* The cut of the index, and the checkpoint it makes.  With one queue the
\* queue that was visited is the only one that the checkpoint is about; a
\* checkpoint made of several queues is executed, but need not be settled.
LEMMA ScanMetasSafe ==
    ASSUME Step, NEW n \in Node, ScanMetas(n) PROVE IInv'
<1> DEFINE q == mk[n].q
           left == CutMetas(n)
<1>0. TypeOK /\ NodeBound(n) /\ ScanOK(n) /\ mk[n] \in MkState /\ q \in Queue
  BY DEF Step, IInv, ScanSettled, NodeBounds, TypeOK, MkState
<1>1. /\ left \subseteq metas[n][q] /\ left \subseteq Nat
      /\ mk[n].now \in Nat /\ mk[n].cp \in Cursor /\ mk[n].ph = "metas"
      /\ mk[n].min \in Cursor
  <2>1. mk[n].ph = "metas"
    BY DEF ScanMetas
  <2>2. mk[n].now \in Nat /\ mk[n].min \in Cursor /\ mk[n].cp \in Cursor
    BY <1>0 DEF MkState
  <2>3. left \subseteq metas[n][q]
    BY DEF CutMetas
  <2>4. metas[n][q] \subseteq Nat
    BY <1>0 DEF TypeOK
  <2> QED
    BY <2>1, <2>2, <2>3, <2>4
<1>2. /\ metas'[n][q] = left
      /\ \A p \in Queue \ {q} : metas'[n][p] = metas[n][p]
      /\ \A k \in Node \ {n} : metas'[k] = metas[k]
  BY <1>0 DEF ScanMetas, TypeOK
\* What the cut removes was delivered.
<1>3. ASSUME NEW g \in Subs[q], NEW i \in metas[n][q], ItemFor(i, q, g),
             i \notin left
      PROVE  i \in delivered[g][q]
  <2>1. mk[n].update
    BY <1>3 DEF CutMetas
  <2>2. mk[n].min # NoCursor /\ Settled(g, q, mk[n].min)
    BY <1>0, <1>1, <2>1 DEF ScanOK
  <2>3. i \in Nat /\ ~(i > mk[n].min)
    BY <1>0, <1>3, <2>1, <2>2 DEF CutMetas, TypeOK
  <2>4. i \in 0 .. mk[n].min
    BY <1>1, <2>2, <2>3 DEF Cursor
  <2> QED
    BY <1>3, <2>2, <2>4 DEF Settled, Covered
<1>4. NodeBounds'
  <2>1. \A p \in Queue : metas'[n][p] \subseteq metas[n][p]
    BY <1>1, <1>2
  <2>2. NodeBound(n)'
    BY <1>0, <2>1 DEF NodeBound, ScanMetas
  <2>3. \A k \in Node \ {n} : NodeBound(k)'
    BY <1>2, NodeKept DEF ScanMetas
  <2> QED
    BY <2>2, <2>3 DEF NodeBounds
<1>5. UndeliveredIsIndexed'
  <2>1. \A k \in Node : applied'[k] = applied[k] /\ applied'[k] <= applied[k]
    BY <1>0, NodeNumbers DEF ScanMetas
  <2>2. \A p \in Queue : \A g \in Subs[p] : \A i \in metas[n][p] :
           ItemFor(i, p, g) => i \in delivered[g][p] \/ i \in metas'[n][p]
    BY <1>2, <1>3
  <2>3. IndexOK(n)'
    BY <2>1, <2>2, IndexKept
  <2>4. \A k \in Node \ {n} : IndexOK(k)'
    BY <1>2, <2>1, IndexKept
  <2> QED
    BY <2>3, <2>4 DEF IndexOK, UndeliveredIsIndexed
\* Before the new checkpoint the index of an only queue holds nothing more.
<1>6. ASSUME NQueue = 1, NEW c \in Cursor, c < applied[n], \A x \in left : c < x
      PROVE  \A p \in Queue : \A g \in Subs[p] : Settled(g, p, c)
  <2>0. Queue = {0} /\ q = 0
    BY <1>0, <1>6 DEF Queue
  <2> SUFFICES ASSUME NEW g \in Subs[q], NEW i \in 0 .. c, ItemFor(i, q, g)
               PROVE  i \in delivered[g][q]
    BY <1>0, <1>6, <2>0, NodeNumbers DEF Settled, Covered, NodeBound, Cursor
  <2>1. i \in 0 .. applied[n] - 1 /\ i < Len(log) /\ i \in Nat
    BY <1>0, <1>6, NodeNumbers DEF Cursor, NoCursor, NodeBound
  <2>2. i \in delivered[g][q] \/ i \in metas[n][q]
    BY <1>0, <2>1 DEF Step, IInv, UndeliveredIsIndexed
  <2>3. i \notin left
    BY <1>1, <1>6, <2>1 DEF Cursor, NoCursor
  <2> QED
    BY <1>3, <2>2, <2>3
<1>7. ASSUME NEW c \in Cursor, c < applied[n],
             NQueue = 1 => /\ \A x \in left : c < x
                           /\ c = NoCursor => left = {},
             mk' = [mk EXCEPT ![n] = NextQueue(n, c)]
      PROVE  ScanSettled'
  <2>1. \A k \in Node \ {n} : mk'[k] = mk[k]
    BY <1>0, <1>7 DEF TypeOK
  <2>2. CASE q + 1 < NQueue
    <3>1. mk'[n] = [IdleMk EXCEPT !.ph = "cursors", !.q = q + 1,
                                  !.now = mk[n].now, !.cp = c]
      BY <1>0, <1>7, <2>2 DEF NextQueue, TypeOK
    <3>2. mk'[n].ph = "cursors" /\ mk'[n].now = mk[n].now /\ mk'[n].cp = c
      BY <3>1 DEF IdleMk
    <3>3. NQueue # 1
      BY <1>0, <2>2 DEF Queue
    <3> QED
      BY <1>0, <1>7, <2>1, <3>2, <3>3, ScanMoved DEF ScanOK, ScanBound, ScanMetas
  <2>3. CASE ~(q + 1 < NQueue)
    <3> DEFINE d == IF c = NoCursor THEN mk[n].now - 1 ELSE c
    <3>1. mk'[n] = [IdleMk EXCEPT !.ph = "dump", !.cp = d]
      BY <1>0, <1>7, <2>3 DEF NextQueue, TypeOK
    <3>2. mk'[n].ph = "dump" /\ mk'[n].now = 0 /\ mk'[n].cp = d
      BY <3>1 DEF IdleMk
    <3>3. 0 <= applied[n]
      BY <1>0, NodeNumbers
    <3>4. d \in Cursor /\ d < applied[n]
      BY <1>0, <1>1, <1>7, NodeNumbers DEF ScanOK, ScanBound, Cursor, NoCursor
    <3>5. NQueue = 1 => \A p \in Queue : \A g \in Subs[p] : Settled(g, p, d)
      BY <1>6, <1>7, <3>4
    <3> QED
      BY <2>1, <3>2, <3>3, <3>4, <3>5, ScanMoved DEF ScanMetas
  <2> QED
    BY <2>2, <2>3
<1>8. ScanSettled'
  <2>1. NQueue = 1 => mk[n].cp = NoCursor
    BY <1>0, <1>1 DEF ScanOK
  <2>2. ASSUME left = {}, mk' = [mk EXCEPT ![n] = NextQueue(n, mk[n].cp)]
        PROVE  ScanSettled'
    BY <1>0, <1>1, <1>7, <2>2 DEF ScanOK, ScanBound
  <2>3. ASSUME NEW f \in left, \A x \in left : f <= x,
               mk' = [mk EXCEPT ![n] =
                        IF f = 0 THEN IdleMk
                        ELSE NextQueue(n, LowerCp(mk[n].cp, f))]
        PROVE  ScanSettled'
    <3>1. CASE f = 0
      <4>1. /\ \A k \in Node \ {n} : mk'[k] = mk[k]
            /\ mk'[n] = IdleMk
        BY <1>0, <2>3, <3>1 DEF TypeOK
      <4>2. 0 <= applied[n]
        BY <1>0, NodeNumbers
      <4> QED
        BY <4>1, <4>2, IdleScan, ScanMoved DEF ScanMetas
    <3>2. CASE f # 0
      <4> DEFINE c == LowerCp(mk[n].cp, f)
      <4>1. f \in Nat /\ f - 1 \in Cursor /\ f - 1 # NoCursor
        BY <1>1, <3>2 DEF Cursor, NoCursor
      <4>2. f < applied[n]
        BY <1>0, <1>1 DEF NodeBound
      <4>3. mk[n].cp < applied[n] /\ f - 1 < applied[n]
        BY <1>0, <4>1, <4>2, NodeNumbers DEF ScanOK, ScanBound
      <4>4. c \in {mk[n].cp, f - 1}
        BY DEF LowerCp
      <4>5. c \in Cursor /\ c < applied[n]
        BY <1>1, <4>1, <4>3, <4>4
      <4>6. NQueue = 1 => c = f - 1
        BY <2>1 DEF LowerCp
      <4>7. \A x \in left : f - 1 < x
        BY <1>1, <2>3, <4>1
      <4>8. mk' = [mk EXCEPT ![n] = NextQueue(n, c)]
        BY <2>3, <3>2
      <4> HIDE DEF c
      <4> QED
        BY <1>7, <4>1, <4>5, <4>6, <4>7, <4>8
    <3> QED
      BY <3>1, <3>2
  <2> QED
    BY <2>2, <2>3 DEF ScanMetas
<1> QED
  BY <1>4, <1>5, <1>8, Frame DEF ScanMetas, Step, IInv

-----------------------------------------------------------------------------
(* Get.                                                                    *)

\* No thread takes a client that it did not have.
LEMMA OneServerKept ==
    ASSUME Step,
           \A v \in Worker : op'[v].ph # "free" /\ op'[v].cli # Nobody =>
                               op[v].ph # "free" /\ op[v].cli = op'[v].cli
    PROVE  OneServer'
  BY DEF OneServer, Step, IInv

\* Only thread w moves, and the consumers of the other threads stand still.
LEMMA OthersKept ==
    ASSUME Step, NEW w \in Worker, \A v \in Worker \ {w} : op'[v] = op[v],
           UNCHANGED minc, GetOK(w)',
           \A v \in Worker \ {w} :
              op[v].ph # "free" /\ op[v].cli # Nobody =>
                 cons'[op[v].cli] = cons[op[v].cli]
    PROVE  GetSettled'
<1>1. ASSUME NEW v \in Worker \ {w} PROVE GetOK(v)'
  <2>1. op[v].ph # "free" => op[v].node \in Node
    BY OpActive DEF ActiveOp, Step, IInv
  <2>2. op[v].ph # "free" => minc[op[v].node] <= minc'[op[v].node]
    BY <2>1, NodeNumbers DEF Step, IInv
  <2> QED
    BY <2>2, GetKept
<1> QED
  BY <1>1 DEF GetSettled

\* A step inside the Get of thread w, to a record with covered cursors.
LEMMA GetStepSafe ==
    ASSUME Step, NEW w \in Worker, NEW o \in ActiveOp,
           op[w].ph # "free", op' = [op EXCEPT ![w] = o],
           UNCHANGED <<log, pend, applied, minc, metas, prevc, cp, mk, cons,
                       delivered>>,
           /\ o.node = op[w].node /\ o.cli = op[w].cli
           /\ o.g = op[w].g /\ o.q = op[w].q /\ o.prev = op[w].prev
           /\ o.min <= minc[op[w].node]
           /\ Covered(op[w].g, op[w].q, o.next, o.items)
           /\ \A i \in o.items : i <= o.next
    PROVE  IInv'
<1>1. /\ op'[w] = o /\ \A v \in Worker \ {w} : op'[v] = op[v]
  BY DEF Step, IInv, TypeOK
<1>2. GetOK(w)
  BY DEF Step, IInv, GetSettled
<1>3. GetOK(w)'
  BY <1>1, <1>2, GetMoved DEF GetOK
<1>4. GetSettled'
  BY <1>1, <1>3, OthersKept
<1>5. OneServer'
  BY <1>1, OneServerKept
<1> QED
  BY <1>4, <1>5, Frame DEF Step, IInv

LEMMA GetCheckPointSafe ==
    ASSUME Step, NEW w \in Worker, GetCheckPoint(w) PROVE IInv'
<1> DEFINE n == op[w].node
           o == [op[w] EXCEPT !.ph = "loop", !.cp = cp[n], !.min = minc[n]]
<1>1. TypeOK /\ GetOK(w) /\ op[w].ph # "free" /\ op' = [op EXCEPT ![w] = o]
  BY DEF GetCheckPoint, Step, IInv, GetSettled
<1>2. op[w] \in ActiveOp /\ n \in Node
  BY <1>1, OpActive DEF ActiveOp
<1>3. /\ o \in ActiveOp
      /\ o.node = op[w].node /\ o.cli = op[w].cli /\ o.g = op[w].g
      /\ o.q = op[w].q /\ o.prev = op[w].prev /\ o.min = minc[n]
      /\ o.next = op[w].next /\ o.items = op[w].items
  BY <1>1, <1>2 DEF ActiveOp, TypeOK
<1>4. minc[n] <= minc[n]
  BY <1>1, <1>2, NodeNumbers
<1>5. /\ Covered(op[w].g, op[w].q, o.next, o.items)
      /\ \A i \in o.items : i <= o.next
  BY <1>1, <1>3 DEF GetOK
<1> HIDE DEF o
<1> QED
  BY <1>1, <1>3, <1>4, <1>5, GetStepSafe DEF GetCheckPoint

\* What paxos has deleted was delivered.
LEMMA TrimmedDelivered ==
    ASSUME Step, NEW n \in Node, NEW q \in Queue, NEW g \in Subs[q],
           NEW i \in Nat, i < minc[n], ItemFor(i, q, g)
    PROVE  i \in delivered[g][q]
<1>1. NQueue = 1
  BY DEF Step, IInv, LogKept
<1>2. i \in 0 .. cp[n]
  BY NodeNumbers DEF Step, IInv, NodeBounds, NodeBound
<1>3. Settled(g, q, cp[n])
  BY <1>1 DEF Step, IInv, CheckpointsSettled
<1> QED
  BY <1>2, <1>3 DEF Settled, Covered

\* One iteration at cursor i, when all that lies between the position and i
\* was delivered.
LEMMA IterationSafe ==
    ASSUME Step, NEW w \in Worker, NEW i \in Nat,
           op[w].ph = "loop", op[w].next < i,
           \A j \in Nat : op[w].next < j /\ j < i /\ j < Len(log)
                          /\ ItemFor(j, op[w].q, op[w].g)
                          => j \in delivered[op[w].g][op[w].q],
           op' = [op EXCEPT ![w] = GetItemsByCursorID(w, i)],
           UNCHANGED <<log, pend, applied, minc, metas, prevc, cp, mk, cons,
                       delivered>>
    PROVE  IInv'
<1> DEFINE n == op[w].node
           g == op[w].g
           q == op[w].q
           o == GetItemsByCursorID(w, i)
           read == {x \in {i} : x >= minc[n] /\ ItemFor(x, q, g)}
<1>1. TypeOK /\ GetOK(w) /\ op[w].ph # "free"
  BY DEF Step, IInv, GetSettled
<1>2. op[w] \in ActiveOp /\ n \in Node /\ q \in Queue
  BY <1>1, OpActive DEF ActiveOp
<1>3. /\ op[w].next \in Int /\ op[w].prev \in Int /\ op[w].items \subseteq Nat
      /\ g \in Subs[q]
  BY <1>1, <1>2 DEF ActiveOp, Cursor, NoCursor, GetOK
<1>4. o \in ActiveOp
  BY <1>1, <1>2, IterationType
<1>5. CASE op[w].prev # NoCursor /\ op[w].prev >= i
  <2>1. o = [op[w] EXCEPT !.next = i, !.moved = TRUE]
    BY <1>5 DEF GetItemsByCursorID
  <2>2. /\ o.node = n /\ o.cli = op[w].cli /\ o.g = g /\ o.q = q
        /\ o.prev = op[w].prev /\ o.min = op[w].min
        /\ o.next = i /\ o.items = op[w].items
    BY <1>2, <2>1 DEF ActiveOp
  <2>3. Covered(g, q, op[w].prev, {})
    BY <1>1 DEF GetOK, Settled
  <2>4. i \in Cursor /\ op[w].prev \in Cursor /\ i <= op[w].prev
    BY <1>2, <1>3, <1>5 DEF ActiveOp, Cursor
  <2>5. Covered(g, q, i, op[w].items)
    BY <1>1, <2>3, <2>4, CoveredBefore
  <2>6. \A j \in op[w].items : j <= i
    BY <1>1, <1>3 DEF GetOK
  <2> HIDE DEF o
  <2> QED
    BY <1>1, <1>4, <2>2, <2>5, <2>6, GetStepSafe DEF GetOK, o
<1>6. CASE ~(op[w].prev # NoCursor /\ op[w].prev >= i) /\ i >= applied[n]
  <2>1. o = [op[w] EXCEPT !.ph = "prev"]
    BY <1>6 DEF GetItemsByCursorID
  <2>2. /\ o.node = n /\ o.cli = op[w].cli /\ o.g = g /\ o.q = q
        /\ o.prev = op[w].prev /\ o.min = op[w].min
        /\ o.next = op[w].next /\ o.items = op[w].items
    BY <1>2, <2>1 DEF ActiveOp
  <2> HIDE DEF o
  <2> QED
    BY <1>1, <1>4, <2>2, GetStepSafe DEF GetOK, o
<1>7. CASE ~(op[w].prev # NoCursor /\ op[w].prev >= i) /\ ~(i >= applied[n])
  <2>1. o = [op[w] EXCEPT !.next = i, !.moved = TRUE, !.items = @ \cup read]
    BY <1>7 DEF GetItemsByCursorID
  <2>2. /\ o.node = n /\ o.cli = op[w].cli /\ o.g = g /\ o.q = q
        /\ o.prev = op[w].prev /\ o.min = op[w].min
        /\ o.next = i /\ o.items = op[w].items \cup read
    <3> HIDE DEF read
    <3> QED
      BY <1>2, <2>1 DEF ActiveOp
  <2>3. i < Len(log) /\ i < applied[n]
    BY <1>1, <1>2, <1>7, NodeNumbers DEF Step, IInv, NodeBounds, NodeBound
  <2>4. ASSUME NEW j \in 0 .. i, ItemFor(j, q, g)
        PROVE  j \in delivered[g][q] \cup (op[w].items \cup read)
    <3>1. CASE j <= op[w].next
      <4>1. Covered(g, q, op[w].next, op[w].items) /\ j \in 0 .. op[w].next
        BY <1>1, <1>3, <3>1 DEF GetOK
      <4> QED
        BY <2>4, <4>1 DEF Covered
    <3>2. CASE ~(j <= op[w].next) /\ j # i
      BY <1>1, <1>3, <2>3, <2>4, <3>2, NodeNumbers
    <3>3. CASE j = i /\ i >= minc[n]
      BY <2>4, <3>3
    <3>4. CASE j = i /\ ~(i >= minc[n])
      <4>1. i < minc[n]
        BY <1>1, <1>2, <3>4, NodeNumbers
      <4> QED
        BY <1>2, <1>3, <2>4, <3>4, <4>1, TrimmedDelivered
    <3> QED
      BY <3>1, <3>2, <3>3, <3>4
  <2>5. Covered(g, q, i, op[w].items \cup read)
    BY <2>3, <2>4 DEF Covered
  <2>6. \A j \in op[w].items \cup read : j <= i
    BY <1>1, <1>3 DEF GetOK
  <2> HIDE DEF o, read
  <2> QED
    BY <1>1, <1>4, <2>2, <2>5, <2>6, GetStepSafe DEF GetOK, o
<1> QED
  BY <1>5, <1>6, <1>7

LEMMA GetFromMetaQueueSafe ==
    ASSUME Step, NEW w \in Worker, GetFromMetaQueue(w) PROVE IInv'
<1> DEFINE n == op[w].node
           g == op[w].g
           q == op[w].q
           ahead == {m \in metas[n][q] : m > op[w].next}
<1>1. TypeOK /\ GetOK(w) /\ op[w].ph = "loop" /\ op[w].ph # "free"
  BY DEF GetFromMetaQueue, Step, IInv, GetSettled
<1>2. op[w] \in ActiveOp /\ n \in Node /\ q \in Queue
  BY <1>1, OpActive DEF ActiveOp
<1>3. op[w].next \in Int /\ g \in Subs[q] /\ metas[n][q] \subseteq Nat
  BY <1>1, <1>2 DEF ActiveOp, Cursor, NoCursor, GetOK, TypeOK
<1>4. PICK i \in ahead :
        /\ \A x \in ahead : i <= x
        /\ op' = [op EXCEPT ![w] = GetItemsByCursorID(w, i)]
  BY DEF GetFromMetaQueue
<1>5. i \in Nat /\ op[w].next < i /\ i \in metas[n][q]
  BY <1>3
<1>6. ASSUME NEW j \in Nat, op[w].next < j, j < i, j < Len(log), ItemFor(j, q, g)
      PROVE  j \in delivered[g][q]
  <2>1. i < applied[n]
    BY <1>2, <1>5 DEF Step, IInv, NodeBounds, NodeBound
  <2>2. j \in 0 .. applied[n] - 1
    BY <1>1, <1>2, <1>5, <1>6, <2>1, NodeNumbers
  <2>3. j \notin metas[n][q]
    BY <1>3, <1>4, <1>5, <1>6
  <2> QED
    BY <1>2, <1>3, <1>6, <2>2, <2>3 DEF Step, IInv, UndeliveredIsIndexed
<1> QED
  BY <1>1, <1>4, <1>5, <1>6, IterationSafe DEF GetFromMetaQueue

LEMMA GetFromPaxosLogSafe ==
    ASSUME Step, NEW w \in Worker, GetFromPaxosLog(w) PROVE IInv'
<1> DEFINE n == op[w].node
           g == op[w].g
           q == op[w].q
           i == IF op[w].next < op[w].min THEN op[w].min ELSE op[w].next + 1
<1>1. TypeOK /\ GetOK(w) /\ op[w].ph = "loop" /\ op[w].ph # "free"
  BY DEF GetFromPaxosLog, Step, IInv, GetSettled
<1>2. op[w] \in ActiveOp /\ n \in Node /\ q \in Queue
  BY <1>1, OpActive DEF ActiveOp
<1>3. /\ op[w].next \in Int /\ op[w].next >= -1 /\ op[w].min \in Nat
      /\ g \in Subs[q]
  BY <1>1, <1>2 DEF ActiveOp, Cursor, NoCursor, GetOK
<1>4. i \in Nat /\ op[w].next < i
  BY <1>3
<1>5. ASSUME NEW j \in Nat, op[w].next < j, j < i, ItemFor(j, q, g)
      PROVE  j \in delivered[g][q]
  <2>1. j < op[w].min
    BY <1>3, <1>5
  <2>2. op[w].min <= minc[n]
    BY <1>1 DEF GetOK
  <2>3. j < minc[n]
    BY <1>1, <1>2, <1>3, <2>1, <2>2, NodeNumbers
  <2> QED
    BY <1>2, <1>3, <1>5, <2>3, TrimmedDelivered
<1>6. op' = [op EXCEPT ![w] = GetItemsByCursorID(w, i)]
  BY DEF GetFromPaxosLog
<1> HIDE DEF i
<1> QED
  BY <1>1, <1>4, <1>5, <1>6, IterationSafe DEF GetFromPaxosLog

LEMMA GetLoopEndSafe ==
    ASSUME Step, NEW w \in Worker, GetLoopEnd(w) PROVE IInv'
<1> DEFINE o == [op[w] EXCEPT !.ph = "prev"]
<1>1. TypeOK /\ GetOK(w) /\ op[w].ph # "free" /\ op' = [op EXCEPT ![w] = o]
  BY DEF GetLoopEnd, Step, IInv, GetSettled
<1>2. op[w] \in ActiveOp
  BY <1>1, OpActive
<1>3. /\ o \in ActiveOp
      /\ o.node = op[w].node /\ o.cli = op[w].cli /\ o.g = op[w].g
      /\ o.q = op[w].q /\ o.prev = op[w].prev /\ o.min = op[w].min
      /\ o.next = op[w].next /\ o.items = op[w].items
  BY <1>2 DEF ActiveOp
<1> HIDE DEF o
<1> QED
  BY <1>1, <1>3, GetStepSafe DEF GetLoopEnd, GetOK

LEMMA UpdatePrevCursorIDSafe ==
    ASSUME Step, NEW w \in Worker, UpdatePrevCursorID(w) PROVE IInv'
<1> DEFINE n == op[w].node
           o == [op[w] EXCEPT !.ph = "next"]
<1>1. TypeOK /\ GetOK(w) /\ op[w].ph # "free" /\ op' = [op EXCEPT ![w] = o]
  BY DEF UpdatePrevCursorID, Step, IInv, GetSettled
<1>2. op[w] \in ActiveOp
  BY <1>1, OpActive
<1>3. /\ o \in ActiveOp
      /\ o.node = op[w].node /\ o.cli = op[w].cli /\ o.g = op[w].g
      /\ o.q = op[w].q /\ o.prev = op[w].prev /\ o.min = op[w].min
      /\ o.next = op[w].next /\ o.items = op[w].items
  BY <1>2 DEF ActiveOp
<1>4. ASSUME NEW k \in Node, NEW q \in Queue, NEW g \in Subs[q]
      PROVE  Settled(g, q, prevc'[k][g][q])
  <2>1. Settled(g, q, prevc[k][g][q]) /\ g \in Group
    BY QueueFacts DEF Step, IInv, CursorsSettled
  <2>2. \/ prevc'[k][g][q] = prevc[k][g][q]
        \/ g = op[w].g /\ q = op[w].q /\ prevc'[k][g][q] = op[w].prev
    BY <1>1, <2>1 DEF UpdatePrevCursorID, TypeOK, Cursors
  <2> QED
    BY <1>1, <2>1, <2>2 DEF GetOK
<1>5. CursorsSettled'
  BY <1>4, CursorsKept DEF UpdatePrevCursorID, Step, IInv, CursorsSettled
<1>6. op'[w] = o /\ \A v \in Worker \ {w} : op'[v] = op[v]
  BY <1>1 DEF TypeOK
<1> HIDE DEF o
<1>7. GetOK(w)'
  BY <1>1, <1>3, <1>6, GetMoved DEF UpdatePrevCursorID, GetOK
<1>8. GetSettled'
  BY <1>6, <1>7, OthersKept DEF UpdatePrevCursorID
<1>9. OneServer'
  BY <1>1, <1>3, <1>6, OneServerKept
<1> QED
  BY <1>5, <1>8, <1>9, Frame DEF UpdatePrevCursorID, Step, IInv

LEMMA UpdateNextCursorIDSafe ==
    ASSUME Step, NEW w \in Worker, UpdateNextCursorID(w) PROVE IInv'
<1> DEFINE c == op[w].cli
<1>1. TypeOK /\ GetOK(w) /\ op[w].ph # "free" /\ op' = [op EXCEPT ![w] = FreeOp]
  BY DEF UpdateNextCursorID, Step, IInv, GetSettled
<1>2. op[w] \in ActiveOp /\ c \in Consumer \cup {Nobody} /\ op[w].q \in Queue
  BY <1>1, OpActive DEF ActiveOp
<1>3. /\ op'[w] = FreeOp /\ op'[w].ph = "free"
      /\ \A v \in Worker \ {w} : op'[v] = op[v]
  BY <1>1 DEF TypeOK, FreeOp
<1>4. \A d \in Consumer : d # c => cons'[d] = cons[d]
  BY <1>1 DEF UpdateNextCursorID, TypeOK
<1>5. ConsumersSettled'
  <2>1. ASSUME NEW d \in Consumer, d = c PROVE ConsumerOK(d)'
    <3>1. d # Nobody
      BY ConstantsAssumption
    <3>2. cons'[d] = [cons[d] EXCEPT !.ph = "work", !.next = op[w].next,
                                     !.items = op[w].items]
      BY <1>1, <2>1, <3>1 DEF UpdateNextCursorID, TypeOK
    <3>3. cons[d] \in ConsumerState
      BY <1>1 DEF TypeOK
    <3>4. /\ cons'[d].ph = "work" /\ cons'[d].q = cons[d].q
          /\ cons'[d].next = op[w].next /\ cons'[d].items = op[w].items
      BY <3>2, <3>3 DEF ConsumerState
    <3>5. /\ cons[d].q = op[w].q /\ GroupOf[d] = op[w].g
      BY <1>1, <2>1, <3>1 DEF GetOK
    <3>6. op[w].q # NoCursor
      BY <1>2, QueueFacts DEF NoCursor
    <3> QED
      BY <1>1, <3>4, <3>5, <3>6, ConsumerMoved DEF GetOK
  <2>2. \A d \in Consumer : d # c => ConsumerOK(d)'
    BY <1>4, ConsumerKept
  <2> QED
    BY <2>1, <2>2 DEF ConsumersSettled
<1>6. GetSettled'
  <2>1. GetOK(w)'
    BY <1>3 DEF GetOK
  <2>2. ASSUME NEW v \in Worker \ {w}, op[v].ph # "free", op[v].cli # Nobody
        PROVE  cons'[op[v].cli] = cons[op[v].cli]
    <3>1. op[v].cli \in Consumer
      BY <1>1, <2>2, OpActive DEF ActiveOp
    <3>2. op[v].cli # c
      BY <1>1, <2>2 DEF Step, IInv, OneServer
    <3> QED
      BY <1>4, <3>1, <3>2
  <2> QED
    BY <1>3, <2>1, <2>2, OthersKept DEF UpdateNextCursorID
<1>7. OneServer'
  BY <1>3, OneServerKept
<1> QED
  BY <1>5, <1>6, <1>7, Frame DEF UpdateNextCursorID, Step, IInv

LEMMA GetSafe ==
    ASSUME Step, NEW c \in Consumer, NEW w \in Worker, NEW n \in Node, Get(c, w, n)
    PROVE  IInv'
<1> DEFINE g == GroupOf[c]
           q == cons[c].q
           adj == AdjustNextCursorID(n, g, q, cons[c].next)
           o == [ph |-> "cp", node |-> n, cli |-> c, g |-> g, q |-> q,
                 prev |-> adj[1], next |-> adj[2], cp |-> NoCursor, min |-> 0,
                 moved |-> FALSE, items |-> {}]
<1>1. TypeOK /\ ConsumerOK(c) /\ cons[c].ph = "idle" /\ q # NoCursor
  BY DEF Get, Step, IInv, ConsumersSettled
<1>2. cons[c] \in ConsumerState /\ q \in Queue /\ cons[c].next \in Cursor
  BY <1>1 DEF TypeOK, ConsumerState
<1>3. /\ g \in Subs[q] /\ g \in Group
      /\ Settled(g, q, cons[c].next) /\ Settled(g, q, prevc[n][g][q])
  BY <1>1, <1>2, QueueFacts
     DEF ConsumerOK, Settled, Step, IInv, CursorsSettled
<1>4. Settled(g, q, adj[1]) /\ Settled(g, q, adj[2])
  BY <1>3 DEF AdjustNextCursorID
<1>5. /\ op'[w] = o /\ \A v \in Worker \ {w} : op'[v] = op[v]
      /\ cons'[c] = [cons[c] EXCEPT !.ph = "wait"]
      /\ \A d \in Consumer \ {c} : cons'[d] = cons[d]
  BY <1>1 DEF Get, TypeOK
<1>6. /\ o.ph # "free" /\ o.g = g /\ o.q = q /\ o.prev = adj[1]
      /\ o.next = adj[2] /\ o.items = {} /\ o.min = 0 /\ o.node = n
      /\ o.cli = c
  OBVIOUS
<1>7. /\ cons'[c].ph = "wait" /\ cons'[c].q = q
      /\ cons'[c].next = cons[c].next /\ cons'[c].items = cons[c].items
  BY <1>2, <1>5 DEF ConsumerState
<1>8. 0 <= minc'[n]
  BY <1>1, NodeNumbers DEF Get
<1> HIDE DEF o, adj
\* Nobody served c.
<1>9. ASSUME NEW v \in Worker, op[v].ph # "free" PROVE op[v].cli # c
  <2>1. GetOK(v)
    BY DEF Step, IInv, GetSettled
  <2> QED
    BY <1>1, <1>9, <2>1, ConstantsAssumption DEF GetOK
<1>10. GetOK(w)'
  BY <1>3, <1>4, <1>5, <1>6, <1>7, <1>8, GetMoved DEF Settled
<1>11. GetSettled'
  <2>1. ASSUME NEW v \in Worker, op[v].ph # "free", op[v].cli # Nobody
        PROVE  cons'[op[v].cli] = cons[op[v].cli]
    <3>1. op[v].cli \in Consumer \ {c}
      BY <1>1, <1>9, <2>1, OpActive DEF ActiveOp
    <3> QED
      BY <1>5, <3>1
  <2> QED
    BY <1>5, <1>10, <2>1, OthersKept DEF Get
<1>12. OneServer'
  <2> SUFFICES ASSUME NEW u \in Worker, NEW v \in Worker, op'[u].ph # "free",
                      op'[v].ph # "free", op'[u].cli = op'[v].cli,
                      op'[u].cli # Nobody
               PROVE  u = v
    BY DEF OneServer
  <2>1. CASE u # w /\ v # w
    BY <1>5, <2>1 DEF Step, IInv, OneServer
  <2>2. CASE u = w /\ v # w
    BY <1>5, <1>6, <1>9, <2>2
  <2>3. CASE u # w /\ v = w
    BY <1>5, <1>6, <1>9, <2>3
  <2> QED
    BY <2>1, <2>2, <2>3
<1>13. ConsumersSettled'
  <2>1. ConsumerOK(c)'
    BY <1>1, <1>7, ConsumerMoved DEF ConsumerOK
  <2>2. \A d \in Consumer \ {c} : ConsumerOK(d)'
    BY <1>5, ConsumerKept
  <2> QED
    BY <2>1, <2>2 DEF ConsumersSettled
<1> QED
  BY <1>11, <1>12, <1>13, Frame DEF Get, Step, IInv

-----------------------------------------------------------------------------
(* Consumers.                                                              *)

\* Only consumer c moves, and no thread serves it.
LEMMA ConsumerStepKept ==
    ASSUME Step, NEW c \in Consumer, cons[c].ph # "wait", UNCHANGED <<op, minc>>,
           \A d \in Consumer \ {c} : cons'[d] = cons[d]
    PROVE  GetSettled'
<1> SUFFICES ASSUME NEW w \in Worker PROVE GetOK(w)'
  BY DEF GetSettled
<1>1. CASE op[w].ph = "free"
  BY <1>1 DEF GetOK
<1>2. CASE op[w].ph # "free"
  <2>1. op[w] \in ActiveOp /\ GetOK(w) /\ TypeOK
    BY <1>2, OpActive DEF Step, IInv, GetSettled
  <2>2. op[w].cli # Nobody => op[w].cli \in Consumer \ {c}
    BY <1>2, <2>1 DEF GetOK, ActiveOp
  <2>3. minc[op[w].node] <= minc'[op[w].node]
    BY <2>1, NodeNumbers DEF ActiveOp
  <2> QED
    BY <2>2, <2>3, GetKept
<1> QED
  BY <1>1, <1>2

LEMMA ChildRunSafe ==
    ASSUME Step, NEW c \in Consumer, NEW q \in Queue, ChildRun(c, q) PROVE IInv'
<1>1. TypeOK /\ cons[c].ph # "wait"
  BY DEF ChildRun, Step, IInv
<1>2. /\ cons'[c] = [IdleConsumer EXCEPT !.q = q]
      /\ \A d \in Consumer \ {c} : cons'[d] = cons[d]
  BY <1>1 DEF ChildRun, TypeOK
<1>3. /\ cons'[c].ph = "idle" /\ cons'[c].q = q /\ cons'[c].next = NoCursor
      /\ cons'[c].items = {}
  BY <1>2 DEF IdleConsumer
<1>4. ConsumerOK(c)'
  BY <1>1, <1>3, CoveredNone, ConsumerMoved DEF ChildRun
<1>5. ConsumersSettled'
  BY <1>2, <1>4, ConsumerKept DEF ConsumersSettled
<1>6. GetSettled'
  BY <1>1, <1>2, ConsumerStepKept DEF ChildRun
<1> QED
  BY <1>5, <1>6, Frame DEF ChildRun, Step, IInv

\* The handlers have run on everything up to the consumer's position.
LEMMA ConsumeSafe ==
    ASSUME Step, NEW c \in Consumer, Consume(c) PROVE IInv'
<1> DEFINE g == GroupOf[c]
           q == cons[c].q
<1>1. TypeOK /\ ConsumerOK(c) /\ cons[c].ph = "work" /\ q # NoCursor
  BY DEF Consume, Step, IInv, ConsumersSettled, ConsumerOK
<1>2. /\ cons[c] \in ConsumerState /\ q \in Queue /\ cons[c].next \in Cursor
      /\ cons[c].items \subseteq Nat
  BY <1>1 DEF TypeOK, ConsumerState
<1>3. g \in Subs[q] /\ g \in Group
  BY <1>1, <1>2, QueueFacts DEF ConsumerOK
<1>4. /\ cons'[c] = [cons[c] EXCEPT !.ph = "idle", !.items = {}]
      /\ \A d \in Consumer \ {c} : cons'[d] = cons[d]
      /\ delivered'[g][q] = delivered[g][q] \cup cons[c].items
      /\ \A h \in Group, p \in Queue :
            h # g \/ p # q => delivered'[h][p] = delivered[h][p]
  BY <1>1, <1>2, <1>3 DEF Consume, TypeOK
<1>5. /\ cons'[c].ph = "idle" /\ cons'[c].q = q
      /\ cons'[c].next = cons[c].next /\ cons'[c].items = {}
  BY <1>2, <1>4 DEF ConsumerState
<1>6. Covered(g, q, cons[c].next, cons[c].items)
  BY <1>1 DEF ConsumerOK
<1>7. /\ log' = log
      /\ \A i, p, h : ItemFor(i, p, h)' <=> ItemFor(i, p, h)
  BY DEF Consume, ItemFor
<1>8. ASSUME NEW d \in Cursor, d <= cons[c].next, NEW p \in Queue, p = q
      PROVE  Settled(g, p, d)'
  <2>1. d < Len(log)
    BY <1>2, <1>6, <1>8, <1>1 DEF Covered, Cursor, NoCursor, TypeOK
  <2>2. \A i \in 0 .. d : ItemFor(i, p, g) => i \in delivered'[g][p]
    BY <1>2, <1>4, <1>6, <1>8 DEF Covered, Cursor, NoCursor
  <2> QED
    BY <1>7, <2>1, <2>2 DEF Settled, Covered
<1>9. ConsumersSettled'
  <2>1. cons[c].next <= cons[c].next
    BY <1>2 DEF Cursor, NoCursor
  <2>2. Settled(GroupOf[c], cons[c].q, cons[c].next)'
    BY <1>2, <1>5, <1>8, <2>1
  <2>3. ConsumerOK(c)'
    BY <1>3, <1>5, <2>2 DEF ConsumerOK, Settled
  <2> QED
    BY <1>4, <2>3, ConsumerKept DEF ConsumersSettled
<1>10. DeliveriesSettled'
  <2> SUFFICES ASSUME NEW p \in Queue, NEW h \in Subs[p],
                      NEW i \in delivered'[h][p]
               PROVE  Settled(h, p, i)'
    BY DEF DeliveriesSettled
  <2>1. h \in Group
    BY QueueFacts
  <2>2. CASE i \in delivered[h][p]
    <3>1. Settled(h, p, i) /\ i \in Cursor
      BY <1>1, <2>1, <2>2 DEF Step, IInv, DeliveriesSettled, TypeOK, Cursor
    <3> QED
      BY <3>1, SettledStays
  <2>3. CASE i \notin delivered[h][p]
    <3>1. h = g /\ p = q /\ i \in cons[c].items
      BY <1>4, <2>1, <2>3
    <3>2. i \in Cursor /\ i <= cons[c].next
      BY <1>1, <1>2, <3>1 DEF ConsumerOK, Cursor
    <3> QED
      BY <1>8, <3>1, <3>2
  <2> QED
    BY <2>2, <2>3
<1>11. GetSettled'
  BY <1>1, <1>4, ConsumerStepKept DEF Consume
<1> QED
  BY <1>9, <1>10, <1>11, Frame DEF Consume, Step, IInv

\* Nobody waits for consumer c's Get any more, and c returns to a position it
\* had or to none.
LEMMA AbandonSafe ==
    ASSUME Step, NEW c \in Consumer, Abandon(c), ConsumerOK(c)',
           \A d \in Consumer \ {c} : cons'[d] = cons[d],
           UNCHANGED <<log, pend, applied, minc, metas, prevc, nextc, cp, mk,
                       master, delivered>>
    PROVE  IInv'
<1>1. TypeOK
  BY DEF Step, IInv
<1>2. ASSUME NEW w \in Worker, op[w].ph # "free", op[w].cli = c
      PROVE  /\ op'[w].ph = op[w].ph /\ op'[w].g = op[w].g /\ op'[w].q = op[w].q
             /\ op'[w].min = op[w].min /\ op'[w].node = op[w].node
             /\ op'[w].prev = op[w].prev /\ op'[w].next = op[w].next
             /\ op'[w].items = op[w].items /\ op'[w].cli = Nobody
  <2>1. op[w] \in ActiveOp
    BY <1>1, <1>2, OpActive
  <2>2. op'[w] = [op[w] EXCEPT !.cli = Nobody]
    BY <1>2 DEF Abandon
  <2> QED
    BY <2>1, <2>2 DEF ActiveOp
<1>3. ASSUME NEW w \in Worker, ~(op[w].ph # "free" /\ op[w].cli = c)
      PROVE  op'[w] = op[w]
  BY <1>3 DEF Abandon
<1>4. GetSettled'
  <2> SUFFICES ASSUME NEW w \in Worker PROVE GetOK(w)'
    BY DEF GetSettled
  <2>1. CASE op[w].ph # "free" /\ op[w].cli = c
    <3>1. GetOK(w)
      BY DEF Step, IInv, GetSettled
    <3> QED
      BY <1>2, <2>1, <3>1, GetMoved DEF GetOK
  <2>2. CASE op[w].ph # "free" /\ op[w].cli # c
    <3>1. op[w] \in ActiveOp
      BY <1>1, <2>2, OpActive
    <3>2. minc[op[w].node] <= minc'[op[w].node]
      BY <1>1, <3>1, NodeNumbers DEF ActiveOp
    <3>3. op[w].cli # Nobody => cons'[op[w].cli] = cons[op[w].cli]
      BY <2>2, <3>1 DEF ActiveOp
    <3> QED
      BY <1>3, <2>2, <3>2, <3>3, GetKept
  <2>3. CASE op[w].ph = "free"
    BY <1>3, <2>3 DEF GetOK
  <2> QED
    BY <2>1, <2>2, <2>3
<1>5. OneServer'
  BY <1>2, <1>3, OneServerKept
<1>6. ConsumersSettled'
  BY ConsumerKept DEF ConsumersSettled
<1> QED
  BY <1>4, <1>5, <1>6, Frame DEF Step, IInv

LEMMA GetFailsSafe ==
    ASSUME Step, NEW c \in Consumer, GetFails(c) PROVE IInv'
<1>1. TypeOK /\ ConsumerOK(c) /\ cons[c] \in ConsumerState /\ cons[c].ph = "wait"
  BY DEF GetFails, Step, IInv, ConsumersSettled, TypeOK
<1>2. /\ cons'[c] = [cons[c] EXCEPT !.ph = "idle"]
      /\ \A d \in Consumer \ {c} : cons'[d] = cons[d]
  BY <1>1 DEF GetFails, TypeOK
<1>3. /\ cons'[c].ph = "idle" /\ cons'[c].q = cons[c].q
      /\ cons'[c].next = cons[c].next /\ cons'[c].items = cons[c].items
  BY <1>1, <1>2 DEF ConsumerState
<1>4. ConsumerOK(c)'
  BY <1>1, <1>3, ConsumerMoved DEF ConsumerOK
<1> QED
  BY <1>2, <1>4, AbandonSafe DEF GetFails

LEMMA ConsumerRestartSafe ==
    ASSUME Step, NEW c \in Consumer, ConsumerRestart(c) PROVE IInv'
<1>1. /\ cons'[c] = IdleConsumer
      /\ \A d \in Consumer \ {c} : cons'[d] = cons[d]
  BY DEF ConsumerRestart, Step, IInv, TypeOK
<1>2. ConsumerOK(c)'
  BY <1>1, ConsumerMoved DEF IdleConsumer
<1> QED
  BY <1>1, <1>2, AbandonSafe DEF ConsumerRestart

-----------------------------------------------------------------------------
(* The theorems.                                                           *)

LEMMA InitSafe == Init => IInv
<1> SUFFICES ASSUME Init PROVE IInv
  OBVIOUS
<1>1. TypeOK
  BY IdleTypes, QueueFacts DEF Init, TypeOK, Cursor
<1>2. \A q \in Queue : \A g \in Subs[q] : Settled(g, q, NoCursor)
  BY <1>1, CoveredNone DEF Settled
<1>3. Subs \in [Queue -> SUBSET Group] /\ NoCursor = -1 /\ Len(log) = 0
  BY ConstantsAssumption DEF Init, NoCursor
<1>4. NodeBounds
  BY <1>3 DEF Init, NodeBounds, NodeBound
<1>5. CursorsSettled
  BY <1>2, <1>3, QueueFacts DEF Init, CursorsSettled, NoCursors
<1>6. CheckpointsSettled
  BY <1>2 DEF Init, CheckpointsSettled
<1>7. UndeliveredIsIndexed
  BY <1>3 DEF Init, UndeliveredIsIndexed
<1>8. ScanSettled
  BY <1>2, <1>3 DEF Init, ScanSettled, ScanOK, ScanBound, IdleMk
<1>9. GetSettled /\ OneServer
  BY DEF Init, GetSettled, GetOK, OneServer, FreeOp
<1>10. ConsumersSettled
  BY DEF Init, ConsumersSettled, ConsumerOK, IdleConsumer
<1>11. DeliveriesSettled
  BY QueueFacts DEF Init, DeliveriesSettled
<1>12. LogKept
  BY DEF Init, LogKept
<1> QED
  BY <1>1, <1>4, <1>5, <1>6, <1>7, <1>8, <1>9, <1>10, <1>11, <1>12 DEF IInv

\* With one queue in the paxos group, every step keeps the invariant; with
\* several and a log that is kept, every step but a restart.
NoRestart == \A n \in Node : ~Restart(n)

LEMMA SafeStep ==
    ASSUME NQueue = 1 \/ ~Trimming
    PROVE  IInv /\ [Next]_vars /\ [NQueue = 1 \/ NoRestart]_vars => IInv'
<1> SUFFICES ASSUME IInv, [Next]_vars, [NQueue = 1 \/ NoRestart]_vars PROVE IInv'
  OBVIOUS
<1>0. Step
  BY StepContext
<1>1. CASE UNCHANGED vars
  BY <1>0, <1>1, Frame DEF vars, Step, IInv
<1>2. CASE PaxosNext
  BY <1>0, <1>2, PaxosAddSafe, SyncCursorIDSafe, SyncChosenSafe, SyncLostSafe,
     MasterChangeSafe, CleanPaxosLogSafe DEF PaxosNext
<1>3. ASSUME NEW n \in Node, NodeNext(n) PROVE IInv'
  <2>1. Restart(n) => IInv'
    <3>1. CASE NQueue = 1
      BY <1>0, <3>1, RestartSafe
    <3>2. CASE NQueue # 1
      BY <1>1, <3>2 DEF NoRestart
    <3> QED
      BY <3>1, <3>2
  <2> QED
    BY <1>0, <1>3, <2>1, ExecuteSafe, LoadCheckpointStateSafe,
       MakeCheckPointSafe, ScanCursorsSafe, ScanMetasSafe, DumpCheckPointSafe
       DEF NodeNext
<1>4. ASSUME NEW w \in Worker, WorkerNext(w) PROVE IInv'
  BY <1>0, <1>4, GetCheckPointSafe, GetFromMetaQueueSafe, GetFromPaxosLogSafe,
     GetLoopEndSafe, UpdatePrevCursorIDSafe, UpdateNextCursorIDSafe
     DEF WorkerNext
<1>5. ASSUME NEW c \in Consumer, ConsumerNext(c) PROVE IInv'
  BY <1>0, <1>5, GetSafe, ChildRunSafe, ConsumeSafe, GetFailsSafe,
     ConsumerRestartSafe DEF ConsumerNext
<1> QED
  BY <1>1, <1>2, <1>3, <1>4, <1>5 DEF Next

\* The inductive invariant holds in every state of a store with one queue for
\* each paxos group: index, log, checkpoint and cursors fit (BaseMgr, SyncCtrl,
\* KeepSyncThread).
THEOREM Invariant == ASSUME NQueue = 1 PROVE Spec => []IInv
<1>1. IInv /\ [Next]_vars => IInv'
  BY SafeStep
<1> QED
  BY <1>1, InitSafe, PTL DEF Spec

\* Settled cursors are delivered up to.
LEMMA SettledDelivered ==
    ASSUME NEW g, NEW q, NEW c, Settled(g, q, c) PROVE DeliveredTo(g, q, c)
  BY DEF Settled, Covered, DeliveredTo

\* At-least-once delivery (README.md): a paxos group with one queue never
\* acknowledges, on any node, an item whose handlers have not run, for any
\* number of nodes, consumers and server threads and any number of faults.
THEOREM AtLeastOnce == ASSUME NQueue = 1 PROVE Spec => []AckedWasDelivered
<1>1. IInv => AckedWasDelivered
  BY SettledDelivered DEF IInv, CursorsSettled, AckedWasDelivered
<1> QED
  BY <1>1, Invariant, PTL

\* The handlers of a group first see the items of a queue in paxos order.
THEOREM InOrder == ASSUME NQueue = 1 PROVE Spec => []FirstDeliveryInOrder
<1>1. IInv => FirstDeliveryInOrder
  BY SettledDelivered DEF IInv, DeliveriesSettled, FirstDeliveryInOrder
<1> QED
  BY <1>1, Invariant, PTL

\* KeepSyncThread never dumps a checkpoint past an undelivered item.
THEOREM SafeCheckpoint ==
    ASSUME NQueue = 1 PROVE Spec => []CheckpointCoversDelivered
<1>1. IInv => CheckpointCoversDelivered
  BY SettledDelivered DEF IInv, CheckpointsSettled, CheckpointCoversDelivered
<1> QED
  BY <1>1, Invariant, PTL

\* The index of every node holds all that the node executed and a group has
\* not seen, through restarts and checkpoint transfers.
THEOREM NothingLost == ASSUME NQueue = 1 PROVE Spec => []UndeliveredIsIndexed
<1>1. IInv => UndeliveredIsIndexed
  BY DEF IInv
<1> QED
  BY <1>1, Invariant, PTL

\* Several queues may share a paxos group.  As long as paxos deletes none of
\* its log and no node is restarted, so that nobody relies on a checkpoint, the
\* invariant holds for any number of them: changes of master, lost calls,
\* restarts of consumers and late SyncCursorID entries included.
THEOREM InvariantOfMany ==
    ASSUME ~Trimming PROVE Spec /\ [][NoRestart]_vars => []IInv
<1>1. IInv /\ [Next]_vars /\ [NoRestart]_vars => IInv'
  BY SafeStep
<1> QED
  BY <1>1, InitSafe, PTL DEF Spec

\* At-least-once delivery from a paxos group of several queues.
THEOREM AtLeastOnceOfMany ==
    ASSUME ~Trimming PROVE Spec /\ [][NoRestart]_vars => []AckedWasDelivered
<1>1. IInv => AckedWasDelivered
  BY SettledDelivered DEF IInv, CursorsSettled, AckedWasDelivered
<1> QED
  BY <1>1, InvariantOfMany, PTL

\* First deliveries in paxos order from a paxos group of several queues.
THEOREM InOrderOfMany ==
    ASSUME ~Trimming PROVE Spec /\ [][NoRestart]_vars => []FirstDeliveryInOrder
<1>1. IInv => FirstDeliveryInOrder
  BY SettledDelivered DEF IInv, DeliveriesSettled, FirstDeliveryInOrder
<1> QED
  BY <1>1, InvariantOfMany, PTL

\* The scan that cuts one queue's index loses no item of any queue.
THEOREM NothingLostOfMany ==
    ASSUME ~Trimming PROVE Spec /\ [][NoRestart]_vars => []UndeliveredIsIndexed
<1>1. IInv => UndeliveredIsIndexed
  BY DEF IInv
<1> QED
  BY <1>1, InvariantOfMany, PTL

\* The numbers of a node that a step leaves alone.
LEMMA BoundKept ==
    ASSUME BoundInv, TypeOK', Grows, NEW k \in Node,
           applied'[k] = applied[k], cp'[k] = cp[k], minc'[k] = minc[k],
           metas'[k] = metas[k], mk'[k] = mk[k]
    PROVE  NodeBound(k)' /\ ScanBound(k)'
<1>1. NodeBound(k) /\ ScanBound(k)
  BY DEF BoundInv, NodeBounds, ScanBounds
<1>2. Len(log) <= Len(log')
  BY DEF Grows
<1> QED
  BY <1>1, <1>2 DEF NodeBound, ScanBound, BoundInv, TypeOK

\* A process start from an executed checkpoint.
LEMMA BoundStart ==
    ASSUME BoundInv, NEW n \in Node, NEW c \in Cursor, StartFrom(n, c),
           c < Len(log), log' = log, minc'[n] <= c + 1
    PROVE  NodeBound(n)' /\ ScanBound(n)'
<1>1. TypeOK /\ c \in Int /\ c >= -1
  BY DEF BoundInv, Cursor, NoCursor
<1>2. /\ cp'[n] = c /\ applied'[n] = c + 1 /\ mk'[n] = IdleMk
      /\ metas'[n] = [q \in Queue |-> {}]
  BY <1>1 DEF StartFrom, TypeOK
<1>3. IdleMk.now = 0 /\ IdleMk.cp = -1
  BY DEF IdleMk, NoCursor
<1> QED
  BY <1>1, <1>2, <1>3, NodeNumbers DEF NodeBound, ScanBound

LEMMA BoundStep == BoundInv /\ [Next]_vars => BoundInv'
<1> SUFFICES ASSUME BoundInv, [Next]_vars PROVE BoundInv'
  OBVIOUS
<1> DEFINE Bound(k) == NodeBound(k) /\ ScanBound(k)
           Bounds == \A k \in Node : Bound(k)
<1>0. /\ TypeOK /\ TypeOK' /\ Grows /\ Len(log) \in Nat
      /\ \A k \in Node : NodeBound(k) /\ ScanBound(k) /\ mk[k] \in MkState
  BY TypeStep, GrowsStep DEF BoundInv, NodeBounds, ScanBounds, TypeOK
<1>1. ASSUME UNCHANGED <<applied, minc, metas, cp, mk>> PROVE Bounds'
  BY <1>0, <1>1, BoundKept
<1>2. ASSUME NEW n \in Node, NEW m \in 0 .. cp[n], CleanPaxosLog(n, m)
      PROVE  Bounds'
  <2>1. Bound(n)'
    <3>1. /\ minc'[n] = m /\ applied' = applied /\ metas' = metas /\ cp' = cp
          /\ log' = log /\ mk' = mk
      BY <1>0, <1>2 DEF CleanPaxosLog, TypeOK
    <3>2. m <= cp[n] + 1
      BY <1>0, NodeNumbers
    <3> QED
      BY <1>0, <3>1, <3>2 DEF NodeBound, ScanBound
  <2>2. \A k \in Node \ {n} : Bound(k)'
    BY <1>0, <1>2, BoundKept DEF CleanPaxosLog, TypeOK
  <2> QED
    BY <2>1, <2>2
<1>3. ASSUME NEW n \in Node, Execute(n) PROVE Bounds'
  <2> DEFINE i == applied[n]
  <2>1. /\ log' = log /\ cp' = cp /\ minc' = minc /\ mk' = mk
        /\ applied'[n] = i + 1 /\ metas'[n] = AddMetas(n, i)
        /\ \A k \in Node \ {n} : applied'[k] = applied[k] /\ metas'[k] = metas[k]
        /\ i \in Nat /\ i < Len(log)
    BY <1>0, <1>3 DEF Execute, TypeOK
  <2>2. \A q \in Queue : \A m \in metas'[n][q] : m \in Nat /\ (m = i \/ m < i)
    BY <1>0, <2>1 DEF AddMetas, NodeBound, TypeOK
  <2>3. NodeBound(n)'
    <3>1. i + 1 <= Len(log) /\ cp[n] < i + 1 /\ minc[n] <= cp[n] + 1
      BY <1>0, <2>1, NodeNumbers DEF NodeBound
    <3>2. \A q \in Queue : \A m \in metas'[n][q] : m < i + 1
      BY <2>1, <2>2
    <3> QED
      BY <2>1, <3>1, <3>2 DEF NodeBound
  <2>4. ScanBound(n)'
    BY <1>0, <2>1 DEF ScanBound, MkState, Cursor, NoCursor
  <2>5. \A k \in Node \ {n} : Bound(k)'
    BY <1>0, <2>1, BoundKept
  <2> QED
    BY <2>3, <2>4, <2>5
<1>4. ASSUME NEW n \in Node, Restart(n) PROVE Bounds'
  <2>1. cp[n] \in Cursor /\ cp[n] < Len(log) /\ minc'[n] <= cp[n] + 1
    BY <1>0, <1>4, NodeNumbers DEF Restart, NodeBound, TypeOK
  <2>2. Bound(n)'
    BY <1>4, <2>1, BoundStart DEF Restart
  <2>3. \A k \in Node \ {n} : Bound(k)'
    BY <1>0, <1>4, BoundKept DEF Restart, StartFrom, TypeOK
  <2> QED
    BY <2>2, <2>3
<1>5. ASSUME NEW n \in Node, NEW m \in Node, LoadCheckpointState(n, m)
      PROVE  Bounds'
  <2>1. cp[m] \in Cursor /\ cp[m] < Len(log)
    BY <1>0, NodeNumbers DEF NodeBound, TypeOK
  <2>2. minc'[n] = cp[m] + 1 /\ \A k \in Node \ {n} : minc'[k] = minc[k]
    BY <1>0, <1>5 DEF LoadCheckpointState, TypeOK
  <2>3. minc'[n] <= cp[m] + 1
    BY <1>0, <2>2, NodeNumbers
  <2>4. Bound(n)'
    BY <1>5, <2>1, <2>3, BoundStart DEF LoadCheckpointState
  <2>5. \A k \in Node \ {n} : Bound(k)'
    BY <1>0, <1>5, <2>2, BoundKept DEF LoadCheckpointState, StartFrom, TypeOK
  <2> QED
    BY <2>4, <2>5
\* The scan of node n moves; its index may shrink.
<1>6. ASSUME NEW n \in Node, UNCHANGED <<applied, minc, cp>>,
             \A k \in Node \ {n} : mk'[k] = mk[k] /\ metas'[k] = metas[k],
             \A q \in Queue : metas'[n][q] \subseteq metas[n][q],
             mk'[n].now <= applied[n] /\ mk'[n].cp < applied[n]
      PROVE  Bounds'
  <2>1. Len(log) <= Len(log')
    BY <1>0 DEF Grows
  <2>2. Bound(n)'
    BY <1>0, <1>6, <2>1 DEF NodeBound, ScanBound, TypeOK
  <2>3. \A k \in Node \ {n} : Bound(k)'
    BY <1>0, <1>6, BoundKept
  <2> QED
    BY <2>2, <2>3
<1>7. ASSUME NEW n \in Node, MakeCheckPoint(n) PROVE Bounds'
  <2>1. /\ \A k \in Node \ {n} : mk'[k] = mk[k]
        /\ mk'[n] = [IdleMk EXCEPT !.ph = "cursors", !.now = applied[n]]
    BY <1>0, <1>7 DEF MakeCheckPoint, TypeOK
  <2>2. mk'[n].now = applied[n] /\ mk'[n].cp = -1
    BY <2>1 DEF IdleMk, NoCursor
  <2>3. mk'[n].now <= applied[n] /\ mk'[n].cp < applied[n]
    BY <1>0, <2>2, NodeNumbers
  <2> QED
    BY <1>6, <1>7, <2>1, <2>3 DEF MakeCheckPoint
<1>8. ASSUME NEW n \in Node, ScanCursors(n) PROVE Bounds'
  <2>1. PICK m, u : mk' = [mk EXCEPT ![n] = [@ EXCEPT !.ph = "metas",
                                               !.min = m, !.update = u]]
    BY <1>8 DEF ScanCursors
  <2>2. /\ \A k \in Node \ {n} : mk'[k] = mk[k]
        /\ mk'[n].now = mk[n].now /\ mk'[n].cp = mk[n].cp
    BY <1>0, <2>1 DEF TypeOK, MkState
  <2> QED
    BY <1>0, <1>6, <1>8, <2>2 DEF ScanCursors, ScanBound
<1>9. ASSUME NEW n \in Node, ScanMetas(n) PROVE Bounds'
  <2> DEFINE q == mk[n].q
             left == CutMetas(n)
  <2>1. /\ q \in Queue /\ mk[n].now \in Nat /\ mk[n].cp \in Cursor
        /\ left \subseteq metas[n][q] /\ metas[n][q] \subseteq Nat
    <3>1. q \in Queue /\ mk[n].now \in Nat /\ mk[n].cp \in Cursor
      BY <1>0 DEF MkState
    <3>2. metas[n][q] \subseteq Nat
      BY <1>0, <3>1 DEF TypeOK
    <3>3. left \subseteq metas[n][q]
      BY DEF CutMetas
    <3> QED
      BY <3>1, <3>2, <3>3
  <2>2. /\ \A k \in Node \ {n} : mk'[k] = mk[k] /\ metas'[k] = metas[k]
        /\ \A p \in Queue : metas'[n][p] \subseteq metas[n][p]
    BY <1>0, <1>9, <2>1 DEF ScanMetas, TypeOK
  <2>3. ASSUME NEW c \in Cursor, c < applied[n], mk'[n] = NextQueue(n, c)
        PROVE  mk'[n].now <= applied[n] /\ mk'[n].cp < applied[n]
    <3>1. mk[n].now <= applied[n] /\ 0 <= applied[n] /\ applied[n] \in Nat
      BY <1>0, NodeNumbers DEF ScanBound
    <3>2. /\ mk'[n].now \in {0, mk[n].now}
          /\ mk'[n].cp \in {c, mk[n].now - 1}
      BY <2>3 DEF NextQueue, IdleMk
    <3> QED
      BY <2>1, <2>3, <3>1, <3>2
  <2>4. CASE left = {} /\ mk' = [mk EXCEPT ![n] = NextQueue(n, mk[n].cp)]
    <3>1. mk'[n] = NextQueue(n, mk[n].cp) /\ mk[n].cp < applied[n]
      BY <1>0, <2>4 DEF ScanBound, TypeOK
    <3> QED
      BY <1>6, <1>9, <2>1, <2>2, <2>3, <3>1 DEF ScanMetas
  <2>5. ASSUME NEW f \in left,
               mk' = [mk EXCEPT ![n] =
                        IF f = 0 THEN IdleMk
                        ELSE NextQueue(n, LowerCp(mk[n].cp, f))]
        PROVE  Bounds'
    <3>1. f \in Nat /\ f < applied[n]
      BY <1>0, <2>1 DEF NodeBound
    <3>2. CASE f = 0
      <4>1. mk'[n] = IdleMk
        BY <1>0, <2>5, <3>2 DEF TypeOK
      <4>2. mk'[n].now <= applied[n] /\ mk'[n].cp < applied[n]
        BY <1>0, <4>1, NodeNumbers DEF IdleMk
      <4> QED
        BY <1>6, <1>9, <2>2, <4>2 DEF ScanMetas
    <3>3. CASE f # 0
      <4> DEFINE c == LowerCp(mk[n].cp, f)
      <4>1. c \in {mk[n].cp, f - 1}
        BY DEF LowerCp
      <4>2. f - 1 \in Cursor /\ f - 1 < applied[n]
        BY <1>0, <3>1, <3>3, NodeNumbers DEF Cursor
      <4>3. c \in Cursor /\ c < applied[n]
        BY <1>0, <2>1, <4>1, <4>2 DEF ScanBound
      <4>4. mk'[n] = NextQueue(n, c)
        BY <1>0, <2>5, <3>3 DEF TypeOK
      <4> HIDE DEF c
      <4> QED
        BY <1>6, <1>9, <2>2, <2>3, <4>3, <4>4 DEF ScanMetas
    <3> QED
      BY <3>2, <3>3
  <2> QED
    BY <1>9, <2>4, <2>5 DEF ScanMetas
<1>10. ASSUME NEW n \in Node, DumpCheckPoint(n) PROVE Bounds'
  <2>1. mk[n].cp \in Int
    BY <1>0 DEF MkState, Cursor, NoCursor
  <2>2. /\ cp'[n] = IF mk[n].cp > cp[n] THEN mk[n].cp ELSE cp[n]
        /\ mk'[n] = IdleMk
        /\ \A k \in Node \ {n} : mk'[k] = mk[k] /\ cp'[k] = cp[k]
    BY <1>0, <1>10 DEF DumpCheckPoint, TypeOK
  <2>3. cp[n] <= cp'[n] /\ cp'[n] < applied[n] /\ minc[n] <= cp'[n] + 1
    BY <1>0, <2>1, <2>2, NodeNumbers DEF NodeBound, ScanBound
  <2>4. NodeBound(n)'
    BY <1>0, <1>10, <2>3 DEF NodeBound, DumpCheckPoint
  <2>5. ScanBound(n)'
    BY <1>0, <1>10, <2>2, NodeNumbers DEF ScanBound, DumpCheckPoint, IdleMk
  <2>6. \A k \in Node \ {n} : Bound(k)'
    BY <1>0, <1>10, <2>2, BoundKept DEF DumpCheckPoint
  <2> QED
    BY <2>4, <2>5, <2>6
<1>11. Bounds'
  <2> HIDE DEF Bounds
  <2> QED
    BY <1>1, <1>2, <1>3, <1>4, <1>5, <1>7, <1>8, <1>9, <1>10
       DEF Next, PaxosNext, NodeNext, WorkerNext, ConsumerNext, vars, PaxosAdd,
           SyncCursorID, SyncChosen, SyncLost, MasterChange, Get,
           GetCheckPoint, GetFromMetaQueue, GetFromPaxosLog, GetLoopEnd,
           UpdatePrevCursorID, UpdateNextCursorID, ChildRun, Consume, GetFails,
           ConsumerRestart
<1> QED
  BY <1>0, <1>11 DEF BoundInv, NodeBounds, ScanBounds

\* Checkpoints, indexes and the trimmed log keep their bounds whatever fails
\* and however many queues there are.
THEOREM Bounded == Spec => []BoundInv
<1>1. Init => BoundInv
  BY InitSafe DEF IInv, BoundInv, ScanSettled, ScanOK, ScanBounds
<1> QED
  BY <1>1, BoundStep, PTL DEF Spec

\* The checkpoint of a node never goes back, for any number of queues:
\* DumpCheckPoint dumps only larger ones, and a checkpoint taken from another
\* node lies past the node's own.
THEOREM CheckpointAdvances == Spec => CheckpointNeverRetreats
<1>1. ASSUME BoundInv, [Next]_vars PROVE [\A n \in Node : cp'[n] >= cp[n]]_cp
  <2>0. TypeOK
    BY <1>1 DEF BoundInv
  <2>1. ASSUME NEW n \in Node, DumpCheckPoint(n)
        PROVE  \A k \in Node : cp'[k] >= cp[k]
    <3>1. mk[n].cp \in Int
      BY <2>0 DEF TypeOK, MkState, Cursor, NoCursor
    <3>2. /\ cp'[n] = IF mk[n].cp > cp[n] THEN mk[n].cp ELSE cp[n]
          /\ \A k \in Node \ {n} : cp'[k] = cp[k]
      BY <2>0, <2>1 DEF DumpCheckPoint, TypeOK
    <3> QED
      BY <2>0, <3>1, <3>2, NodeNumbers
  <2>2. ASSUME NEW n \in Node, Restart(n) PROVE cp' = cp
    BY <2>0, <2>2 DEF Restart, StartFrom, TypeOK
  <2>3. ASSUME NEW n \in Node, NEW m \in Node, LoadCheckpointState(n, m)
        PROVE  \A k \in Node : cp'[k] >= cp[k]
    <3>1. cp'[n] = cp[m] /\ \A k \in Node \ {n} : cp'[k] = cp[k]
      BY <2>0, <2>3 DEF LoadCheckpointState, StartFrom, TypeOK
    <3>2. cp[m] >= cp[n]
      BY <1>1, <2>0, <2>3, NodeNumbers
         DEF LoadCheckpointState, BoundInv, NodeBounds, NodeBound
    <3> QED
      BY <2>0, <3>1, <3>2, NodeNumbers
  <2> QED
    BY <1>1, <2>1, <2>2, <2>3
       DEF Next, PaxosNext, NodeNext, WorkerNext, ConsumerNext, vars, PaxosAdd,
           SyncCursorID, SyncChosen, SyncLost, MasterChange, CleanPaxosLog,
           Execute, MakeCheckPoint, ScanCursors, ScanMetas, Get, GetCheckPoint,
           GetFromMetaQueue, GetFromPaxosLog, GetLoopEnd, UpdatePrevCursorID,
           UpdateNextCursorID, ChildRun, Consume, GetFails, ConsumerRestart
<1> QED
  BY <1>1, Bounded, PTL DEF Spec, CheckpointNeverRetreats

\* A SyncCursorID entry moves prev cursors only forward, however late it is
\* chosen and however often it is replayed; only a Get takes one back.  This
\* holds for any number of queues.
THEOREM SyncAdvances == Spec => SyncNeverRetreats
<1> DEFINE Quiet(n) == ~ \E w \in Worker : op[w].ph # "free" /\ op[w].node = n
           Fwd == \A n \in Node, g \in Group, q \in Queue :
                     Quiet(n) => prevc'[n][g][q] >= prevc[n][g][q]
<1>1. ASSUME TypeOK, [Next]_vars PROVE [Fwd]_prevc
  <2>0. \A n \in Node, g \in Group, q \in Queue : prevc[n][g][q] \in Int
    BY <1>1 DEF TypeOK, Cursors, Cursor, NoCursor
  <2>1. ASSUME NEW n \in Node, Execute(n) PROVE Fwd
    <3> SUFFICES ASSUME NEW k \in Node, NEW g \in Group, NEW q \in Queue
                 PROVE  prevc'[k][g][q] >= prevc[k][g][q]
      OBVIOUS
    <3> DEFINE v == log[applied[n] + 1].sync
    <3>1. CASE k = n
      <4>1. prevc'[n] = SyncTo(prevc[n], n, v)
        BY <1>1, <2>1 DEF Execute, TypeOK
      <4>2. log[applied[n] + 1] \in Entry
        BY <1>1, <2>1 DEF Execute, TypeOK
      <4>3. v[g][q] \in Int
        BY <4>2 DEF Entry, Cursors, Cursor, NoCursor
      <4>4. prevc'[n][g][q] = IF SyncMoves(n, v, g, q) THEN v[g][q]
                              ELSE prevc[n][g][q]
        BY <4>1 DEF SyncTo
      <4> QED
        BY <2>0, <3>1, <4>3, <4>4 DEF SyncMoves
    <3>2. CASE k # n
      BY <1>1, <2>0, <2>1, <3>2 DEF Execute, TypeOK
    <3> QED
      BY <3>1, <3>2
  <2>2. ASSUME NEW w \in Worker, UpdatePrevCursorID(w) PROVE Fwd
    <3> SUFFICES ASSUME NEW k \in Node, NEW g \in Group, NEW q \in Queue, Quiet(k)
                 PROVE  prevc'[k][g][q] >= prevc[k][g][q]
      OBVIOUS
    <3>1. op[w].ph # "free"
      BY <2>2 DEF UpdatePrevCursorID
    <3>2. op[w].node # k
      BY <3>1
    <3>3. prevc'[k] = prevc[k]
      BY <1>1, <2>2, <3>2 DEF UpdatePrevCursorID, TypeOK
    <3> QED
      BY <2>0, <3>3
  <2> HIDE DEF Fwd
  <2> QED
    BY <1>1, <2>1, <2>2
       DEF Next, PaxosNext, NodeNext, WorkerNext, ConsumerNext, vars, PaxosAdd,
           SyncCursorID, SyncChosen, SyncLost, MasterChange, CleanPaxosLog,
           Restart, LoadCheckpointState, MakeCheckPoint, ScanCursors, ScanMetas,
           DumpCheckPoint, Get, GetCheckPoint, GetFromMetaQueue,
           GetFromPaxosLog, GetLoopEnd, UpdateNextCursorID, ChildRun, Consume,
           GetFails, ConsumerRestart
<1> QED
  BY <1>1, TypeCorrect, PTL DEF Spec, SyncNeverRetreats

-----------------------------------------------------------------------------
(* The contract: Store implements AtLeastOnce.                             *)

\* What was addressed to a group before a step is so after it.
LEMMA AddressedMoved ==
    ASSUME Step,
           \A w \in Worker : op'[w].ph # "free" =>
              Addressed(op'[w].g, op'[w].q, op'[w].items),
           \A c \in Consumer : Addressed(GroupOf[c], cons'[c].q, cons'[c].items)
    PROVE  ItemsAddressed'
<1>1. ASSUME NEW g, NEW q, NEW S \in SUBSET Nat, Addressed(g, q, S)
      PROVE  \A i \in S : i < Len(log') /\ ItemFor(i, q, g)'
  <2> SUFFICES ASSUME NEW i \in S PROVE i < Len(log') /\ ItemFor(i, q, g)'
    OBVIOUS
  <2>1. i \in Nat /\ i < Len(log) /\ ItemFor(i, q, g)
    BY <1>1 DEF Addressed
  <2>2. i < Len(log')
    BY <2>1 DEF Step, Grows, IInv, TypeOK
  <2> QED
    BY <2>1, <2>2, ItemsStay DEF Step, IInv
<1>2. ASSUME NEW w \in Worker, op'[w].ph # "free"
      PROVE  Addressed(op[w].g, op[w].q, op[w].items)'
  <2>1. op'[w] \in ActiveOp
    BY <1>2 DEF Step, TypeOK, FreeOp
  <2>2. op'[w].items \in SUBSET Nat
    BY <2>1 DEF ActiveOp
  <2> QED
    BY <1>1, <1>2, <2>2 DEF Addressed
<1>3. ASSUME NEW c \in Consumer
      PROVE  Addressed(GroupOf[c], cons[c].q, cons[c].items)'
  <2>1. cons'[c] \in ConsumerState
    BY DEF Step, TypeOK
  <2>2. cons'[c].items \in SUBSET Nat
    BY <2>1 DEF ConsumerState
  <2> QED
    BY <1>1, <2>2 DEF Addressed
<1> QED
  BY <1>2, <1>3 DEF ItemsAddressed

\* An iteration of Get adds no item that is not addressed to the group.
LEMMA IterationAddressed ==
    ASSUME IInv, ItemsAddressed, NEW w \in Worker, op[w].ph # "free",
           NEW i \in Nat
    PROVE  LET o == GetItemsByCursorID(w, i) IN Addressed(o.g, o.q, o.items)
<1> DEFINE o == GetItemsByCursorID(w, i)
           read == {x \in {i} : x >= minc[op[w].node] /\
                                ItemFor(x, op[w].q, op[w].g)}
<1>1. op[w] \in ActiveOp /\ TypeOK
  BY OpActive DEF IInv
<1>2. op[w].node \in Node
  BY <1>1 DEF ActiveOp
<1>3. Addressed(op[w].g, op[w].q, op[w].items)
  BY DEF ItemsAddressed
<1>4. o.g = op[w].g /\ o.q = op[w].q
  BY <1>1 DEF GetItemsByCursorID, ActiveOp
<1>5. \/ o.items = op[w].items
      \/ ~(i >= applied[op[w].node]) /\ o.items = op[w].items \cup read
  BY <1>1 DEF GetItemsByCursorID, ActiveOp
<1>6. ~(i >= applied[op[w].node]) => i < Len(log)
  BY <1>1, <1>2, NodeNumbers DEF IInv, NodeBounds, NodeBound
<1> HIDE DEF o
<1>7. Addressed(op[w].g, op[w].q, o.items)
  BY <1>3, <1>5, <1>6 DEF Addressed
<1> QED
  BY <1>4, <1>7 DEF o

LEMMA AddressedStep ==
    ASSUME Step, ItemsAddressed, [Next]_vars PROVE ItemsAddressed'
<1> DEFINE Reads == \A w \in Worker : op'[w].ph # "free" =>
                        Addressed(op'[w].g, op'[w].q, op'[w].items)
           Handles == \A c \in Consumer :
                        Addressed(GroupOf[c], cons'[c].q, cons'[c].items)
<1>0. TypeOK
  BY DEF Step, IInv
<1>1. UNCHANGED op => Reads
  BY DEF ItemsAddressed
<1>2. UNCHANGED cons => Handles
  BY DEF ItemsAddressed
<1>3. ASSUME NEW n \in Node, NEW c, StartFrom(n, c) PROVE Reads
  BY <1>3 DEF StartFrom, ItemsAddressed, FreeOp
<1>4. ASSUME NEW w \in Worker, NEW o, op' = [op EXCEPT ![w] = o],
             o.ph # "free" => Addressed(o.g, o.q, o.items)
      PROVE  Reads
  BY <1>0, <1>4 DEF ItemsAddressed, TypeOK
<1>5. ASSUME NEW c \in Consumer, \A d \in Consumer \ {c} : cons'[d] = cons[d],
             Addressed(GroupOf[c], cons'[c].q, cons'[c].items)
      PROVE  Handles
  BY <1>5 DEF ItemsAddressed
<1>6. ASSUME NEW c \in Consumer, Abandon(c) PROVE Reads
  <2> SUFFICES ASSUME NEW w \in Worker, op'[w].ph # "free"
               PROVE  Addressed(op'[w].g, op'[w].q, op'[w].items)
    OBVIOUS
  <2>1. CASE op[w].ph # "free" /\ op[w].cli = c
    <3>1. op[w] \in ActiveOp /\ op'[w] = [op[w] EXCEPT !.cli = Nobody]
      BY <1>0, <1>6, <2>1, OpActive DEF Abandon
    <3>2. op'[w].g = op[w].g /\ op'[w].q = op[w].q /\ op'[w].items = op[w].items
      BY <3>1 DEF ActiveOp
    <3> QED
      BY <2>1, <3>2 DEF ItemsAddressed
  <2>2. CASE ~(op[w].ph # "free" /\ op[w].cli = c)
    <3>1. op'[w] = op[w]
      BY <1>6, <2>2 DEF Abandon
    <3> QED
      BY <3>1 DEF ItemsAddressed
  <2> QED
    BY <2>1, <2>2
<1>7. ASSUME NEW w \in Worker, WorkerNext(w) PROVE Reads /\ Handles
  <2>1. op[w].ph # "free" /\ op[w] \in ActiveOp
    BY <1>0, <1>7, OpActive
       DEF WorkerNext, GetCheckPoint, GetFromMetaQueue, GetFromPaxosLog,
           GetLoopEnd, UpdatePrevCursorID, UpdateNextCursorID
  <2>2. Addressed(op[w].g, op[w].q, op[w].items)
    BY <2>1 DEF ItemsAddressed
  <2>3. CASE GetFromMetaQueue(w)
    <3>1. PICK i \in metas[op[w].node][op[w].q] :
             op' = [op EXCEPT ![w] = GetItemsByCursorID(w, i)]
      BY <2>3 DEF GetFromMetaQueue
    <3>2. op[w].node \in Node /\ op[w].q \in Queue
      BY <2>1 DEF ActiveOp
    <3>3. i \in Nat
      BY <1>0, <3>1, <3>2 DEF TypeOK
    <3>4. Reads
      BY <1>4, <2>1, <3>1, <3>3, IterationAddressed DEF Step
    <3> QED
      BY <1>2, <2>3, <3>4 DEF GetFromMetaQueue
  <2>4. CASE GetFromPaxosLog(w)
    <3>1. PICK i : /\ i \in {op[w].min, op[w].next + 1}
                   /\ op' = [op EXCEPT ![w] = GetItemsByCursorID(w, i)]
      BY <2>4 DEF GetFromPaxosLog
    <3>2. op[w].min \in Nat /\ op[w].next + 1 \in Nat
      BY <2>1 DEF ActiveOp, Cursor, NoCursor
    <3>3. i \in Nat
      BY <3>1, <3>2
    <3>4. Reads
      BY <1>4, <2>1, <3>1, <3>3, IterationAddressed DEF Step
    <3> QED
      BY <1>2, <2>4, <3>4 DEF GetFromPaxosLog
  <2>5. CASE UpdateNextCursorID(w)
    <3>1. Reads
      BY <1>4, <2>5 DEF UpdateNextCursorID, FreeOp
    <3>2. CASE op[w].cli = Nobody
      BY <1>2, <2>5, <3>1, <3>2 DEF UpdateNextCursorID
    <3>3. CASE op[w].cli # Nobody
      <4> DEFINE c == op[w].cli
      <4>1. c \in Consumer
        BY <2>1, <3>3 DEF ActiveOp
      <4>2. cons[c].q = op[w].q /\ GroupOf[c] = op[w].g
        BY <2>1, <3>3 DEF Step, IInv, GetSettled, GetOK
      <4>3. /\ \A d \in Consumer \ {c} : cons'[d] = cons[d]
            /\ cons'[c] = [cons[c] EXCEPT !.ph = "work", !.next = op[w].next,
                                          !.items = op[w].items]
        BY <1>0, <2>5, <3>3, <4>1 DEF UpdateNextCursorID, TypeOK
      <4>4. cons[c] \in ConsumerState
        BY <1>0, <4>1 DEF TypeOK
      <4>5. cons'[c].q = op[w].q /\ cons'[c].items = op[w].items
        BY <4>2, <4>3, <4>4 DEF ConsumerState
      <4> HIDE DEF c
      <4> QED
        BY <1>5, <2>2, <3>1, <4>1, <4>2, <4>3, <4>5
    <3> QED
      BY <3>2, <3>3, <3>1
  <2>6. CASE GetCheckPoint(w) \/ GetLoopEnd(w) \/ UpdatePrevCursorID(w)
    <3>1. /\ op'[w].g = op[w].g /\ op'[w].q = op[w].q
          /\ op'[w].items = op[w].items
          /\ \A v \in Worker \ {w} : op'[v] = op[v]
      <4>1. CASE GetCheckPoint(w)
        <5>1. op'[w] = [op[w] EXCEPT !.ph = "loop", !.cp = cp[op[w].node],
                                     !.min = minc[op[w].node]]
              /\ \A v \in Worker \ {w} : op'[v] = op[v]
          BY <1>0, <4>1 DEF GetCheckPoint, TypeOK
        <5> QED
          BY <2>1, <5>1 DEF ActiveOp
      <4>2. CASE GetLoopEnd(w) \/ UpdatePrevCursorID(w)
        <5>1. PICK p : op' = [op EXCEPT ![w].ph = p]
          BY <4>2 DEF GetLoopEnd, UpdatePrevCursorID
        <5> QED
          BY <1>0, <2>1, <5>1 DEF TypeOK, ActiveOp
      <4> QED
        BY <2>6, <4>1, <4>2
    <3>2. Reads
      BY <2>2, <3>1 DEF ItemsAddressed
    <3> QED
      BY <1>2, <2>6, <3>2 DEF GetCheckPoint, GetLoopEnd, UpdatePrevCursorID
  <2> HIDE DEF Reads, Handles
  <2> QED
    BY <1>7, <2>3, <2>4, <2>5, <2>6 DEF WorkerNext
<1>8. ASSUME NEW c \in Consumer, ConsumerNext(c) PROVE Reads /\ Handles
  <2>0. cons[c] \in ConsumerState
    BY <1>0 DEF TypeOK
  <2>1. ASSUME NEW w \in Worker, NEW n \in Node, Get(c, w, n)
        PROVE  Reads /\ Handles
    <3>1. /\ \A v \in Worker \ {w} : op'[v] = op[v]
          /\ op'[w].items = {}
          /\ \A d \in Consumer \ {c} : cons'[d] = cons[d]
          /\ cons'[c].q = cons[c].q /\ cons'[c].items = cons[c].items
      BY <1>0, <2>0, <2>1 DEF Get, TypeOK, ConsumerState
    <3>2. Reads
      BY <3>1 DEF ItemsAddressed, Addressed
    <3>3. Handles
      BY <1>5, <3>1 DEF ItemsAddressed
    <3> QED
      BY <3>2, <3>3
  <2>2. ASSUME NEW q \in Queue, ChildRun(c, q) PROVE Reads /\ Handles
    <3>1. /\ \A d \in Consumer \ {c} : cons'[d] = cons[d]
          /\ cons'[c].items = {} /\ op' = op
      BY <1>0, <2>2 DEF ChildRun, IdleConsumer, TypeOK
    <3> QED
      BY <1>1, <1>5, <3>1 DEF Addressed
  <2>3. CASE Consume(c)
    <3>1. /\ \A d \in Consumer \ {c} : cons'[d] = cons[d]
          /\ cons'[c].items = {} /\ op' = op
      BY <1>0, <2>0, <2>3 DEF Consume, ConsumerState, TypeOK
    <3> QED
      BY <1>1, <1>5, <3>1 DEF Addressed
  <2>4. CASE GetFails(c)
    <3>1. /\ \A d \in Consumer \ {c} : cons'[d] = cons[d]
          /\ cons'[c].q = cons[c].q /\ cons'[c].items = cons[c].items
      BY <1>0, <2>0, <2>4 DEF GetFails, ConsumerState, TypeOK
    <3> QED
      BY <1>5, <1>6, <2>4, <3>1 DEF ItemsAddressed, GetFails
  <2>5. CASE ConsumerRestart(c)
    <3>1. /\ \A d \in Consumer \ {c} : cons'[d] = cons[d]
          /\ cons'[c].items = {}
      BY <1>0, <2>5 DEF ConsumerRestart, IdleConsumer, TypeOK
    <3> QED
      BY <1>5, <1>6, <2>5, <3>1 DEF Addressed, ConsumerRestart
  <2> HIDE DEF Reads, Handles
  <2> QED
    BY <1>8, <2>1, <2>2, <2>3, <2>4, <2>5 DEF ConsumerNext
<1>9. Reads /\ Handles
  <2> HIDE DEF Reads, Handles
  <2> QED
    BY <1>1, <1>2, <1>3, <1>7, <1>8
       DEF Next, PaxosNext, NodeNext, vars, PaxosAdd, SyncCursorID, SyncChosen,
           SyncLost, MasterChange, CleanPaxosLog, Execute, Restart,
           LoadCheckpointState, MakeCheckPoint, ScanCursors, ScanMetas,
           DumpCheckPoint
<1> QED
  BY <1>9, AddressedMoved

\* The state of the abstract queue.
Added == [k \in DOMAIN log |-> log[k].adds]
Acked == [g \in Group |-> [q \in Queue |-> AckedBy(g, q)]]
Gone == UNION {0 .. minc[n] - 1 : n \in Node}

LEMMA AddedFacts ==
    ASSUME TypeOK
    PROVE  /\ Added \in Seq(SUBSET Item) /\ Len(Added) = Len(log)
           /\ \A i \in 0 .. Len(log) - 1 : \A q, g :
                 Queues!For(i, q, g) <=> ItemFor(i, q, g)
           /\ Queues!Instance = 0 .. Len(log) - 1
<1>1. DOMAIN log = 1 .. Len(log) /\ Len(log) \in Nat
  BY DEF TypeOK
<1>2. \A k \in 1 .. Len(log) : log[k].adds \in SUBSET Item
  <2>1. \A k \in 1 .. Len(log) : log[k] \in Entry
    BY DEF TypeOK
  <2> QED
    BY <2>1 DEF Entry
<1>3. Added \in Seq(SUBSET Item) /\ Len(Added) = Len(log)
  BY <1>1, <1>2 DEF Added
<1>4. \A i \in 0 .. Len(log) - 1 : Added[i + 1] = log[i + 1].adds
  BY <1>1 DEF Added
<1> QED
  BY <1>3, <1>4 DEF Queues!For, Queues!Instance, ItemFor, Added

\* An instance that is appended to the log is appended to the items.
LEMMA AddedAppend ==
    ASSUME TypeOK, NEW e \in Entry, log' = Append(log, e)
    PROVE  Added' = Append(Added, e.adds)
<1>1. /\ DOMAIN log = 1 .. Len(log) /\ Len(log) \in Nat
      /\ DOMAIN log' = 1 .. Len(log) + 1
      /\ \A k \in 1 .. Len(log) : log'[k] = log[k]
      /\ log'[Len(log) + 1] = e
  BY DEF TypeOK
<1>2. Added \in Seq(SUBSET Item) /\ Len(Added) = Len(log)
  BY AddedFacts
<1>3. e.adds \in SUBSET Item
  BY DEF Entry
<1>4. Append(Added, e.adds) =
        [k \in 1 .. Len(log) + 1 |->
            IF k \in 1 .. Len(log) THEN Added[k] ELSE e.adds]
  BY <1>1, <1>2, <1>3
<1>5. \A k \in 1 .. Len(log) + 1 :
         log'[k].adds = IF k \in 1 .. Len(log) THEN Added[k] ELSE e.adds
  BY <1>1 DEF Added
<1> QED
  BY <1>1, <1>4, <1>5 DEF Added

\* After a step that neither adds nor delivers, what is acknowledged and what
\* is deleted was delivered.
LEMMA DeservedAfter ==
    ASSUME Step, IInv', UNCHANGED <<log, delivered>>,
           NEW q \in Queue, NEW g \in Subs[q]
    PROVE  /\ \A i \in Acked'[g][q] : Queues!Served(i, q, g)
           /\ \A i \in Gone' : Queues!Served(i, q, g)
<1>0. TypeOK /\ TypeOK' /\ g \in Group
  BY QueueFacts DEF Step, IInv
\* A settled cursor, after the step, was served up to before it.
<1>1. ASSUME NEW c \in Cursor, Settled(g, q, c)', NEW i \in 0 .. c
      PROVE  Queues!Served(i, q, g)
  <2>1. /\ c < Len(log) /\ c \in Int /\ Len(log) \in Nat
        /\ \A j \in 0 .. c : ItemFor(j, q, g) => j \in delivered[g][q]
    BY <1>0, <1>1 DEF Settled, Covered, ItemFor, Cursor, NoCursor, TypeOK
  <2>2. i \in 0 .. Len(log) - 1
    BY <2>1
  <2> QED
    BY <1>0, <2>1, <2>2, AddedFacts DEF Queues!Served
<1>2. ASSUME NEW i \in Acked'[g][q] PROVE Queues!Served(i, q, g)
  <2>1. PICK n \in Node : i \in 0 .. prevc'[n][g][q]
    BY <1>0, <1>2 DEF Acked, AckedBy
  <2>2. prevc'[n][g][q] \in Cursor
    BY <1>0 DEF TypeOK, Cursors
  <2>3. Settled(g, q, prevc[n][g][q])'
    BY DEF IInv, CursorsSettled
  <2> QED
    BY <1>1, <2>1, <2>2, <2>3
<1>3. ASSUME NEW i \in Gone' PROVE Queues!Served(i, q, g)
  <2>1. PICK n \in Node : i \in 0 .. minc'[n] - 1
    BY <1>3 DEF Gone
  <2>2. /\ cp'[n] \in Cursor /\ cp'[n] \in Int /\ minc'[n] \in Nat
        /\ minc'[n] <= cp'[n] + 1
    BY <1>0 DEF IInv, NodeBounds, NodeBound, TypeOK, Cursor, NoCursor
  <2>3. NQueue = 1
    BY <2>1, <2>2 DEF IInv, LogKept
  <2>4. Settled(g, q, cp[n])'
    BY <2>3 DEF IInv, CheckpointsSettled
  <2>5. i \in 0 .. cp'[n]
    BY <2>1, <2>2
  <2> QED
    BY <1>1, <2>2, <2>4, <2>5
<1> QED
  BY <1>2, <1>3

\* Every step is one of the contract, or one that nobody sees.
LEMMA ContractStep ==
    ASSUME Step, IInv', ItemsAddressed, [Next]_vars
    PROVE  [Queues!Next]_<<Added, delivered, Acked, Gone>>
<1> DEFINE Allowed == [Queues!Next]_<<Added, delivered, Acked, Gone>>
<1>0. TypeOK /\ NoCursors \in Cursors
  BY QueueFacts DEF Step, IInv, NoCursors, Cursors, Cursor
<1>1. /\ log' = log => Added' = Added
      /\ prevc' = prevc => Acked' = Acked
      /\ minc' = minc => Gone' = Gone
  BY DEF Added, Acked, AckedBy, Gone
<1>2. ASSUME UNCHANGED <<log, delivered, prevc, minc>> PROVE Allowed
  BY <1>1, <1>2
<1>3. ASSUME UNCHANGED <<log, delivered, minc>> PROVE Allowed
  <2>1. \A q \in Queue : \A g \in Subs[q] : \A i \in Acked'[g][q] :
           Queues!Served(i, q, g)
    BY <1>3, DeservedAfter
  <2>2. Queues!Acknowledge
    BY <1>1, <1>3, <2>1 DEF Queues!Acknowledge, Added, Acked, Gone
  <2> QED
    BY <2>2 DEF Queues!Next, Added, Acked, Gone
<1>4. ASSUME UNCHANGED <<log, delivered, prevc>>,
             \A n \in Node : minc[n] <= minc'[n]
      PROVE  Allowed
  <2>1. \A i \in Gone' : \A q \in Queue : \A g \in Subs[q] : Queues!Served(i, q, g)
    BY <1>4, DeservedAfter
  <2>2. Gone \subseteq Gone'
    <3> SUFFICES ASSUME NEW n \in Node, NEW i \in 0 .. minc[n] - 1
                 PROVE  i \in 0 .. minc'[n] - 1
      BY DEF Gone
    <3>1. minc[n] \in Nat /\ minc'[n] \in Nat
      BY DEF Step, IInv, TypeOK
    <3> QED
      BY <1>4, <3>1
  <2>3. Queues!Forget
    BY <1>1, <1>4, <2>1, <2>2 DEF Queues!Forget, Added, Acked, Gone
  <2> QED
    BY <2>3 DEF Queues!Next, Added, Acked, Gone
<1>5. ASSUME NEW e \in Entry, e.adds \in Batches \cup {{}},
             log' = Append(log, e), UNCHANGED <<delivered, prevc, minc>>
      PROVE  Allowed
  <2>1. Queues!Add(e.adds)
    BY <1>0, <1>1, <1>5, AddedAppend DEF Queues!Add, Added, Acked, Gone
  <2> QED
    BY <1>5, <2>1 DEF Queues!Next, Added, Acked, Gone
<1>6. ASSUME NEW b \in Batches, PaxosAdd(b) PROVE Allowed
  <2> DEFINE e == [adds |-> b, sync |-> NoCursors]
  <2>1. e \in Entry /\ e.adds = b
    BY <1>0, ConstantsAssumption DEF Entry
  <2>2. log' = Append(log, e) /\ UNCHANGED <<delivered, prevc, minc>>
    BY <1>6 DEF PaxosAdd
  <2> HIDE DEF e
  <2> QED
    BY <1>5, <2>1, <2>2
<1>7. ASSUME NEW v \in pend, SyncChosen(v) PROVE Allowed
  <2> DEFINE e == [adds |-> {}, sync |-> v]
  <2>1. e \in Entry /\ e.adds = {}
    BY <1>0 DEF Entry, TypeOK
  <2>2. log' = Append(log, e) /\ UNCHANGED <<delivered, prevc, minc>>
    BY <1>7 DEF SyncChosen
  <2> HIDE DEF e
  <2> QED
    BY <1>5, <2>1, <2>2
<1>8. ASSUME NEW n \in Node, NEW m \in 0 .. cp[n], CleanPaxosLog(n, m)
      PROVE  Allowed
  <2>1. \A k \in Node : minc[k] <= minc'[k]
    BY <1>0, <1>8, NodeNumbers DEF CleanPaxosLog, TypeOK
  <2> QED
    BY <1>4, <1>8, <2>1 DEF CleanPaxosLog
<1>9. ASSUME NEW n \in Node, NEW m \in Node, LoadCheckpointState(n, m)
      PROVE  Allowed
  <2>1. /\ minc' = [minc EXCEPT ![n] = cp[m] + 1]
        /\ applied[n] < minc[m] /\ minc[m] <= cp[m] + 1
        /\ minc[n] <= cp[n] + 1 /\ cp[n] < applied[n]
    BY <1>9 DEF LoadCheckpointState, Step, IInv, NodeBounds, NodeBound
  <2>2. \A k \in Node : minc[k] <= minc'[k]
    BY <1>0, <2>1, NodeNumbers DEF TypeOK
  <2> QED
    BY <1>4, <1>9, <2>2 DEF LoadCheckpointState
<1>10. ASSUME NEW c \in Consumer, Consume(c) PROVE Allowed
  <2> DEFINE g == GroupOf[c]
             q == cons[c].q
             S == cons[c].items
  <2>1. cons[c] \in ConsumerState /\ ConsumerOK(c) /\ cons[c].ph = "work"
    BY <1>0, <1>10 DEF Consume, Step, IInv, ConsumersSettled, TypeOK
  <2>2. q \in Queue /\ g \in Subs[q] /\ S \subseteq Nat /\ cons[c].next \in Cursor
    BY <2>1 DEF ConsumerOK, ConsumerState
  <2>3. \A i \in S : i < Len(log) /\ ItemFor(i, q, g) /\ i <= cons[c].next
    BY <2>1, <2>2 DEF ItemsAddressed, Addressed, ConsumerOK, NoCursor, Queue
  <2>4. Covered(g, q, cons[c].next, S)
    BY <2>1, <2>2 DEF ConsumerOK, NoCursor, Queue
  <2>5. S \subseteq 0 .. Len(log) - 1
    BY <1>0, <2>2, <2>3 DEF TypeOK
  <2>6. \A i \in S : Queues!For(i, q, g)
    BY <1>0, <2>3, <2>5, AddedFacts
  <2>7. ASSUME NEW i \in S, NEW j \in 0 .. i, Queues!For(j, q, g)
        PROVE  j \in delivered[g][q] \cup S
    <3>1. j \in 0 .. Len(log) - 1 /\ j \in 0 .. cons[c].next
      BY <1>0, <2>2, <2>3, <2>5, <2>7 DEF Cursor, NoCursor, TypeOK
    <3>2. ItemFor(j, q, g)
      BY <1>0, <2>7, <3>1, AddedFacts
    <3> QED
      BY <2>4, <3>1, <3>2 DEF Covered
  <2>8. UNCHANGED <<log, prevc, minc>> /\
        delivered' = [delivered EXCEPT ![g][q] = @ \cup S]
    BY <1>10 DEF Consume
  <2> HIDE DEF g, q, S
  <2>9. Queues!Deliver(g, q, S)
    BY <1>1, <2>6, <2>7, <2>8 DEF Queues!Deliver, Added, Acked, Gone
  <2>10. S \in SUBSET Queues!Instance
    BY <1>0, <2>5, AddedFacts
  <2> QED
    BY <2>2, <2>9, <2>10 DEF Queues!Next, Added, Acked, Gone
<1> HIDE DEF Allowed
<1>11. Allowed
  BY <1>2, <1>3, <1>6, <1>7, <1>8, <1>9, <1>10
     DEF Next, PaxosNext, NodeNext, WorkerNext, ConsumerNext, vars,
         SyncCursorID, SyncLost, MasterChange, Execute, Restart, StartFrom,
         MakeCheckPoint, ScanCursors, ScanMetas, DumpCheckPoint, Get,
         GetCheckPoint, GetFromMetaQueue, GetFromPaxosLog, GetLoopEnd,
         UpdatePrevCursorID, UpdateNextCursorID, ChildRun, GetFails,
         ConsumerRestart
<1> QED
  BY <1>11 DEF Allowed

LEMMA ContractInit == Init => ItemsAddressed /\ Queues!Init
<1> SUFFICES ASSUME Init PROVE ItemsAddressed /\ Queues!Init
  OBVIOUS
<1>1. ItemsAddressed
  BY DEF Init, ItemsAddressed, Addressed, FreeOp, IdleConsumer
<1>2. \A g \in Group, q \in Queue : AckedBy(g, q) = {}
  BY DEF Init, AckedBy, NoCursors, NoCursor
<1>3. Gone = {}
  BY DEF Init, Gone
<1>4. Added = <<>>
  BY DEF Init, Added
<1> QED
  BY <1>1, <1>2, <1>3, <1>4 DEF Init, Queues!Init, Gone, Added

\* The paxos group of one queue is an at-least-once queue (AtLeastOnce) to its
\* consumer groups, for any number of nodes, consumers, server threads and
\* groups, with restarts, checkpoint transfers and deleted paxos logs.
THEOREM ImplementsAtLeastOnce ==
    ASSUME NQueue = 1 PROVE Spec => DeliversAtLeastOnce
<1>1. IInv /\ IInv' /\ ItemsAddressed /\ [Next]_vars =>
         ItemsAddressed' /\ [Queues!Next]_<<Added, delivered, Acked, Gone>>
  BY StepContext, AddressedStep, ContractStep
<1> QED
  BY <1>1, ContractInit, Invariant, PTL
     DEF Spec, DeliversAtLeastOnce, Queues!Spec, Added, Acked, Gone

\* So is the paxos group of several queues, as long as nothing is deleted and
\* no node is restarted.
THEOREM ImplementsAtLeastOnceOfMany ==
    ASSUME ~Trimming
    PROVE  Spec /\ [][NoRestart]_vars => DeliversAtLeastOnce
<1>1. IInv /\ IInv' /\ ItemsAddressed /\ [Next]_vars =>
         ItemsAddressed' /\ [Queues!Next]_<<Added, delivered, Acked, Gone>>
  BY StepContext, AddressedStep, ContractStep
<1> QED
  BY <1>1, ContractInit, InvariantOfMany, PTL
     DEF Spec, DeliversAtLeastOnce, Queues!Spec, Added, Acked, Gone
=============================================================================
