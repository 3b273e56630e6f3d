----------------------------- MODULE LockProofs -----------------------------
(***************************************************************************)
(* Proofs about Lock.  With restarts, power cuts and checkpoint transfer:  *)
(* type correctness, the durability of the checkpoints, leveldb that       *)
(* follows memory, versions that never retreat.  Without restarts and      *)
(* releases: the replicas agree, and Lock implements LockTable.            *)
(***************************************************************************)
EXTENDS LockInvariant, TLAPS

-----------------------------------------------------------------------------
(* Typing.                                                                 *)

\* The values that stand for "nothing there" have their types.
LEMMA IdleTypes == /\ NoRecords \in Tables
                   /\ IdleWrite \in [ph : {"idle", "mem", "last", "write"},
                                     now : Nat, mem : Instance]
                   /\ IdleCall.ph = "idle"
                   /\ NoCheckpoint \in Instance
  BY DEF NoRecords, Tables, IdleWrite, Instance, NoCheckpoint, IdleCall

\* A call that is under way is a record of all its fields.
LEMMA CallActive ==
    ASSUME TypeOK, NEW c \in Client, call[c].ph # "idle"
    PROVE  call[c] \in ActiveCall
  BY DEF TypeOK, IdleCall

\* What is executed is an operation, unless it is blank.
LEMMA LogEntry ==
    ASSUME TypeOK, NEW i \in Nat, i < Len(log)
    PROVE  /\ log[i + 1] \in Op \cup {Blank}
           /\ log[i + 1].kind # "blank" => log[i + 1] \in Op
<1>1. log[i + 1] \in Op \cup {Blank}
  BY DEF TypeOK
<1> QED
  BY <1>1 DEF Blank

\* Executing an instance yields a table.
LEMMA AfterType ==
    ASSUME NEW t \in Tables, NEW op, NEW i \in Nat,
           op.kind # "blank" => op \in Op
    PROVE  After(t, op, i) \in Tables
<1>1. CASE Accepts(t, op)
  <2>1. op \in Op
    BY <1>1 DEF Accepts
  <2>2. op.key \in Key /\ [ver |-> i, who |-> op.who] \in Record
    BY <2>1 DEF Op, Record
  <2> QED
    BY <1>1, <2>2 DEF After, Tables
<1>2. CASE ~Accepts(t, op)
  BY <1>2 DEF After
<1> QED
  BY <1>1, <1>2

\* The operation of a request is an operation.
LEMMA OpOfType ==
    ASSUME NEW r, NEW k \in Key, NEW v \in Nat \cup {AnyVersion},
           NEW c \in Client
    PROVE  OpOf(r, k, v, c) \in Op
  BY DEF OpOf, Op

\* Clients know versions that are instances.
LEMMA VersionsType ==
    ASSUME TypeOK, NEW k PROVE Versions(k) \subseteq Nat
  BY DEF Versions, TypeOK

\* A call starts well typed.
LEMMA CallType ==
    ASSUME TypeOK, AnswersOK, NEW c \in Client, NEW n \in Node, NEW op \in Op,
           Call(c, n, op)
    PROVE  TypeOK' /\ AnswersOK'
<1>1. [ph |-> "wait", node |-> n, op |-> op, inst |-> NoCheckpoint,
       ok |-> FALSE] \in ActiveCall
  BY IdleTypes DEF ActiveCall
<1>2. [op |-> op, cli |-> c] \in [op : Op, cli : Client \cup {Nobody}]
  OBVIOUS
<1>3. pend' \in SUBSET [op : Op, cli : Client \cup {Nobody}]
  BY <1>2 DEF Call, Propose, TypeOK
<1>4. call' \in [Client -> ActiveCall \cup {IdleCall}]
  BY <1>1 DEF Call, TypeOK
<1>5. TypeOK'
  BY <1>3, <1>4 DEF Call, TypeOK, execVars, diskVars
<1>6. AnswersOK'
  BY DEF Call, AnswersOK, TypeOK
<1> QED
  BY <1>5, <1>6

\* A release leaves a table.
LEMMA DeleteType ==
    ASSUME TypeOK, NEW c \in Client, call[c] \in ActiveCall, DeleteLock(c)
    PROVE  map' \in [Node -> Tables]
  BY DEF DeleteLock, TypeOK, ActiveCall, Tables

\* A process starts well typed.
LEMMA StartType ==
    ASSUME TypeOK, AnswersOK, NEW n \in Node, NEW t \in Tables,
           NEW d \in Instance, NEW r \in Instance, StartFrom(n, t, d, r),
           minc' \in [Node -> Nat],
           synced' \in [Node -> [upto : Nat, table : Tables]]
    PROVE  TypeOK' /\ AnswersOK'
<1> DEFINE start == IF r > d THEN r ELSE d
<1>1. start \in Instance /\ start + 1 \in Nat
  BY DEF Instance, NoCheckpoint
<1>2. /\ disk' = [disk EXCEPT ![n] = start]
      /\ mem' = [mem EXCEPT ![n] = start]
      /\ last' = [last EXCEPT ![n] = start]
      /\ applied' = [applied EXCEPT ![n] = start + 1]
      /\ dbnext' = [dbnext EXCEPT ![n] = start + 1]
  BY DEF StartFrom
<1> HIDE DEF start
<1>3. /\ disk' \in [Node -> Instance] /\ mem' \in [Node -> Instance]
      /\ last' \in [Node -> Instance] /\ applied' \in [Node -> Nat]
      /\ dbnext' \in [Node -> Nat]
  BY <1>1, <1>2 DEF TypeOK
<1>4. /\ db' \in [Node -> Tables] /\ map' \in [Node -> Tables]
      /\ rst' \in [Node -> Instance] /\ master' \in Node \cup {Nobody}
      /\ wr' \in [Node -> [ph : {"idle", "mem", "last", "write"}, now : Nat,
                            mem : Instance]]
  BY IdleTypes DEF StartFrom, RecoverMap, TypeOK
<1>5. pend' \in SUBSET [op : Op, cli : Client \cup {Nobody}]
  <2>1. ASSUME NEW p \in pend, NEW c \in {p.cli, Nobody}
        PROVE  [p EXCEPT !.cli = c] \in [op : Op, cli : Client \cup {Nobody}]
    BY DEF TypeOK
  <2>2. \A q \in pend' : \E p \in pend : \E c \in {p.cli, Nobody} :
            q = [p EXCEPT !.cli = c]
    BY DEF StartFrom
  <2> QED
    BY <2>1, <2>2
<1>6. call' \in [Client -> ActiveCall \cup {IdleCall}]
  BY DEF StartFrom, TypeOK
<1>a. restarts' = restarts + 1 /\ UNCHANGED <<log, hist, granted, faults>>
  BY DEF StartFrom
<1>b. /\ log' \in Seq(Op \cup {Blank}) /\ hist' \in Seq(Tables)
      /\ granted' \in SUBSET [inst : Nat, op : Op]
      /\ faults' \in Nat /\ restarts' \in Nat
  BY <1>a DEF TypeOK
<1>7. TypeOK'
  BY <1>3, <1>4, <1>5, <1>6, <1>b, Zenon DEF TypeOK
<1>8. AnswersOK'
  BY IdleTypes DEF StartFrom, AnswersOK, TypeOK
<1> QED
  BY <1>7, <1>8

\* Every step keeps the state well typed.  The replayer must be known to read
\* instances that are chosen.
LEMMA TypeStep == DurableInv /\ [Next]_vars => TypeOK' /\ AnswersOK'
<1> SUFFICES ASSUME DurableInv, [Next]_vars PROVE TypeOK' /\ AnswersOK'
  OBVIOUS
<1>0. TypeOK /\ AnswersOK
  BY DEF DurableInv
<1> USE <1>0
<1>a. \A n \in Node : dbnext[n] <= applied[n] /\ applied[n] <= Len(log)
  BY DEF DurableInv, NodeOK, PositionsOK
<1>1. ASSUME NEW p \in pend, Chosen(p) PROVE TypeOK' /\ AnswersOK'
  <2>1. p.op \in Op /\ p.cli \in Client \cup {Nobody} /\ Len(log) \in Nat
    BY DEF TypeOK
  <2>2. ASSUME NEW c \in Client
        PROVE  /\ [call[c] EXCEPT !.inst = Len(log)] \in ActiveCall \cup {IdleCall}
               /\ [call[c] EXCEPT !.inst = Len(log)].ph = "done" =>
                     [call[c] EXCEPT !.inst = Len(log)].inst \in Nat
    <3>1. CASE call[c] \in ActiveCall
      BY <2>1, <3>1 DEF ActiveCall, Instance
    <3>2. CASE call[c] = IdleCall
      <4>1. [IdleCall EXCEPT !.inst = Len(log)] = IdleCall
        BY DEF IdleCall
      <4> QED
        BY <3>2, <4>1, IdleTypes
    <3> QED
      BY <3>1, <3>2 DEF TypeOK
  <2>3. call' \in [Client -> ActiveCall \cup {IdleCall}]
    BY <1>1, <2>1, <2>2 DEF Chosen, TypeOK
  <2>4. log' \in Seq(Op \cup {Blank})
    BY <1>1, <2>1 DEF Chosen, TypeOK
  <2>5. TypeOK'
    BY <1>1, <2>3, <2>4 DEF Chosen, TypeOK, execVars, diskVars
  <2>6. AnswersOK'
    BY <1>1, <2>1, <2>2 DEF Chosen, AnswersOK, TypeOK
  <2> QED
    BY <2>5, <2>6
<1>2. ASSUME NEW p \in pend, ProposalLost(p) PROVE TypeOK' /\ AnswersOK'
  BY <1>2 DEF ProposalLost, TypeOK, AnswersOK, execVars, diskVars
<1>3. ASSUME MasterLost PROVE TypeOK' /\ AnswersOK'
  BY <1>3 DEF MasterLost, Fault, TypeOK, AnswersOK, logVars, execVars, diskVars
<1>4. ASSUME NEW c \in Client, NEW n \in Node, NEW r \in Requests,
             NEW k \in Key, NEW v \in Versions(k), AcquireLock(c, n, r, k, v)
      PROVE  TypeOK' /\ AnswersOK'
  BY <1>4, VersionsType, OpOfType, CallType DEF AcquireLock
<1>5. ASSUME NEW c \in Client, NEW n \in Node, NEW r \in Requests,
             NEW k \in Key, NEW v \in Versions(k) \cup {AnyVersion},
             SetString(c, n, r, k, v)
      PROVE  TypeOK' /\ AnswersOK'
  BY <1>5, VersionsType, OpOfType, CallType DEF SetString
<1>6. ASSUME NEW c \in Client, Answer(c) PROVE TypeOK' /\ AnswersOK'
  <2>1. call[c] \in ActiveCall /\ call[c].inst \in Nat
    BY <1>6, CallActive DEF Answer, AnswersOK
  <2>2. [inst |-> call[c].inst, op |-> call[c].op] \in [inst : Nat, op : Op]
    BY <2>1 DEF ActiveCall
  <2>3. map' \in [Node -> Tables]
    BY <1>6, <2>1, DeleteType DEF Answer
  <2>4. granted' \in SUBSET [inst : Nat, op : Op]
    BY <1>6, <2>2 DEF Answer, TypeOK
  <2>5. /\ call' \in [Client -> ActiveCall \cup {IdleCall}]
        /\ AnswersOK'
    BY <1>6, IdleTypes DEF Answer, TypeOK, AnswersOK
  <2> QED
    BY <1>6, <2>3, <2>4, <2>5 DEF Answer, TypeOK, logVars, diskVars
<1>7. ASSUME NEW c \in Client, CallFails(c) PROVE TypeOK' /\ AnswersOK'
  <2>1. map' \in [Node -> Tables]
    BY <1>7, CallActive, DeleteType DEF CallFails
  <2>2. pend' \in SUBSET [op : Op, cli : Client \cup {Nobody}]
    <3>1. ASSUME NEW p \in pend, NEW d \in {p.cli, Nobody}
          PROVE  [p EXCEPT !.cli = d] \in [op : Op, cli : Client \cup {Nobody}]
      BY DEF TypeOK
    <3>2. \A q \in pend' : \E p \in pend : \E d \in {p.cli, Nobody} :
              q = [p EXCEPT !.cli = d]
      BY <1>7 DEF CallFails
    <3> QED
      BY <3>1, <3>2
  <2>3. /\ call' \in [Client -> ActiveCall \cup {IdleCall}]
        /\ AnswersOK'
    BY <1>7, IdleTypes DEF CallFails, TypeOK, AnswersOK
  <2>4. faults' = faults + 1
    BY <1>7 DEF CallFails, Fault
  <2>5. UNCHANGED <<diskVars, log, applied, last, hist, master, minc, wr,
                    granted, restarts>>
    BY <1>7 DEF CallFails
  <2> QED
    BY <2>1, <2>2, <2>3, <2>4, <2>5 DEF TypeOK, diskVars
<1>8. ASSUME NEW n \in Node, MasterElect(n) PROVE TypeOK' /\ AnswersOK'
  <2>1. log' \in Seq(Op \cup {Blank})
    BY <1>8 DEF MasterElect, TypeOK
  <2> QED
    BY <1>8, <2>1 DEF MasterElect, TypeOK, AnswersOK, execVars, diskVars
<1>9. ASSUME NEW n \in Node, NEW i \in 0 .. disk[n], CleanPaxosLog(n, i)
      PROVE  TypeOK' /\ AnswersOK'
  <2>1. i \in Nat
    BY DEF TypeOK, Instance, NoCheckpoint
  <2> QED
    BY <1>9, <2>1 DEF CleanPaxosLog, TypeOK, AnswersOK, logVars, execVars,
       diskVars
<1>10. ASSUME NEW n \in Node, NEW k \in Key, CleanRecord(n, k)
       PROVE  TypeOK' /\ AnswersOK'
  <2>1. map[n][k] \in Record
    BY <1>10 DEF CleanRecord, TypeOK, Tables
  <2> DEFINE free == [kind |-> "lock", key |-> k, ver |-> map[n][k].ver,
                      who |-> Cleaner, free |-> TRUE]
  <2>2. free \in Op
    BY <2>1 DEF Record, Op
  <2>a. pend' = pend \cup {[op |-> free, cli |-> Nobody]}
    BY <1>10 DEF CleanRecord, Propose
  <2> HIDE DEF free
  <2>3. pend' \in SUBSET [op : Op, cli : Client \cup {Nobody}]
    BY <2>2, <2>a DEF TypeOK
  <2> QED
    BY <1>10, <2>3 DEF CleanRecord, TypeOK, AnswersOK, execVars, diskVars
<1>11. ASSUME NEW n \in Node, Execute(n) PROVE TypeOK' /\ AnswersOK'
  <2> DEFINE i == applied[n]
             new == After(map[n], log[i + 1], i)
             ok == Accepts(map[n], log[i + 1])
  <2>1. i \in Nat /\ i < Len(log)
    BY <1>11 DEF Execute, TypeOK
  <2>2. new \in Tables
    BY <2>1, LogEntry, AfterType DEF TypeOK
  <2>3. ok \in BOOLEAN
    BY DEF Accepts, Fits
  <2>4. /\ map' = [map EXCEPT ![n] = new]
        /\ applied' = [applied EXCEPT ![n] = i + 1]
        /\ last' = IF log[i + 1].kind = "blank" THEN last
                   ELSE [last EXCEPT ![n] = i]
        /\ call' = Returns(n, i, ok)
        /\ hist' = IF Len(hist) = i + 1 THEN Append(hist, new) ELSE hist
        /\ UNCHANGED <<logVars, diskVars, master, minc, wr, granted, faults,
                       restarts>>
    BY <1>11 DEF Execute
  <2> HIDE DEF i, new, ok
  <2>5. /\ call' \in [Client -> ActiveCall \cup {IdleCall}]
        /\ AnswersOK'
    <3>1. ASSUME NEW c \in Client, call[c].ph = "wait", call[c].inst = i
          PROVE  LET r == [call[c] EXCEPT !.ph = "done", !.ok = ok] IN
                 r \in ActiveCall /\ r.inst \in Nat
      <4>1. call[c] \in ActiveCall
        BY <3>1, CallActive
      <4> QED
        BY <2>1, <2>3, <3>1, <4>1 DEF ActiveCall
    <3> QED
      BY <2>4, <3>1 DEF Returns, TypeOK, AnswersOK
  <2>a. i + 1 \in Nat /\ i \in Instance
    BY <2>1 DEF Instance
  <2>b. map' \in [Node -> Tables] /\ applied' \in [Node -> Nat]
    BY <2>2, <2>4, <2>a DEF TypeOK
  <2>c. last' \in [Node -> Instance]
    BY <2>4, <2>a DEF TypeOK
  <2>6. hist' \in Seq(Tables)
    BY <2>2, <2>4 DEF TypeOK
  <2> QED
    BY <2>4, <2>5, <2>6, <2>b, <2>c DEF TypeOK, logVars, diskVars
<1>12. ASSUME NEW n \in Node, NEW sync \in BOOLEAN,
              ExecuteForCheckpoint(n, sync)
       PROVE  TypeOK' /\ AnswersOK'
  <2> DEFINE i == dbnext[n]
             new == After(db[n], log[i + 1], i)
             ok == Accepts(db[n], log[i + 1])
  <2>1. i \in Nat /\ i < Len(log)
    BY <1>12, <1>a DEF ExecuteForCheckpoint, TypeOK
  <2>2. new \in Tables
    BY <2>1, LogEntry, AfterType DEF TypeOK
  <2>3. /\ db' = [db EXCEPT ![n] = new]
        /\ dbnext' = [dbnext EXCEPT ![n] = i + 1]
        /\ mem' = IF ok THEN [mem EXCEPT ![n] = i] ELSE mem
        /\ disk' = IF ok /\ sync THEN [disk EXCEPT ![n] = i] ELSE disk
        /\ synced' = IF ok /\ sync
                     THEN [synced EXCEPT ![n] = [upto |-> i + 1, table |-> new]]
                     ELSE synced
        /\ UNCHANGED <<logVars, execVars, rst, master, minc, wr, call, granted,
                       faults, restarts>>
    BY <1>12 DEF ExecuteForCheckpoint
  <2> HIDE DEF i, new, ok
  <2>a. i + 1 \in Nat /\ i \in Instance
    BY <2>1 DEF Instance
  <2>b. /\ db' \in [Node -> Tables] /\ dbnext' \in [Node -> Nat]
    BY <2>2, <2>3, <2>a DEF TypeOK
  <2>c. mem' \in [Node -> Instance] /\ disk' \in [Node -> Instance]
    BY <2>3, <2>a DEF TypeOK
  <2>4. synced' \in [Node -> [upto : Nat, table : Tables]]
    BY <2>2, <2>3, <2>a DEF TypeOK
  <2> QED
    BY <2>3, <2>4, <2>b, <2>c DEF TypeOK, AnswersOK, logVars, execVars
<1>13. ASSUME NEW n \in Node, ReadNowInstanceID(n) PROVE TypeOK' /\ AnswersOK'
  <2>1. wr' \in [Node -> [ph : {"idle", "mem", "last", "write"}, now : Nat,
                           mem : Instance]]
    BY <1>13, IdleTypes DEF ReadNowInstanceID, TypeOK
  <2> QED
    BY <1>13, <2>1 DEF ReadNowInstanceID, TypeOK, AnswersOK, logVars, execVars,
       diskVars
<1>14. ASSUME NEW n \in Node, ReadMemoryCheckpoint(n)
       PROVE  TypeOK' /\ AnswersOK'
  BY <1>14 DEF ReadMemoryCheckpoint, TypeOK, AnswersOK, logVars, execVars,
     diskVars
<1>15. ASSUME NEW n \in Node, ReadLastInstanceID(n) PROVE TypeOK' /\ AnswersOK'
  <2>1. wr' \in [Node -> [ph : {"idle", "mem", "last", "write"}, now : Nat,
                           mem : Instance]]
    BY <1>15, IdleTypes DEF ReadLastInstanceID, TypeOK
  <2> QED
    BY <1>15, <2>1 DEF ReadLastInstanceID, TypeOK, AnswersOK, logVars, execVars,
       diskVars
<1>16. ASSUME NEW n \in Node, WriteRestartCheckpoint(n)
       PROVE  TypeOK' /\ AnswersOK'
  <2>1. wr[n].now - 1 \in Instance
    BY DEF TypeOK, Instance, NoCheckpoint
  <2>2. /\ rst' \in [Node -> Instance]
        /\ synced' \in [Node -> [upto : Nat, table : Tables]]
        /\ wr' \in [Node -> [ph : {"idle", "mem", "last", "write"}, now : Nat,
                              mem : Instance]]
    BY <1>16, <2>1, IdleTypes DEF WriteRestartCheckpoint, TypeOK
  <2> QED
    BY <1>16, <2>2 DEF WriteRestartCheckpoint, TypeOK, AnswersOK, logVars,
       execVars
<1>17. ASSUME NEW n \in Node, NEW powercut \in BOOLEAN, Restart(n, powercut)
       PROVE  TypeOK' /\ AnswersOK'
  <2>1. (IF powercut THEN synced[n].table ELSE db[n]) \in Tables
    BY DEF TypeOK
  <2> QED
    BY <1>17, <2>1, StartType DEF Restart, TypeOK
<1>18. ASSUME NEW n \in Node, NEW m \in Node, LoadCheckpointState(n, m)
       PROVE  TypeOK' /\ AnswersOK'
  <2>1. disk'[n] + 1 \in Nat
    <3>1. disk' = [disk EXCEPT ![n] = IF rst[m] > disk[m] THEN rst[m]
                                      ELSE disk[m]]
      BY <1>18 DEF LoadCheckpointState, StartFrom
    <3>2. /\ disk[m] \in Instance /\ rst[m] \in Instance
          /\ disk \in [Node -> Instance]
      BY DEF TypeOK
    <3> QED
      BY <3>1, <3>2 DEF Instance, NoCheckpoint
  <2>2. /\ minc' \in [Node -> Nat]
        /\ synced' \in [Node -> [upto : Nat, table : Tables]]
    BY <1>18, <2>1 DEF LoadCheckpointState, TypeOK
  <2>3. db[m] \in Tables /\ disk[m] \in Instance /\ rst[m] \in Instance
    BY DEF TypeOK
  <2> QED
    BY <1>18, <2>2, <2>3, StartType DEF LoadCheckpointState
<1>19. CASE UNCHANGED vars
  BY <1>19 DEF vars, TypeOK, AnswersOK
<1> QED
  BY <1>1, <1>2, <1>3, <1>4, <1>5, <1>6, <1>7, <1>8, <1>9, <1>10, <1>11,
     <1>12, <1>13, <1>14, <1>15, <1>16, <1>17, <1>18, <1>19
     DEF Next, ClientNext, NodeNext

-----------------------------------------------------------------------------
(* Checkpoints.                                                            *)

\* Covering less, or reaching further, is easier.
LEMMA BeforeWeaken ==
    ASSUME NEW l, NEW c \in Int, NEW d \in Int, NEW x \in Int, NEW y \in Int,
           Before(l, c, x), d <= c, x <= y
    PROVE  Before(l, d, y)
  BY DEF Before

\* A position lies behind all instances before it.
LEMMA BeforeSelf ==
    ASSUME NEW l, NEW c \in Int, NEW x \in Int, c < x PROVE Before(l, c, x)
  BY DEF Before

\* What is appended to the log lies behind every position in it.
LEMMA BeforeAppend ==
    ASSUME NEW S, NEW l \in Seq(S), NEW v \in S, NEW c \in Int, NEW x \in Int,
           Before(l, c, x), c < Len(l)
    PROVE  Before(Append(l, v), c, x)
  BY DEF Before

\* The positions of a node, as numbers.
LEMMA NodeNumbers ==
    ASSUME TypeOK, NEW n \in Node
    PROVE  /\ applied[n] \in Nat /\ dbnext[n] \in Nat /\ synced[n].upto \in Nat
           /\ last[n] \in Int /\ last[n] >= -1 /\ mem[n] \in Int /\ mem[n] >= -1
           /\ disk[n] \in Int /\ disk[n] >= -1 /\ rst[n] \in Int /\ rst[n] >= -1
           /\ wr[n].now \in Nat /\ wr[n].mem \in Int /\ wr[n].mem >= -1
           /\ Len(log) \in Nat
<1>1. /\ last[n] \in Instance /\ mem[n] \in Instance /\ disk[n] \in Instance
      /\ rst[n] \in Instance /\ wr[n].mem \in Instance /\ wr[n].now \in Nat
      /\ applied[n] \in Nat /\ dbnext[n] \in Nat /\ synced[n].upto \in Nat
      /\ Len(log) \in Nat
  BY DEF TypeOK
<1> QED
  BY <1>1 DEF Instance, NoCheckpoint

\* A step that leaves the positions alone leaves a node in order.
LEMMA SameNode ==
    ASSUME NEW n \in Node, NodeOK(n), log' = log,
           applied'[n] = applied[n], dbnext'[n] = dbnext[n],
           synced'[n] = synced[n], last'[n] = last[n], mem'[n] = mem[n],
           disk'[n] = disk[n], rst'[n] = rst[n], wr'[n] = wr[n]
    PROVE  NodeOK(n)'
  BY DEF NodeOK, PositionsOK, LastOK, CheckpointsOK, WriteOK

\* So does a step that only lengthens the log.
LEMMA LongerLog ==
    ASSUME TypeOK, NEW n \in Node, NodeOK(n), NEW v \in Op \cup {Blank},
           log' = Append(log, v),
           UNCHANGED <<applied, dbnext, synced, last, mem, disk, rst, wr>>
    PROVE  NodeOK(n)'
<1>1. Len(log') = Len(log) + 1 /\ log \in Seq(Op \cup {Blank})
  BY DEF TypeOK
<1>a. \A c \in Int, x \in Int :
        c < Len(log) /\ Before(log, c, x) => Before(log', c, x)
  BY <1>1, BeforeAppend
<1>2. PositionsOK(n)'
  BY <1>1, NodeNumbers DEF NodeOK, PositionsOK
<1>3. LastOK(n)'
  BY <1>a, NodeNumbers DEF NodeOK, PositionsOK, LastOK
<1>4. CheckpointsOK(n)'
  <2>1. disk[n] < Len(log) /\ rst[n] < Len(log)
    BY NodeNumbers DEF NodeOK, PositionsOK
  <2> QED
    BY <1>a, <2>1, NodeNumbers DEF NodeOK, CheckpointsOK
<1>5. WriteOK(n)'
  <2>1. wr[n].now - 1 < Len(log)
    BY NodeNumbers DEF NodeOK, PositionsOK, WriteOK
  <2> QED
    BY <1>a, <2>1, NodeNumbers DEF NodeOK, WriteOK
<1> QED
  BY <1>2, <1>3, <1>4, <1>5 DEF NodeOK

\* A process that starts from checkpoints which cover only operations before
\* durable position u is in order.
LEMMA StartNode ==
    ASSUME TypeOK, NEW n \in Node, NEW t, NEW d \in Instance,
           NEW r \in Instance, StartFrom(n, t, d, r), NEW u \in Nat,
           d < Len(log), r < Len(log), Before(log, d, u), Before(log, r, u),
           synced'[n].upto = u
    PROVE  NodeOK(n)'
<1> DEFINE start == IF r > d THEN r ELSE d
<1>1. /\ start \in Int /\ start >= -1 /\ start < Len(log) /\ d <= start
      /\ r <= start /\ Before(log, start, u) /\ d \in Int /\ r \in Int
  BY DEF Instance, NoCheckpoint
<1>2. /\ disk'[n] = start /\ rst'[n] = r /\ mem'[n] = start /\ last'[n] = start
      /\ applied'[n] = start + 1 /\ dbnext'[n] = start + 1
      /\ wr'[n] = IdleWrite /\ log' = log
  BY DEF StartFrom, TypeOK
<1> HIDE DEF start
<1>a. Len(log) \in Nat
  BY DEF TypeOK
<1>3. PositionsOK(n)'
  BY <1>1, <1>2, <1>a DEF PositionsOK
<1>4. LastOK(n)'
  BY <1>1, <1>2, BeforeSelf DEF LastOK
<1>5. CheckpointsOK(n)'
  BY <1>1, <1>2, BeforeSelf DEF CheckpointsOK
<1>6. WriteOK(n)'
  BY <1>1, <1>2 DEF WriteOK, IdleWrite, NoCheckpoint
<1> QED
  BY <1>3, <1>4, <1>5, <1>6 DEF NodeOK

\* Every step keeps the nodes in order.
LEMMA NodeStep == DurableInv /\ [Next]_vars => \A m \in Node : NodeOK(m)'
<1> SUFFICES ASSUME DurableInv, [Next]_vars, NEW m \in Node PROVE NodeOK(m)'
  OBVIOUS
<1>a. TypeOK /\ NodeOK(m)
  BY DEF DurableInv
<1>b. Len(log) \in Nat
  BY <1>a DEF TypeOK
<1>1. ASSUME NEW p \in pend, Chosen(p) PROVE NodeOK(m)'
  <2>1. p.op \in Op
    BY <1>a DEF TypeOK
  <2> QED
    BY <1>1, <1>a, <2>1, LongerLog DEF Chosen, execVars, diskVars
<1>2. ASSUME NEW n \in Node, MasterElect(n) PROVE NodeOK(m)'
  BY <1>2, <1>a, LongerLog DEF MasterElect, execVars, diskVars
<1>3. ASSUME UNCHANGED <<log, applied, dbnext, synced, last, mem, disk, rst, wr>>
      PROVE  NodeOK(m)'
  BY <1>3, <1>a, SameNode
<1>4. ASSUME NEW n \in Node, Execute(n) PROVE NodeOK(m)'
  <2> DEFINE i == applied[n]
  <2>1. /\ i < Len(log)
        /\ last' = IF log[i + 1].kind = "blank" THEN last
                   ELSE [last EXCEPT ![n] = i]
        /\ applied' = [applied EXCEPT ![n] = i + 1]
        /\ UNCHANGED <<log, dbnext, synced, mem, disk, rst, wr>>
    BY <1>4 DEF Execute, logVars, diskVars
  <2>2. CASE m # n
    <3>1. applied'[m] = applied[m] /\ last'[m] = last[m]
      BY <1>a, <2>1, <2>2 DEF TypeOK
    <3> QED
      BY <1>a, <2>1, <3>1, SameNode
  <2>3. CASE m = n
    <3>1. /\ applied'[m] = applied[m] + 1
          /\ last'[m] = IF log[applied[m] + 1].kind = "blank" THEN last[m]
                        ELSE applied[m]
      BY <1>a, <2>1, <2>3 DEF TypeOK
    <3>2. PositionsOK(m)'
      BY <1>a, <1>b, <2>1, <2>3, <3>1, NodeNumbers DEF NodeOK, PositionsOK
    <3>3. LastOK(m)'
      BY <1>a, <2>1, <2>3, <3>1, NodeNumbers DEF NodeOK, LastOK, Before
    <3>4. CheckpointsOK(m)'
      BY <1>a, <2>1 DEF NodeOK, CheckpointsOK
    <3>5. WriteOK(m)'
      BY <1>a, <2>1, <3>1, NodeNumbers DEF NodeOK, WriteOK
    <3> QED
      BY <3>2, <3>3, <3>4, <3>5 DEF NodeOK
  <2> QED
    BY <2>2, <2>3
<1>5. ASSUME NEW n \in Node, NEW sync \in BOOLEAN,
             ExecuteForCheckpoint(n, sync)
      PROVE  NodeOK(m)'
  <2> DEFINE i == dbnext[n]
             ok == Accepts(db[n], log[i + 1])
             new == After(db[n], log[i + 1], i)
  <2>1. /\ i < applied[n]
        /\ dbnext' = [dbnext EXCEPT ![n] = i + 1]
        /\ mem' = IF ok THEN [mem EXCEPT ![n] = i] ELSE mem
        /\ disk' = IF ok /\ sync THEN [disk EXCEPT ![n] = i] ELSE disk
        /\ synced' = IF ok /\ sync
                     THEN [synced EXCEPT ![n] = [upto |-> i + 1, table |-> new]]
                     ELSE synced
        /\ UNCHANGED <<log, applied, last, rst, wr>>
    BY <1>5 DEF ExecuteForCheckpoint, logVars, execVars
  <2> HIDE DEF ok, new
  <2>2. CASE m # n
    <3>1. /\ dbnext'[m] = dbnext[m] /\ mem'[m] = mem[m] /\ disk'[m] = disk[m]
          /\ synced'[m] = synced[m]
      BY <1>a, <2>1, <2>2 DEF TypeOK
    <3> QED
      BY <1>a, <2>1, <3>1, SameNode
  <2>3. CASE m = n
    <3>1. /\ dbnext[m] < applied[m] /\ dbnext'[m] = dbnext[m] + 1
          /\ mem'[m] \in {mem[m], dbnext[m]}
          /\ \/ disk'[m] = disk[m] /\ synced'[m] = synced[m]
             \/ disk'[m] = dbnext[m] /\ synced'[m].upto = dbnext[m] + 1
      BY <1>a, <2>1, <2>3 DEF TypeOK
    <3>2. PositionsOK(m)'
      BY <1>a, <2>1, <3>1, NodeNumbers DEF NodeOK, PositionsOK
    <3>3. LastOK(m)'
      BY <1>a, <2>1 DEF NodeOK, LastOK
    <3>4. CheckpointsOK(m)'
      <4>1. /\ Before(log, disk[m], dbnext[m] + 1)
            /\ Before(log, rst[m], dbnext[m] + 1)
            /\ Before(log, dbnext[m], dbnext[m] + 1)
        BY <1>a, NodeNumbers, BeforeWeaken, BeforeSelf
           DEF NodeOK, CheckpointsOK
      <4> QED
        BY <1>a, <2>1, <3>1, <4>1 DEF NodeOK, CheckpointsOK
    <3>5. WriteOK(m)'
      <4>1. wr[m].ph = "write" => Before(log, wr[m].now - 1, dbnext[m] + 1)
        BY <1>a, NodeNumbers, BeforeWeaken DEF NodeOK, WriteOK
      <4> QED
        BY <1>a, <2>1, <3>1, <4>1, NodeNumbers DEF NodeOK, WriteOK
    <3> QED
      BY <3>2, <3>3, <3>4, <3>5 DEF NodeOK
  <2> QED
    BY <2>2, <2>3
<1>6. ASSUME NEW n \in Node, ReadNowInstanceID(n) PROVE NodeOK(m)'
  <2>1. UNCHANGED <<log, applied, dbnext, synced, last, mem, disk, rst>>
    BY <1>6 DEF ReadNowInstanceID, logVars, execVars, diskVars
  <2>2. \/ wr'[m] = wr[m]
        \/ /\ wr'[m].ph = "mem"
           /\ wr'[m].now = applied[m] /\ wr'[m].mem = -1
    BY <1>6, <1>a DEF ReadNowInstanceID, TypeOK, IdleWrite, NoCheckpoint
  <2>3. WriteOK(m)'
    BY <1>a, <2>1, <2>2, NodeNumbers DEF NodeOK, WriteOK
  <2> QED
    BY <1>a, <2>1, <2>3 DEF NodeOK, PositionsOK, LastOK, CheckpointsOK
<1>7. ASSUME NEW n \in Node, ReadMemoryCheckpoint(n) PROVE NodeOK(m)'
  <2>1. UNCHANGED <<log, applied, dbnext, synced, last, mem, disk, rst>>
    BY <1>7 DEF ReadMemoryCheckpoint, logVars, execVars, diskVars
  <2>2. \/ wr'[m] = wr[m]
        \/ /\ wr'[m].ph = "last"
           /\ wr'[m].now = wr[m].now /\ wr'[m].mem = mem[m]
    BY <1>7, <1>a DEF ReadMemoryCheckpoint, TypeOK
  <2>3. WriteOK(m)'
    BY <1>a, <2>1, <2>2, NodeNumbers DEF NodeOK, WriteOK, PositionsOK
  <2> QED
    BY <1>a, <2>1, <2>3 DEF NodeOK, PositionsOK, LastOK, CheckpointsOK
<1>8. ASSUME NEW n \in Node, ReadLastInstanceID(n) PROVE NodeOK(m)'
  <2>1. UNCHANGED <<log, applied, dbnext, synced, last, mem, disk, rst>>
    BY <1>8 DEF ReadLastInstanceID, logVars, execVars, diskVars
  <2>2. \/ wr'[m] = wr[m]
        \/ wr'[m] = IdleWrite
        \/ /\ last[m] = wr[m].mem
           /\ wr'[m].now = wr[m].now /\ wr'[m].mem = wr[m].mem
    BY <1>8, <1>a DEF ReadLastInstanceID, TypeOK
  <2>3. WriteOK(m)'
    <3>1. CASE wr'[m] = wr[m]
      BY <1>a, <2>1, <3>1 DEF NodeOK, WriteOK
    <3>2. CASE wr'[m] = IdleWrite
      BY <1>a, <2>1, <3>2, NodeNumbers DEF WriteOK, IdleWrite, NoCheckpoint
    <3>3. CASE /\ last[m] = wr[m].mem
               /\ wr'[m].now = wr[m].now /\ wr'[m].mem = wr[m].mem
      <4>1. wr[m].now <= applied[m] /\ wr[m].mem < dbnext[m]
        BY <1>a DEF NodeOK, WriteOK
      <4>2. Before(log, wr[m].now - 1, dbnext[m])
        BY <1>a, <3>3, <4>1, NodeNumbers, BeforeWeaken DEF NodeOK, LastOK
      <4> QED
        BY <2>1, <3>3, <4>1, <4>2 DEF WriteOK
    <3> QED
      BY <2>2, <3>1, <3>2, <3>3
  <2> QED
    BY <1>a, <2>1, <2>3 DEF NodeOK, PositionsOK, LastOK, CheckpointsOK
<1>9. ASSUME NEW n \in Node, WriteRestartCheckpoint(n) PROVE NodeOK(m)'
  <2>1. /\ UNCHANGED <<log, applied, dbnext, last, mem, disk>>
        /\ wr[n].ph = "write"
    BY <1>9 DEF WriteRestartCheckpoint, logVars, execVars
  <2>2. CASE m # n
    <3>1. synced'[m] = synced[m] /\ rst'[m] = rst[m] /\ wr'[m] = wr[m]
      BY <1>9, <1>a, <2>2 DEF WriteRestartCheckpoint, TypeOK
    <3> QED
      BY <1>a, <2>1, <3>1, SameNode
  <2>3. CASE m = n
    <3>1. /\ synced'[m].upto = dbnext[m] /\ rst'[m] = wr[m].now - 1
          /\ wr'[m] = IdleWrite
      BY <1>9, <1>a, <2>3 DEF WriteRestartCheckpoint, TypeOK
    <3>2. wr[m].now <= applied[m] /\ Before(log, wr[m].now - 1, dbnext[m])
      BY <1>a, <2>1, <2>3 DEF NodeOK, WriteOK
    <3>3. PositionsOK(m)'
      BY <1>a, <2>1, <3>1, <3>2, NodeNumbers DEF NodeOK, PositionsOK
    <3>4. CheckpointsOK(m)'
      BY <1>a, <2>1, <3>1, <3>2 DEF NodeOK, CheckpointsOK
    <3>5. WriteOK(m)'
      BY <1>a, <2>1, <3>1, NodeNumbers DEF WriteOK, IdleWrite, NoCheckpoint
    <3>6. LastOK(m)'
      BY <1>a, <2>1 DEF NodeOK, LastOK
    <3> QED
      BY <3>3, <3>4, <3>5, <3>6 DEF NodeOK
  <2> QED
    BY <2>2, <2>3
<1>10. ASSUME NEW n \in Node, NEW t, NEW d, NEW r, StartFrom(n, t, d, r), m # n,
              synced'[m] = synced[m]
       PROVE  NodeOK(m)'
  <2>1. /\ log' = log /\ applied'[m] = applied[m] /\ dbnext'[m] = dbnext[m]
        /\ last'[m] = last[m] /\ mem'[m] = mem[m] /\ disk'[m] = disk[m]
        /\ rst'[m] = rst[m] /\ wr'[m] = wr[m]
    BY <1>10, <1>a DEF StartFrom, TypeOK
  <2> QED
    BY <1>10, <1>a, <2>1, SameNode
<1>c. ASSUME NEW k \in Node
      PROVE  /\ disk[k] \in Instance /\ rst[k] \in Instance
             /\ disk[k] < Len(log) /\ rst[k] < Len(log)
             /\ Before(log, disk[k], dbnext[k]) /\ dbnext[k] \in Nat
             /\ Before(log, rst[k], dbnext[k])
             /\ Before(log, disk[k], synced[k].upto) /\ synced[k].upto \in Nat
             /\ Before(log, rst[k], synced[k].upto)
  <2>1. NodeOK(k) /\ disk[k] \in Instance /\ rst[k] \in Instance
    BY DEF DurableInv, TypeOK
  <2> QED
    BY <1>a, <2>1, NodeNumbers DEF NodeOK, PositionsOK, CheckpointsOK
<1>11. ASSUME NEW n \in Node, NEW powercut \in BOOLEAN, Restart(n, powercut)
       PROVE  NodeOK(m)'
  <2>1. CASE m # n
    BY <1>11, <2>1, <1>10 DEF Restart
  <2>2. CASE m = n
    BY <1>11, <2>2, <1>a, <1>c, StartNode DEF Restart
  <2> QED
    BY <2>1, <2>2
<1>12. ASSUME NEW n \in Node, NEW k \in Node, LoadCheckpointState(n, k)
       PROVE  NodeOK(m)'
  <2>1. CASE m # n
    <3>1. synced'[m] = synced[m]
      BY <1>12, <2>1, <1>a DEF LoadCheckpointState, TypeOK
    <3> QED
      BY <1>12, <2>1, <3>1, <1>10 DEF LoadCheckpointState
  <2>2. CASE m = n
    <3>1. synced'[m].upto = dbnext[k]
      BY <1>12, <2>2, <1>a DEF LoadCheckpointState, TypeOK
    <3> QED
      BY <1>12, <2>2, <3>1, <1>a, <1>c, StartNode DEF LoadCheckpointState
  <2> QED
    BY <2>1, <2>2
<1>13. ASSUME NEW c \in Client, ClientNext(c) PROVE NodeOK(m)'
  <2>1. ASSUME NEW n, NEW r, NEW k, NEW v, AcquireLock(c, n, r, k, v)
        PROVE  NodeOK(m)'
    BY <2>1, <1>3 DEF AcquireLock, Call, execVars, diskVars
  <2>2. ASSUME NEW n, NEW r, NEW k, NEW v, SetString(c, n, r, k, v)
        PROVE  NodeOK(m)'
    BY <2>2, <1>3 DEF SetString, Call, execVars, diskVars
  <2>3. CASE Answer(c)
    BY <2>3, <1>3 DEF Answer, logVars, diskVars
  <2>4. CASE CallFails(c)
    BY <2>4, <1>3 DEF CallFails, diskVars
  <2> QED
    BY <1>13, <2>1, <2>2, <2>3, <2>4 DEF ClientNext
<1>14. ASSUME NEW p \in pend, ProposalLost(p) PROVE NodeOK(m)'
  BY <1>14, <1>3 DEF ProposalLost, execVars, diskVars
<1>15. CASE MasterLost
  BY <1>15, <1>3 DEF MasterLost, logVars, execVars, diskVars
<1>16. ASSUME NEW n \in Node, NEW i, CleanPaxosLog(n, i) PROVE NodeOK(m)'
  BY <1>16, <1>3 DEF CleanPaxosLog, logVars, execVars, diskVars
<1>17. ASSUME NEW n \in Node, NEW k, CleanRecord(n, k) PROVE NodeOK(m)'
  BY <1>17, <1>3 DEF CleanRecord, execVars, diskVars
<1>18. CASE UNCHANGED vars
  BY <1>18, <1>3 DEF vars
<1> QED
  BY <1>1, <1>2, <1>4, <1>5, <1>6, <1>7, <1>8, <1>9, <1>11, <1>12, <1>13,
     <1>14, <1>15, <1>16, <1>17, <1>18 DEF Next, NodeNext

LEMMA InvariantStarts == Init => DurableInv
<1> SUFFICES ASSUME Init PROVE DurableInv
  OBVIOUS
<1>1. TypeOK
  BY IdleTypes DEF Init, TypeOK
<1>2. AnswersOK
  BY IdleTypes DEF Init, AnswersOK
<1>3. ASSUME NEW n \in Node PROVE NodeOK(n)
  <2>1. /\ applied[n] = 0 /\ dbnext[n] = 0 /\ disk[n] = -1 /\ rst[n] = -1
        /\ mem[n] = -1 /\ last[n] = -1 /\ wr[n].now = 0 /\ wr[n].mem = -1
        /\ synced[n].upto = 0 /\ wr[n].ph = "idle" /\ Len(log) = 0
    BY <1>3 DEF Init, IdleWrite, NoCheckpoint
  <2> QED
    BY <2>1 DEF NodeOK, PositionsOK, LastOK, CheckpointsOK, WriteOK, Before
<1> QED
  BY <1>1, <1>2, <1>3 DEF DurableInv

LEMMA InvariantStep == DurableInv /\ [Next]_vars => DurableInv'
  BY TypeStep, NodeStep DEF DurableInv

\* The inductive invariant holds in every state: memory, leveldb and the restart
\* checkpoint of a lock node fit (LockDb, CleanThread, LockMgr::Init).
THEOREM Invariant == Spec => []DurableInv
  BY InvariantStarts, InvariantStep, PTL DEF Spec

-----------------------------------------------------------------------------
(* Results.                                                                *)

\* Lock's variables keep their types: checkpoints stay instances or "none"
\* through the arithmetic of restarts, and only instances that are chosen are
\* executed and replayed.
THEOREM TypeCorrect == Spec => []TypeOK
  BY Invariant, PTL DEF DurableInv

\* A checkpoint, whether written with an operation (LockMgr::WriteDiskCheckpoint)
\* or by the clean thread (LockMgr::WriteRestartCheckpoint), covers only
\* operations that the replayer has executed on leveldb and that a power cut
\* leaves there: the replay after a restart skips no operation that is lost.
THEOREM DurableCheckpoint == Spec => []CheckpointIsDurable
<1>1. DurableInv => CheckpointIsDurable
  <2> SUFFICES ASSUME DurableInv, NEW n \in Node,
                      NEW i \in (0 .. disk[n]) \cup (0 .. rst[n]),
                      log[i + 1].kind # "blank"
               PROVE  i < synced[n].upto
    BY DEF CheckpointIsDurable
  <2>1. TypeOK /\ PositionsOK(n) /\ CheckpointsOK(n)
    BY DEF DurableInv, NodeOK
  <2>2. i < Len(log)
    BY <2>1, NodeNumbers DEF PositionsOK
  <2> QED
    BY <2>1, <2>2 DEF CheckpointsOK, Before
<1> QED
  BY <1>1, Invariant, PTL

-----------------------------------------------------------------------------
(* Leveldb follows memory.                                                 *)

\* Where no lock is released, no call is one to delete a key.
LEMMA NoReleasesStep ==
    ASSUME "release" \notin Requests, TypeOK, NoReleases, [Next]_vars
    PROVE  NoReleases'
<1> DEFINE Frees(x) == x.ph # "idle" /\ x.op.kind = "lock" /\ x.op.free
<1>0. \A c \in Client : ~Frees(call[c])
  BY DEF NoReleases
<1>1. SUFFICES ASSUME NEW c \in Client PROVE ~Frees(call'[c])
  BY <1>1 DEF NoReleases
<1>2. CASE call' = call
  BY <1>0, <1>2
<1>3. ASSUME NEW p \in pend, Chosen(p) PROVE ~Frees(call'[c])
  <2>1. p.cli \in Client \cup {Nobody}
    BY DEF TypeOK
  <2>2. CASE p.cli = c /\ p.cli # Nobody
    <3>1. call'[c] = [call[c] EXCEPT !.inst = Len(log)]
      BY <1>3, <2>2 DEF Chosen, TypeOK
    <3>2. CASE call[c] \in ActiveCall
      BY <1>0, <3>1, <3>2 DEF ActiveCall
    <3>3. CASE call[c] = IdleCall
      <4>1. [IdleCall EXCEPT !.inst = Len(log)] = IdleCall
        BY DEF IdleCall
      <4> QED
        BY <3>1, <3>3, <4>1, IdleTypes
    <3> QED
      BY <3>2, <3>3 DEF TypeOK
  <2>3. CASE ~(p.cli = c /\ p.cli # Nobody)
    <3>1. call'[c] = call[c]
      BY <1>3, <2>3 DEF Chosen, TypeOK
    <3> QED
      BY <1>0, <3>1
  <2> QED
    BY <2>2, <2>3
<1>4. ASSUME NEW d \in Client, NEW n \in Node, NEW r \in Requests, NEW k, NEW v,
             Call(d, n, OpOf(r, k, v, d))
      PROVE  ~Frees(call'[c])
  <2>1. CASE d = c
    <3>1. call'[c].op = OpOf(r, k, v, d)
      BY <1>4, <2>1 DEF Call, TypeOK
    <3>2. ~(OpOf(r, k, v, d).kind = "lock" /\ OpOf(r, k, v, d).free)
      BY DEF OpOf
    <3> QED
      BY <3>1, <3>2
  <2>2. CASE d # c
    <3>1. call'[c] = call[c]
      BY <1>4, <2>2 DEF Call, TypeOK
    <3> QED
      BY <1>0, <3>1
  <2> QED
    BY <2>1, <2>2
<1>5. ASSUME NEW d \in Client, Answer(d) \/ CallFails(d) PROVE ~Frees(call'[c])
  <2>1. call'[c] = call[c] \/ call'[c] = IdleCall
    BY <1>5 DEF Answer, CallFails, TypeOK
  <2> QED
    BY <1>0, <2>1, IdleTypes
<1>6. ASSUME NEW n \in Node, Execute(n) PROVE ~Frees(call'[c])
  <2>1. PICK i, ok : call' = Returns(n, i, ok)
    BY <1>6 DEF Execute
  <2>2. CASE call[c].ph = "wait" /\ call[c].node = n /\ call[c].inst = i
    <3>1. call[c] \in ActiveCall
      BY <2>2, CallActive
    <3>2. call'[c].op = call[c].op
      BY <2>1, <2>2, <3>1 DEF Returns, ActiveCall
    <3> QED
      BY <1>0, <2>2, <3>2
  <2>3. CASE ~(call[c].ph = "wait" /\ call[c].node = n /\ call[c].inst = i)
    <3>1. call'[c] = call[c]
      BY <2>1, <2>3 DEF Returns
    <3> QED
      BY <1>0, <3>1
  <2> QED
    BY <2>2, <2>3
<1>7. ASSUME NEW n, NEW t, NEW d, NEW r, StartFrom(n, t, d, r) PROVE ~Frees(call'[c])
  <2>1. call'[c] = call[c] \/ call'[c] = IdleCall
    BY <1>7 DEF StartFrom
  <2> QED
    BY <1>0, <2>1, IdleTypes
<1> HIDE DEF Frees
<1>8. ASSUME NEW d \in Client, ClientNext(d) PROVE ~Frees(call'[c])
  <2>1. ASSUME NEW n \in Node, NEW r \in Requests, NEW k, NEW v,
               AcquireLock(d, n, r, k, v) \/ SetString(d, n, r, k, v)
        PROVE  ~Frees(call'[c])
    BY <1>4, <2>1 DEF AcquireLock, SetString
  <2> QED
    BY <1>5, <1>8, <2>1 DEF ClientNext
<1>9. ASSUME NEW n \in Node, NodeNext(n) PROVE ~Frees(call'[c])
  <2>1. CASE Execute(n)
    BY <1>6, <2>1
  <2>2. ASSUME NEW powercut, Restart(n, powercut) PROVE ~Frees(call'[c])
    BY <1>7, <2>2 DEF Restart
  <2>3. ASSUME NEW m, LoadCheckpointState(n, m) PROVE ~Frees(call'[c])
    BY <1>7, <2>3 DEF LoadCheckpointState
  <2>4. ASSUME NEW i, CleanPaxosLog(n, i) PROVE call' = call
    BY <2>4 DEF CleanPaxosLog
  <2>5. ASSUME NEW k, CleanRecord(n, k) PROVE call' = call
    BY <2>5 DEF CleanRecord
  <2>6. ASSUME NEW sync, ExecuteForCheckpoint(n, sync) PROVE call' = call
    BY <2>6 DEF ExecuteForCheckpoint
  <2>7. MasterElect(n) \/ ReadNowInstanceID(n) \/ ReadMemoryCheckpoint(n)
          \/ ReadLastInstanceID(n) \/ WriteRestartCheckpoint(n) => call' = call
    BY DEF MasterElect, ReadNowInstanceID, ReadMemoryCheckpoint, ReadLastInstanceID,
       WriteRestartCheckpoint
  <2> QED
    BY <1>2, <1>9, <2>1, <2>2, <2>3, <2>4, <2>5, <2>6, <2>7 DEF NodeNext
<1>10. ASSUME NEW p \in pend, ProposalLost(p) PROVE call' = call
  BY <1>10 DEF ProposalLost
<1>11. MasterLost \/ UNCHANGED vars => call' = call
  BY DEF MasterLost, vars
<1> QED
  BY <1>2, <1>3, <1>8, <1>9, <1>10, <1>11 DEF Next

\* Table t becomes u by the instances of log l from a on and before b.
Leads(l, t, a, u, b) ==
    \E f \in [a .. b -> Tables] :
        /\ f[a] = t /\ f[b] = u
        /\ \A i \in a .. b - 1 : f[i + 1] = After(f[i], l[i + 1], i)

LEMMA LeadsSame ==
    ASSUME NEW l, NEW t \in Tables, NEW a \in Nat
    PROVE  Leads(l, t, a, t, a)
<1> DEFINE f == [i \in a .. a |-> t]
<1>1. f \in [a .. a -> Tables] /\ f[a] = t /\ a .. a - 1 = {}
  OBVIOUS
<1> HIDE DEF f
<1> QED
  BY <1>1 DEF Leads

LEMMA LeadsEnd ==
    ASSUME NEW l, NEW t, NEW u, NEW a, Leads(l, t, a, u, a)
    PROVE  t = u
  BY DEF Leads

LEMMA LeadsMore ==
    ASSUME NEW l, NEW t, NEW u, NEW a \in Nat, NEW b \in Nat, a <= b,
           Leads(l, t, a, u, b), NEW w \in Tables, w = After(u, l[b + 1], b)
    PROVE  Leads(l, t, a, w, b + 1)
<1>1. PICK f \in [a .. b -> Tables] :
         /\ f[a] = t /\ f[b] = u
         /\ \A i \in a .. b - 1 : f[i + 1] = After(f[i], l[i + 1], i)
  BY DEF Leads
<1> DEFINE g == [i \in a .. b + 1 |-> IF i = b + 1 THEN w ELSE f[i]]
<1>2. g \in [a .. b + 1 -> Tables]
  OBVIOUS
<1>3. \A i \in a .. b : g[i] = f[i]
  OBVIOUS
<1>4. g[a] = t /\ g[b] = u /\ g[b + 1] = w
  BY <1>1
<1> HIDE DEF g
<1>5. ASSUME NEW i \in a .. (b + 1) - 1 PROVE g[i + 1] = After(g[i], l[i + 1], i)
  <2>1. CASE i = b
    BY <2>1, <1>4
  <2>2. CASE i # b
    <3>1. i \in a .. b - 1 /\ i \in a .. b /\ i + 1 \in a .. b
      BY <2>2
    <3> QED
      BY <3>1, <1>1, <1>3
  <2> QED
    BY <2>1, <2>2
<1> QED
  BY <1>2, <1>4, <1>5 DEF Leads

LEMMA LeadsLess ==
    ASSUME NEW l, NEW t, NEW u, NEW a \in Nat, NEW b \in Nat, a < b, Leads(l, t, a, u, b)
    PROVE  Leads(l, After(t, l[a + 1], a), a + 1, u, b)
<1>1. PICK f \in [a .. b -> Tables] :
         /\ f[a] = t /\ f[b] = u
         /\ \A i \in a .. b - 1 : f[i + 1] = After(f[i], l[i + 1], i)
  BY DEF Leads
<1> DEFINE g == [i \in a + 1 .. b |-> f[i]]
<1>2. g \in [a + 1 .. b -> Tables]
  OBVIOUS
<1>3. \A i \in a + 1 .. b : g[i] = f[i]
  OBVIOUS
<1> HIDE DEF g
<1>4. g[a + 1] = After(t, l[a + 1], a) /\ g[b] = u
  BY <1>1, <1>3
<1>5. ASSUME NEW i \in a + 1 .. b - 1 PROVE g[i + 1] = After(g[i], l[i + 1], i)
  <2>1. i \in a .. b - 1 /\ i \in a + 1 .. b /\ i + 1 \in a + 1 .. b
    OBVIOUS
  <2> QED
    BY <2>1, <1>1, <1>3
<1> QED
  BY <1>2, <1>4, <1>5 DEF Leads

LEMMA LeadsAppend ==
    ASSUME NEW S, NEW l \in Seq(S), NEW v, NEW t, NEW u, NEW a \in Nat, NEW b \in Nat,
           b <= Len(l), Leads(l, t, a, u, b)
    PROVE  Leads(Append(l, v), t, a, u, b)
<1>1. PICK f \in [a .. b -> Tables] :
         /\ f[a] = t /\ f[b] = u
         /\ \A i \in a .. b - 1 : f[i + 1] = After(f[i], l[i + 1], i)
  BY DEF Leads
<1>2. \A i \in a .. b - 1 : Append(l, v)[i + 1] = l[i + 1]
  OBVIOUS
<1>3. \A i \in a .. b - 1 : f[i + 1] = After(f[i], Append(l, v)[i + 1], i)
  BY <1>1, <1>2
<1> QED
  BY <1>1, <1>3 DEF Leads

\* What the replayer still has to execute makes leveldb's table that in memory.
FollowInv ==
    /\ DurableInv /\ NoReleases
    /\ \A n \in Node : Leads(log, db[n], dbnext[n], map[n], applied[n])

\* Without a release, an answer leaves the server's table alone.
LEMMA NoDelete ==
    ASSUME NoReleases, NEW c \in Client, call[c].ph # "idle", DeleteLock(c)
    PROVE  map' = map
  BY DEF NoReleases, DeleteLock

LEMMA FollowStep ==
    ASSUME FollowInv, [Next]_vars, NEW m \in Node
    PROVE  Leads(log', db'[m], dbnext'[m], map'[m], applied'[m])
<1>a. TypeOK /\ NodeOK(m) /\ NoReleases /\ Leads(log, db[m], dbnext[m], map[m], applied[m])
  BY DEF FollowInv, DurableInv
<1>b. /\ dbnext[m] \in Nat /\ applied[m] \in Nat /\ dbnext[m] <= applied[m]
      /\ applied[m] <= Len(log) /\ log \in Seq(Op \cup {Blank})
  BY <1>a DEF TypeOK, NodeOK, PositionsOK
<1> DEFINE Goal == Leads(log', db'[m], dbnext'[m], map'[m], applied'[m])
<1>1. CASE UNCHANGED <<log, db, dbnext, map, applied>>
  BY <1>1, <1>a
<1>2. ASSUME NEW v, log' = Append(log, v), UNCHANGED <<db, dbnext, map, applied>>
      PROVE  Goal
  BY <1>2, <1>a, <1>b, LeadsAppend
<1>3. ASSUME NEW n \in Node, Execute(n) PROVE Goal
  <2>1. UNCHANGED <<log, db, dbnext>>
    BY <1>3 DEF Execute, logVars, diskVars
  <2>2. CASE n # m
    <3>1. map'[m] = map[m] /\ applied'[m] = applied[m]
      BY <1>3, <1>a, <2>2 DEF Execute, TypeOK
    <3> QED
      BY <2>1, <3>1, <1>a
  <2>3. CASE n = m
    <3> DEFINE i == applied[m]
               w == After(map[m], log[i + 1], i)
    <3>1. map'[m] = w /\ applied'[m] = i + 1 /\ i < Len(log)
      BY <1>3, <1>a, <2>3 DEF Execute, TypeOK
    <3>2. w \in Tables
      BY <3>1, <1>a, <1>b, LogEntry, AfterType DEF TypeOK
    <3>3. Leads(log, db[m], dbnext[m], w, i + 1)
      BY <3>2, <1>a, <1>b, LeadsMore
    <3> QED
      BY <2>1, <3>1, <3>3
  <2> QED
    BY <2>2, <2>3
<1>4. ASSUME NEW n \in Node, NEW sync, ExecuteForCheckpoint(n, sync) PROVE Goal
  <2>1. UNCHANGED <<log, map, applied>>
    BY <1>4 DEF ExecuteForCheckpoint, logVars, execVars
  <2>2. CASE n # m
    <3>1. db'[m] = db[m] /\ dbnext'[m] = dbnext[m]
      BY <1>4, <1>a, <2>2 DEF ExecuteForCheckpoint, TypeOK
    <3> QED
      BY <2>1, <3>1, <1>a
  <2>3. CASE n = m
    <3> DEFINE i == dbnext[m]
               w == After(db[m], log[i + 1], i)
    <3>1. db'[m] = w /\ dbnext'[m] = i + 1 /\ i < applied[m]
      BY <1>4, <1>a, <2>3 DEF ExecuteForCheckpoint, TypeOK
    <3>2. Leads(log, w, i + 1, map[m], applied[m])
      BY <3>1, <1>a, <1>b, LeadsLess
    <3> QED
      BY <2>1, <3>1, <3>2
  <2> QED
    BY <2>2, <2>3
<1>5. ASSUME NEW n \in Node, NEW t \in Tables, NEW d \in Instance, NEW r \in Instance,
             StartFrom(n, t, d, r)
      PROVE  Goal
  <2> DEFINE cp == IF r > d THEN r ELSE d
  <2>1. cp + 1 \in Nat
    BY DEF Instance, NoCheckpoint
  <2>2. CASE n # m
    <3>1. /\ db'[m] = db[m] /\ dbnext'[m] = dbnext[m] /\ map'[m] = map[m]
          /\ applied'[m] = applied[m] /\ log' = log
      BY <1>5, <1>a, <2>2 DEF StartFrom, RecoverMap, TypeOK
    <3> QED
      BY <3>1, <1>a
  <2>3. CASE n = m
    <3>1. db'[m] = t /\ map'[m] = t /\ applied'[m] = cp + 1 /\ dbnext'[m] = cp + 1
      BY <1>5, <1>a, <2>3 DEF StartFrom, RecoverMap, TypeOK
    <3> HIDE DEF cp
    <3> QED
      BY <3>1, <2>1, LeadsSame
  <2> QED
    BY <2>2, <2>3
<1>c. ASSUME NEW n \in Node
      PROVE  /\ disk[n] \in Instance /\ rst[n] \in Instance
             /\ db[n] \in Tables /\ synced[n].table \in Tables
  BY <1>a DEF TypeOK
<1> HIDE DEF Goal
<1>6. ASSUME NEW c \in Client, ClientNext(c) PROVE Goal
  <2>1. ASSUME NEW n \in Node, NEW op, Call(c, n, op) PROVE Goal
    BY <2>1, <1>1 DEF Call, execVars, diskVars, Goal
  <2>2. ASSUME NEW n \in Node, NEW r, NEW k, NEW v,
               AcquireLock(c, n, r, k, v) \/ SetString(c, n, r, k, v)
        PROVE  Goal
    BY <2>1, <2>2 DEF AcquireLock, SetString
  <2>3. CASE Answer(c)
    <3>1. map' = map
      BY <2>3, <1>a, NoDelete DEF Answer
    <3> QED
      BY <2>3, <3>1, <1>1 DEF Answer, logVars, diskVars, Goal
  <2>4. CASE CallFails(c)
    <3>1. map' = map
      BY <2>4, <1>a, NoDelete DEF CallFails
    <3> QED
      BY <2>4, <3>1, <1>1 DEF CallFails, diskVars, Goal
  <2> QED
    BY <1>6, <2>2, <2>3, <2>4 DEF ClientNext
<1>7. ASSUME NEW n \in Node, NodeNext(n) PROVE Goal
  <2>1. CASE MasterElect(n)
    BY <2>1, <1>2 DEF MasterElect, execVars, diskVars
  <2>2. CASE Execute(n)
    BY <2>2, <1>3
  <2>3. ASSUME NEW sync, ExecuteForCheckpoint(n, sync) PROVE Goal
    BY <2>3, <1>4
  <2>4. ASSUME NEW powercut, Restart(n, powercut) PROVE Goal
    <3>1. (IF powercut THEN synced[n].table ELSE db[n]) \in Tables
      BY <1>c
    <3> QED
      BY <2>4, <3>1, <1>c, <1>5 DEF Restart
  <2>5. ASSUME NEW k \in Node, LoadCheckpointState(n, k) PROVE Goal
    BY <2>5, <1>c, <1>5 DEF LoadCheckpointState
  <2>6. ASSUME NEW i, CleanPaxosLog(n, i) PROVE Goal
    BY <2>6, <1>1 DEF CleanPaxosLog, logVars, execVars, diskVars, Goal
  <2>7. ASSUME NEW k, CleanRecord(n, k) PROVE Goal
    BY <2>7, <1>1 DEF CleanRecord, execVars, diskVars, Goal
  <2>8. ASSUME ReadNowInstanceID(n) \/ ReadMemoryCheckpoint(n) \/ ReadLastInstanceID(n)
        PROVE  Goal
    BY <2>8, <1>1 DEF ReadNowInstanceID, ReadMemoryCheckpoint, ReadLastInstanceID, logVars,
       execVars, diskVars, Goal
  <2>9. CASE WriteRestartCheckpoint(n)
    BY <2>9, <1>1 DEF WriteRestartCheckpoint, logVars, execVars, Goal
  <2> QED
    BY <1>7, <2>1, <2>2, <2>3, <2>4, <2>5, <2>6, <2>7, <2>8, <2>9 DEF NodeNext
<1>8. ASSUME NEW p \in pend, Chosen(p) PROVE Goal
  BY <1>8, <1>2 DEF Chosen, execVars, diskVars
<1>9. ASSUME NEW p \in pend, ProposalLost(p) PROVE Goal
  BY <1>9, <1>1 DEF ProposalLost, execVars, diskVars, Goal
<1>10. CASE MasterLost
  BY <1>10, <1>1 DEF MasterLost, logVars, execVars, diskVars
<1>11. CASE UNCHANGED vars
  BY <1>11, <1>1 DEF vars
<1>12. Goal
  BY <1>6, <1>7, <1>8, <1>9, <1>10, <1>11 DEF Next, Goal
<1> QED
  BY <1>12 DEF Goal

\* Leveldb's table and that in memory are the same once the replayer has caught
\* up, however often a node is restarted, loses power or takes over another's
\* leveldb (LockSM::ExecuteForCheckpoint, LockMgr::Init); a release is the one
\* request that changes memory outside the log (Lock::AcquireLock).
THEOREM ReplayerFollows == "release" \notin Requests => (Spec => []LeveldbFollows)
<1> SUFFICES ASSUME "release" \notin Requests PROVE Spec => []LeveldbFollows
  OBVIOUS
<1>1. Init => FollowInv
  <2> SUFFICES ASSUME Init PROVE FollowInv
    OBVIOUS
  <2>1. DurableInv
    BY InvariantStarts
  <2>2. NoReleases
    BY IdleTypes DEF Init, NoReleases
  <2>3. ASSUME NEW n \in Node PROVE Leads(log, db[n], dbnext[n], map[n], applied[n])
    BY IdleTypes, LeadsSame DEF Init
  <2> QED
    BY <2>1, <2>2, <2>3 DEF FollowInv
<1>2. FollowInv /\ [Next]_vars => FollowInv'
  <2> SUFFICES ASSUME FollowInv, [Next]_vars PROVE FollowInv'
    OBVIOUS
  <2>1. DurableInv' /\ NoReleases'
    BY InvariantStep, NoReleasesStep DEF FollowInv, DurableInv
  <2>2. \A m \in Node : Leads(log', db'[m], dbnext'[m], map'[m], applied'[m])
    BY FollowStep
  <2> QED
    BY <2>1, <2>2 DEF FollowInv
<1>3. FollowInv => LeveldbFollows
  BY LeadsEnd DEF FollowInv, LeveldbFollows
<1> QED
  BY <1>1, <1>2, <1>3, PTL DEF Spec

-----------------------------------------------------------------------------
(* Versions.                                                               *)

\* An operation writes the version of its instance.
LEMMA AfterVersions ==
    ASSUME NEW t \in Tables, NEW x \in Nat, VersionsBefore(t, x), NEW i \in Nat, i < x,
           NEW op, op.kind # "blank" => op \in Op
    PROVE  VersionsBefore(After(t, op, i), x)
<1>1. CASE Accepts(t, op)
  <2>1. op \in Op
    BY <1>1 DEF Accepts
  <2>2. op.key \in Key /\ After(t, op, i) =
           [t EXCEPT ![op.key] = IF op.free THEN NoRecord ELSE [ver |-> i, who |-> op.who]]
    BY <1>1, <2>1 DEF After, Op
  <2> QED
    BY <2>2 DEF VersionsBefore, Tables
<1>2. CASE ~Accepts(t, op)
  BY <1>2 DEF After
<1> QED
  BY <1>1, <1>2

LEMMA VersionsWeaken ==
    ASSUME NEW t \in Tables, NEW x \in Nat, NEW y \in Nat, x <= y, VersionsBefore(t, x)
    PROVE  VersionsBefore(t, y)
<1>1. ASSUME NEW k \in Key, t[k] # NoRecord PROVE t[k].ver < y
  <2>1. t[k].ver \in Nat /\ t[k].ver < x
    BY <1>1 DEF Tables, Record, VersionsBefore
  <2> QED
    BY <2>1
<1> QED
  BY <1>1 DEF VersionsBefore

LEMMA NamesWeaken ==
    ASSUME NEW op, op.kind # "blank" => op \in Op, NEW x \in Nat, NEW y \in Nat, x <= y,
           NamesOld(op, x)
    PROVE  NamesOld(op, y)
<1>1. op.kind # "blank" => op.ver \in Int
  BY DEF Op, AnyVersion
<1> QED
  BY <1>1 DEF NamesOld

\* A client names a version that it may know.
LEMMA RequestNames ==
    ASSUME "set" \notin Requests, TypeOK, NEW r \in Requests, NEW k \in Key, NEW c \in Client,
           NEW v \in Versions(k) \cup {AnyVersion}
    PROVE  NamesOld(OpOf(r, k, v, c), Len(log))
<1>1. Len(log) \in Nat
  BY DEF TypeOK
<1>2. v \in Int /\ v <= Len(log)
  BY <1>1 DEF Versions, AnyVersion
<1>3. r \in {"acquire", "release", "delete"}
  BY LockAssumption DEF RequestKinds
<1> QED
  BY <1>2, <1>3 DEF NamesOld, OpOf

LEMMA PendNames ==
    ASSUME "set" \notin Requests, VersionInv, [Next]_vars, NEW q \in pend'
    PROVE  NamesOld(q.op, Len(log'))
<1>a. TypeOK
  BY DEF VersionInv, DurableInv
<1>b. Len(log) \in Nat /\ \A p \in pend : p.op \in Op /\ NamesOld(p.op, Len(log))
  BY <1>a DEF VersionInv, TypeOK
<1>1. ASSUME log' = log, NEW p \in pend, q.op = p.op PROVE NamesOld(q.op, Len(log'))
  BY <1>1, <1>b
<1>2. ASSUME NEW v, log' = Append(log, v), pend' \subseteq pend PROVE NamesOld(q.op, Len(log'))
  <2>1. Len(log') = Len(log) + 1
    BY <1>2, <1>a DEF TypeOK
  <2>2. q.op \in Op /\ NamesOld(q.op, Len(log))
    BY <1>2, <1>b
  <2> QED
    BY <2>1, <2>2, <1>b, NamesWeaken
<1>3. ASSUME log' = log, NEW op, NEW c, Propose(op, c), NamesOld(op, Len(log))
      PROVE  NamesOld(q.op, Len(log'))
  <2>1. q \in pend \/ q = [op |-> op, cli |-> c]
    BY <1>3 DEF Propose
  <2>2. CASE q \in pend
    BY <2>2, <1>1, <1>3
  <2>3. CASE q = [op |-> op, cli |-> c]
    <3>1. q.op = op
      BY <2>3
    <3> QED
      BY <3>1, <1>3
  <2> QED
    BY <2>1, <2>2, <2>3
<1>4. ASSUME NEW c \in Client, ClientNext(c) PROVE NamesOld(q.op, Len(log'))
  <2>1. ASSUME NEW n, NEW r \in Requests, NEW k \in Key, NEW v \in Versions(k) \cup {AnyVersion},
               AcquireLock(c, n, r, k, v) \/ SetString(c, n, r, k, v)
        PROVE  NamesOld(q.op, Len(log'))
    <3>1. NamesOld(OpOf(r, k, v, c), Len(log))
      BY <1>a, RequestNames
    <3>2. Propose(OpOf(r, k, v, c), c) /\ log' = log
      BY <2>1 DEF AcquireLock, SetString, Call
    <3> QED
      BY <3>1, <3>2, <1>3
  <2>2. CASE Answer(c)
    BY <2>2, <1>1 DEF Answer, logVars
  <2>3. CASE CallFails(c)
    <3>1. PICK p \in pend : \E d : q = [p EXCEPT !.cli = d]
      BY <2>3 DEF CallFails
    <3>2. q.op = p.op
      BY <3>1, <1>a DEF TypeOK
    <3> QED
      BY <2>3, <3>2, <1>1 DEF CallFails
  <2> QED
    BY <1>4, <2>1, <2>2, <2>3 DEF ClientNext
<1>5. ASSUME NEW n, NEW t, NEW d, NEW r, StartFrom(n, t, d, r) PROVE NamesOld(q.op, Len(log'))
  <2>1. PICK p \in pend : \E e : q = [p EXCEPT !.cli = e]
    BY <1>5 DEF StartFrom
  <2>2. q.op = p.op
    BY <2>1, <1>a DEF TypeOK
  <2> QED
    BY <1>5, <2>2, <1>1 DEF StartFrom
<1>6. ASSUME NEW n \in Node, NodeNext(n) PROVE NamesOld(q.op, Len(log'))
  <2>1. CASE MasterElect(n)
    BY <2>1, <1>2 DEF MasterElect
  <2>2. ASSUME NEW i, CleanPaxosLog(n, i) PROVE NamesOld(q.op, Len(log'))
    BY <2>2, <1>1 DEF CleanPaxosLog, logVars
  <2>3. ASSUME NEW k \in Key, CleanRecord(n, k) PROVE NamesOld(q.op, Len(log'))
    <3> DEFINE op == [kind |-> "lock", key |-> k, ver |-> map[n][k].ver,
                      who |-> Cleaner, free |-> TRUE]
    <3>1. map[n][k].ver \in Nat /\ map[n][k].ver < Len(log)
      <4>1. map[n][k] # NoRecord /\ VersionsBefore(map[n], Len(log))
        BY <2>3 DEF CleanRecord, VersionInv
      <4>2. map[n][k] \in Record
        BY <4>1, <1>a DEF TypeOK, Tables
      <4> QED
        BY <4>1, <4>2 DEF VersionsBefore, Record
    <3>2. NamesOld(op, Len(log))
      BY <3>1, <1>b DEF NamesOld
    <3>3. Propose(op, Nobody) /\ log' = log
      BY <2>3 DEF CleanRecord
    <3> HIDE DEF op
    <3> QED
      BY <3>2, <3>3, <1>3
  <2>4. CASE Execute(n)
    BY <2>4, <1>1 DEF Execute, logVars
  <2>5. ASSUME NEW sync, ExecuteForCheckpoint(n, sync) PROVE NamesOld(q.op, Len(log'))
    BY <2>5, <1>1 DEF ExecuteForCheckpoint, logVars
  <2>6. ASSUME ReadNowInstanceID(n) \/ ReadMemoryCheckpoint(n) \/ ReadLastInstanceID(n)
               \/ WriteRestartCheckpoint(n)
        PROVE  NamesOld(q.op, Len(log'))
    BY <2>6, <1>1 DEF ReadNowInstanceID, ReadMemoryCheckpoint, ReadLastInstanceID,
       WriteRestartCheckpoint, logVars
  <2>7. ASSUME NEW powercut, Restart(n, powercut) PROVE NamesOld(q.op, Len(log'))
    BY <2>7, <1>5 DEF Restart
  <2>8. ASSUME NEW m, LoadCheckpointState(n, m) PROVE NamesOld(q.op, Len(log'))
    BY <2>8, <1>5 DEF LoadCheckpointState
  <2> QED
    BY <1>6, <2>1, <2>2, <2>3, <2>4, <2>5, <2>6, <2>7, <2>8 DEF NodeNext
<1>7. ASSUME NEW p \in pend, Chosen(p) PROVE NamesOld(q.op, Len(log'))
  BY <1>7, <1>2 DEF Chosen
<1>8. ASSUME NEW p \in pend, ProposalLost(p) PROVE NamesOld(q.op, Len(log'))
  BY <1>8, <1>1 DEF ProposalLost
<1>9. CASE MasterLost \/ UNCHANGED vars
  BY <1>9, <1>1 DEF MasterLost, vars, logVars
<1> QED
  BY <1>4, <1>6, <1>7, <1>8, <1>9 DEF Next

LEMMA LogNames ==
    ASSUME VersionInv, [Next]_vars
    PROVE  Len(log') >= Len(log) /\ \A i \in 1 .. Len(log') : NamesOld(log'[i], i - 1)
<1>a. TypeOK /\ Len(log) \in Nat
  BY DEF VersionInv, DurableInv, TypeOK
<1>b. \A i \in 1 .. Len(log) : NamesOld(log[i], i - 1)
  BY DEF VersionInv
<1> DEFINE Goal == Len(log') >= Len(log) /\ \A i \in 1 .. Len(log') : NamesOld(log'[i], i - 1)
<1>1. CASE log' = log
  BY <1>1, <1>a, <1>b
<1>2. ASSUME NEW v, log' = Append(log, v), NamesOld(v, Len(log)) PROVE Goal
  <2>1. /\ Len(log') = Len(log) + 1 /\ log'[Len(log) + 1] = v
        /\ \A i \in 1 .. Len(log) : log'[i] = log[i]
    BY <1>2, <1>a DEF TypeOK
  <2>2. ASSUME NEW i \in 1 .. Len(log') PROVE NamesOld(log'[i], i - 1)
    <3>1. CASE i = Len(log) + 1
      <4>1. i - 1 = Len(log)
        BY <3>1, <1>a
      <4> QED
        BY <3>1, <4>1, <2>1, <1>2
    <3>2. CASE i # Len(log) + 1
      <4>1. i \in 1 .. Len(log)
        BY <3>2, <2>1, <1>a
      <4> QED
        BY <4>1, <2>1, <1>b
    <3> QED
      BY <3>1, <3>2
  <2> QED
    BY <2>1, <2>2, <1>a
<1> HIDE DEF Goal
<1>3. ASSUME NEW p \in pend, Chosen(p) PROVE Goal
  BY <1>3, <1>2 DEF Chosen, VersionInv
<1>4. ASSUME NEW n \in Node, MasterElect(n) PROVE Goal
  <2>1. NamesOld(Blank, Len(log))
    BY DEF NamesOld, Blank
  <2> QED
    BY <1>4, <2>1, <1>2 DEF MasterElect
<1>5. ASSUME NEW n, NEW t, NEW d, NEW r, StartFrom(n, t, d, r) PROVE log' = log
  BY <1>5 DEF StartFrom
<1>6. ASSUME NEW c \in Client, ClientNext(c) PROVE log' = log
  BY <1>6 DEF ClientNext, AcquireLock, SetString, Call, Answer, CallFails, logVars
<1>7. ASSUME NEW n \in Node, NodeNext(n), ~MasterElect(n) PROVE log' = log
  <2>1. ASSUME NEW i, CleanPaxosLog(n, i) PROVE log' = log
    BY <2>1 DEF CleanPaxosLog, logVars
  <2>2. ASSUME NEW k, CleanRecord(n, k) PROVE log' = log
    BY <2>2 DEF CleanRecord
  <2>3. ASSUME NEW sync, ExecuteForCheckpoint(n, sync) PROVE log' = log
    BY <2>3 DEF ExecuteForCheckpoint, logVars
  <2>4. ASSUME NEW powercut, Restart(n, powercut) PROVE log' = log
    BY <2>4, <1>5 DEF Restart
  <2>5. ASSUME NEW m, LoadCheckpointState(n, m) PROVE log' = log
    BY <2>5, <1>5 DEF LoadCheckpointState
  <2>6. ASSUME Execute(n) \/ ReadNowInstanceID(n) \/ ReadMemoryCheckpoint(n)
               \/ ReadLastInstanceID(n) \/ WriteRestartCheckpoint(n)
        PROVE  log' = log
    BY <2>6 DEF Execute, ReadNowInstanceID, ReadMemoryCheckpoint, ReadLastInstanceID,
       WriteRestartCheckpoint, logVars
  <2> QED
    BY <1>7, <2>1, <2>2, <2>3, <2>4, <2>5, <2>6 DEF NodeNext
<1>8. ASSUME NEW p \in pend, ProposalLost(p) PROVE log' = log
  BY <1>8 DEF ProposalLost
<1>9. MasterLost \/ UNCHANGED vars => log' = log
  BY DEF MasterLost, vars, logVars
<1>10. log' = log => Goal
  BY <1>1 DEF Goal
<1>11. Goal
  BY <1>3, <1>4, <1>6, <1>7, <1>8, <1>9, <1>10 DEF Next
<1> QED
  BY <1>11 DEF Goal

\* A release forgets a record.
LEMMA DeleteForgets ==
    ASSUME TypeOK, NEW c \in Client, call[c] \in ActiveCall, DeleteLock(c),
           NEW m \in Node, NEW k \in Key
    PROVE  map'[m][k] = map[m][k] \/ map'[m][k] = NoRecord
<1>1. PICK n, x : n = call[c].node /\ x = call[c].op.key
  OBVIOUS
<1>2. n \in Node /\ x \in Key
  BY <1>1 DEF ActiveCall, Op
<1>3. map' = map \/ map' = [map EXCEPT ![n][x] = NoRecord]
  BY <1>1 DEF DeleteLock
<1>4. map \in [Node -> Tables]
  BY DEF TypeOK
<1>5. CASE map' = [map EXCEPT ![n][x] = NoRecord]
  <2>1. map'[m] = IF m = n THEN [map[n] EXCEPT ![x] = NoRecord] ELSE map[m]
    BY <1>2, <1>4, <1>5
  <2>2. map[n] \in Tables
    BY <1>2, <1>4
  <2> QED
    BY <1>2, <2>1, <2>2 DEF Tables
<1> QED
  BY <1>3, <1>5

LEMMA TableVersions ==
    ASSUME VersionInv, [Next]_vars, NEW m \in Node
    PROVE  /\ VersionsBefore(map'[m], Len(log))
           /\ VersionsBefore(db'[m], Len(log))
           /\ VersionsBefore(synced'[m].table, Len(log))
<1>0. TypeOK
  BY DEF VersionInv, DurableInv
<1>a. TypeOK /\ Len(log) \in Nat
  BY <1>0 DEF TypeOK
<1> DEFINE Old(t) == t \in Tables /\ VersionsBefore(t, Len(log))
           Goal == Old(map'[m]) /\ Old(db'[m]) /\ Old(synced'[m].table)
<1>b. \A n \in Node : Old(map[n]) /\ Old(db[n]) /\ Old(synced[n].table)
  BY <1>a DEF VersionInv, TypeOK
<1>c. \A n \in Node : dbnext[n] \in Nat /\ applied[n] \in Nat /\ dbnext[n] <= applied[n] /\ applied[n] <= Len(log)
  BY <1>a DEF VersionInv, DurableInv, NodeOK, PositionsOK, TypeOK
<1>d. ASSUME NEW t, Old(t), NEW i \in Nat, i < Len(log) PROVE Old(After(t, log[i + 1], i))
  <2>1. log[i + 1].kind # "blank" => log[i + 1] \in Op
    BY <1>a, <1>d, LogEntry
  <2> QED
    BY <2>1, <1>a, <1>d, AfterType, AfterVersions
<1>1. ASSUME UNCHANGED <<map, db, synced>> PROVE Goal
  BY <1>1, <1>b
<1>2. ASSUME NEW c \in Client, call[c].ph # "idle", DeleteLock(c), UNCHANGED <<db, synced>>
      PROVE  Goal
  <2>1. call[c] \in ActiveCall
    BY <1>a, <1>2, CallActive
  <2>2. map'[m] \in Tables
    BY <1>a, <1>2, <2>1, DeleteType
  <2>3. \A k \in Key : map'[m][k] = map[m][k] \/ map'[m][k] = NoRecord
    BY <1>a, <1>2, <2>1, DeleteForgets
  <2>4. Old(map'[m])
    BY <2>2, <2>3, <1>b DEF VersionsBefore
  <2> QED
    BY <2>4, <1>2, <1>b
<1>3. ASSUME NEW n \in Node, Execute(n) PROVE Goal
  <2> DEFINE w == After(map[n], log[applied[n] + 1], applied[n])
  <2>1. map' = [map EXCEPT ![n] = w] /\ applied[n] < Len(log) /\ UNCHANGED <<db, synced>>
    BY <1>3 DEF Execute, diskVars
  <2>2. Old(w)
    <3> HIDE DEF Old
    <3> QED
      BY <2>1, <1>b, <1>c, <1>d
  <2> HIDE DEF w, Old
  <2>3. map'[m] = w \/ map'[m] = map[m]
    BY <2>1, <1>a DEF TypeOK
  <2> QED
    BY <2>1, <2>2, <2>3, <1>b
<1>4. ASSUME NEW n \in Node, NEW sync, ExecuteForCheckpoint(n, sync) PROVE Goal
  <2> DEFINE w == After(db[n], log[dbnext[n] + 1], dbnext[n])
  <2>1. /\ db' = [db EXCEPT ![n] = w] /\ dbnext[n] < applied[n] /\ UNCHANGED map
        /\ \/ synced' = [synced EXCEPT ![n] = [upto |-> dbnext[n] + 1, table |-> w]]
           \/ synced' = synced
    BY <1>4 DEF ExecuteForCheckpoint, execVars
  <2>2. Old(w)
    <3> HIDE DEF Old
    <3>1. dbnext[n] \in Nat /\ dbnext[n] < Len(log)
      BY <2>1, <1>a, <1>c
    <3> QED
      BY <3>1, <1>b, <1>d
  <2> HIDE DEF w, Old
  <2>3. db'[m] = w \/ db'[m] = db[m]
    BY <2>1, <1>a DEF TypeOK
  <2>4. synced'[m].table = w \/ synced'[m] = synced[m]
    BY <2>1, <1>a DEF TypeOK
  <2> QED
    BY <2>1, <2>2, <2>3, <2>4, <1>b
<1>5. ASSUME NEW n \in Node, WriteRestartCheckpoint(n) PROVE Goal
  <2>1. synced'[m].table = db[n] \/ synced'[m] = synced[m]
    BY <1>5, <1>a DEF WriteRestartCheckpoint, TypeOK
  <2> HIDE DEF Old
  <2> QED
    BY <1>5, <2>1, <1>b DEF WriteRestartCheckpoint, execVars
<1>6. ASSUME NEW n \in Node, NEW t, Old(t), NEW d, NEW r, StartFrom(n, t, d, r)
      PROVE  Old(map'[m]) /\ Old(db'[m])
  <2>1. map'[m] \in {t, map[m]} /\ db'[m] \in {t, db[m]}
    BY <1>6, <1>a DEF StartFrom, RecoverMap, TypeOK
  <2> HIDE DEF Old
  <2> QED
    BY <1>6, <2>1, <1>b
<1>7. ASSUME NEW n \in Node, NEW powercut, Restart(n, powercut) PROVE Goal
  <2> HIDE DEF Old
  <2>1. Old(IF powercut THEN synced[n].table ELSE db[n])
    BY <1>b
  <2> QED
    BY <1>7, <2>1, <1>6, <1>b DEF Restart
<1>8. ASSUME NEW n \in Node, NEW k \in Node, LoadCheckpointState(n, k) PROVE Goal
  <2>1. synced'[m].table = db[k] \/ synced'[m] = synced[m]
    BY <1>8, <1>a DEF LoadCheckpointState, TypeOK
  <2> HIDE DEF Old
  <2> QED
    BY <1>8, <2>1, <1>6, <1>b DEF LoadCheckpointState
<1> HIDE DEF Old
<1>9. ASSUME NEW c \in Client, ClientNext(c) PROVE Goal
  <2>1. ASSUME NEW n, NEW r, NEW k, NEW v, AcquireLock(c, n, r, k, v) \/ SetString(c, n, r, k, v)
        PROVE  Goal
    BY <2>1, <1>1 DEF AcquireLock, SetString, Call, execVars, diskVars
  <2>2. CASE Answer(c)
    BY <2>2, <1>2 DEF Answer, diskVars
  <2>3. CASE CallFails(c)
    BY <2>3, <1>2 DEF CallFails, diskVars
  <2> QED
    BY <1>9, <2>1, <2>2, <2>3 DEF ClientNext
<1> HIDE DEF Goal
<1>10. ASSUME NEW n \in Node, NodeNext(n) PROVE Goal
  <2>1. ASSUME NEW i, CleanPaxosLog(n, i) PROVE UNCHANGED <<map, db, synced>>
    BY <2>1 DEF CleanPaxosLog, execVars, diskVars
  <2>2. ASSUME NEW k, CleanRecord(n, k) PROVE UNCHANGED <<map, db, synced>>
    BY <2>2 DEF CleanRecord, execVars, diskVars
  <2>3. ASSUME MasterElect(n) \/ ReadNowInstanceID(n) \/ ReadMemoryCheckpoint(n)
               \/ ReadLastInstanceID(n)
        PROVE  UNCHANGED <<map, db, synced>>
    BY <2>3 DEF MasterElect, ReadNowInstanceID, ReadMemoryCheckpoint, ReadLastInstanceID,
       execVars, diskVars
  <2>4. UNCHANGED <<map, db, synced>> => Goal
    BY <1>1
  <2> QED
    BY <1>10, <1>3, <1>4, <1>5, <1>7, <1>8, <2>1, <2>2, <2>3, <2>4 DEF NodeNext
<1>11. ASSUME NEW p \in pend, Chosen(p) \/ ProposalLost(p) PROVE Goal
  BY <1>11, <1>1 DEF Chosen, ProposalLost, execVars, diskVars
<1>12. ASSUME MasterLost \/ UNCHANGED vars PROVE Goal
  BY <1>12, <1>1 DEF MasterLost, vars, execVars, diskVars
<1>13. Goal
  BY <1>9, <1>10, <1>11, <1>12 DEF Next
<1> QED
  BY <1>13 DEF Goal, Old

\* An operation that fits a record names its version, and that is older.
LEMMA ExecuteAdvances ==
    ASSUME NEW t \in Tables, NEW op, op.kind # "blank" => op \in Op, NEW i \in Nat,
           NamesOld(op, i), NEW k \in Key, t[k] # NoRecord, After(t, op, i)[k] # NoRecord
    PROVE  After(t, op, i)[k].ver >= t[k].ver
<1>0. t[k].ver \in Nat
  BY DEF Tables, Record
<1>1. CASE Accepts(t, op) /\ op.key = k
  <2>1. op \in Op /\ Fits(t, op)
    BY <1>1 DEF Accepts
  <2>2. After(t, op, i) = [t EXCEPT ![k] = IF op.free THEN NoRecord ELSE [ver |-> i, who |-> op.who]]
    BY <1>1 DEF After
  <2>3. ~op.free /\ After(t, op, i)[k] = [ver |-> i, who |-> op.who]
    BY <2>2 DEF Tables
  <2>4. op.ver <= i /\ op.kind # "string"
    BY <2>1, <2>3, <1>1 DEF NamesOld, Accepts
  <2>5. t[k].ver = op.ver
    BY <2>1, <2>4, <1>1 DEF Fits
  <2>6. After(t, op, i)[k].ver = i
    BY <2>3
  <2> QED
    BY <1>0, <2>4, <2>5, <2>6
<1>2. CASE ~(Accepts(t, op) /\ op.key = k)
  <2>1. After(t, op, i)[k] = t[k]
    <3>1. CASE Accepts(t, op)
      <4>1. op \in Op /\ op.key # k
        BY <1>2, <3>1 DEF Accepts
      <4> QED
        BY <3>1, <4>1 DEF After, Tables, Op
    <3>2. CASE ~Accepts(t, op)
      BY <3>2 DEF After
    <3> QED
      BY <3>1, <3>2
  <2> QED
    BY <1>0, <2>1
<1> QED
  BY <1>1, <1>2

\* What a step may do to a record in memory.
NoRetreat ==
    \A n \in Node, k \in Key :
        restarts' = restarts /\ map[n][k] # NoRecord /\ map'[n][k] # NoRecord
            => map'[n][k].ver >= map[n][k].ver

LEMMA StepAdvances ==
    ASSUME VersionInv, Next
    PROVE  NoRetreat \/ map' = map
<1>0. TypeOK
  BY DEF VersionInv, DurableInv
<1>a. TypeOK /\ Len(log) \in Nat /\ restarts \in Nat
  BY <1>0 DEF TypeOK
<1>b. \A n \in Node, k \in Key : map[n][k] # NoRecord => map[n][k].ver \in Nat
  BY <1>a DEF TypeOK, Tables, Record
<1>1. ASSUME NEW c \in Client, call[c].ph # "idle", DeleteLock(c) PROVE NoRetreat
  <2>1. call[c] \in ActiveCall
    BY <1>a, <1>1, CallActive
  <2>3. \A n \in Node, k \in Key : map'[n][k] = map[n][k] \/ map'[n][k] = NoRecord
    BY <1>a, <1>1, <2>1, DeleteForgets
  <2> QED
    BY <2>3, <1>b DEF NoRetreat
<1>2. ASSUME NEW n \in Node, Execute(n) PROVE NoRetreat
  <2> DEFINE i == applied[n]
             w == After(map[n], log[i + 1], i)
  <2>1. map' = [map EXCEPT ![n] = w] /\ i < Len(log) /\ i \in Nat
    BY <1>2, <1>a DEF Execute, TypeOK
  <2>2. NamesOld(log[i + 1], i)
    <3>1. i + 1 \in 1 .. Len(log) /\ (i + 1) - 1 = i
      BY <2>1, <1>a
    <3> QED
      BY <3>1 DEF VersionInv
  <2>3. log[i + 1].kind # "blank" => log[i + 1] \in Op
    BY <2>1, <1>a, LogEntry
  <2>4. ASSUME NEW k \in Key, map[n][k] # NoRecord, w[k] # NoRecord PROVE w[k].ver >= map[n][k].ver
    BY <2>1, <2>2, <2>3, <2>4, <1>a, ExecuteAdvances DEF TypeOK
  <2> HIDE DEF w
  <2>5. map'[n] = w /\ \A m \in Node : m # n => map'[m] = map[m]
    BY <2>1, <1>a DEF TypeOK
  <2>6. ASSUME NEW m \in Node, NEW k \in Key, map[m][k] # NoRecord, map'[m][k] # NoRecord
        PROVE  map'[m][k].ver >= map[m][k].ver
    <3>1. CASE m = n
      BY <3>1, <2>4, <2>5, <2>6
    <3>2. CASE m # n
      <4>1. map'[m][k] = map[m][k] /\ map[m][k].ver \in Nat
        BY <3>2, <2>5, <2>6, <1>b
      <4> QED
        BY <4>1
    <3> QED
      BY <3>1, <3>2
  <2> QED
    BY <2>6 DEF NoRetreat
<1>3. ASSUME NEW n, NEW t, NEW d, NEW r, StartFrom(n, t, d, r) PROVE NoRetreat
  <2>1. restarts' # restarts
    BY <1>3, <1>a DEF StartFrom
  <2> QED
    BY <2>1 DEF NoRetreat
<1>4. ASSUME NEW c \in Client, ClientNext(c) PROVE NoRetreat \/ map' = map
  <2>1. ASSUME NEW n, NEW r, NEW k, NEW v, AcquireLock(c, n, r, k, v) \/ SetString(c, n, r, k, v)
        PROVE  map' = map
    BY <2>1 DEF AcquireLock, SetString, Call, execVars
  <2>2. Answer(c) \/ CallFails(c) => NoRetreat
    BY <1>1 DEF Answer, CallFails
  <2> QED
    BY <1>4, <2>1, <2>2 DEF ClientNext
<1>5. ASSUME NEW n \in Node, NodeNext(n) PROVE NoRetreat \/ map' = map
  <2>1. ASSUME NEW i, CleanPaxosLog(n, i) PROVE map' = map
    BY <2>1 DEF CleanPaxosLog, execVars
  <2>2. ASSUME NEW k, CleanRecord(n, k) PROVE map' = map
    BY <2>2 DEF CleanRecord, execVars
  <2>3. ASSUME NEW sync, ExecuteForCheckpoint(n, sync) PROVE map' = map
    BY <2>3 DEF ExecuteForCheckpoint, execVars
  <2>4. ASSUME MasterElect(n) \/ ReadNowInstanceID(n) \/ ReadMemoryCheckpoint(n)
               \/ ReadLastInstanceID(n) \/ WriteRestartCheckpoint(n)
        PROVE  map' = map
    BY <2>4 DEF MasterElect, ReadNowInstanceID, ReadMemoryCheckpoint, ReadLastInstanceID,
       WriteRestartCheckpoint, execVars
  <2>5. ASSUME NEW powercut, Restart(n, powercut) PROVE NoRetreat
    BY <2>5, <1>3 DEF Restart
  <2>6. ASSUME NEW m, LoadCheckpointState(n, m) PROVE NoRetreat
    BY <2>6, <1>3 DEF LoadCheckpointState
  <2> QED
    BY <1>2, <1>5, <2>1, <2>2, <2>3, <2>4, <2>5, <2>6 DEF NodeNext
<1>6. ASSUME NEW p \in pend, Chosen(p) \/ ProposalLost(p) PROVE map' = map
  BY <1>6 DEF Chosen, ProposalLost, execVars
<1>7. MasterLost => map' = map
  BY DEF MasterLost, execVars
<1> QED
  BY <1>4, <1>5, <1>6, <1>7 DEF Next

\* Executing or replaying an operation never replaces a record by an older
\* version of it, through restarts on a leveldb that is ahead of its checkpoint
\* and through checkpoint transfer (LockDb::AcquireLock, LockMgr::Init); only
\* strings that are set in any version are left out.
THEOREM VersionsAdvance == "set" \notin Requests => (Spec => VersionsNeverRetreat)
<1> SUFFICES ASSUME "set" \notin Requests PROVE Spec => VersionsNeverRetreat
  OBVIOUS
<1>1. Init => VersionInv
  <2> SUFFICES ASSUME Init PROVE VersionInv
    OBVIOUS
  <2>1. DurableInv
    BY InvariantStarts
  <2>2. Len(log) = 0 /\ pend = {}
    BY DEF Init
  <2>3. \A n \in Node : map[n] = NoRecords /\ db[n] = NoRecords /\ synced[n].table = NoRecords
    BY DEF Init
  <2>4. VersionsBefore(NoRecords, 0)
    BY DEF VersionsBefore, NoRecords
  <2> QED
    BY <2>1, <2>2, <2>3, <2>4 DEF VersionInv
<1>2. VersionInv /\ [Next]_vars => VersionInv'
  <2> SUFFICES ASSUME VersionInv, [Next]_vars PROVE VersionInv'
    OBVIOUS
  <2>1. DurableInv'
    BY InvariantStep DEF VersionInv
  <2>2. Len(log') >= Len(log) /\ \A i \in 1 .. Len(log') : NamesOld(log'[i], i - 1)
    BY LogNames
  <2>3. \A p \in pend' : NamesOld(p.op, Len(log'))
    BY PendNames
  <2>4. /\ Len(log) \in Nat /\ Len(log') \in Nat
        /\ \A n \in Node : map'[n] \in Tables /\ db'[n] \in Tables /\ synced'[n].table \in Tables
    <3>1. TypeOK /\ TypeOK'
      BY <2>1 DEF VersionInv, DurableInv
    <3>2. /\ log \in Seq(Op \cup {Blank}) /\ log' \in Seq(Op \cup {Blank})
          /\ map' \in [Node -> Tables] /\ db' \in [Node -> Tables]
          /\ synced' \in [Node -> [upto : Nat, table : Tables]]
      BY <3>1 DEF TypeOK
    <3>3. Len(log) \in Nat /\ Len(log') \in Nat
      BY <3>2
    <3> QED
      BY <3>2, <3>3
  <2>5. ASSUME NEW n \in Node
        PROVE  /\ VersionsBefore(map'[n], Len(log'))
               /\ VersionsBefore(db'[n], Len(log'))
               /\ VersionsBefore(synced'[n].table, Len(log'))
    <3>1. /\ VersionsBefore(map'[n], Len(log))
          /\ VersionsBefore(db'[n], Len(log))
          /\ VersionsBefore(synced'[n].table, Len(log))
      BY TableVersions
    <3> QED
      BY <3>1, <2>2, <2>4, VersionsWeaken
  <2> QED
    BY <2>1, <2>2, <2>3, <2>5 DEF VersionInv
<1>3. VersionInv /\ [Next]_vars => [NoRetreat]_map
  BY StepAdvances DEF vars
<1>4. VersionsNeverRetreat <=> [][NoRetreat]_map
  BY DEF VersionsNeverRetreat, NoRetreat
<1> QED
  BY <1>1, <1>2, <1>3, <1>4, PTL DEF Spec

-----------------------------------------------------------------------------
(* Agreement.                                                              *)

\* TookEffect and Done, of any log and history.
Took(l, h, j) ==
    LET op == l[j + 1] IN
    /\ op.kind # "blank"
    /\ h[j + 2][op.key] = IF op.free THEN NoRecord ELSE [ver |-> j, who |-> op.who]

DoneOf(l, h) == {[inst |-> i, op |-> l[i + 1]] : i \in {j \in 0 .. Len(h) - 2 : Took(l, h, j)}}

LEMMA DoneIsDoneOf == Done = DoneOf(log, hist) /\ Done' = DoneOf(log', hist')
  BY DEF Done, DoneOf, TookEffect, Took

\* What took effect is what was accepted.
LEMMA TookIsAccepted ==
    ASSUME NEW l, NEW h, NEW i \in Nat, NEW t \in Tables, VersionsBefore(t, i),
           l[i + 1].kind # "blank" => l[i + 1] \in Op, h[i + 2] = After(t, l[i + 1], i)
    PROVE  Took(l, h, i) <=> Accepts(t, l[i + 1])
<1>1. PICK op : op = l[i + 1]
  OBVIOUS
<1>2. CASE Accepts(t, op)
  <2>1. op \in Op /\ op.kind # "blank"
    BY <1>1, <1>2 DEF Accepts
  <2>2. op.key \in Key
    BY <2>1 DEF Op
  <2>3. h[i + 2] = [t EXCEPT ![op.key] = IF op.free THEN NoRecord ELSE [ver |-> i, who |-> op.who]]
    BY <1>1, <1>2 DEF After
  <2>4. h[i + 2][op.key] = IF op.free THEN NoRecord ELSE [ver |-> i, who |-> op.who]
    BY <2>2, <2>3 DEF Tables
  <2> QED
    BY <1>1, <1>2, <2>1, <2>4 DEF Took
<1>3. CASE ~Accepts(t, op)
  <2>1. h[i + 2] = t
    BY <1>1, <1>3 DEF After
  <2>2. SUFFICES ASSUME Took(l, h, i) PROVE FALSE
    BY <1>1, <1>3
  <2>3. op.kind # "blank" /\ t[op.key] = IF op.free THEN NoRecord ELSE [ver |-> i, who |-> op.who]
    BY <1>1, <2>1, <2>2 DEF Took
  <2>4. op \in Op /\ op.key \in Key
    BY <1>1, <2>3 DEF Op
  <2>5. t[op.key] # NoRecord
    BY <1>3, <2>3 DEF Accepts, Fits
  <2>6. t[op.key].ver = i
    BY <2>3, <2>5
  <2>7. t[op.key].ver < i
    BY <2>4, <2>5 DEF VersionsBefore
  <2> QED
    BY <2>6, <2>7
<1> QED
  BY <1>1, <1>2, <1>3

\* As the log and the history grow, so does what took effect.
LEMMA DoneGrows ==
    ASSUME NEW l, NEW h, NEW m, NEW g, Len(h) \in Nat, Len(g) \in Nat, Len(h) <= Len(g),
           \A j \in 1 .. Len(h) : g[j] = h[j],
           \A j \in 1 .. Len(h) - 1 : m[j] = l[j]
    PROVE  /\ DoneOf(l, h) \subseteq DoneOf(m, g)
           /\ \A d \in DoneOf(m, g) : d \in DoneOf(l, h) \/ d.inst \in Len(h) - 1 .. Len(g) - 2
           /\ \A d \in DoneOf(l, h) : d.inst \in 0 .. Len(h) - 2
<1>1. ASSUME NEW j \in 0 .. Len(h) - 2 PROVE Took(l, h, j) <=> Took(m, g, j)
  <2>1. j + 1 \in 1 .. Len(h) - 1 /\ j + 2 \in 1 .. Len(h)
    OBVIOUS
  <2>2. m[j + 1] = l[j + 1] /\ g[j + 2] = h[j + 2]
    BY <2>1
  <2> QED
    BY <2>2 DEF Took
<1>2. ASSUME NEW j \in 0 .. Len(h) - 2
      PROVE  [inst |-> j, op |-> l[j + 1]] = [inst |-> j, op |-> m[j + 1]]
  <2>1. j + 1 \in 1 .. Len(h) - 1
    OBVIOUS
  <2> QED
    BY <2>1
<1>3. \A j \in 0 .. Len(h) - 2 : j \in 0 .. Len(g) - 2
  OBVIOUS
<1>4. ASSUME NEW d \in DoneOf(l, h) PROVE d \in DoneOf(m, g) /\ d.inst \in 0 .. Len(h) - 2
  <2>1. PICK j \in 0 .. Len(h) - 2 : Took(l, h, j) /\ d = [inst |-> j, op |-> l[j + 1]]
    BY DEF DoneOf
  <2>2. Took(m, g, j) /\ d = [inst |-> j, op |-> m[j + 1]] /\ j \in 0 .. Len(g) - 2
    BY <2>1, <1>1, <1>2, <1>3
  <2>3. d \in DoneOf(m, g)
    BY <2>2 DEF DoneOf
  <2>4. d.inst = j
    BY <2>1
  <2> QED
    BY <2>3, <2>4
<1>5. ASSUME NEW d \in DoneOf(m, g)
      PROVE  d \in DoneOf(l, h) \/ d.inst \in Len(h) - 1 .. Len(g) - 2
  <2>1. PICK j \in 0 .. Len(g) - 2 : Took(m, g, j) /\ d = [inst |-> j, op |-> m[j + 1]]
    BY DEF DoneOf
  <2>2. CASE j <= Len(h) - 2
    <3>1. j \in 0 .. Len(h) - 2
      BY <2>2
    <3>2. Took(l, h, j) /\ d = [inst |-> j, op |-> l[j + 1]]
      BY <3>1, <2>1, <1>1, <1>2
    <3> QED
      BY <3>1, <3>2 DEF DoneOf
  <2>3. CASE ~(j <= Len(h) - 2)
    BY <2>1, <2>3
  <2> QED
    BY <2>2, <2>3
<1> QED
  BY <1>4, <1>5

LEMMA NoStart ==
    ASSUME MaxRestart = 0, TypeOK, NEW n, NEW t, NEW d, NEW r, StartFrom(n, t, d, r)
    PROVE  FALSE
  BY DEF StartFrom, TypeOK

\* The steps that matter to the tables.
LEMMA TableSteps ==
    ASSUME MaxRestart = 0, TypeOK, NoReleases, [Next]_vars
    PROVE  \/ UNCHANGED <<log, hist, map, applied, db, dbnext>>
           \/ \E v : log' = Append(log, v) /\ UNCHANGED <<hist, map, applied, db, dbnext>>
           \/ \E n \in Node : Execute(n)
           \/ \E n \in Node : \E sync \in BOOLEAN : ExecuteForCheckpoint(n, sync)
<1> DEFINE Same == UNCHANGED <<log, hist, map, applied, db, dbnext>>
           Goal == \/ Same
                   \/ \E v : log' = Append(log, v) /\ UNCHANGED <<hist, map, applied, db, dbnext>>
                   \/ \E n \in Node : Execute(n)
                   \/ \E n \in Node : \E sync \in BOOLEAN : ExecuteForCheckpoint(n, sync)
<1>1. ASSUME NEW c \in Client, ClientNext(c) PROVE Same
  <2>1. ASSUME NEW n, NEW r, NEW k, NEW v, AcquireLock(c, n, r, k, v) \/ SetString(c, n, r, k, v)
        PROVE  Same
    BY <2>1 DEF AcquireLock, SetString, Call, execVars, diskVars
  <2>2. CASE Answer(c)
    <3>1. map' = map
      BY <2>2, NoDelete DEF Answer
    <3> QED
      BY <2>2, <3>1 DEF Answer, logVars, diskVars
  <2>3. CASE CallFails(c)
    <3>1. map' = map
      BY <2>3, NoDelete DEF CallFails
    <3> QED
      BY <2>3, <3>1 DEF CallFails, diskVars
  <2> HIDE DEF Same
  <2> QED
    BY <1>1, <2>1, <2>2, <2>3 DEF ClientNext
<1>2. ASSUME NEW n \in Node, NodeNext(n) PROVE Goal
  <2>1. ASSUME NEW i, CleanPaxosLog(n, i) PROVE Same
    BY <2>1 DEF CleanPaxosLog, logVars, execVars, diskVars
  <2>2. ASSUME NEW k, CleanRecord(n, k) PROVE Same
    BY <2>2 DEF CleanRecord, execVars, diskVars
  <2>3. ASSUME ReadNowInstanceID(n) \/ ReadMemoryCheckpoint(n) \/ ReadLastInstanceID(n)
               \/ WriteRestartCheckpoint(n)
        PROVE  Same
    BY <2>3 DEF ReadNowInstanceID, ReadMemoryCheckpoint, ReadLastInstanceID,
       WriteRestartCheckpoint, logVars, execVars, diskVars
  <2>4. ASSUME NEW powercut, Restart(n, powercut) PROVE FALSE
    BY <2>4, NoStart DEF Restart
  <2>5. ASSUME NEW k, LoadCheckpointState(n, k) PROVE FALSE
    BY <2>5, NoStart DEF LoadCheckpointState
  <2>6. MasterElect(n) => log' = Append(log, Blank) /\ UNCHANGED <<hist, map, applied, db, dbnext>>
    BY DEF MasterElect, execVars, diskVars
  <2> HIDE DEF Same
  <2> QED
    BY <1>2, <2>1, <2>2, <2>3, <2>4, <2>5, <2>6 DEF NodeNext
<1>3. ASSUME NEW p \in pend, Chosen(p)
      PROVE  log' = Append(log, p.op) /\ UNCHANGED <<hist, map, applied, db, dbnext>>
  BY <1>3 DEF Chosen, execVars, diskVars
<1>4. ASSUME NEW p \in pend, ProposalLost(p) PROVE Same
  BY <1>4 DEF ProposalLost, execVars, diskVars
<1>5. MasterLost \/ UNCHANGED vars => Same
  BY DEF MasterLost, vars, logVars, execVars, diskVars
<1>6. Goal
  <2> HIDE DEF Same
  <2> QED
    BY <1>1, <1>2, <1>3, <1>4, <1>5 DEF Next
<1> QED
  BY <1>6

\* Execute adds to the history what it makes of the table, or finds it there.
LEMMA ExecuteHistory ==
    ASSUME TypeOK, HistoryOK, ReplicasAgree, NEW n \in Node, Execute(n), NEW i, i = applied[n],
           NEW new, new = After(map[n], log[i + 1], i)
    PROVE  /\ i \in Nat /\ i < Len(log) /\ map[n] = hist[i + 1] /\ new \in Tables
           /\ log' = log /\ Len(hist) \in Nat /\ Len(hist') \in Nat /\ Len(log) \in Nat
           /\ \/ Len(hist) = i + 1 /\ Len(hist') = i + 2
              \/ Len(hist) > i + 1 /\ hist' = hist
           /\ hist'[i + 2] = new
           /\ \A j \in 1 .. Len(hist) : hist'[j] = hist[j]
           /\ log[i + 1].kind # "blank" => log[i + 1] \in Op
           /\ VersionsBefore(map[n], i)
<1>1. i \in Nat /\ i < Len(log) /\ log' = log
  BY DEF Execute, TypeOK, logVars
<1>2. hist \in Seq(Tables) /\ Len(hist) \in Nat /\ Len(log) \in Nat /\ i < Len(hist)
  BY DEF TypeOK, HistoryOK
<1>3. map[n] = hist[i + 1] /\ map[n] \in Tables
  BY DEF ReplicasAgree, TypeOK
<1>4. log[i + 1].kind # "blank" => log[i + 1] \in Op
  BY <1>1, LogEntry
<1>5. new \in Tables
  BY <1>1, <1>3, <1>4, AfterType
<1>6. hist' = IF Len(hist) = i + 1 THEN Append(hist, new) ELSE hist
  BY DEF Execute
<1>7. VersionsBefore(map[n], i)
  <2>1. i + 1 \in 1 .. Len(hist) /\ (i + 1) - 1 = i
    BY <1>1, <1>2
  <2> QED
    BY <2>1, <1>3 DEF HistoryOK
<1>8. CASE Len(hist) = i + 1
  <2>1. hist' = Append(hist, new)
    BY <1>6, <1>8
  <2>2. Len(hist') = i + 2 /\ hist'[i + 2] = new /\ \A j \in 1 .. Len(hist) : hist'[j] = hist[j]
    BY <2>1, <1>1, <1>2, <1>5, <1>8
  <2> QED
    BY <2>2, <1>1, <1>2, <1>3, <1>4, <1>5, <1>7, <1>8
<1>9. CASE Len(hist) # i + 1
  <2>1. hist' = hist /\ Len(hist) > i + 1
    BY <1>1, <1>2, <1>6, <1>9
  <2>2. hist[i + 2] = new
    <3>1. i + 1 \in 1 .. Len(hist) - 1 /\ (i + 1) + 1 = i + 2 /\ (i + 1) - 1 = i
      BY <1>1, <1>2, <2>1
    <3> QED
      BY <3>1, <1>3 DEF HistoryOK
  <2> QED
    BY <2>1, <2>2, <1>1, <1>2, <1>3, <1>4, <1>5, <1>7
<1> QED
  BY <1>8, <1>9

\* The tables and the history of a step, and that both log and history grow.
LEMMA HistoryStep ==
    ASSUME MaxRestart = 0, AgreeInv, [Next]_vars
    PROVE  /\ HistoryOK' /\ ReplicasAgree'
           /\ Len(hist) \in Nat /\ Len(hist') \in Nat /\ Len(log) \in Nat /\ Len(log') \in Nat
           /\ Len(hist) <= Len(hist') /\ Len(log) <= Len(log') /\ Len(hist) <= Len(log) + 1
           /\ \A j \in 1 .. Len(hist) : hist'[j] = hist[j]
           /\ \A j \in 1 .. Len(log) : log'[j] = log[j]
<1>a. TypeOK /\ NoReleases /\ HistoryOK /\ ReplicasAgree
  BY DEF AgreeInv, DurableInv
<1>b. Len(hist) \in Nat /\ Len(log) \in Nat /\ Len(hist) <= Len(log) + 1
  BY <1>a DEF TypeOK, HistoryOK
<1>c. \A n \in Node : dbnext[n] \in Nat /\ applied[n] \in Nat /\ dbnext[n] <= applied[n]
                       /\ applied[n] < Len(hist) /\ applied[n] <= Len(log)
  <2> TAKE n \in Node
  <2>1. NodeOK(n)
    BY DEF AgreeInv, DurableInv
  <2>2. dbnext[n] \in Nat /\ applied[n] \in Nat
    BY <1>a DEF TypeOK
  <2> QED
    BY <1>a, <2>1, <2>2 DEF NodeOK, PositionsOK, HistoryOK
<1>1. CASE UNCHANGED <<log, hist, map, applied, db, dbnext>>
  BY <1>1, <1>a, <1>b DEF HistoryOK, ReplicasAgree
<1>2. CASE \E v : log' = Append(log, v) /\ UNCHANGED <<hist, map, applied, db, dbnext>>
  <2>1. PICK v : log' = Append(log, v) /\ UNCHANGED <<hist, map, applied, db, dbnext>>
    BY <1>2
  <2>2. Len(log') = Len(log) + 1 /\ \A j \in 1 .. Len(log) : log'[j] = log[j]
    BY <2>1, <1>a DEF TypeOK
  <2>3. ASSUME NEW i \in 1 .. Len(hist) - 1 PROVE hist[i + 1] = After(hist[i], log'[i], i - 1)
    <3>1. i \in 1 .. Len(log)
      BY <1>b
    <3> QED
      BY <3>1, <2>2, <1>a DEF HistoryOK
  <2>4. HistoryOK'
    BY <2>1, <2>2, <2>3, <1>a, <1>b DEF HistoryOK
  <2>5. ReplicasAgree'
    BY <2>1, <1>a DEF ReplicasAgree
  <2> QED
    BY <2>1, <2>2, <2>4, <2>5, <1>b
<1>3. CASE \E n \in Node : Execute(n)
  <2>1. PICK n \in Node : Execute(n)
    BY <1>3
  <2>2. PICK i : i = applied[n]
    OBVIOUS
  <2>3. PICK new : new = After(map[n], log[i + 1], i)
    OBVIOUS
  <2>4. /\ i \in Nat /\ i < Len(log) /\ map[n] = hist[i + 1] /\ new \in Tables
        /\ log' = log /\ Len(hist) \in Nat /\ Len(hist') \in Nat /\ Len(log) \in Nat
        /\ \/ Len(hist) = i + 1 /\ Len(hist') = i + 2
           \/ Len(hist) > i + 1 /\ hist' = hist
        /\ hist'[i + 2] = new
        /\ \A j \in 1 .. Len(hist) : hist'[j] = hist[j]
        /\ log[i + 1].kind # "blank" => log[i + 1] \in Op
        /\ VersionsBefore(map[n], i)
    BY <2>1, <2>2, <2>3, <1>a, ExecuteHistory
  <2>5. /\ map' = [map EXCEPT ![n] = new] /\ applied' = [applied EXCEPT ![n] = i + 1]
        /\ UNCHANGED <<db, dbnext>>
    BY <2>1, <2>2, <2>3 DEF Execute, diskVars
  <2>6. Len(hist) <= Len(hist') /\ i + 2 <= Len(hist') /\ Len(hist') <= Len(log) + 1
    BY <2>4, <1>b
  <2>7. ReplicasAgree'
    <3>1. ASSUME NEW m \in Node
          PROVE  map'[m] = hist'[applied'[m] + 1] /\ db'[m] = hist'[dbnext'[m] + 1]
      <4>1. dbnext[m] + 1 \in 1 .. Len(hist) /\ applied[m] + 1 \in 1 .. Len(hist)
        BY <1>c, <2>4
      <4>2. map[m] = hist[applied[m] + 1] /\ db[m] = hist[dbnext[m] + 1]
        BY <1>a DEF ReplicasAgree
      <4>3. db'[m] = hist'[dbnext'[m] + 1]
        BY <4>1, <4>2, <2>4, <2>5
      <4>4. CASE m = n
        <5>1. map'[m] = new /\ applied'[m] = i + 1 /\ (i + 1) + 1 = i + 2
          BY <4>4, <2>4, <2>5, <1>a DEF TypeOK
        <5> QED
          BY <5>1, <4>3, <2>4
      <4>5. CASE m # n
        <5>1. map'[m] = map[m] /\ applied'[m] = applied[m]
          BY <4>5, <2>5, <1>a DEF TypeOK
        <5> QED
          BY <5>1, <4>1, <4>2, <4>3, <2>4
      <4> QED
        BY <4>4, <4>5
    <3> QED
      BY <3>1 DEF ReplicasAgree
  <2>8. HistoryOK'
    <3>1. ASSUME NEW m \in Node PROVE applied'[m] < Len(hist')
      <4>1. applied'[m] = i + 1 \/ applied'[m] = applied[m]
        BY <2>5, <1>a DEF TypeOK
      <4> QED
        BY <4>1, <2>4, <2>6, <1>c
    <3>2. ASSUME NEW j \in 1 .. Len(hist') - 1 PROVE hist'[j + 1] = After(hist'[j], log[j], j - 1)
      <4>1. CASE j + 1 \in 1 .. Len(hist)
        <5>1. j \in 1 .. Len(hist) - 1 /\ j \in 1 .. Len(hist)
          BY <4>1, <2>4
        <5> QED
          BY <5>1, <4>1, <2>4, <1>a DEF HistoryOK
      <4>2. CASE j + 1 \notin 1 .. Len(hist)
        <5>1. j = i + 1 /\ Len(hist) = i + 1
          BY <4>2, <2>4
        <5>2. hist'[j] = map[n] /\ j + 1 = i + 2 /\ j - 1 = i
          BY <5>1, <2>4
        <5> QED
          BY <5>1, <5>2, <2>3, <2>4
      <4> QED
        BY <4>1, <4>2
    <3>3. ASSUME NEW j \in 1 .. Len(hist') PROVE VersionsBefore(hist'[j], j - 1)
      <4>1. CASE j \in 1 .. Len(hist)
        BY <4>1, <2>4, <1>a DEF HistoryOK
      <4>2. CASE j \notin 1 .. Len(hist)
        <5>1. j = i + 2 /\ j - 1 = i + 1
          BY <4>2, <2>4
        <5>2. VersionsBefore(map[n], i + 1)
          BY <2>4, <1>a, VersionsWeaken DEF TypeOK
        <5>3. VersionsBefore(new, i + 1)
          BY <5>2, <2>3, <2>4, <1>a, AfterVersions DEF TypeOK
        <5> QED
          BY <5>1, <5>3, <2>4
      <4> QED
        BY <4>1, <4>2
    <3> QED
      BY <3>1, <3>2, <3>3, <2>4, <2>6 DEF HistoryOK
  <2> QED
    BY <2>4, <2>6, <2>7, <2>8, <1>b
<1>4. CASE \E n \in Node : \E sync \in BOOLEAN : ExecuteForCheckpoint(n, sync)
  <2>1. PICK n \in Node : \E sync \in BOOLEAN : ExecuteForCheckpoint(n, sync)
    BY <1>4
  <2>2. PICK i : i = dbnext[n]
    OBVIOUS
  <2>3. PICK new : new = After(db[n], log[i + 1], i)
    OBVIOUS
  <2>4. /\ db' = [db EXCEPT ![n] = new] /\ dbnext' = [dbnext EXCEPT ![n] = i + 1] /\ i < applied[n]
        /\ UNCHANGED <<log, hist, map, applied>>
    BY <2>1, <2>2, <2>3 DEF ExecuteForCheckpoint, logVars, execVars
  <2>5. i \in Nat /\ i + 1 \in 1 .. Len(hist) - 1 /\ (i + 1) + 1 = i + 2 /\ (i + 1) - 1 = i
    BY <2>2, <2>4, <1>b, <1>c
  <2>6. db[n] = hist[i + 1]
    BY <2>2, <1>a DEF ReplicasAgree
  <2>7. hist[i + 2] = new
    BY <2>3, <2>5, <2>6, <1>a DEF HistoryOK
  <2>8. ReplicasAgree'
    <3>1. ASSUME NEW m \in Node PROVE db'[m] = hist[dbnext'[m] + 1]
      <4>1. CASE m = n
        <5>1. db'[m] = new /\ dbnext'[m] = i + 1
          BY <4>1, <2>4, <1>a DEF TypeOK
        <5> QED
          BY <5>1, <2>5, <2>7
      <4>2. CASE m # n
        <5>1. db'[m] = db[m] /\ dbnext'[m] = dbnext[m]
          BY <4>2, <2>4, <1>a DEF TypeOK
        <5> QED
          BY <5>1, <1>a DEF ReplicasAgree
      <4> QED
        BY <4>1, <4>2
    <3> QED
      BY <3>1, <2>4, <1>a DEF ReplicasAgree
  <2>9. HistoryOK'
    BY <2>4, <1>a DEF HistoryOK
  <2> QED
    BY <2>4, <2>8, <2>9, <1>b
<1> QED
  BY <1>1, <1>2, <1>3, <1>4, <1>a, TableSteps

\* The steps that matter to the calls.
LEMMA CallSteps ==
    ASSUME MaxRestart = 0, TypeOK, [Next]_vars
    PROVE  \/ UNCHANGED <<call, granted>> /\ \A q \in pend' : q \in pend \/ q.cli = Nobody
           \/ \E p \in pend : Chosen(p)
           \/ \E c \in Client : \E n, op : Call(c, n, op)
           \/ \E c \in Client : Answer(c) \/ CallFails(c)
           \/ \E n \in Node : Execute(n)
<1> DEFINE Same == UNCHANGED <<call, granted>> /\ \A q \in pend' : q \in pend \/ q.cli = Nobody
<1>1. ASSUME NEW c \in Client, ClientNext(c)
      PROVE  (\E n, op : Call(c, n, op)) \/ Answer(c) \/ CallFails(c)
  <2>1. ASSUME NEW n, NEW r, NEW k, NEW v, AcquireLock(c, n, r, k, v) \/ SetString(c, n, r, k, v)
        PROVE  \E m, op : Call(c, m, op)
    BY <2>1 DEF AcquireLock, SetString
  <2> QED
    BY <1>1, <2>1 DEF ClientNext
<1>2. ASSUME NEW n \in Node, NodeNext(n) PROVE Same \/ Execute(n)
  <2>1. ASSUME NEW i, CleanPaxosLog(n, i) PROVE Same
    BY <2>1 DEF CleanPaxosLog, logVars
  <2>2. ASSUME NEW k, CleanRecord(n, k) PROVE Same
    BY <2>2 DEF CleanRecord, Propose
  <2>3. ASSUME ReadNowInstanceID(n) \/ ReadMemoryCheckpoint(n) \/ ReadLastInstanceID(n)
               \/ WriteRestartCheckpoint(n) \/ MasterElect(n)
        PROVE  Same
    BY <2>3 DEF ReadNowInstanceID, ReadMemoryCheckpoint, ReadLastInstanceID,
       WriteRestartCheckpoint, MasterElect, logVars
  <2>4. ASSUME NEW powercut, Restart(n, powercut) PROVE FALSE
    BY <2>4, NoStart DEF Restart
  <2>5. ASSUME NEW k, LoadCheckpointState(n, k) PROVE FALSE
    BY <2>5, NoStart DEF LoadCheckpointState
  <2>6. ASSUME NEW sync, ExecuteForCheckpoint(n, sync) PROVE Same
    BY <2>6 DEF ExecuteForCheckpoint, logVars
  <2> HIDE DEF Same
  <2> QED
    BY <1>2, <2>1, <2>2, <2>3, <2>4, <2>5, <2>6 DEF NodeNext
<1>3. ASSUME NEW p \in pend, ProposalLost(p) PROVE Same
  BY <1>3 DEF ProposalLost
<1>4. MasterLost \/ UNCHANGED vars => Same
  BY DEF MasterLost, vars, logVars
<1> HIDE DEF Same
<1>5. \/ Same
      \/ \E p \in pend : Chosen(p)
      \/ \E c \in Client : \E n, op : Call(c, n, op)
      \/ \E c \in Client : Answer(c) \/ CallFails(c)
      \/ \E n \in Node : Execute(n)
  BY <1>1, <1>2, <1>3, <1>4 DEF Next
<1> QED
  BY <1>5 DEF Same

\* What took effect stays so.
LEMMA DoneStays ==
    ASSUME MaxRestart = 0, AgreeInv, [Next]_vars
    PROVE  Done \subseteq Done'
<1>1. /\ Len(hist) \in Nat /\ Len(hist') \in Nat /\ Len(log) \in Nat /\ Len(hist) <= Len(hist')
      /\ Len(hist) <= Len(log) + 1
      /\ \A j \in 1 .. Len(hist) : hist'[j] = hist[j]
      /\ \A j \in 1 .. Len(log) : log'[j] = log[j]
  BY HistoryStep
<1>2. \A j \in 1 .. Len(hist) - 1 : log'[j] = log[j]
  BY <1>1
<1> QED
  BY <1>1, <1>2, DoneGrows, DoneIsDoneOf

\* What a call knows stays true when it does not change.
LEMMA CallKeeps ==
    ASSUME MaxRestart = 0, AgreeInv, [Next]_vars, NEW c \in Client, call'[c] = call[c]
    PROVE  CallOK(c)'
<1>a. TypeOK /\ AnswersOK /\ CallOK(c)
  BY DEF AgreeInv, DurableInv
<1>1. Len(log) \in Nat /\ Len(log') \in Nat /\ Len(log) <= Len(log')
      /\ \A j \in 1 .. Len(log) : log'[j] = log[j]
  BY HistoryStep
<1>2. SUFFICES ASSUME call[c].ph # "idle"
      PROVE  /\ call[c].inst # NoCheckpoint =>
                    call[c].inst < Len(log') /\ log'[call[c].inst + 1] = call[c].op
             /\ call[c].ph = "done" /\ call[c].ok => [inst |-> call[c].inst, op |-> call[c].op] \in Done'
  BY DEF CallOK
<1>3. call[c].inst \in Nat \cup {NoCheckpoint}
  BY <1>a, <1>2, CallActive DEF ActiveCall, Instance
<1>4. ASSUME call[c].inst # NoCheckpoint
      PROVE  call[c].inst < Len(log') /\ log'[call[c].inst + 1] = call[c].op
  <2>1. call[c].inst < Len(log) /\ log[call[c].inst + 1] = call[c].op
    BY <1>a, <1>2, <1>4 DEF CallOK
  <2>2. call[c].inst + 1 \in 1 .. Len(log)
    BY <1>1, <1>3, <1>4, <2>1
  <2> QED
    BY <1>1, <1>3, <1>4, <2>1, <2>2
<1>5. ASSUME call[c].ph = "done" /\ call[c].ok
      PROVE  [inst |-> call[c].inst, op |-> call[c].op] \in Done'
  BY <1>a, <1>2, <1>5, DoneStays DEF CallOK
<1> QED
  BY <1>4, <1>5

\* What a call knows is true.
LEMMA CallStep ==
    ASSUME MaxRestart = 0, AgreeInv, [Next]_vars, NEW c \in Client
    PROVE  CallOK(c)'
<1>a. TypeOK /\ HistoryOK /\ ReplicasAgree /\ CallOK(c)
  BY DEF AgreeInv, DurableInv
<1>1. CASE call'[c] = call[c]
  BY <1>1, CallKeeps
<1>2. CASE call'[c].ph = "idle"
  BY <1>2 DEF CallOK
<1>3. ASSUME NEW p \in pend, Chosen(p) PROVE CallOK(c)'
  <2>1. CASE p.cli = c /\ p.cli # Nobody
    <3>1. call[c].ph = "wait" /\ call[c].op = p.op /\ p.op \in Op
      BY <2>1 DEF AgreeInv, DurableInv, TypeOK, ProposalOK
    <3>2. call[c] \in ActiveCall
      BY <1>a, <3>1, CallActive
    <3>3. call'[c] = [call[c] EXCEPT !.inst = Len(log)]
      BY <1>3, <2>1, <1>a DEF Chosen, TypeOK
    <3>4. call'[c].ph = "wait" /\ call'[c].op = p.op /\ call'[c].inst = Len(log)
      BY <3>1, <3>2, <3>3 DEF ActiveCall
    <3>5. Len(log) < Len(log') /\ log'[Len(log) + 1] = p.op
      BY <1>3, <1>a DEF Chosen, TypeOK
    <3> QED
      BY <3>4, <3>5 DEF CallOK
  <2>2. CASE ~(p.cli = c /\ p.cli # Nobody)
    <3>1. call'[c] = call[c]
      BY <1>3, <2>2, <1>a DEF Chosen, TypeOK
    <3> QED
      BY <3>1, <1>1
  <2> QED
    BY <2>1, <2>2
<1>4. ASSUME NEW d \in Client, NEW n, NEW op, Call(d, n, op) PROVE CallOK(c)'
  <2>1. CASE d = c
    <3>1. call'[c] = [ph |-> "wait", node |-> n, op |-> op, inst |-> NoCheckpoint, ok |-> FALSE]
      BY <1>4, <2>1, <1>a DEF Call, TypeOK
    <3> QED
      BY <3>1 DEF CallOK
  <2>2. CASE d # c
    <3>1. call'[c] = call[c]
      BY <1>4, <2>2, <1>a DEF Call, TypeOK
    <3> QED
      BY <3>1, <1>1
  <2> QED
    BY <2>1, <2>2
<1>5. ASSUME NEW d \in Client, Answer(d) \/ CallFails(d) PROVE CallOK(c)'
  <2>1. call'[c] = call[c] \/ call'[c] = IdleCall
    BY <1>5, <1>a DEF Answer, CallFails, TypeOK
  <2> QED
    BY <1>1, <1>2, <2>1, IdleTypes
<1>6. ASSUME NEW n \in Node, Execute(n) PROVE CallOK(c)'
  <2>1. PICK i : i = applied[n]
    OBVIOUS
  <2>2. PICK new : new = After(map[n], log[i + 1], i)
    OBVIOUS
  <2>3. /\ i \in Nat /\ i < Len(log) /\ log' = log /\ Len(hist) \in Nat /\ Len(hist') \in Nat
        /\ \/ Len(hist) = i + 1 /\ Len(hist') = i + 2
           \/ Len(hist) > i + 1 /\ hist' = hist
        /\ hist'[i + 2] = new
        /\ log[i + 1].kind # "blank" => log[i + 1] \in Op
        /\ VersionsBefore(map[n], i)
    BY <1>6, <1>a, <2>1, <2>2, ExecuteHistory
  <2>4. call' = Returns(n, i, Accepts(map[n], log[i + 1]))
    BY <1>6, <2>1 DEF Execute
  <2>5. CASE call[c].ph = "wait" /\ call[c].node = n /\ call[c].inst = i
    <3>1. call[c] \in ActiveCall
      BY <1>a, <2>5, CallActive
    <3>2. call'[c] = [call[c] EXCEPT !.ph = "done", !.ok = Accepts(map[n], log[i + 1])]
      BY <2>4, <2>5 DEF Returns
    <3>3. /\ call'[c].ph = "done" /\ call'[c].ok = Accepts(map[n], log[i + 1])
          /\ call'[c].op = call[c].op /\ call'[c].inst = i
      BY <2>5, <3>1, <3>2 DEF ActiveCall
    <3>4. i # NoCheckpoint
      BY <2>3 DEF NoCheckpoint
    <3>5. log[i + 1] = call[c].op
      BY <1>a, <2>5, <3>4 DEF CallOK
    <3>6. ASSUME Accepts(map[n], log[i + 1]) PROVE [inst |-> i, op |-> call[c].op] \in Done'
      <4>1. map[n] \in Tables
        BY <1>a DEF TypeOK
      <4>2. Took(log, hist', i)
        BY <2>2, <2>3, <3>6, <4>1, TookIsAccepted
      <4>3. i \in 0 .. Len(hist') - 2
        BY <2>3
      <4>4. [inst |-> i, op |-> log[i + 1]] \in DoneOf(log, hist')
        BY <4>2, <4>3 DEF DoneOf
      <4> QED
        BY <4>4, <3>5, <2>3, DoneIsDoneOf
    <3> QED
      BY <3>3, <3>5, <3>6, <2>3 DEF CallOK
  <2>6. CASE ~(call[c].ph = "wait" /\ call[c].node = n /\ call[c].inst = i)
    <3>1. call'[c] = call[c]
      BY <2>4, <2>6 DEF Returns
    <3> QED
      BY <3>1, <1>1
  <2> QED
    BY <2>5, <2>6
<1> QED
  BY <1>1, <1>3, <1>4, <1>5, <1>6, <1>a, CallSteps

\* A proposal is waited for by the call that made it, or by nobody.
LEMMA ProposalStep ==
    ASSUME MaxRestart = 0, AgreeInv, [Next]_vars, NEW q \in pend'
    PROVE  ProposalOK(q)'
<1>a. TypeOK /\ HistoryOK /\ ReplicasAgree /\ \A p \in pend : ProposalOK(p)
  BY DEF AgreeInv, DurableInv
<1>1. SUFFICES ASSUME q.cli # Nobody
      PROVE  /\ call'[q.cli].ph = "wait" /\ call'[q.cli].op = q.op
             /\ call'[q.cli].inst = NoCheckpoint
  BY DEF ProposalOK
<1> DEFINE Goal == /\ call'[q.cli].ph = "wait" /\ call'[q.cli].op = q.op
                   /\ call'[q.cli].inst = NoCheckpoint
<1>2. ASSUME q \in pend
      PROVE  /\ q.cli \in Client /\ call[q.cli].ph = "wait" /\ call[q.cli].op = q.op
             /\ call[q.cli].inst = NoCheckpoint /\ q = [op |-> q.op, cli |-> q.cli]
  BY <1>a, <1>1, <1>2 DEF TypeOK, ProposalOK
<1>3. ASSUME q \in pend, call'[q.cli] = call[q.cli] PROVE Goal
  BY <1>2, <1>3
<1>4. ASSUME UNCHANGED <<call, granted>>, \A p \in pend' : p \in pend \/ p.cli = Nobody PROVE Goal
  BY <1>1, <1>3, <1>4
<1>5. ASSUME NEW p \in pend, Chosen(p) PROVE Goal
  <2>1. q \in pend /\ q # p
    BY <1>5 DEF Chosen
  <2>2. ASSUME p.cli = q.cli PROVE FALSE
    <3>1. p.op = q.op /\ p = [op |-> p.op, cli |-> p.cli]
      BY <1>a, <1>1, <1>2, <2>1, <2>2 DEF TypeOK, ProposalOK
    <3> QED
      BY <3>1, <2>1, <2>2, <1>2
  <2>3. call'[q.cli] = call[q.cli]
    BY <1>2, <1>5, <1>a, <2>1, <2>2 DEF Chosen, TypeOK
  <2> QED
    BY <1>3, <2>1, <2>3
<1>6. ASSUME NEW c \in Client, NEW n, NEW op, Call(c, n, op) PROVE Goal
  <2>1. q \in pend \/ q = [op |-> op, cli |-> c]
    BY <1>6 DEF Call, Propose
  <2>2. CASE q \in pend
    <3>1. q.cli # c
      BY <1>2, <1>6, <2>2 DEF Call
    <3>2. call'[q.cli] = call[q.cli]
      BY <1>2, <1>6, <1>a, <2>2, <3>1 DEF Call, TypeOK
    <3> QED
      BY <1>3, <2>2, <3>2
  <2>3. ASSUME q = [op |-> op, cli |-> c] PROVE Goal
    <3>1. call'[c] = [ph |-> "wait", node |-> n, op |-> op, inst |-> NoCheckpoint, ok |-> FALSE]
      BY <1>6, <1>a DEF Call, TypeOK
    <3>2. q.cli = c /\ q.op = op
      BY <2>3
    <3> QED
      BY <3>1, <3>2
  <2> QED
    BY <2>1, <2>2, <2>3
<1>7. ASSUME NEW c \in Client, Answer(c) PROVE Goal
  <2>1. q \in pend
    BY <1>7 DEF Answer, logVars
  <2>2. q.cli # c
    BY <1>2, <1>7, <2>1 DEF Answer
  <2>3. call'[q.cli] = call[q.cli]
    BY <1>2, <1>7, <1>a, <2>1, <2>2 DEF Answer, TypeOK
  <2> QED
    BY <1>3, <2>1, <2>3
<1>8. ASSUME NEW c \in Client, CallFails(c) PROVE Goal
  <2>1. PICK p \in pend : q = [p EXCEPT !.cli = IF @ = c THEN Nobody ELSE @]
    BY <1>8 DEF CallFails
  <2>2. p = [op |-> p.op, cli |-> p.cli]
    BY <1>a DEF TypeOK
  <2>3. q.cli = IF p.cli = c THEN Nobody ELSE p.cli
    BY <2>1, <2>2
  <2>4. p.cli # c
    BY <1>1, <2>3
  <2>5. q = p
    BY <2>1, <2>2, <2>4
  <2>6. q \in pend /\ q.cli # c
    BY <2>4, <2>5
  <2>7. call'[q.cli] = call[q.cli]
    BY <1>2, <1>8, <1>a, <2>6 DEF CallFails, TypeOK
  <2> QED
    BY <1>3, <2>6, <2>7
<1>9. ASSUME NEW n \in Node, Execute(n) PROVE Goal
  <2>1. q \in pend
    BY <1>9 DEF Execute, logVars
  <2>2. PICK i : i = applied[n]
    OBVIOUS
  <2>3. call' = Returns(n, i, Accepts(map[n], log[i + 1])) /\ i \in Nat
    BY <1>9, <1>a, <2>2 DEF Execute, TypeOK
  <2>4. call[q.cli].inst # i
    BY <1>2, <2>1, <2>3 DEF NoCheckpoint
  <2>5. call'[q.cli] = call[q.cli]
    BY <1>2, <2>1, <2>3, <2>4 DEF Returns
  <2> QED
    BY <1>3, <2>1, <2>5
<1> HIDE DEF Goal
<1>10. Goal
  BY <1>4, <1>5, <1>6, <1>7, <1>8, <1>9, <1>a, CallSteps
<1> QED
  BY <1>10 DEF Goal

\* A client is told RET_OK only of what took effect.
LEMMA GrantStep ==
    ASSUME MaxRestart = 0, AgreeInv, [Next]_vars
    PROVE  /\ GrantedIsAcquired'
           /\ granted' = granted \/ \E d \in Done : granted' = granted \cup {d}
<1>a. TypeOK /\ GrantedIsAcquired /\ \A c \in Client : CallOK(c)
  BY DEF AgreeInv, DurableInv
<1>1. ASSUME NEW c \in Client, Answer(c)
      PROVE  granted' = granted \/ \E d \in Done : granted' = granted \cup {d}
  <2>1. CASE call[c].ok /\ ~call[c].op.free
    <3>1. [inst |-> call[c].inst, op |-> call[c].op] \in Done
      BY <1>1, <1>a, <2>1 DEF Answer, CallOK
    <3>2. granted' = granted \cup {[inst |-> call[c].inst, op |-> call[c].op]}
      BY <1>1, <2>1 DEF Answer
    <3> QED
      BY <3>1, <3>2
  <2>2. CASE ~(call[c].ok /\ ~call[c].op.free)
    BY <1>1, <2>2 DEF Answer
  <2> QED
    BY <2>1, <2>2
<1>2. granted' = granted \/ \E d \in Done : granted' = granted \cup {d}
  <2>1. ASSUME NEW p \in pend, Chosen(p) PROVE granted' = granted
    BY <2>1 DEF Chosen
  <2>2. ASSUME NEW c, NEW n, NEW op, Call(c, n, op) PROVE granted' = granted
    BY <2>2 DEF Call
  <2>3. ASSUME NEW c, CallFails(c) PROVE granted' = granted
    BY <2>3 DEF CallFails
  <2>4. ASSUME NEW n, Execute(n) PROVE granted' = granted
    BY <2>4 DEF Execute
  <2> QED
    BY <1>1, <1>a, <2>1, <2>2, <2>3, <2>4, CallSteps
<1>3. GrantedIsAcquired'
  BY <1>2, <1>a, DoneStays DEF GrantedIsAcquired
<1> QED
  BY <1>2, <1>3

LEMMA AgreeStarts == Init => AgreeInv
<1> SUFFICES ASSUME Init PROVE AgreeInv
  OBVIOUS
<1>1. DurableInv
  BY InvariantStarts
<1>2. NoReleases /\ \A c \in Client : CallOK(c)
  BY IdleTypes DEF Init, NoReleases, CallOK
<1>3. hist = <<NoRecords>> /\ Len(hist) = 1 /\ hist[1] = NoRecords /\ Len(log) = 0
  BY DEF Init
<1>4. \A k \in Key : NoRecords[k] = NoRecord
  BY DEF NoRecords
<1>5. HistoryOK
  <2>1. \A n \in Node : applied[n] < Len(hist)
    BY <1>3 DEF Init
  <2>2. \A i \in 1 .. Len(hist) - 1 : hist[i + 1] = After(hist[i], log[i], i - 1)
    BY <1>3
  <2>3. \A i \in 1 .. Len(hist) : VersionsBefore(hist[i], i - 1)
    BY <1>3, <1>4 DEF VersionsBefore
  <2> QED
    BY <1>3, <2>1, <2>2, <2>3 DEF HistoryOK
<1>6. ReplicasAgree
  BY <1>3 DEF ReplicasAgree, Init
<1>7. GrantedIsAcquired /\ \A p \in pend : ProposalOK(p)
  BY DEF Init, GrantedIsAcquired
<1> QED
  BY <1>1, <1>2, <1>5, <1>6, <1>7 DEF AgreeInv

LEMMA AgreeStep ==
    ASSUME MaxRestart = 0, "release" \notin Requests, AgreeInv, [Next]_vars
    PROVE  AgreeInv'
<1>1. DurableInv'
  BY InvariantStep DEF AgreeInv
<1>2. NoReleases'
  BY NoReleasesStep DEF AgreeInv, DurableInv
<1>3. HistoryOK' /\ ReplicasAgree'
  BY HistoryStep
<1>4. GrantedIsAcquired'
  BY GrantStep
<1>5. (\A c \in Client : CallOK(c))'
  BY CallStep
<1>6. (\A p \in pend : ProposalOK(p))'
  BY ProposalStep
<1> QED
  BY <1>1, <1>2, <1>3, <1>4, <1>5, <1>6 DEF AgreeInv

\* Agreement, for every number of nodes, clients, keys, requests and faults.
\* Where nobody releases a lock and no node restarts, AgreeInv always holds:
\* the history is what executing the log in order makes of an empty table, and
\* no server changes a table outside it.
THEOREM Agreement ==
    MaxRestart = 0 /\ "release" \notin Requests => (Spec => []AgreeInv)
<1> SUFFICES ASSUME MaxRestart = 0, "release" \notin Requests PROVE Spec => []AgreeInv
  OBVIOUS
<1>1. AgreeInv /\ [Next]_vars => AgreeInv'
  BY AgreeStep
<1> QED
  BY <1>1, AgreeStarts, PTL DEF Spec

\* The tables of all nodes, in memory and in leveldb, are the same at the same
\* instance (LockSM::Execute and ExecuteForCheckpoint), under the hypotheses of
\* Agreement; both are needed, as a release deletes outside the log and a
\* restart replays on a leveldb that is ahead.
THEOREM TablesAgree ==
    MaxRestart = 0 /\ "release" \notin Requests => (Spec => []ReplicasAgree)
<1> SUFFICES ASSUME MaxRestart = 0, "release" \notin Requests PROVE Spec => []ReplicasAgree
  OBVIOUS
<1>1. AgreeInv => ReplicasAgree
  BY DEF AgreeInv
<1> QED
  BY <1>1, Agreement, PTL

-----------------------------------------------------------------------------
(* The group acts as one table.                                            *)

\* Without a new table nothing takes effect.
LEMMA DoneSame ==
    ASSUME MaxRestart = 0, AgreeInv, [Next]_vars, hist' = hist
    PROVE  Done' = Done
<1>1. /\ Len(hist) \in Nat /\ Len(log) \in Nat /\ Len(hist) <= Len(log) + 1
      /\ \A j \in 1 .. Len(hist) : hist'[j] = hist[j]
      /\ \A j \in 1 .. Len(log) : log'[j] = log[j]
  BY HistoryStep
<1>2. \A j \in 1 .. Len(hist) - 1 : log'[j] = log[j]
  BY <1>1
<1>3. \A d \in DoneOf(log', hist) : d \in DoneOf(log, hist) \/ d.inst \in Len(hist) - 1 .. Len(hist) - 2
  BY <1>1, <1>2, DoneGrows
<1>4. Len(hist) - 1 .. Len(hist) - 2 = {}
  BY <1>1
<1>5. DoneOf(log, hist) \subseteq DoneOf(log', hist)
  BY <1>1, <1>2, DoneGrows
<1> QED
  BY <1>3, <1>4, <1>5, DoneIsDoneOf

\* The first executor of an instance performs its operation on the table or,
\* if the operation is refused or blank, skips.
LEMMA ExecuteActs ==
    ASSUME MaxRestart = 0, AgreeInv, [Next]_vars, NEW n \in Node, Execute(n), hist' # hist
    PROVE  (\E d \in Done' \ Done : Table!Perform(d.op)) \/ Table!Skip
<1>a. TypeOK /\ HistoryOK /\ ReplicasAgree
  BY DEF AgreeInv, DurableInv
<1>1. PICK i : i = applied[n]
  OBVIOUS
<1>2. PICK op : op = log[i + 1]
  OBVIOUS
<1>3. PICK new : new = After(map[n], op, i)
  OBVIOUS
<1>4. PICK t : t = map[n]
  OBVIOUS
<1>5. /\ i \in Nat /\ i < Len(log) /\ t = hist[i + 1] /\ log' = log
      /\ Len(hist) = i + 1 /\ Len(hist') = i + 2 /\ hist'[i + 2] = new
      /\ \A j \in 1 .. Len(hist) : hist'[j] = hist[j]
      /\ op.kind # "blank" => op \in Op
      /\ VersionsBefore(t, i) /\ t \in Tables
  <2>1. t \in Tables
    BY <1>4, <1>a DEF TypeOK
  <2> QED
    BY <2>1, <1>a, <1>1, <1>2, <1>3, <1>4, ExecuteHistory
<1>6. hist[Len(hist)] = t /\ hist'[Len(hist')] = new /\ Len(hist) - 1 = i /\ Len(hist') - 1 = i + 1
  BY <1>5
<1>7. granted' = granted
  BY DEF Execute
<1>8. Took(log, hist', i) <=> Accepts(t, op)
  BY <1>2, <1>3, <1>4, <1>5, TookIsAccepted
<1>9. PICK new_done : new_done = [inst |-> i, op |-> op]
  OBVIOUS
<1>10. /\ Done \subseteq Done'
       /\ \A d \in Done' : d \in Done \/ d.inst = i
       /\ \A d \in Done : d.inst # i
  <2>1. \A j \in 1 .. Len(hist) - 1 : log'[j] = log[j]
    BY <1>5
  <2>2. Len(hist) \in Nat /\ Len(hist') \in Nat /\ Len(hist) <= Len(hist')
    BY <1>5
  <2>3. /\ DoneOf(log, hist) \subseteq DoneOf(log', hist')
        /\ \A d \in DoneOf(log', hist') :
                d \in DoneOf(log, hist) \/ d.inst \in Len(hist) - 1 .. Len(hist') - 2
        /\ \A d \in DoneOf(log, hist) : d.inst \in 0 .. Len(hist) - 2
    BY <2>1, <2>2, <1>5, DoneGrows
  <2>4. \A j : j \in Len(hist) - 1 .. Len(hist') - 2 => j = i
    BY <1>5
  <2>5. i \notin 0 .. Len(hist) - 2
    BY <1>5
  <2> QED
    BY <2>3, <2>4, <2>5, DoneIsDoneOf
<1>11. \A d \in Done' : d.inst = i => Took(log, hist', i) /\ d = new_done
  <2> SUFFICES ASSUME NEW d \in Done', d.inst = i PROVE Took(log, hist', i) /\ d = new_done
    OBVIOUS
  <2>1. d \in DoneOf(log, hist')
    BY <1>5, DoneIsDoneOf
  <2>2. PICK j \in 0 .. Len(hist') - 2 : Took(log, hist', j) /\ d = [inst |-> j, op |-> log[j + 1]]
    BY <2>1 DEF DoneOf
  <2>3. j = i
    BY <2>2
  <2> QED
    BY <2>2, <2>3, <1>2, <1>9
<1>12. CASE Accepts(t, op)
  <2>1. new_done \in Done'
    <3>1. i \in 0 .. Len(hist') - 2
      BY <1>5
    <3>2. new_done \in DoneOf(log, hist')
      BY <3>1, <1>2, <1>8, <1>9, <1>12 DEF DoneOf
    <3> QED
      BY <3>2, <1>5, DoneIsDoneOf
  <2>2. new_done.inst = i /\ new_done.op = op
    BY <1>9
  <2>3. new_done \in Done' \ Done /\ Done' = Done \cup {new_done}
    BY <2>1, <2>2, <1>10, <1>11
  <2>4. t[op.key] # NoRecord => op.ver \in {t[op.key].ver, AnyVersion}
    BY <1>12 DEF Accepts, Fits
  <2>5. new = [t EXCEPT ![op.key] = IF op.free THEN NoRecord ELSE [ver |-> i, who |-> op.who]]
    BY <1>3, <1>4, <1>12 DEF After
  <2>6. Table!Perform(op)
    BY <2>3, <2>4, <2>5, <1>6, <1>7, <1>9 DEF Table!Perform
  <2> QED
    BY <2>2, <2>3, <2>6
<1>13. CASE ~Accepts(t, op)
  <2>1. Done' = Done
    BY <1>8, <1>10, <1>11, <1>13
  <2>2. new = t
    BY <1>3, <1>4, <1>13 DEF After
  <2>3. Table!Skip
    BY <2>1, <2>2, <1>6, <1>7 DEF Table!Skip
  <2> QED
    BY <2>3
<1> QED
  BY <1>12, <1>13

\* Every step is one of the table, or leaves it unchanged.
LEMMA ActsStep ==
    ASSUME MaxRestart = 0, AgreeInv, [Next]_vars
    PROVE  [Table!Next]_<<hist[Len(hist)], Len(hist) - 1, Done, granted>>
<1>1. CASE hist' = hist
  <2>1. Done' = Done
    BY <1>1, DoneSame
  <2>2. granted' = granted \/ \E d \in Done : granted' = granted \cup {d}
    BY GrantStep
  <2>3. ASSUME NEW d \in Done, granted' = granted \cup {d} PROVE Table!Answer(d)
    BY <1>1, <2>1, <2>3 DEF Table!Answer
  <2>4. hist'[Len(hist')] = hist[Len(hist)] /\ Len(hist') - 1 = Len(hist) - 1
    BY <1>1
  <2> QED
    BY <2>1, <2>2, <2>3, <2>4 DEF Table!Next
<1>2. CASE hist' # hist
  <2>1. PICK n \in Node : Execute(n)
    <3>1. TypeOK /\ NoReleases
      BY DEF AgreeInv, DurableInv
    <3>2. ASSUME NEW n, NEW sync, ExecuteForCheckpoint(n, sync) PROVE hist' = hist
      BY <3>2 DEF ExecuteForCheckpoint, execVars
    <3> QED
      BY <3>1, <3>2, <1>2, TableSteps
  <2>2. (\E d \in Done' \ Done : Table!Perform(d.op)) \/ Table!Skip
    BY <1>2, <2>1, ExecuteActs
  <2> QED
    BY <2>2 DEF Table!Next
<1> QED
  BY <1>1, <1>2

\* The lock service implements LockTable: one table of versioned records,
\* changed by one operation at a time, in which an operation takes effect only
\* on the version it names and RET_OK is answered only to one that did.  The
\* hypotheses are those of Agreement.
THEOREM ImplementsTable ==
    MaxRestart = 0 /\ "release" \notin Requests => (Spec => ActsAsOneTable)
<1> SUFFICES ASSUME MaxRestart = 0, "release" \notin Requests PROVE Spec => ActsAsOneTable
  OBVIOUS
<1>1. Init => Table!Init
  <2> SUFFICES ASSUME Init PROVE Table!Init
    OBVIOUS
  <2>1. hist[Len(hist)] = NoRecords /\ Len(hist) = 1 /\ granted = {}
    BY DEF Init
  <2>2. Done = {}
    <3>1. 0 .. Len(hist) - 2 = {}
      BY <2>1
    <3> QED
      BY <3>1 DEF Done
  <2> QED
    BY <2>1, <2>2 DEF Table!Init, NoRecords
<1>2. AgreeInv /\ [Next]_vars => [Table!Next]_<<hist[Len(hist)], Len(hist) - 1, Done, granted>>
  BY ActsStep
<1> QED
  BY <1>1, <1>2, Agreement, PTL DEF Spec, ActsAsOneTable, Table!Spec
=============================================================================
