------------------------------- MODULE Cursor -------------------------------
(***************************************************************************)
(* The cursors of one consumer group in one queue, on the node that serves *)
(* the group, at the grain of SyncCtrl's locks: a Get, the execution of    *)
(* synchronised cursors, a configured replay and the clearing of the       *)
(* cursors of a group that the topic config dropped each take several      *)
(* steps and run in threads of their own.  Store.tla has Gets and          *)
(* synchronised cursors over several nodes, but neither replays nor        *)
(* clearing.                                                               *)
(***************************************************************************)
EXTENDS Integers, FiniteSets, FiniteSetsExt

CONSTANTS
    NInst,       \* bound of the model: instances of the paxos log
    FirstInst,   \* GetMinChosenInstanceID
    Times,       \* timestamps
    NoItems,     \* instances of which no StorePaxosArgs has an item of the queue,
                 \* as those that synchronise cursors have none
    ReplayInfos, \* replay_infos: [cursor, time], cursor -1 if only time is set
    BadReads,    \* the sets of instances that one search may fail to read
    GetThread,   \* threads of the store that run a Get
    CursorLimit, \* limit of a Get
    MaxLate      \* bound of the model: time-outs, replays, configs, cursors
                 \* that another master acknowledged

Inst == 0..(NInst - 1)

ASSUME CursorAssumption ==
    /\ NInst \in Nat /\ FirstInst \in 0..NInst
    /\ Times \subseteq Nat /\ NoItems \subseteq Inst /\ BadReads \subseteq SUBSET Inst
    /\ CursorLimit \in Nat /\ MaxLate \in Nat
    /\ \A info \in ReplayInfos : info.cursor \in Int /\ info.cursor >= -1 /\ info.time \in Int

NoneYet == -1
NoStamp == -1

VARIABLES
    stamp,     \* the timestamp of each instance, fixed; an instance without
               \* StorePaxosArgs, such as a master lease, has none
    chosen,    \* GetNowInstanceID
    prevCur,   \* prev_cursor_id and next_cursor_id, NoneYet without the magic
    nextCur,
    acks,      \* what the next Get of the consumer acknowledges
    serving,   \* per thread, the Get it runs
    waiting,   \* the thread whose Get the consumer waits for, or 0
    syncing,   \* the cursor that SyncCursorID found to be ahead, and its step
    replaying, \* the same for Replay
    given,     \* instances whose items the group was given, here or elsewhere
    jumped,    \* the last instance that a replay passed over
    late

cursorVars == <<stamp, chosen, prevCur, nextCur, acks, serving, waiting,
                syncing, replaying, given, jumped, late>>

NoGet == [at |-> "free", prev |-> NoneYet, next |-> NoneYet, items |-> {}]
NoStep == [at |-> "free", to |-> NoneYet]
Steps == {"free", "prev", "next"}
CursorIDs == NoneYet..NInst

CursorTypeOK ==
    /\ stamp \in [Inst -> Times \cup {NoStamp}]
    /\ chosen \in FirstInst..NInst /\ waiting \in GetThread \cup {0}
    /\ prevCur \in CursorIDs /\ nextCur \in CursorIDs
    /\ acks \in CursorIDs /\ jumped \in CursorIDs
    /\ syncing \in [at : Steps, to : CursorIDs] /\ replaying \in [at : Steps, to : CursorIDs]
    /\ serving \in [GetThread ->
          [at : Steps, prev : CursorIDs, next : CursorIDs, items : SUBSET Inst]]
    /\ given \subseteq Inst /\ late \in 0..MaxLate

\* Timestamps never go back: the proposers' clocks agree.
Sorted(f) == \A i, j \in Inst : i < j /\ f[i] # NoStamp /\ f[j] # NoStamp => f[i] <= f[j]

HasStamp(i) == stamp[i] # NoStamp
HasItem(i) == i \in Inst \ NoItems /\ HasStamp(i)

CursorInit ==
    /\ stamp \in {f \in [Inst -> Times \cup {NoStamp}] : Sorted(f)}
    /\ chosen = FirstInst
    /\ prevCur = NoneYet /\ nextCur = NoneYet /\ acks = NoneYet
    /\ serving = [t \in GetThread |-> NoGet] /\ waiting = 0
    /\ syncing = NoStep /\ replaying = NoStep
    /\ given = 0..(FirstInst - 1) /\ jumped = NoneYet
    /\ late = 0

Late == late < MaxLate /\ late' = late + 1

\* Paxos chooses the next instance, with an item or not.
AddItem ==
    /\ chosen < NInst /\ chosen' = chosen + 1
    /\ UNCHANGED <<stamp, prevCur, nextCur, acks, serving, waiting, syncing,
                   replaying, given, jumped, late>>

-----------------------------------------------------------------------------
\* AdjustNextCursorID for a Get that acknowledges c.
Adjusted(c) ==
    IF nextCur = NoneYet \/ nextCur # c THEN <<prevCur, prevCur>>
                                        ELSE <<Max({prevCur, c}), c>>

\* The first CursorLimit items after an instance.
ItemsAfter(from) ==
    LET ahead == {i \in (from + 1)..(chosen - 1) : HasItem(i)}
    IN  {i \in ahead : Cardinality({j \in ahead : j < i}) < CursorLimit}

\* A Get that has not got its limit may walk on over instances without items:
\* before the checkpoint it reads one instance after another.
WalkedOver(last, n) ==
    {k \in (last + 1)..(chosen - 1) :
        n < CursorLimit /\ \A i \in (last + 1)..k : ~HasItem(i)}

\* A Get reads the items after next that are not at or before prev.
StartGet(t) ==
    LET adj == Adjusted(acks)
        from == Max({adj[1], adj[2], FirstInst - 1})
        found == ItemsAfter(from)
        last == IF found # {} THEN Max(found) ELSE from
        stay == IF found # {} THEN last ELSE Max({adj[1], adj[2]})
    IN
    /\ waiting = 0 /\ serving[t].at = "free"
    /\ waiting' = t
    /\ \E next \in {stay} \cup WalkedOver(last, Cardinality(found)) :
          serving' = [serving EXCEPT ![t] =
              [at |-> "prev", prev |-> adj[1], next |-> next, items |-> found]]
    /\ UNCHANGED <<stamp, chosen, prevCur, nextCur, acks, syncing, replaying,
                   given, jumped, late>>

\* Mutant: what a Get returns is acknowledged at once.
AckAtOnce(g) == g.next

\* The acknowledged cursor that a Get stores, unless there is none.
AckBefore(g) == IF g.prev = NoneYet THEN prevCur ELSE g.prev

UpdatePrev(t) ==
    /\ serving[t].at = "prev"
    /\ prevCur' = AckBefore(serving[t])
    /\ serving' = [serving EXCEPT ![t].at = "next"]
    /\ UNCHANGED <<stamp, chosen, nextCur, acks, waiting, syncing, replaying,
                   given, jumped, late>>

\* The next cursor; the consumer that still waits gets the items and handles
\* them before its next Get acknowledges them.
UpdateNext(t) ==
    /\ serving[t].at = "next"
    /\ nextCur' = IF serving[t].next = NoneYet THEN nextCur ELSE serving[t].next
    /\ serving' = [serving EXCEPT ![t] = NoGet]
    /\ IF waiting = t
       THEN /\ waiting' = 0
            /\ given' = given \cup serving[t].items
            /\ acks' = serving[t].next
       ELSE UNCHANGED <<waiting, given, acks>>
    /\ UNCHANGED <<stamp, chosen, prevCur, syncing, replaying, jumped, late>>

\* The consumer gives up on a Get and sends it again, or is replaced.
GiveUp(fresh) ==
    /\ waiting # 0 /\ Late
    /\ waiting' = 0
    /\ acks' = IF fresh THEN NoneYet ELSE acks
    /\ UNCHANGED <<stamp, chosen, prevCur, nextCur, serving, syncing,
                   replaying, given, jumped>>

\* A former master gave the group the next item that it did not have.
GivenElsewhere ==
    LET missing == {i \in 0..(chosen - 1) : HasItem(i) /\ i \notin given} IN
    /\ missing # {} /\ Late
    /\ given' = given \cup {Min(missing)}
    /\ UNCHANGED <<stamp, chosen, prevCur, nextCur, acks, serving, waiting,
                   syncing, replaying, jumped>>

-----------------------------------------------------------------------------
\* SyncCursorID compares a cursor that some master had acknowledged, ...
CompareSync(c) ==
    /\ syncing.at = "free" /\ c < chosen
    /\ \A i \in 0..c : HasItem(i) => i \in given
    /\ prevCur < c
    /\ syncing' = [at |-> "prev", to |-> c]
    /\ UNCHANGED <<stamp, chosen, prevCur, nextCur, acks, serving, waiting,
                   replaying, given, jumped, late>>

\* A step of SyncCursorID or Replay: prev first, then next.
StepTo(s) ==
    IF s.at = "prev" THEN prevCur' = s.to /\ UNCHANGED nextCur
                     ELSE nextCur' = s.to /\ UNCHANGED prevCur
AfterStep(s) == IF s.at = "prev" THEN [s EXCEPT !.at = "next"] ELSE NoStep

\* ... and stores it later, under the lock again.
ApplySyncStep ==
    /\ syncing.at # "free"
    /\ StepTo(syncing)
    /\ syncing' = AfterStep(syncing)
    /\ UNCHANGED <<stamp, chosen, acks, serving, waiting, replaying, given,
                   jumped, late>>

\* Mutant: an instance that cannot be read is taken for one that is deleted.
MovesUpOnError(i, time, gone, bad) ==
    \/ i < gone
    \/ i < chosen /\ (i \in bad \/ (HasStamp(i) /\ stamp[i] < time))

\* GetInstanceValue for a probe of the search: the instance is not chosen yet,
\* or does not exist, because the log cleaner has deleted what lies before gone
\* since GetMinChosenInstanceID was asked, or cannot be read, or its values are
\* looked through for StorePaxosArgs.  The search goes on above an instance that
\* does not exist or is older than the time, and below it in all other cases.
MovesUp(i, time, gone, bad) ==
    \/ i < gone
    \/ i < chosen /\ i \notin bad /\ HasStamp(i) /\ stamp[i] < time

\* Replay: a turn of the search for a timestamp between l and r, which probed
\* the instance last.
Probe(s, time, gone, bad) ==
    LET mid == s.l + ((s.r + 1 - s.l) \div 2) IN
    IF s.l >= s.r THEN s
    ELSE IF MovesUp(mid, time, gone, bad) THEN [l |-> mid, r |-> s.r, last |-> mid]
    ELSE [l |-> s.l, r |-> mid - 1, last |-> mid]

\* The instance that it probed last; it is over after NInst turns.
SearchPoint(time, gone, bad) ==
    LET turn[n \in 0..NInst] ==
          IF n = 0 THEN [l |-> FirstInst, r |-> chosen, last |-> -1]
                   ELSE Probe(turn[n - 1], time, gone, bad)
        last == turn[NInst].last
    IN  IF last = -1 THEN FirstInst ELSE last

ReplayPoint(info, gone, bad) ==
    IF info.cursor # -1 THEN Max({FirstInst, info.cursor})
                        ELSE SearchPoint(info.time, gone, bad)

\* Replay of a queue that a replay_info matches and that has a cursor.  What
\* it passes over is not delivered, as configured.
StartReplay(info, gone, bad) ==
    LET point == ReplayPoint(info, gone, bad) IN
    /\ replaying.at = "free" /\ Late
    /\ chosen > 0 /\ info.cursor <= chosen
    /\ prevCur # NoneYet
    /\ replaying' = [at |-> "prev", to |-> point]
    /\ jumped' = IF point > prevCur THEN Max({jumped, point}) ELSE jumped
    /\ UNCHANGED <<stamp, chosen, prevCur, nextCur, acks, serving, waiting,
                   syncing, given>>

ReplayStep ==
    /\ replaying.at # "free"
    /\ StepTo(replaying)
    /\ replaying' = AfterStep(replaying)
    /\ UNCHANGED <<stamp, chosen, acks, serving, waiting, syncing, given,
                   jumped, late>>

\* ClearSyncCtrl: the topic config has the group no longer; it may come back.
\* The same thread runs Replay.
ClearCursorID ==
    /\ replaying.at = "free" /\ prevCur # NoneYet /\ Late
    /\ prevCur' = NoneYet /\ nextCur' = NoneYet
    /\ UNCHANGED <<stamp, chosen, acks, serving, waiting, syncing, replaying,
                   given, jumped>>

CursorNext ==
    \/ AddItem \/ GivenElsewhere \/ ClearCursorID
    \/ \E t \in GetThread : StartGet(t) \/ UpdatePrev(t) \/ UpdateNext(t)
    \/ \E fresh \in BOOLEAN : GiveUp(fresh)
    \/ \E c \in Inst : CompareSync(c)
    \/ ApplySyncStep
    \/ \E info \in ReplayInfos, gone \in FirstInst..chosen, bad \in BadReads :
          StartReplay(info, gone, bad)
    \/ ReplayStep

-----------------------------------------------------------------------------
CursorSpec == CursorInit /\ [][CursorNext]_cursorVars

\* What was given to the group, or a replay was told to pass over, up to c.
Covered(c) == \A i \in 0..c : HasItem(i) => i \in given \/ i <= jumped

\* However Gets, synchronised cursors, replays and clearing interleave between
\* SyncCtrl's locks, the acknowledged cursor covers only items that the group
\* was given, or that a replay was told to pass over.
CursorCoversGiven == Covered(prevCur)

\* What each thread is about to store is covered before it stores it, and what
\* a Get is about to return is, once the consumer has its items.
StepsAreCovered ==
    /\ 0..(FirstInst - 1) \subseteq given /\ given \subseteq 0..(chosen - 1)
    /\ Covered(acks)
    /\ syncing.at = "prev" => Covered(syncing.to)
    /\ replaying.at = "prev" => Covered(replaying.to)
    /\ \A t \in GetThread :
        /\ serving[t].items \subseteq 0..(chosen - 1)
        /\ serving[t].at = "prev" => Covered(serving[t].prev)
        /\ serving[t].at # "free" => \A i \in 0..serving[t].next :
              HasItem(i) => i \in given \/ i <= jumped \/ i \in serving[t].items

StampsSorted == Sorted(stamp)

\* The inductive invariant behind CursorCoversGiven and ReplayStartsClose.
CursorInv == CursorTypeOK /\ StampsSorted /\ StepsAreCovered /\ CursorCoversGiven

\* Where the search for a timestamp ends, whatever the log cleaner deletes and
\* whichever reads fail meanwhile.  Of what is still there, only older items lie
\* between the first instance and the point, so that a replay passes over none
\* that is not, but for the first one and the one at the point.  And where older
\* items lie beyond the point, the search was led away by an instance before
\* them that it could not read or that holds no StorePaxosArgs.
ReplayStartsClose ==
    \A time \in Times, gone \in FirstInst..chosen, bad \in BadReads :
        LET point == SearchPoint(time, gone, bad)
            there == {i \in gone..(chosen - 1) : HasStamp(i)}
        IN  /\ \A i \in there : FirstInst < i /\ i < point => stamp[i] < time
            /\ \A i \in there : point < i /\ stamp[i] < time =>
                  \E j \in gone..i : point <= j /\ (j \in bad \/ ~HasStamp(j))
=============================================================================
