-------------------------- MODULE FeedTriggerProofs --------------------------
(***************************************************************************)
(* For any number of items and threads, crashes and failures: hot reloads  *)
(* are the only cause of duplicates, and each adds at most one per item;   *)
(* faults are the only cause of losses, and cost at most one item for each *)
(* thread they hit.                                                        *)
(***************************************************************************)
EXTENDS FeedTrigger, FiniteSetTheorems, TLAPS

\* The threads that will still enqueue i.
Holders(i) == {t \in Threads : pc[t] \in {"mark", "enqueue"} /\ current[t] = i}

\* Only a marked item has jobs, or a thread about to enqueue it.
OnlySeenAreEnqueued ==
  \A i \in Items \ seen :
    /\ enqueued[i] = 0
    /\ \A t \in Threads : pc[t] = "enqueue" => current[t] # i

\* The jobs an item has, and those it may still get.
Promised == \A i \in Items : enqueued[i] + Cardinality(Holders(i)) <= 1 + reloads

HoldersHoldItems ==
  \A t \in Threads : pc[t] \in {"mark", "enqueue"} => current[t] \in Items

IInv == TypeOK /\ LiveThreads /\ HoldersHoldItems /\ OnlySeenAreEnqueued /\ Promised

-----------------------------------------------------------------------------
(* Lemmas *)

USE DEF PC

\* Fewer live threads, or fewer holders of an item, count for no more.
LEMMA Counting ==
  ASSUME NEW S \in SUBSET Threads, NEW T \in SUBSET S
  PROVE  /\ Cardinality(S) \in Nat /\ Cardinality(T) \in Nat
         /\ Cardinality(T) <= Cardinality(S)
<1>1. IsFiniteSet(S)
  BY TriggerAssumption, FS_Subset
<1>2. IsFiniteSet(T)
  BY <1>1, FS_Subset
<1>3. QED
  BY <1>1, <1>2, FS_Subset, FS_CardinalityType

\* One step keeps every type.
LEMMA TypeStep ==
  ASSUME IInv, [Next]_vars
  PROVE  TypeOK'
<1> USE TriggerAssumption, FeedAssumption DEF IInv, TypeOK, CommonTypeOK
<1>1. CASE UNCHANGED vars
  BY <1>1 DEF vars, commonVars, processVars, threadVars, boundVars
<1>2. CASE StartWorker /\ UNCHANGED visible
  BY <1>2 DEF StartWorker, Launch, boundVars
<1>3. CASE Crash /\ UNCHANGED visible
  <2>1. /\ pc' \in [Threads -> PC]
        /\ todo' \in [Threads -> SUBSET Items]
        /\ current' \in [Threads -> Items \cup {None}]
    BY <1>3 DEF Crash
  <2>2. /\ up' \in BOOLEAN /\ reloading' \in BOOLEAN /\ latest' = None
        /\ stopping' = {} /\ crashes' = crashes + 1
        /\ UNCHANGED <<seen, enqueued, reloads, failures, visible>>
    BY <1>3 DEF Crash
  <2>3. QED
    BY <2>1, <2>2
<1>4. CASE BeginReload /\ UNCHANGED visible
  BY <1>4 DEF BeginReload, LiveThreads
<1>5. CASE EndReload /\ UNCHANGED visible
  BY <1>5 DEF EndReload, Launch, boundVars
<1>6. CASE \E i \in Items : Publish(i) \/ Withdraw(i)
  BY <1>6 DEF Publish, Withdraw, commonVars, processVars, threadVars, boundVars
<1>7. ASSUME NEW t \in Threads,
             ThreadProgress(t) \/ PollFails(t) \/ EnqueueItemFails(t) \/ ThreadDies(t)
      PROVE  TypeOK'
  <2> USE DEF Goto, Drop, Fails, processVars, threadVars, boundVars
  <2>1. CASE LeaveLoop(t) /\ UNCHANGED visible
    BY <2>1 DEF LeaveLoop
  <2>2. CASE EndBatch(t) /\ UNCHANGED visible
    BY <2>2 DEF EndBatch
  <2>3. CASE Poll(t)
    BY <2>3 DEF Poll, TakeBatch
  <2>4. CASE CheckSeen(t)
    BY <2>4 DEF CheckSeen, IsSeen, FirstStep
  <2>5. CASE MarkSeen(t)
    BY <2>5 DEF MarkSeen, HoldersHoldItems
  <2>6. CASE EnqueueItem(t)
    BY <2>6 DEF EnqueueItem, Enqueue, HoldersHoldItems
  <2>7. CASE PollFails(t)
    BY <2>7 DEF PollFails
  <2>8. CASE EnqueueItemFails(t)
    BY <2>8 DEF EnqueueItemFails, EnqueueFails
  <2>9. CASE ThreadDies(t)
    BY <2>9 DEF ThreadDies
  <2>10. QED
    BY <1>7, <2>1, <2>2, <2>3, <2>4, <2>5, <2>6, <2>7, <2>8, <2>9 DEF ThreadProgress
<1>8. QED
  BY <1>1, <1>2, <1>3, <1>4, <1>5, <1>6, <1>7 DEF Next, WorkerStep

\* A step by which threads only end, lose their item or go from mark to enqueue.
LEMMA QuietStep ==
  ASSUME IInv, TypeOK',
         UNCHANGED <<up, reloading, latest, reloads, enqueued>>,
         seen \subseteq seen',
         \A t \in Threads : pc'[t] # "off" => pc[t] # "off",
         \A t \in Threads : pc'[t] \in {"mark", "enqueue"} =>
           pc[t] \in {"mark", "enqueue"} /\ current'[t] = current[t],
         \A t \in Threads : pc'[t] = "enqueue" =>
           pc[t] = "enqueue" \/ current[t] \in seen'
  PROVE  IInv'
<1> USE DEF IInv
<1>1. LiveThreads'
  <2>1. Live' \subseteq Live
    BY DEF Live
  <2>2. Live \subseteq Threads
    BY DEF Live
  <2>3. Cardinality(Live) \in Nat /\ Cardinality(Live') \in Nat
        /\ Cardinality(Live') <= Cardinality(Live)
    BY <2>1, <2>2, Counting
  <2>4. QED
    BY <2>1, <2>3 DEF LiveThreads, Joining, TypeOK, CommonTypeOK
<1>2. HoldersHoldItems'
  BY DEF HoldersHoldItems
<1>3. OnlySeenAreEnqueued'
  BY DEF OnlySeenAreEnqueued
<1>4. Promised'
  <2> SUFFICES ASSUME NEW i \in Items
               PROVE  enqueued'[i] + Cardinality(Holders(i)') <= 1 + reloads'
    BY DEF Promised
  <2>1. Holders(i)' \subseteq Holders(i) /\ Holders(i) \subseteq Threads
    BY DEF Holders
  <2>2. /\ Cardinality(Holders(i)) \in Nat /\ Cardinality(Holders(i)') \in Nat
        /\ Cardinality(Holders(i)') <= Cardinality(Holders(i))
    BY <2>1, Counting
  <2>3. QED
    BY <2>2 DEF Promised, TypeOK, CommonTypeOK
<1>5. QED
  BY <1>1, <1>2, <1>3, <1>4

\* A new thread holds nothing; the bound on threads has room for it.
LEMMA LaunchStep ==
  ASSUME IInv, TypeOK', UNCHANGED <<seen, enqueued, reloads, current>>,
         NEW t \in Threads, Launch(t), up', ~reloading',
         (~up /\ Live = {}) \/ (up /\ reloading)
  PROVE  IInv'
<1> USE DEF IInv, Launch
<1>1. Live \subseteq Threads /\ IsFiniteSet(Live)
  BY TriggerAssumption, FS_Subset DEF Live
<1>2. Live' = Live \cup {t}
  BY DEF Live, TypeOK, CommonTypeOK
<1>3. Cardinality(Live') = Cardinality(Live) + 1 /\ Cardinality(Live) \in Nat
  <2>1. t \notin Live
    BY DEF Live
  <2>2. QED
    BY <1>1, <1>2, <2>1, FS_AddElement, FS_CardinalityType
<1>4. LiveThreads'
  <2>1. CASE ~up /\ Live = {}
    <3>1. Cardinality(Live) = 0
      BY <2>1, FS_EmptySet
    <3>2. QED
      BY <1>3, <3>1 DEF LiveThreads, Joining, TypeOK, CommonTypeOK
  <2>2. CASE up /\ reloading
    BY <1>3, <2>2 DEF LiveThreads, Joining, TypeOK, CommonTypeOK
  <2>3. QED
    BY <2>1, <2>2
<1>5. \A s \in Threads : pc'[s] \in {"mark", "enqueue"} => pc'[s] = pc[s]
  BY DEF TypeOK, CommonTypeOK
<1>6. HoldersHoldItems' /\ OnlySeenAreEnqueued'
  BY <1>5 DEF HoldersHoldItems, OnlySeenAreEnqueued
<1>7. \A i \in Items : Holders(i)' = Holders(i)
  BY DEF Holders, TypeOK, CommonTypeOK
<1>8. Promised'
  BY <1>7 DEF Promised
<1>9. QED
  BY <1>4, <1>6, <1>8

-----------------------------------------------------------------------------
(* The invariant *)

LEMMA InvariantInit == Init => IInv
<1> SUFFICES ASSUME Init PROVE IInv
  OBVIOUS
<1> USE TriggerAssumption, FeedAssumption DEF Init, CommonInit
<1>1. TypeOK
  BY DEF TypeOK, CommonTypeOK
<1>2. Live = {} /\ \A i \in Items : Holders(i) = {}
  BY DEF Live, Holders
<1>3. LiveThreads /\ HoldersHoldItems /\ OnlySeenAreEnqueued
  BY <1>2 DEF LiveThreads, HoldersHoldItems, OnlySeenAreEnqueued
<1>4. Promised
  BY <1>2, FS_EmptySet DEF Promised
<1>5. QED
  BY <1>1, <1>3, <1>4 DEF IInv

LEMMA InvariantStep == IInv /\ [Next]_vars => IInv'
<1> SUFFICES ASSUME IInv, [Next]_vars PROVE IInv'
  OBVIOUS
<1>0. TypeOK /\ TypeOK'
  BY TypeStep DEF IInv
<1> USE DEF TypeOK, CommonTypeOK
<1>1. CASE UNCHANGED vars
  BY <1>0, <1>1, QuietStep DEF vars, commonVars, processVars, threadVars, boundVars
<1>2. CASE StartWorker
  <2>1. PICK t \in Threads : Launch(t)
    BY <1>2 DEF StartWorker
  <2>2. ~up /\ Live = {} /\ up' /\ ~reloading'
        /\ UNCHANGED <<seen, enqueued, reloads, current>>
    BY <1>2 DEF StartWorker, IInv, LiveThreads, boundVars
  <2>3. QED
    BY <1>0, <2>1, <2>2, LaunchStep
<1>3. CASE Crash
  <2>1. Live' = {} /\ ~up' /\ ~reloading'
    BY <1>3 DEF Crash, Live
  <2>2. \A i \in Items : Holders(i)' = {}
    BY <1>3 DEF Crash, Holders
  <2>3. LiveThreads' /\ HoldersHoldItems' /\ OnlySeenAreEnqueued'
    BY <1>3, <2>1 DEF Crash, IInv, LiveThreads, HoldersHoldItems, OnlySeenAreEnqueued
  <2>4. Promised'
    <3> SUFFICES ASSUME NEW i \in Items
                 PROVE  enqueued'[i] + Cardinality(Holders(i)') <= 1 + reloads'
      BY DEF Promised
    <3>1. Cardinality(Holders(i)') = 0
      BY <2>2, FS_EmptySet
    <3>2. Holders(i) \subseteq Threads
      BY DEF Holders
    <3>3. Cardinality(Holders(i)) \in Nat
      BY <3>2, Counting
    <3>4. enqueued'[i] = enqueued[i] /\ reloads' = reloads
      BY <1>3 DEF Crash
    <3>5. QED
      BY <1>0, <3>1, <3>3, <3>4 DEF IInv, Promised
  <2>5. QED
    BY <1>0, <2>3, <2>4 DEF IInv
<1>4. CASE BeginReload
  <2>1. Live' = Live /\ \A i \in Items : Holders(i)' = Holders(i)
    BY <1>4 DEF BeginReload, Live, Holders
  <2>2. Live \subseteq Threads /\ \A i \in Items : Holders(i) \subseteq Threads
    BY DEF Live, Holders
  <2>3. Cardinality(Live) \in Nat /\ \A i \in Items : Cardinality(Holders(i)) \in Nat
    BY <2>2, Counting
  <2>4. LiveThreads' /\ HoldersHoldItems' /\ OnlySeenAreEnqueued'
    BY <1>0, <1>4, <2>1, <2>3
       DEF BeginReload, IInv, LiveThreads, Joining, HoldersHoldItems, OnlySeenAreEnqueued
  <2>5. Promised'
    BY <1>0, <1>4, <2>1, <2>3 DEF BeginReload, IInv, Promised
  <2>6. QED
    BY <1>0, <2>4, <2>5 DEF IInv
<1>5. CASE EndReload
  <2>1. PICK t \in Threads : Launch(t)
    BY <1>5 DEF EndReload
  <2>2. up /\ reloading /\ up' /\ ~reloading'
        /\ UNCHANGED <<seen, enqueued, reloads, current>>
    BY <1>5 DEF EndReload, IInv, LiveThreads, boundVars
  <2>3. QED
    BY <1>0, <2>1, <2>2, LaunchStep
<1>6. CASE \E i \in Items : Publish(i) \/ Withdraw(i)
  BY <1>0, <1>6, QuietStep
     DEF Publish, Withdraw, commonVars, processVars, threadVars, boundVars
<1>7. ASSUME NEW t \in Threads,
             ThreadProgress(t) \/ PollFails(t) \/ EnqueueItemFails(t) \/ ThreadDies(t)
      PROVE  IInv'
  <2> USE DEF Goto, processVars, threadVars, boundVars
  <2>1. CASE LeaveLoop(t) /\ UNCHANGED visible
    BY <1>0, <2>1, QuietStep DEF LeaveLoop
  <2>2. CASE EndBatch(t) /\ UNCHANGED visible
    BY <1>0, <2>2, QuietStep DEF EndBatch
  <2>3. CASE Poll(t)
    BY <1>0, <2>3, QuietStep DEF Poll, TakeBatch
  <2>4. CASE CheckSeen(t)
    <3>1. PICK i \in Items : IsSeen(t, i, i, "mark")
      BY <1>0, <2>4 DEF CheckSeen, FirstStep
    <3>2. CASE i \in seen
      BY <1>0, <3>1, <3>2, QuietStep DEF IsSeen
    <3>3. CASE i \notin seen
      <4>1. /\ pc[t] = "scan" /\ pc' = [pc EXCEPT ![t] = "mark"]
            /\ current' = [current EXCEPT ![t] = i]
            /\ UNCHANGED <<up, reloading, latest, reloads, enqueued, seen>>
        BY <3>1, <3>3 DEF IsSeen
      <4>2. Live' = Live
        BY <1>0, <4>1 DEF Live
      <4>3. LiveThreads' /\ HoldersHoldItems' /\ OnlySeenAreEnqueued'
        BY <1>0, <4>1, <4>2
           DEF IInv, LiveThreads, Joining, HoldersHoldItems, OnlySeenAreEnqueued
      <4>4. Promised'
        <5> SUFFICES ASSUME NEW j \in Items
                     PROVE  enqueued'[j] + Cardinality(Holders(j)') <= 1 + reloads'
          BY DEF Promised
        <5>1. CASE j = i
          <6>1. Holders(i)' \subseteq Live /\ Live \subseteq Threads
            BY <1>0, <4>1 DEF Holders, Live
          <6>2. /\ Cardinality(Live) \in Nat /\ Cardinality(Holders(i)') \in Nat
                /\ Cardinality(Holders(i)') <= Cardinality(Live)
            BY <6>1, Counting
          <6>3. up
            BY <4>1 DEF IInv, LiveThreads, Live
          <6>4. enqueued[i] = 0 /\ Cardinality(Live) <= 1 + reloads
            BY <1>0, <3>3, <6>2, <6>3
               DEF IInv, OnlySeenAreEnqueued, LiveThreads, Joining
          <6>5. QED
            BY <1>0, <4>1, <5>1, <6>2, <6>4
        <5>2. CASE j # i
          <6>1. Holders(j)' = Holders(j)
            BY <1>0, <4>1, <5>2 DEF Holders
          <6>2. QED
            BY <4>1, <6>1 DEF IInv, Promised
        <5>3. QED
          BY <5>1, <5>2
      <4>5. QED
        BY <1>0, <4>3, <4>4 DEF IInv
    <3>4. QED
      BY <3>2, <3>3
  <2>5. CASE MarkSeen(t)
    BY <1>0, <2>5, QuietStep DEF MarkSeen
  <2>6. CASE EnqueueItem(t)
    <3> DEFINE i == current[t]
    <3>1. /\ pc[t] = "enqueue" /\ i \in Items /\ i \in seen
          /\ enqueued' = [enqueued EXCEPT ![i] = @ + 1]
          /\ pc' = [pc EXCEPT ![t] = "scan"]
          /\ current' = [current EXCEPT ![t] = None]
          /\ UNCHANGED <<up, reloading, latest, reloads, seen>>
      BY <1>0, <2>6
         DEF EnqueueItem, Enqueue, Drop, IInv, HoldersHoldItems, OnlySeenAreEnqueued
    <3>2. Live' = Live
      BY <1>0, <3>1 DEF Live
    <3>3. LiveThreads' /\ HoldersHoldItems' /\ OnlySeenAreEnqueued'
      BY <1>0, <3>1, <3>2
         DEF IInv, LiveThreads, Joining, HoldersHoldItems, OnlySeenAreEnqueued
    <3>4. Promised'
      <4> SUFFICES ASSUME NEW j \in Items
                   PROVE  enqueued'[j] + Cardinality(Holders(j)') <= 1 + reloads'
        BY DEF Promised
      <4>1. Holders(j)' = Holders(j) \ {t} /\ Holders(j) \subseteq Threads
        BY <1>0, <3>1 DEF Holders
      <4>2. /\ Cardinality(Holders(j)) \in Nat
            /\ Cardinality(Holders(j)')
                 = IF t \in Holders(j) THEN Cardinality(Holders(j)) - 1
                                       ELSE Cardinality(Holders(j))
        BY <4>1, TriggerAssumption, FS_Subset, FS_RemoveElement, FS_CardinalityType
      <4>3. t \in Holders(j) <=> j = i
        BY <3>1 DEF Holders
      <4>4. QED
        BY <1>0, <3>1, <4>2, <4>3 DEF IInv, Promised
    <3>5. QED
      BY <1>0, <3>3, <3>4 DEF IInv
  <2>7. CASE PollFails(t)
    BY <1>0, <2>7, QuietStep DEF PollFails
  <2>8. CASE EnqueueItemFails(t)
    BY <1>0, <2>8, QuietStep DEF EnqueueItemFails, EnqueueFails, Drop
  <2>9. CASE ThreadDies(t)
    BY <1>0, <2>9, QuietStep DEF ThreadDies
  <2>10. QED
    BY <1>7, <2>1, <2>2, <2>3, <2>4, <2>5, <2>6, <2>7, <2>8, <2>9 DEF ThreadProgress
<1>8. QED
  BY <1>1, <1>2, <1>3, <1>4, <1>5, <1>6, <1>7 DEF Next, WorkerStep

LEMMA InvariantHolds == Spec => []IInv
  BY InvariantInit, InvariantStep, PTL DEF Spec

-----------------------------------------------------------------------------
(* Theorems *)

\* However many crashes, failures, withdrawn and republished items there are,
\* an item gets one job, and at most one more for every hot reload (the join
\* timeout of _stop_trigger_threads lets the old thread run on).
THEOREM ReloadsBoundDuplicates == Spec => []DuplicatesNeedReloads
<1>1. IInv => DuplicatesNeedReloads
  <2> SUFFICES ASSUME IInv, NEW i \in Items PROVE enqueued[i] <= 1 + reloads
    BY DEF DuplicatesNeedReloads
  <2>1. Holders(i) \subseteq Threads
    BY DEF Holders
  <2>2. Cardinality(Holders(i)) \in Nat
    BY <2>1, Counting
  <2>3. QED
    BY <2>2 DEF IInv, Promised, TypeOK, CommonTypeOK
<1>2. QED
  BY <1>1, InvariantHolds, PTL

\* As long as no hot reload happens, one job per item: the promise the comment
\* in folder_watch.py and rss_poll.py makes about crashes.
THEOREM CrashesMakeNoDuplicates == Spec => []AtMostOnceUntilReload
<1>1. TypeOK /\ DuplicatesNeedReloads => AtMostOnceUntilReload
  BY DEF DuplicatesNeedReloads, AtMostOnceUntilReload, TypeOK, CommonTypeOK
<1>2. IInv => TypeOK
  BY DEF IInv
<1>3. QED
  BY <1>1, <1>2, InvariantHolds, ReloadsBoundDuplicates, PTL

-----------------------------------------------------------------------------
(* Marked items without a job *)

\* Between two items a thread is at none.
RestInv == \A t \in Threads : pc[t] \in {"off", "poll", "scan"} => current[t] = None

\* What nobody will enqueue any more.
Lost == {i \in Items : /\ i \in seen /\ enqueued[i] = 0
                       /\ ~\E t \in Threads : current[t] = i}

LossInv == RestInv /\ IsFiniteSet(Lost) /\ LossesNeedFaults

LEMMA RestStep == IInv /\ RestInv /\ [Next]_vars => RestInv'
<1> SUFFICES ASSUME IInv, RestInv, [Next]_vars PROVE RestInv'
  OBVIOUS
<1> USE DEF RestInv, IInv, TypeOK, CommonTypeOK, processVars, threadVars, boundVars
<1>1. CASE UNCHANGED vars \/ \E i \in Items : Publish(i) \/ Withdraw(i)
  BY <1>1 DEF vars, commonVars, Publish, Withdraw
<1>2. CASE WorkerStep
  BY <1>2 DEF WorkerStep, StartWorker, Crash, BeginReload, EndReload, Launch
<1>3. ASSUME NEW t \in Threads,
             ThreadProgress(t) \/ PollFails(t) \/ EnqueueItemFails(t) \/ ThreadDies(t)
      PROVE  RestInv'
  BY <1>3 DEF ThreadProgress, LeaveLoop, EndBatch, Poll, TakeBatch, CheckSeen, IsSeen, FirstStep,
              MarkSeen, EnqueueItem, Enqueue, Drop, PollFails, EnqueueItemFails, EnqueueFails,
              ThreadDies, Goto
<1> QED BY <1>1, <1>2, <1>3 DEF Next

\* A step after which more may be lost, but only items of X, and no more of them
\* than the bound grows by.
LEMMA LossStep ==
  ASSUME LossInv, NEW X, IsFiniteSet(X), Lost' \subseteq Lost \cup X,
         failures + crashes * (1 + reloads) \in Nat,
         failures' + crashes' * (1 + reloads') \in Nat,
         failures + crashes * (1 + reloads) + Cardinality(X)
           <= failures' + crashes' * (1 + reloads')
  PROVE  IsFiniteSet(Lost') /\ LossesNeedFaults'
<1>1. IsFiniteSet(Lost \cup X)
  BY FS_Union DEF LossInv
<1>2. Cardinality(Lost \cup X) <= Cardinality(Lost) + Cardinality(X)
  <2>1. Cardinality(Lost \cup X) = Cardinality(Lost) + Cardinality(X) - Cardinality(Lost \cap X)
    BY FS_Union DEF LossInv
  <2>2. IsFiniteSet(Lost \cap X)
    BY FS_Intersection DEF LossInv
  <2>3. /\ Cardinality(Lost) \in Nat /\ Cardinality(X) \in Nat
        /\ Cardinality(Lost \cap X) \in Nat
    BY <2>2, FS_CardinalityType DEF LossInv
  <2> QED BY <2>1, <2>3
<1>3. IsFiniteSet(Lost') /\ Cardinality(Lost') <= Cardinality(Lost \cup X)
  BY <1>1, FS_Subset
<1>4. /\ Cardinality(Lost) \in Nat /\ Cardinality(X) \in Nat
      /\ Cardinality(Lost') \in Nat /\ Cardinality(Lost \cup X) \in Nat
  BY <1>1, <1>3, FS_CardinalityType DEF LossInv
<1>5. Cardinality(Lost) <= failures + crashes * (1 + reloads)
  BY DEF LossInv, LossesNeedFaults, Lost
<1>6. Cardinality(Lost') <= failures' + crashes' * (1 + reloads')
  BY <1>2, <1>3, <1>4, <1>5
<1> QED BY <1>3, <1>6 DEF LossesNeedFaults, Lost

\* The bound: a number, a failure adds one to it, a reload makes it no smaller,
\* and a crash adds the threads that may have been alive.
LEMMA BoundGrows ==
  ASSUME NEW f \in Nat, NEW c \in Nat, NEW r \in Nat
  PROVE  /\ f + c * (1 + r) \in Nat
         /\ (f + 1) + c * (1 + r) = (f + c * (1 + r)) + 1
         /\ f + c * (1 + (r + 1)) = (f + c * (1 + r)) + c
         /\ f + (c + 1) * (1 + r) = (f + c * (1 + r)) + (1 + r)
OBVIOUS

LEMMA NextKeepsLoss == IInv /\ LossInv /\ [Next]_vars => LossInv'
<1> SUFFICES ASSUME IInv, LossInv, [Next]_vars PROVE IsFiniteSet(Lost') /\ LossesNeedFaults'
  BY RestStep DEF LossInv
<1>0. /\ TypeOK /\ None \notin Items /\ RestInv
      /\ failures \in Nat /\ crashes \in Nat /\ reloads \in Nat
  BY TriggerAssumption DEF IInv, LossInv, TypeOK, CommonTypeOK
<1> USE DEF processVars, threadVars, boundVars
<1> DEFINE Goal == IsFiniteSet(Lost') /\ LossesNeedFaults'
<1>1. ASSUME Lost' \subseteq Lost, UNCHANGED <<crashes, failures>>,
             reloads' \in {reloads, reloads + 1}
      PROVE  Goal
  <2>1. IsFiniteSet({}) /\ Cardinality({}) = 0
    BY FS_EmptySet
  <2>2. /\ failures + crashes * (1 + reloads) \in Nat
        /\ failures' + crashes' * (1 + reloads') \in Nat
        /\ failures + crashes * (1 + reloads) <= failures' + crashes' * (1 + reloads')
    <3>1. failures + crashes * (1 + reloads) \in Nat
      BY <1>0, BoundGrows
    <3>2. CASE reloads' = reloads
      BY <1>1, <3>1, <3>2
    <3>3. CASE reloads' = reloads + 1
      <4>1. failures' + crashes' * (1 + reloads') = (failures + crashes * (1 + reloads)) + crashes
        BY <1>0, <1>1, <3>3, BoundGrows
      <4> QED BY <1>0, <3>1, <4>1
    <3> QED BY <1>1, <3>2, <3>3
  <2> QED BY <1>1, <2>1, <2>2, LossStep
<1>2. ASSUME NEW i, Lost' \subseteq Lost \cup {i}, failures' = failures + 1,
             UNCHANGED <<crashes, reloads>>
      PROVE  Goal
  <2>1. IsFiniteSet({i}) /\ Cardinality({i}) = 1
    BY FS_Singleton
  <2>2. /\ failures + crashes * (1 + reloads) \in Nat
        /\ failures' + crashes' * (1 + reloads') = (failures + crashes * (1 + reloads)) + 1
    BY <1>0, <1>2, BoundGrows
  <2> QED BY <1>2, <2>1, <2>2, LossStep
<1>3. CASE UNCHANGED vars \/ \E i \in Items : Publish(i) \/ Withdraw(i)
  BY <1>0, <1>1, <1>3 DEF vars, commonVars, Publish, Withdraw, Lost
<1>4. CASE StartWorker \/ BeginReload \/ EndReload
  BY <1>0, <1>1, <1>4 DEF StartWorker, BeginReload, EndReload, Lost
<1>5. CASE Crash
  <2> DEFINE X == {current[t] : t \in Live}
  <2>1. up
    BY <1>5 DEF Crash
  <2>2. Live \subseteq Threads
    BY DEF Live
  <2>3. IsFiniteSet(Live) /\ Cardinality(Live) \in Nat
    BY <2>2, TriggerAssumption, FS_Subset, FS_CardinalityType
  <2>4. Cardinality(Live) <= 1 + reloads
    BY <1>0, <2>1, <2>3 DEF IInv, LiveThreads, Joining
  <2>5. [t \in Live |-> current[t]] \in Surjection(Live, X)
    BY DEF Surjection
  <2>6. IsFiniteSet(X) /\ Cardinality(X) <= Cardinality(Live)
    BY <2>3, <2>5, FS_Surjection
  <2>7. Cardinality(X) \in Nat
    BY <2>6, FS_CardinalityType
  <2>8. ASSUME NEW i \in Lost', i \notin Lost PROVE i \in X
    <3>1. i \in Items /\ i \in seen /\ enqueued[i] = 0
      BY <1>5, <2>8 DEF Lost, Crash
    <3>2. PICK t \in Threads : current[t] = i
      BY <2>8, <3>1 DEF Lost
    <3>3. t \in Live
      BY <1>0, <3>1, <3>2 DEF Live, RestInv
    <3> QED BY <3>2, <3>3
  <2>9. Lost' \subseteq Lost \cup X
    BY <2>8
  <2>10. /\ failures + crashes * (1 + reloads) \in Nat
         /\ failures' + crashes' * (1 + reloads')
              = (failures + crashes * (1 + reloads)) + (1 + reloads)
    BY <1>0, <1>5, BoundGrows DEF Crash
  <2>11. /\ failures' + crashes' * (1 + reloads') \in Nat
         /\ failures + crashes * (1 + reloads) + Cardinality(X)
              <= failures' + crashes' * (1 + reloads')
    BY <1>0, <2>3, <2>4, <2>6, <2>7, <2>10
  <2> QED BY <2>6, <2>9, <2>10, <2>11, LossStep
<1>6. ASSUME NEW t \in Threads,
             ThreadProgress(t) \/ PollFails(t) \/ EnqueueItemFails(t) \/ ThreadDies(t)
      PROVE  Goal
  <2> USE DEF Goto
  <2>1. CASE (LeaveLoop(t) \/ EndBatch(t)) \/ Poll(t)
    BY <1>0, <1>1, <2>1 DEF LeaveLoop, EndBatch, Poll, TakeBatch, Lost
  <2>2. CASE CheckSeen(t)
    <3>1. current' = current \/ \E i \in Items : current' = [current EXCEPT ![t] = i]
      BY <1>0, <2>2 DEF CheckSeen, IsSeen, TypeOK, CommonTypeOK
    <3>2. current[t] = None
      BY <1>0, <2>2 DEF CheckSeen, IsSeen, RestInv
    <3>3. UNCHANGED <<seen, enqueued, crashes, reloads, failures>>
      BY <2>2 DEF CheckSeen, IsSeen
    <3>4. Lost' \subseteq Lost
      BY <1>0, <3>1, <3>2, <3>3 DEF Lost, TypeOK, CommonTypeOK
    <3> QED BY <1>0, <1>1, <3>3, <3>4
  <2>3. CASE MarkSeen(t)
    BY <1>0, <1>1, <2>3 DEF MarkSeen, Lost
  <2>4. CASE EnqueueItem(t)
    <3>1. /\ current[t] \in Items
          /\ enqueued' = [enqueued EXCEPT ![current[t]] = @ + 1]
          /\ current' = [current EXCEPT ![t] = None]
          /\ UNCHANGED <<seen, crashes, reloads, failures>>
      BY <2>4 DEF EnqueueItem, Enqueue, Drop, IInv, HoldersHoldItems
    <3>2. Lost' \subseteq Lost
      BY <1>0, <3>1 DEF Lost, TypeOK, CommonTypeOK
    <3> QED BY <1>0, <1>1, <3>1, <3>2
  <2>5. CASE PollFails(t)
    <3>1. Lost' \subseteq Lost \cup {None}
      BY <2>5 DEF PollFails, Lost
    <3> QED BY <1>2, <2>5, <3>1 DEF PollFails, Fails
  <2>6. CASE EnqueueItemFails(t) \/ ThreadDies(t)
    <3>1. /\ current' = [current EXCEPT ![t] = None]
          /\ failures' = failures + 1
          /\ UNCHANGED <<seen, enqueued, crashes, reloads>>
      BY <2>6 DEF EnqueueItemFails, EnqueueFails, ThreadDies, Drop, Fails
    <3>2. Lost' \subseteq Lost \cup {current[t]}
      BY <1>0, <3>1 DEF Lost, TypeOK, CommonTypeOK
    <3> QED BY <1>2, <3>1, <3>2
  <2> QED BY <1>6, <2>1, <2>2, <2>3, <2>4, <2>5, <2>6 DEF ThreadProgress
<1> QED BY <1>3, <1>4, <1>5, <1>6 DEF Next, WorkerStep

\* Faults are the only way to lose an item: one for each failure, and for each
\* crash one for every thread the reloads may have left alive.
THEOREM FaultsBoundLosses == Spec => []LossesNeedFaults
<1>1. Init => LossInv
  <2> SUFFICES ASSUME Init PROVE LossInv
    OBVIOUS
  <2>1. Lost = {} /\ RestInv
    BY DEF Init, CommonInit, Lost, RestInv
  <2>2. IsFiniteSet(Lost) /\ Cardinality(Lost) = 0
    BY <2>1, FS_EmptySet
  <2>3. failures + crashes * (1 + reloads) \in Nat
    BY BoundGrows DEF Init, CommonInit
  <2> QED BY <2>1, <2>2, <2>3 DEF LossInv, LossesNeedFaults, Lost
<1>2. LossInv => LossesNeedFaults
  BY DEF LossInv
<1> QED BY <1>1, <1>2, NextKeepsLoss, InvariantHolds, PTL DEF Spec
=============================================================================
