----------------------------- MODULE FeedTrigger -----------------------------
(***************************************************************************)
(* The triggers that mark an item as seen before they enqueue it: folder   *)
(* watch (an item is a file, its key the path) and RSS poll (an entry, its *)
(* guid).                                                                  *)
(***************************************************************************)
EXTENDS TriggerThreads

ASSUME FeedAssumption == Keys = Items

VARIABLE visible  \* the files in the folder, the entries in the feed

vars == <<commonVars, visible>>

TypeOK == CommonTypeOK(Items) /\ visible \in SUBSET Items

Init == CommonInit /\ visible = {}

\* A file appears, an entry is published; and goes away, seen or not.
Publish(i)  == i \notin visible /\ visible' = visible \cup {i} /\ UNCHANGED commonVars
Withdraw(i) == i \in visible /\ visible' = visible \ {i} /\ UNCHANGED commonVars

\* iterdir or _fetch_items.
Poll(t) == TakeBatch(t, visible) /\ UNCHANGED visible

\* _fetch_items makes an empty batch of every error.
PollFails(t) ==
  /\ pc[t] = "poll" /\ t \notin stopping
  /\ Fails
  /\ UNCHANGED <<processVars, threadVars, seen, enqueued, crashes, reloads, visible>>

\* Mutation: the batch is not checked against the table.
FirstStep_Enqueue == "enqueue"

\* What comes after _is_seen: _mark_seen.
FirstStep == "mark"

CheckSeen(t) ==
  /\ \E i \in todo[t] : IsSeen(t, i, i, FirstStep)
  /\ UNCHANGED visible

MarkSeen(t) ==
  /\ pc[t] = "mark"
  /\ seen' = seen \cup {current[t]}
  /\ Goto(t, "enqueue")
  /\ UNCHANGED <<processVars, stopping, todo, current, enqueued, boundVars, visible>>

EnqueueItem(t) ==
  /\ Enqueue(t, current[t])
  /\ Drop(t)
  /\ UNCHANGED <<processVars, stopping, todo, seen, boundVars, visible>>

EnqueueItemFails(t) == EnqueueFails(t) /\ UNCHANGED visible

\* An exception nothing catches - stat of a file that has just gone, a locked
\* trigger_state - ends the thread; nothing replaces it before the next reload.
ThreadDies(t) ==
  /\ pc[t] \in {"poll", "scan", "mark"}
  /\ Fails
  /\ Goto(t, "off")
  /\ todo' = [todo EXCEPT ![t] = {}]
  /\ current' = [current EXCEPT ![t] = None]
  /\ UNCHANGED <<processVars, stopping, seen, enqueued, crashes, reloads, visible>>

ThreadProgress(t) ==
  \/ (LeaveLoop(t) \/ EndBatch(t)) /\ UNCHANGED visible
  \/ Poll(t) \/ CheckSeen(t) \/ MarkSeen(t) \/ EnqueueItem(t)

Next ==
  \/ WorkerStep /\ UNCHANGED visible
  \/ \E i \in Items : Publish(i) \/ Withdraw(i)
  \/ \E t \in Threads :
       ThreadProgress(t) \/ PollFails(t) \/ EnqueueItemFails(t) \/ ThreadDies(t)

Spec == Init /\ [][Next]_vars

\* Threads are scheduled, joins time out and somebody starts the worker.
\* Nothing has to be published, to be withdrawn or to fail.
Fairness ==
  /\ WF_vars(StartWorker /\ UNCHANGED visible)
  /\ WF_vars(EndReload /\ UNCHANGED visible)
  /\ \A t \in Threads : WF_vars(ThreadProgress(t))

FairSpec == Spec /\ Fairness

-----------------------------------------------------------------------------
(* Properties *)

\* At most one job per item, through crashes, restarts, failures and items that
\* come back; as long as no hot reload makes two threads overlap.
AtMostOnceUntilReload == reloads = 0 => \A i \in Items : enqueued[i] <= 1

\* A hot reload, which makes two threads overlap, adds at most one duplicate.
DuplicatesNeedReloads == \A i \in Items : enqueued[i] <= 1 + reloads

\* An item that is marked and has no job is with a thread that will enqueue it,
\* or was lost to a fault: one item per failure, and per crash one for each
\* thread that was running.
LossesNeedFaults ==
  Cardinality({i \in Items : /\ i \in seen /\ enqueued[i] = 0
                             /\ ~\E t \in Threads : current[t] = i})
    <= failures + crashes * (1 + reloads)

\* Without faults, an item that stays visible gets its job, even when a reload
\* stops the thread that has just marked it.
EveryItemIsEnqueued ==
  \A i \in Items :
    <>[](i \in visible /\ failures = 0 /\ crashes = 0) => <>(enqueued[i] > 0)
=============================================================================
