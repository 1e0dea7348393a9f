--------------------------- MODULE TriggerThreads ---------------------------
(***************************************************************************)
(* What all polling triggers share: the threads that run_triggers starts   *)
(* in the worker process, their replacement on hot reload, which waits two *)
(* seconds for the old thread and starts the new one in any case, the dedup *)
(* table trigger_state, which survives the process, and the jobs enqueued.  *)
(* FeedTrigger and EmailTrigger add what their threads do.                  *)
(***************************************************************************)
EXTENDS Naturals, FiniteSets

CONSTANTS
  Items,        \* what a trigger enqueues jobs for: files, feed entries, mails
  Keys,         \* the item_key column
  Threads,      \* slots for trigger threads, the overlapping ones included
  None,
  MaxCrashes,   \* bound: deaths of the worker process
  MaxReloads,   \* bound: hot reloads
  MaxFailures   \* bound: database calls of trigger threads that raise

ASSUME TriggerAssumption ==
  /\ None \notin Items
  /\ IsFiniteSet(Threads)
  /\ MaxCrashes \in Nat /\ MaxReloads \in Nat /\ MaxFailures \in Nat

VARIABLES
  up,         \* the worker process runs
  reloading,  \* the hot reloader is between stop and start of the threads
  latest,     \* the thread that the trigger_threads list holds
  pc,         \* control state of each thread
  stopping,   \* threads whose stop_event is set
  todo,       \* the rest of the batch a thread is going through
  current,    \* the item a thread is at
  seen,       \* trigger_state: the keys of this trigger
  enqueued,   \* how many jobs were enqueued for each item
  crashes, reloads, failures

processVars == <<up, reloading, latest>>
threadVars  == <<pc, stopping, todo, current>>
boundVars   == <<crashes, reloads, failures>>
commonVars  == <<processVars, threadVars, seen, enqueued, boundVars>>

\* "poll" is the top of the while loop, "scan" the top of the for loop; the
\* others stand before the call they are named after.
PC == {"off", "poll", "scan", "fetch", "mark", "enqueue"}

CommonTypeOK(Batch) ==
  /\ up \in BOOLEAN /\ reloading \in BOOLEAN
  /\ latest \in Threads \cup {None}
  /\ pc \in [Threads -> PC]
  /\ stopping \in SUBSET Threads
  /\ todo \in [Threads -> SUBSET Batch]
  /\ current \in [Threads -> Batch \cup {None}]
  /\ seen \in SUBSET Keys
  /\ enqueued \in [Items -> Nat]
  /\ crashes \in Nat /\ reloads \in Nat /\ failures \in Nat

CommonInit ==
  /\ up = FALSE /\ reloading = FALSE /\ latest = None
  /\ pc = [t \in Threads |-> "off"]
  /\ stopping = {}
  /\ todo = [t \in Threads |-> {}]
  /\ current = [t \in Threads |-> None]
  /\ seen = {}
  /\ enqueued = [i \in Items |-> 0]
  /\ crashes = 0 /\ reloads = 0 /\ failures = 0

-----------------------------------------------------------------------------
(* The worker process and the hot reloader *)

\* run_triggers starts a thread, with a stop_event nobody has set.
Launch(t) ==
  /\ pc[t] = "off"
  /\ pc' = [pc EXCEPT ![t] = "poll"]
  /\ stopping' = stopping \ {t}
  /\ latest' = t

StartWorker ==
  /\ ~up
  /\ up' = TRUE
  /\ \E t \in Threads : Launch(t)
  /\ UNCHANGED <<reloading, todo, current, seen, enqueued, boundVars>>

\* The process ends, and its daemon threads with it.
Crash ==
  /\ up
  /\ crashes < MaxCrashes
  /\ crashes' = crashes + 1
  /\ up' = FALSE /\ reloading' = FALSE /\ latest' = None
  /\ pc' = [t \in Threads |-> "off"]
  /\ stopping' = {}
  /\ todo' = [t \in Threads |-> {}]
  /\ current' = [t \in Threads |-> None]
  /\ UNCHANGED <<seen, enqueued, reloads, failures>>

\* _restart_triggers sets the old stop_event ...
BeginReload ==
  /\ up /\ ~reloading
  /\ reloads < MaxReloads
  /\ reloads' = reloads + 1
  /\ reloading' = TRUE
  /\ stopping' = stopping \cup {latest}
  /\ UNCHANGED <<up, latest, pc, todo, current, seen, enqueued, crashes, failures>>

\* ... joins the old thread for two seconds, and starts a new one whether the
\* old one has ended or not.
EndReload ==
  /\ reloading
  /\ reloading' = FALSE
  /\ \E t \in Threads : Launch(t)
  /\ UNCHANGED <<up, todo, current, seen, enqueued, boundVars>>

-----------------------------------------------------------------------------
(* Threads *)

Goto(t, p) == pc' = [pc EXCEPT ![t] = p]

\* Mutation: a thread looks at its stop_event before every call.
LeaveLoop_Promptly(t) ==
  /\ pc[t] # "off"
  /\ t \in stopping
  /\ Goto(t, "off")
  /\ todo' = [todo EXCEPT ![t] = {}]
  /\ current' = [current EXCEPT ![t] = None]
  /\ UNCHANGED <<processVars, stopping, seen, enqueued, boundVars>>

\* The stop_event is looked at between batches only.
LeaveLoop(t) ==
  /\ pc[t] = "poll"
  /\ t \in stopping
  /\ Goto(t, "off")
  /\ UNCHANGED <<processVars, stopping, todo, current, seen, enqueued, boundVars>>

\* The for loop is through; the thread waits for the interval.
EndBatch(t) ==
  /\ pc[t] = "scan"
  /\ todo[t] = {}
  /\ Goto(t, "poll")
  /\ UNCHANGED <<processVars, stopping, todo, current, seen, enqueued, boundVars>>

\* The thread takes a batch to go through.
TakeBatch(t, batch) ==
  /\ pc[t] = "poll"
  /\ t \notin stopping
  /\ todo' = [todo EXCEPT ![t] = batch]
  /\ Goto(t, "scan")
  /\ UNCHANGED <<processVars, stopping, current, seen, enqueued, boundVars>>

\* _is_seen: an entry whose key is in the table is passed over, for another one
\* the thread goes on to next.
IsSeen(t, entry, key, next) ==
  /\ pc[t] = "scan"
  /\ entry \in todo[t]
  /\ todo' = [todo EXCEPT ![t] = @ \ {entry}]
  /\ IF key \in seen
     THEN UNCHANGED <<pc, current>>
     ELSE Goto(t, next) /\ current' = [current EXCEPT ![t] = entry]
  /\ UNCHANGED <<processVars, stopping, seen, enqueued, boundVars>>

\* The thread is done with its item.
Drop(t) ==
  /\ current' = [current EXCEPT ![t] = None]
  /\ Goto(t, "scan")

Fails ==
  /\ failures < MaxFailures
  /\ failures' = failures + 1

\* enqueue_jobs commits one job for the item.
Enqueue(t, item) ==
  /\ pc[t] = "enqueue"
  /\ enqueued' = [enqueued EXCEPT ![item] = @ + 1]

\* enqueue_jobs raises: logged, and the loop goes on with the next item.
EnqueueFails(t) ==
  /\ pc[t] = "enqueue"
  /\ Fails
  /\ Drop(t)
  /\ UNCHANGED <<processVars, stopping, todo, seen, enqueued, crashes, reloads>>

WorkerStep == StartWorker \/ Crash \/ BeginReload \/ EndReload

-----------------------------------------------------------------------------
(* How many threads there may be *)

Live == {t \in Threads : pc[t] # "off"}

Joining == IF reloading THEN 1 ELSE 0

\* The worker has one thread, and each reload makes one more possible.
LiveThreads ==
  /\ ~up => Live = {} /\ ~reloading
  /\ up => latest \in Threads /\ Cardinality(Live) + Joining <= 1 + reloads
=============================================================================
