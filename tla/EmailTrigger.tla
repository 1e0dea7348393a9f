---------------------------- MODULE EmailTrigger ----------------------------
(***************************************************************************)
(* The email trigger: it enqueues a mail first and marks it as seen then.  *)
(* It finds mails by SEARCH UNSEEN and names them by the number SEARCH      *)
(* returns, the place of the mail in the mailbox.  The mailbox is kept by  *)
(* an IMAP server: FETCH (RFC822) sets the \Seen flag of the mail it        *)
(* returns, and EXPUNGE by another client closes the gap a removed mail     *)
(* leaves.  Numbers stay as they are while a session only searches and     *)
(* fetches.  A FETCH that is answered NO, or without the mail, stops        *)
(* nobody: the job is enqueued with the number alone.                      *)
(***************************************************************************)
EXTENDS TriggerThreads, Sequences, SequencesExt

CONSTANTS
  MaxExpunges,  \* bound: mails that other clients remove
  MaxUnread     \* bound: fetches of a mail that do not return it

ASSUME EmailAssumption ==
  /\ IsFiniteSet(Items) /\ Keys = 1..Cardinality(Items)
  /\ MaxExpunges \in Nat /\ MaxUnread \in Nat

VARIABLES
  mailbox,   \* the mails, in the order of their numbers
  flagged,   \* the mails with the \Seen flag
  unread,    \* history: how many fetches of each mail did not return it
  expunges

mailVars == <<mailbox, flagged, unread, expunges>>
vars == <<commonVars, mailVars>>

\* A mail as a session knows it.
Entry == [number : Keys, mail : Items]

TypeOK ==
  /\ CommonTypeOK(Entry)
  /\ mailbox \in Seq(Items) /\ Len(mailbox) <= Cardinality(Items)
  /\ flagged \in SUBSET Items
  /\ unread \in [Items -> Nat]
  /\ expunges \in Nat

Init ==
  /\ CommonInit
  /\ mailbox = <<>> /\ flagged = {} /\ unread = [m \in Items |-> 0]
  /\ expunges = 0

\* A mail arrives, once; and is removed by another client after it was read.
Deliver(m) ==
  /\ m \notin ToSet(mailbox) \cup flagged
  /\ mailbox' = Append(mailbox, m)
  /\ UNCHANGED <<commonVars, flagged, unread, expunges>>

Expunge(n) ==
  /\ expunges < MaxExpunges
  /\ expunges' = expunges + 1
  /\ mailbox[n] \in flagged
  /\ mailbox' = RemoveAt(mailbox, n)
  /\ UNCHANGED <<commonVars, flagged, unread>>

Unseen == {[number |-> n, mail |-> mailbox[n]] :
             n \in {n \in DOMAIN mailbox : mailbox[n] \notin flagged}}

\* A session: login, select, search.
Search(t) == TakeBatch(t, Unseen) /\ UNCHANGED mailVars

\* Mutation: the place in the search result for the number of the mail.
KeyOf_Place(e) == 1 + Cardinality({f \in Unseen : f.number < e.number})

KeyOf(e) == e.number

\* The numbers come in ascending order.
CheckSeen(t) ==
  /\ \E e \in todo[t] :
       /\ \A f \in todo[t] : e.number <= f.number
       /\ IsSeen(t, e, KeyOf(e), "fetch")
  /\ UNCHANGED mailVars

\* Mutation: the session is read-only, FETCH sets no flag.
FlaggedByFetch_ReadOnly(t) == flagged

FlaggedByFetch(t) == flagged \cup {current[t].mail}

Fetch(t) ==
  /\ pc[t] = "fetch"
  /\ flagged' = FlaggedByFetch(t)
  /\ Goto(t, "enqueue")
  /\ UNCHANGED <<processVars, stopping, todo, current, seen, enqueued, boundVars, mailbox, unread, expunges>>

\* Answered NO, or without the mail, which stays unseen.
FetchWithoutMail(t) ==
  LET m == current[t].mail IN
  /\ pc[t] = "fetch"
  /\ unread[m] < MaxUnread
  /\ unread' = [unread EXCEPT ![m] = @ + 1]
  /\ Goto(t, "enqueue")
  /\ UNCHANGED <<processVars, stopping, todo, current, seen, enqueued, boundVars, mailbox, flagged, expunges>>

EnqueueMail(t) ==
  /\ Enqueue(t, current[t].mail)
  /\ Goto(t, "mark")
  /\ UNCHANGED <<processVars, stopping, todo, current, seen, boundVars, mailVars>>

EnqueueMailFails(t) == EnqueueFails(t) /\ UNCHANGED mailVars

MarkSeen(t) ==
  /\ pc[t] = "mark"
  /\ seen' = seen \cup {KeyOf(current[t])}
  /\ Drop(t)
  /\ UNCHANGED <<processVars, stopping, todo, enqueued, boundVars, mailVars>>

\* _mark_seen raises, inside the try of enqueue_jobs.
MarkSeenFails(t) ==
  /\ pc[t] = "mark"
  /\ Fails
  /\ Drop(t)
  /\ UNCHANGED <<processVars, stopping, todo, seen, enqueued, crashes, reloads, mailVars>>

\* An error of the IMAP server or of _is_seen: the rest of the batch is left
\* for the next poll.  A FETCH whose answer is lost may have set the flag.
SessionFails(t) ==
  /\ pc[t] \in {"poll", "scan", "fetch"} /\ (pc[t] = "poll" => t \notin stopping)
  /\ Fails
  /\ Goto(t, "poll")
  /\ todo' = [todo EXCEPT ![t] = {}]
  /\ current' = [current EXCEPT ![t] = None]
  /\ flagged' = flagged \/ (pc[t] = "fetch" /\ flagged' = FlaggedByFetch(t))
  /\ UNCHANGED <<processVars, stopping, seen, enqueued, crashes, reloads, mailbox, unread, expunges>>

ThreadProgress(t) ==
  \/ (LeaveLoop(t) \/ EndBatch(t)) /\ UNCHANGED mailVars
  \/ Search(t) \/ CheckSeen(t) \/ Fetch(t) \/ EnqueueMail(t) \/ MarkSeen(t)

Next ==
  \/ WorkerStep /\ UNCHANGED mailVars
  \/ \E m \in Items : Deliver(m)
  \/ \E n \in DOMAIN mailbox : Expunge(n)
  \/ \E t \in Threads :
       ThreadProgress(t) \/ FetchWithoutMail(t) \/ EnqueueMailFails(t) \/ MarkSeenFails(t) \/ SessionFails(t)

Spec == Init /\ [][Next]_vars

\* As for FeedTrigger.
Fairness ==
  /\ WF_vars(StartWorker /\ UNCHANGED mailVars)
  /\ WF_vars(EndReload /\ UNCHANGED mailVars)
  /\ \A t \in Threads : WF_vars(ThreadProgress(t))

FairSpec == Spec /\ Fairness

-----------------------------------------------------------------------------
(* Properties *)

\* Crashes and failures between enqueue and mark, and renumbered mails, make no
\* second job: the \Seen flag keeps a mail from the next search.  A second job
\* has one of two causes: the sessions of two threads that overlap after a hot
\* reload have both found the mail, or a FETCH did not return it, and so left it
\* without the flag: then all that is left to keep it from the next session is
\* the mark, under a number that need not stay the mail's.
DuplicatesHaveCauses == \A m \in Items : enqueued[m] <= 1 + reloads + unread[m]

\* As long as nothing raises and no mail is removed, every mail is enqueued, also
\* when a reload stops the thread that has just fetched it, and when the FETCH
\* did not return it.
EveryMailIsEnqueued ==
  \A m \in Items : m \in ToSet(mailbox) ~>
    (enqueued[m] > 0 \/ failures > 0 \/ crashes > 0 \/ expunges > 0)

\* README.md: "IMAP inbox polling with at-least-once delivery".
AtLeastOnce == \A m \in Items : m \in ToSet(mailbox) ~> enqueued[m] > 0
=============================================================================
