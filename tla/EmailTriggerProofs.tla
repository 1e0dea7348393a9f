-------------------------- MODULE EmailTriggerProofs --------------------------
(***************************************************************************)
(* For any number of mails and threads, crashes, failures and mails that   *)
(* other clients remove: the \Seen flag that FETCH sets keeps a mail from  *)
(* a second job.  A hot reload, whose join timeout leaves two sessions open *)
(* at once, allows one more, and so does a FETCH that sets no flag.        *)
(***************************************************************************)
EXTENDS EmailTrigger, FiniteSetTheorems, SequenceTheorems, TLAPS

\* The threads that may still enqueue m: it is in the rest of their batch, or
\* they are on the way to it.
Holders(m) ==
  {t \in Threads : \/ \E e \in todo[t] : e.mail = m
                   \/ pc[t] \in {"fetch", "enqueue"} /\ current[t].mail = m}

\* No mail is twice in the mailbox.
MailboxInv == \A k, n \in DOMAIN mailbox : mailbox[k] = mailbox[n] => k = n

\* A thread has a batch only while it goes through one, and every mail once.
BatchInv ==
  \A t \in Threads :
    /\ pc[t] \in {"off", "poll"} => todo[t] = {}
    /\ \A e, f \in todo[t] : e.mail = f.mail => e = f
    /\ pc[t] \in {"fetch", "enqueue", "mark"} =>
         current[t] \in Entry /\ \A e \in todo[t] : e.mail # current[t].mail

\* The threads that have fetched m, and are about to enqueue it.
Fetched(m) == {t \in Threads : pc[t] = "enqueue" /\ current[t].mail = m}

\* A mail without the flag has been enqueued, or is about to be, by those whose
\* FETCH did not return it.
FlagInv ==
  \A m \in Items \ flagged : enqueued[m] + Cardinality(Fetched(m)) <= unread[m]

\* The jobs a mail has, and those it may still get.
Promised ==
  \A m \in Items : enqueued[m] + Cardinality(Holders(m)) <= 1 + reloads + unread[m]

IInv == TypeOK /\ LiveThreads /\ MailboxInv /\ BatchInv /\ FlagInv /\ Promised

-----------------------------------------------------------------------------
(* Lemmas *)

USE DEF PC

\* Fewer live threads, or fewer holders of a mail, count for no more.
LEMMA Counting ==
  ASSUME NEW S \in SUBSET Threads, NEW T \in SUBSET S
  PROVE  /\ Cardinality(S) \in Nat /\ Cardinality(T) \in Nat
         /\ Cardinality(T) <= Cardinality(S)
<1>1. IsFiniteSet(S)
  BY TriggerAssumption, FS_Subset
<1>2. IsFiniteSet(T)
  BY <1>1, FS_Subset
<1>3. QED
  BY <1>1, <1>2, FS_Subset, FS_CardinalityType

\* A mailbox that holds no mail twice is no longer than there are mails.
LEMMA MailboxFits ==
  ASSUME NEW s \in Seq(Items), \A k, n \in DOMAIN s : s[k] = s[n] => k = n
  PROVE  Len(s) <= Cardinality(Items)
<1>1. s \in Injection(1..Len(s), Items)
  BY DEF Injection, IsInjective
<1>2. Cardinality(1..Len(s)) <= Cardinality(Items)
  BY <1>1, EmailAssumption, FS_Injection
<1>3. Cardinality(1..Len(s)) = Len(s)
  <2>1. Len(s) \in Nat
    OBVIOUS
  <2>2. Cardinality(1..Len(s)) = IF 1 > Len(s) THEN 0 ELSE Len(s) - 1 + 1
    BY <2>1, FS_Interval
  <2> QED BY <2>1, <2>2
<1> QED BY <1>2, <1>3

\* EXPUNGE: the mails behind the removed one move up by one place.
LEMMA Expunged ==
  ASSUME NEW s \in Seq(Items), NEW n \in DOMAIN s
  PROVE  /\ RemoveAt(s, n) \in Seq(Items)
         /\ Len(RemoveAt(s, n)) = Len(s) - 1
         /\ \A k \in DOMAIN RemoveAt(s, n) :
              RemoveAt(s, n)[k] = IF k < n THEN s[k] ELSE s[k + 1]
<1> DEFINE a == SubSeq(s, 1, n - 1)
           b == SubSeq(s, n + 1, Len(s))
<1>1. n \in 1..Len(s) /\ Len(s) \in Nat
  OBVIOUS
<1>2. a \in Seq(Items) /\ Len(a) = n - 1 /\ \A k \in 1..(n - 1) : a[k] = s[k]
  BY <1>1
<1>3. /\ b \in Seq(Items) /\ Len(b) = Len(s) - n
      /\ \A k \in 1..(Len(s) - n) : b[k] = s[k + n]
  BY <1>1
<1>4. RemoveAt(s, n) = a \o b
  BY DEF RemoveAt
<1> HIDE DEF a, b
<1>5. /\ a \o b \in Seq(Items) /\ Len(a \o b) = Len(s) - 1
      /\ \A k \in 1..(Len(s) - 1) :
           (a \o b)[k] = IF k < n THEN a[k] ELSE b[k - (n - 1)]
  <2>1. a \o b \in Seq(Items) /\ Len(a \o b) = Len(a) + Len(b)
    BY <1>2, <1>3, ConcatProperties
  <2>2. \A k \in 1..(Len(a) + Len(b)) :
          (a \o b)[k] = IF k <= Len(a) THEN a[k] ELSE b[k - Len(a)]
    BY <1>2, <1>3, ConcatProperties
  <2>3. Len(a) + Len(b) = Len(s) - 1
    BY <1>1, <1>2, <1>3
  <2>4. \A k \in 1..(Len(s) - 1) : k <= n - 1 <=> k < n
    BY <1>1
  <2> QED BY <1>2, <2>1, <2>2, <2>3, <2>4
<1>6. ASSUME NEW k \in 1..(Len(s) - 1)
      PROVE  (a \o b)[k] = IF k < n THEN s[k] ELSE s[k + 1]
  <2>1. CASE k < n
    BY <1>1, <1>2, <1>5, <2>1
  <2>2. CASE ~(k < n)
    <3>1. k - (n - 1) \in 1..(Len(s) - n) /\ (k - (n - 1)) + n = k + 1
      BY <1>1, <2>2
    <3>2. b[k - (n - 1)] = s[k + 1]
      BY <1>3, <3>1
    <3> QED BY <1>5, <2>2, <3>2
  <2> QED BY <1>1, <2>1, <2>2
<1>7. DOMAIN (a \o b) = 1..(Len(s) - 1)
  BY <1>1, <1>5
<1> QED BY <1>4, <1>5, <1>6, <1>7

\* However mails arrive and go, none is in the mailbox twice.
LEMMA MailboxStep ==
  ASSUME IInv, [Next]_vars
  PROVE  MailboxInv' /\ mailbox' \in Seq(Items) /\ Len(mailbox') <= Cardinality(Items)
<1>0. /\ mailbox \in Seq(Items) /\ Len(mailbox) <= Cardinality(Items)
      /\ \A k, n \in DOMAIN mailbox : mailbox[k] = mailbox[n] => k = n
  BY DEF IInv, TypeOK, MailboxInv
<1>1. CASE UNCHANGED mailbox
  BY <1>0, <1>1 DEF MailboxInv
<1>2. ASSUME NEW m \in Items, Deliver(m)
      PROVE  MailboxInv' /\ mailbox' \in Seq(Items)
  <2>1. mailbox' = Append(mailbox, m) /\ \A k \in DOMAIN mailbox : mailbox[k] # m
    BY <1>0, <1>2 DEF Deliver, ToSet
  <2> QED BY <1>0, <2>1 DEF MailboxInv
<1>3. ASSUME NEW n \in DOMAIN mailbox, Expunge(n)
      PROVE  MailboxInv' /\ mailbox' \in Seq(Items)
  <2>1. /\ mailbox' \in Seq(Items) /\ Len(mailbox') = Len(mailbox) - 1
        /\ \A k \in DOMAIN mailbox' :
             mailbox'[k] = IF k < n THEN mailbox[k] ELSE mailbox[k + 1]
    BY <1>0, <1>3, Expunged DEF Expunge
  <2>2. ASSUME NEW k \in DOMAIN mailbox', NEW j \in DOMAIN mailbox', mailbox'[k] = mailbox'[j]
        PROVE  k = j
    <3>1. /\ k \in 1..(Len(mailbox) - 1) /\ j \in 1..(Len(mailbox) - 1)
          /\ Len(mailbox) \in Nat /\ n \in 1..Len(mailbox)
      BY <1>0, <2>1
    <3> DEFINE p == IF k < n THEN k ELSE k + 1
               q == IF j < n THEN j ELSE j + 1
    <3>2. p \in 1..Len(mailbox) /\ q \in 1..Len(mailbox)
      BY <3>1
    <3>3. mailbox[p] = mailbox[q]
      BY <2>1, <2>2
    <3>4. p = q
      BY <1>0, <3>2, <3>3
    <3> QED BY <3>1, <3>4
  <2> QED BY <2>1, <2>2 DEF MailboxInv
<1>4. CASE MailboxInv' /\ mailbox' \in Seq(Items)
  BY <1>4, MailboxFits DEF MailboxInv
<1>5. [Next]_vars => \/ UNCHANGED mailbox
                     \/ \E m \in Items : Deliver(m)
                     \/ \E n \in DOMAIN mailbox : Expunge(n)
  BY DEF Next, vars, mailVars, ThreadProgress, Search, CheckSeen, Fetch, EnqueueMail, MarkSeen,
         FetchWithoutMail, EnqueueMailFails, MarkSeenFails, SessionFails
<1> QED BY <1>1, <1>2, <1>3, <1>4, <1>5

\* What a session finds: mails in their places, and each once.
LEMMA UnseenMails ==
  ASSUME IInv
  PROVE  /\ Unseen \in SUBSET Entry
         /\ \A e \in Unseen : e.mail \in Items \ flagged
         /\ \A e, f \in Unseen : e.mail = f.mail => e = f
<1>1. /\ mailbox \in Seq(Items) /\ Len(mailbox) <= Cardinality(Items)
      /\ \A k, n \in DOMAIN mailbox : mailbox[k] = mailbox[n] => k = n
  BY DEF IInv, TypeOK, MailboxInv
<1>2. Cardinality(Items) \in Nat
  BY EmailAssumption, FS_CardinalityType
<1>3. \A n \in DOMAIN mailbox : n \in Keys /\ mailbox[n] \in Items
  BY <1>1, <1>2, EmailAssumption
<1> QED BY <1>1, <1>3 DEF Unseen, Entry

\* One step keeps every type.
LEMMA TypeStep ==
  ASSUME IInv, [Next]_vars
  PROVE  TypeOK'
<1> USE TriggerAssumption DEF IInv, TypeOK, CommonTypeOK
<1>0. mailbox' \in Seq(Items) /\ Len(mailbox') <= Cardinality(Items)
  BY MailboxStep
<1>1. CASE UNCHANGED vars
  BY <1>1 DEF vars, commonVars, processVars, threadVars, boundVars, mailVars
<1>2. CASE WorkerStep /\ UNCHANGED mailVars
  <2>1. CASE StartWorker
    BY <1>2, <2>1 DEF StartWorker, Launch, boundVars, mailVars
  <2>2. CASE Crash
    <3>1. /\ pc' \in [Threads -> PC]
          /\ todo' \in [Threads -> SUBSET Entry]
          /\ current' \in [Threads -> Entry \cup {None}]
      BY <2>2 DEF Crash
    <3>2. /\ up' \in BOOLEAN /\ reloading' \in BOOLEAN /\ latest' = None
          /\ stopping' = {} /\ crashes' = crashes + 1
          /\ UNCHANGED <<seen, enqueued, reloads, failures>>
      BY <2>2 DEF Crash
    <3> QED BY <1>2, <3>1, <3>2 DEF mailVars
  <2>3. CASE BeginReload
    BY <1>2, <2>3 DEF BeginReload, LiveThreads, mailVars
  <2>4. CASE EndReload
    BY <1>2, <2>4 DEF EndReload, Launch, boundVars, mailVars
  <2> QED BY <1>2, <2>1, <2>2, <2>3, <2>4 DEF WorkerStep
<1>3. CASE (\E m \in Items : Deliver(m)) \/ (\E n \in DOMAIN mailbox : Expunge(n))
  <2>1. CASE \E m \in Items : Deliver(m)
    BY <1>0, <2>1 DEF Deliver, commonVars, processVars, threadVars, boundVars
  <2>2. CASE \E n \in DOMAIN mailbox : Expunge(n)
    BY <1>0, <2>2 DEF Expunge, commonVars, processVars, threadVars, boundVars
  <2> QED BY <1>3, <2>1, <2>2
<1>4. ASSUME NEW t \in Threads,
             \/ ThreadProgress(t) \/ FetchWithoutMail(t)
             \/ EnqueueMailFails(t) \/ MarkSeenFails(t) \/ SessionFails(t)
      PROVE  TypeOK'
  <2> USE DEF Goto, Drop, Fails, processVars, threadVars, boundVars, mailVars
  <2>1. CASE LeaveLoop(t) /\ UNCHANGED mailVars
    BY <2>1 DEF LeaveLoop
  <2>2. CASE EndBatch(t) /\ UNCHANGED mailVars
    BY <2>2 DEF EndBatch
  <2>3. CASE Search(t)
    BY <2>3, UnseenMails DEF Search, TakeBatch
  <2>4. CASE CheckSeen(t)
    BY <2>4 DEF CheckSeen, IsSeen
  <2>5. CASE Fetch(t)
    BY <2>5 DEF Fetch, FlaggedByFetch, BatchInv, Entry
  <2>6. CASE EnqueueMail(t)
    BY <2>6 DEF EnqueueMail, Enqueue, BatchInv, Entry
  <2>7. CASE MarkSeen(t)
    BY <2>7 DEF MarkSeen, BatchInv, Entry, KeyOf
  <2>8. CASE EnqueueMailFails(t)
    BY <2>8 DEF EnqueueMailFails, EnqueueFails
  <2>9. CASE MarkSeenFails(t)
    BY <2>9 DEF MarkSeenFails
  <2>10. CASE SessionFails(t)
    BY <2>10 DEF SessionFails, FlaggedByFetch, BatchInv, Entry
  <2>11. CASE FetchWithoutMail(t)
    BY <2>11 DEF FetchWithoutMail, BatchInv, Entry
  <2> QED BY <1>4, <2>1, <2>2, <2>3, <2>4, <2>5, <2>6, <2>7, <2>8, <2>9, <2>10, <2>11
          DEF ThreadProgress
<1> QED BY <1>1, <1>2, <1>3, <1>4 DEF Next

\* A step by which no thread is launched, no mail enqueued, and nobody comes to
\* hold a mail: what is promised can only become less.
LEMMA QuietStep ==
  ASSUME IInv, TypeOK', MailboxInv', BatchInv', FlagInv',
         UNCHANGED <<up, reloading, latest, reloads, enqueued>>,
         \A t \in Threads : pc'[t] # "off" => pc[t] # "off",
         \A m \in Items : unread[m] <= unread'[m],
         \A m \in Items : Holders(m)' \subseteq Holders(m)
  PROVE  IInv'
<1> USE DEF IInv
<1>1. LiveThreads'
  <2>1. Live' \subseteq Live /\ Live \subseteq Threads
    BY DEF Live
  <2>2. /\ Cardinality(Live) \in Nat /\ Cardinality(Live') \in Nat
        /\ Cardinality(Live') <= Cardinality(Live)
    BY <2>1, Counting
  <2> QED BY <2>1, <2>2 DEF LiveThreads, Joining, TypeOK, CommonTypeOK
<1>2. Promised'
  <2> SUFFICES ASSUME NEW m \in Items
               PROVE  enqueued'[m] + Cardinality(Holders(m)') <= 1 + reloads' + unread'[m]
    BY DEF Promised
  <2>1. Holders(m)' \subseteq Holders(m) /\ Holders(m) \subseteq Threads
    BY DEF Holders
  <2>2. /\ Cardinality(Holders(m)) \in Nat /\ Cardinality(Holders(m)') \in Nat
        /\ Cardinality(Holders(m)') <= Cardinality(Holders(m))
    BY <2>1, Counting
  <2>3. unread[m] \in Nat /\ unread'[m] \in Nat /\ unread[m] <= unread'[m]
    BY DEF TypeOK
  <2> QED BY <2>2, <2>3 DEF Promised, TypeOK, CommonTypeOK
<1> QED BY <1>1, <1>2

\* As long as no thread comes from a FETCH, mails without the flag are as they were.
LEMMA FlagStep ==
  ASSUME IInv, TypeOK', UNCHANGED <<enqueued, unread>>, flagged \subseteq flagged',
         \A m \in Items \ flagged' : Fetched(m)' \subseteq Fetched(m)
  PROVE  FlagInv'
<1> SUFFICES ASSUME NEW m \in Items \ flagged'
             PROVE  enqueued'[m] + Cardinality(Fetched(m)') <= unread'[m]
  BY DEF FlagInv
<1>1. Fetched(m)' \subseteq Fetched(m) /\ Fetched(m) \subseteq Threads
  BY DEF Fetched
<1>2. /\ Cardinality(Fetched(m)) \in Nat /\ Cardinality(Fetched(m)') \in Nat
      /\ Cardinality(Fetched(m)') <= Cardinality(Fetched(m))
  BY <1>1, Counting
<1>3. enqueued[m] + Cardinality(Fetched(m)) <= unread[m] /\ enqueued[m] \in Nat /\ unread[m] \in Nat
  BY DEF IInv, FlagInv, TypeOK, CommonTypeOK
<1> QED BY <1>2, <1>3

\* A new thread holds nothing; the bound on threads has room for it.
LEMMA LaunchStep ==
  ASSUME IInv, TypeOK',
         UNCHANGED <<mailbox, flagged, unread, todo, current, enqueued, reloads>>,
         NEW t \in Threads, Launch(t), up', ~reloading',
         (~up /\ Live = {}) \/ (up /\ reloading)
  PROVE  IInv'
<1> USE DEF IInv, Launch
<1>1. Live \subseteq Threads /\ IsFiniteSet(Live)
  BY TriggerAssumption, FS_Subset DEF Live
<1>2. Live' = Live \cup {t} /\ t \notin Live
  BY DEF Live, TypeOK, CommonTypeOK
<1>3. Cardinality(Live') = Cardinality(Live) + 1 /\ Cardinality(Live) \in Nat
  BY <1>1, <1>2, FS_AddElement, FS_CardinalityType
<1>4. LiveThreads'
  <2>1. CASE ~up /\ Live = {}
    <3>1. Cardinality(Live) = 0
      BY <2>1, FS_EmptySet
    <3> QED BY <1>3, <3>1 DEF LiveThreads, Joining, TypeOK, CommonTypeOK
  <2>2. CASE up /\ reloading
    BY <1>3, <2>2 DEF LiveThreads, Joining, TypeOK, CommonTypeOK
  <2> QED BY <2>1, <2>2
<1>5. /\ pc' \in [Threads -> PC] /\ pc'[t] = "poll" /\ pc[t] = "off"
      /\ \A s \in Threads : s # t => pc'[s] = pc[s]
  BY DEF TypeOK, CommonTypeOK
<1>6. MailboxInv' /\ BatchInv'
  BY <1>5 DEF MailboxInv, BatchInv
<1>7. \A m \in Items : Holders(m)' = Holders(m) /\ Fetched(m)' \subseteq Fetched(m)
  BY <1>5 DEF Holders, Fetched
<1>8. Promised'
  BY <1>7 DEF Promised
<1>9. FlagInv'
  BY <1>7, FlagStep
<1> QED BY <1>4, <1>6, <1>8, <1>9

\* The batch of a new session: a mail that FETCH has not marked has no job yet,
\* and is held by no more threads than are alive.
LEMMA SearchStep ==
  ASSUME IInv, TypeOK', NEW t \in Threads, Search(t)
  PROVE  IInv'
<1> USE DEF IInv
<1>1. /\ pc[t] = "poll" /\ pc' = [pc EXCEPT ![t] = "scan"]
      /\ todo' = [todo EXCEPT ![t] = Unseen]
      /\ UNCHANGED <<up, reloading, latest, reloads, enqueued, current, mailbox, flagged, unread>>
  BY DEF Search, TakeBatch, Goto, processVars, boundVars, mailVars
<1>2. /\ pc'[t] = "scan" /\ todo'[t] = Unseen
      /\ \A s \in Threads : s # t => pc'[s] = pc[s] /\ todo'[s] = todo[s]
  BY <1>1 DEF TypeOK, CommonTypeOK
<1>3. MailboxInv' /\ BatchInv' /\ FlagInv'
  <2>1. \A m \in Items : Fetched(m)' \subseteq Fetched(m)
    BY <1>1, <1>2 DEF Fetched
  <2>2. FlagInv'
    BY <1>1, <2>1, FlagStep
  <2> QED BY <1>1, <1>2, <2>2, UnseenMails DEF MailboxInv, BatchInv
<1>4. Live' = Live
  BY <1>1, <1>2 DEF Live
<1>5. LiveThreads'
  BY <1>1, <1>4 DEF LiveThreads, Joining
<1>6. ASSUME NEW m \in Items
      PROVE  enqueued'[m] + Cardinality(Holders(m)') <= 1 + reloads' + unread'[m]
  <2>0. enqueued[m] \in Nat /\ reloads \in Nat /\ unread[m] \in Nat
    BY DEF TypeOK, CommonTypeOK
  <2>1. CASE m \in flagged
    <3>1. Holders(m)' \subseteq Holders(m) /\ Holders(m) \subseteq Threads
      BY <1>1, <1>2, <2>1, UnseenMails DEF Holders
    <3>2. /\ Cardinality(Holders(m)) \in Nat /\ Cardinality(Holders(m)') \in Nat
          /\ Cardinality(Holders(m)') <= Cardinality(Holders(m))
      BY <3>1, Counting
    <3> QED BY <1>1, <2>0, <3>2 DEF Promised
  <2>2. CASE m \notin flagged
    <3>1. Holders(m)' \subseteq Live /\ Live \subseteq Threads
      BY <1>1, <1>2 DEF Holders, Live, BatchInv
    <3>2. /\ Cardinality(Live) \in Nat /\ Cardinality(Holders(m)') \in Nat
          /\ Cardinality(Holders(m)') <= Cardinality(Live)
      BY <3>1, Counting
    <3>3. up
      BY <1>1 DEF LiveThreads, Live
    <3>4. Cardinality(Live) <= 1 + reloads
      BY <2>0, <3>2, <3>3 DEF LiveThreads, Joining
    <3>5. Cardinality(Fetched(m)) \in Nat
      <4>1. Fetched(m) \subseteq Threads
        BY DEF Fetched
      <4> QED BY <4>1, Counting
    <3>6. enqueued[m] <= unread[m]
      BY <2>0, <2>2, <3>5 DEF FlagInv
    <3> QED BY <1>1, <2>0, <3>2, <3>4, <3>6
  <2> QED BY <2>1, <2>2
<1> QED BY <1>3, <1>5, <1>6 DEF Promised

\* A mail gets its job, and its thread will not enqueue it again.
LEMMA EnqueueStep ==
  ASSUME IInv, TypeOK', NEW t \in Threads, EnqueueMail(t)
  PROVE  IInv'
<1> USE DEF IInv
<1> DEFINE n == current[t].mail
<1>1. /\ pc[t] = "enqueue" /\ pc' = [pc EXCEPT ![t] = "mark"]
      /\ enqueued' = [enqueued EXCEPT ![n] = @ + 1]
      /\ UNCHANGED <<up, reloading, latest, reloads, todo, current, mailbox, flagged, unread>>
  BY DEF EnqueueMail, Enqueue, Goto, processVars, boundVars, mailVars
<1>2. /\ current[t] \in Entry /\ n \in Items
      /\ \A e \in todo[t] : e.mail # n
  BY <1>1 DEF BatchInv, Entry
<1>3. /\ pc'[t] = "mark" /\ \A s \in Threads : s # t => pc'[s] = pc[s]
      /\ enqueued'[n] = enqueued[n] + 1
      /\ \A m \in Items : m # n => enqueued'[m] = enqueued[m]
  BY <1>1, <1>2 DEF TypeOK, CommonTypeOK
<1> HIDE DEF n
<1>4. MailboxInv' /\ BatchInv'
  BY <1>1, <1>2, <1>3 DEF MailboxInv, BatchInv
<1>a. ASSUME NEW m \in Items \ flagged
      PROVE  enqueued'[m] + Cardinality(Fetched(m)') <= unread'[m]
  <2>0. enqueued[m] \in Nat /\ enqueued[m] + Cardinality(Fetched(m)) <= unread[m]
    BY DEF TypeOK, CommonTypeOK, FlagInv
  <2>1. Fetched(m) \subseteq Threads
    BY DEF Fetched
  <2>2. IsFiniteSet(Fetched(m)) /\ Cardinality(Fetched(m)) \in Nat
    BY <2>1, TriggerAssumption, FS_Subset, FS_CardinalityType
  <2>3. CASE m = n
    <3>1. Fetched(m)' = Fetched(m) \ {t} /\ t \in Fetched(m)
      BY <1>1, <1>3, <2>3 DEF Fetched, n
    <3>2. Cardinality(Fetched(m)') = Cardinality(Fetched(m)) - 1
      BY <2>2, <3>1, FS_RemoveElement
    <3> QED BY <1>1, <1>3, <2>0, <2>2, <2>3, <3>2
  <2>4. CASE m # n
    <3>1. Fetched(m)' = Fetched(m)
      BY <1>1, <1>3, <2>4 DEF Fetched, n
    <3> QED BY <1>1, <1>3, <2>0, <2>4, <3>1
  <2> QED BY <2>3, <2>4
<1>b. FlagInv'
  BY <1>1, <1>a DEF FlagInv
<1>5. Live' = Live
  BY <1>1, <1>3 DEF Live
<1>6. LiveThreads'
  BY <1>1, <1>5 DEF LiveThreads, Joining
<1>7. ASSUME NEW m \in Items
      PROVE  enqueued'[m] + Cardinality(Holders(m)') <= 1 + reloads' + unread'[m]
  <2>0. enqueued[m] \in Nat /\ reloads \in Nat /\ unread[m] \in Nat
    BY DEF TypeOK, CommonTypeOK
  <2>1. Holders(m) \subseteq Threads
    BY DEF Holders
  <2>2. IsFiniteSet(Holders(m)) /\ Cardinality(Holders(m)) \in Nat
    BY <2>1, TriggerAssumption, FS_Subset, FS_CardinalityType
  <2>3. CASE m = n
    <3>1. Holders(m)' = Holders(m) \ {t} /\ t \in Holders(m)
      BY <1>1, <1>2, <1>3, <2>3 DEF Holders, n
    <3>2. Cardinality(Holders(m)') = Cardinality(Holders(m)) - 1
      BY <2>2, <3>1, FS_RemoveElement
    <3> QED BY <1>1, <1>3, <2>0, <2>2, <2>3, <3>2 DEF Promised
  <2>4. CASE m # n
    <3>1. Holders(m)' = Holders(m)
      BY <1>1, <1>3, <2>4 DEF Holders, n
    <3> QED BY <1>1, <1>3, <2>4, <3>1 DEF Promised
  <2> QED BY <2>3, <2>4
<1> QED BY <1>4, <1>b, <1>6, <1>7 DEF Promised

\* The other steps of a thread.
LEMMA ThreadStep ==
  ASSUME IInv, [Next]_vars, NEW t \in Threads,
         \/ (LeaveLoop(t) \/ EndBatch(t)) /\ UNCHANGED mailVars
         \/ CheckSeen(t) \/ Fetch(t) \/ FetchWithoutMail(t) \/ MarkSeen(t)
         \/ EnqueueMailFails(t) \/ MarkSeenFails(t) \/ SessionFails(t)
  PROVE  IInv'
<1>1. TypeOK /\ TypeOK' /\ MailboxInv' /\ BatchInv /\ FlagInv
  BY TypeStep, MailboxStep DEF IInv
<1>2. /\ UNCHANGED <<up, reloading, latest, reloads, enqueued>>
      /\ flagged \subseteq flagged'
      /\ pc' = [pc EXCEPT ![t] = pc'[t]]
      /\ todo' = [todo EXCEPT ![t] = todo'[t]] /\ todo'[t] \subseteq todo[t]
      /\ current' = [current EXCEPT ![t] = current'[t]]
      /\ pc[t] # "off"
  BY <1>1 DEF TypeOK, CommonTypeOK, LeaveLoop, EndBatch, CheckSeen, IsSeen, Fetch,
              FlaggedByFetch, FetchWithoutMail, MarkSeen, EnqueueMailFails, EnqueueFails, MarkSeenFails,
              SessionFails, Fails, Drop, Goto, processVars, boundVars, mailVars
<1>3. \/ pc'[t] \in {"off", "poll"} /\ todo'[t] = {}
      \/ pc'[t] = "scan"
      \/ /\ pc'[t] = "fetch" /\ current'[t] \in todo[t]
         /\ todo'[t] = todo[t] \ {current'[t]}
      \/ /\ pc[t] = "fetch" /\ pc'[t] = "enqueue"
         /\ current'[t] = current[t]
  BY <1>1 DEF BatchInv, TypeOK, CommonTypeOK, LeaveLoop, EndBatch, CheckSeen, IsSeen, Fetch,
              FlaggedByFetch, FetchWithoutMail, MarkSeen, EnqueueMailFails, EnqueueFails, MarkSeenFails,
              SessionFails, Fails, Drop, Goto, processVars, boundVars, mailVars
<1>4. /\ todo[t] \subseteq Entry /\ t \in Threads
      /\ \A s \in Threads : s # t => /\ pc'[s] = pc[s] /\ todo'[s] = todo[s]
                                     /\ current'[s] = current[s]
  BY <1>1, <1>2 DEF TypeOK, CommonTypeOK
<1>5. BatchInv'
  <2> SUFFICES ASSUME NEW s \in Threads
               PROVE  /\ pc'[s] \in {"off", "poll"} => todo'[s] = {}
                      /\ \A e, f \in todo'[s] : e.mail = f.mail => e = f
                      /\ pc'[s] \in {"fetch", "enqueue", "mark"} =>
                           current'[s] \in Entry /\ \A e \in todo'[s] : e.mail # current'[s].mail
    BY DEF BatchInv
  <2>1. CASE s # t
    BY <1>1, <1>4, <2>1 DEF BatchInv
  <2>2. CASE s = t
    BY <1>1, <1>2, <1>3, <1>4, <2>2 DEF BatchInv
  <2> QED BY <2>1, <2>2
<1>a. ASSUME FetchWithoutMail(t)
      PROVE  FlagInv' /\ \A m \in Items : unread[m] <= unread'[m]
  <2> DEFINE n == current[t].mail
  <2>1. /\ pc[t] = "fetch" /\ pc'[t] = "enqueue" /\ current' = current /\ flagged' = flagged
        /\ unread' = [unread EXCEPT ![n] = @ + 1] /\ n \in Items
    BY <1>1, <1>a DEF FetchWithoutMail, Goto, BatchInv, Entry, TypeOK, CommonTypeOK
  <2> HIDE DEF n
  <2>2. ASSUME NEW m \in Items
        PROVE  /\ unread[m] <= unread'[m]
               /\ m \notin flagged => enqueued'[m] + Cardinality(Fetched(m)') <= unread'[m]
    <3>0. /\ enqueued[m] \in Nat /\ unread[m] \in Nat
          /\ m \notin flagged => enqueued[m] + Cardinality(Fetched(m)) <= unread[m]
          /\ unread'[m] = IF m = n THEN unread[m] + 1 ELSE unread[m]
      BY <1>1, <2>1 DEF TypeOK, CommonTypeOK, FlagInv
    <3>1. Fetched(m) \subseteq Threads
      BY DEF Fetched
    <3>2. IsFiniteSet(Fetched(m)) /\ Cardinality(Fetched(m)) \in Nat
      BY <3>1, TriggerAssumption, FS_Subset, FS_CardinalityType
    <3>3. CASE m = n
      <4>1. Fetched(m)' = Fetched(m) \cup {t} /\ t \notin Fetched(m)
        BY <1>4, <2>1, <3>3 DEF Fetched, n
      <4>2. Cardinality(Fetched(m)') = Cardinality(Fetched(m)) + 1
        BY <3>2, <4>1, FS_AddElement
      <4> QED BY <1>2, <3>0, <3>2, <3>3, <4>2
    <3>4. CASE m # n
      <4>1. Fetched(m)' = Fetched(m)
        BY <1>4, <2>1, <3>4 DEF Fetched, n
      <4> QED BY <1>2, <3>0, <3>2, <3>4, <4>1
    <3> QED BY <3>3, <3>4
  <2>3. FlagInv' /\ \A m \in Items : unread[m] <= unread'[m]
    BY <2>1, <2>2 DEF FlagInv
  <2> QED BY <2>3
<1>b. ASSUME ~FetchWithoutMail(t)
      PROVE  FlagInv' /\ \A m \in Items : unread[m] <= unread'[m]
  <2>1. unread' = unread /\ (pc[t] = "fetch" /\ pc'[t] = "enqueue" => current[t].mail \in flagged')
    BY <1>1, <1>b DEF LeaveLoop, EndBatch, CheckSeen, IsSeen, Fetch, FlaggedByFetch, MarkSeen,
         EnqueueMailFails, EnqueueFails, MarkSeenFails, SessionFails, Drop, Goto, mailVars,
         TypeOK, CommonTypeOK
  <2>2. \A m \in Items \ flagged' : Fetched(m)' \subseteq Fetched(m)
    BY <1>3, <1>4, <2>1 DEF Fetched
  <2>3. FlagInv'
    BY <1>1, <1>2, <2>1, <2>2, FlagStep
  <2>4. \A m \in Items : unread[m] <= unread'[m]
    BY <1>1, <2>1 DEF TypeOK
  <2> QED BY <2>3, <2>4
<1>6. FlagInv' /\ \A m \in Items : unread[m] <= unread'[m]
  BY <1>a, <1>b
<1>7. \A m \in Items : Holders(m)' \subseteq Holders(m)
  BY <1>2, <1>3, <1>4 DEF Holders
<1> QED BY <1>1, <1>2, <1>4, <1>5, <1>6, <1>7, QuietStep

-----------------------------------------------------------------------------
(* The invariant *)

LEMMA InvariantInit == Init => IInv
<1> SUFFICES ASSUME Init PROVE IInv
  OBVIOUS
<1> USE TriggerAssumption DEF Init, CommonInit
<1>0. Cardinality(Items) \in Nat
  BY EmailAssumption, FS_CardinalityType
<1>1. TypeOK
  <2>1. mailbox \in Seq(Items) /\ Len(mailbox) <= Cardinality(Items)
    BY <1>0
  <2>2. /\ CommonTypeOK(Entry) /\ flagged \in SUBSET Items /\ expunges \in Nat
        /\ unread \in [Items -> Nat]
    BY DEF CommonTypeOK
  <2> QED BY <2>1, <2>2 DEF TypeOK
<1>2. Live = {} /\ \A m \in Items : Holders(m) = {} /\ Fetched(m) = {}
  BY DEF Live, Holders, Fetched
<1>3. LiveThreads /\ MailboxInv /\ BatchInv /\ FlagInv
  BY <1>2, FS_EmptySet DEF LiveThreads, MailboxInv, BatchInv, FlagInv
<1>4. Promised
  <2>1. Cardinality({}) = 0
    BY FS_EmptySet
  <2>2. \A m \in Items : enqueued[m] = 0 /\ Cardinality(Holders(m)) = 0
    BY <1>2, <2>1
  <2>3. reloads = 0 /\ \A m \in Items : unread[m] = 0
    OBVIOUS
  <2> QED BY <2>2, <2>3 DEF Promised
<1> QED BY <1>1, <1>3, <1>4 DEF IInv

LEMMA InvariantStep == IInv /\ [Next]_vars => IInv'
<1> SUFFICES ASSUME IInv, [Next]_vars PROVE IInv'
  OBVIOUS
<1>0. TypeOK /\ TypeOK' /\ MailboxInv'
  BY TypeStep, MailboxStep DEF IInv
<1>1. CASE UNCHANGED <<up, reloading, latest, reloads, enqueued, pc, todo, current, flagged, unread>>
  <2>1. BatchInv' /\ \A m \in Items : Holders(m)' = Holders(m) /\ Fetched(m)' = Fetched(m)
    BY <1>1 DEF IInv, BatchInv, Holders, Fetched
  <2>2. FlagInv' /\ \A m \in Items : unread[m] <= unread'[m]
    BY <1>0, <1>1, <2>1, FlagStep DEF TypeOK
  <2> QED BY <1>0, <1>1, <2>1, <2>2, QuietStep
<1>2. CASE StartWorker /\ UNCHANGED mailVars
  <2>1. PICK t \in Threads : Launch(t)
    BY <1>2 DEF StartWorker
  <2>2. /\ ~up /\ Live = {} /\ up' /\ ~reloading'
        /\ UNCHANGED <<mailbox, flagged, unread, todo, current, enqueued, reloads>>
    BY <1>2 DEF StartWorker, IInv, LiveThreads, boundVars, mailVars
  <2> QED BY <1>0, <2>1, <2>2, LaunchStep
<1>3. CASE Crash /\ UNCHANGED mailVars
  <2>1. Live' = {} /\ \A m \in Items : Holders(m)' = {} /\ Fetched(m)' = {}
    BY <1>3 DEF Crash, Live, Holders, Fetched
  <2>a. FlagInv'
    BY <1>0, <1>3, <2>1, FlagStep DEF Crash, mailVars
  <2>2. LiveThreads' /\ BatchInv' /\ FlagInv'
    BY <1>3, <2>1, <2>a DEF Crash, IInv, LiveThreads, BatchInv, mailVars
  <2>3. Promised'
    <3> SUFFICES ASSUME NEW m \in Items
                 PROVE  enqueued'[m] + Cardinality(Holders(m)') <= 1 + reloads' + unread'[m]
      BY DEF Promised
    <3>1. Cardinality(Holders(m)') = 0 /\ Cardinality(Holders(m)) \in Nat
      <4>1. Holders(m) \subseteq Threads
        BY DEF Holders
      <4> QED BY <2>1, <4>1, Counting, FS_EmptySet
    <3> QED BY <1>0, <1>3, <3>1 DEF Crash, IInv, Promised, TypeOK, CommonTypeOK, mailVars
  <2> QED BY <1>0, <2>2, <2>3 DEF IInv
<1>4. CASE BeginReload /\ UNCHANGED mailVars
  <2>1. Live' = Live /\ \A m \in Items : Holders(m)' = Holders(m) /\ Fetched(m)' = Fetched(m)
    BY <1>4 DEF BeginReload, Live, Holders, Fetched
  <2>2. /\ Live \subseteq Threads
        /\ \A m \in Items : Holders(m) \subseteq Threads
    BY DEF Live, Holders
  <2>3. Cardinality(Live) \in Nat /\ \A m \in Items : Cardinality(Holders(m)) \in Nat
    BY <2>2, Counting
  <2>4. LiveThreads'
    BY <1>0, <1>4, <2>1, <2>3 DEF BeginReload, IInv, LiveThreads, Joining, TypeOK, CommonTypeOK
  <2>5. BatchInv' /\ FlagInv'
    BY <1>0, <1>4, <2>1, FlagStep DEF BeginReload, IInv, BatchInv, mailVars
  <2>6. Promised'
    BY <1>0, <1>4, <2>1, <2>3 DEF BeginReload, IInv, Promised, TypeOK, CommonTypeOK, mailVars
  <2> QED BY <1>0, <2>4, <2>5, <2>6 DEF IInv
<1>5. CASE EndReload /\ UNCHANGED mailVars
  <2>1. PICK t \in Threads : Launch(t)
    BY <1>5 DEF EndReload
  <2>2. /\ up /\ reloading /\ up' /\ ~reloading'
        /\ UNCHANGED <<mailbox, flagged, unread, todo, current, enqueued, reloads>>
    BY <1>0, <1>5 DEF EndReload, IInv, LiveThreads, boundVars, mailVars, TypeOK, CommonTypeOK
  <2> QED BY <1>0, <2>1, <2>2, LaunchStep
<1>6. CASE (\E m \in Items : Deliver(m)) \/ (\E n \in DOMAIN mailbox : Expunge(n))
  BY <1>1, <1>6 DEF Deliver, Expunge, commonVars, processVars, threadVars, boundVars
<1>7. ASSUME NEW t \in Threads,
             \/ ThreadProgress(t) \/ FetchWithoutMail(t)
             \/ EnqueueMailFails(t) \/ MarkSeenFails(t) \/ SessionFails(t)
      PROVE  IInv'
  BY <1>0, <1>7, SearchStep, EnqueueStep, ThreadStep DEF ThreadProgress
<1>8. CASE UNCHANGED vars
  BY <1>1, <1>8 DEF vars, commonVars, processVars, threadVars, boundVars, mailVars
<1> QED BY <1>2, <1>3, <1>4, <1>5, <1>6, <1>7, <1>8 DEF Next, WorkerStep

LEMMA InvariantHolds == Spec => []IInv
  BY InvariantInit, InvariantStep, PTL DEF Spec

-----------------------------------------------------------------------------
(* Theorems *)

\* Every variable keeps its type; above all, the numbers by which a session
\* marks mails are places the mailbox has.
THEOREM TypeCorrect == Spec => []TypeOK
<1>1. IInv => TypeOK
  BY DEF IInv
<1> QED BY <1>1, InvariantHolds, PTL

\* However many crashes, failures and expunged mails there are, a mail gets one
\* job, and at most one more for every hot reload (the join timeout of
\* _stop_trigger_threads leaves the old session open beside the new one) and for
\* every FETCH of it that does not return it.
THEOREM CausesBoundDuplicates == Spec => []DuplicatesHaveCauses
<1>1. IInv => DuplicatesHaveCauses
  <2> SUFFICES ASSUME IInv, NEW m \in Items PROVE enqueued[m] <= 1 + reloads + unread[m]
    BY DEF DuplicatesHaveCauses
  <2>1. Holders(m) \subseteq Threads
    BY DEF Holders
  <2>2. Cardinality(Holders(m)) \in Nat
    BY <2>1, Counting
  <2> QED BY <2>2 DEF IInv, Promised, TypeOK, CommonTypeOK
<1> QED BY <1>1, InvariantHolds, PTL
=============================================================================
