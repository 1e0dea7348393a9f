--------------------------- MODULE WebServerProofs ---------------------------
(***************************************************************************)
(* Proofs about WebServer, for all constants that satisfy WebAssumption:   *)
(* any number of processes, overlapping requests, rotations of the key and *)
(* ticks of the clock, and any arrivals.  First the types and what each    *)
(* step does to a thread; then the keys, the chain of the audit log, the   *)
(* gates and the rate limiter; last the handlers, for which the programs   *)
(* of the routes are read: what an operation may do is decided by its      *)
(* place in them.                                                          *)
(***************************************************************************)
EXTENDS WebServer, FiniteSetTheorems, WellFoundedInduction, TLAPS

Clients == [gen : Nat, ver : Nat, at : Nat]

ThreadType ==
    [phase : Phases, in : Arrivals \cup {"none"}, n : Nat, attempt : {0, 1}, client : Clients,
     due : BOOLEAN, clock : Nat, pc : Nat, copy : Content, ok : BOOLEAN, changed : BOOLEAN,
     prev : Nat, status : Statuses]

Events == [by : Nat, route : Routes, ok : BOOLEAN, changed : BOOLEAN, prev : Nat]

TypeInv ==
    /\ scenario \in Scenarios /\ now \in Nat /\ arrived \in Nat
    /\ req \in [Requests -> ThreadType]
    /\ \A r \in Requests : req[r].phase # "idle" => In(r) \in Arrivals
    /\ published \in Nat \ {0} /\ withdrawn \in Nat
    /\ client \in [Servers -> Clients]
    /\ file \in [Documents -> Content]
    /\ log \in Seq(Events) /\ lock \in [Servers -> Requests \cup {NoOne}]

-----------------------------------------------------------------------------
(* Types *)

LEMMA RecordTypes ==
    /\ NoClient \in Clients
    /\ Absent \in Content /\ Empty \in Content
    /\ \A n \in Nat, on \in BOOLEAN : Whole(n, on) \in Content
  BY DEF NoClient, Clients, Absent, Empty, Whole, Content

LEMMA ArrivalTypes ==
  ASSUME scenario \in Scenarios, NEW in \in Arrivals
  PROVE  /\ in.server \in scenario.servers /\ in.server \in Servers
         /\ in.route \in Routes /\ in.input \in Inputs /\ in.flaw \in Flaws
         /\ in.token.role \in DOMAIN PERMISSIONS \cup {"none"} /\ in.token.ver \in Nat
         /\ scenario.oidc \in {"off", "incomplete", "on"}
<1>1. scenario \in [servers: SUBSET Servers, oidc: {"off", "incomplete", "on"},
                    secret: BOOLEAN, signing: BOOLEAN,
                    routes: SUBSET Routes, inputs: SUBSET Inputs, flaws: SUBSET Flaws,
                    tokens: SUBSET [role: DOMAIN PERMISSIONS \cup {"none"}, ver: Nat],
                    ips: SUBSET Ips, requests: Nat, ticks: Nat, rotations: Nat, faults: BOOLEAN, atOnce: Nat]
  BY WebAssumption
<1>2. /\ in.server \in scenario.servers /\ in.route \in scenario.routes
      /\ in.input \in scenario.inputs /\ in.flaw \in scenario.flaws /\ in.token \in scenario.tokens
  BY DEF Arrivals
<1>3. /\ scenario.servers \subseteq Servers /\ scenario.routes \subseteq Routes
      /\ scenario.inputs \subseteq Inputs /\ scenario.flaws \subseteq Flaws
      /\ scenario.tokens \subseteq [role: DOMAIN PERMISSIONS \cup {"none"}, ver: Nat]
      /\ scenario.oidc \in {"off", "incomplete", "on"}
  BY <1>1
<1>4. in.token \in [role: DOMAIN PERMISSIONS \cup {"none"}, ver: Nat]
  BY <1>2, <1>3
<1> QED BY <1>2, <1>3, <1>4

\* What an answer leaves of a thread.
LEMMA FinishedIs ==
  ASSUME TypeInv, NEW q \in ThreadType, NEW status \in Statuses
  PROVE  /\ Finished(q, status) \in ThreadType
         /\ LET f == Finished(q, status) IN
              /\ f.phase = "done" /\ f.in = q.in /\ f.n = q.n /\ f.due = q.due
              /\ f.client = q.client /\ f.changed = q.changed /\ f.status = status
              /\ f.ok = q.ok
<1> DEFINE f == Finished(q, status)
<1>1. /\ f.phase = "done" /\ f.in = q.in /\ f.n = q.n /\ f.attempt = 0 /\ f.client = q.client
      /\ f.due = q.due /\ f.clock \in {q.clock, 0} /\ f.pc = 1 /\ f.copy = Absent
      /\ f.ok = q.ok /\ f.changed = q.changed /\ f.prev = 0 /\ f.status = status
  BY DEF Finished, NoThread
<1>2. f = [x \in DOMAIN NoThread |-> f[x]]
  BY DEF Finished
<1>3. DOMAIN NoThread = {"phase", "in", "n", "attempt", "client", "due", "clock", "pc", "copy",
                         "ok", "changed", "prev", "status"}
  BY DEF NoThread
<1> HIDE DEF f
<1>4. f \in ThreadType
  BY <1>1, <1>2, <1>3, RecordTypes DEF ThreadType, Phases
<1> QED BY <1>1, <1>4 DEF f

\* A step of one thread, which goes on with the same request.
Moves(r) ==
    /\ req' \in [Requests -> ThreadType]
    /\ \A o \in Requests : o # r => req'[o] = req[o]
    /\ req'[r].in = req[r].in /\ req'[r].n = req[r].n

LEMMA MovesTo ==
  ASSUME TypeInv, NEW r \in Requests, NEW q \in ThreadType,
         q.in = req[r].in, q.n = req[r].n, req' = [req EXCEPT ![r] = q]
  PROVE  Moves(r) /\ req'[r] = q
  BY DEF TypeInv, Moves

LEMMA AnswerIs ==
  ASSUME TypeInv, NEW r \in Requests, NEW status \in Statuses, Answer(r, status)
  PROVE  /\ Moves(r)
         /\ req'[r].phase = "done" /\ req'[r].status = status
         /\ req'[r].due = req[r].due /\ req'[r].client = req[r].client
         /\ req'[r].changed = req[r].changed /\ req'[r].ok = req[r].ok
<1>1. req[r] \in ThreadType /\ req' = [req EXCEPT ![r] = Finished(req[r], status)]
  BY DEF TypeInv, Answer
<1>2. Finished(req[r], status) \in ThreadType
  BY <1>1, FinishedIs
<1>3. Finished(req[r], status).in = req[r].in /\ Finished(req[r], status).n = req[r].n
  BY <1>1, FinishedIs
<1>4. Moves(r) /\ req'[r] = Finished(req[r], status)
  BY <1>1, <1>2, <1>3, MovesTo
<1> QED BY <1>1, <1>4, FinishedIs

LEMMA GotoIs ==
  ASSUME TypeInv, NEW r \in Requests, NEW phase \in Phases, Goto(r, phase)
  PROVE  Moves(r) /\ req'[r] = [req[r] EXCEPT !.phase = phase]
<1> DEFINE q == [req[r] EXCEPT !.phase = phase]
<1>1. req[r] \in ThreadType /\ req' = [req EXCEPT ![r] = q]
  BY DEF TypeInv, Goto
<1>2. q \in ThreadType /\ q.in = req[r].in /\ q.n = req[r].n
  BY <1>1 DEF ThreadType
<1> QED BY <1>1, <1>2, MovesTo

\* An operation of a handler: the thread stays in its program, waits for the
\* lock of the logger, or ends without an event.
LEMMA ProceedIs ==
  ASSUME TypeInv, NEW r \in Requests, NEW changed \in BOOLEAN, Proceed(r, changed)
  PROVE  /\ Moves(r) /\ unlogged' = unlogged
         /\ req'[r] = [req[r] EXCEPT !.changed = req[r].changed \/ changed, !.pc = req[r].pc + 1,
                          !.phase = IF req[r].pc = Len(Program(r)) THEN "lock" ELSE "handle"]
<1> DEFINE phase == IF req[r].pc = Len(Program(r)) THEN "lock" ELSE "handle"
           c == req[r].changed \/ changed
           p == req[r].pc + 1
           q == [req[r] EXCEPT !.changed = c, !.pc = p, !.phase = phase]
<1>0. req[r] \in ThreadType /\ unlogged' = unlogged
  BY DEF TypeInv, Proceed
<1>1. req' = [req EXCEPT ![r] = q]
  BY DEF Proceed
<1>2. phase \in Phases /\ c \in BOOLEAN /\ p \in Nat
  BY <1>0 DEF Phases, ThreadType
<1> HIDE DEF phase, c, p
<1>3. q \in ThreadType /\ q.in = req[r].in /\ q.n = req[r].n
  BY <1>0, <1>2 DEF ThreadType
<1>4. Moves(r) /\ req'[r] = q
  BY <1>1, <1>3, MovesTo
<1> QED BY <1>0, <1>4 DEF phase, c, p

LEMMA FailsIs ==
  ASSUME TypeInv, NEW r \in Requests, NEW changed \in BOOLEAN, Fails(r, changed)
  PROVE  /\ Moves(r) /\ unlogged' = unlogged
         /\ req'[r] = [req[r] EXCEPT !.changed = req[r].changed \/ changed, !.ok = FALSE, !.phase = "lock"]
<1> DEFINE c == req[r].changed \/ changed
           q == [req[r] EXCEPT !.changed = c, !.ok = FALSE, !.phase = "lock"]
<1>0. req[r] \in ThreadType /\ unlogged' = unlogged
  BY DEF TypeInv, Fails
<1>1. req' = [req EXCEPT ![r] = q]
  BY DEF Fails
<1>2. c \in BOOLEAN /\ "lock" \in Phases
  BY DEF Phases
<1> HIDE DEF c
<1>3. q \in ThreadType /\ q.in = req[r].in /\ q.n = req[r].n
  BY <1>0, <1>2 DEF ThreadType
<1>4. Moves(r) /\ req'[r] = q
  BY <1>1, <1>3, MovesTo
<1> QED BY <1>0, <1>4 DEF c

\* What the steps of a handler have in common.
Works(r) ==
    /\ req[r].phase = "handle" /\ Moves(r)
    /\ UNCHANGED elsewhere /\ file' \in [Documents -> Content]
    /\ req'[r].due = req[r].due /\ req'[r].client = req[r].client
    /\ \/ /\ req'[r].phase \in {"handle", "lock"} /\ unlogged' = unlogged
          /\ req'[r].attempt = req[r].attempt /\ req'[r].status = req[r].status
          /\ req[r].changed => req'[r].changed
       \/ /\ req'[r].phase = "done" /\ req'[r].status = 0
          /\ unlogged' = unlogged \cup {req[r].n} /\ req'[r].changed = req[r].changed

LEMMA OperationIs ==
  ASSUME TypeInv, NEW r \in Requests, Operation(r)
  PROVE  Works(r)
<1>0. req[r] \in ThreadType /\ file \in [Documents -> Content]
  BY DEF TypeInv
<1>d. Doc(r) \in Documents
  BY DEF Doc, Document, Documents
<1>1. ASSUME NEW changed \in BOOLEAN, req[r].phase = "handle", UNCHANGED elsewhere,
             file' \in [Documents -> Content],
             Proceed(r, changed) \/ Fails(r, changed) \/ Raises(r)
      PROVE  Works(r)
  <2>1. CASE Proceed(r, changed)
    <3>1. Moves(r) /\ unlogged' = unlogged
      BY <2>1, ProceedIs
    <3>2. req'[r] = [req[r] EXCEPT !.changed = req[r].changed \/ changed, !.pc = req[r].pc + 1,
                        !.phase = IF req[r].pc = Len(Program(r)) THEN "lock" ELSE "handle"]
      BY <2>1, ProceedIs
    <3>3. /\ req'[r].due = req[r].due /\ req'[r].client = req[r].client
          /\ req'[r].attempt = req[r].attempt /\ req'[r].status = req[r].status
          /\ req'[r].phase \in {"handle", "lock"} /\ req'[r].changed = (req[r].changed \/ changed)
      BY <1>0, <3>2 DEF ThreadType
    <3> QED BY <1>1, <3>1, <3>3 DEF Works
  <2>2. CASE Fails(r, changed)
    <3>1. Moves(r) /\ unlogged' = unlogged
      BY <2>2, FailsIs
    <3>2. req'[r] = [req[r] EXCEPT !.changed = req[r].changed \/ changed, !.ok = FALSE, !.phase = "lock"]
      BY <2>2, FailsIs
    <3>3. /\ req'[r].due = req[r].due /\ req'[r].client = req[r].client
          /\ req'[r].attempt = req[r].attempt /\ req'[r].status = req[r].status
          /\ req'[r].phase = "lock" /\ req'[r].changed = (req[r].changed \/ changed)
      BY <1>0, <3>2 DEF ThreadType
    <3> QED BY <1>1, <3>1, <3>3 DEF Works
  <2>3. CASE Raises(r)
    BY <1>0, <1>1, <2>3, AnswerIs DEF Works, Raises, Statuses
  <2> QED BY <1>1, <2>1, <2>2, <2>3
<1> USE DEF AtOp, resources, fileVars
<1>2. CASE Valid(r) \/ ReadMetadata(r) \/ Find(r)
  BY <1>0, <1>1, <1>2 DEF Valid, ReadMetadata, Find
<1>3. CASE Remove(r)
  BY <1>0, <1>1, <1>3 DEF Remove
<1>4. CASE Enqueue(r) \/ Ensure(r) \/ Upload(r)
  BY <1>0, <1>1, <1>4 DEF Enqueue, Ensure, Upload
<1>5. CASE Start(r) \/ Stop(r)
  BY <1>0, <1>1, <1>5 DEF Start, Stop
<1>6. CASE Retry(r) \/ Clear(r)
  BY <1>0, <1>1, <1>6 DEF Retry, Clear
<1>7. CASE Read(r)
  <2>1. CASE Fails(r, FALSE) \/ Raises(r)
    BY <1>0, <1>1, <1>7, <2>1 DEF Read
  <2>2. CASE /\ req' = [req EXCEPT ![r] = [req[r] EXCEPT !.copy = file[Doc(r)], !.pc = @ + 1]]
             /\ UNCHANGED unlogged
    <3> DEFINE f == file[Doc(r)]
               p == req[r].pc + 1
               q == [req[r] EXCEPT !.copy = f, !.pc = p]
    <3>1. req' = [req EXCEPT ![r] = q]
      BY <2>2
    <3>2. f \in Content /\ p \in Nat
      BY <1>0, <1>d DEF ThreadType
    <3> HIDE DEF f, p
    <3>3. q \in ThreadType /\ q.in = req[r].in /\ q.n = req[r].n
      BY <1>0, <3>2 DEF ThreadType
    <3>4. Moves(r) /\ req'[r] = q
      BY <3>1, <3>3, MovesTo
    <3> QED BY <1>0, <1>7, <2>2, <3>4 DEF Works, Read, ThreadType
  <2> QED BY <1>7, <2>1, <2>2 DEF Read
<1>8. CASE Open(r)
  BY <1>0, <1>1, <1>8, RecordTypes DEF Open
<1>9. CASE Write(r)
  <2>1. file' \in [Documents -> Content]
    <3>1. Written(r) \in Content
      BY <1>0, RecordTypes DEF Written, ThreadType, Content
    <3>2. [file[Doc(r)] EXCEPT !.state = "garbled"] \in Content
      BY <1>0, <1>d DEF Content
    <3> QED BY <1>0, <1>9, <3>1, <3>2 DEF Write
  <2> QED BY <1>1, <1>9, <2>1 DEF Write
<1>10. CASE Unlink(r)
  BY <1>0, <1>1, <1>10, RecordTypes DEF Unlink
<1> QED BY <1>2, <1>3, <1>4, <1>5, <1>6, <1>7, <1>8, <1>9, <1>10 DEF Operation

\* A new request: answered at once, or on its way to the token or the route.
JustArrived(q) ==
  /\ q.in \in Arrivals /\ q.changed = FALSE /\ q.n = arrived + 1
  /\ q.phase # "done" => q.ok /\ q.pc = 1
  /\ q.due = (q.in.token.ver = published)
  /\ \/ /\ q.phase = "done" /\ q.status \in {200, 413, 500}
     \/ /\ q.phase = "done" /\ q.status = 401 /\ q.in.token = NoToken
     \/ /\ q.phase = "dispatch" /\ scenario.oidc = "off" /\ q.status = 0
        /\ q.in.route \in PostRoutes => q.in.flaw # "big"
     \/ /\ q.phase = "client" /\ scenario.oidc = "on" /\ q.in.token # NoToken
        /\ q.attempt = 0 /\ q.status = 0
        /\ q.in.route \in PostRoutes => q.in.flaw # "big"

LEMMA ArriveIs ==
  ASSUME TypeInv, NEW r \in Requests, Arrive(r)
  PROVE  /\ req' \in [Requests -> ThreadType] /\ \A o \in Requests : o # r => req'[o] = req[o]
         /\ UNCHANGED <<scenario, now, authVars, limitVars, resources, auditVars, unlogged>>
         /\ arrived' = arrived + 1
         /\ JustArrived(req'[r])
<1>1. PICK in \in Arrivals :
         req' = [req EXCEPT ![r] =
           LET q == Thread(in, arrived + 1)
           IN  CASE in.route = "healthz" -> Finished(q, 200)
                 [] in.route \in PostRoutes /\ in.flaw = "big" -> Finished(q, 413)
                 [] OTHER -> CASE scenario.oidc = "off"        -> q
                               [] scenario.oidc = "incomplete" -> Finished(q, 500)
                               [] in.token = NoToken           -> Finished(q, 401)
                               [] OTHER -> [q EXCEPT !.phase = "client"]]
  BY DEF Arrive
<1> DEFINE q == Thread(in, arrived + 1)
           c == [q EXCEPT !.phase = "client"]
<1>2. scenario.oidc \in {"off", "incomplete", "on"}
  BY ArrivalTypes DEF TypeInv
<1>3. /\ q \in ThreadType /\ q.in = in /\ q.changed = FALSE /\ q.due = (in.token.ver = published)
      /\ q.phase = "dispatch" /\ q.attempt = 0 /\ q.status = 0 /\ q.n = arrived + 1
      /\ q.ok = TRUE /\ q.pc = 1
  <2>1. arrived + 1 \in Nat /\ (in.token.ver = published) \in BOOLEAN
    BY DEF TypeInv
  <2>2. "dispatch" \in Phases /\ 0 \in Statuses
    BY DEF Phases, Statuses
  <2> QED BY <2>1, <2>2, RecordTypes DEF Thread, ThreadType
<1> HIDE DEF q
<1>4. c \in ThreadType /\ c.phase = "client"
      /\ c.in = in /\ c.changed = FALSE /\ c.due = q.due /\ c.attempt = 0 /\ c.status = 0
      /\ c.n = arrived + 1 /\ c.ok = TRUE /\ c.pc = 1
  BY <1>3 DEF ThreadType, Phases
<1> HIDE DEF c
<1> DEFINE F(status) == Finished(q, status)
<1>5. \A status \in {200, 413, 500, 401} :
        /\ F(status) \in ThreadType /\ F(status).phase = "done" /\ F(status).in = in
        /\ F(status).changed = FALSE /\ F(status).due = q.due /\ F(status).status = status
        /\ F(status).n = arrived + 1
  BY <1>3, FinishedIs DEF Statuses
<1> HIDE DEF F
<1> DEFINE token == CASE scenario.oidc = "off"        -> q
                      [] scenario.oidc = "incomplete" -> F(500)
                      [] in.token = NoToken           -> F(401)
                      [] OTHER -> c
           x == CASE in.route = "healthz" -> F(200)
                  [] in.route \in PostRoutes /\ in.flaw = "big" -> F(413)
                  [] OTHER -> token
<1>6. req' = [req EXCEPT ![r] = x]
  BY <1>1 DEF F, q, c
<1>7. \/ token = F(500)
      \/ token = F(401) /\ in.token = NoToken
      \/ token = q /\ scenario.oidc = "off"
      \/ token = c /\ scenario.oidc = "on" /\ in.token # NoToken
  BY <1>2
<1> HIDE DEF token
<1>8. x \in {F(200), F(413)} \/ (x = token /\ ~(in.route \in PostRoutes /\ in.flaw = "big"))
  OBVIOUS
<1>9. x \in ThreadType
  BY <1>3, <1>4, <1>5, <1>7, <1>8
<1> HIDE DEF x
<1>10. /\ UNCHANGED <<scenario, now, authVars, limitVars, resources, auditVars, unlogged>>
       /\ arrived' = arrived + 1 /\ req \in [Requests -> ThreadType]
  BY DEF Arrive, TypeInv
<1>11. /\ req' \in [Requests -> ThreadType] /\ \A o \in Requests : o # r => req'[o] = req[o]
       /\ req'[r] = x
  BY <1>6, <1>9, <1>10
<1> DEFINE y == req'[r]
           D == \/ /\ y.phase = "done" /\ y.status \in {200, 413, 500}
                \/ /\ y.phase = "done" /\ y.status = 401 /\ y.in.token = NoToken
                \/ /\ y.phase = "dispatch" /\ scenario.oidc = "off" /\ y.status = 0
                   /\ y.in.route \in PostRoutes => y.in.flaw # "big"
                \/ /\ y.phase = "client" /\ scenario.oidc = "on" /\ y.in.token # NoToken
                   /\ y.attempt = 0 /\ y.status = 0
                   /\ y.in.route \in PostRoutes => y.in.flaw # "big"
<1>12. /\ y.in \in Arrivals /\ y.changed = FALSE /\ y.due = (y.in.token.ver = published)
       /\ y.n = arrived + 1 /\ (y.phase # "done" => y.ok /\ y.pc = 1)
  BY <1>3, <1>4, <1>5, <1>7, <1>8, <1>11
<1>13. D
  <2>1. CASE x = F(200) \/ x = F(413) \/ x = F(500)
    BY <1>5, <1>11, <2>1
  <2>2. CASE x = F(401) /\ in.token = NoToken
    BY <1>5, <1>11, <2>2
  <2>3. CASE x = q /\ scenario.oidc = "off" /\ ~(in.route \in PostRoutes /\ in.flaw = "big")
    BY <1>3, <1>11, <2>3
  <2>4. CASE x = c /\ scenario.oidc = "on" /\ in.token # NoToken
             /\ ~(in.route \in PostRoutes /\ in.flaw = "big")
    BY <1>4, <1>11, <2>4
  <2> QED BY <1>7, <1>8, <2>1, <2>2, <2>3, <2>4
<1> QED BY <1>10, <1>11, <1>12, <1>13 DEF JustArrived

LEMMA GetClientIs ==
  ASSUME TypeInv, NEW r \in Requests, GetClient(r)
  PROVE  LET s == Server(r)
             c == IF Rebuilds(s, req[r].attempt)
                  THEN [gen |-> client[s].gen + 1, ver |-> 0, at |-> now] ELSE client[s]
         IN  /\ req[r].phase = "client" /\ s \in Servers /\ c \in Clients
             /\ client' = [client EXCEPT ![s] = c]
             /\ Moves(r)
             /\ req'[r] = [req[r] EXCEPT !.client = c, !.clock = now, !.phase = "decode"]
<1> DEFINE s == Server(r)
           c == IF Rebuilds(s, req[r].attempt)
                THEN [gen |-> client[s].gen + 1, ver |-> 0, at |-> now] ELSE client[s]
           q == [req[r] EXCEPT !.client = c, !.clock = now, !.phase = "decode"]
<1>1. /\ req[r].phase = "client" /\ client' = [client EXCEPT ![s] = c]
      /\ req' = [req EXCEPT ![r].client = c, ![r].clock = now, ![r].phase = "decode"]
  BY DEF GetClient
<1>2. In(r) \in Arrivals /\ scenario \in Scenarios /\ req[r] \in ThreadType /\ now \in Nat
  BY <1>1 DEF TypeInv
<1>3. s \in Servers
  BY <1>2, ArrivalTypes DEF Server
<1>4. client[s] \in Clients
  BY <1>3 DEF TypeInv
<1>5. [gen |-> client[s].gen + 1, ver |-> 0, at |-> now] \in Clients
  BY <1>2, <1>4 DEF Clients
<1>6. c \in Clients
  BY <1>4, <1>5
<1> HIDE DEF c
<1>7. q \in ThreadType /\ q.in = req[r].in /\ q.n = req[r].n
  BY <1>2, <1>6 DEF ThreadType, Phases
<1>8. req' = [req EXCEPT ![r] = q]
  BY <1>1 DEF TypeInv
<1>9. Moves(r) /\ req'[r] = q
  BY <1>7, <1>8, MovesTo
<1> QED BY <1>1, <1>3, <1>6, <1>9 DEF c

\* A token that is refused: once more with a new client, or the answer.
LEMMA RejectedIs ==
  ASSUME TypeInv, NEW q \in ThreadType
  PROVE  LET x == Rejected(q) IN
           /\ x \in ThreadType /\ x.in = q.in /\ x.n = q.n /\ x.due = q.due
           /\ x.client = q.client /\ x.changed = q.changed
           /\ \/ /\ q.attempt = 0 /\ x.attempt = 1 /\ x.phase = "client" /\ x.status = q.status
                 /\ x.ok = q.ok /\ x.pc = q.pc
              \/ q.attempt = 1 /\ x.phase = "done" /\ x.status = 401
<1>1. CASE q.attempt = 0
  <2> DEFINE x == [q EXCEPT !.attempt = 1, !.phase = "client"]
  <2>1. Rejected(q) = x
    BY <1>1 DEF Rejected
  <2>2. x \in ThreadType
    BY DEF ThreadType, Phases
  <2>3. /\ x.in = q.in /\ x.n = q.n /\ x.due = q.due /\ x.client = q.client /\ x.changed = q.changed
        /\ x.attempt = 1 /\ x.phase = "client" /\ x.status = q.status
        /\ x.ok = q.ok /\ x.pc = q.pc
    BY DEF ThreadType
  <2> HIDE DEF x
  <2> QED BY <1>1, <2>1, <2>2, <2>3
<1>2. CASE q.attempt = 1
  <2>1. Rejected(q) = Finished(q, 401)
    BY <1>2 DEF Rejected
  <2> QED BY <1>2, <2>1, FinishedIs DEF Statuses
<1> QED BY <1>1, <1>2 DEF ThreadType

LEMMA DecodeIs ==
  ASSUME TypeInv, NEW r \in Requests, Decode(r)
  PROVE  LET s == Server(r)
             key == IF CachedKey(r) = 0 THEN published ELSE CachedKey(r)
             keep == [req[r].client EXCEPT !.ver = key]
         IN  /\ req[r].phase = "decode" /\ s \in Servers
             /\ key \in Nat \ {0} /\ keep \in Clients
             /\ client' \in [Servers -> Clients]
             /\ client' = IF client[s].gen = keep.gen THEN [client EXCEPT ![s] = keep] ELSE client
             /\ Moves(r)
             /\ \/ In(r).token.ver = key
                   /\ req'[r] = [req[r] EXCEPT !.client = keep, !.phase = "dispatch"]
                \/ In(r).token.ver # key /\ req'[r] = Rejected(req[r])
<1> DEFINE s == Server(r)
           key == IF CachedKey(r) = 0 THEN published ELSE CachedKey(r)
           keep == [req[r].client EXCEPT !.ver = key]
           q == [req[r] EXCEPT !.client = keep, !.phase = "dispatch"]
<1>1. /\ req[r].phase = "decode"
      /\ client' = IF client[s].gen = keep.gen THEN [client EXCEPT ![s] = keep] ELSE client
      /\ req' = [req EXCEPT ![r] = IF In(r).token.ver = key THEN q ELSE Rejected(req[r])]
  BY DEF Decode
<1>2. In(r) \in Arrivals /\ scenario \in Scenarios /\ req[r] \in ThreadType /\ published \in Nat \ {0}
  BY <1>1 DEF TypeInv
<1>3. s \in Servers
  BY <1>2, ArrivalTypes DEF Server
<1>4. client[s] \in Clients /\ req[r].client \in Clients
  BY <1>2, <1>3 DEF TypeInv, ThreadType
<1>5. CachedKey(r) \in Nat
  BY <1>4 DEF CachedKey, Clients
<1>6. key \in Nat \ {0}
  BY <1>2, <1>5
<1> HIDE DEF key
<1>7. keep \in Clients
  BY <1>4, <1>6 DEF Clients
<1> HIDE DEF keep
<1>8. client' \in [Servers -> Clients]
  BY <1>1, <1>3, <1>7 DEF TypeInv
<1>9. q \in ThreadType /\ q.in = req[r].in /\ q.n = req[r].n
  BY <1>2, <1>7 DEF ThreadType, Phases
<1>10. Rejected(req[r]) \in ThreadType /\ Rejected(req[r]).in = req[r].in /\ Rejected(req[r]).n = req[r].n
  BY <1>2, RejectedIs
<1>11. CASE In(r).token.ver = key
  <2>1. req' = [req EXCEPT ![r] = q]
    BY <1>1, <1>11
  <2>2. Moves(r) /\ req'[r] = q
    BY <1>9, <2>1, MovesTo
  <2> QED BY <1>1, <1>3, <1>6, <1>7, <1>8, <1>11, <2>2 DEF key, keep
<1>12. CASE In(r).token.ver # key
  <2>1. req' = [req EXCEPT ![r] = Rejected(req[r])]
    BY <1>1, <1>12
  <2>2. Moves(r) /\ req'[r] = Rejected(req[r])
    BY <1>10, <2>1, MovesTo
  <2> QED BY <1>1, <1>3, <1>6, <1>7, <1>8, <1>12, <2>2 DEF key, keep
<1> QED BY <1>11, <1>12

LEMMA FetchFailsIs ==
  ASSUME TypeInv, NEW r \in Requests, FetchFails(r)
  PROVE  /\ req[r].phase = "decode" /\ Moves(r)
         /\ req'[r].due = FALSE /\ req'[r].client = req[r].client
         /\ req'[r].changed = req[r].changed
         /\ \/ /\ req[r].attempt = 0 /\ req'[r].attempt = 1 /\ req'[r].phase = "client"
               /\ req'[r].status = req[r].status
               /\ req'[r].ok = req[r].ok /\ req'[r].pc = req[r].pc
            \/ req'[r].phase = "done" /\ req'[r].status = 401
<1> DEFINE q == [req[r] EXCEPT !.due = FALSE]
<1>1. req[r].phase = "decode" /\ req' = [req EXCEPT ![r] = Rejected(q)] /\ req[r] \in ThreadType
  BY DEF FetchFails, TypeInv
<1>2. /\ q \in ThreadType /\ q.in = req[r].in /\ q.n = req[r].n /\ q.due = FALSE
      /\ q.client = req[r].client /\ q.changed = req[r].changed /\ q.attempt = req[r].attempt
      /\ q.status = req[r].status /\ q.ok = req[r].ok /\ q.pc = req[r].pc
  BY <1>1 DEF ThreadType
<1> HIDE DEF q
<1>3. Rejected(q) \in ThreadType /\ Rejected(q).in = req[r].in /\ Rejected(q).n = req[r].n
  BY <1>2, RejectedIs
<1>4. Moves(r) /\ req'[r] = Rejected(q)
  BY <1>1, <1>3, MovesTo
<1> QED BY <1>1, <1>2, <1>4, RejectedIs

LEMMA PostRoutesAre ==
  PostRoutes = {"delete", "rerun", "ingest_url", "ingest_file", "worker_start", "worker_stop",
                "worker_restart", "webhook", "workflow_save", "workflow_delete", "trigger_save",
                "trigger_delete", "trigger_toggle", "trigger_run", "workflow_run", "config_save",
                "bulk_retry", "bulk_clear"}
<1>1. /\ DOMAIN SourceRoutes = {"delete", "rerun", "ingest_url", "ingest_file"}
      /\ DOMAIN WorkerRoutes = {"worker_start", "worker_stop", "worker_restart"}
      /\ DOMAIN WebhookRoutes = {"webhook"}
      /\ DOMAIN WorkflowRoutes = {"workflow_save", "workflow_delete"}
      /\ DOMAIN TriggerRoutes = {"trigger_save", "trigger_delete", "trigger_toggle", "trigger_run"}
      /\ DOMAIN OtherRoutes = {"workflow_run", "config_save", "bulk_retry", "bulk_clear"}
  BY DEF SourceRoutes, WorkerRoutes, WebhookRoutes, WorkflowRoutes, TriggerRoutes, OtherRoutes
<1>2. PostRoutes = DOMAIN SourceRoutes \cup DOMAIN WorkerRoutes \cup DOMAIN WebhookRoutes
                   \cup DOMAIN WorkflowRoutes \cup DOMAIN TriggerRoutes \cup DOMAIN OtherRoutes
  BY DEF PostRoutes, RouteTables
<1> QED BY <1>1, <1>2

LEMMA DispatchIs ==
  ASSUME TypeInv, NEW r \in Requests, Dispatch(r)
  PROVE  /\ req[r].phase = "dispatch" /\ Moves(r)
         /\ req'[r].due = req[r].due /\ req'[r].client = req[r].client
         /\ req'[r].changed = req[r].changed
         /\ req'[r].phase # "done" => req'[r].ok = req[r].ok /\ req'[r].pc = req[r].pc
         /\ \/ req'[r].phase = "done" /\ req'[r].status \in {200, 400, 403}
            \/ /\ req'[r].phase = "clock" /\ In(r).route = "webhook"
               /\ req'[r].status = req[r].status
            \/ /\ req'[r].phase = "handle" /\ Post(r) /\ In(r).route # "webhook"
               /\ CrossSite(In(r)) => WantsJson(In(r))
               /\ CheckPermission(RolesOf(r), PostPermission[In(r).route])
               /\ req'[r].status = req[r].status
<1> DEFINE in == In(r)
           permission == IF Post(r) THEN PostPermission[in.route] ELSE ViewPermission[in.route]
<1>1. req[r].phase = "dispatch" /\ req[r] \in ThreadType
  BY DEF Dispatch, TypeInv
<1>2. \/ Answer(r, 400) \/ Answer(r, 403) \/ Answer(r, 200)
      \/ Goto(r, "clock") /\ in.route = "webhook"
      \/ /\ Goto(r, "handle") /\ Post(r) /\ CsrfAllowed(in) /\ in.route # "webhook"
         /\ ~(in.route \notin OpenRoutes /\ ~CheckPermission(RolesOf(r), permission))
  BY DEF Dispatch
<1>3. ASSUME NEW status \in {400, 403, 200}, Answer(r, status)
      PROVE  /\ Moves(r) /\ req'[r].phase = "done" /\ req'[r].status = status
             /\ req'[r].due = req[r].due /\ req'[r].client = req[r].client
             /\ req'[r].changed = req[r].changed
  BY <1>3, AnswerIs DEF Statuses
<1>4. ASSUME NEW phase \in {"clock", "handle"}, Goto(r, phase)
      PROVE  /\ Moves(r) /\ req'[r].phase = phase
             /\ req'[r].due = req[r].due /\ req'[r].client = req[r].client
             /\ req'[r].changed = req[r].changed /\ req'[r].status = req[r].status
             /\ req'[r].ok = req[r].ok /\ req'[r].pc = req[r].pc
  <2>1. Moves(r) /\ req'[r] = [req[r] EXCEPT !.phase = phase]
    BY <1>4, GotoIs DEF Phases
  <2> QED BY <1>1, <2>1 DEF ThreadType
<1>5. CASE /\ Goto(r, "handle") /\ Post(r) /\ CsrfAllowed(in) /\ in.route # "webhook"
           /\ ~(in.route \notin OpenRoutes /\ ~CheckPermission(RolesOf(r), permission))
  <2>1. in.route \notin OpenRoutes
    BY <1>5, PostRoutesAre DEF Post, OpenRoutes
  <2>2. CheckPermission(RolesOf(r), PostPermission[In(r).route])
    BY <1>5, <2>1
  <2>3. CrossSite(In(r)) => WantsJson(In(r))
    BY <1>5 DEF CsrfAllowed
  <2> QED BY <1>1, <1>4, <1>5, <2>2, <2>3
<1> QED BY <1>1, <1>2, <1>3, <1>4, <1>5

LEMMA ReadClockIs ==
  ASSUME TypeInv, NEW r \in Requests, ReadClock(r)
  PROVE  /\ req[r].phase = "clock" /\ Moves(r)
         /\ req'[r] = [req[r] EXCEPT !.clock = now, !.phase = "limit"]
<1> DEFINE q == [req[r] EXCEPT !.clock = now, !.phase = "limit"]
<1>1. /\ req[r].phase = "clock" /\ req' = [req EXCEPT ![r].clock = now, ![r].phase = "limit"]
      /\ req[r] \in ThreadType /\ now \in Nat
  BY DEF ReadClock, TypeInv
<1>2. q \in ThreadType /\ q.in = req[r].in /\ q.n = req[r].n
  BY <1>1 DEF ThreadType, Phases
<1>3. req' = [req EXCEPT ![r] = q]
  BY <1>1 DEF TypeInv
<1>4. Moves(r) /\ req'[r] = q
  BY <1>2, <1>3, MovesTo
<1> QED BY <1>1, <1>4

LEMMA LimitIs ==
  ASSUME TypeInv, NEW r \in Requests, Limit(r)
  PROVE  /\ req[r].phase = "limit" /\ Moves(r)
         /\ req'[r].due = req[r].due /\ req'[r].client = req[r].client
         /\ req'[r].changed = req[r].changed
         /\ req'[r].phase # "done" => req'[r].ok = req[r].ok /\ req'[r].pc = req[r].pc
         /\ \/ /\ req'[r].phase = "done" /\ req'[r].status \in {401, 403, 429}
               /\ req'[r].status = 401 => In(r).flaw = "unsigned"
            \/ /\ req'[r].phase = "handle" /\ req'[r].status = req[r].status
               /\ scenario.secret => In(r).flaw \notin {"unsigned", "badly-signed"}
<1>1. req[r].phase = "limit" /\ req[r] \in ThreadType
  BY DEF Limit, TypeInv
<1>2. Signed(r) \/ Answer(r, 429)
  BY DEF Limit
<1>3. \/ Answer(r, 429) \/ Answer(r, 403) \/ (Answer(r, 401) /\ In(r).flaw = "unsigned")
      \/ Goto(r, "handle") /\ (scenario.secret => In(r).flaw \notin {"unsigned", "badly-signed"})
  <2>1. CASE ~scenario.secret
    BY <1>2, <2>1 DEF Signed
  <2>2. CASE scenario.secret
    BY <1>2, <2>2 DEF Signed
  <2> QED BY <2>1, <2>2
<1>4. ASSUME NEW status \in {429, 403, 401}, Answer(r, status)
      PROVE  /\ Moves(r) /\ req'[r].phase = "done" /\ req'[r].status = status
             /\ req'[r].due = req[r].due /\ req'[r].client = req[r].client
             /\ req'[r].changed = req[r].changed
  BY <1>4, AnswerIs DEF Statuses
<1>5. ASSUME Goto(r, "handle")
      PROVE  /\ Moves(r) /\ req'[r].phase = "handle"
             /\ req'[r].due = req[r].due /\ req'[r].client = req[r].client
             /\ req'[r].changed = req[r].changed /\ req'[r].status = req[r].status
             /\ req'[r].ok = req[r].ok /\ req'[r].pc = req[r].pc
  <2>1. Moves(r) /\ req'[r] = [req[r] EXCEPT !.phase = "handle"]
    BY <1>5, GotoIs DEF Phases
  <2> QED BY <1>1, <2>1 DEF ThreadType
<1> QED BY <1>1, <1>3, <1>4, <1>5

LEMMA LockIs ==
  ASSUME TypeInv, NEW r \in Requests, Lock(r)
  PROVE  /\ req[r].phase = "lock" /\ Server(r) \in Servers /\ lock[Server(r)] = NoOne
         /\ lock' = [lock EXCEPT ![Server(r)] = r] /\ Moves(r)
         /\ req'[r] = [req[r] EXCEPT !.prev = IF scenario.signing THEN LastEvent ELSE 0,
                                     !.phase = "insert"]
<1> DEFINE p == IF scenario.signing THEN LastEvent ELSE 0
           q == [req[r] EXCEPT !.prev = p, !.phase = "insert"]
<1>1. /\ req[r].phase = "lock" /\ lock' = [lock EXCEPT ![Server(r)] = r]
      /\ req' = [req EXCEPT ![r].prev = p, ![r].phase = "insert"]
      /\ req[r] \in ThreadType /\ lock[Server(r)] = NoOne
  BY DEF Lock, MayLog, TypeInv
<1>2. Server(r) \in Servers
  BY <1>1, ArrivalTypes DEF TypeInv, Server
<1>3. p \in Nat
  <2>1. CASE log = <<>>
    BY <2>1 DEF LastEvent
  <2>2. CASE log # <<>>
    <3>1. log \in Seq(Events) /\ Len(log) \in DOMAIN log
      BY <2>2 DEF TypeInv
    <3>2. log[Len(log)] \in Events
      BY <3>1
    <3> QED BY <2>2, <3>2 DEF LastEvent, Events
  <2> QED BY <2>1, <2>2
<1> HIDE DEF p
<1>4. q \in ThreadType /\ q.in = req[r].in /\ q.n = req[r].n
  BY <1>1, <1>3 DEF ThreadType, Phases
<1>5. req' = [req EXCEPT ![r] = q]
  BY <1>1 DEF TypeInv
<1>6. Moves(r) /\ req'[r] = q
  BY <1>4, <1>5, MovesTo
<1> QED BY <1>1, <1>2, <1>6 DEF p

LEMMA InsertIs ==
  ASSUME TypeInv, NEW r \in Requests, Insert(r) \/ InsertFails(r)
  PROVE  /\ req[r].phase = "insert" /\ Server(r) \in Servers
         /\ lock' = [lock EXCEPT ![Server(r)] = NoOne] /\ Moves(r)
         /\ req'[r].phase = "done" /\ req'[r].status \in {200, 400}
         /\ req'[r].due = req[r].due /\ req'[r].client = req[r].client
         /\ req'[r].changed = req[r].changed /\ req'[r].ok = req[r].ok
         /\ Event(r) \in Events
         /\ \/ log' = Append(log, Event(r)) /\ unlogged' = unlogged
            \/ log' = log /\ unlogged' = unlogged \cup {req[r].n}
<1> DEFINE status == IF req[r].ok THEN 200 ELSE 400
<1>1. /\ req[r].phase = "insert" /\ lock' = [lock EXCEPT ![Server(r)] = NoOne]
      /\ Answer(r, status) /\ req[r] \in ThreadType
      /\ \/ log' = Append(log, Event(r)) /\ unlogged' = unlogged
         \/ log' = log /\ unlogged' = unlogged \cup {req[r].n}
  BY DEF Insert, InsertFails, TypeInv
<1>2. In(r) \in Arrivals /\ scenario \in Scenarios
  BY <1>1 DEF TypeInv
<1>3. Server(r) \in Servers /\ In(r).route \in Routes
  BY <1>2, ArrivalTypes DEF Server
<1>4. Event(r) \in Events
  BY <1>1, <1>3 DEF Event, Events, ThreadType
<1>5. status \in {200, 400} /\ status \in Statuses
  BY DEF Statuses
<1> HIDE DEF status
<1> QED BY <1>1, <1>3, <1>4, <1>5, AnswerIs

LEMMA RotateIs ==
  ASSUME TypeInv, Rotate
  PROVE  /\ req' \in [Requests -> ThreadType]
         /\ \A r \in Requests : req'[r] = [req[r] EXCEPT !.due = FALSE]
         /\ published' = published + 1 /\ withdrawn' = now
<1>1. req' = [r \in Requests |-> [req[r] EXCEPT !.due = FALSE]]
  BY DEF Rotate
<1>2. ASSUME NEW r \in Requests PROVE [req[r] EXCEPT !.due = FALSE] \in ThreadType
  <2>1. req[r] \in ThreadType
    BY DEF TypeInv
  <2> QED BY <2>1 DEF ThreadType
<1> QED BY <1>1, <1>2 DEF Rotate

\* The steps of a thread up to its handler.
Gate(r) == GetClient(r) \/ Decode(r) \/ FetchFails(r) \/ Dispatch(r) \/ ReadClock(r) \/ Limit(r)

LEMMA GateIs ==
  ASSUME TypeInv, NEW r \in Requests, Gate(r)
  PROVE  /\ Moves(r) /\ req'[r].changed = req[r].changed
         /\ req[r].phase \in {"client", "decode", "dispatch", "clock", "limit"}
         /\ req[r].phase = "client" => req'[r].phase = "decode"
         /\ req[r].phase = "decode" => req'[r].phase \in {"client", "dispatch", "done"}
         /\ req[r].phase = "dispatch" => Dispatch(r) /\ req'[r].phase \in {"clock", "handle", "done"}
         /\ req[r].phase = "clock" => req'[r].phase = "limit"
         /\ req[r].phase = "limit" => Limit(r) /\ req'[r].phase \in {"handle", "done"}
         /\ req'[r].phase # "done" =>
              /\ req'[r].ok = req[r].ok /\ req'[r].pc = req[r].pc /\ req'[r].status = req[r].status
         /\ UNCHANGED <<scenario, resources, auditVars, unlogged>>
<1>0. req[r] \in ThreadType
  BY DEF TypeInv
<1>u. UNCHANGED <<scenario, resources, auditVars, unlogged>>
  BY DEF Gate, GetClient, Decode, FetchFails, Dispatch, ReadClock, Limit
<1>1. CASE GetClient(r)
  <2>1. PICK c \in Clients : req'[r] = [req[r] EXCEPT !.client = c, !.clock = now, !.phase = "decode"]
    BY <1>1, GetClientIs
  <2>2. /\ req'[r].phase = "decode" /\ req'[r].changed = req[r].changed
        /\ req'[r].ok = req[r].ok /\ req'[r].pc = req[r].pc /\ req'[r].status = req[r].status
    BY <1>0, <2>1 DEF ThreadType
  <2>3. req[r].phase = "client" /\ Moves(r)
    BY <1>1, GetClientIs
  <2> QED BY <1>u, <2>2, <2>3
<1>2. CASE Decode(r)
  <2>1. req[r].phase = "decode" /\ Moves(r)
    BY <1>2, DecodeIs
  <2>2. \/ req'[r] = Rejected(req[r])
        \/ \E k \in Clients : req'[r] = [req[r] EXCEPT !.client = k, !.phase = "dispatch"]
    BY <1>2, DecodeIs
  <2>3. CASE req'[r] = Rejected(req[r])
    BY <1>0, <1>u, <2>1, <2>3, RejectedIs
  <2>4. CASE \E k \in Clients : req'[r] = [req[r] EXCEPT !.client = k, !.phase = "dispatch"]
    <3>1. /\ req'[r].phase = "dispatch" /\ req'[r].changed = req[r].changed
          /\ req'[r].ok = req[r].ok /\ req'[r].pc = req[r].pc /\ req'[r].status = req[r].status
      BY <1>0, <2>4 DEF ThreadType
    <3> QED BY <1>u, <2>1, <3>1
  <2> QED BY <2>2, <2>3, <2>4
<1>3. CASE FetchFails(r)
  BY ZenonT(40), <1>3, <1>u, FetchFailsIs
<1>4. CASE Dispatch(r)
  BY <1>4, <1>u, DispatchIs
<1>5. CASE ReadClock(r)
  <2>1. /\ req[r].phase = "clock" /\ Moves(r)
        /\ req'[r] = [req[r] EXCEPT !.clock = now, !.phase = "limit"]
    BY <1>5, ReadClockIs
  <2>2. /\ req'[r].phase = "limit" /\ req'[r].changed = req[r].changed
        /\ req'[r].ok = req[r].ok /\ req'[r].pc = req[r].pc /\ req'[r].status = req[r].status
    BY <1>0, <2>1 DEF ThreadType
  <2> QED BY <1>u, <2>1, <2>2
<1>6. CASE Limit(r)
  BY <1>6, <1>u, LimitIs
<1> QED BY <1>1, <1>2, <1>3, <1>4, <1>5, <1>6 DEF Gate

LEMMA TypeStep == TypeInv /\ [Next]_vars => TypeInv'
<1> SUFFICES ASSUME TypeInv, [Next]_vars PROVE TypeInv'
  OBVIOUS
<1>0. /\ scenario \in Scenarios /\ now \in Nat /\ arrived \in Nat
      /\ req \in [Requests -> ThreadType]
      /\ \A r \in Requests : req[r].phase # "idle" => req[r].in \in Arrivals
      /\ published \in Nat \ {0} /\ withdrawn \in Nat
      /\ client \in [Servers -> Clients]
      /\ file \in [Documents -> Content]
      /\ log \in Seq(Events) /\ lock \in [Servers -> Requests \cup {NoOne}]
  BY DEF TypeInv, In
<1>1. ASSUME scenario' = scenario, now' \in Nat, arrived' \in Nat,
             req' \in [Requests -> ThreadType],
             \A r \in Requests : req'[r].phase # "idle" => req'[r].in \in Arrivals,
             published' \in Nat \ {0}, withdrawn' \in Nat, client' \in [Servers -> Clients],
             file' \in [Documents -> Content],
             log' \in Seq(Events), lock' \in [Servers -> Requests \cup {NoOne}]
      PROVE  TypeInv'
  <2>1. Arrivals' = Arrivals
    BY <1>1 DEF Arrivals
  <2>2. ThreadType' = ThreadType
    BY <2>1 DEF ThreadType
  <2> QED BY <1>0, <1>1, <2>1, <2>2 DEF TypeInv, In
<1>2. ASSUME NEW r \in Requests, Moves(r), req[r].phase # "idle"
      PROVE  /\ req' \in [Requests -> ThreadType]
             /\ \A o \in Requests : req'[o].phase # "idle" => req'[o].in \in Arrivals
  BY <1>0, <1>2 DEF Moves
<1> USE DEF authVars, issuerVars, resources, fileVars, auditVars, limitVars
<1>3. CASE UNCHANGED <<scenario, now, arrived, req, authVars, file, auditVars>>
  BY <1>0, <1>1, <1>3
<1>4. ASSUME NEW r \in Requests, Arrive(r) PROVE TypeInv'
  <2>1. /\ req' \in [Requests -> ThreadType] /\ \A o \in Requests : o # r => req'[o] = req[o]
        /\ req'[r].in \in Arrivals /\ arrived' = arrived + 1
        /\ UNCHANGED <<scenario, now, authVars, resources, auditVars>>
    BY <1>4, ArriveIs DEF JustArrived
  <2> QED BY <1>0, <1>1, <2>1
<1>5. ASSUME NEW r \in Requests, GetClient(r) PROVE TypeInv'
  <2>1. PICK c \in Clients : client' = [client EXCEPT ![Server(r)] = c]
    BY <1>5, GetClientIs
  <2>2. Moves(r) /\ req[r].phase # "idle" /\ client' \in [Servers -> Clients]
    BY <1>0, <1>5, <2>1, GetClientIs
  <2> QED BY <1>0, <1>1, <1>2, <1>5, <2>2 DEF GetClient
<1>6. ASSUME NEW r \in Requests, Decode(r) PROVE TypeInv'
  <2>1. Moves(r) /\ req[r].phase # "idle" /\ client' \in [Servers -> Clients]
    BY <1>0, <1>6, DecodeIs
  <2> QED BY <1>0, <1>1, <1>2, <1>6, <2>1 DEF Decode
<1>7. ASSUME NEW r \in Requests, FetchFails(r) \/ Dispatch(r) \/ ReadClock(r) \/ Limit(r)
      PROVE  TypeInv'
  <2>1. Moves(r) /\ req[r].phase # "idle"
    BY <1>7, FetchFailsIs, DispatchIs, ReadClockIs, LimitIs
  <2>2. UNCHANGED <<scenario, now, arrived, authVars, resources, auditVars>>
    BY <1>7 DEF FetchFails, Dispatch, ReadClock, Limit
  <2> QED BY <1>0, <1>1, <1>2, <2>1, <2>2
<1>8. ASSUME NEW r \in Requests, Operation(r) PROVE TypeInv'
  <2>1. /\ Moves(r) /\ req[r].phase # "idle" /\ file' \in [Documents -> Content]
        /\ UNCHANGED <<scenario, now, arrived, authVars, auditVars>>
    BY <1>8, OperationIs DEF Works, elsewhere
  <2> QED BY <1>0, <1>1, <1>2, <2>1
<1>9. ASSUME NEW r \in Requests, Lock(r) PROVE TypeInv'
  <2>1. Moves(r) /\ req[r].phase # "idle" /\ lock' = [lock EXCEPT ![Server(r)] = r]
    BY <1>9, LockIs
  <2> QED BY <1>0, <1>1, <1>2, <1>9, <2>1 DEF Lock
<1>10. ASSUME NEW r \in Requests, Insert(r) \/ InsertFails(r) PROVE TypeInv'
  <2>1. /\ Moves(r) /\ req[r].phase # "idle" /\ lock' = [lock EXCEPT ![Server(r)] = NoOne]
        /\ Event(r) \in Events /\ log' \in {log, Append(log, Event(r))}
    BY <1>10, InsertIs
  <2>2. UNCHANGED <<scenario, now, arrived, authVars, resources>>
    BY <1>10 DEF Insert, InsertFails
  <2>3. log' \in Seq(Events)
    BY <1>0, <2>1
  <2> QED BY <1>0, <1>1, <1>2, <2>1, <2>2, <2>3
<1>11. CASE Tick
  BY <1>0, <1>1, <1>11 DEF Tick
<1>12. CASE Rotate
  <2>1. /\ req' \in [Requests -> ThreadType]
        /\ \A r \in Requests : req'[r] = [req[r] EXCEPT !.due = FALSE]
        /\ published' = published + 1 /\ withdrawn' = now
    BY <1>12, RotateIs
  <2>2. \A r \in Requests : req'[r].in = req[r].in /\ req'[r].phase = req[r].phase
    BY <1>0, <2>1 DEF ThreadType
  <2> QED BY <1>0, <1>1, <1>12, <2>1, <2>2 DEF Rotate
<1>13. CASE UNCHANGED vars \/ WorkerEnds
  BY <1>3, <1>13 DEF vars, WorkerEnds, elsewhere
<1> QED BY <1>4, <1>5, <1>6, <1>7, <1>8, <1>9, <1>10, <1>11, <1>12, <1>13 DEF Next

-----------------------------------------------------------------------------
(* Rotation of the issuer's key *)

\* A client with a replaced key was built before the replacement.
ClientKeys ==
    /\ withdrawn <= now
    /\ \A s \in Servers :
         /\ client[s].at <= now
         /\ client[s].ver \notin {0, published} => client[s].at <= withdrawn

\* A thread that has a client got it while it was young.  If it is the client of
\* its server still, another thread may have fetched the key for it; the client
\* of a second attempt is new, so that key is the one in force.
ThreadKeys(q) ==
    /\ q.due => q.in.token.ver = published
    /\ q.phase = "done" /\ q.status = 401 /\ q.in.flaw = "none" => ~q.due
    /\ q.phase \in {"client", "decode"} => scenario.oidc = "on"
    /\ q.phase \in {"decode", "dispatch"} /\ scenario.oidc = "on" =>
         /\ q.clock < q.client.at + Ttl /\ q.client.at <= now
         /\ q.client.ver \notin {0, published} => q.client.at <= withdrawn
    /\ q.phase = "decode" => LET c == client[q.in.server] IN
         /\ q.client.gen <= c.gen
         /\ q.client.gen = c.gen => q.client.at = c.at
         /\ q.attempt = 1 => q.client.ver = 0
         /\ q.attempt = 1 /\ q.due /\ q.client.gen = c.gen => c.ver \in {0, published}
    /\ q.phase = "dispatch" /\ scenario.oidc = "on" =>
         q.client.ver = q.in.token.ver /\ q.client.ver # 0

KeysInv == ClientKeys /\ \A r \in Requests : ThreadKeys(req[r])

\* The one lemma that looks at the issuer: threads fetch, rebuild and give up in any order.
LEMMA KeysStep == TypeInv /\ KeysInv /\ [Next]_vars => KeysInv'
<1> SUFFICES ASSUME TypeInv, TypeInv', KeysInv, [Next]_vars PROVE KeysInv'
  BY TypeStep
<1>0. /\ req \in [Requests -> ThreadType] /\ now \in Nat /\ withdrawn \in Nat
      /\ published \in Nat \ {0} /\ client \in [Servers -> Clients]
      /\ \A r \in Requests : req[r].phase # "idle" => /\ req[r].in.server \in Servers
                                                    /\ req[r].in.token.ver \in Nat
      /\ Ttl \in Nat \ {0}
      /\ \A r \in Requests : ThreadKeys(req[r])
  BY WebAssumption, ArrivalTypes DEF TypeInv, KeysInv, In
<1> USE DEF authVars, issuerVars
<1>1. ASSUME UNCHANGED <<scenario, now, authVars>>, NEW r \in Requests,
             \A o \in Requests : o # r => req'[o] = req[o],
             ThreadKeys(req'[r])
      PROVE  KeysInv'
  <2>1. ClientKeys'
    BY <1>1 DEF KeysInv, ClientKeys
  <2>2. \A q : ThreadKeys(q) => ThreadKeys(q)'
    BY <1>1 DEF ThreadKeys
  <2>3. \A o \in Requests : ThreadKeys(req[o])'
    BY <1>0, <1>1, <2>2
  <2> QED BY <2>1, <2>3 DEF KeysInv
<1>2. ASSUME NEW r \in Requests, Arrive(r) PROVE KeysInv'
  <2>0. JustArrived(req'[r])
    BY <1>2, ArriveIs
  <2>1. req'[r].in \in Arrivals /\ req'[r].due = (req'[r].in.token.ver = published)
    BY <2>0 DEF JustArrived
  <2>5. \/ req'[r].phase = "done" /\ req'[r].status \in {200, 413, 500}
        \/ req'[r].phase = "done" /\ req'[r].in.token = NoToken
        \/ req'[r].phase = "dispatch" /\ scenario.oidc = "off"
        \/ req'[r].phase = "client" /\ scenario.oidc = "on"
    BY <2>0 DEF JustArrived
  <2>2. NoToken.ver = 0
    BY DEF NoToken
  <2>3. ThreadKeys(req'[r])
    <3>1. req'[r].due => req'[r].in.token.ver = published
      BY <2>1
    <3>2. req'[r].in.token = NoToken => ~req'[r].due
      BY <1>0, <2>2, <3>1
    <3> QED BY <2>5, <3>1, <3>2 DEF ThreadKeys
  <2>4. UNCHANGED <<scenario, now, authVars>> /\ \A o \in Requests : o # r => req'[o] = req[o]
    BY <1>2, ArriveIs
  <2> QED BY <1>1, <2>3, <2>4
<1>3. ASSUME NEW r \in Requests, FetchFails(r) PROVE KeysInv'
  <2>1. /\ req[r].phase = "decode" /\ req'[r].due = FALSE
        /\ req'[r].phase \in {"client", "done"} /\ req'[r].in = req[r].in
        /\ \A o \in Requests : o # r => req'[o] = req[o]
    BY <1>3, FetchFailsIs DEF Moves
  <2>2. ThreadKeys(req'[r])
    BY <1>0, <2>1 DEF ThreadKeys
  <2> QED BY <1>1, <1>3, <2>1, <2>2 DEF FetchFails
<1>4. ASSUME NEW r \in Requests,
             Dispatch(r) \/ ReadClock(r) \/ Limit(r) \/ Operation(r) \/ Lock(r)
               \/ Insert(r) \/ InsertFails(r)
      PROVE  KeysInv'
  <2> DEFINE Goes == /\ Moves(r)
                     /\ req'[r].phase \in {"clock", "limit", "handle", "lock", "insert", "done"}
                     /\ req'[r].due = req[r].due
                     /\ req'[r].phase = "done" /\ req'[r].status = 401 => In(r).flaw = "unsigned"
  <2>1. Goes
    <3>0. req[r] \in ThreadType
      BY <1>0
    <3>1. CASE Dispatch(r)
      BY <3>1, DispatchIs
    <3>2. CASE ReadClock(r)
      <4>1. Moves(r) /\ req'[r] = [req[r] EXCEPT !.clock = now, !.phase = "limit"]
        BY <3>2, ReadClockIs
      <4>2. req'[r].phase = "limit" /\ req'[r].due = req[r].due
        BY <3>0, <4>1 DEF ThreadType
      <4> QED BY <4>1, <4>2
    <3>3. CASE Limit(r)
      BY <3>3, LimitIs
    <3>4. CASE Operation(r)
      BY <3>4, OperationIs DEF Works
    <3>5. CASE Lock(r)
      <4> DEFINE p == IF scenario.signing THEN LastEvent ELSE 0
      <4>1. Moves(r) /\ req'[r] = [req[r] EXCEPT !.prev = p, !.phase = "insert"]
        BY <3>5, LockIs
      <4> HIDE DEF p
      <4>2. req'[r].phase = "insert" /\ req'[r].due = req[r].due
        BY <3>0, <4>1 DEF ThreadType
      <4> QED BY <4>1, <4>2
    <3>6. CASE Insert(r) \/ InsertFails(r)
      BY <3>6, InsertIs
    <3> QED BY <1>4, <3>1, <3>2, <3>3, <3>4, <3>5, <3>6
  <2>5. ThreadKeys(req'[r])
    BY <1>0, <2>1 DEF ThreadKeys, Moves, In
  <2>6. UNCHANGED <<scenario, now, authVars>>
    BY <1>4, OperationIs DEF Works, elsewhere, Dispatch, ReadClock, Limit, Lock, Insert, InsertFails
  <2> QED BY <1>1, <2>1, <2>5, <2>6 DEF Moves
<1>5. ASSUME NEW r \in Requests, GetClient(r) PROVE KeysInv'
  <2> DEFINE s == Server(r)
             c == IF Rebuilds(s, req[r].attempt)
                  THEN [gen |-> client[s].gen + 1, ver |-> 0, at |-> now] ELSE client[s]
  <2>1. /\ req[r].phase = "client" /\ s \in Servers /\ c \in Clients
        /\ client' = [client EXCEPT ![s] = c] /\ Moves(r)
        /\ req'[r] = [req[r] EXCEPT !.client = c, !.clock = now, !.phase = "decode"]
    BY <1>5, GetClientIs
  <2>2. UNCHANGED <<scenario, now, published, withdrawn>>
    BY <1>5 DEF GetClient
  <2>3. client[s] \in Clients /\ client[s].gen \in Nat /\ client[s].at \in Nat
    BY <1>0, <2>1 DEF Clients
  <2>4. \/ c.gen = client[s].gen + 1 /\ c.ver = 0 /\ c.at = now
        \/ /\ c = client[s] /\ req[r].attempt # 1 /\ ~(now >= client[s].at + Ttl)
    BY DEF Rebuilds
  <2> HIDE DEF c, s
  <2>5. c.at <= now /\ (c.ver \notin {0, published} => c.at <= withdrawn)
    BY <1>0, <2>1, <2>3, <2>4 DEF KeysInv, ClientKeys
  <2>6. ClientKeys'
    BY <1>0, <2>1, <2>2, <2>5 DEF KeysInv, ClientKeys
  <2>7. now < c.at + Ttl
    BY <1>0, <2>3, <2>4
  <2>8. req[r].attempt = 1 => c.ver = 0
    BY <2>4
  <2>9. client'[s] = c /\ \A z \in Servers : z # s => client'[z] = client[z]
    BY <1>0, <2>1
  <2>10. /\ req'[r].client = c /\ req'[r].clock = now /\ req'[r].phase = "decode"
         /\ req'[r].in = req[r].in /\ req'[r].due = req[r].due /\ req'[r].attempt = req[r].attempt
         /\ scenario.oidc = "on" /\ (req[r].due => req[r].in.token.ver = published)
         /\ req[r].in.server = s
    BY <1>0, <2>1 DEF ThreadType, ThreadKeys, Server, In, s
  <2>11. c.gen \in Nat
    BY <2>1 DEF Clients
  <2>12. ThreadKeys(req[r])'
    BY <2>2, <2>5, <2>7, <2>8, <2>9, <2>10, <2>11 DEF ThreadKeys
  <2>13. ASSUME NEW o \in Requests, o # r PROVE ThreadKeys(req[o])'
    <3>1. req'[o] = req[o] /\ ThreadKeys(req[o])
      BY <1>0, <2>1, <2>13 DEF Moves
    <3>2. req[o].phase = "decode" => req[o].in.server \in Servers /\ req[o].client.gen \in Nat
      BY <1>0 DEF ThreadType, Clients
    <3>3. CASE req[o].phase # "decode" \/ req[o].in.server # s
      BY <2>2, <2>9, <3>1, <3>2, <3>3 DEF ThreadKeys
    <3>4. CASE req[o].phase = "decode" /\ req[o].in.server = s /\ c = client[s]
      BY <2>2, <2>9, <3>1, <3>4 DEF ThreadKeys
    <3>5. CASE req[o].phase = "decode" /\ req[o].in.server = s /\ c.gen = client[s].gen + 1
      <4>1. req[o].client.gen < c.gen /\ c.gen \in Nat /\ req[o].client.gen \in Nat
        BY <2>3, <2>11, <3>1, <3>2, <3>5 DEF ThreadKeys
      <4>2. req[o].client.gen <= c.gen /\ req[o].client.gen # c.gen
        BY <4>1
      <4> QED BY <2>2, <2>9, <3>1, <3>5, <4>2 DEF ThreadKeys
    <3> QED BY <2>4, <3>3, <3>4, <3>5
  <2> QED BY <2>6, <2>12, <2>13 DEF KeysInv
<1>6. ASSUME NEW r \in Requests, Decode(r) PROVE KeysInv'
  <2> DEFINE s == Server(r)
             key == IF CachedKey(r) = 0 THEN published ELSE CachedKey(r)
             keep == [req[r].client EXCEPT !.ver = key]
  <2>1. /\ req[r].phase = "decode" /\ s \in Servers
        /\ key \in Nat \ {0} /\ keep \in Clients
        /\ client' = IF client[s].gen = keep.gen THEN [client EXCEPT ![s] = keep] ELSE client
        /\ Moves(r)
        /\ \/ In(r).token.ver = key
              /\ req'[r] = [req[r] EXCEPT !.client = keep, !.phase = "dispatch"]
           \/ In(r).token.ver # key /\ req'[r] = Rejected(req[r])
    BY <1>6, DecodeIs
  <2>2. UNCHANGED <<scenario, now, published, withdrawn>>
    BY <1>6 DEF Decode
  <2>3. client[s] \in Clients /\ req[r] \in ThreadType /\ req[r].client \in Clients
    BY <1>0, <2>1 DEF ThreadType
  <2>4. keep.gen = req[r].client.gen /\ keep.at = req[r].client.at /\ keep.ver = key
    BY <2>3 DEF Clients
  <2>5. req[r].in.server = s /\ s \in Servers
    BY <2>1 DEF Server, In
  <2>6. \/ client[s].gen = keep.gen /\ (key = client[s].ver \/ (client[s].ver = 0 /\ key = published))
        \/ /\ client[s].gen # keep.gen
           /\ key = req[r].client.ver \/ (req[r].client.ver = 0 /\ key = published)
    BY <2>4 DEF CachedKey
  <2> HIDE DEF key, keep, s
  <2>7. /\ keep.at <= now /\ req[r].clock < keep.at + Ttl /\ scenario.oidc = "on"
        /\ client[s].gen = keep.gen => keep.at = client[s].at
        /\ req[r].client.ver \notin {0, published} => keep.at <= withdrawn
        /\ req[r].due => req[r].in.token.ver = published
    BY <1>0, <2>1, <2>4, <2>5 DEF ThreadKeys
  <2>8. client[s].ver \notin {0, published} => client[s].at <= withdrawn
    BY <2>5 DEF KeysInv, ClientKeys
  <2>9. key # published => keep.at <= withdrawn
    BY <2>1, <2>6, <2>7, <2>8
  <2>10. \/ client' = client
         \/ client[s].gen = keep.gen /\ client' = [client EXCEPT ![s] = keep]
    BY <2>1
  <2>11. ClientKeys'
    BY <1>0, <2>2, <2>4, <2>5, <2>7, <2>9, <2>10 DEF KeysInv, ClientKeys
  <2>12. ThreadKeys(req[r])'
    <3>1. CASE /\ In(r).token.ver = key
               /\ req'[r] = [req[r] EXCEPT !.client = keep, !.phase = "dispatch"]
      <4>1. /\ req'[r].client = keep /\ req'[r].phase = "dispatch"
            /\ req'[r].clock = req[r].clock
            /\ req'[r].in = req[r].in /\ req'[r].due = req[r].due
        BY <2>3, <3>1 DEF ThreadType
      <4>2. keep.ver = req[r].in.token.ver /\ keep.ver # 0
        BY <2>1, <2>4, <3>1 DEF In
      <4> QED BY <2>2, <2>4, <2>7, <2>9, <4>1, <4>2 DEF ThreadKeys
    <3>2. CASE In(r).token.ver # key /\ req'[r] = Rejected(req[r])
      <4>1. /\ req'[r].in = req[r].in /\ req'[r].due = req[r].due
            /\ \/ req'[r].phase = "client"
               \/ req[r].attempt = 1 /\ req'[r].phase = "done"
        BY <2>3, <3>2, RejectedIs
      <4>2. req[r].attempt = 1 => ~req[r].due
        <5> SUFFICES ASSUME req[r].attempt = 1, req[r].due PROVE FALSE
          OBVIOUS
        <5>1. key # published
          BY <2>7, <3>2 DEF In
        <5>2. req[r].client.ver = 0
          BY <1>0, <2>1 DEF ThreadKeys
        <5>3. client[s].gen = keep.gen => client[s].ver \in {0, published}
          BY <1>0, <2>1, <2>4, <2>5 DEF ThreadKeys
        <5> QED BY <2>1, <2>6, <5>1, <5>2, <5>3
      <4> QED BY <2>2, <2>7, <4>1, <4>2 DEF ThreadKeys
    <3> QED BY <2>1, <3>1, <3>2
  <2>13. ASSUME NEW o \in Requests, o # r PROVE ThreadKeys(req[o])'
    <3>1. req'[o] = req[o] /\ ThreadKeys(req[o])
      BY <1>0, <2>1, <2>13 DEF Moves
    <3>2. CASE req[o].phase # "decode" \/ req[o].in.server # s \/ client' = client
      <4>1. req[o].phase = "decode" => req[o].in.server \in Servers
        BY <1>0
      <4>2. req[o].phase = "decode" => client'[req[o].in.server] = client[req[o].in.server]
        BY <1>0, <2>10, <3>2, <4>1
      <4> QED BY <2>2, <3>1, <4>2 DEF ThreadKeys
    <3>3. CASE req[o].phase = "decode" /\ req[o].in.server = s
               /\ client[s].gen = keep.gen /\ client' = [client EXCEPT ![s] = keep]
      <4>1. client'[s] = keep /\ keep.gen = client[s].gen /\ keep.at = client[s].at
        BY <1>0, <2>5, <2>7, <3>3
      <4>2. client[s].ver \in {0, published} => keep.ver \in {0, published}
        BY <2>1, <2>4, <2>6, <3>3
      <4> QED BY <2>2, <3>1, <3>3, <4>1, <4>2 DEF ThreadKeys
    <3>4. CASE client[s].gen = keep.gen /\ client' = [client EXCEPT ![s] = keep]
      BY <3>2, <3>3, <3>4
    <3> QED BY <2>10, <3>2, <3>4
  <2> QED BY <2>11, <2>12, <2>13 DEF KeysInv
<1>7. CASE Rotate
  <2>1. /\ \A r \in Requests : req'[r] = [req[r] EXCEPT !.due = FALSE]
        /\ published' = published + 1 /\ withdrawn' = now /\ UNCHANGED <<scenario, now, client>>
    BY <1>7, RotateIs DEF Rotate
  <2>2. ClientKeys'
    BY <1>0, <2>1 DEF KeysInv, ClientKeys
  <2>3. ASSUME NEW r \in Requests PROVE ThreadKeys(req[r])'
    <3>1. req[r] \in ThreadType /\ ThreadKeys(req[r])
      BY <1>0
    <3>2. /\ req'[r].due = FALSE /\ req'[r].phase = req[r].phase /\ req'[r].in = req[r].in
          /\ req'[r].client = req[r].client /\ req'[r].clock = req[r].clock
          /\ req'[r].attempt = req[r].attempt /\ req'[r].status = req[r].status
      BY <2>1, <3>1 DEF ThreadType
    <3> QED BY <2>1, <3>1, <3>2 DEF ThreadKeys
  <2> QED BY <2>2, <2>3 DEF KeysInv
<1>8. CASE Tick
  <2>1. now' = now + 1 /\ UNCHANGED <<scenario, req, published, withdrawn, client>>
    BY <1>8 DEF Tick
  <2>2. ClientKeys'
    <3>1. \A s \in Servers : client[s].at \in Nat
      BY <1>0 DEF Clients
    <3> QED BY <1>0, <2>1, <3>1 DEF KeysInv, ClientKeys
  <2>3. ASSUME NEW r \in Requests PROVE ThreadKeys(req[r])'
    <3>1. ThreadKeys(req[r]) /\ req[r].client.at \in Nat
      BY <1>0 DEF ThreadType, Clients
    <3> QED BY SMTT(20), <1>0, <2>1, <3>1 DEF ThreadKeys
  <2> QED BY <2>2, <2>3 DEF KeysInv
<1>9. CASE UNCHANGED vars \/ WorkerEnds
  <2>1. UNCHANGED <<scenario, now, req, published, withdrawn, client>>
    BY <1>9 DEF vars, WorkerEnds, elsewhere
  <2> QED BY <2>1 DEF KeysInv, ClientKeys, ThreadKeys
<1> QED BY <1>2, <1>3, <1>4, <1>5, <1>6, <1>7, <1>8, <1>9 DEF Next

LEMMA TypeInit == Init => TypeInv
<1> SUFFICES ASSUME Init PROVE TypeInv
  OBVIOUS
<1>1. NoThread \in ThreadType
  BY RecordTypes DEF NoThread, ThreadType, Phases, Statuses
<1>2. \A r \in Requests : req[r] = NoThread /\ NoThread.phase = "idle"
  BY DEF Init, NoThread
<1>3. file \in [Documents -> Content]
  <2> DEFINE w == Whole(0, TRUE)
  <2>1. w \in Content
    BY RecordTypes
  <2>2. file = [d \in Documents |-> w]
    BY DEF Init
  <2> HIDE DEF w
  <2> QED BY <2>1, <2>2
<1>4. /\ scenario \in Scenarios /\ now \in Nat /\ arrived \in Nat
      /\ published \in Nat \ {0} /\ withdrawn \in Nat
      /\ log \in Seq(Events) /\ lock \in [Servers -> Requests \cup {NoOne}]
  BY DEF Init
<1>5. client \in [Servers -> Clients] /\ req \in [Requests -> ThreadType]
  BY <1>1, RecordTypes DEF Init
<1> QED BY <1>2, <1>3, <1>4, <1>5 DEF TypeInv


LEMMA KeysInit == Init => KeysInv
<1> SUFFICES ASSUME Init PROVE KeysInv
  OBVIOUS
<1>1. /\ NoClient.at = 0 /\ NoClient.ver = 0
      /\ NoThread.phase = "idle" /\ NoThread.due = FALSE
  BY DEF NoClient, NoThread
<1> QED BY <1>1 DEF Init, KeysInv, ClientKeys, ThreadKeys

\* A rotation locks nobody out and admits nobody for longer than the life of a
\* client: for any number of processes, threads, rotations and failed fetches.
THEOREM RotationIsSafe == Spec => []KeysRotate
<1>1. Init => TypeInv /\ KeysInv
  BY TypeInit, KeysInit
<1>2. TypeInv /\ KeysInv => KeysRotate
  <2> SUFFICES ASSUME TypeInv, KeysInv PROVE KeysRotate
    OBVIOUS
  <2>1. CurrentKeyIsAccepted
    BY DEF KeysInv, ThreadKeys, CurrentKeyIsAccepted, Answered, In
  <2>2. OldKeyExpires
    <3> SUFFICES ASSUME NEW r \in Requests, req[r].phase = "dispatch", scenario.oidc = "on",
                        In(r).token.ver # published
                 PROVE  req[r].clock < withdrawn + Ttl
      BY DEF OldKeyExpires
    <3>1. /\ req[r].clock < req[r].client.at + Ttl /\ req[r].client.at <= withdrawn
      BY DEF KeysInv, ThreadKeys, In
    <3>2. /\ req[r].clock \in Nat /\ req[r].client.at \in Nat /\ withdrawn \in Nat /\ Ttl \in Nat
      BY WebAssumption DEF TypeInv, ThreadType, Clients
    <3> QED BY <3>1, <3>2
  <2> QED BY <2>1, <2>2 DEF KeysRotate
<1>3. TypeInv /\ [Next]_vars => TypeInv'
  BY TypeStep
<1>4. TypeInv /\ KeysInv /\ [Next]_vars => KeysInv'
  BY KeysStep
<1> QED BY <1>1, <1>2, <1>3, <1>4, PTL DEF Spec

-----------------------------------------------------------------------------
(* The chain of the audit log *)

\* Who inserts an event holds the lock of its process, and with a single process
\* the event it has read last is still the last one.
ThreadChain(r) ==
    req[r].phase = "insert" =>
        /\ lock[Server(r)] = r
        /\ scenario.signing /\ Cardinality(scenario.servers) <= 1 => req[r].prev = LastEvent

ChainInv == ChainHolds /\ \A r \in Requests : ThreadChain(r)

\* Threads of a single process have one lock.
LEMMA OneServer ==
  ASSUME TypeInv, Cardinality(scenario.servers) <= 1,
         NEW a \in scenario.servers, NEW b \in scenario.servers
  PROVE  a = b
<1> SUFFICES ASSUME a # b PROVE FALSE
  OBVIOUS
<1>1. scenario.servers \subseteq Servers
  BY WebAssumption DEF TypeInv
<1>2. IsFiniteSet(scenario.servers)
  BY <1>1, WebAssumption, FS_Subset
<1>3. IsFiniteSet({a, b}) /\ Cardinality({a, b}) <= Cardinality(scenario.servers)
  BY <1>2, FS_Subset
<1>4. IsFiniteSet({a}) /\ Cardinality({a}) = 1
  BY FS_Singleton
<1>5. Cardinality({a} \cup {b}) = Cardinality({a}) + 1
  BY <1>4, FS_AddElement
<1>6. {a} \cup {b} = {a, b}
  OBVIOUS
<1>7. Cardinality(scenario.servers) \in Nat
  BY <1>2, FS_CardinalityType
<1> QED BY <1>3, <1>4, <1>5, <1>6, <1>7

LEMMA ChainStep == TypeInv /\ ChainInv /\ [Next]_vars => ChainInv'
<1> SUFFICES ASSUME TypeInv, TypeInv', ChainInv, [Next]_vars PROVE ChainInv'
  BY TypeStep
<1>0. /\ req \in [Requests -> ThreadType] /\ log \in Seq(Events)
      /\ lock \in [Servers -> Requests \cup {NoOne}] /\ NoOne \notin Requests
      /\ \A r \in Requests : req[r].phase # "idle" =>
           Server(r) \in scenario.servers /\ Server(r) \in Servers
      /\ \A r \in Requests : ThreadChain(r)
  BY WebAssumption, ArrivalTypes DEF TypeInv, ChainInv, In, Server
<1> USE DEF auditVars
\* Threads about to insert are left alone, and nobody joins them.
<1>1. ASSUME UNCHANGED <<scenario, log, lock>>,
             \A o \in Requests : req'[o].phase = "insert" =>
               /\ req[o].phase = "insert" /\ req'[o].in = req[o].in
               /\ req'[o].prev = req[o].prev
      PROVE  ChainInv'
  <2>1. ChainHolds'
    BY <1>1 DEF ChainInv, ChainHolds, VerifyChain
  <2>2. \A r \in Requests : ThreadChain(r)'
    BY <1>0, <1>1 DEF ThreadChain, Server, In, LastEvent
  <2> QED BY <2>1, <2>2 DEF ChainInv
<1>2. ASSUME NEW r \in Requests, UNCHANGED <<scenario, log, lock>>, req'[r].phase # "insert",
             \A o \in Requests : o # r => req'[o] = req[o]
      PROVE  ChainInv'
  BY <1>1, <1>2
<1>3. ASSUME NEW r \in Requests, Arrive(r) PROVE ChainInv'
  <2>1. /\ req'[r].phase \in {"done", "dispatch", "client"}
        /\ \A o \in Requests : o # r => req'[o] = req[o]
    BY <1>3, ArriveIs DEF JustArrived
  <2>2. UNCHANGED <<scenario, log, lock>>
    BY <1>3, ArriveIs
  <2> QED BY <1>2, <2>1, <2>2
<1>4. ASSUME NEW r \in Requests, Gate(r) \/ Operation(r) PROVE ChainInv'
  <2>1. CASE Gate(r)
    BY <1>2, <2>1, GateIs DEF Moves
  <2>2. CASE Operation(r)
    BY <1>2, <2>2, OperationIs DEF Works, elsewhere, Moves
  <2> QED BY <1>4, <2>1, <2>2
<1>5. ASSUME NEW r \in Requests, Lock(r) PROVE ChainInv'
  <2> DEFINE p == IF scenario.signing THEN LastEvent ELSE 0
  <2>1. /\ req[r].phase = "lock" /\ lock[Server(r)] = NoOne
        /\ lock' = [lock EXCEPT ![Server(r)] = r] /\ Moves(r)
        /\ req'[r] = [req[r] EXCEPT !.prev = p, !.phase = "insert"]
    BY <1>5, LockIs
  <2>2. req'[r].prev = p /\ req'[r].phase = "insert" /\ req'[r].in = req[r].in
    BY <1>0, <2>1 DEF ThreadType
  <2>3. UNCHANGED <<scenario, log>>
    BY <1>5 DEF Lock
  <2>4. ChainHolds'
    BY <2>3 DEF ChainInv, ChainHolds, VerifyChain
  <2>5. ThreadChain(r)'
    BY <1>0, <2>1, <2>2, <2>3 DEF ThreadChain, Server, In, LastEvent
  <2>6. ASSUME NEW o \in Requests, o # r PROVE ThreadChain(o)'
    <3>1. req'[o] = req[o]
      BY <2>1, <2>6 DEF Moves
    <3>2. CASE req[o].phase = "insert"
      <4>1. lock[Server(o)] = o /\ Server(o) \in Servers /\ Server(o) # Server(r)
        BY <1>0, <2>1, <3>2 DEF ThreadChain
      <4>2. lock'[Server(o)] = o
        BY <1>0, <2>1, <4>1
      <4> QED BY <1>0, <2>3, <3>1, <3>2, <4>2 DEF ThreadChain, Server, In, LastEvent
    <3> QED BY <3>1, <3>2 DEF ThreadChain
  <2> QED BY <2>4, <2>5, <2>6 DEF ChainInv
<1>6. ASSUME NEW r \in Requests, Insert(r) \/ InsertFails(r) PROVE ChainInv'
  <2>1. /\ req[r].phase = "insert" /\ Server(r) \in Servers
        /\ lock' = [lock EXCEPT ![Server(r)] = NoOne] /\ Moves(r) /\ req'[r].phase = "done"
        /\ Event(r) \in Events
        /\ log' = Append(log, Event(r)) \/ log' = log
    BY <1>6, InsertIs
  <2>2. scenario' = scenario
    BY <1>6 DEF Insert, InsertFails
  <2>3. ASSUME NEW o \in Requests, o # r, req[o].phase = "insert"
        PROVE  /\ lock'[Server(o)] = o
               /\ ~(Cardinality(scenario.servers) <= 1)
    <3>1. lock[Server(o)] = o /\ lock[Server(r)] = r /\ Server(o) \in Servers
      BY <1>0, <2>1, <2>3 DEF ThreadChain
    <3>2. Server(o) # Server(r)
      BY <2>3, <3>1
    <3>3. Server(o) \in scenario.servers /\ Server(r) \in scenario.servers
      BY <1>0, <2>1, <2>3
    <3> QED BY <1>0, <2>1, <3>1, <3>2, <3>3, OneServer
  <2>4. ASSUME NEW o \in Requests PROVE ThreadChain(o)'
    <3>1. CASE o = r
      BY <2>1, <3>1 DEF ThreadChain
    <3>2. CASE o # r
      BY <1>0, <2>1, <2>2, <2>3, <3>2 DEF ThreadChain, Moves, Server, In
    <3> QED BY <3>1, <3>2
  <2>5. ChainHolds'
    <3> SUFFICES ASSUME Cardinality(scenario.servers) <= 1, scenario.signing,
                        NEW i \in DOMAIN log'
                 PROVE  log'[i].prev = IF i = 1 THEN 0 ELSE log'[i - 1].by
      BY <2>2 DEF ChainHolds, VerifyChain
    <3>1. \A k \in DOMAIN log : log[k].prev = IF k = 1 THEN 0 ELSE log[k - 1].by
      BY DEF ChainInv, ChainHolds, VerifyChain
    <3>2. CASE log' = log
      BY <3>1, <3>2
    <3>3. CASE log' = Append(log, Event(r))
      <4>1. Event(r).prev = LastEvent
        BY <1>0, <2>1 DEF ThreadChain, Event
      <4>2. /\ Len(log) \in Nat /\ DOMAIN log = 1..Len(log) /\ i \in 1..(Len(log) + 1)
            /\ log'[Len(log) + 1] = Event(r)
            /\ \A k \in 1..Len(log) : log'[k] = log[k]
        BY <1>0, <2>1, <3>3
      <4>3. CASE i = Len(log) + 1
        <5>1. CASE log = <<>>
          BY <4>1, <4>2, <4>3, <5>1 DEF LastEvent
        <5>2. CASE log # <<>>
          <6>1. Len(log) > 0 /\ LastEvent = log[Len(log)].by
            BY <1>0, <5>2 DEF LastEvent
          <6>2. i # 1 /\ i - 1 = Len(log) /\ log'[i - 1] = log[Len(log)]
            BY <4>2, <4>3, <6>1
          <6> QED BY <4>1, <4>2, <4>3, <6>1, <6>2
        <5> QED BY <5>1, <5>2
      <4>4. CASE i \in 1..Len(log)
        BY <3>1, <4>2, <4>4
      <4> QED BY <4>2, <4>3, <4>4
    <3> QED BY <2>1, <3>2, <3>3
  <2> QED BY <2>4, <2>5 DEF ChainInv
<1>7. CASE Rotate
  <2>1. \A r \in Requests : req'[r] = [req[r] EXCEPT !.due = FALSE]
    BY <1>7, RotateIs
  <2>2. ASSUME NEW r \in Requests
        PROVE  /\ req'[r].phase = req[r].phase /\ req'[r].in = req[r].in
               /\ req'[r].prev = req[r].prev
    <3>1. req[r] \in ThreadType
      BY <1>0
    <3> QED BY <2>1, <3>1 DEF ThreadType
  <2> QED BY <1>1, <1>7, <2>2 DEF Rotate
<1>8. CASE Tick \/ WorkerEnds \/ UNCHANGED vars
  BY <1>1, <1>8 DEF Tick, WorkerEnds, vars, elsewhere
<1> QED BY <1>3, <1>4, <1>5, <1>6, <1>7, <1>8 DEF Next, Gate

\* Whatever requests overlap or break off, the chain of the log of one process
\* verifies at every moment.
THEOREM ChainVerifies == Spec => []ChainHolds
<1>1. Init => TypeInv /\ ChainInv
  <2>1. NoThread.phase = "idle"
    BY DEF NoThread
  <2> QED BY <2>1, TypeInit DEF Init, ChainInv, ChainHolds, VerifyChain, ThreadChain
<1>2. ChainInv => ChainHolds
  BY DEF ChainInv
<1> QED BY <1>1, <1>2, TypeStep, ChainStep, PTL DEF Spec

-----------------------------------------------------------------------------
(* The gates *)

\* No page that a viewer sees needs what a POST route asks for, and the operator
\* has everything but the configuration.
LEMMA PostPermissions ==
    /\ \A route \in PostRoutes \ {"webhook"} : PostPermission[route] \notin PERMISSIONS["viewer"] \cup {"*"}
    /\ "*" \notin PERMISSIONS["viewer"] /\ "*" \notin PERMISSIONS["operator"]
    /\ PostPermission["config_save"] \notin PERMISSIONS["operator"]
<1>1. PERMISSIONS["viewer"] = Listing
  BY DEF PERMISSIONS
<1>2. \A route \in PostRoutes \ {"webhook"} :
        PostPermission[route] \in
          {"jobs.delete", "jobs.retry", "sources.ingest", "worker.start", "worker.stop",
           "worker.restart", "workflows.create", "workflows.delete", "triggers.create",
           "triggers.delete", "triggers.toggle", "triggers.run", "workflows.run",
           "config.save", "jobs.clear"}
  BY PostRoutesAre DEF PostPermission
<1>3. PostPermission["config_save"] = "config.save"
  BY DEF PostPermission
<1>4. "*" \notin PERMISSIONS["operator"] /\ "config.save" \notin PERMISSIONS["operator"]
  BY DEF PERMISSIONS, Listing
<1> QED BY <1>1, <1>2, <1>3, <1>4 DEF Listing

\* A token with one role gives that role, an unknown one the viewer's.
LEMMA ExtractedRole ==
  ASSUME NEW role
  PROVE  ExtractRoles([p \in {"realm_access.roles"} |-> {role}], "realm_access.roles")
           = IF role \in DOMAIN PERMISSIONS THEN {role} ELSE {"viewer"}
<1> DEFINE path == "realm_access.roles"
           claims == [p \in {path} |-> {role}]
           paths == <<path, path, "roles", "groups">>
           Held(i) == paths[i] \in DOMAIN claims
           IsFirst(i) == Held(i) /\ \A k \in 1..(i - 1) : ~Held(k)
<1>1. paths[1] = path /\ claims[path] = {role} /\ Held(1)
  OBVIOUS
<1> HIDE DEF Held
<1>2. IsFirst(1) /\ \A i \in 1..4 : IsFirst(i) => i = 1
  BY <1>1
<1> HIDE DEF IsFirst
<1>3. (CHOOSE i \in 1..4 : IsFirst(i)) = 1
  BY <1>2
<1>4. ClaimedNames(claims, path) = claims[paths[1]]
  BY <1>1, <1>3 DEF ClaimedNames, IsFirst, Held
<1>5. ClaimedNames(claims, path) = {role}
  BY <1>1, <1>4
<1> HIDE DEF claims, path
<1> DEFINE known == ClaimedNames(claims, path) \cap DOMAIN PERMISSIONS
<1>6. ExtractRoles(claims, path) = IF known = {} THEN {"viewer"} ELSE known
  BY DEF ExtractRoles
<1>7. role \in DOMAIN PERMISSIONS => known = {role}
  BY <1>5
<1>8. role \notin DOMAIN PERMISSIONS => known = {}
  BY <1>5
<1> HIDE DEF known
<1> QED BY <1>6, <1>7, <1>8 DEF claims, path

LEMMA OnlyThePermitted ==
  ASSUME TypeInv, NEW r \in Requests, Post(r), In(r).route # "webhook",
         CheckPermission(RolesOf(r), PostPermission[In(r).route])
  PROVE  \/ scenario.oidc = "off"
         \/ In(r).token.role = "admin"
         \/ In(r).token.role = "operator" /\ In(r).route # "config_save"
<1> DEFINE role == In(r).token.role
           permission == PostPermission[In(r).route]
<1> SUFFICES ASSUME scenario.oidc # "off", role # "admin"
             PROVE  role = "operator" /\ In(r).route # "config_save"
  OBVIOUS
<1>1. RolesOf(r) = IF role \in DOMAIN PERMISSIONS THEN {role} ELSE {"viewer"}
  BY ExtractedRole DEF RolesOf
<1>2. DOMAIN PERMISSIONS = {"admin", "operator", "viewer"}
  BY DEF PERMISSIONS
<1>3. PICK known \in RolesOf(r) : PERMISSIONS[known] \cap {"*", permission} # {}
  BY DEF CheckPermission
<1>4. known # "viewer"
  BY <1>3, PostPermissions DEF Post
<1>5. known = "operator" /\ role = "operator"
  BY <1>1, <1>2, <1>4
<1>6. permission # PostPermission["config_save"]
  BY <1>3, <1>5, PostPermissions
<1> QED BY <1>5, <1>6

\* Until its gates are passed a thread has changed nothing; only a webhook is
\* asked for its rate and signature; whoever is in a handler may change things,
\* and has no answer yet.
ThreadRight(q) ==
    /\ q.phase \in {"client", "decode", "dispatch", "clock", "limit"} =>
         /\ ~q.changed /\ q.status = 0
         /\ q.in.route \in PostRoutes => q.in.flaw # "big"
         /\ scenario.oidc = "off" \/ q.in.token # NoToken
    /\ q.phase \in {"clock", "limit"} => q.in.route = "webhook"
    /\ q.phase \in {"handle", "lock", "insert"} => MayChange(q.in) /\ q.status = 0
    /\ q.changed => /\ MayChange(q.in) /\ q.status \notin {401, 403, 413, 429, 500}
                    /\ q.phase \in {"handle", "lock", "insert", "done"}

RightInv == \A r \in Requests : ThreadRight(req[r])

LEMMA RightStep == TypeInv /\ RightInv /\ [Next]_vars => RightInv'
<1> SUFFICES ASSUME TypeInv, TypeInv', RightInv, [Next]_vars PROVE RightInv'
  BY TypeStep
<1>0. req \in [Requests -> ThreadType] /\ \A r \in Requests : ThreadRight(req[r])
  BY DEF TypeInv, RightInv
<1>1. ASSUME scenario' = scenario, \A r \in Requests : ThreadRight(req'[r]) PROVE RightInv'
  <2>1. \A q : ThreadRight(q) => ThreadRight(q)'
    BY <1>1 DEF ThreadRight, MayChange
  <2> QED BY <1>1, <2>1 DEF RightInv
<1>2. ASSUME scenario' = scenario, NEW r \in Requests, ThreadRight(req'[r]),
             \A o \in Requests : o # r => req'[o] = req[o]
      PROVE  RightInv'
  BY <1>0, <1>1, <1>2
<1>3. ASSUME NEW r \in Requests, Arrive(r) PROVE RightInv'
  <2>1. /\ scenario' = scenario /\ \A o \in Requests : o # r => req'[o] = req[o]
        /\ JustArrived(req'[r])
    BY <1>3, ArriveIs
  <2>2. ThreadRight(req'[r])
    BY <2>1 DEF JustArrived, ThreadRight
  <2> QED BY <1>2, <2>1, <2>2
<1>4. ASSUME NEW r \in Requests, Gate(r), ~Dispatch(r), ~Limit(r) PROVE RightInv'
  <2>1. /\ Moves(r) /\ scenario' = scenario /\ req'[r].changed = req[r].changed
        /\ req'[r].phase # "done" => req'[r].status = req[r].status
        /\ \/ /\ req[r].phase \in {"client", "decode"}
              /\ req'[r].phase \in {"decode", "dispatch", "client", "done"}
           \/ req[r].phase = "clock" /\ req'[r].phase = "limit"
    BY <1>4, GateIs
  <2>2. ThreadRight(req[r])
    BY <1>0
  <2>3. ThreadRight(req'[r])
    BY <2>1, <2>2 DEF ThreadRight, Moves
  <2> QED BY <1>2, <2>1, <2>3 DEF Moves
<1>5. ASSUME NEW r \in Requests, Dispatch(r) PROVE RightInv'
  <2>1. ThreadRight(req[r]) /\ scenario' = scenario /\ req[r].phase = "dispatch" /\ Moves(r)
    BY <1>0, <1>5, DispatchIs DEF Dispatch
  <2>2. CASE req'[r].phase = "handle"
    <3>1. /\ Post(r) /\ In(r).route # "webhook" /\ (CrossSite(In(r)) => WantsJson(In(r)))
          /\ CheckPermission(RolesOf(r), PostPermission[In(r).route])
          /\ req'[r].status = req[r].status /\ req'[r].changed = req[r].changed
      BY <1>5, <2>2, DispatchIs
    <3>2. \/ scenario.oidc = "off"
          \/ In(r).token.role = "admin"
          \/ In(r).token.role = "operator" /\ In(r).route # "config_save"
      BY <3>1, OnlyThePermitted
    <3>3. MayChange(In(r))
      BY <2>1, <3>1, <3>2 DEF ThreadRight, MayChange, In, Post
    <3>4. ThreadRight(req'[r])
      BY <2>1, <2>2, <3>1, <3>3 DEF ThreadRight, Moves, In
    <3> QED BY <1>2, <2>1, <3>4 DEF Moves
  <2>3. CASE req'[r].phase # "handle"
    <3>1. /\ req'[r].changed = req[r].changed
          /\ \/ req'[r].phase = "done"
             \/ req'[r].phase = "clock" /\ In(r).route = "webhook" /\ req'[r].status = req[r].status
      BY <1>5, <2>3, DispatchIs
    <3>2. ThreadRight(req'[r])
      BY <2>1, <3>1 DEF ThreadRight, Moves, In
    <3> QED BY <1>2, <2>1, <3>2 DEF Moves
  <2> QED BY <2>2, <2>3
<1>6. ASSUME NEW r \in Requests, Limit(r) PROVE RightInv'
  <2>1. ThreadRight(req[r]) /\ scenario' = scenario /\ req[r].phase = "limit" /\ Moves(r)
    BY <1>0, <1>6, LimitIs DEF Limit
  <2>2. req[r].in.route = "webhook" /\ req[r].in.flaw # "big"
        /\ (scenario.oidc = "off" \/ req[r].in.token # NoToken)
    BY <2>1, PostRoutesAre DEF ThreadRight
  <2>3. /\ req'[r].changed = req[r].changed
        /\ \/ req'[r].phase = "done"
           \/ /\ req'[r].phase = "handle" /\ req'[r].status = req[r].status
              /\ scenario.secret => req[r].in.flaw \notin {"unsigned", "badly-signed"}
    BY <1>6, LimitIs DEF In
  <2>4. req'[r].phase = "handle" => MayChange(req[r].in)
    BY <2>2, <2>3 DEF MayChange
  <2>5. ThreadRight(req'[r])
    BY <2>1, <2>3, <2>4 DEF ThreadRight, Moves
  <2> QED BY <1>2, <2>1, <2>5 DEF Moves
<1>7. ASSUME NEW r \in Requests, Operation(r) \/ Lock(r) \/ Insert(r) \/ InsertFails(r)
      PROVE  RightInv'
  <2>1. /\ Moves(r) /\ scenario' = scenario /\ req[r].phase \in {"handle", "lock", "insert"}
        /\ \/ req'[r].phase \in {"handle", "lock", "insert"} /\ req'[r].status = req[r].status
           \/ req'[r].phase = "done" /\ req'[r].status \in {0, 200, 400}
    <3>1. CASE Operation(r)
      BY <3>1, OperationIs DEF Works, elsewhere
    <3>2. CASE Lock(r)
      <4> DEFINE p == IF scenario.signing THEN LastEvent ELSE 0
      <4>1. req[r].phase = "lock" /\ Moves(r) /\ req'[r] = [req[r] EXCEPT !.prev = p, !.phase = "insert"]
        BY <3>2, LockIs
      <4> HIDE DEF p
      <4>2. req[r] \in ThreadType
        BY <1>0
      <4>3. req'[r].phase = "insert" /\ req'[r].status = req[r].status
        BY <4>1, <4>2 DEF ThreadType
      <4> QED BY <3>2, <4>1, <4>3 DEF Lock
    <3>3. CASE Insert(r) \/ InsertFails(r)
      BY <3>3, InsertIs DEF Insert, InsertFails
    <3> QED BY <1>7, <3>1, <3>2, <3>3
  <2>2. ThreadRight(req[r])
    BY <1>0
  <2>3. ThreadRight(req'[r])
    BY <2>1, <2>2 DEF ThreadRight, Moves
  <2> QED BY <1>2, <2>1, <2>3 DEF Moves
<1>8. CASE Rotate
  <2>1. ASSUME NEW r \in Requests PROVE ThreadRight(req'[r])
    <3>1. req[r] \in ThreadType /\ ThreadRight(req[r]) /\ req'[r] = [req[r] EXCEPT !.due = FALSE]
      BY <1>0, <1>8, RotateIs
    <3>2. /\ req'[r].phase = req[r].phase /\ req'[r].in = req[r].in
          /\ req'[r].changed = req[r].changed /\ req'[r].status = req[r].status
      BY <3>1 DEF ThreadType
    <3> QED BY <3>1, <3>2 DEF ThreadRight
  <2> QED BY <1>1, <1>8, <2>1 DEF Rotate
<1>9. CASE Tick \/ WorkerEnds \/ UNCHANGED vars
  BY <1>0, <1>1, <1>9 DEF Tick, WorkerEnds, vars, elsewhere
<1> QED BY <1>3, <1>4, <1>5, <1>6, <1>7, <1>8, <1>9 DEF Next, Gate

\* Whatever requests overlap, who has changed anything had the right to, as the
\* server sees it, and was not told that the request was refused.
THEOREM OnlyTheEntitledChange == Spec => []OnlyWithRight
<1>1. Init => TypeInv /\ RightInv
  <2>1. NoThread.phase = "idle" /\ NoThread.changed = FALSE
    BY DEF NoThread
  <2> QED BY <2>1, TypeInit DEF Init, RightInv, ThreadRight
<1>2. RightInv => OnlyWithRight
  BY DEF RightInv, ThreadRight, OnlyWithRight, In
<1> QED BY <1>1, <1>2, TypeStep, RightStep, PTL DEF Spec

-----------------------------------------------------------------------------
(* The rate limiter *)

Less == {p \in Nat \X Nat : p[1] < p[2]}

LEMMA LeastElement ==
  ASSUME NEW T \in SUBSET Nat, T # {}
  PROVE  \E m \in T : \A n \in T : m <= n
<1>1. IsWellFoundedOn(Less, Nat)
  BY NatLessThanWellFounded DEF Less, OpToRel
<1>2. PICK m \in T : \A n \in T : ~ (<<n, m>> \in Less)
  BY <1>1, WFMin
<1>3. \A n \in T : <<n, m>> \in Less <=> n < m
  BY DEF Less
<1>4. \A n \in T : ~(n < m) /\ n \in Nat /\ m \in Nat
  BY <1>2, <1>3
<1>5. \A n \in T : m <= n
  BY <1>4
<1> QED BY <1>5

Sorted(times) == \A i, j \in DOMAIN times : i <= j => times[i] <= times[j]

\* The times after the place m, and only they, are in the window.
Cuts(m, times, t) == m \in 0..Len(times) /\ \A i \in DOMAIN times : times[i] + Window > t <=> i > m

LEMMA SomewhereCut ==
  ASSUME NEW times \in Seq(Nat), Sorted(times), NEW t \in Nat
  PROVE  \E m : Cuts(m, times, t)
<1> DEFINE n == Len(times)
           T == {i \in 1..(n + 1) : i = n + 1 \/ times[i] + Window > t}
<1>1. n \in Nat /\ Window \in Nat /\ DOMAIN times = 1..n /\ \A i \in 1..n : times[i] \in Nat
  BY RateAssumption
<1>2. T \in SUBSET Nat /\ n + 1 \in T
  BY <1>1
<1>3. PICK m \in T : \A i \in T : m <= i
  <2> HIDE DEF T
  <2> QED BY <1>2, LeastElement
<1>4. ASSUME NEW i \in 1..n PROVE times[i] + Window > t <=> i > m - 1
  <2>1. CASE i < m
    <3>1. i \notin T
      BY <1>1, <1>3, <2>1
    <3> QED BY <1>1, <2>1, <3>1
  <2>2. CASE i >= m
    <3>1. m \in 1..n /\ times[m] + Window > t
      BY <1>1, <1>3, <2>2
    <3>2. times[m] <= times[i]
      BY <1>1, <2>2, <3>1 DEF Sorted
    <3> QED BY <1>1, <2>2, <3>1, <3>2
  <2> QED BY <1>1, <1>3, <2>1, <2>2
<1>5. m - 1 \in 0..n
  BY <1>1, <1>3
<1> QED BY <1>1, <1>4, <1>5 DEF Cuts

\* The end of a list.
LEMMA RecentIs ==
  ASSUME NEW times \in Seq(Nat), NEW t \in Nat, NEW m, Cuts(m, times, t)
  PROVE  /\ Recent(times, t) \in Seq(Nat) /\ Len(Recent(times, t)) = Len(times) - m
         /\ \A k \in 1..(Len(times) - m) : Recent(times, t)[k] = times[m + k]
<1> DEFINE n == Len(times)
           kept == Kept(times, t)
           Nth(k) == CHOOSE i \in kept : Cardinality({j \in kept : j < i}) = k - 1
<1>1. n \in Nat /\ m \in 0..n /\ DOMAIN times = 1..n /\ \A i \in 1..n : times[i] \in Nat
  BY DEF Cuts
<1>2. kept = (m + 1)..n
  BY <1>1 DEF Cuts, Kept
<1> HIDE DEF n, kept
<1>3. Cardinality(kept) = n - m
  <2>1. Cardinality((m + 1)..n) = IF m + 1 > n THEN 0 ELSE n - (m + 1) + 1
    BY <1>1, FS_Interval
  <2> QED BY <1>1, <1>2, <2>1
<1>4. ASSUME NEW i \in kept PROVE Cardinality({j \in kept : j < i}) = i - m - 1
  <2>1. {j \in kept : j < i} = (m + 1)..(i - 1) /\ i \in Int /\ m + 1 <= i
    BY <1>1, <1>2
  <2>2. m + 1 \in Int /\ i - 1 \in Int /\ m \in Int
    BY <1>1, <2>1
  <2>3. Cardinality((m + 1)..(i - 1)) = IF m + 1 > i - 1 THEN 0 ELSE (i - 1) - (m + 1) + 1
    BY <2>2, FS_Interval
  <2>4. (IF m + 1 > i - 1 THEN 0 ELSE (i - 1) - (m + 1) + 1) = i - m - 1
    BY <2>1, <2>2
  <2> QED BY <2>1, <2>3, <2>4
<1>5. ASSUME NEW k \in 1..(n - m) PROVE Nth(k) = m + k
  <2>1. m + k \in kept /\ \A i \in kept : i \in Int
    BY <1>1, <1>2
  <2>2. Cardinality({j \in kept : j < m + k}) = k - 1
    <3>1. Cardinality({j \in kept : j < m + k}) = (m + k) - m - 1
      BY <1>4, <2>1
    <3> QED BY <1>1, <3>1
  <2>3. \A i \in kept : Cardinality({j \in kept : j < i}) = k - 1 => i = m + k
    <3>1. \A i \in kept : i - m - 1 = k - 1 => i = m + k
      BY <1>1, <2>1
    <3> QED BY <1>4, <3>1
  <2> QED BY <2>1, <2>2, <2>3
<1>6. Recent(times, t) = [k \in 1..(n - m) |-> times[Nth(k)]]
  BY <1>3 DEF Recent, kept
<1> HIDE DEF Nth
<1>7. \A k \in 1..(n - m) : Recent(times, t)[k] = times[m + k] /\ times[m + k] \in Nat
  BY <1>1, <1>5, <1>6
<1>8. n - m \in Nat
  BY <1>1
<1>9. Recent(times, t) = [k \in 1..(n - m) |-> times[m + k]]
  BY <1>5, <1>6
<1>10. Recent(times, t) \in [1..(n - m) -> Nat]
  BY <1>7, <1>9
<1>11. Recent(times, t) \in Seq(Nat) /\ Len(Recent(times, t)) = n - m
  BY <1>8, <1>10
<1> QED BY <1>7, <1>11 DEF n

\* A limiter that was asked in order holds the end of what it has admitted; what
\* it no longer holds is too old to count.
Follows(held, times, t) ==
    /\ held \in Seq(Nat) /\ times \in Seq(Nat)
    /\ Sorted(times) /\ \A i \in DOMAIN times : times[i] <= t
    /\ \E old \in 0..Len(times) :
         /\ Len(held) = Len(times) - old
         /\ \A k \in 1..Len(held) : held[k] = times[old + k]
         /\ \A i \in 1..old : times[i] + Window <= t

LEMMA FollowsLater ==
  ASSUME NEW held, NEW times, NEW s \in Nat, NEW t \in Nat, s <= t, Follows(held, times, s)
  PROVE  Follows(held, times, t)
<1>1. Window \in Nat /\ DOMAIN times = 1..Len(times) /\ Len(times) \in Nat /\ \A i \in 1..Len(times) : times[i] \in Nat
  BY RateAssumption DEF Follows
<1>2. PICK old \in 0..Len(times) :
         /\ Len(held) = Len(times) - old
         /\ \A k \in 1..Len(held) : held[k] = times[old + k]
         /\ \A i \in 1..old : times[i] + Window <= s
  BY DEF Follows
<1>3. \A i \in 1..old : times[i] + Window <= t
  BY <1>1, <1>2
<1>4. \A i \in DOMAIN times : times[i] <= t
  BY <1>1 DEF Follows
<1> QED BY <1>2, <1>3, <1>4 DEF Follows

\* Forgetting what is too old loses nothing that counts.
LEMMA RecentFollows ==
  ASSUME NEW held, NEW times, NEW t \in Nat, Follows(held, times, t)
  PROVE  /\ Follows(Recent(held, t), times, t)
         /\ IsFiniteSet(InWindow(times, t))
         /\ Cardinality(InWindow(times, t)) = Len(Recent(held, t))
<1> DEFINE n == Len(times)
           recent == Recent(held, t)
<1>1. /\ Window \in Nat /\ DOMAIN times = 1..n /\ n \in Nat /\ \A i \in 1..n : times[i] \in Nat
      /\ Sorted(times) /\ held \in Seq(Nat) /\ times \in Seq(Nat)
  BY RateAssumption DEF Follows
<1>2. PICK old \in 0..n : /\ Len(held) = n - old
                          /\ \A k \in 1..Len(held) : held[k] = times[old + k]
                          /\ \A i \in 1..old : times[i] + Window <= t
  BY DEF Follows
<1>3. PICK m : Cuts(m, times, t)
  BY <1>1, SomewhereCut
<1>4. m \in 0..n /\ \A i \in 1..n : times[i] + Window > t <=> i > m
  BY <1>1, <1>3 DEF Cuts
<1> HIDE DEF n, recent
<1>5. old <= m
  <2> SUFFICES ASSUME old > m PROVE FALSE
    BY <1>2, <1>4
  <2>1. old \in 1..n /\ old > m /\ old \in 1..old
    BY <1>2, <1>4
  <2>2. times[old] + Window > t /\ times[old] + Window <= t /\ times[old] \in Nat
    BY <1>1, <1>2, <1>4, <2>1
  <2> QED BY <1>1, <2>2
<1>6. Cuts(m - old, held, t)
  <2>1. /\ DOMAIN held = 1..(n - old) /\ n - old \in Nat /\ m - old \in 0..(n - old)
        /\ \A k \in 1..(n - old) : held[k] = times[old + k] /\ old + k \in 1..n
    BY <1>1, <1>2, <1>4, <1>5
  <2>2. ASSUME NEW k \in 1..(n - old) PROVE held[k] + Window > t <=> k > m - old
    <3>1. held[k] = times[old + k] /\ (times[old + k] + Window > t <=> old + k > m)
      BY <1>4, <2>1
    <3> QED BY <1>2, <1>4, <3>1
  <2> QED BY <1>2, <2>1, <2>2 DEF Cuts
<1>7. /\ recent \in Seq(Nat) /\ Len(recent) = n - m
      /\ \A k \in 1..(n - m) : recent[k] = times[m + k]
  <2>1. /\ recent \in Seq(Nat) /\ Len(recent) = Len(held) - (m - old)
        /\ \A k \in 1..(Len(held) - (m - old)) : recent[k] = held[(m - old) + k]
    BY <1>1, <1>6, RecentIs DEF recent
  <2>2. Len(held) - (m - old) = n - m
    BY <1>1, <1>2, <1>4
  <2>3. ASSUME NEW k \in 1..(n - m) PROVE recent[k] = times[m + k]
    <3>1. recent[k] = held[(m - old) + k]
      BY <2>1, <2>2
    <3>2. (m - old) + k \in 1..Len(held) /\ old + ((m - old) + k) = m + k
      BY <1>1, <1>2, <1>4, <1>5
    <3> QED BY <1>2, <3>1, <3>2
  <2> QED BY <2>1, <2>2, <2>3
<1>8. Follows(recent, times, t)
  <2>1. \A i \in 1..m : times[i] + Window <= t
    BY <1>1, <1>4
  <2>2. \A i \in DOMAIN times : times[i] <= t
    BY DEF Follows
  <2> QED BY <1>1, <1>4, <1>7, <2>1, <2>2 DEF Follows, n
<1>9. InWindow(times, t) = (m + 1)..n
  <2>1. \A i \in 1..n : times[i] <= t
    BY <1>1 DEF Follows
  <2>2. InWindow(times, t) = {i \in 1..n : times[i] <= t /\ times[i] + Window > t}
    BY <1>1 DEF InWindow
  <2>3. \A i : i \in (m + 1)..n <=> i \in 1..n /\ i > m
    <3>1. m \in Nat /\ n \in Nat
      BY <1>1, <1>4
    <3> HIDE DEF n
    <3> QED BY <3>1
  <2>4. \A i \in 1..n : (times[i] <= t /\ times[i] + Window > t) <=> i > m
    BY <1>4, <2>1
  <2>5. \A i : i \in InWindow(times, t) <=> i \in (m + 1)..n
    BY <2>2, <2>3, <2>4
  <2> QED BY <2>5
<1>10. IsFiniteSet((m + 1)..n) /\ Cardinality((m + 1)..n) = IF m + 1 > n THEN 0 ELSE n - (m + 1) + 1
  BY <1>1, <1>4, FS_Interval
<1>11. (IF m + 1 > n THEN 0 ELSE n - (m + 1) + 1) = n - m
  BY <1>1, <1>4
<1> QED BY <1>7, <1>8, <1>9, <1>10, <1>11 DEF recent

LEMMA AppendFollows ==
  ASSUME NEW held, NEW times, NEW t \in Nat, Follows(held, times, t)
  PROVE  Follows(Append(held, t), Append(times, t), t)
<1> DEFINE n == Len(times)
           h == Append(held, t)
           b == Append(times, t)
<1>1. /\ n \in Nat /\ DOMAIN times = 1..n /\ \A i \in 1..n : times[i] \in Nat /\ times[i] <= t
      /\ \A i, j \in 1..n : i <= j => times[i] <= times[j]
      /\ held \in Seq(Nat) /\ times \in Seq(Nat)
  <2>1. held \in Seq(Nat) /\ times \in Seq(Nat)
    BY DEF Follows
  <2>2. n \in Nat /\ DOMAIN times = 1..n /\ \A i \in 1..n : times[i] \in Nat
    BY <2>1
  <2> QED BY <2>1, <2>2 DEF Follows, Sorted
<1>2. PICK old \in 0..n : /\ Len(held) = n - old
                          /\ \A k \in 1..Len(held) : held[k] = times[old + k]
                          /\ \A i \in 1..old : times[i] + Window <= t
  BY DEF Follows
<1>3. /\ b \in Seq(Nat) /\ Len(b) = n + 1 /\ DOMAIN b = 1..(n + 1)
      /\ b[n + 1] = t /\ \A i \in 1..n : b[i] = times[i]
  BY <1>1
<1>4. /\ h \in Seq(Nat) /\ Len(h) = n - old + 1
      /\ h[n - old + 1] = t /\ \A k \in 1..(n - old) : h[k] = held[k]
  BY <1>1, <1>2
<1> HIDE DEF n, h, b
<1>5. \A i \in DOMAIN b : b[i] <= t
  BY <1>1, <1>3
<1>6. Sorted(b)
  <2> SUFFICES ASSUME NEW i \in 1..(n + 1), NEW j \in 1..(n + 1), i <= j PROVE b[i] <= b[j]
    BY <1>3 DEF Sorted
  <2>1. CASE j = n + 1
    BY <1>3, <1>5, <2>1
  <2>2. CASE j # n + 1
    <3>1. i \in 1..n /\ j \in 1..n
      BY <1>1, <2>2
    <3> QED BY <1>1, <1>3, <3>1
  <2> QED BY <2>1, <2>2
<1>7. old \in 0..(n + 1) /\ Len(h) = Len(b) - old
  BY <1>1, <1>2, <1>3, <1>4
<1>8. ASSUME NEW k \in 1..Len(h) PROVE h[k] = b[old + k]
  <2>1. CASE k = n - old + 1
    <3>1. old + k = n + 1
      BY <1>1, <1>2, <2>1
    <3> QED BY <1>3, <1>4, <2>1, <3>1
  <2>2. CASE k # n - old + 1
    <3>1. k \in 1..(n - old) /\ old + k \in 1..n
      BY <1>1, <1>2, <1>4, <2>2
    <3> QED BY <1>2, <1>3, <1>4, <3>1
  <2> QED BY <2>1, <2>2
<1>9. \A i \in 1..old : b[i] + Window <= t
  <2>1. \A i \in 1..old : i \in 1..n
    BY <1>1, <1>2
  <2> QED BY <1>2, <1>3, <2>1
<1>10. Follows(h, b, t)
  BY <1>3, <1>4, <1>5, <1>6, <1>7, <1>8, <1>9 DEF Follows
<1> QED BY <1>10 DEF h, b

\* One more admission is within the share of its address, if there was room.
Shared(times) == \A i \in DOMAIN times : Cardinality(InWindow(times, times[i])) <= MaxPerMinute

LEMMA WindowGrows ==
  ASSUME NEW times \in Seq(Nat), NEW t \in Nat, NEW c \in Nat
  PROVE  /\ IsFiniteSet(InWindow(times, c))
         /\ InWindow(times, c) \subseteq InWindow(Append(times, t), c)
         /\ InWindow(Append(times, t), c) \subseteq InWindow(times, c) \cup {Len(times) + 1}
         /\ Cardinality(InWindow(times, c)) <= Cardinality(InWindow(Append(times, t), c))
         /\ c < t => InWindow(Append(times, t), c) = InWindow(times, c)
<1> DEFINE n == Len(times)
           b == Append(times, t)
<1>1. n \in Nat /\ DOMAIN times = 1..n
  OBVIOUS
<1>2. DOMAIN b = 1..(n + 1) /\ b[n + 1] = t /\ \A i \in 1..n : b[i] = times[i]
  OBVIOUS
<1> HIDE DEF n, b
<1>3. \A i \in 1..(n + 1) : i \in 1..n \/ i = n + 1
  BY <1>1
<1>4. \A i \in 1..n : i \in 1..(n + 1)
  BY <1>1
<1>5. InWindow(times, c) \subseteq InWindow(b, c)
  BY <1>1, <1>2, <1>4 DEF InWindow
<1>6. InWindow(b, c) \subseteq InWindow(times, c) \cup {n + 1}
  BY <1>1, <1>2, <1>3 DEF InWindow
<1>7. c < t => InWindow(b, c) = InWindow(times, c)
  <2>1. c < t => n + 1 \notin InWindow(b, c)
    BY <1>2 DEF InWindow
  <2> QED BY <1>5, <1>6, <2>1
<1>8. IsFiniteSet(1..(n + 1)) /\ IsFiniteSet(1..n)
  BY <1>1, FS_Interval
<1>9. IsFiniteSet(InWindow(b, c)) /\ IsFiniteSet(InWindow(times, c))
  <2>1. InWindow(b, c) \subseteq 1..(n + 1) /\ InWindow(times, c) \subseteq 1..n
    BY <1>1, <1>2 DEF InWindow
  <2> QED BY <1>8, <2>1, FS_Subset
<1>10. Cardinality(InWindow(times, c)) <= Cardinality(InWindow(b, c))
  BY <1>5, <1>9, FS_Subset
<1> QED BY <1>5, <1>6, <1>7, <1>9, <1>10 DEF n, b

LEMMA StillShared ==
  ASSUME NEW times \in Seq(Nat), NEW t \in Nat, \A i \in DOMAIN times : times[i] <= t,
         Shared(times), Cardinality(InWindow(times, t)) < MaxPerMinute
  PROVE  Shared(Append(times, t))
<1> DEFINE n == Len(times)
           b == Append(times, t)
<1>1. n \in Nat /\ DOMAIN times = 1..n /\ \A i \in 1..n : times[i] \in Nat
  OBVIOUS
<1>2. DOMAIN b = 1..(n + 1) /\ b[n + 1] = t /\ \A i \in 1..n : b[i] = times[i]
  OBVIOUS
<1>3. Cardinality(InWindow(b, t)) <= MaxPerMinute
  <2>1. /\ IsFiniteSet(InWindow(times, t))
        /\ InWindow(b, t) \subseteq InWindow(times, t) \cup {n + 1}
    BY WindowGrows
  <2> HIDE DEF n, b
  <2>2. n + 1 \notin InWindow(times, t)
    BY <1>1 DEF InWindow
  <2>3. /\ IsFiniteSet(InWindow(times, t) \cup {n + 1})
        /\ Cardinality(InWindow(times, t) \cup {n + 1}) = Cardinality(InWindow(times, t)) + 1
    BY <2>1, <2>2, FS_AddElement
  <2>4. Cardinality(InWindow(b, t)) <= Cardinality(InWindow(times, t) \cup {n + 1})
    BY <2>1, <2>3, FS_Subset
  <2>5. IsFiniteSet(InWindow(b, t))
    BY <2>1, <2>3, FS_Subset
  <2>6. Cardinality(InWindow(times, t)) \in Nat /\ Cardinality(InWindow(b, t)) \in Nat /\ MaxPerMinute \in Nat
    BY <2>1, <2>5, FS_CardinalityType, RateAssumption
  <2> QED BY <2>3, <2>4, <2>6
<1>4. ASSUME NEW i \in 1..n PROVE Cardinality(InWindow(b, times[i])) <= MaxPerMinute
  <2>1. CASE times[i] = t
    BY <1>3, <2>1
  <2>2. CASE times[i] < t
    <3>1. InWindow(b, times[i]) = InWindow(times, times[i])
      BY <1>1, <2>2, WindowGrows
    <3> QED BY <1>1, <3>1 DEF Shared
  <2> QED BY <1>1, <2>1, <2>2
<1> HIDE DEF n, b
<1>5. \A i \in 1..(n + 1) : i \in 1..n \/ i = n + 1
  BY <1>1
<1>6. Shared(b)
  BY <1>2, <1>3, <1>4, <1>5 DEF Shared
<1> QED BY <1>6 DEF b

Tracks(l, times, t) == l \in Limiters /\ \A ip \in Ips : Follows(l.stamps[ip], times[ip], t)

\* An answer that evicts nobody counts what was admitted in the window.
LEMMA AllowTracks ==
  ASSUME NEW l, NEW times \in [Ips -> Seq(Nat)], NEW s \in Nat, NEW t \in Nat, s <= t, Tracks(l, times, s),
         NEW ip \in Ips, NEW answer \in Allow(l, ip, t), answer.evicted = {}
  PROVE  IF answer.ok
         THEN /\ Cardinality(InWindow(times[ip], t)) < MaxPerMinute
              /\ Tracks(answer.lim, [times EXCEPT ![ip] = Append(times[ip], t)], t)
         ELSE /\ Cardinality(InWindow(times[ip], t)) >= MaxPerMinute
              /\ Tracks(answer.lim, times, t)
<1> DEFINE start == Compacted(l, t)
           recent == Recent(start.stamps[ip], t)
<1>1. \A i \in Ips : times[i] \in Seq(Nat) /\ Follows(l.stamps[i], times[i], t)
  BY FollowsLater DEF Tracks
<1>2. Tracks(start, times, t)
  <2>1. CASE t >= l.compacted + CompactionInterval
    <3>1. start = [stamps |-> [i \in Ips |-> Recent(l.stamps[i], t)], compacted |-> t]
      BY <2>1 DEF Compacted
    <3>2. \A i \in Ips : Follows(Recent(l.stamps[i], t), times[i], t)
      BY <1>1, RecentFollows
    <3>3. \A i \in Ips : Recent(l.stamps[i], t) \in Seq(Nat)
      BY <3>2 DEF Follows
    <3> HIDE DEF start
    <3> QED BY <3>1, <3>2, <3>3 DEF Tracks, Limiters
  <2>2. CASE ~(t >= l.compacted + CompactionInterval)
    BY <1>1, <2>2 DEF Compacted, Tracks
  <2> QED BY <2>1, <2>2
<1> HIDE DEF start
<1>3. start.stamps \in [Ips -> Seq(Nat)] /\ start.compacted \in Nat /\ Follows(start.stamps[ip], times[ip], t)
  BY <1>2 DEF Tracks, Limiters
<1>4. /\ Follows(recent, times[ip], t) /\ recent \in Seq(Nat)
      /\ IsFiniteSet(InWindow(times[ip], t)) /\ Cardinality(InWindow(times[ip], t)) = Len(recent)
  <2>1. /\ Follows(recent, times[ip], t)
        /\ IsFiniteSet(InWindow(times[ip], t)) /\ Cardinality(InWindow(times[ip], t)) = Len(recent)
    BY <1>3, RecentFollows
  <2> QED BY <2>1 DEF Follows
<1> DEFINE refused == [start.stamps EXCEPT ![ip] = recent]
           added == [start.stamps EXCEPT ![ip] = Append(recent, t)]
<1>5. IF answer.ok
      THEN ~Full(recent) /\ answer.lim = [stamps |-> [i \in Ips |-> added[i]], compacted |-> start.compacted]
      ELSE Full(recent) /\ answer.lim = [stamps |-> [i \in Ips |-> refused[i]], compacted |-> start.compacted]
  <2> DEFINE Result(ok, out, stamps) ==
               [ok |-> ok, evicted |-> out,
                lim |-> [stamps    |-> [i \in Ips |-> IF i \in out THEN <<>> ELSE stamps[i]],
                         compacted |-> start.compacted]]
  <2>1. \/ Full(recent) /\ answer = Result(FALSE, {}, refused)
        \/ ~Full(recent) /\ answer = Result(TRUE, {}, added)
        \/ ~Full(recent) /\ \E out : answer = Result(TRUE, {out}, added)
    <3>1. Allow(l, ip, t) =
            IF Full(recent) THEN {Result(FALSE, {}, refused)}
            ELSE IF Cardinality(Tracked(added)) <= MaxTracked THEN {Result(TRUE, {}, added)}
            ELSE {Result(TRUE, {out}, added) : out \in Oldest(added, ip)}
      BY DEF Allow, start
    <3> HIDE DEF Result, refused, added, recent
    <3> QED BY <3>1
  <2> HIDE DEF refused, added, recent
  <2>2. ~\E out : answer = Result(TRUE, {out}, added)
    <3>1. \A out : Result(TRUE, {out}, added).evicted = {out}
      OBVIOUS
    <3> HIDE DEF Result
    <3> QED BY <3>1
  <2>3. CASE Full(recent) /\ answer = Result(FALSE, {}, refused)
    BY <2>3
  <2>4. CASE ~Full(recent) /\ answer = Result(TRUE, {}, added)
    BY <2>4
  <2> HIDE DEF Result
  <2> QED BY <2>1, <2>2, <2>3, <2>4
<1> HIDE DEF recent
<1>6. CASE answer.ok
  <2>1. ~Full(recent) /\ answer.lim = [stamps |-> [i \in Ips |-> added[i]], compacted |-> start.compacted]
    BY <1>5, <1>6
  <2>2. Cardinality(InWindow(times[ip], t)) < MaxPerMinute
    <3>1. Len(recent) \in Nat /\ MaxPerMinute \in Nat
      BY <1>4, RateAssumption
    <3> QED BY <1>4, <2>1, <3>1 DEF Full
  <2>3. Follows(Append(recent, t), Append(times[ip], t), t) /\ Append(recent, t) \in Seq(Nat)
    BY <1>4, AppendFollows
  <2> DEFINE after == [times EXCEPT ![ip] = Append(times[ip], t)]
  <2>4. /\ \A i \in Ips : added[i] \in Seq(Nat)
        /\ \A i \in Ips : Follows(added[i], after[i], t)
    BY <1>2, <1>3, <2>3 DEF Tracks
  <2> HIDE DEF added, after
  <2>5. Tracks(answer.lim, after, t)
    BY <1>3, <2>1, <2>4 DEF Tracks, Limiters
  <2> QED BY <1>6, <2>2, <2>5 DEF after
<1>7. CASE ~answer.ok
  <2>1. Full(recent) /\ answer.lim = [stamps |-> [i \in Ips |-> refused[i]], compacted |-> start.compacted]
    BY <1>5, <1>7
  <2>2. /\ \A i \in Ips : refused[i] \in Seq(Nat)
        /\ \A i \in Ips : Follows(refused[i], times[i], t)
    BY <1>2, <1>3, <1>4 DEF Tracks
  <2> HIDE DEF refused
  <2>3. Tracks(answer.lim, times, t)
    BY <1>3, <2>1, <2>2 DEF Tracks, Limiters
  <2> QED BY <1>4, <1>7, <2>1, <2>3 DEF Full
<1> QED BY <1>6, <1>7

\* The limiters that RateHolds speaks of hold the end of what they have admitted,
\* no window is overdrawn, and whoever was refused had had its share.
Refused(r) == Answered(r) /\ req[r].status = 429
RateOf(s) ==
    /\ Tracks(lim[s], admitted[s], latest[s])
    /\ \A ip \in Ips : Shared(admitted[s][ip])
    /\ \A r \in Requests : Refused(r) /\ Server(r) = s =>
         /\ req[r].clock <= latest[s]
         /\ Cardinality(InWindow(admitted[s][In(r).ip], req[r].clock)) >= MaxPerMinute
RateInv ==
    /\ exact \subseteq Servers /\ lim \in [Servers -> {lim[s] : s \in Servers}] /\ latest \in [Servers -> Nat]
    /\ admitted \in [Servers -> [Ips -> Seq(Nat)]]
    /\ \A s \in exact : RateOf(s)

LEMMA IpsOf ==
  ASSUME TypeInv, NEW r \in Requests, req[r].phase # "idle"
  PROVE  In(r).ip \in Ips /\ Server(r) \in Servers
<1>1. In(r) \in Arrivals /\ scenario \in Scenarios
  BY DEF TypeInv
<1>2. In(r).ip \in scenario.ips /\ scenario.ips \subseteq Ips
  BY <1>1, WebAssumption DEF Arrivals
<1> QED BY <1>1, <1>2, ArrivalTypes DEF Server, In

\* Without an answer of the limiter nobody is refused.
LEMMA RateKept ==
  ASSUME RateInv, UNCHANGED limitVars,
         \A r \in Requests : req'[r].phase = "done" /\ req'[r].status = 429 =>
            /\ req[r].phase = "done" /\ req[r].status = 429
            /\ req'[r].clock = req[r].clock /\ req'[r].in = req[r].in
  PROVE  RateInv'
<1>1. UNCHANGED <<lim, admitted, latest, exact>>
  BY DEF limitVars
<1>2. \A r \in Requests : Refused(r)' =>
        Refused(r) /\ req'[r].clock = req[r].clock /\ Server(r)' = Server(r) /\ In(r)' = In(r)
  BY DEF Refused, Answered, Server, In
<1>3. ASSUME NEW s \in exact PROVE RateOf(s)'
  BY <1>1, <1>2, <1>3 DEF RateInv, RateOf
<1> QED BY <1>1, <1>3 DEF RateInv

LEMMA RateStep == TypeInv /\ RightInv /\ RateInv /\ [Next]_vars => RateInv'
<1> SUFFICES ASSUME TypeInv, TypeInv', RightInv, RateInv, [Next]_vars PROVE RateInv'
  BY TypeStep
<1>0. req \in [Requests -> ThreadType] /\ \A r \in Requests : ThreadRight(req[r])
  BY DEF TypeInv, RightInv
<1> USE DEF authVars, issuerVars
<1>1. ASSUME NEW r \in Requests, UNCHANGED limitVars, \A o \in Requests : o # r => req'[o] = req[o],
             req'[r].phase = "done" => req'[r].status # 429
      PROVE  RateInv'
  BY <1>1, RateKept
<1>2. ASSUME NEW r \in Requests, Arrive(r) PROVE RateInv'
  <2>1. UNCHANGED limitVars
    BY <1>2 DEF Arrive
  <2>2. (\A o \in Requests : o # r => req'[o] = req[o]) /\ JustArrived(req'[r])
    BY <1>2, ArriveIs
  <2>3. req'[r].phase = "done" => req'[r].status # 429
    BY <2>2 DEF JustArrived
  <2> QED BY <1>1, <2>1, <2>2, <2>3
<1>3. ASSUME NEW r \in Requests, Gate(r), ~Limit(r) PROVE RateInv'
  <2>1. UNCHANGED limitVars
    BY <1>3 DEF Gate, GetClient, Decode, FetchFails, Dispatch, ReadClock
  <2>2. Moves(r) /\ (req'[r].phase = "done" => req'[r].status # 429)
    <3>1. CASE Decode(r)
      <4> DEFINE keep == [req[r].client EXCEPT !.ver = IF CachedKey(r) = 0 THEN published ELSE CachedKey(r)]
      <4>1. /\ Moves(r)
            /\ \/ req'[r] = [req[r] EXCEPT !.client = keep, !.phase = "dispatch"]
               \/ req'[r] = Rejected(req[r])
        BY <3>1, DecodeIs
      <4> HIDE DEF keep
      <4>2. req[r] \in ThreadType
        BY <1>0
      <4>3. Rejected(req[r]).phase = "done" => Rejected(req[r]).status = 401
        BY <4>2, RejectedIs
      <4>4. [req[r] EXCEPT !.client = keep, !.phase = "dispatch"].phase = "dispatch"
        BY <4>2 DEF ThreadType
      <4>5. CASE req'[r] = Rejected(req[r])
        BY <4>1, <4>3, <4>5
      <4>6. CASE req'[r] = [req[r] EXCEPT !.client = keep, !.phase = "dispatch"]
        <5>1. req'[r].phase = "dispatch"
          BY <4>4, <4>6
        <5> QED BY <4>1, <5>1
      <4> QED BY <4>1, <4>5, <4>6
    <3>2. CASE FetchFails(r)
      <4>1. Moves(r) /\ (req'[r].phase = "client" \/ req'[r].status = 401)
        BY <3>2, FetchFailsIs
      <4> QED BY <4>1
    <3>3. CASE Dispatch(r)
      BY <3>3, DispatchIs
    <3>4. CASE GetClient(r) \/ ReadClock(r)
      <4>1. Moves(r) /\ req'[r].phase # "done"
        BY <1>3, <3>4, GateIs DEF GetClient, ReadClock
      <4> QED BY <4>1
    <3> QED BY <1>3, <3>1, <3>2, <3>3, <3>4 DEF Gate
  <2> QED BY <1>1, <2>1, <2>2 DEF Moves
<1>4. ASSUME NEW r \in Requests, Operation(r) \/ Lock(r) \/ Insert(r) \/ InsertFails(r) PROVE RateInv'
  <2>1. CASE Operation(r)
    <3>1. Moves(r) /\ UNCHANGED limitVars /\ (req'[r].phase = "done" => req'[r].status # 429)
      BY <2>1, OperationIs DEF Works, elsewhere
    <3> QED BY <1>1, <3>1 DEF Moves
  <2>2. CASE Lock(r)
    <3> DEFINE p == IF scenario.signing THEN LastEvent ELSE 0
    <3>1. Moves(r) /\ req'[r] = [req[r] EXCEPT !.prev = p, !.phase = "insert"]
      BY <2>2, LockIs
    <3> HIDE DEF p
    <3>2. req[r] \in ThreadType
      BY <1>0
    <3>3. req'[r].phase = "insert"
      BY <3>1, <3>2 DEF ThreadType
    <3>4. UNCHANGED limitVars
      BY <2>2 DEF Lock
    <3> QED BY <1>1, <3>1, <3>3, <3>4 DEF Moves
  <2>3. CASE Insert(r) \/ InsertFails(r)
    <3>1. Moves(r) /\ req'[r].status \in {200, 400}
      BY <2>3, InsertIs
    <3>2. UNCHANGED limitVars
      BY <2>3 DEF Insert, InsertFails
    <3> QED BY <1>1, <3>1, <3>2 DEF Moves
  <2> QED BY <1>4, <2>1, <2>2, <2>3
<1>5. CASE Rotate
  <2>1. UNCHANGED limitVars
    BY <1>5 DEF Rotate
  <2>2. ASSUME NEW r \in Requests
        PROVE  /\ req'[r].phase = req[r].phase /\ req'[r].status = req[r].status
               /\ req'[r].clock = req[r].clock /\ req'[r].in = req[r].in
    <3>1. req[r] \in ThreadType /\ req'[r] = [req[r] EXCEPT !.due = FALSE]
      BY <1>0, <1>5, RotateIs
    <3> QED BY <3>1 DEF ThreadType
  <2> QED BY <2>1, <2>2, RateKept
<1>6. CASE Tick \/ WorkerEnds \/ UNCHANGED vars
  <2>1. UNCHANGED limitVars /\ req' = req
    BY <1>6 DEF Tick, WorkerEnds, vars, elsewhere
  <2> QED BY <2>1, RateKept
<1>7. ASSUME NEW r \in Requests, Limit(r) PROVE RateInv'
  <2> DEFINE s == Server(r)
             ip == In(r).ip
             t == req[r].clock
  <2>1. s \in Servers /\ ip \in Ips /\ t \in Nat /\ Moves(r) /\ req[r].phase = "limit"
    <3>1. req[r] \in ThreadType /\ req[r].phase = "limit" /\ Moves(r)
      BY <1>0, <1>7, LimitIs
    <3> QED BY <3>1, IpsOf DEF ThreadType
  <2>2. PICK answer \in Allow(lim[s], ip, t) :
           /\ lim' = [lim EXCEPT ![s] = answer.lim]
           /\ latest' = [latest EXCEPT ![s] = IF t > latest[s] THEN t ELSE latest[s]]
           /\ exact' = IF t < latest[s] \/ answer.evicted # {} THEN exact \ {s} ELSE exact
           /\ IF answer.ok
              THEN admitted' = [admitted EXCEPT ![s][ip] = IF s \in exact' THEN Append(admitted[s][ip], t) ELSE admitted[s][ip]]
              ELSE admitted' = admitted
           /\ answer.ok => Signed(r)
           /\ ~answer.ok => Answer(r, 429)
    BY <1>7 DEF Limit
  <2>3. /\ \A o \in Requests : o # r => req'[o] = req[o]
        /\ req'[r].in = req[r].in
    BY <2>1 DEF Moves
  <2> HIDE DEF s, ip, t
  <2>4. /\ exact \subseteq Servers /\ latest \in [Servers -> Nat]
        /\ lim \in [Servers -> {lim[x] : x \in Servers}]
        /\ admitted \in [Servers -> [Ips -> Seq(Nat)]]
    BY DEF RateInv
  <2>5. exact' \subseteq exact /\ latest' \in [Servers -> Nat] /\ latest'[s] >= latest[s]
    BY <2>1, <2>2, <2>4
  <2>6. /\ \A x \in Servers \ {s} : lim'[x] = lim[x] /\ latest'[x] = latest[x] /\ admitted'[x] = admitted[x]
        /\ lim'[s] = answer.lim
        /\ lim' \in [Servers -> {lim'[x] : x \in Servers}]
    BY <2>1, <2>2, <2>4
  <2>7. /\ admitted' \in [Servers -> [Ips -> Seq(Nat)]]
        /\ admitted'[s] = IF answer.ok /\ s \in exact'
                          THEN [admitted[s] EXCEPT ![ip] = Append(admitted[s][ip], t)] ELSE admitted[s]
    <3>1. CASE answer.ok
      <4> DEFINE after == IF s \in exact' THEN Append(admitted[s][ip], t) ELSE admitted[s][ip]
      <4>1. admitted' = [admitted EXCEPT ![s][ip] = after]
        BY <2>2, <3>1
      <4>2. admitted[s] \in [Ips -> Seq(Nat)] /\ after \in Seq(Nat)
        BY <2>1, <2>4
      <4> HIDE DEF after
      <4>3. admitted' \in [Servers -> [Ips -> Seq(Nat)]] /\ admitted'[s] = [admitted[s] EXCEPT ![ip] = after]
        BY <2>1, <2>4, <4>1, <4>2
      <4>4. s \notin exact' => [admitted[s] EXCEPT ![ip] = after] = admitted[s]
        BY <2>1, <4>2 DEF after
      <4> QED BY <3>1, <4>3, <4>4 DEF after
    <3>2. CASE ~answer.ok
      BY <2>2, <2>4, <3>2
    <3> QED BY <3>1, <3>2
  \* The other servers.
  <2>8. ASSUME NEW x \in exact', x # s PROVE RateOf(x)'
    <3>1. x \in exact /\ lim'[x] = lim[x] /\ latest'[x] = latest[x] /\ admitted'[x] = admitted[x]
      BY <2>4, <2>5, <2>6, <2>8
    <3>2. ASSUME NEW o \in Requests, Server(o)' = x
          PROVE  req'[o] = req[o] /\ Refused(o)' = Refused(o) /\ Server(o) = x /\ In(o)' = In(o)
      <4>1. o # r
        BY <2>3, <2>8, <3>2 DEF s, Server, In
      <4>2. req'[o] = req[o]
        BY <2>3, <4>1
      <4> QED BY <3>2, <4>2 DEF Refused, Answered, Server, In
    <3>3. RateOf(x)
      BY <3>1 DEF RateInv
    <3> QED BY <3>1, <3>2, <3>3 DEF RateOf
  \* The server that was asked, if it is asked in order.
  <2>9. ASSUME NEW x \in exact', x = s PROVE RateOf(x)'
    <3>1. s \in exact /\ latest[s] \in Nat /\ latest[s] <= t /\ answer.evicted = {} /\ latest'[s] = t
      BY <2>1, <2>2, <2>4, <2>5, <2>9
    <3>2. /\ Tracks(lim[s], admitted[s], latest[s])
          /\ \A i \in Ips : Shared(admitted[s][i])
          /\ admitted[s] \in [Ips -> Seq(Nat)]
          /\ \A o \in Requests : req[o].phase = "done" /\ req[o].status = 429 /\ req[o].in.server = s =>
               /\ req[o].clock <= latest[s]
               /\ Cardinality(InWindow(admitted[s][req[o].in.ip], req[o].clock)) >= MaxPerMinute
      BY ZenonT(40), <2>1, <2>4, <3>1 DEF RateInv, RateOf, Refused, Answered, Server, In
    <3>3. IF answer.ok
          THEN /\ Cardinality(InWindow(admitted[s][ip], t)) < MaxPerMinute
               /\ Tracks(answer.lim, [admitted[s] EXCEPT ![ip] = Append(admitted[s][ip], t)], t)
          ELSE /\ Cardinality(InWindow(admitted[s][ip], t)) >= MaxPerMinute
               /\ Tracks(answer.lim, admitted[s], t)
      BY <2>1, <3>1, <3>2, AllowTracks
    <3>4. Tracks(lim'[s], admitted'[s], latest'[s])
      BY <2>6, <2>7, <2>9, <3>1, <3>3
    <3>5. ASSUME NEW i \in Ips PROVE Shared(admitted'[s][i])
      <4>1. CASE answer.ok /\ i = ip
        <5>1. admitted'[s][i] = Append(admitted[s][ip], t)
          BY <2>7, <2>9, <3>2, <4>1
        <5>2. Follows(lim[s].stamps[ip], admitted[s][ip], t)
          BY <2>1, <3>1, <3>2, FollowsLater DEF Tracks
        <5>3. Shared(Append(admitted[s][ip], t))
          BY <2>1, <3>2, <3>3, <4>1, <5>2, StillShared DEF Follows
        <5> QED BY <5>1, <5>3
      <4>2. CASE ~(answer.ok /\ i = ip)
        BY <2>7, <2>9, <3>2, <4>2
      <4> QED BY <4>1, <4>2
    <3>6. ASSUME NEW o \in Requests, req'[o].phase = "done", req'[o].status = 429, req'[o].in.server = s
          PROVE  /\ req'[o].clock <= latest'[s]
                 /\ Cardinality(InWindow(admitted'[s][req'[o].in.ip], req'[o].clock)) >= MaxPerMinute
      <4>1. CASE o = r
        <5>1. ~answer.ok
          <6>1. ASSUME answer.ok PROVE req'[r].phase # "done" \/ req'[r].status # 429
            <7>1. Signed(r)
              BY <2>2, <6>1
            <7>2. ASSUME Goto(r, "handle") PROVE req'[r].phase = "handle"
              <8>1. req'[r] = [req[r] EXCEPT !.phase = "handle"] /\ req[r] \in ThreadType
                BY <1>0, <7>2, GotoIs DEF Phases
              <8> QED BY <8>1 DEF ThreadType
            <7>3. ASSUME Answer(r, 401) \/ Answer(r, 403) PROVE req'[r].status # 429
              BY <7>3, AnswerIs DEF Statuses
            <7> QED BY <7>1, <7>2, <7>3 DEF Signed
          <6> QED BY <3>6, <4>1, <6>1
        <5>2. Answer(r, 429)
          BY <2>2, <5>1
        <5>3. req'[r].clock = t
          <6>1. req'[r] = Finished(req[r], 429)
            BY <1>0, <5>2 DEF Answer
          <6> QED BY <6>1 DEF Finished, NoThread, t
        <5>4. req'[r].in.ip = ip
          BY <2>3 DEF ip, In
        <5> QED BY <2>1, <2>7, <3>1, <3>3, <4>1, <5>1, <5>3, <5>4
      <4>2. CASE o # r
        <5> DEFINE c == req[o].clock
                   i == req[o].in.ip
        <5>1. req'[o] = req[o]
          BY <2>3, <4>2
        <5>2. c <= latest[s] /\ Cardinality(InWindow(admitted[s][i], c)) >= MaxPerMinute /\ c \in Nat
          <6>1. req[o] \in ThreadType
            BY <1>0
          <6>2. c \in Nat
            BY <6>1 DEF ThreadType
          <6> QED BY <3>2, <3>6, <5>1, <6>2
        <5>3. i \in Ips
          BY <3>6, <5>1, IpsOf DEF In
        <5>4. Cardinality(InWindow(admitted'[s][i], c)) >= MaxPerMinute
          <6>1. CASE admitted'[s][i] = admitted[s][i]
            BY <5>2, <6>1
          <6>2. CASE admitted'[s][i] = Append(admitted[s][i], t)
            <7> HIDE DEF c, i
            <7>1. admitted[s][i] \in Seq(Nat) /\ Append(admitted[s][i], t) \in Seq(Nat)
              BY <2>1, <3>2, <5>3
            <7>2. /\ IsFiniteSet(InWindow(admitted[s][i], c))
                  /\ IsFiniteSet(InWindow(Append(admitted[s][i], t), c))
              BY <2>1, <5>2, <7>1, WindowGrows
            <7>3. Cardinality(InWindow(admitted[s][i], c)) <= Cardinality(InWindow(Append(admitted[s][i], t), c))
              BY <2>1, <5>2, <7>1, WindowGrows
            <7>4. /\ Cardinality(InWindow(admitted[s][i], c)) \in Nat
                  /\ Cardinality(InWindow(Append(admitted[s][i], t), c)) \in Nat /\ MaxPerMinute \in Nat
              BY <7>2, FS_CardinalityType, RateAssumption
            <7> QED BY <5>2, <6>2, <7>3, <7>4
          <6>3. admitted'[s][i] = admitted[s][i] \/ admitted'[s][i] = Append(admitted[s][i], t)
            BY <2>7, <3>2, <5>3
          <6> QED BY <6>1, <6>2, <6>3
        <5>5. c <= latest'[s]
          BY <2>1, <3>1, <5>2
        <5> QED BY <5>1, <5>4, <5>5
      <4> QED BY <4>1, <4>2
    <3>7. \A o \in Requests : /\ Refused(o)' <=> req'[o].phase = "done" /\ req'[o].status = 429
                             /\ Server(o)' = req'[o].in.server /\ In(o)' = req'[o].in
      BY DEF Refused, Answered, Server, In
    <3> QED BY <2>9, <3>4, <3>5, <3>6, <3>7 DEF RateOf
  <2>10. \A x \in exact' : RateOf(x)'
    <3> SUFFICES ASSUME NEW x \in exact' PROVE RateOf(x)'
      OBVIOUS
    <3>1. CASE x = s
      BY <2>9, <3>1
    <3>2. CASE x # s
      BY <2>8, <3>2
    <3> QED BY <3>1, <3>2
  <2> QED BY <2>4, <2>5, <2>6, <2>7, <2>10 DEF RateInv
<1> QED BY <1>2, <1>3, <1>4, <1>5, <1>6, <1>7 DEF Next, Gate

\* However the threads overtake each other, and whoever is evicted: an address gets
\* no more than its share into any window, and who is refused has had it, as long
\* as a server was asked in order and has evicted nobody.
THEOREM RateIsLimited == Spec => []RateHolds
<1>1. Init => TypeInv /\ RightInv /\ RateInv
  <2> SUFFICES ASSUME Init PROVE RightInv /\ RateInv
    BY TypeInit
  <2>1. \A r \in Requests : req[r].phase = "idle" /\ ~req[r].changed
    BY DEF Init, NoThread
  <2>2. \A s \in Servers : /\ lim[s] = NoAdmissions /\ latest[s] = 0
                          /\ \A ip \in Ips : admitted[s][ip] = <<>>
    BY DEF Init
  <2>3. NoAdmissions \in Limiters /\ \A ip \in Ips : NoAdmissions.stamps[ip] = <<>>
    BY DEF NoAdmissions, Limiters
  <2>4. Follows(<<>>, <<>>, 0) /\ Shared(<<>>)
    BY DEF Follows, Sorted, Shared
  <2>5. \A s \in Servers : Tracks(lim[s], admitted[s], latest[s])
    BY <2>2, <2>3, <2>4 DEF Tracks
  <2>6. RightInv
    BY <2>1 DEF RightInv, ThreadRight
  <2>7. RateInv
    BY <2>1, <2>2, <2>4, <2>5 DEF Init, RateInv, RateOf, Refused, Answered
  <2> QED BY <2>6, <2>7
<1>2. RateInv => RateHolds
  BY DEF RateInv, RateOf, RateHolds, Refused, Shared
<1> QED BY <1>1, <1>2, TypeStep, RightStep, RateStep, PTL DEF Spec

-----------------------------------------------------------------------------
(* The programs of the routes *)

Changing == {"remove", "enqueue", "upload", "start", "stop", "retry", "clear", "open", "write", "unlink"}

\* The operations that may fail before they have done anything.
Failing == {"valid", "metadata", "find", "read", "open", "start"}

\* What each route executes.
LEMMA ProgramsAre ==
  ASSUME NEW route \in PostRoutes
  PROVE  LET p == Handlers[route].program IN
           /\ route = "delete" => p = Delete
           /\ route = "rerun" => p = Rerun
           /\ route = "ingest_url" => p = IngestUrl
           /\ route = "ingest_file" => p = IngestFile
           /\ route = "worker_start" => p = StartWorker
           /\ route = "worker_stop" => p = StopWorker
           /\ route = "worker_restart" => p = RestartWorker
           /\ route \in {"webhook", "workflow_run"} => p = RunWorkflow
           /\ route = "workflow_save" => p = SaveWorkflow
           /\ route = "workflow_delete" => p = DeleteWorkflow
           /\ route = "trigger_save" => p = SaveTrigger
           /\ route = "trigger_delete" => p = DeleteTrigger
           /\ route = "trigger_toggle" => p = SetEnabled
           /\ route = "trigger_run" => p = RunTrigger
           /\ route = "config_save" => p = SaveConfig
           /\ route = "bulk_retry" => p = RetryFailed
           /\ route = "bulk_clear" => p = ClearDead
<1>1. /\ DOMAIN SourceRoutes = {"delete", "rerun", "ingest_url", "ingest_file"}
      /\ DOMAIN WorkerRoutes = {"worker_start", "worker_stop", "worker_restart"}
      /\ DOMAIN WebhookRoutes = {"webhook"}
      /\ DOMAIN WorkflowRoutes = {"workflow_save", "workflow_delete"}
      /\ DOMAIN TriggerRoutes = {"trigger_save", "trigger_delete", "trigger_toggle", "trigger_run"}
      /\ DOMAIN OtherRoutes = {"workflow_run", "config_save", "bulk_retry", "bulk_clear"}
  BY DEF SourceRoutes, WorkerRoutes, WebhookRoutes, WorkflowRoutes, TriggerRoutes, OtherRoutes
<1> DEFINE Has(table) == route \in DOMAIN table
           table == CHOOSE t \in RouteTables : Has(t)
<1>2. \A a, b \in RouteTables : Has(a) /\ Has(b) => a = b
  BY <1>1 DEF RouteTables
<1>3. \A t \in RouteTables : Has(t) => table = t
  BY <1>2
<1>4. Handlers[route] = table[route]
  BY DEF Handlers
<1> HIDE DEF table
<1>5. CASE route \in DOMAIN SourceRoutes
  <2>1. Handlers[route] = SourceRoutes[route]
    BY <1>3, <1>4, <1>5 DEF RouteTables
  <2> QED BY <1>1, <1>5, <2>1 DEF SourceRoutes
<1>6. CASE route \in DOMAIN WorkerRoutes
  <2>1. Handlers[route] = WorkerRoutes[route]
    BY <1>3, <1>4, <1>6 DEF RouteTables
  <2> QED BY <1>1, <1>6, <2>1 DEF WorkerRoutes
<1>7. CASE route \in DOMAIN WebhookRoutes
  <2>1. Handlers[route] = WebhookRoutes[route]
    BY <1>3, <1>4, <1>7 DEF RouteTables
  <2> QED BY <1>1, <1>7, <2>1 DEF WebhookRoutes
<1>8. CASE route \in DOMAIN WorkflowRoutes
  <2>1. Handlers[route] = WorkflowRoutes[route]
    BY <1>3, <1>4, <1>8 DEF RouteTables
  <2> QED BY <1>1, <1>8, <2>1 DEF WorkflowRoutes
<1>9. CASE route \in DOMAIN TriggerRoutes
  <2>1. Handlers[route] = TriggerRoutes[route]
    BY <1>3, <1>4, <1>9 DEF RouteTables
  <2> QED BY <1>1, <1>9, <2>1 DEF TriggerRoutes
<1>10. CASE route \in DOMAIN OtherRoutes
  <2>1. Handlers[route] = OtherRoutes[route]
    BY <1>3, <1>4, <1>10 DEF RouteTables
  <2> QED BY <1>1, <1>10, <2>1 DEF OtherRoutes
<1> QED BY <1>1, <1>5, <1>6, <1>7, <1>8, <1>9, <1>10, PostRoutesAre

\* How the programs are built: whatever may fail comes before every change, but
\* for the start of a restart; only the routes of the worker stop it; nothing
\* ends with a read.
WellBuilt(route, p) ==
    /\ Len(p) \in 1..4
    /\ \A k \in 1..Len(p) :
         /\ p[k] \in Failing /\ (\E j \in 1..Len(p) : j < k /\ p[j] \in Changing) => route = "worker_restart"
         /\ p[k] = "stop" => route \in {"worker_stop", "worker_restart"}
         /\ p[k] = "read" => k < Len(p)

LEMMA ProgramsWellBuilt ==
  ASSUME NEW route \in PostRoutes
  PROVE  WellBuilt(route, Handlers[route].program)
<1> DEFINE p == Handlers[route].program
<1>1. ASSUME NEW a, p = <<a>>, a = "stop" => route \in {"worker_stop", "worker_restart"}, a # "read"
      PROVE  WellBuilt(route, p)
  <2>1. Len(p) = 1 /\ p[1] = a
    BY <1>1
  <2> HIDE DEF p
  <2> QED BY <1>1, <2>1 DEF WellBuilt
<1>2. ASSUME NEW a, NEW b, p = <<a, b>>,
             b \in Failing => a \notin Changing,
             a # "stop" /\ b # "stop", b # "read"
      PROVE  WellBuilt(route, p)
  <2>1. Len(p) = 2 /\ p[1] = a /\ p[2] = b
    BY <1>2
  <2> HIDE DEF p
  <2>2. ASSUME NEW k \in 1..2
        PROVE  /\ p[k] # "stop" /\ (p[k] = "read" => k < 2)
               /\ p[k] \in Failing => \A j \in 1..2 : j < k => p[j] \notin Changing
    <3>1. k = 1 \/ k = 2
      OBVIOUS
    <3>2. ASSUME NEW j \in 1..2, j < k PROVE (j = 1 /\ k # 1)
      <4>1. j = 1 \/ j = 2
        OBVIOUS
      <4> QED BY <3>1, <3>2, <4>1
    <3> QED BY <1>2, <2>1, <3>1, <3>2
  <2> QED BY <2>1, <2>2 DEF WellBuilt
<1>3. ASSUME NEW a, NEW b, NEW c, p = <<a, b, c>>,
             b \in Failing => a \notin Changing,
             c \in Failing => a \notin Changing /\ b \notin Changing,
             a # "stop" /\ b # "stop" /\ c # "stop", c # "read"
      PROVE  WellBuilt(route, p)
  <2>1. Len(p) = 3 /\ p[1] = a /\ p[2] = b /\ p[3] = c
    BY <1>3
  <2> HIDE DEF p
  <2>2. ASSUME NEW k \in 1..3
        PROVE  /\ p[k] # "stop" /\ (p[k] = "read" => k < 3)
               /\ p[k] \in Failing => \A j \in 1..3 : j < k => p[j] \notin Changing
    <3>1. k = 1 \/ k = 2 \/ k = 3
      OBVIOUS
    <3>2. ASSUME NEW j \in 1..3, j < k PROVE (j = 1 /\ k # 1) \/ (j = 2 /\ k # 1 /\ k # 2)
      <4>1. j = 1 \/ j = 2 \/ j = 3
        OBVIOUS
      <4> QED BY <3>1, <3>2, <4>1
    <3> QED BY <1>3, <2>1, <3>1, <3>2
  <2> QED BY <2>1, <2>2 DEF WellBuilt
<1>4. ASSUME NEW a, NEW b, NEW c, NEW d, p = <<a, b, c, d>>,
             b \in Failing => a \notin Changing,
             c \in Failing => a \notin Changing /\ b \notin Changing,
             d \in Failing => a \notin Changing /\ b \notin Changing /\ c \notin Changing,
             a # "stop" /\ b # "stop" /\ c # "stop" /\ d # "stop", d # "read"
      PROVE  WellBuilt(route, p)
  <2>1. Len(p) = 4 /\ p[1] = a /\ p[2] = b /\ p[3] = c /\ p[4] = d
    BY <1>4
  <2> HIDE DEF p
  <2>2. ASSUME NEW k \in 1..4
        PROVE  /\ p[k] # "stop" /\ (p[k] = "read" => k < 4)
               /\ p[k] \in Failing => \A j \in 1..4 : j < k => p[j] \notin Changing
    <3>1. k = 1 \/ k = 2 \/ k = 3 \/ k = 4
      OBVIOUS
    <3>2. ASSUME NEW j \in 1..4, j < k PROVE (j = 1 /\ k # 1) \/ (j = 2 /\ k # 1 /\ k # 2) \/ (j = 3 /\ k # 1 /\ k # 2 /\ k # 3)
      <4>1. j = 1 \/ j = 2 \/ j = 3 \/ j = 4
        OBVIOUS
      <4> QED BY <3>1, <3>2, <4>1
    <3> QED BY <1>4, <2>1, <3>1, <3>2
  <2> QED BY <2>1, <2>2 DEF WellBuilt
<1>5. CASE route \in {"worker_start", "worker_stop", "bulk_retry", "bulk_clear"}
  BY <1>1, <1>5, ProgramsAre DEF StartWorker, StopWorker, RetryFailed, ClearDead
<1>6. CASE route \in {"delete", "ingest_url", "workflow_delete", "trigger_delete"}
  <2>1. {"remove", "enqueue", "unlink", "ensure"} \cap Failing = {} /\ {"valid", "find"} \cap Changing = {}
    BY DEF Failing, Changing
  <2> QED BY <1>2, <1>6, <2>1, ProgramsAre DEF Delete, IngestUrl, DeleteWorkflow, DeleteTrigger
<1>7. CASE route \in {"rerun", "ingest_file", "workflow_save", "trigger_save", "config_save"}
  <2>1. {"enqueue", "ensure", "write"} \cap Failing = {} /\ {"valid", "metadata"} \cap Changing = {}
    BY DEF Failing, Changing
  <2> QED BY <1>3, <1>7, <2>1, ProgramsAre DEF Rerun, IngestFile, SaveWorkflow, SaveTrigger, SaveConfig
<1>8. CASE route \in {"webhook", "workflow_run", "trigger_toggle", "trigger_run"}
  <2>1. {"enqueue", "ensure", "write"} \cap Failing = {} /\ {"valid", "find", "read"} \cap Changing = {}
    BY DEF Failing, Changing
  <2> QED BY <1>4, <1>8, <2>1, ProgramsAre DEF RunWorkflow, SetEnabled, RunTrigger
<1>9. CASE route = "worker_restart"
  <2>1. p = <<"stop", "start">>
    BY <1>9, ProgramsAre DEF RestartWorker, StopWorker, StartWorker
  <2>2. Len(p) = 2 /\ p[1] = "stop" /\ p[2] = "start" /\ \A k \in 1..2 : k = 1 \/ k = 2
    BY <2>1
  <2> HIDE DEF p
  <2>3. \A k \in 1..Len(p) : p[k] # "read"
    BY <2>2
  <2>4. Len(p) \in 1..4
    BY <2>2
  <2>5. WellBuilt(route, p)
    BY <1>9, <2>3, <2>4 DEF WellBuilt
  <2> QED BY <2>5 DEF p
<1> QED BY <1>5, <1>6, <1>7, <1>8, <1>9, PostRoutesAre

-----------------------------------------------------------------------------
(* What an operation does *)

ProgramOf(q) == Handlers[q.in.route].program
Op(r) == ProgramOf(req[r])[req[r].pc]

Queued(n) == \E j \in jobs : j.by = n

\* The jobs of requests are pending, those there were before are anybody's.
JobsInv == \A j \in jobs : /\ j.by \in Nat /\ j = [by |-> j.by, status |-> j.status]
                           /\ j.by # 0 => j.status = "pending"

\* The operation is done and the program goes on or waits for the log; or it fails,
\* and nothing has been done but by a stop or to a document; or it raises.
Goes(r) ==
    /\ req'[r].pc = req[r].pc + 1 /\ req'[r].ok = req[r].ok
    /\ req'[r].phase = IF req[r].pc = Len(ProgramOf(req[r])) /\ Op(r) # "read" THEN "lock" ELSE "handle"
    /\ req'[r].changed => req[r].changed \/ Op(r) \in Changing
    /\ Op(r) = "enqueue" => Queued(req[r].n)'
    /\ Op(r) # "read" => req'[r].copy = req[r].copy
FailsAt(r) ==
    /\ req'[r].phase = "lock" /\ req'[r].ok = FALSE
    /\ \/ Op(r) \in Failing /\ req'[r].changed = req[r].changed
       \/ Op(r) = "stop"
       \/ Doc(r) \in spoilt'
Breaks(r) ==
    /\ req'[r].phase = "done" /\ req'[r].ok = req[r].ok /\ req'[r].changed = req[r].changed
    /\ unlogged' = unlogged \cup {req[r].n}

LEMMA GoesOn ==
  ASSUME TypeInv, NEW r \in Requests, NEW changed \in BOOLEAN, Proceed(r, changed), Op(r) # "read",
         changed => Op(r) \in Changing, Op(r) = "enqueue" => Queued(req[r].n)'
  PROVE  Goes(r)
<1> DEFINE p == req[r].pc + 1
           c == req[r].changed \/ changed
           phase == IF req[r].pc = Len(Program(r)) THEN "lock" ELSE "handle"
<1>1. req[r] \in ThreadType /\ req'[r] = [req[r] EXCEPT !.changed = c, !.pc = p, !.phase = phase]
  BY ProceedIs DEF TypeInv
<1>2. phase = IF req[r].pc = Len(ProgramOf(req[r])) THEN "lock" ELSE "handle"
  BY DEF Program, ProgramOf, In
<1> HIDE DEF p, c, phase
<1>3. /\ req'[r].pc = p /\ req'[r].ok = req[r].ok /\ req'[r].phase = phase /\ req'[r].changed = c
      /\ req'[r].copy = req[r].copy
  BY <1>1 DEF ThreadType
<1> QED BY <1>2, <1>3 DEF Goes, p, c

LEMMA FailsThere ==
  ASSUME TypeInv, NEW r \in Requests, NEW changed \in BOOLEAN, Fails(r, changed),
         \/ ~changed /\ Op(r) \in Failing
         \/ Op(r) = "stop"
         \/ Doc(r) \in spoilt'
  PROVE  FailsAt(r)
<1> DEFINE c == req[r].changed \/ changed
<1>1. req[r] \in ThreadType /\ req'[r] = [req[r] EXCEPT !.changed = c, !.ok = FALSE, !.phase = "lock"]
  BY FailsIs DEF TypeInv
<1>2. ~changed => c = req[r].changed
  BY <1>1 DEF ThreadType
<1> HIDE DEF c
<1>3. req'[r].ok = FALSE /\ req'[r].phase = "lock" /\ req'[r].changed = c
  BY <1>1 DEF ThreadType
<1> QED BY <1>2, <1>3 DEF FailsAt

LEMMA RaisesIs ==
  ASSUME TypeInv, NEW r \in Requests, Raises(r)
  PROVE  Breaks(r)
  BY AnswerIs DEF Raises, Breaks, Statuses

\* What an operation leaves of the queue and of the failed documents.
LEMMA JobsStep ==
  ASSUME TypeInv, JobsInv, NEW r \in Requests, Operation(r)
  PROVE  /\ JobsInv' /\ spoilt \subseteq spoilt'
         /\ \A n \in Nat \ {0} : Queued(n) => Queued(n)'
<1> USE DEF fileVars, resources
<1>1. CASE UNCHANGED jobs
  <2>1. spoilt \subseteq spoilt'
    BY DEF Operation, Valid, Remove, ReadMetadata, Enqueue, Ensure, Upload, Start, Stop, Retry, Clear,
           Find, Read, Open, Write, Unlink
  <2> QED BY <1>1, <2>1 DEF JobsInv, Queued
<1>2. CASE Enqueue(r) /\ jobs' # jobs
  <2> DEFINE n == req[r].n
             j == [by |-> n, status |-> "pending"]
  <2>1. jobs' = jobs \cup {j} /\ spoilt' = spoilt /\ n \in Nat
    BY <1>2 DEF Enqueue, TypeInv, ThreadType
  <2>2. j.by = n /\ j.status = "pending" /\ j = [by |-> j.by, status |-> j.status]
    OBVIOUS
  <2> HIDE DEF j, n
  <2> QED BY <2>1, <2>2 DEF JobsInv, Queued
<1>3. CASE Retry(r)
  <2> DEFINE Reset(j) == [j EXCEPT !.status = "pending"]
  <2>1. jobs' = {Reset(j) : j \in jobs} /\ spoilt' = spoilt
    BY <1>3 DEF Retry
  <2>2. \A j \in jobs : Reset(j) = [by |-> j.by, status |-> "pending"]
    BY DEF JobsInv
  <2>3. \A j \in jobs : /\ Reset(j).by = j.by /\ Reset(j).status = "pending"
                        /\ Reset(j) = [by |-> Reset(j).by, status |-> Reset(j).status]
    BY <2>2
  <2> HIDE DEF Reset
  <2> QED BY <2>1, <2>3 DEF JobsInv, Queued
<1>4. CASE Clear(r)
  <2>1. jobs' = {j \in jobs : j.status # "dead_letter"} /\ spoilt' = spoilt
    BY <1>4 DEF Clear
  <2> QED BY <2>1 DEF JobsInv, Queued
<1>5. Enqueue(r) \/ Retry(r) \/ Clear(r) \/ UNCHANGED jobs
  BY DEF Operation, Valid, Remove, ReadMetadata, Enqueue, Ensure, Upload, Start, Stop, Retry, Clear,
         Find, Read, Open, Write, Unlink
<1> QED BY <1>1, <1>2, <1>3, <1>4, <1>5

LEMMA OperationDoes ==
  ASSUME TypeInv, NEW r \in Requests, Operation(r)
  PROVE  Goes(r) \/ FailsAt(r) \/ Breaks(r)
<1> USE DEF AtOp, Op, Program, ProgramOf, In
<1>1. CASE Valid(r) \/ ReadMetadata(r) \/ Find(r)
  BY <1>1, GoesOn, FailsThere DEF Valid, ReadMetadata, Find, Failing
<1>2. CASE Remove(r)
  BY <1>2, GoesOn DEF Remove, Changing
<1>3. CASE Enqueue(r)
  <2>1. CASE Raises(r)
    BY <2>1, RaisesIs
  <2>2. CASE Proceed(r, TRUE) /\ jobs' = jobs \cup {[by |-> req[r].n, status |-> "pending"]}
    <3>1. Queued(req[r].n)'
      <4> DEFINE n == req[r].n
                 j == [by |-> n, status |-> "pending"]
      <4>1. j \in jobs' /\ j.by = n
        BY <2>2
      <4>2. \E k \in jobs' : k.by = n
        BY <4>1
      <4>3. req'[r].n = n
        BY <2>2, ProceedIs DEF Moves
      <4> QED BY <4>2, <4>3 DEF Queued
    <3> QED BY <1>3, <2>2, <3>1, GoesOn DEF Enqueue, Changing
  <2> QED BY <1>3, <2>1, <2>2 DEF Enqueue
<1>4. CASE Ensure(r)
  BY <1>4, GoesOn, RaisesIs DEF Ensure
<1>5. CASE Upload(r)
  BY <1>5, GoesOn, RaisesIs DEF Upload, Changing
<1>6. CASE Start(r)
  BY <1>6, GoesOn, FailsThere DEF Start, Changing, Failing
<1>7. CASE Stop(r)
  BY <1>7, GoesOn, FailsThere DEF Stop, Changing
<1>8. CASE Retry(r) \/ Clear(r)
  BY <1>8, GoesOn DEF Retry, Clear, Changing
<1>9. CASE Read(r)
  <2>1. CASE Fails(r, FALSE) \/ Raises(r)
    BY <1>9, <2>1, FailsThere, RaisesIs DEF Read, Failing
  <2>2. CASE req' = [req EXCEPT ![r] = [req[r] EXCEPT !.copy = file[Doc(r)], !.pc = @ + 1]]
    <3> DEFINE f == file[Doc(r)]
               p == req[r].pc + 1
    <3>1. req[r] \in ThreadType /\ req'[r] = [req[r] EXCEPT !.copy = f, !.pc = p]
      BY <2>2 DEF TypeInv
    <3> HIDE DEF f, p
    <3>2. /\ req'[r].pc = p /\ req'[r].ok = req[r].ok /\ req'[r].phase = req[r].phase
          /\ req'[r].changed = req[r].changed
      BY <3>1 DEF ThreadType
    <3>3. req[r].phase = "handle" /\ Op(r) = "read"
      BY <1>9 DEF Read
    <3> QED BY <3>2, <3>3 DEF Goes, p
  <2> QED BY <1>9, <2>1, <2>2 DEF Read
<1>10. CASE Open(r)
  BY <1>10, GoesOn, FailsThere DEF Open, Changing, Failing
<1>11. CASE Write(r)
  BY <1>11, GoesOn, FailsThere DEF Write, Changing
<1>12. CASE Unlink(r)
  BY <1>12, GoesOn, RaisesIs DEF Unlink, Changing
<1> QED BY <1>1, <1>2, <1>3, <1>4, <1>5, <1>6, <1>7, <1>8, <1>9, <1>10, <1>11, <1>12 DEF Operation

-----------------------------------------------------------------------------
(* The audit log *)

Recorded(n) == \E i \in DOMAIN log : log[i].by = n

Queues(route) == "enqueue" \in {Handlers[route].program[k] : k \in DOMAIN Handlers[route].program}
Excused(route) == route \in {"worker_stop", "worker_restart"} \/ Document(route) \in spoilt

\* What a thread has done, which its event will tell: in a handler it has not
\* failed, and what it has changed or queued an operation behind it did.
ThreadLogs(q) ==
    /\ q.phase # "idle" => q.n \in Nat \ {0}
    /\ q.phase \in {"client", "decode", "dispatch", "clock", "limit"} => q.ok /\ q.pc = 1
    /\ q.phase \in {"handle", "lock", "insert"} => q.in.route \in PostRoutes
    /\ q.phase = "handle" =>
         /\ q.ok /\ q.pc \in 1..Len(ProgramOf(q))
         /\ q.changed => \E k \in 1..Len(ProgramOf(q)) : k < q.pc /\ ProgramOf(q)[k] \in Changing
         /\ \A k \in 1..Len(ProgramOf(q)) : k < q.pc /\ ProgramOf(q)[k] = "enqueue" => Queued(q.n)
    /\ q.phase \in {"lock", "insert"} =>
         /\ q.ok /\ Queues(q.in.route) => Queued(q.n)
         /\ ~q.ok /\ q.changed => Excused(q.in.route)
    /\ q.phase = "done" /\ q.changed => q.n \in unlogged \/ Recorded(q.n)

LogInv ==
    /\ JobsInv /\ EntriesAreTrue /\ \A i \in DOMAIN log : log[i].by # 0
    /\ \A r \in Requests : ThreadLogs(req[r])

\* What no step takes back.
Grows ==
    /\ JobsInv' /\ spoilt \subseteq spoilt' /\ unlogged \subseteq unlogged'
    /\ \A n \in Nat \ {0} : Queued(n) => Queued(n)'
    /\ \A n : Recorded(n) => Recorded(n)'

LEMMA LogKept ==
  ASSUME TypeInv, LogInv, Grows, log' = log
  PROVE  EntriesAreTrue'
<1>1. \A i \in DOMAIN log : log[i].by \in Nat \ {0}
  <2>1. \A i \in DOMAIN log : log[i] \in Events
    BY DEF TypeInv
  <2> QED BY <2>1 DEF LogInv, Events
<1> QED BY <1>1 DEF LogInv, Grows, EntriesAreTrue, Queued

LEMMA ThreadLogsKept ==
  ASSUME Grows, NEW q, ThreadLogs(q) PROVE ThreadLogs(q)'
<1>1. Excused(q.in.route) => Excused(q.in.route)'
  BY DEF Grows, Excused
<1> QED BY <1>1 DEF Grows, ThreadLogs, ProgramOf

\* One thread steps and appends nothing.
LEMMA ThreadStepLogs ==
  ASSUME TypeInv, LogInv, Grows, log' = log,
         NEW r \in Requests, ThreadLogs(req[r])', \A o \in Requests : o # r => req'[o] = req[o]
  PROVE  LogInv'
<1>1. \A o \in Requests : ThreadLogs(req[o])'
  BY ThreadLogsKept DEF LogInv
<1> QED BY <1>1, LogKept DEF LogInv, Grows

LEMMA QuietGrows ==
  ASSUME JobsInv, UNCHANGED <<jobs, log, spoilt>>, unlogged \subseteq unlogged'
  PROVE  Grows
  BY DEF Grows, JobsInv, Queued, Recorded

LEMMA GatePosts ==
  ASSUME TypeInv, RightInv, NEW r \in Requests, Gate(r), req'[r].phase = "handle"
  PROVE  req[r].in.route \in PostRoutes
<1>1. CASE req[r].phase = "limit"
  BY <1>1, PostRoutesAre DEF RightInv, ThreadRight
<1>2. CASE Dispatch(r)
  BY <1>2, DispatchIs DEF Post, In
<1> QED BY <1>1, <1>2, GateIs

LEMMA LogStep == TypeInv /\ RightInv /\ LogInv /\ [Next]_vars => LogInv'
<1> SUFFICES ASSUME TypeInv, TypeInv', RightInv, LogInv, [Next]_vars PROVE LogInv'
  BY TypeStep
<1>0. /\ req \in [Requests -> ThreadType] /\ arrived \in Nat /\ log \in Seq(Events)
      /\ \A r \in Requests : ThreadLogs(req[r]) /\ ThreadRight(req[r])
      /\ JobsInv
  BY DEF TypeInv, LogInv, RightInv
<1> USE DEF authVars, issuerVars, resources, fileVars, auditVars, limitVars
<1>1. ASSUME NEW r \in Requests, Arrive(r) PROVE LogInv'
  <2>1. /\ \A o \in Requests : o # r => req'[o] = req[o]
        /\ req'[r].changed = FALSE /\ req'[r].n = arrived + 1
        /\ req'[r].phase # "done" => req'[r].ok /\ req'[r].pc = 1
        /\ req'[r].phase \in {"done", "dispatch", "client"}
        /\ UNCHANGED <<jobs, log, spoilt, unlogged>>
    BY <1>1, ArriveIs DEF JustArrived
  <2>2. ThreadLogs(req[r])'
    BY <1>0, <2>1 DEF ThreadLogs
  <2>3. Grows
    BY <1>0, <2>1, QuietGrows
  <2> QED BY <2>1, <2>2, <2>3, ThreadStepLogs
<1>2. ASSUME NEW r \in Requests, Gate(r) PROVE LogInv'
  <2>1. UNCHANGED <<jobs, log, spoilt, unlogged>>
    BY <1>2, GateIs
  <2>2. /\ Moves(r) /\ req'[r].changed = req[r].changed
        /\ req[r].phase \in {"client", "decode", "dispatch", "clock", "limit"}
        /\ req'[r].phase \notin {"idle", "lock", "insert"}
        /\ req'[r].phase # "done" => req'[r].ok = req[r].ok /\ req'[r].pc = req[r].pc
        /\ req'[r].phase = "handle" => req[r].in.route \in PostRoutes
    BY <1>0, <1>2, GateIs, GatePosts
  <2>3. ThreadLogs(req[r]) /\ ~req[r].changed
    BY <1>0, <2>2 DEF ThreadRight
  <2>4. ThreadLogs(req[r])'
    <3>1. /\ req'[r].n = req[r].n /\ req'[r].in = req[r].in /\ ~req'[r].changed
          /\ req[r].n \in Nat \ {0} /\ req[r].ok /\ req[r].pc = 1
      BY <2>2, <2>3 DEF Moves, ThreadLogs
    <3>2. CASE req'[r].phase = "handle"
      <4>1. req[r].in.route \in PostRoutes
        BY <2>2, <3>2
      <4>2. Len(ProgramOf(req'[r])) \in 1..4
        BY <3>1, <4>1, ProgramsWellBuilt DEF WellBuilt, ProgramOf
      <4> DEFINE p == ProgramOf(req'[r])
      <4>3. req'[r].pc = 1 /\ 1 \in 1..Len(p) /\ \A k \in 1..Len(p) : ~(k < 1)
        <5>1. req'[r].pc = 1
          BY <2>2, <3>1, <3>2
        <5> DEFINE n == Len(p)
        <5>2. n \in 1..4
          BY <4>2
        <5> HIDE DEF n
        <5>3. 1 \in 1..n /\ \A k \in 1..n : ~(k < 1)
          BY <5>2
        <5> QED BY <5>1, <5>3 DEF n
      <4>4. ProgramOf(req[r])' = p
        BY DEF ProgramOf
      <4> HIDE DEF p
      <4> QED BY <2>2, <3>1, <3>2, <4>1, <4>3, <4>4 DEF ThreadLogs
    <3>3. CASE req'[r].phase # "handle"
      BY <2>2, <3>1, <3>3 DEF ThreadLogs
    <3> QED BY <3>2, <3>3
  <2>5. Grows
    BY <1>0, <2>1, QuietGrows
  <2> QED BY <2>1, <2>2, <2>4, <2>5, ThreadStepLogs DEF Moves
<1>3. ASSUME NEW r \in Requests, Operation(r) PROVE LogInv'
  <2> DEFINE p == ProgramOf(req[r])
             k == req[r].pc
  <2>1. /\ req[r].phase = "handle" /\ Moves(r) /\ log' = log /\ unlogged \subseteq unlogged'
        /\ ProgramOf(req[r])' = p
    BY <1>3, OperationIs DEF Works, elsewhere, Moves, ProgramOf
  <2>2. Grows
    BY <1>0, <1>3, <2>1, JobsStep DEF Grows, Recorded
  <2>3. /\ ThreadLogs(req[r]) /\ req[r].in.route \in PostRoutes /\ WellBuilt(req[r].in.route, p)
        /\ req'[r].n = req[r].n /\ req'[r].in = req[r].in /\ req[r].n \in Nat \ {0}
        /\ k \in 1..Len(p) /\ Len(p) \in 1..4 /\ Op(r) = p[k]
        /\ req[r].changed => \E j \in 1..Len(p) : j < k /\ p[j] \in Changing
        /\ \A j \in 1..Len(p) : j < k /\ p[j] = "enqueue" => Queued(req[r].n)
        /\ DOMAIN p = 1..Len(p)
    <3>1. ThreadLogs(req[r]) /\ req[r].in.route \in PostRoutes
      BY <1>0, <2>1 DEF ThreadLogs
    <3>2. WellBuilt(req[r].in.route, p)
      BY <3>1, ProgramsWellBuilt DEF ProgramOf
    <3> QED BY <2>1, <3>1, <3>2 DEF ThreadLogs, Moves, Op, WellBuilt
  <2> HIDE DEF p, k
  <2>4. CASE Goes(r)
    <3>1. req'[r].pc = k + 1 /\ req'[r].ok
      BY <2>1, <2>3, <2>4 DEF Goes, ThreadLogs, k
    <3>2. req'[r].changed => \E j \in 1..Len(p) : j < k + 1 /\ p[j] \in Changing
      <4>1. \A j \in 1..Len(p) : j < k => j < k + 1
        BY <2>3
      <4>2. k < k + 1
        BY <2>3
      <4> QED BY <2>3, <2>4, <4>1, <4>2 DEF Goes
    <3>3. ASSUME NEW j \in 1..Len(p), j < k + 1, p[j] = "enqueue" PROVE Queued(req[r].n)'
      <4>1. j < k \/ j = k
        BY <2>3, <3>3
      <4> QED BY <2>2, <2>3, <2>4, <3>3, <4>1 DEF Goes, Grows
    <3>4. ASSUME k # Len(p) PROVE ThreadLogs(req[r])'
      <4>1. req'[r].phase = "handle" /\ k + 1 \in 1..Len(p)
        BY <2>3, <2>4, <3>4 DEF Goes, p, k
      <4> QED BY <2>1, <2>3, <3>1, <3>2, <3>3, <4>1 DEF ThreadLogs
    <3>5. ASSUME k = Len(p) PROVE ThreadLogs(req[r])'
      <4>1. p[k] # "read"
        BY <2>3, <3>5 DEF WellBuilt
      <4>2. req'[r].phase = "lock"
        BY <2>3, <2>4, <3>5, <4>1 DEF Goes, p, k
      <4>3. Queues(req[r].in.route) => \E j \in 1..Len(p) : p[j] = "enqueue"
        BY <2>3 DEF Queues, ProgramOf, p
      <4>4. \A j \in 1..Len(p) : j < k + 1
        BY <2>3, <3>5
      <4>5. Queues(req[r].in.route) => Queued(req[r].n)'
        BY <3>3, <4>3, <4>4
      <4> QED BY <2>3, <3>1, <4>2, <4>5 DEF ThreadLogs
    <3>6. ThreadLogs(req[r])'
      BY <3>4, <3>5
    <3> QED BY <2>1, <2>2, <3>6, ThreadStepLogs DEF Moves
  <2>5. CASE FailsAt(r)
    <3>1. req[r].changed /\ p[k] \in Failing => req[r].in.route = "worker_restart"
      BY <2>3 DEF WellBuilt
    <3>2. req'[r].changed => Excused(req[r].in.route)'
      BY <2>3, <2>5, <3>1 DEF FailsAt, Excused, Doc, In, WellBuilt
    <3>3. ThreadLogs(req[r])'
      BY <2>3, <2>5, <3>2 DEF ThreadLogs, FailsAt
    <3> QED BY <2>1, <2>2, <3>3, ThreadStepLogs DEF Moves
  <2>6. CASE Breaks(r)
    <3>1. ThreadLogs(req[r])'
      BY <2>3, <2>6 DEF ThreadLogs, Breaks
    <3> QED BY <2>1, <2>2, <3>1, ThreadStepLogs DEF Moves
  <2> QED BY <1>3, <2>4, <2>5, <2>6, OperationDoes
<1>4. ASSUME NEW r \in Requests, Lock(r) PROVE LogInv'
  <2> DEFINE p == IF scenario.signing THEN LastEvent ELSE 0
  <2>1. /\ req[r].phase = "lock" /\ Moves(r)
        /\ req'[r] = [req[r] EXCEPT !.prev = p, !.phase = "insert"]
    BY <1>4, LockIs
  <2> HIDE DEF p
  <2>2. UNCHANGED <<jobs, log, spoilt, unlogged>>
    BY <1>4 DEF Lock
  <2>3. req[r] \in ThreadType /\ ThreadLogs(req[r])
    BY <1>0
  <2>4. /\ req'[r].phase = "insert" /\ req'[r].n = req[r].n /\ req'[r].in = req[r].in
        /\ req'[r].ok = req[r].ok /\ req'[r].changed = req[r].changed
    BY <2>1, <2>3 DEF ThreadType
  <2>5. ThreadLogs(req[r])'
    BY <2>1, <2>2, <2>3, <2>4 DEF ThreadLogs, Queued, Excused
  <2>6. Grows
    BY <1>0, <2>2, QuietGrows
  <2> QED BY <2>1, <2>2, <2>5, <2>6, ThreadStepLogs DEF Moves
<1>5. ASSUME NEW r \in Requests, Insert(r) \/ InsertFails(r) PROVE LogInv'
  <2>1. /\ req[r].phase = "insert" /\ Moves(r) /\ req'[r].phase = "done"
        /\ req'[r].changed = req[r].changed /\ Event(r) \in Events
        /\ \/ log' = Append(log, Event(r)) /\ unlogged' = unlogged
           \/ log' = log /\ unlogged' = unlogged \cup {req[r].n}
    BY <1>5, InsertIs
  <2>2. UNCHANGED <<jobs, spoilt>>
    BY <1>5 DEF Insert, InsertFails
  <2>3. /\ ThreadLogs(req[r]) /\ req'[r].n = req[r].n /\ req'[r].in = req[r].in
        /\ req[r].n \in Nat \ {0}
    BY <1>0, <2>1 DEF ThreadLogs, Moves
  <2>4. CASE log' = log /\ unlogged' = unlogged \cup {req[r].n}
    <3>1. Grows
      BY <1>0, <2>2, <2>4, QuietGrows
    <3>2. ThreadLogs(req[r])'
      BY <2>1, <2>3, <2>4 DEF ThreadLogs
    <3> QED BY <2>1, <2>4, <3>1, <3>2, ThreadStepLogs DEF Moves
  <2>5. CASE log' = Append(log, Event(r)) /\ unlogged' = unlogged
    <3>1. /\ Len(log) \in Nat /\ DOMAIN log = 1..Len(log) /\ DOMAIN log' = 1..(Len(log) + 1)
          /\ log'[Len(log) + 1] = Event(r)
          /\ \A i \in 1..Len(log) : log'[i] = log[i]
      BY <1>0, <2>1, <2>5
    <3>2. Grows
      <4>1. \A n : Recorded(n) => Recorded(n)'
        BY <3>1 DEF Recorded
      <4> QED BY <1>0, <2>2, <2>5, <4>1 DEF Grows, JobsInv, Queued
    <3>3. Recorded(req[r].n)'
      <4>1. Event(r).by = req[r].n
        BY DEF Event
      <4> QED BY <2>3, <3>1, <4>1 DEF Recorded
    <3>4. ThreadLogs(req[r])'
      BY <2>1, <2>3, <3>3 DEF ThreadLogs
    <3>5. \A o \in Requests : ThreadLogs(req[o])'
      BY <1>0, <2>1, <3>2, <3>4, ThreadLogsKept DEF Moves
    <3>6. EntriesAreTrue'
      <4> SUFFICES ASSUME NEW i \in DOMAIN log'
                   PROVE  /\ ~log'[i].ok /\ log'[i].changed => Excused(log'[i].route)
                          /\ log'[i].ok /\ Queues(log'[i].route) => Queued(log'[i].by)
        BY <2>2 DEF EntriesAreTrue, Excused, Queues, Queued
      <4>1. CASE i \in 1..Len(log)
        BY <3>1, <4>1 DEF LogInv, EntriesAreTrue, Excused, Queues, Queued
      <4>2. CASE i = Len(log) + 1
        <5>1. /\ log'[i].ok = req[r].ok /\ log'[i].changed = req[r].changed
              /\ log'[i].route = req[r].in.route /\ log'[i].by = req[r].n
          BY <3>1, <4>2 DEF Event, In
        <5> QED BY <2>1, <2>3, <5>1 DEF ThreadLogs
      <4> QED BY <3>1, <4>1, <4>2
    <3>7. \A i \in DOMAIN log' : log'[i].by # 0
      <4>1. Event(r).by # 0
        BY <2>3 DEF Event
      <4>2. \A i \in 1..Len(log) : log[i].by # 0
        BY <3>1 DEF LogInv
      <4>3. \A i \in 1..(Len(log) + 1) : i \in 1..Len(log) \/ i = Len(log) + 1
        BY <3>1
      <4> QED BY <3>1, <4>1, <4>2, <4>3
    <3> QED BY <3>2, <3>5, <3>6, <3>7 DEF LogInv, Grows
  <2> QED BY <2>1, <2>4, <2>5
<1>6. CASE Rotate
  <2>1. UNCHANGED <<jobs, log, spoilt, unlogged>>
    BY <1>6 DEF Rotate
  <2>2. Grows
    BY <1>0, <2>1, QuietGrows
  <2>3. ASSUME NEW r \in Requests PROVE ThreadLogs(req[r])'
    <3>1. req[r] \in ThreadType /\ ThreadLogs(req[r]) /\ req'[r] = [req[r] EXCEPT !.due = FALSE]
      BY <1>0, <1>6, RotateIs
    <3>2. /\ req'[r].phase = req[r].phase /\ req'[r].n = req[r].n /\ req'[r].in = req[r].in
          /\ req'[r].ok = req[r].ok /\ req'[r].pc = req[r].pc /\ req'[r].changed = req[r].changed
      BY <3>1 DEF ThreadType
    <3> QED BY <2>1, <3>1, <3>2 DEF ThreadLogs, ProgramOf, Queued, Excused, Recorded
  <2> QED BY <2>1, <2>2, <2>3, LogKept DEF LogInv, Grows
<1>7. CASE Tick \/ WorkerEnds \/ UNCHANGED vars
  <2>1. UNCHANGED <<jobs, log, spoilt, unlogged, req>>
    BY <1>7 DEF Tick, WorkerEnds, vars, elsewhere
  <2>2. Grows
    BY <1>0, <2>1, QuietGrows
  <2>3. \A r \in Requests : ThreadLogs(req[r])'
    BY <1>0, <2>1, <2>2, ThreadLogsKept
  <2> QED BY <2>1, <2>2, <2>3, LogKept DEF LogInv, Grows
<1> QED BY <1>1, <1>2, <1>3, <1>4, <1>5, <1>6, <1>7 DEF Next, Gate

LEMMA LogInit == Init => TypeInv /\ RightInv /\ LogInv
<1> SUFFICES ASSUME Init PROVE RightInv /\ LogInv
  BY TypeInit
<1>1. \A r \in Requests : req[r].phase = "idle" /\ ~req[r].changed
  BY DEF Init, NoThread
<1>2. RightInv /\ \A r \in Requests : ThreadLogs(req[r])
  BY <1>1 DEF RightInv, ThreadRight, ThreadLogs
<1>3. JobsInv
  <2>1. jobs = {[by |-> 0, status |-> "failed"], [by |-> 0, status |-> "dead_letter"]}
    BY DEF Init
  <2>2. \A j \in jobs : j.by = 0 /\ j = [by |-> j.by, status |-> j.status]
    BY <2>1
  <2> QED BY <2>2 DEF JobsInv
<1> QED BY <1>2, <1>3 DEF Init, LogInv, EntriesAreTrue

\* Whatever requests overlap or break off, every change is in the log in the end,
\* and what the log tells of a request is true.
THEOREM LogTellsTheTruth == Spec => []LogIsTrue
<1>1. LogInv => LogIsTrue
  BY DEF LogInv, LogIsTrue, ChangesAreLogged, ThreadLogs, Answered, Recorded
<1> QED BY LogInit, <1>1, TypeStep, RightStep, LogStep, PTL DEF Spec

-----------------------------------------------------------------------------
(* The documents *)

\* A document is written right after it was opened, at the end of a program and
\* from its third operation on; two routes write the triggers, and a toggle has
\* read before it opens.
Writes(route, p) ==
    \A k \in 1..Len(p) :
      /\ p[k] = "open" => k < Len(p) /\ p[k + 1] = "write"
      /\ k < Len(p) /\ p[k + 1] = "write" => p[k] = "open"
      /\ p[k] = "write" => /\ k = Len(p) /\ k >= 3
                           /\ Document(route) = "trigger" => route \in {"trigger_save", "trigger_toggle"}
      /\ route = "trigger_toggle" =>
           /\ Document(route) = "trigger" /\ p[Len(p)] = "write"
           /\ k >= 3 <=> p[k] \in {"open", "write"}
           /\ k + 1 >= 3 => p[k] \in {"read", "open", "write"}
           /\ p[k] # "unlink"

LEMMA ProgramsWrite ==
  ASSUME NEW route \in PostRoutes
  PROVE  Writes(route, Handlers[route].program)
<1> DEFINE p == Handlers[route].program
<1>1. ASSUME route # "trigger_toggle", \A k \in 1..Len(p) : p[k] \notin {"open", "write"}
      PROVE  Writes(route, p)
  <2>1. Len(p) \in Nat
    BY ProgramsWellBuilt DEF WellBuilt
  <2> HIDE DEF p
  <2>2. \A k \in 1..Len(p) : k < Len(p) => k + 1 \in 1..Len(p)
    BY <2>1
  <2> QED BY <1>1, <2>2 DEF Writes
<1>2. CASE route \in {"workflow_save", "trigger_save", "config_save"}
  <2>1. p = <<"valid", "open", "write">>
    BY <1>2, ProgramsAre DEF SaveWorkflow, SaveTrigger, SaveConfig
  <2>2. /\ Len(p) = 3 /\ p[1] = "valid" /\ p[2] = "open" /\ p[3] = "write"
        /\ \A k \in 1..3 : k = 1 \/ k = 2 \/ k = 3
    BY <2>1
  <2>3. Document(route) = "trigger" => route = "trigger_save"
    BY <1>2 DEF Document
  <2> HIDE DEF p
  <2>4. ASSUME NEW k \in 1..3
        PROVE  /\ p[k] = "open" => k < 3 /\ p[k + 1] = "write"
               /\ k < 3 /\ p[k + 1] = "write" => p[k] = "open"
               /\ p[k] = "write" => k = 3
    <3>1. CASE k = 1
      BY <2>2, <3>1
    <3>2. CASE k = 2
      BY <2>2, <3>2
    <3>3. CASE k = 3
      BY <2>2, <3>3
    <3> QED BY <2>2, <3>1, <3>2, <3>3
  <2>5. Writes(route, p)
    BY <1>2, <2>2, <2>3, <2>4 DEF Writes
  <2> QED BY <2>5 DEF p
<1>3. CASE route = "trigger_toggle"
  <2>1. p = <<"find", "read", "open", "write">>
    BY <1>3, ProgramsAre DEF SetEnabled
  <2>2. /\ Len(p) = 4 /\ p[1] = "find" /\ p[2] = "read" /\ p[3] = "open" /\ p[4] = "write"
        /\ \A k \in 1..4 : k = 1 \/ k = 2 \/ k = 3 \/ k = 4
    BY <2>1
  <2>3. Document(route) = "trigger"
    BY <1>3 DEF Document
  <2> HIDE DEF p
  <2>4. ASSUME NEW k \in 1..4
        PROVE  /\ p[k] = "open" => k < 4 /\ p[k + 1] = "write"
               /\ k < 4 /\ p[k + 1] = "write" => p[k] = "open"
               /\ p[k] = "write" => k = 4
               /\ k >= 3 <=> p[k] \in {"open", "write"}
               /\ k + 1 >= 3 => p[k] \in {"read", "open", "write"}
               /\ p[k] # "unlink"
    <3>1. CASE k = 1
      BY <2>2, <3>1
    <3>2. CASE k = 2
      BY <2>2, <3>2
    <3>3. CASE k = 3
      BY <2>2, <3>3
    <3>4. CASE k = 4
      BY <2>2, <3>4
    <3> QED BY <2>2, <3>1, <3>2, <3>3, <3>4
  <2>5. Writes(route, p)
    BY <1>3, <2>2, <2>3, <2>4 DEF Writes
  <2> QED BY <2>5 DEF p
<1>4. CASE route \in {"worker_start", "worker_stop", "bulk_retry", "bulk_clear"}
  <2>1. p \in {<<"start">>, <<"stop">>, <<"retry">>, <<"clear">>}
    BY <1>4, ProgramsAre DEF StartWorker, StopWorker, RetryFailed, ClearDead
  <2> QED BY <1>1, <1>4, <2>1
<1>5. CASE route \in {"delete", "ingest_url", "workflow_delete", "trigger_delete", "worker_restart"}
  <2>1. p \in {<<"valid", "remove">>, <<"enqueue", "ensure">>, <<"find", "unlink">>, <<"stop", "start">>}
    <3>1. CASE route = "delete"
      BY <3>1, ProgramsAre DEF Delete
    <3>2. CASE route = "ingest_url"
      BY <3>2, ProgramsAre DEF IngestUrl
    <3>3. CASE route \in {"workflow_delete", "trigger_delete"}
      BY <3>3, ProgramsAre DEF DeleteWorkflow, DeleteTrigger
    <3>4. CASE route = "worker_restart"
      <4>1. /\ RestartWorker \in Seq({"stop", "start"}) /\ Len(RestartWorker) = 2
            /\ RestartWorker[1] = "stop" /\ RestartWorker[2] = "start"
        BY DEF RestartWorker, StartWorker, StopWorker
      <4>2. RestartWorker = <<"stop", "start">>
        BY <4>1
      <4> QED BY <3>4, <4>2, ProgramsAre
    <3> QED BY <1>5, <3>1, <3>2, <3>3, <3>4
  <2> QED BY <1>1, <1>5, <2>1
<1>6. CASE route \in {"rerun", "ingest_file"}
  <2>1. p \in {<<"valid", "metadata", "enqueue">>, <<"upload", "enqueue", "ensure">>}
    BY <1>6, ProgramsAre DEF Rerun, IngestFile
  <2> QED BY <1>1, <1>6, <2>1
<1>7. CASE route \in {"webhook", "workflow_run", "trigger_run"}
  <2>1. p \in {<<"find", "read", "valid", "enqueue">>, <<"find", "read", "enqueue", "ensure">>}
    BY <1>7, ProgramsAre DEF RunWorkflow, RunTrigger
  <2> QED BY <1>1, <1>7, <2>1
<1> QED BY <1>2, <1>3, <1>4, <1>5, <1>6, <1>7, PostRoutesAre

AtWrite(q, d) == q.phase = "handle" /\ Document(q.in.route) = d /\ ProgramOf(q)[q.pc] = "write"
Holds(q) == q.phase = "handle" /\ q.in.route = "trigger_toggle" /\ q.pc >= 3
Bad == raced \cup spoilt

\* Who has a document open is about to write it.  Unless two wrote at once or a
\* write failed: everybody about to write it has it open; it is empty as long as
\* somebody has; and a toggle has read the text saved last.
EditsInv ==
    /\ writers \in [Documents -> SUBSET Requests]
    /\ \A d \in Documents : \A r \in writers[d] : AtWrite(req[r], d)
    /\ \A d \in Documents \ Bad :
         /\ \A r \in Requests : AtWrite(req[r], d) => r \in writers[d]
         /\ file[d].state # "garbled" /\ (file[d].state = "empty" <=> writers[d] # {})
    /\ "trigger" \notin Bad =>
         /\ file["trigger"].state = "whole" => file["trigger"].text = saved
         /\ \A r \in Requests : Holds(req[r]) => req[r].copy.state = "whole" /\ req[r].copy.text = saved

\* No document changes, and nobody comes to write one.
LEMMA EditsKept ==
  ASSUME EditsInv, UNCHANGED fileVars,
         \A o \in Requests : /\ \A d \in Documents : AtWrite(req'[o], d) <=> AtWrite(req[o], d)
                             /\ Holds(req'[o]) => Holds(req[o]) /\ req'[o].copy = req[o].copy
  PROVE  EditsInv'
<1>1. \A o, d : AtWrite(req[o], d)' <=> AtWrite(req'[o], d)
  BY DEF AtWrite, ProgramOf
<1>2. \A o : Holds(req[o])' <=> Holds(req'[o])
  BY DEF Holds
<1>3. UNCHANGED <<file, writers, saved>> /\ Bad' = Bad
  BY DEF fileVars, Bad
<1> QED BY <1>1, <1>2, <1>3 DEF EditsInv

\* Whoever is about to write, or has read for a toggle, is seen by the others.
LEMMA MidwayHas ==
  ASSUME NEW r \in Requests, NEW o \in Requests, o # r, ThreadLogs(req[o]), NEW d \in Documents,
         AtWrite(req[o], d) \/ (d = "trigger" /\ Holds(req[o]))
  PROVE  o \in Midway(r, d)
<1> DEFINE p == ProgramOf(req[o])
           k == req[o].pc
           route == req[o].in.route
<1>1. req[o].phase = "handle" /\ route \in PostRoutes /\ k \in 1..Len(p)
  BY DEF AtWrite, Holds, ThreadLogs
<1>2. Writes(route, p) /\ Program(o) = p /\ Doc(o) = Document(route)
  BY <1>1, ProgramsWrite DEF ProgramOf, Program, Doc, In
<1> HIDE DEF p
<1>3. Document(route) = d /\ p[Len(p)] = "write" /\ k >= 3
  <2>1. CASE AtWrite(req[o], d)
    BY <1>1, <1>2, <2>1 DEF Writes, AtWrite, p
  <2>2. CASE d = "trigger" /\ Holds(req[o])
    BY <1>1, <1>2, <2>2 DEF Writes, Holds
  <2> QED BY <2>1, <2>2
<1> QED BY <1>1, <1>2, <1>3 DEF Midway

\* One document is replaced or removed, by a thread that is done with it.
LEMMA Replaced ==
  ASSUME EditsInv, NEW r \in Requests, NEW d \in Documents,
         \A o \in Requests : ThreadLogs(req[o]) /\ (o # r => req'[o] = req[o]),
         \A e \in Documents : ~AtWrite(req'[r], e) /\ (AtWrite(req[r], e) => e = d),
         ~Holds(req'[r]),
         writers' \in [Documents -> SUBSET Requests], Bad \subseteq Bad',
         writers'[d] \subseteq writers[d] \ {r},
         \A e \in Documents \ {d} : file'[e] = file[e] /\ writers'[e] = writers[e],
         d # "trigger" => saved' = saved,
         d \notin Bad' => /\ Midway(r, d) = {} /\ file'[d].state \in {"whole", "absent"}
                          /\ d = "trigger" /\ file'[d].state = "whole" => file'[d].text = saved'
  PROVE  EditsInv'
<1>1. \A o, e : (AtWrite(req[o], e)' <=> AtWrite(req'[o], e)) /\ (Holds(req[o])' <=> Holds(req'[o]))
  BY DEF AtWrite, ProgramOf, Holds
<1>2. ASSUME d \notin Bad', NEW o \in Requests
      PROVE  ~AtWrite(req'[o], d) /\ (d = "trigger" => ~Holds(req'[o]))
  <2>1. CASE o = r
    BY <2>1
  <2>2. CASE o # r
    <3>1. o \notin Midway(r, d)
      BY <1>2
    <3>2. ~(AtWrite(req[o], d) \/ (d = "trigger" /\ Holds(req[o])))
      BY <2>2, <3>1, MidwayHas
    <3> QED BY <2>2, <3>2
  <2> QED BY <2>1, <2>2
<1>3. \A e \in Documents : \A o \in writers'[e] : AtWrite(req'[o], e)
  BY DEF EditsInv
<1>4. \A e \in Documents \ Bad' :
         /\ \A o \in Requests : AtWrite(req'[o], e) => o \in writers'[e]
         /\ file'[e].state # "garbled" /\ (file'[e].state = "empty" <=> writers'[e] # {})
  <2> SUFFICES ASSUME NEW e \in Documents \ Bad'
               PROVE  /\ \A o \in Requests : AtWrite(req'[o], e) => o \in writers'[e]
                      /\ file'[e].state # "garbled" /\ (file'[e].state = "empty" <=> writers'[e] # {})
    OBVIOUS
  <2>1. CASE e = d
    <3>1. writers'[d] = {}
      BY <1>2, <1>3, <2>1
    <3>2. file'[d].state \in {"whole", "absent"}
      BY <2>1
    <3> QED BY <1>2, <2>1, <3>1, <3>2
  <2>2. CASE e # d
    BY <2>2 DEF EditsInv
  <2> QED BY <2>1, <2>2
<1>5. ASSUME "trigger" \notin Bad'
      PROVE  /\ file'["trigger"].state = "whole" => file'["trigger"].text = saved'
             /\ \A o \in Requests : Holds(req'[o]) => req'[o].copy.state = "whole" /\ req'[o].copy.text = saved'
  <2>1. CASE d = "trigger"
    BY <1>2, <1>5, <2>1
  <2>2. CASE d # "trigger"
    <3>1. "trigger" \in Documents \ {d}
      BY <2>2 DEF Documents
    <3> QED BY <1>5, <2>2, <3>1 DEF EditsInv
  <2> QED BY <2>1, <2>2
<1> QED BY <1>1, <1>3, <1>4, <1>5 DEF EditsInv

LEMMA EditsStep == TypeInv /\ RightInv /\ LogInv /\ EditsInv /\ [Next]_vars => EditsInv'
<1> SUFFICES ASSUME TypeInv, TypeInv', RightInv, LogInv, EditsInv, [Next]_vars PROVE EditsInv'
  BY TypeStep
<1>0. /\ req \in [Requests -> ThreadType] /\ file \in [Documents -> Content]
      /\ \A r \in Requests : ThreadLogs(req[r]) /\ ThreadRight(req[r])
  BY DEF TypeInv, LogInv, RightInv
<1>1. ASSUME NEW r \in Requests, UNCHANGED fileVars, \A o \in Requests : o # r => req'[o] = req[o],
             \A d \in Documents : ~AtWrite(req[r], d) /\ ~AtWrite(req'[r], d),
             ~Holds(req'[r])
      PROVE  EditsInv'
  BY <1>1, EditsKept
<1> USE DEF authVars, issuerVars, resources, limitVars
\* Who is not in a handler, or enters one, writes nothing.
<1>2. ASSUME NEW r \in Requests, UNCHANGED fileVars, \A o \in Requests : o # r => req'[o] = req[o],
             req[r].phase # "handle",
             req'[r].phase = "handle" => req'[r].pc = 1 /\ req'[r].in.route \in PostRoutes
      PROVE  EditsInv'
  <2>1. CASE req'[r].phase = "handle"
    <3> DEFINE p == ProgramOf(req'[r])
    <3>1. Writes(req'[r].in.route, p) /\ WellBuilt(req'[r].in.route, p)
      BY <1>2, <2>1, ProgramsWrite, ProgramsWellBuilt DEF ProgramOf
    <3> HIDE DEF p
    <3>2. 1 \in 1..Len(p) /\ ~(1 >= 3)
      <4>1. Len(p) \in 1..4
        BY <3>1 DEF WellBuilt
      <4> QED BY <4>1
    <3>3. p[1] # "write"
      BY <3>1, <3>2 DEF Writes
    <3> QED BY <1>1, <1>2, <2>1, <3>2, <3>3 DEF AtWrite, Holds, p
  <2>2. CASE req'[r].phase # "handle"
    BY <1>1, <1>2, <2>2 DEF AtWrite, Holds
  <2> QED BY <2>1, <2>2
<1>3. ASSUME NEW r \in Requests, Arrive(r) PROVE EditsInv'
  <2>1. /\ \A o \in Requests : o # r => req'[o] = req[o] /\ UNCHANGED fileVars
        /\ req'[r].phase \in {"done", "dispatch", "client"}
    BY <1>3, ArriveIs DEF JustArrived
  <2>2. UNCHANGED fileVars
    BY <1>3 DEF Arrive
  <2>3. req[r].phase # "handle"
    BY <1>3 DEF Arrive, Busy
  <2> QED BY <1>2, <2>1, <2>2, <2>3
<1>4. ASSUME NEW r \in Requests, Gate(r) PROVE EditsInv'
  <2>1. UNCHANGED fileVars /\ Moves(r) /\ req[r].phase # "handle"
    BY <1>4, GateIs
  <2>2. ASSUME req'[r].phase = "handle" PROVE req'[r].pc = 1 /\ req'[r].in.route \in PostRoutes
    <3>1. req[r].pc = 1
      BY <1>0, <1>4, GateIs DEF ThreadLogs
    <3> QED BY <1>4, <2>1, <2>2, <3>1, GateIs, GatePosts DEF Moves
  <2> QED BY <1>2, <2>1, <2>2 DEF Moves
<1>5. ASSUME NEW r \in Requests, Lock(r) \/ Insert(r) \/ InsertFails(r) PROVE EditsInv'
  <2>1. UNCHANGED fileVars /\ req[r].phase \in {"lock", "insert"}
    BY <1>5 DEF Lock, Insert, InsertFails
  <2>2. Moves(r) /\ req'[r].phase # "handle"
    <3>1. CASE Lock(r)
      <4> DEFINE p == IF scenario.signing THEN LastEvent ELSE 0
      <4>1. Moves(r) /\ req'[r] = [req[r] EXCEPT !.prev = p, !.phase = "insert"]
        BY <3>1, LockIs
      <4> HIDE DEF p
      <4>2. req[r] \in ThreadType
        BY <1>0
      <4>3. req'[r].phase = "insert"
        BY <4>1, <4>2 DEF ThreadType
      <4> QED BY <4>1, <4>3
    <3>2. CASE Insert(r) \/ InsertFails(r)
      BY <3>2, InsertIs
    <3> QED BY <1>5, <3>1, <3>2
  <2> QED BY <1>2, <2>1, <2>2 DEF Moves
<1>6. ASSUME NEW r \in Requests, Operation(r) PROVE EditsInv'
  <2> DEFINE route == req[r].in.route
             p == ProgramOf(req[r])
             k == req[r].pc
             d == Document(route)
  <2>1. /\ req[r].phase = "handle" /\ Moves(r) /\ req'[r].in = req[r].in
        /\ \A o \in Requests : o # r => req'[o] = req[o]
    BY <1>6, OperationIs DEF Works, Moves
  <2>2. /\ Writes(route, p) /\ WellBuilt(route, p) /\ route \in PostRoutes
        /\ k \in 1..Len(p) /\ Len(p) \in 1..4
    <3>1. route \in PostRoutes /\ k \in 1..Len(p)
      BY <1>0, <2>1 DEF ThreadLogs
    <3> QED BY <3>1, ProgramsWrite, ProgramsWellBuilt DEF ProgramOf, WellBuilt
  <2>3. d \in Documents /\ Doc(r) = d
    BY DEF Doc, Document, Documents, In
  <2>4. Op(r) = p[k] /\ ProgramOf(req'[r]) = p
    BY <2>1 DEF Op, ProgramOf
  <2>5. \A e \in Documents : AtWrite(req[r], e) <=> (d = e /\ p[k] = "write")
    BY <2>1 DEF AtWrite
  <2>6. \A e \in Documents : AtWrite(req'[r], e) <=> (req'[r].phase = "handle" /\ d = e /\ p[req'[r].pc] = "write")
    BY <2>1, <2>4 DEF AtWrite
  <2>7. Holds(req'[r]) <=> req'[r].phase = "handle" /\ route = "trigger_toggle" /\ req'[r].pc >= 3
    BY <2>1 DEF Holds
  <2>8. (p[k] = "open" => k + 1 \in 1..Len(p)) /\ (k # Len(p) => k < Len(p) /\ k + 1 \in 1..Len(p))
    BY <2>2 DEF Writes
  <2> HIDE DEF p, k, d, route
  \* What neither opens nor writes nor reads for a toggle.
  <2>9. ASSUME UNCHANGED fileVars, Goes(r), p[k] \notin {"open", "write", "read"} \/ (p[k] = "read" /\ route # "trigger_toggle")
        PROVE  EditsInv'
    <3>1. /\ req'[r].pc = k + 1
          /\ req'[r].phase = "handle" => k # Len(p)
      BY <2>2, <2>4, <2>9 DEF Goes, WellBuilt, p, k
    <3>2. k # Len(p) => p[k + 1] # "write"
      BY <2>2, <2>8, <2>9 DEF Writes
    <3>3. route = "trigger_toggle" => ~(k + 1 >= 3)
      BY <2>2, <2>9 DEF Writes
    <3> QED BY <1>1, <2>1, <2>5, <2>6, <2>7, <2>9, <3>1, <3>2, <3>3
  <2>10. ASSUME UNCHANGED fileVars, req'[r].phase # "handle", p[k] # "write" PROVE EditsInv'
    BY <1>1, <2>1, <2>5, <2>6, <2>7, <2>10
  <2>11. ASSUME UNCHANGED fileVars, p[k] \notin {"open", "write", "read"} PROVE EditsInv'
    BY <1>6, <2>9, <2>10, <2>11, OperationDoes DEF FailsAt, Breaks
  <2>12. CASE Read(r)
    <3>1. UNCHANGED fileVars /\ p[k] = "read"
      BY <2>4, <2>12 DEF Read, AtOp, Op, Program, ProgramOf, In, resources
    <3>2. CASE FailsAt(r) \/ Breaks(r) \/ (Goes(r) /\ route # "trigger_toggle")
      BY <2>9, <2>10, <3>1, <3>2 DEF FailsAt, Breaks
    <3>3. CASE Goes(r) /\ route = "trigger_toggle"
      <4>1. d = "trigger" /\ k # Len(p) /\ p[k + 1] # "write"
        BY <2>2, <2>8, <3>1, <3>3 DEF Writes, WellBuilt, d
      <4>2. req'[r].pc = k + 1
        BY <3>3 DEF Goes, k
      <4>3. \A e \in Documents : ~AtWrite(req[r], e) /\ ~AtWrite(req'[r], e)
        BY <2>5, <2>6, <3>1, <4>1, <4>2
      <4>4. req'[r].copy = file["trigger"] /\ file["trigger"].state \in {"whole", "garbled"}
        <5>1. ~(Fails(r, FALSE) \/ Raises(r))
          <6>1. Fails(r, FALSE) => FailsAt(r)
            BY <2>4, <3>1, FailsThere DEF Failing
          <6>2. Raises(r) => Breaks(r)
            BY RaisesIs
          <6>3. req'[r].phase = "handle"
            BY <3>1, <2>4, <3>3 DEF Goes
          <6> QED BY <6>1, <6>2, <6>3 DEF FailsAt, Breaks
        <5> DEFINE f == file[Doc(r)]
                   n == req[r].pc + 1
        <5>2. f.state \in {"whole", "garbled"} /\ req' = [req EXCEPT ![r] = [req[r] EXCEPT !.copy = f, !.pc = n]]
          BY <2>12, <5>1 DEF Read
        <5>3. f = file["trigger"]
          BY <2>3, <4>1
        <5> HIDE DEF f, n
        <5>4. req[r] \in ThreadType /\ req'[r] = [req[r] EXCEPT !.copy = f, !.pc = n]
          BY <1>0, <5>2
        <5>5. req'[r].copy = f
          BY <5>4 DEF ThreadType
        <5> QED BY <5>2, <5>3, <5>5
      <4>5. "trigger" \notin Bad => req'[r].copy.state = "whole" /\ req'[r].copy.text = saved
        <5>1. "trigger" \in Documents
          BY DEF Documents
        <5> QED BY <4>4, <5>1 DEF EditsInv
      <4>6. \A o, e : (AtWrite(req[o], e)' <=> AtWrite(req'[o], e)) /\ (Holds(req[o])' <=> Holds(req'[o]))
        BY DEF AtWrite, ProgramOf, Holds
      <4>7. UNCHANGED <<file, writers, saved>> /\ Bad' = Bad
        BY <3>1 DEF fileVars, Bad
      <4> QED BY <2>1, <4>3, <4>5, <4>6, <4>7 DEF EditsInv
    <3> QED BY <1>6, <3>2, <3>3, OperationDoes
  <2>13. CASE Open(r)
    <3>1. p[k] = "open"
      BY <2>4, <2>13 DEF Open, AtOp, Op, Program, ProgramOf, In
    <3>2. CASE Fails(r, FALSE) /\ UNCHANGED fileVars
      <4>1. FailsAt(r)
        BY <2>4, <3>1, <3>2, FailsThere DEF Failing
      <4> QED BY <2>10, <3>1, <3>2, <4>1 DEF FailsAt
    <3>3. CASE /\ file' = [file EXCEPT ![d] = Empty] /\ writers' = [writers EXCEPT ![d] = @ \cup {r}]
               /\ Proceed(r, TRUE) /\ UNCHANGED <<saved, raced, spoilt>>
      <4>1. Goes(r)
        BY <2>4, <3>1, <3>3, GoesOn DEF Changing
      <4>2. k # Len(p) /\ p[k + 1] = "write" /\ (route = "trigger_toggle" => k >= 3)
        BY <2>2, <3>1 DEF Writes
      <4>3. req'[r].pc = k + 1 /\ req'[r].phase = "handle" /\ req'[r].copy = req[r].copy
        BY <2>4, <3>1, <4>1, <4>2 DEF Goes, k, p
      <4>4. \A e \in Documents : ~AtWrite(req[r], e) /\ (AtWrite(req'[r], e) <=> e = d)
        BY <2>5, <2>6, <3>1, <4>2, <4>3
      <4>5. Holds(req'[r]) => Holds(req[r])
        BY <2>1, <2>7, <4>2 DEF Holds, route, k
      <4>6. \A o, e : (AtWrite(req[o], e)' <=> AtWrite(req'[o], e)) /\ (Holds(req[o])' <=> Holds(req'[o]))
        BY DEF AtWrite, ProgramOf, Holds
      <4>7. UNCHANGED saved /\ Bad' = Bad
        BY <3>3 DEF Bad
      <4>8. /\ file'[d].state = "empty" /\ r \in writers'[d] /\ writers' \in [Documents -> SUBSET Requests]
            /\ writers'[d] = writers[d] \cup {r}
            /\ \A e \in Documents \ {d} : file'[e] = file[e] /\ writers'[e] = writers[e]
        BY <1>0, <2>3, <3>3 DEF EditsInv, Empty, Absent
      <4>9. \A e \in Documents : \A o \in writers'[e] : AtWrite(req'[o], e)
        BY <2>1, <4>4, <4>8 DEF EditsInv
      <4>10. \A e \in Documents \ Bad :
               /\ \A o \in Requests : AtWrite(req'[o], e) => o \in writers'[e]
               /\ file'[e].state # "garbled" /\ (file'[e].state = "empty" <=> writers'[e] # {})
        <5> SUFFICES ASSUME NEW e \in Documents \ Bad
                     PROVE  /\ \A o \in Requests : AtWrite(req'[o], e) => o \in writers'[e]
                            /\ file'[e].state # "garbled" /\ (file'[e].state = "empty" <=> writers'[e] # {})
          OBVIOUS
        <5>1. CASE e = d
          BY <2>1, <4>4, <4>8, <5>1 DEF EditsInv
        <5>2. CASE e # d
          BY <2>1, <4>4, <4>8, <5>2 DEF EditsInv
        <5> QED BY <5>1, <5>2
      <4>11. ASSUME "trigger" \notin Bad
             PROVE  /\ file'["trigger"].state = "whole" => file'["trigger"].text = saved
                    /\ \A o \in Requests : Holds(req'[o]) => req'[o].copy.state = "whole" /\ req'[o].copy.text = saved
        <5>1. file'["trigger"].state = "whole" => file'["trigger"] = file["trigger"]
          <6>1. "trigger" \in Documents
            BY DEF Documents
          <6> QED BY <4>8, <6>1
        <5> QED BY <2>1, <4>3, <4>5, <4>11, <5>1 DEF EditsInv
      <4> QED BY <4>6, <4>7, <4>8, <4>9, <4>10, <4>11 DEF EditsInv
    <3> QED BY <2>3, <2>13, <3>2, <3>3 DEF Open, fileVars
  <2>14. CASE Write(r)
    <3>1. p[k] = "write" /\ k = Len(p)
      <4>1. p[k] = "write"
        BY <2>4, <2>14 DEF Write, AtOp, Op, Program, ProgramOf, In
      <4> QED BY <2>2, <4>1 DEF Writes
    <3>2. /\ Document(route) = "trigger" => route \in {"trigger_save", "trigger_toggle"}
          /\ k >= 3
      BY <2>2, <3>1 DEF Writes
    <3>3. req'[r].phase # "handle"
      <4>1. ~Breaks(r)
        <5>1. Proceed(r, TRUE) \/ Fails(r, TRUE)
          BY <2>14 DEF Write
        <5>2. Proceed(r, TRUE) => req'[r].phase # "done"
          <6>1. Proceed(r, TRUE) => Goes(r)
            BY <2>4, <3>1, GoesOn DEF Changing
          <6> QED BY <6>1 DEF Goes
        <5>3. Fails(r, TRUE) => req'[r].phase = "lock"
          <6> SUFFICES ASSUME Fails(r, TRUE) PROVE req'[r].phase = "lock"
            OBVIOUS
          <6> DEFINE c == req[r].changed \/ TRUE
          <6>1. req[r] \in ThreadType /\ req'[r] = [req[r] EXCEPT !.changed = c, !.ok = FALSE, !.phase = "lock"]
            BY <1>0, FailsIs
          <6> HIDE DEF c
          <6> QED BY <6>1 DEF ThreadType
        <5> QED BY <5>1, <5>2, <5>3 DEF Breaks
      <4>2. Goes(r) => req'[r].phase = "lock"
        BY <2>4, <3>1 DEF Goes, p, k
      <4> QED BY <1>6, <4>1, <4>2, OperationDoes DEF FailsAt
    <3>4. \A e \in Documents : ~AtWrite(req'[r], e) /\ (AtWrite(req[r], e) <=> e = d)
      BY <2>5, <2>6, <3>1, <3>3
    <3>5. ~Holds(req'[r])
      BY <2>7, <3>3
    <3>6. /\ writers' = [writers EXCEPT ![d] = @ \ {r}]
          /\ raced' = IF Midway(r, d) = {} THEN raced ELSE raced \cup {d}
          /\ \/ /\ file' = [file EXCEPT ![d] = IF r \in writers[d] THEN Written(r) ELSE @]
                /\ saved' = IF route = "trigger_save" THEN req[r].n ELSE saved
                /\ UNCHANGED spoilt
             \/ /\ r \in writers[d] /\ file[d].state # "empty"
                /\ file' = [file EXCEPT ![d].state = "garbled"] /\ UNCHANGED <<saved, spoilt>>
             \/ spoilt' = spoilt \cup {d} /\ UNCHANGED <<file, saved>>
      BY <2>3, <2>14 DEF Write, In, route
    <3>7. /\ writers' \in [Documents -> SUBSET Requests] /\ writers'[d] = writers[d] \ {r}
          /\ \A e \in Documents \ {d} : file'[e] = file[e] /\ writers'[e] = writers[e]
          /\ Bad \subseteq Bad'
      <4>1. /\ writers' \in [Documents -> SUBSET Requests] /\ writers'[d] = writers[d] \ {r}
            /\ \A e \in Documents \ {d} : writers'[e] = writers[e]
        BY <2>3, <3>6 DEF EditsInv
      <4>2. \A e \in Documents \ {d} : file'[e] = file[e]
        BY <1>0, <3>6
      <4>3. raced \subseteq raced' /\ spoilt \subseteq spoilt'
        BY <3>6
      <4> QED BY <4>1, <4>2, <4>3 DEF Bad
    <3>8. d # "trigger" => saved' = saved
      BY <3>6 DEF d, Document
    <3>9. ASSUME d \notin Bad'
          PROVE  /\ Midway(r, d) = {} /\ file'[d].state \in {"whole", "absent"}
                 /\ d = "trigger" /\ file'[d].state = "whole" => file'[d].text = saved'
      <4>1. Midway(r, d) = {} /\ d \notin Bad /\ d \notin spoilt'
        BY <3>6, <3>7, <3>9 DEF Bad
      <4>2. r \in writers[d] /\ file[d].state = "empty"
        BY <2>3, <3>4, <4>1 DEF EditsInv
      <4>3. file'[d] = Written(r) /\ saved' = IF route = "trigger_save" THEN req[r].n ELSE saved
        BY <1>0, <2>3, <3>6, <4>1, <4>2
      <4>4. CASE route = "trigger_toggle"
        <5>1. d = "trigger" /\ Holds(req[r])
          BY <2>1, <3>2, <4>4 DEF Holds, d, Document, route, k
        <5>2. req[r].copy.state = "whole" /\ req[r].copy.text = saved /\ req[r].copy \in Content
          <6>1. req[r] \in ThreadType
            BY <1>0
          <6> QED BY <4>1, <5>1, <6>1 DEF EditsInv, ThreadType
        <5>3. Written(r) = [req[r].copy EXCEPT !.enabled = FALSE]
          BY <4>4 DEF Written, In, route
        <5> QED BY <4>1, <4>3, <4>4, <5>2, <5>3 DEF Content
      <4>5. CASE route # "trigger_toggle"
        <5>1. Written(r) = Whole(req[r].n, TRUE)
          BY <4>5 DEF Written, In, route
        <5>2. Written(r).state = "whole" /\ Written(r).text = req[r].n
          BY <5>1 DEF Whole
        <5>3. d = "trigger" => route = "trigger_save"
          BY <3>2, <4>5 DEF d
        <5> QED BY <4>1, <4>3, <5>2, <5>3
      <4> QED BY <4>4, <4>5
    <3>10. d \in Documents /\ \A o \in Requests : ThreadLogs(req[o])
      BY <1>0, <2>3
    <3> QED BY <2>1, <3>4, <3>5, <3>7, <3>8, <3>9, <3>10, Replaced
  <2>15. CASE Unlink(r)
    <3>1. p[k] = "unlink"
      BY <2>4, <2>15 DEF Unlink, AtOp, Op, Program, ProgramOf, In
    <3>2. route # "trigger_toggle"
      BY <2>2, <3>1 DEF Writes
    <3>3. CASE Raises(r) /\ UNCHANGED fileVars
      <4>1. req'[r].phase # "handle"
        BY <3>3, RaisesIs DEF Breaks
      <4> QED BY <2>10, <3>1, <3>3, <4>1
    <3>4. CASE /\ file' = [file EXCEPT ![d] = Absent] /\ writers' = [writers EXCEPT ![d] = {}]
               /\ raced' = (IF Midway(r, d) = {} THEN raced ELSE raced \cup {d})
               /\ Proceed(r, TRUE) /\ UNCHANGED <<saved, spoilt>>
      <4>1. Goes(r)
        BY <2>4, <3>1, <3>4, GoesOn DEF Changing
      <4>2. req'[r].pc = k + 1 /\ (req'[r].phase = "handle" => k # Len(p) /\ p[k + 1] # "write")
        BY <2>2, <2>4, <2>8, <3>1, <4>1 DEF Goes, Writes, k, p
      <4>3. \A e \in Documents : ~AtWrite(req'[r], e) /\ ~AtWrite(req[r], e)
        BY <2>5, <2>6, <3>1, <4>2
      <4>4. ~Holds(req'[r])
        BY <2>7, <3>2
      <4>5. /\ writers' \in [Documents -> SUBSET Requests] /\ writers'[d] = {}
            /\ \A e \in Documents \ {d} : file'[e] = file[e] /\ writers'[e] = writers[e]
            /\ file'[d] = Absent /\ Absent.state = "absent"
        BY <1>0, <2>3, <3>4 DEF EditsInv, Absent
      <4>6. Bad \subseteq Bad' /\ (d \notin Bad' => Midway(r, d) = {}) /\ saved' = saved
        BY <3>4 DEF Bad
      <4>7. d \in Documents /\ \A o \in Requests : ThreadLogs(req[o])
        BY <1>0, <2>3
      <4> QED BY <2>1, <4>3, <4>4, <4>5, <4>6, <4>7, Replaced
    <3> QED BY <2>3, <2>15, <3>3, <3>4 DEF Unlink
  <2>16. CASE UNCHANGED fileVars /\ p[k] \notin {"open", "write", "read"}
    BY <2>11, <2>16
  <2>17. Read(r) \/ Open(r) \/ Write(r) \/ Unlink(r) \/ (UNCHANGED fileVars /\ p[k] \notin {"open", "write", "read"})
    BY <1>6, <2>4 DEF Operation, Valid, Remove, ReadMetadata, Enqueue, Ensure, Upload, Start, Stop, Retry, Clear,
         Find, AtOp, Op, Program, ProgramOf, In, resources
  <2> QED BY <2>12, <2>13, <2>14, <2>15, <2>16, <2>17
<1>7. CASE Rotate
  <2>1. UNCHANGED fileVars
    BY <1>7 DEF Rotate
  <2>2. ASSUME NEW o \in Requests
        PROVE  /\ \A d \in Documents : AtWrite(req'[o], d) <=> AtWrite(req[o], d)
               /\ Holds(req'[o]) => Holds(req[o]) /\ req'[o].copy = req[o].copy
    <3>1. req[o] \in ThreadType /\ req'[o] = [req[o] EXCEPT !.due = FALSE]
      BY <1>0, <1>7, RotateIs
    <3>2. /\ req'[o].phase = req[o].phase /\ req'[o].in = req[o].in /\ req'[o].pc = req[o].pc
          /\ req'[o].copy = req[o].copy
      BY <3>1 DEF ThreadType
    <3> QED BY <3>2 DEF AtWrite, Holds, ProgramOf
  <2> QED BY <2>1, <2>2, EditsKept
<1>8. CASE Tick \/ WorkerEnds \/ UNCHANGED vars
  <2>1. UNCHANGED fileVars /\ req' = req
    BY <1>8 DEF Tick, WorkerEnds, vars, elsewhere
  <2> QED BY <2>1, EditsKept
<1> QED BY <1>3, <1>4, <1>5, <1>6, <1>7, <1>8 DEF Next, Gate

\* Whatever requests overlap or break off, the documents are whole and what was
\* saved stays, unless two wrote one at once or a write failed.
THEOREM SavedTextStays == Spec => []EditsSurvive
<1>1. Init => TypeInv /\ RightInv /\ LogInv /\ EditsInv
  <2> SUFFICES ASSUME Init PROVE EditsInv
    BY LogInit
  <2>1. \A r \in Requests : req[r].phase = "idle"
    BY DEF Init, NoThread
  <2>2. \A d \in Documents : file[d] = Whole(0, TRUE) /\ writers[d] = {}
    BY DEF Init
  <2>3. Whole(0, TRUE).state = "whole" /\ Whole(0, TRUE).text = 0 /\ "trigger" \in Documents
    BY DEF Whole, Documents
  <2> QED BY <2>1, <2>2, <2>3 DEF Init, EditsInv, AtWrite, Holds
<1>2. EditsInv => EditsSurvive
  <2> SUFFICES ASSUME EditsInv PROVE EditsSurvive
    OBVIOUS
  <2>1. DocumentsAreWhole
    BY DEF EditsInv, DocumentsAreWhole, AtWrite, Bad
  <2> QED BY <2>1 DEF EditsInv, EditsSurvive, Bad
<1> QED BY <1>1, <1>2, TypeStep, RightStep, LogStep, EditsStep, PTL DEF Spec
=============================================================================
