------------------------------ MODULE WebServer ------------------------------
(***************************************************************************)
(* The web server: a thread for every request, which passes the gates of   *)
(* do_GET and do_POST (size, token, CSRF, rate or permission), executes    *)
(* the handler one file, queue or worker operation at a time, writes an    *)
(* audit event and answers.  Two processes may serve one cache directory.  *)
(*                                                                         *)
(* A handler is a program: the sequence of operations that other threads   *)
(* can come between.  The worker and the life of a job are those of        *)
(* WorkerProcess and JobQueue, reduced to what a handler sees of them.     *)
(***************************************************************************)
EXTENDS Roles, RateLimiter

CONSTANTS Servers,     \* processes that serve
          Requests,    \* threads of theirs
          NoOne,       \* no request
          Ttl,         \* _JWKS_TTL_SECONDS, in ticks of the clock
          Scenarios    \* what the servers are configured to, and what arrives

Inputs == {"good", "invalid", "missing"}
\* "cross-site": Sec-Fetch-Site, Origin or Referer is of another site.
Flaws == {"none", "big", "cross-site", "cross-site-json", "unsigned", "badly-signed"}
Documents == {"workflow", "trigger", "config"}
NoToken == [role |-> "none", ver |-> 0]

\* The operations of each handler of serve/api.py.
Delete       == <<"valid", "remove">>
Rerun        == <<"valid", "metadata", "enqueue">>
IngestUrl    == <<"enqueue", "ensure">>
IngestFile   == <<"upload", "enqueue", "ensure">>
StartWorker  == <<"start">>
StopWorker   == <<"stop">>
RestartWorker == StopWorker \o StartWorker
SaveWorkflow == <<"valid", "open", "write">>
SaveTrigger  == <<"valid", "open", "write">>
SaveConfig   == <<"valid", "open", "write">>
DeleteWorkflow == <<"find", "unlink">>
DeleteTrigger  == <<"find", "unlink">>
\* Mutation: the file is opened for writing before it is read.
SetEnabled_OpenFirst == <<"find", "open", "read", "write">>
SetEnabled   == <<"find", "read", "open", "write">>
RunTrigger   == <<"find", "read", "enqueue", "ensure">>
\* Mutation: the job is queued before the workflow and the source are checked.
RunWorkflow_QueueFirst == <<"enqueue", "find", "read", "valid">>
RunWorkflow  == <<"find", "read", "valid", "enqueue">>
RetryFailed  == <<"retry">>
ClearDead    == <<"clear">>

\* The routes: the inputs a handler refuses before it does or logs anything,
\* and what it does with the others.
SourceRoutes ==
    [delete      |-> [refuses |-> {"missing"}, program |-> Delete],
     rerun       |-> [refuses |-> {"missing"}, program |-> Rerun],
     ingest_url  |-> [refuses |-> {"missing"}, program |-> IngestUrl],
     ingest_file |-> [refuses |-> {"missing"}, program |-> IngestFile]]
WorkerRoutes ==
    [worker_start   |-> [refuses |-> {}, program |-> StartWorker],
     worker_stop    |-> [refuses |-> {}, program |-> StopWorker],
     worker_restart |-> [refuses |-> {}, program |-> RestartWorker]]
WebhookRoutes ==
    [webhook |-> [refuses |-> {}, program |-> RunWorkflow]]
WorkflowRoutes ==
    [workflow_save   |-> [refuses |-> {}, program |-> SaveWorkflow],
     workflow_delete |-> [refuses |-> {"invalid", "missing"}, program |-> DeleteWorkflow]]
TriggerRoutes ==
    [trigger_save   |-> [refuses |-> {}, program |-> SaveTrigger],
     trigger_delete |-> [refuses |-> {"invalid", "missing"}, program |-> DeleteTrigger],
     trigger_toggle |-> [refuses |-> {"invalid", "missing"}, program |-> SetEnabled],
     trigger_run    |-> [refuses |-> {"invalid", "missing"}, program |-> RunTrigger]]
OtherRoutes ==
    [workflow_run |-> [refuses |-> {"invalid", "missing"}, program |-> RunWorkflow],
     config_save  |-> [refuses |-> {}, program |-> SaveConfig],
     bulk_retry   |-> [refuses |-> {}, program |-> RetryFailed],
     bulk_clear   |-> [refuses |-> {}, program |-> ClearDead]]

RouteTables == {SourceRoutes, WorkerRoutes, WebhookRoutes, WorkflowRoutes, TriggerRoutes, OtherRoutes}
PostRoutes == UNION {DOMAIN table : table \in RouteTables}
Handlers == [route \in PostRoutes |-> (CHOOSE table \in RouteTables : route \in DOMAIN table)[route]]

\* What do_POST asks for.  Pages, the job and the audit views are GET routes,
\* and change nothing here.
PostPermission ==
    [delete |-> "jobs.delete", rerun |-> "jobs.retry",
     ingest_url |-> "sources.ingest", ingest_file |-> "sources.ingest",
     worker_start |-> "worker.start", worker_stop |-> "worker.stop",
     worker_restart |-> "worker.restart",
     workflow_save |-> "workflows.create", workflow_delete |-> "workflows.delete",
     trigger_save |-> "triggers.create", trigger_delete |-> "triggers.delete",
     trigger_toggle |-> "triggers.toggle", trigger_run |-> "triggers.run",
     workflow_run |-> "workflows.run", config_save |-> "config.save",
     bulk_retry |-> "jobs.retry", bulk_clear |-> "jobs.clear"]
ViewPermission == [job |-> "jobs.list", audit |-> "audit.read"]
OpenRoutes == {"webhook", "page"}   \* ask for a token, not for a permission
Routes == PostRoutes \cup DOMAIN ViewPermission \cup {"page", "healthz"}

Document(route) == CASE route \in {"workflow_save", "workflow_delete", "workflow_run", "webhook"} -> "workflow"
                     [] route = "config_save" -> "config"
                     [] OTHER -> "trigger"

ASSUME WebAssumption ==
    /\ IsFiniteSet(Servers) /\ NoOne \notin Requests /\ Ttl \in Nat \ {0}
    /\ Scenarios \subseteq [servers: SUBSET Servers, oidc: {"off", "incomplete", "on"},
                           secret: BOOLEAN, signing: BOOLEAN,
                           routes: SUBSET Routes, inputs: SUBSET Inputs, flaws: SUBSET Flaws,
                           tokens: SUBSET [role: DOMAIN PERMISSIONS \cup {"none"}, ver: Nat],
                           ips: SUBSET Ips, requests: Nat, ticks: Nat, rotations: Nat, faults: BOOLEAN, atOnce: Nat]

VARIABLES
    scenario, now,
    req,              \* what each thread is doing
    arrived,          \* how many requests have arrived
    published, withdrawn,   \* version of the issuer's key, time it replaced another
    client,           \* per server: the JWKS client, its key, when it was built
    lim,              \* per server: the rate limiter
    sources, jobs, uploads, worker,  \* what the handlers work on
    file, writers,    \* the documents, and who holds them open for writing
    log, lock,        \* the audit events, per server the lock of its logger
    admitted, latest, exact,  \* history: webhooks let through, per server and
                      \* address; latest clock its limiter has been asked with; the servers
                      \* whose limiter was asked in order and has evicted nobody
    unlogged,         \* history: requests that broke off or whose event failed
    saved, raced, spoilt  \* history: the last text saved; documents written by two
                          \* at once; documents a failed write left empty

issuerVars == <<published, withdrawn>>
authVars == <<issuerVars, client>>
limitVars == <<lim, admitted, latest, exact>>
fileVars == <<file, writers, saved, raced, spoilt>>
resources == <<sources, jobs, uploads, worker, fileVars>>
auditVars == <<log, lock>>
vars == <<scenario, now, req, arrived, authVars, limitVars, resources, auditVars, unlogged>>

Phases == {"idle", "client", "decode", "dispatch", "clock", "limit", "handle", "lock", "insert", "done"}
Statuses == {0, 200, 400, 401, 403, 413, 429, 500}
Content == [text: Nat, enabled: BOOLEAN, state: {"absent", "empty", "garbled", "whole"}]
Absent == [text |-> 0, enabled |-> TRUE, state |-> "absent"]
Empty == [Absent EXCEPT !.state = "empty"]
Whole(n, on) == [text |-> n, enabled |-> on, state |-> "whole"]
NoClient == [gen |-> 0, ver |-> 0, at |-> 0]

Arrivals == [server: scenario.servers, route: scenario.routes, input: scenario.inputs,
             token: scenario.tokens, ip: scenario.ips, flaw: scenario.flaws]

\* A thread: its request, number n; the attempt to validate the token and the
\* client it got; whether the token must be accepted; the clock it has read; the
\* operation it is at; the document it read; the tail of the log; the answer.
Thread(in, n) ==
    [phase |-> "dispatch", in |-> in, n |-> n, attempt |-> 0, client |-> NoClient,
     due |-> in.token.ver = published, clock |-> 0, pc |-> 1, copy |-> Absent, ok |-> TRUE,
     changed |-> FALSE, prev |-> 0, status |-> 0]
NoThread == [phase |-> "idle", in |-> "none", n |-> 0, attempt |-> 0, client |-> NoClient,
             due |-> FALSE, clock |-> 0, pc |-> 1, copy |-> Absent, ok |-> TRUE,
             changed |-> FALSE, prev |-> 0, status |-> 0]

Init ==
    /\ scenario \in Scenarios /\ now = 0
    /\ req = [r \in Requests |-> NoThread] /\ arrived = 0
    /\ published = 1 /\ withdrawn = 0 /\ client = [s \in Servers |-> NoClient]
    /\ lim = [s \in Servers |-> NoAdmissions]
    /\ sources = "metadata" /\ uploads = {} /\ worker = "stopped"
    /\ jobs = {[by |-> 0, status |-> "failed"], [by |-> 0, status |-> "dead_letter"]}
    /\ file = [d \in Documents |-> Whole(0, TRUE)] /\ writers = [d \in Documents |-> {}]
    /\ log = <<>> /\ lock = [s \in Servers |-> NoOne]
    /\ admitted = [s \in Servers |-> [ip \in Ips |-> <<>>]] /\ exact = Servers
    /\ latest = [s \in Servers |-> 0]
    /\ unlogged = {} /\ saved = 0 /\ raced = {} /\ spoilt = {}

-----------------------------------------------------------------------------
\* What the thread of r does next.
Goto(r, phase) == req' = [req EXCEPT ![r].phase = phase]
\* Its scratch state is of no use after the answer; a refusal keeps its clock.
Finished(q, status) ==
    [NoThread EXCEPT !.phase = "done", !.in = q.in, !.n = q.n, !.due = q.due, !.client = q.client,
                     !.changed = q.changed, !.status = status, !.ok = q.ok,
                     !.clock = IF status = 429 THEN q.clock ELSE 0]
Answer(r, status) == req' = [req EXCEPT ![r] = Finished(@, status)]
In(r) == req[r].in
Post(r) == In(r).route \in PostRoutes
Server(r) == In(r).server
Busy == {r \in Requests : req[r].phase \notin {"idle", "done"}}

\* do_GET and do_POST up to _check_auth, which validates a token only when OIDC
\* is required and configured.
Arrive(r) ==
    /\ r \notin Busy /\ arrived < scenario.requests /\ Cardinality(Busy) < scenario.atOnce
    /\ arrived' = arrived + 1
    /\ \E in \in Arrivals :
         req' = [req EXCEPT ![r] =
           LET q == Thread(in, arrived + 1)
           IN  CASE in.route = "healthz" -> Finished(q, 200)
                 [] in.route \in PostRoutes /\ in.flaw = "big" -> Finished(q, 413)
                 [] OTHER -> CASE scenario.oidc = "off"        -> q
                               [] scenario.oidc = "incomplete" -> Finished(q, 500)
                               [] in.token = NoToken           -> Finished(q, 401)
                               [] OTHER -> [q EXCEPT !.phase = "client"]]
    /\ UNCHANGED <<scenario, now, authVars, limitVars, resources, auditVars, unlogged>>

Tick ==
    /\ now < scenario.ticks /\ now' = now + 1
    /\ UNCHANGED <<scenario, req, arrived, authVars, limitVars, resources, auditVars, unlogged>>

\* The issuer replaces its signing key, under the same key id.
Rotate ==
    /\ published <= scenario.rotations
    /\ published' = published + 1 /\ withdrawn' = now
    /\ req' = [r \in Requests |-> [req[r] EXCEPT !.due = FALSE]]
    /\ UNCHANGED <<scenario, now, arrived, client, limitVars, resources, auditVars, unlogged>>

-----------------------------------------------------------------------------
\* serve/auth.py.  A PyJWKClient fetches the keys when it is first asked and
\* keeps them as long as it lives.

\* Mutation: the second attempt takes the client of the first.
Rebuilds_OnlyOld(s, attempt) == client[s].gen = 0 \/ now >= client[s].at + Ttl
\* Mutation: a client is kept until a token fails.
Rebuilds_Never(s, attempt) == client[s].gen = 0 \/ attempt = 1
\* _get_jwks_client, and for the second attempt _refresh_jwks_client.
Rebuilds(s, attempt) == client[s].gen = 0 \/ now >= client[s].at + Ttl \/ attempt = 1

GetClient(r) ==
    /\ req[r].phase = "client"
    /\ LET s == Server(r)
           c == IF Rebuilds(s, req[r].attempt)
                THEN [gen |-> client[s].gen + 1, ver |-> 0, at |-> now] ELSE client[s]
       IN  /\ client' = [client EXCEPT ![s] = c]
           /\ req' = [req EXCEPT ![r].client = c, ![r].clock = now, ![r].phase = "decode"]
    /\ UNCHANGED <<scenario, now, arrived, issuerVars, limitVars, resources, auditVars, unlogged>>

\* The key in the client r holds, which another thread may have fetched.
CachedKey(r) == LET c == client[Server(r)] IN
    IF c.gen = req[r].client.gen THEN c.ver ELSE req[r].client.ver

Rejected(q) == IF q.attempt = 0 THEN [q EXCEPT !.attempt = 1, !.phase = "client"] ELSE Finished(q, 401)

\* get_signing_key_from_jwt and decode.
Decode(r) ==
    /\ req[r].phase = "decode"
    /\ LET s == Server(r)
           key == IF CachedKey(r) = 0 THEN published ELSE CachedKey(r)
           keep == [req[r].client EXCEPT !.ver = key]
       IN  /\ client' = IF client[s].gen = keep.gen THEN [client EXCEPT ![s] = keep] ELSE client
           /\ req' = [req EXCEPT ![r] = IF In(r).token.ver = key
                                       THEN [@ EXCEPT !.client = keep, !.phase = "dispatch"]
                                       ELSE Rejected(@)]
    /\ UNCHANGED <<scenario, now, arrived, issuerVars, limitVars, resources, auditVars, unlogged>>

\* The issuer cannot be reached.
FetchFails(r) ==
    /\ req[r].phase = "decode" /\ scenario.faults /\ CachedKey(r) = 0
    /\ req' = [req EXCEPT ![r] = Rejected([@ EXCEPT !.due = FALSE])]
    /\ UNCHANGED <<scenario, now, arrived, authVars, limitVars, resources, auditVars, unlogged>>

-----------------------------------------------------------------------------
\* Without OIDC everybody is the local administrator.
RolesOf(r) ==
    IF scenario.oidc = "off" THEN {"admin"}
    ELSE ExtractRoles([p \in {"realm_access.roles"} |-> {In(r).token.role}], "realm_access.roles")

\* _csrf_allowed.  A request that asks for JSON is let pass before anyone looks
\* where it comes from.
CrossSite(in) == in.flaw \in {"cross-site", "cross-site-json"}
WantsJson(in) == in.flaw = "cross-site-json"
CsrfAllowed(in) == in.route = "webhook" \/ WantsJson(in) \/ ~CrossSite(in)

\* The rest of do_GET and do_POST.
Dispatch(r) ==
    /\ req[r].phase = "dispatch"
    /\ LET in == In(r)
           permission == IF Post(r) THEN PostPermission[in.route] ELSE ViewPermission[in.route]
       IN  CASE Post(r) /\ ~CsrfAllowed(in) -> Answer(r, 403)
             [] in.route = "webhook" -> IF in.input = "missing" THEN Answer(r, 400) ELSE Goto(r, "clock")
             [] in.route \notin OpenRoutes /\ ~CheckPermission(RolesOf(r), permission) -> Answer(r, 403)
             [] OTHER -> IF ~Post(r) THEN Answer(r, 200)
                         ELSE IF in.input \in Handlers[in.route].refuses THEN Answer(r, 400)
                         ELSE Goto(r, "handle")
    /\ UNCHANGED <<scenario, now, arrived, authVars, limitVars, resources, auditVars, unlogged>>

\* allow() reads the clock before it takes the lock.
ReadClock(r) ==
    /\ req[r].phase = "clock"
    /\ req' = [req EXCEPT ![r].clock = now, ![r].phase = "limit"]
    /\ UNCHANGED <<scenario, now, arrived, authVars, limitVars, resources, auditVars, unlogged>>

\* The signature of a webhook, when a secret is configured.
Signed(r) == IF ~scenario.secret THEN Goto(r, "handle")
             ELSE CASE In(r).flaw = "unsigned"     -> Answer(r, 401)
                    [] In(r).flaw = "badly-signed" -> Answer(r, 403)
                    [] OTHER -> Goto(r, "handle")

Limit(r) ==
    /\ req[r].phase = "limit"
    /\ LET s == Server(r)  ip == In(r).ip  t == req[r].clock IN
         \E answer \in Allow(lim[s], ip, t) :
           /\ lim' = [lim EXCEPT ![s] = answer.lim]
           /\ latest' = [latest EXCEPT ![s] = IF t > @ THEN t ELSE @]
           /\ exact' = IF t < latest[s] \/ answer.evicted # {} THEN exact \ {s} ELSE exact
           /\ IF answer.ok
              THEN /\ admitted' = [admitted EXCEPT ![s][ip] = IF s \in exact' THEN Append(@, t) ELSE @]
                   /\ Signed(r)
              ELSE UNCHANGED admitted /\ Answer(r, 429)
    /\ UNCHANGED <<scenario, now, arrived, authVars, resources, auditVars, unlogged>>

-----------------------------------------------------------------------------
\* The operations of a handler.
Program(r) == Handlers[In(r).route].program
AtOp(r, op) == req[r].phase = "handle" /\ Program(r)[req[r].pc] = op
\* Mutation: the handler answers without an audit event.
Proceed_NoAudit(r, changed) ==
    /\ req' = [req EXCEPT ![r] = IF @.pc < Len(Program(r))
                                THEN [req[r] EXCEPT !.changed = @ \/ changed, !.pc = @ + 1]
                                ELSE Finished([req[r] EXCEPT !.changed = @ \/ changed], 200)]
    /\ UNCHANGED unlogged
Proceed(r, changed) ==
    /\ req' = [req EXCEPT ![r] = [req[r] EXCEPT !.changed = @ \/ changed, !.pc = @ + 1,
                                  !.phase = IF req[r].pc = Len(Program(r)) THEN "lock" ELSE "handle"]]
    /\ UNCHANGED unlogged
\* The handler returns an error, which is logged.
Fails(r, changed) ==
    /\ req' = [req EXCEPT ![r] = [req[r] EXCEPT !.changed = @ \/ changed, !.ok = FALSE, !.phase = "lock"]]
    /\ UNCHANGED unlogged
\* An exception ends the thread of the request: no event, no answer.
Raises(r) == Answer(r, 0) /\ unlogged' = unlogged \cup {req[r].n}

elsewhere == <<scenario, now, arrived, authVars, limitVars, auditVars>>
Doc(r) == Document(In(r).route)

\* The name or content is checked; it concerns nobody else.
Valid(r) ==
    /\ AtOp(r, "valid")
    /\ IF In(r).input = "good" THEN Proceed(r, FALSE) ELSE Fails(r, FALSE)
    /\ UNCHANGED <<elsewhere, resources>>

\* rmtree ignores its errors.
Remove(r) ==
    /\ AtOp(r, "remove")
    /\ \/ sources' = "none"
       \/ scenario.faults /\ UNCHANGED sources
    /\ Proceed(r, sources' # sources)
    /\ UNCHANGED <<elsewhere, jobs, uploads, worker, fileVars>>

ReadMetadata(r) ==
    /\ AtOp(r, "metadata")
    /\ IF sources = "metadata" THEN Proceed(r, FALSE) ELSE Fails(r, FALSE)
    /\ UNCHANGED <<elsewhere, resources>>

Enqueue(r) ==
    /\ AtOp(r, "enqueue")
    /\ \/ jobs' = jobs \cup {[by |-> req[r].n, status |-> "pending"]} /\ Proceed(r, TRUE)
       \/ scenario.faults /\ Raises(r) /\ UNCHANGED jobs
    /\ UNCHANGED <<elsewhere, sources, uploads, worker, fileVars>>

\* ensure_background_worker: that the worker could not be started is ignored.
Ensure(r) ==
    /\ AtOp(r, "ensure")
    /\ \/ worker' = (IF worker = "stopped" THEN "running" ELSE worker) /\ Proceed(r, FALSE)
       \/ scenario.faults /\ worker = "stopped" /\ UNCHANGED worker /\ (Proceed(r, FALSE) \/ Raises(r))
    /\ UNCHANGED <<elsewhere, sources, jobs, uploads, fileVars>>

Upload(r) ==
    /\ AtOp(r, "upload")
    /\ \/ uploads' = uploads \cup {req[r].n} /\ Proceed(r, TRUE)
       \/ scenario.faults /\ Raises(r) /\ UNCHANGED uploads
    /\ UNCHANGED <<elsewhere, sources, jobs, worker, fileVars>>

\* A worker that is about to end still counts as running.
Start(r) ==
    /\ AtOp(r, "start")
    /\ IF worker # "stopped" THEN UNCHANGED worker /\ Proceed(r, FALSE)
       ELSE \/ worker' = "running" /\ Proceed(r, TRUE)
            \/ scenario.faults /\ UNCHANGED worker /\ Fails(r, FALSE)
    /\ UNCHANGED <<elsewhere, sources, jobs, uploads, fileVars>>

\* The signal is sent even when the wait for the end times out.
Stop(r) ==
    /\ AtOp(r, "stop")
    /\ IF worker = "stopped" THEN UNCHANGED worker /\ Proceed(r, FALSE)
       ELSE \/ worker' = "stopped" /\ Proceed(r, TRUE)
            \/ scenario.faults /\ worker' = "stopping" /\ Fails(r, worker = "running")
    /\ UNCHANGED <<elsewhere, sources, jobs, uploads, fileVars>>

WorkerEnds ==
    /\ worker = "stopping" /\ worker' = "stopped"
    /\ UNCHANGED <<elsewhere, req, unlogged, sources, jobs, uploads, fileVars>>

\* retry_failed_jobs and prune_jobs.
Retry(r) ==
    /\ AtOp(r, "retry")
    /\ jobs' = {[j EXCEPT !.status = "pending"] : j \in jobs}
    /\ Proceed(r, jobs' # jobs)
    /\ UNCHANGED <<elsewhere, sources, uploads, worker, fileVars>>

Clear(r) ==
    /\ AtOp(r, "clear")
    /\ jobs' = {j \in jobs : j.status # "dead_letter"}
    /\ Proceed(r, jobs' # jobs)
    /\ UNCHANGED <<elsewhere, sources, uploads, worker, fileVars>>

-----------------------------------------------------------------------------
\* The documents, which write_text truncates and then writes.
Find(r) ==
    /\ AtOp(r, "find")
    /\ IF file[Doc(r)].state = "absent" THEN Fails(r, FALSE) ELSE Proceed(r, FALSE)
    /\ UNCHANGED <<elsewhere, resources>>

\* An empty document is no mapping; a garbled one may or may not be.  That it
\* has gone is an exception only in handle_run_trigger_now.
Read(r) ==
    /\ AtOp(r, "read")
    /\ LET f == file[Doc(r)] IN
         \/ /\ f.state \in {"whole", "garbled"}
            /\ req' = [req EXCEPT ![r] = [req[r] EXCEPT !.copy = f, !.pc = @ + 1]]
            /\ UNCHANGED unlogged
         \/ f.state # "whole" /\ ~(f.state = "absent" /\ In(r).route = "trigger_run") /\ Fails(r, FALSE)
         \/ f.state = "absent" /\ In(r).route = "trigger_run" /\ Raises(r)
    /\ UNCHANGED <<elsewhere, resources>>

Open(r) ==
    /\ AtOp(r, "open")
    /\ LET d == Doc(r) IN
         \/ /\ file' = [file EXCEPT ![d] = Empty]
            /\ writers' = [writers EXCEPT ![d] = @ \cup {r}]
            /\ Proceed(r, TRUE)
         \/ scenario.faults /\ Fails(r, FALSE) /\ UNCHANGED <<file, writers>>
    /\ UNCHANGED <<elsewhere, sources, jobs, uploads, worker, saved, raced, spoilt>>

\* Mutation: the document is rebuilt instead of updated.
Written_Rebuilt(r) == IF In(r).route = "trigger_toggle" THEN Whole(0, FALSE) ELSE Whole(req[r].n, TRUE)
\* What is written: a toggle changes "enabled" in the mapping it has read.
Written(r) == IF In(r).route = "trigger_toggle" THEN [req[r].copy EXCEPT !.enabled = FALSE]
              ELSE Whole(req[r].n, TRUE)

\* Others who have opened the document, or read it in order to write it.
Midway(r, d) == {other \in Requests \ {r} : /\ req[other].phase = "handle" /\ Doc(other) = d
                                           /\ Program(other)[Len(Program(other))] = "write"
                                           /\ req[other].pc >= 3}

\* What two writers leave is the text of the second, or that and the rest of a
\* longer first one.  A document unlinked meanwhile stays so.
Write(r) ==
    /\ AtOp(r, "write")
    /\ LET d == Doc(r) IN
         /\ writers' = [writers EXCEPT ![d] = @ \ {r}]
         /\ raced' = IF Midway(r, d) = {} THEN raced ELSE raced \cup {d}
         /\ \/ /\ file' = [file EXCEPT ![d] = IF r \in writers[d] THEN Written(r) ELSE @]
               /\ saved' = IF In(r).route = "trigger_save" THEN req[r].n ELSE saved
               /\ Proceed(r, TRUE) /\ UNCHANGED spoilt
            \/ /\ r \in writers[d] /\ file[d].state # "empty"
               /\ file' = [file EXCEPT ![d].state = "garbled"]
               /\ Proceed(r, TRUE) /\ UNCHANGED <<saved, spoilt>>
            \/ /\ scenario.faults /\ Fails(r, TRUE) /\ spoilt' = spoilt \cup {d}
               /\ UNCHANGED <<file, saved>>
    /\ UNCHANGED <<elsewhere, sources, jobs, uploads, worker>>

\* unlink raises when somebody else was faster.
Unlink(r) ==
    /\ AtOp(r, "unlink")
    /\ LET d == Doc(r) IN
         IF file[d].state = "absent" THEN Raises(r) /\ UNCHANGED fileVars
         ELSE /\ file' = [file EXCEPT ![d] = Absent] /\ writers' = [writers EXCEPT ![d] = {}]
              /\ raced' = (IF Midway(r, d) = {} THEN raced ELSE raced \cup {d})
              /\ Proceed(r, TRUE) /\ UNCHANGED <<saved, spoilt>>
    /\ UNCHANGED <<elsewhere, sources, jobs, uploads, worker>>

-----------------------------------------------------------------------------
\* AuditLogger.log.  Its lock is that of one process; the events are in a
\* database that all of them write.  Only a signing logger reads the last event.
LastEvent == IF log = <<>> THEN 0 ELSE log[Len(log)].by

\* Mutation: the logger does not wait for its lock.
MayLog_NoLock(r) == TRUE
MayLog(r) == lock[Server(r)] = NoOne

Lock(r) ==
    /\ req[r].phase = "lock" /\ MayLog(r)
    /\ lock' = [lock EXCEPT ![Server(r)] = r]
    /\ req' = [req EXCEPT ![r].prev = IF scenario.signing THEN LastEvent ELSE 0, ![r].phase = "insert"]
    /\ UNCHANGED <<scenario, now, arrived, authVars, limitVars, resources, log, unlogged>>

Event(r) == [by |-> req[r].n, route |-> In(r).route, ok |-> req[r].ok, changed |-> req[r].changed,
             prev |-> req[r].prev]

\* The insert, the commit and the answer.
Insert(r) ==
    /\ req[r].phase = "insert"
    /\ log' = Append(log, Event(r))
    /\ lock' = [lock EXCEPT ![Server(r)] = NoOne]
    /\ Answer(r, IF req[r].ok THEN 200 ELSE 400)
    /\ UNCHANGED <<scenario, now, arrived, authVars, limitVars, resources, unlogged>>

\* _audit swallows every exception of the logger.
InsertFails(r) ==
    /\ req[r].phase = "insert" /\ scenario.faults
    /\ lock' = [lock EXCEPT ![Server(r)] = NoOne]
    /\ Answer(r, IF req[r].ok THEN 200 ELSE 400)
    /\ unlogged' = unlogged \cup {req[r].n}
    /\ UNCHANGED <<scenario, now, arrived, authVars, limitVars, resources, log>>

\* verify_chain: each event is linked to the one before it.
VerifyChain == ~scenario.signing \/ \A i \in DOMAIN log : log[i].prev = IF i = 1 THEN 0 ELSE log[i - 1].by

Operation(r) == Valid(r) \/ Remove(r) \/ ReadMetadata(r) \/ Enqueue(r) \/ Ensure(r) \/ Upload(r) \/ Start(r)
                \/ Stop(r) \/ Retry(r) \/ Clear(r) \/ Find(r) \/ Read(r) \/ Open(r) \/ Write(r) \/ Unlink(r)

Next == \/ \E r \in Requests : \/ Arrive(r) \/ GetClient(r) \/ Decode(r) \/ FetchFails(r) \/ Dispatch(r)
                              \/ ReadClock(r) \/ Limit(r) \/ Operation(r)
                              \/ Lock(r) \/ Insert(r) \/ InsertFails(r)
        \/ Tick \/ Rotate \/ WorkerEnds

Spec == Init /\ [][Next]_vars

-----------------------------------------------------------------------------
Texts == 0..scenario.requests
TypeOK ==
    /\ scenario \in Scenarios /\ now \in 0..scenario.ticks /\ arrived \in Texts
    /\ \A r \in Requests : LET q == req[r] IN
         /\ q.phase \in Phases /\ q.n \in Texts /\ q.status \in Statuses /\ q.attempt \in {0, 1}
         /\ {q.due, q.ok, q.changed} \subseteq BOOLEAN /\ q.clock \in 0..now /\ q.prev \in Texts
         /\ q.copy.text \in Texts
         /\ q.phase = "handle" => q.pc \in DOMAIN Program(r)
    /\ published \in 1..(scenario.rotations + 1) /\ withdrawn \in 0..now
    /\ lim \in [Servers -> Limiters] /\ exact \subseteq Servers
    /\ \A s \in Servers, ip \in Ips : Len(lim[s].stamps[ip]) <= MaxPerMinute
    /\ sources \in {"metadata", "none"} /\ uploads \subseteq Texts
    /\ worker \in {"running", "stopping", "stopped"}
    /\ \A d \in Documents : file[d].text \in Texts /\ file[d].state \in {"absent", "empty", "garbled", "whole"}
    /\ writers \in [Documents -> SUBSET Requests]
    /\ lock \in [Servers -> Requests \cup {NoOne}] /\ unlogged \subseteq Texts

Answered(r) == req[r].phase = "done"

\* The token and the form of a request that may change anything: not too large, nor
\* sent from another site unless it asks for JSON, and by a role that suffices,
\* whatever route it came by - for a webhook any token and the signature, for the
\* configuration the administrator's.
MayChange(in) ==
    /\ in.flaw # "big"
    /\ CrossSite(in) => in.route = "webhook" \/ WantsJson(in)
    /\ in.route = "webhook" /\ scenario.secret => in.flaw \notin {"unsigned", "badly-signed"}
    /\ \/ scenario.oidc = "off"
       \/ in.token.role = "admin"
       \/ in.token.role = "operator" /\ in.route # "config_save"
       \/ in.token # NoToken /\ in.route = "webhook"

\* Who has changed anything had the right to, and was not refused.
OnlyWithRight ==
    \A r \in Requests : req[r].changed =>
        MayChange(In(r)) /\ req[r].status \notin {401, 403, 413, 429, 500}

\* What docs/TUTORIAL.md:1488 says: of all that is posted from another site only a
\* webhook has any effect (_csrf_allowed).
SameOriginOnly ==
    \A r \in Requests : req[r].changed /\ CrossSite(In(r)) => In(r).route = "webhook"

\* Every change is in the log when its request is over, unless the handler broke
\* off after it or the logger failed.
ChangesAreLogged ==
    \A r \in Requests : Answered(r) /\ req[r].changed =>
        req[r].n \in unlogged \/ \E i \in DOMAIN log : log[i].by = req[r].n

\* A failure in the log has changed nothing, except a stop that timed out and a
\* document whose writing failed; and a success of a route that queues a job
\* means that the job was queued.
EntriesAreTrue ==
    \A i \in DOMAIN log : LET e == log[i] IN
        /\ ~e.ok /\ e.changed => \/ e.route \in {"worker_stop", "worker_restart"}
                                \/ Document(e.route) \in spoilt
        /\ e.ok /\ "enqueue" \in {Handlers[e.route].program[k] : k \in DOMAIN Handlers[e.route].program}
             => \E j \in jobs : j.by = e.by

\* The audit log is complete and true.
LogIsTrue == ChangesAreLogged /\ EntriesAreTrue

\* The chain of a signing logger verifies at every moment, unless a second
\* process logs too.
ChainHolds == Cardinality(scenario.servers) <= 1 => VerifyChain

\* A document that somebody may read is whole, unless two have written it at
\* once or a write failed; only while it is written is it empty.
DocumentsAreWhole ==
    \A d \in Documents \ (raced \cup spoilt) :
        file[d].state \in {"garbled", "empty"} =>
            /\ file[d].state = "empty"
            /\ \E r \in writers[d] : req[r].phase = "handle"

\* What was saved stays: documents are whole, and a toggle keeps the text that it
\* finds, unless it overlapped a save or a delete.
EditsSurvive ==
    /\ DocumentsAreWhole
    /\ "trigger" \notin raced \cup spoilt /\ file["trigger"].state = "whole" => file["trigger"].text = saved

InWindow(times, t) == {i \in DOMAIN times : times[i] <= t /\ times[i] + Window > t}

\* No address gets more than its share into any window, and none is refused that
\* has not had it, as long as the threads take the lock in the order in which
\* they read the clock and nobody is evicted.
RateHolds ==
    \A s \in exact :
        /\ \A ip \in Ips : \A i \in DOMAIN admitted[s][ip] :
             Cardinality(InWindow(admitted[s][ip], admitted[s][ip][i])) <= MaxPerMinute
        /\ \A r \in Requests : Answered(r) /\ req[r].status = 429 /\ Server(r) = s =>
             Cardinality(InWindow(admitted[s][In(r).ip], req[r].clock)) >= MaxPerMinute

\* A token signed with the key in force is not rejected, though the server holds
\* an older one, unless the key changed meanwhile or could not be fetched.
CurrentKeyIsAccepted == \A r \in Requests : Answered(r) /\ req[r].status = 401 /\ In(r).flaw = "none" => ~req[r].due

\* A replaced key is honoured no longer than the life of a client.
OldKeyExpires ==
    \A r \in Requests : /\ req[r].phase = "dispatch" /\ scenario.oidc = "on"
                       /\ In(r).token.ver # published
                       => req[r].clock < withdrawn + Ttl

\* Rotation locks nobody out, and lets nobody in for longer than that.
KeysRotate == CurrentKeyIsAccepted /\ OldKeyExpires
=============================================================================
