---------------------------- MODULE MCWebServer ----------------------------
(***************************************************************************)
(* Six scenarios: every route, role and defect of a request, one at a      *)
(* time; the trigger document, the queue and the worker under overlapping  *)
(* requests that fail; the signed log of one and of two processes; the     *)
(* rate limiter; and the keys of the issuer.                               *)
(***************************************************************************)
EXTENDS WebServer, TLC

Alone == [servers |-> {"first"}, oidc |-> "off", secret |-> FALSE, signing |-> FALSE,
          routes |-> {"page"}, inputs |-> {"good"}, flaws |-> {"none"}, tokens |-> {NoToken},
          ips |-> {"a"}, requests |-> 2, ticks |-> 0, rotations |-> 0, faults |-> FALSE, atOnce |-> 1]
Token(role, ver) == [role |-> role, ver |-> ver]

Gates == {[Alone EXCEPT !.oidc = "on", !.secret = secret, !.routes = Routes, !.inputs = Inputs, !.flaws = Flaws,
               !.tokens = {NoToken} \cup {Token(role, 1) : role \in DOMAIN PERMISSIONS \cup {"none"}},
               !.requests = 1] :
            secret \in BOOLEAN}
         \cup {[Alone EXCEPT !.oidc = "incomplete"]}
TriggerDocument ==
    {[Alone EXCEPT !.routes = {"trigger_save", "trigger_toggle", "trigger_delete", "trigger_run"},
                   !.requests = 3, !.atOnce = 2, !.faults = TRUE]}
Queue == {[Alone EXCEPT !.routes = {"delete", "rerun", "ingest_url", "ingest_file", "bulk_retry", "bulk_clear",
                                    "worker_start", "worker_restart", "worker_stop", "webhook", "workflow_delete"},
                        !.atOnce = 2, !.faults = TRUE]}
Logs == {[Alone EXCEPT !.servers = servers, !.routes = {"worker_start"}, !.signing = TRUE,
                       !.requests = 4, !.atOnce = 3] :
           servers \in {{"first"}, {"first", "second"}}}
Rates == {[Alone EXCEPT !.routes = {"webhook"}, !.secret = TRUE, !.flaws = {"unsigned"}, !.ips = Ips,
                        !.requests = 4, !.ticks = 3],
          [Alone EXCEPT !.routes = {"webhook"}, !.secret = TRUE, !.flaws = {"unsigned"}, !.ips = {"a"},
                        !.requests = 4, !.atOnce = 2, !.ticks = 3]}
Keys == LET Rotation == [Alone EXCEPT !.oidc = "on", !.tokens = {Token("viewer", 1), Token("viewer", 2)},
                                      !.rotations = 1, !.faults = TRUE]
        IN  {[Rotation EXCEPT !.requests = 3, !.ticks = 4],
             [Rotation EXCEPT !.atOnce = 2, !.ticks = 3]}

MCScenarios == Gates \cup TriggerDocument \cup Queue \cup Logs \cup Rates \cup Keys
\* Posts from another site, with OIDC off.
Posts == {[Alone EXCEPT !.routes = {"bulk_retry", "webhook"}, !.flaws = {"none", "cross-site", "cross-site-json"}]}

Interchangeable == Permutations(Requests)
=============================================================================
