----------------------------- MODULE DaemonClient -----------------------------
(* The invocations of void-shim-k8s that talk to a running Sandbox, one process *)
(* each: send, cancel, telemetry, endpoint (main.rs, through client.rs and the  *)
(* port-forward) and suspend, resume (kubectl scale).  A process reads the      *)
(* token, resolves an endpoint, asks the daemon for its only run and makes one  *)
(* request about that run.  Each action says what the process does; what the    *)
(* pod answers is a parameter that the composition (ServiceSession) supplies.   *)
EXTENDS SandboxParams

CONSTANTS Senders, Cancellers, Watchers, Openers, Suspenders, Resumers,
          NoRun,
          MaxTries      \* attempts of first_run_id (5 in the code)

Scalers == Suspenders \cup Resumers
Callers == Senders \cup Cancellers \cup Watchers
Clients == Callers \cup Openers \cup Scalers

ASSUME ClientAssumption ==
  /\ MaxTries \in Nat \ {0} /\ NoRun \notin Runs
  /\ Senders \cap Cancellers = {} /\ Senders \cap Watchers = {}
  /\ Cancellers \cap Watchers = {} /\ Callers \cap Openers = {}
  /\ (Callers \cup Openers) \cap Scalers = {} /\ Suspenders \cap Resumers = {}

VARIABLES pc,       \* where the process is
          route,    \* the pod its port-forward is bound to, 0 for the in-cluster name
          tries,    \* attempts of GET /v1/runs that have failed
          seen,     \* the run ids of the answer it got
          source,   \* the pod whose daemon gave that answer, 0 for none
          target,   \* the run id first_run_id returned
          conn,     \* the pod its second request was sent to
          wire,     \* that request: "none", "sent", then the daemon's verdict
          result    \* what the process reported when it ended

clientVars == <<pc, route, tries, seen, source, target, conn, wire, result>>

PCs == {"start", "endpoint", "list", "listed", "request", "sent", "parked", "done"}
\* "unsure": the request's transport failed; "refused": a status that is no success.
Results == {"none", "ok", "usage", "kubectl", "forward", "lookup", "notfound",
            "unsure", "refused", "killed"}

ClientTypeOK ==
  /\ pc \in [Clients -> PCs]
  /\ route \in [Clients -> 0 .. MaxPods]
  /\ tries \in [Clients -> 0 .. MaxTries]
  /\ \A c \in Clients : pc[c] \in {"start", "endpoint", "list", "listed"} => tries[c] < MaxTries
  /\ seen \in [Clients -> SUBSET Runs]
  /\ source \in [Clients -> 0 .. MaxPods]
  /\ target \in [Clients -> Runs \cup {NoRun}]
  /\ conn \in [Clients -> 0 .. MaxPods]
  /\ wire \in [Clients -> {"none", "sent", "accepted", "refused"}]
  /\ result \in [Clients -> Results]

ClientInit ==
  /\ pc = [c \in Clients |-> "start"]
  /\ route = [c \in Clients |-> 0]
  /\ tries = [c \in Clients |-> 0]
  /\ seen = [c \in Clients |-> {}]
  /\ source = [c \in Clients |-> 0]
  /\ target = [c \in Clients |-> NoRun]
  /\ conn = [c \in Clients |-> 0]
  /\ wire = [c \in Clients |-> "none"]
  /\ result = [c \in Clients |-> "none"]

At(c, where) == pc[c] = where
Goto(c, where) == pc' = [pc EXCEPT ![c] = where] /\ UNCHANGED result
End(c, why) == pc' = [pc EXCEPT ![c] = "done"] /\ result' = [result EXCEPT ![c] = why]

-----------------------------------------------------------------------------
(* The command line, the token and the endpoint.                               *)

\* A run_ref that does not parse, or send without a message or with an unreadable file.
BadUsage(c) ==
  /\ At(c, "start") /\ End(c, "usage")
  /\ UNCHANGED <<route, tries, seen, source, target, conn, wire>>

TokenRead(c) ==
  /\ c \in Callers \cup Openers /\ At(c, "start") /\ Goto(c, "endpoint")
  /\ UNCHANGED <<route, tries, seen, source, target, conn, wire>>

\* kubectl get secret fails, or what it prints is not a base64 string.
TokenUnreadable(c) ==
  /\ c \in Callers \cup Openers /\ At(c, "start") /\ End(c, "kubectl")
  /\ UNCHANGED <<route, tries, seen, source, target, conn, wire>>

\* With an endpoint, endpoint prints it, and stays while it owns a port-forward.
Resolved(c, p) ==
  /\ At(c, "endpoint")
  /\ route' = [route EXCEPT ![c] = p]
  /\ \/ c \in Callers /\ Goto(c, "list")
     \/ c \in Openers /\ p # 0 /\ Goto(c, "parked")
     \/ c \in Openers /\ p = 0 /\ End(c, "ok")
  /\ UNCHANGED <<tries, seen, source, target, conn, wire>>

ForwardFails(c) ==
  /\ At(c, "endpoint") /\ End(c, "forward")
  /\ UNCHANGED <<route, tries, seen, source, target, conn, wire>>

-----------------------------------------------------------------------------
(* first_run_id.                                                               *)

\* The daemon of pod p answers GET /v1/runs with this list; the answer is on its way.
ListServed(c, p, list) ==
  /\ At(c, "list") /\ Goto(c, "listed")
  /\ seen' = [seen EXCEPT ![c] = list]
  /\ source' = [source EXCEPT ![c] = p]
  /\ UNCHANGED <<route, tries, target, conn, wire>>

\* Faulty variant: attempts are not counted.
ListFailsUncounted(c) ==
  /\ pc[c] \in {"list", "listed"} /\ Goto(c, "list")
  /\ seen' = [seen EXCEPT ![c] = {}] /\ source' = [source EXCEPT ![c] = 0]
  /\ UNCHANGED <<route, tries, target, conn, wire>>

\* Faulty variant: one attempt too many.
ListFailsLate(c) ==
  /\ pc[c] \in {"list", "listed"}
  /\ tries' = [tries EXCEPT ![c] = @ + 1]
  /\ IF tries[c] = MaxTries THEN End(c, "lookup") ELSE Goto(c, "list")
  /\ seen' = [seen EXCEPT ![c] = {}] /\ source' = [source EXCEPT ![c] = 0]
  /\ UNCHANGED <<route, target, conn, wire>>

\* No connection, a timeout or a connection lost before the answer: sleep and retry.
ListFails(c) ==
  /\ pc[c] \in {"list", "listed"}
  /\ tries' = [tries EXCEPT ![c] = @ + 1]
  /\ IF tries'[c] = MaxTries THEN End(c, "lookup") ELSE Goto(c, "list")
  /\ seen' = [seen EXCEPT ![c] = {}] /\ source' = [source EXCEPT ![c] = 0]
  /\ UNCHANGED <<route, target, conn, wire>>

\* A status that is no success, a body cut short or one that does not parse: no retry.
ListRejected(c) ==
  /\ At(c, "listed") /\ End(c, "lookup")
  /\ seen' = [seen EXCEPT ![c] = {}] /\ source' = [source EXCEPT ![c] = 0]
  /\ UNCHANGED <<route, tries, target, conn, wire>>

\* Faulty variant: the first run of the list, however many there are.
AnyRun(c, r) ==
  /\ At(c, "listed") /\ r \in seen[c] /\ Goto(c, "request")
  /\ target' = [target EXCEPT ![c] = r]
  /\ UNCHANGED <<route, tries, seen, source, conn, wire>>

OnlyRun(c, r) ==
  /\ At(c, "listed") /\ seen[c] = {r} /\ Goto(c, "request")
  /\ target' = [target EXCEPT ![c] = r]
  /\ UNCHANGED <<route, tries, seen, source, conn, wire>>

NotOneRun(c) ==
  /\ At(c, "listed") /\ ~ \E r \in Runs : seen[c] = {r}
  /\ End(c, "notfound")
  /\ UNCHANGED <<route, tries, seen, source, target, conn, wire>>

-----------------------------------------------------------------------------
(* The one request about the run: a message, a cancel or a telemetry read.     *)

RequestSent(c, p) ==
  /\ At(c, "request") /\ Goto(c, "sent")
  /\ conn' = [conn EXCEPT ![c] = p]
  /\ wire' = [wire EXCEPT ![c] = "sent"]
  /\ UNCHANGED <<route, tries, seen, source, target>>

\* Faulty variant: the retry of first_run_id, copied to the request.
RequestRetried(c) ==
  /\ pc[c] \in {"request", "sent"} /\ Goto(c, "request")
  /\ UNCHANGED <<route, tries, seen, source, target, conn, wire>>

\* Faulty variant: a lost answer is reported as the daemon's refusal.
RequestFailsRefused(c) ==
  /\ pc[c] \in {"request", "sent"} /\ End(c, "refused")
  /\ UNCHANGED <<route, tries, seen, source, target, conn, wire>>

\* No connection, 30 seconds without an answer, or a connection lost: one attempt only.
\* What was sent may still reach the daemon.
RequestFails(c) ==
  /\ pc[c] \in {"request", "sent"} /\ End(c, "unsure")
  /\ UNCHANGED <<route, tries, seen, source, target, conn, wire>>

\* Faulty variant: the answer's status is not looked at.
ReplyNotChecked(c) ==
  /\ At(c, "sent") /\ wire[c] \in {"accepted", "refused"}
  /\ End(c, "ok")
  /\ UNCHANGED <<route, tries, seen, source, target, conn, wire>>

\* Once the status is here a lost body changes nothing (unwrap_or_default).
ReplyRead(c) ==
  /\ At(c, "sent") /\ wire[c] \in {"accepted", "refused"}
  /\ End(c, IF wire[c] = "accepted" THEN "ok" ELSE "refused")
  /\ UNCHANGED <<route, tries, seen, source, target, conn, wire>>

-----------------------------------------------------------------------------
(* suspend and resume, and the end of a process from outside.                  *)

Scaled(c, ok) ==
  /\ c \in Scalers /\ At(c, "start")
  /\ End(c, IF ok THEN "ok" ELSE "kubectl")
  /\ UNCHANGED <<route, tries, seen, source, target, conn, wire>>

\* Ctrl-C at a parked endpoint, or a signal at any other time.
Killed(c) ==
  /\ pc[c] # "done" /\ End(c, "killed")
  /\ UNCHANGED <<route, tries, seen, source, target, conn, wire>>
=============================================================================
