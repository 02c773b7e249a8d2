---------------------------- MODULE ServiceSession ----------------------------
(* A Sandbox in use: the processes of DaemonClient, each at its own pace, against *)
(* the pods of SandboxPod, which are replaced, suspended and resumed under them.   *)
(* The requests meet the daemon here: what is listed is read when the daemon       *)
(* answers, a request takes effect when the daemon handles it, and that can be     *)
(* long after its sender has given up.                                             *)
EXTENDS SandboxPod, DaemonClient, Sequences

CONSTANTS Forwarded   \* the processes outside the cluster, which need a port-forward

ASSUME ForwardedAssumption == Forwarded \subseteq Clients

VARIABLE log    \* the messages accepted: who sent it, which run took it, in order

vars == <<podVars, clientVars, log>>

TypeOK ==
  /\ PodTypeOK /\ ClientTypeOK
  /\ log \in Seq([from : Senders, run : Runs])

Init == PodInit /\ ClientInit /\ log = << >>

PodOnly == UNCHANGED <<clientVars, log>>
ClientOnly == UNCHANGED <<podVars, log>>

-----------------------------------------------------------------------------
(* Connections.                                                                *)

\* kubectl port-forward binds to the pod that bears the name now; the in-cluster name
\* resolves to the pod that is Ready when the connection is made.
Reaches(c) ==
  /\ Serving
  /\ IF route[c] = 0 THEN ready ELSE route[c] = pod

\* Faulty variant: a forward that is opened anew, by the Sandbox's name, for each request.
ResolveByName(c) ==
  /\ phase = "running" /\ Resolved(c, 0)
  /\ ClientOnly

ResolveEndpoint(c) ==
  /\ IF c \in Forwarded THEN phase = "running" /\ Resolved(c, pod) ELSE Resolved(c, 0)
  /\ ClientOnly

ForwardUnavailable(c) == c \in Forwarded /\ ForwardFails(c) /\ ClientOnly

ListRuns(c) == Reaches(c) /\ ListServed(c, pod, Listed) /\ ClientOnly

SendRequest(c) == Reaches(c) /\ RequestSent(c, pod) /\ ClientOnly

-----------------------------------------------------------------------------
(* The daemon handles a request that has reached it.                            *)

Handling(c) == wire[c] = "sent" /\ Serving /\ conn[c] = pod
Verdict(c, v) == /\ wire' = [wire EXCEPT ![c] = v]
                 /\ UNCHANGED <<pc, route, tries, seen, source, target, conn, result>>

\* POST /v1/runs/<id>/messages for a run of this daemon that is still active.
AcceptMessage(c) ==
  /\ c \in Senders /\ Handling(c)
  /\ state[target[c]] = "active" /\ host[target[c]] = pod
  /\ log' = Append(log, [from |-> c, run |-> target[c]])
  /\ Verdict(c, "accepted")
  /\ UNCHANGED podVars

\* POST /v1/runs/<id>/cancel
AcceptCancel(c) ==
  /\ c \in Cancellers /\ Handling(c)
  /\ state[target[c]] = "active" /\ host[target[c]] = pod
  /\ state' = [state EXCEPT ![target[c]] = "over"]
  /\ Verdict(c, "accepted")
  /\ UNCHANGED <<replicas, pod, phase, entry, polls, daemon, ready, host, origin, log>>

\* GET /v1/runs/<id>/telemetry
AcceptTelemetry(c) ==
  /\ c \in Watchers /\ Handling(c)
  /\ target[c] \in Listed
  /\ Verdict(c, "accepted")
  /\ UNCHANGED <<podVars, log>>

\* Any request may be turned down: an unknown or finished run, a wrong token, a failure.
Turn(c) == Handling(c) /\ Verdict(c, "refused") /\ UNCHANGED <<podVars, log>>

DaemonStep ==
  \E c \in Callers : AcceptMessage(c) \/ AcceptCancel(c) \/ AcceptTelemetry(c) \/ Turn(c)

-----------------------------------------------------------------------------
\* kubectl scale: it succeeds, or it fails with or without having changed the Sandbox.
ScaleSandbox(c) ==
  LET n == IF c \in Suspenders THEN 0 ELSE 1 IN
  /\ \/ Scaled(c, TRUE) /\ Scale(n)
     \/ Scaled(c, FALSE) /\ Scale(n)
     \/ Scaled(c, FALSE) /\ UNCHANGED podVars
  /\ UNCHANGED log

ClientStep(c) ==
  \/ /\ \/ BadUsage(c) \/ TokenRead(c) \/ TokenUnreadable(c)
        \/ ListFails(c) \/ ListRejected(c) \/ NotOneRun(c)
        \/ \E r \in Runs : OnlyRun(c, r)
        \/ RequestFails(c) \/ ReplyRead(c)
     /\ ClientOnly
  \/ ResolveEndpoint(c) \/ ForwardUnavailable(c)
  \/ ListRuns(c) \/ SendRequest(c)
  \/ ScaleSandbox(c)

Kill(c) == Killed(c) /\ ClientOnly

\* Somebody uses the credentials an `endpoint` invocation has printed.
UserRun ==
  /\ \E c \in Openers : pc[c] = "parked" \/ result[c] = "ok"
  /\ \E r \in Runs : UserPosts(r)

Next ==
  \/ (EntryStep \/ ClusterStep \/ UserRun) /\ PodOnly
  \/ DaemonStep
  \/ \E c \in Clients : ClientStep(c) \/ Kill(c)

\* A process runs until it ends: kubectl returns, an HTTP call returns within its 30
\* seconds, the port-forward within its own timeouts (PortForward).  Nothing is assumed
\* of the daemon, of the entrypoint or of the cluster.
Fairness == \A c \in Clients : WF_vars(ClientStep(c))

Spec == Init /\ [][Next]_vars
FairSpec == Spec /\ Fairness

-----------------------------------------------------------------------------
(* Properties.                                                                 *)

\* A message is accepted at most once: first_run_id retries its GET, send_message never
\* retries its POST, even when it timed out and the daemon answers late.
AtMostOnce ==
  \A i, j \in DOMAIN log : log[i].from = log[j].from => i = j

\* A send that reports success has had its message accepted by the run it looked up.
OkMeansAccepted ==
  \A c \in Senders : result[c] = "ok" =>
    \E i \in DOMAIN log : log[i] = [from |-> c, run |-> target[c]]

\* A send that reports an error before its POST, or a status of the daemon, has left
\* nothing behind and never will: it is safe to repeat.  Only "unsure" and "killed" are
\* not.
ErrorMeansNotAccepted ==
  \A c \in Senders :
    result[c] \in {"usage", "kubectl", "forward", "lookup", "notfound", "refused"} =>
      /\ wire[c] # "sent"
      /\ \A i \in DOMAIN log : log[i].from # c

\* The inductive invariant behind the three: the second request exists only after the
\* lookup, the daemon's verdict on it agrees with the log, and what the process reports
\* agrees with the verdict.
Honest(c) ==
  /\ pc[c] \in {"request", "sent"} => target[c] \in Runs
  /\ wire[c] # "none" => pc[c] \in {"sent", "done"} /\ target[c] \in Runs
  /\ pc[c] # "done" <=> result[c] = "none"
  /\ result[c] \in {"usage", "kubectl", "forward", "lookup", "notfound"} => wire[c] = "none"
  /\ result[c] = "refused" => wire[c] = "refused"
  /\ result[c] = "ok" /\ c \in Callers => wire[c] = "accepted"

SendInv ==
  /\ TypeOK
  /\ \A c \in Clients : Honest(c)
  /\ \A i \in DOMAIN log : /\ wire[log[i].from] = "accepted"
                          /\ log[i].run = target[log[i].from]
  /\ \A c \in Senders : wire[c] = "accepted" =>
       \E i \in DOMAIN log : log[i] = [from |-> c, run |-> target[c]]
  /\ AtMostOnce

\* A message is only ever taken by the run that was alone in the answer to the lookup,
\* and by the daemon that answered: when the pod is replaced between the lookup and
\* the POST, the stale run id finds no taker.  Only an in-cluster send whose run id
\* somebody uses again may go to the later run of that name; behind a port-forward, which
\* stays with its pod, not even that.
TakenByTheRunLookedUp ==
  \A i \in DOMAIN log :
    LET c == log[i].from
        r == log[i].run IN
      /\ seen[c] = {r}
      /\ (r \in Reused /\ c \notin Forwarded) \/ conn[c] = source[c]

\* Once a cancel has reported success the run of that id on that pod takes no further
\* message and never becomes active again.
CancelIsFinal ==
  [][\A c \in Cancellers : result[c] = "ok" =>
       /\ host'[target[c]] = conn[c] => state'[target[c]] \in {"over", "gone"}
       /\ \A i \in DOMAIN log' \ DOMAIN log :
            log'[i].run = target[c] => conn[log'[i].from] # conn[c]]_vars

\* Every command that is started comes back, whatever the pod and the network do;
\* endpoint stays on purpose while it owns a port-forward.
EveryCommandReturns ==
  \A c \in Clients : []<>(pc[c] \in {"done", "parked"})

\* What a command has still to do, at most: a lookup takes two steps for each attempt.
WorkLeft(c) ==
  IF pc[c] = "start" THEN 2 * MaxTries + 5
  ELSE IF pc[c] = "endpoint" THEN 2 * MaxTries + 4
  ELSE IF pc[c] = "list" THEN 2 * (MaxTries - tries[c]) + 3
  ELSE IF pc[c] = "listed" THEN 2 * (MaxTries - tries[c]) + 2
  ELSE IF pc[c] = "request" THEN 2
  ELSE IF pc[c] \in {"sent", "parked"} THEN 1 ELSE 0

\* Its safety half: whatever pods come and go and whatever answers are lost, each step of
\* a command leaves it less to do, so none of them asks without end (client.rs 62-129).
CommandsAdvance ==
  [][\A c \in Clients : <<pc'[c], tries'[c]>> # <<pc[c], tries[c]>>
       => WorkLeft(c)' < WorkLeft(c)]_vars

\* The promise of Mailbox, implemented.
MailStatusOf(c) ==
  IF pc[c] = "start" THEN "new"
  ELSE IF pc[c] # "done" THEN "trying"
  ELSE IF result[c] = "ok" THEN "ok"
  ELSE IF result[c] \in {"unsure", "killed"} THEN "unsure" ELSE "refused"

MailStatus == [c \in Senders |-> MailStatusOf(c)]

Mail == INSTANCE Mailbox WITH
          Messages <- Senders,
          status <- MailStatus,
          log <- [i \in DOMAIN log |-> log[i].from]

MailboxSpec == Mail!Spec
=============================================================================
