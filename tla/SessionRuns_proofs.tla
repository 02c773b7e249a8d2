-------------------------- MODULE SessionRuns_proofs ---------------------------
(* ServiceSession again: which run and which pod a process has to do with, what  *)
(* a cancel leaves, and that the session keeps the promise of Mailbox.           *)
EXTENDS ServiceSession_proofs

USE ClientAssumption, ForwardedAssumption DEF Clients, Callers, Scalers

\* A process with a run to ask about has seen it alone in an answer; behind a port-forward
\* it has a pod before it lists, and lists and asks there.
Looked(c) ==
  /\ pc[c] \in {"request", "sent"} \/ wire[c] # "none" => seen[c] = {target[c]}
  /\ conn[c] # 0 => wire[c] # "none"
  /\ c \in Forwarded /\ pc[c] \in {"list", "listed", "request", "sent"} => route[c] # 0
  /\ c \in Forwarded /\ conn[c] # 0 => conn[c] = route[c]
  /\ c \in Forwarded /\ source[c] # 0 => source[c] = route[c]
  /\ pc[c] \in {"start", "endpoint", "list"} => source[c] = 0
  /\ seen[c] # {} => source[c] # 0

\* The runs of an answer are those of its pod, and stay so unless their ids are reused.
Remembered(c) ==
  \A r \in seen[c] : state[r] # "unborn" /\ (r \notin Reused => host[r] = source[c])

\* What a daemon has cancelled is over, until a later pod has a run of that id.
CancelHolds(c) ==
  wire[c] = "accepted" =>
    /\ state[target[c]] # "unborn" /\ conn[c] <= host[target[c]]
    /\ host[target[c]] = conn[c] => state[target[c]] \in {"over", "gone"}

\* What is on record about a run stays true of it.
RunInv ==
  /\ SendInv
  /\ \A c \in Clients : Looked(c) /\ Remembered(c)
  /\ \A i \in DOMAIN log :
       \/ log[i].run \in Reused /\ log[i].from \notin Forwarded
       \/ conn[log[i].from] = source[log[i].from]
  /\ \A c \in Cancellers : CancelHolds(c)

\* A run keeps its pod, and never becomes active a second time; only a later pod may have
\* a run of the same id.
Keeps(r) ==
  /\ state'[r] # "unborn"
  /\ \/ /\ host'[r] = host[r]
        /\ state[r] \in {"over", "gone"} => state'[r] \in {"over", "gone"}
     \/ r \in Reused /\ host[r] # pod /\ host'[r] = pod

LEMMA RunsKeep ==
  ASSUME PodTypeOK, [PodNext]_podVars, NEW r \in Runs, state[r] # "unborn"
  PROVE  Keeps(r)
<1> USE DEF PodTypeOK, Keeps
<1>1. CASE UNCHANGED podVars BY <1>1 DEF podVars
<1>2. ASSUME RunsGone, UNCHANGED host PROVE Keeps(r)
  BY <1>2 DEF RunsGone
<1>3. ASSUME NEW q \in Runs, NEW by, NewRun(q, by),
             state[q] = "unborn" \/ (q \in Reused /\ host[q] # pod)
      PROVE  Keeps(r)
  BY <1>3 DEF NewRun
<1>4. CASE EntryStep
  <2>1. CASE StartDaemon \/ PollSucceeds \/ PollFails \/ SpecAnswered
    BY <2>1 DEF StartDaemon, PollSucceeds, PollFails, SpecAnswered
  <2>2. CASE \E q \in Runs : SpecAccepted(q) BY <1>3, <2>2 DEF SpecAccepted
  <2>3. CASE StartFails \/ SpecPostFails \/ WaitReturns
    BY <1>2, <2>3 DEF StartFails, SpecPostFails, WaitReturns, Exit
  <2> QED BY <1>4, <2>1, <2>2, <2>3 DEF EntryStep
<1>5. CASE ClusterStep
  <2>1. CASE PodCreated \/ Probe \/ DaemonListens BY <2>1 DEF PodCreated, Probe, DaemonListens
  <2>2. CASE PodDeleted \/ PodLost \/ DaemonDies
    BY <1>2, <2>2 DEF PodDeleted, PodLost, PodGone, DaemonDies
  <2>3. CASE \E q \in Runs : RunEnds(q) \/ RunDelisted(q) BY <2>3 DEF RunEnds, RunDelisted
  <2> QED BY <1>5, <2>1, <2>2, <2>3 DEF ClusterStep
<1>6. CASE \E q \in Runs : UserPosts(q) BY <1>3, <1>6 DEF UserPosts
<1>7. CASE \E n \in {0, 1} : Scale(n) BY <1>7 DEF Scale
<1> QED BY <1>1, <1>4, <1>5, <1>6, <1>7 DEF PodNext

\* What an answer told stays true while the pods come and go.
LEMMA RememberedKept ==
  ASSUME PodTypeOK, ClientTypeOK, [PodNext]_podVars, NEW c \in Clients, Remembered(c),
         seen'[c] = seen[c], source'[c] = source[c]
  PROVE  Remembered(c)'
<1>1. ASSUME NEW r \in seen[c]
      PROVE  state'[r] # "unborn" /\ (r \notin Reused => host'[r] = source[c])
  <2>1. r \in Runs /\ state[r] # "unborn" /\ (r \notin Reused => host[r] = source[c])
    BY DEF Remembered, ClientTypeOK
  <2> QED BY <2>1, RunsKeep DEF Keeps
<1> QED BY <1>1 DEF Remembered

\* So does what a cancel left.
LEMMA OverKept ==
  ASSUME PodInv, [PodNext]_podVars, NEW t \in Runs, NEW p \in 0 .. MaxPods,
         state[t] # "unborn", p <= host[t], host[t] = p => state[t] \in {"over", "gone"}
  PROVE  /\ state'[t] # "unborn" /\ p <= host'[t]
         /\ host'[t] = p => state'[t] \in {"over", "gone"}
<1>1. Keeps(t)
  BY RunsKeep DEF PodInv
<1>2. /\ host[t] \in 0 .. MaxPods /\ host[t] <= pod
      /\ pod \in 0 .. MaxPods
  BY DEF PodInv, PodTypeOK
<1> QED BY <1>1, <1>2, PodsAssumption DEF Keeps

\* A process behind a port-forward gets a pod, and asks it; an answer comes from a pod
\* and lists runs of that pod.
Pinned(c) ==
  c \in Forwarded => /\ pc[c] = "endpoint" /\ pc'[c] = "list" => route'[c] # 0
                     /\ conn'[c] = conn[c] \/ conn'[c] = route[c]

Answered(c) ==
  \/ seen'[c] = seen[c] /\ source'[c] = source[c]
  \/ seen'[c] = {} /\ source'[c] = 0
  \/ /\ pc[c] = "list" /\ seen'[c] = Listed /\ source'[c] = pod /\ pod # 0
     /\ c \in Forwarded => route[c] = pod

LEMMA PinnedStep ==
  ASSUME PodInv, ClientTypeOK, NEW c \in Clients, ClientStep(c) \/ Kill(c), Looked(c)
  PROVE  Pinned(c) /\ Answered(c)
<1> USE DEF ClientTypeOK
<1>1. CASE ResolveEndpoint(c)
  <2>1. c \in Forwarded => phase = "running" /\ Resolved(c, pod)
    BY <1>1 DEF ResolveEndpoint
  <2>2. phase = "running" => pod # 0
    BY DEF PodInv, Pods
  <2>3. UNCHANGED <<seen, source, conn>>
    BY <1>1 DEF ResolveEndpoint, Resolved
  <2> QED BY <2>1, <2>2, <2>3 DEF Resolved, Pinned, Answered
<1>2. CASE SendRequest(c)
  <2>1. Reaches(c) /\ RequestSent(c, pod)
    BY <1>2 DEF SendRequest
  <2>2. c \in Forwarded => route[c] # 0
    BY <2>1 DEF RequestSent, At, Looked
  <2>3. c \in Forwarded => route[c] = pod
    BY <2>1, <2>2 DEF Reaches
  <2> QED BY <2>1, <2>3 DEF RequestSent, At, Pinned, Answered
<1>3. CASE ListRuns(c)
  <2>1. Reaches(c) /\ ListServed(c, pod, Listed)
    BY <1>3 DEF ListRuns
  <2>2. pod # 0
    BY <2>1 DEF Reaches, Serving, PodInv, Pods
  <2>3. c \in Forwarded => route[c] = pod
    BY <2>1 DEF ListServed, At, Looked, Reaches
  <2> QED BY <2>1, <2>2, <2>3 DEF ListServed, At, Goto, Pinned, Answered
<1>4. CASE ~ResolveEndpoint(c) /\ ~SendRequest(c) /\ ~ListRuns(c)
  <2>1. UNCHANGED conn /\ ~(pc[c] = "endpoint" /\ pc'[c] = "list")
    BY <1>4 DEF ClientStep, Kill, At, Goto, End, BadUsage, TokenRead, TokenUnreadable, ListFails, ListRejected,
         NotOneRun, OnlyRun, RequestFails, ReplyRead, ForwardUnavailable, ForwardFails,
         ScaleSandbox, Scaled, Killed
  <2>2. \/ UNCHANGED <<seen, source>>
        \/ seen'[c] = {} /\ source'[c] = 0
    BY <1>4 DEF ClientStep, Kill, BadUsage, TokenRead, TokenUnreadable, ListFails, ListRejected,
         NotOneRun, OnlyRun, RequestFails, ReplyRead, ForwardUnavailable, ForwardFails,
         ScaleSandbox, Scaled, Killed
  <2> QED BY <2>1, <2>2 DEF Pinned, Answered
<1> QED BY <1>1, <1>2, <1>3, <1>4

\* What a process does, to itself and to others.
LEMMA OwnStepLooked ==
  ASSUME ClientTypeOK, NEW c \in Clients, Honest(c), Looked(c), OwnStep(c), Pinned(c), Answered(c)
  PROVE  /\ Looked(c)'
         /\ wire[c] = "accepted" => conn'[c] = conn[c] /\ source'[c] = source[c]
         /\ pc[c] # "done" /\ pc'[c] # "start"
<1> USE PodsAssumption DEF ClientTypeOK, Honest, Looked, At, Goto, End, Pinned, Answered
<1>1. CASE BadUsage(c) BY <1>1 DEF BadUsage
<1>2. CASE TokenRead(c) BY <1>2 DEF TokenRead
<1>3. CASE TokenUnreadable(c) BY <1>3 DEF TokenUnreadable
<1>4. CASE ListFails(c) BY <1>4 DEF ListFails
<1>5. CASE ListRejected(c) BY <1>5 DEF ListRejected
<1>6. CASE NotOneRun(c) BY <1>6 DEF NotOneRun
<1>7. CASE \E r \in Runs : OnlyRun(c, r) BY <1>7 DEF OnlyRun
<1>8. CASE RequestFails(c) BY <1>8 DEF RequestFails
<1>9. CASE ReplyRead(c) BY <1>9 DEF ReplyRead
<1>10. CASE Killed(c) BY <1>10 DEF Killed
<1>11. CASE Scaled(c, TRUE) \/ Scaled(c, FALSE) BY <1>11 DEF Scaled
<1>12. CASE ForwardFails(c) BY <1>12 DEF ForwardFails
<1>13. CASE \E p \in 0 .. MaxPods : Resolved(c, p) BY <1>13 DEF Resolved
<1>14. CASE \E p \in 0 .. MaxPods, list \in SUBSET Runs : ListServed(c, p, list)
  BY <1>14 DEF ListServed
<1>15. CASE \E p \in 0 .. MaxPods : RequestSent(c, p) BY <1>15 DEF RequestSent
<1> QED
  BY <1>1, <1>2, <1>3, <1>4, <1>5, <1>6, <1>7, <1>8, <1>9, <1>10, <1>11, <1>12, <1>13,
     <1>14, <1>15 DEF OwnStep

LEMMA OthersStand ==
  ASSUME ClientTypeOK, NEW c \in Clients, OwnStep(c), NEW d \in Clients \ {c}
  PROVE  /\ pc'[d] = pc[d] /\ route'[d] = route[d] /\ seen'[d] = seen[d] /\ target'[d] = target[d]
         /\ conn'[d] = conn[d] /\ wire'[d] = wire[d] /\ result'[d] = result[d]
         /\ source'[d] = source[d]
BY DEF OwnStep, ClientTypeOK, Goto, End, BadUsage, TokenRead, TokenUnreadable, ListFails,
       ListRejected, NotOneRun, OnlyRun, RequestFails, ReplyRead, Killed, Scaled, ForwardFails,
       Resolved, ListServed, RequestSent

-----------------------------------------------------------------------------
\* The log grows by a message to an active run of the daemon that took it.
LEMMA LogGrows ==
  ASSUME SendInv, Next
  PROVE  \/ UNCHANGED log
         \/ \E c \in Senders :
              /\ wire[c] = "sent" /\ state[target[c]] = "active" /\ host[target[c]] = conn[c]
              /\ log' = Append(log, [from |-> c, run |-> target[c]])
              /\ UNCHANGED <<podVars, pc, result, conn, target, seen, source>>
<1>1. CASE (EntryStep \/ ClusterStep \/ UserRun) /\ PodOnly
  BY <1>1 DEF PodOnly
<1>2. CASE DaemonStep
  <2>1. PICK c \in Callers : AcceptMessage(c) \/ AcceptCancel(c) \/ AcceptTelemetry(c) \/ Turn(c)
    BY <1>2 DEF DaemonStep
  <2>2. CASE AcceptMessage(c)
    BY <2>2 DEF AcceptMessage, Handling, Verdict
  <2>3. CASE ~AcceptMessage(c)
    BY <2>1, <2>3 DEF AcceptCancel, AcceptTelemetry, Turn
  <2> QED BY <2>2, <2>3
<1>3. ASSUME NEW c \in Clients, ClientStep(c) \/ Kill(c) PROVE UNCHANGED log
  BY <1>3, ClientStepIsOwn DEF SendInv
<1> QED BY <1>1, <1>2, <1>3 DEF Next

\* What a cancel left is kept by every step that leaves its request alone.
LEMMA CancelKept ==
  ASSUME PodInv, ClientTypeOK, [PodNext]_podVars, NEW c \in Clients, Honest(c), CancelHolds(c),
         wire[c] = "accepted", target'[c] = target[c], conn'[c] = conn[c]
  PROVE  CancelHolds(c)'
<1>1. target[c] \in Runs /\ conn[c] \in 0 .. MaxPods
  BY DEF Honest, ClientTypeOK
<1> QED BY <1>1, OverKept DEF CancelHolds

\* A daemon that handles a request changes nothing but its verdict, and a cancel its run.
LEMMA HandlingLooked ==
  ASSUME RunInv, PodInv, DaemonStep
  PROVE  /\ \A c \in Clients : Looked(c)' /\ Remembered(c)'
         /\ \A c \in Cancellers : CancelHolds(c)'
<1>1. PICK c \in Callers : AcceptMessage(c) \/ AcceptCancel(c) \/ AcceptTelemetry(c) \/ Turn(c)
  BY DEF DaemonStep
<1>2. PICK v \in {"accepted", "refused"} : Verdict(c, v) /\ Handling(c)
  BY <1>1 DEF AcceptMessage, AcceptCancel, AcceptTelemetry, Turn
<1>3. /\ ClientTypeOK /\ PodTypeOK /\ \A d \in Clients : Honest(d)
      /\ [PodNext]_podVars
  BY SessionStepsThePod DEF RunInv, SendInv, TypeOK, Next
<1>4. /\ UNCHANGED <<pc, route, seen, source, target, conn>> /\ wire[c] = "sent"
      /\ \A d \in Clients : d # c => wire'[d] = wire[d]
      /\ wire'[c] = v
  BY <1>2, <1>3 DEF Verdict, Handling, ClientTypeOK
<1>5. \A d \in Clients : Looked(d)'
  BY <1>4 DEF RunInv, Looked
<1>6. \A d \in Clients : Remembered(d)'
  BY <1>3, <1>4, RememberedKept DEF RunInv
<1>7. ASSUME NEW d \in Cancellers, wire'[d] = "accepted" PROVE CancelHolds(d)'
  <2>1. CASE wire[d] = "accepted"
    BY <1>3, <1>4, <2>1, CancelKept DEF RunInv
  <2>2. CASE wire[d] # "accepted"
    <3>1. d = c /\ v = "accepted"
      BY <1>4, <1>7, <2>2
    <3>2. AcceptCancel(c)
      BY <1>1, <1>3, <1>4, <1>7, <3>1
         DEF AcceptMessage, AcceptTelemetry, Turn, Verdict, ClientTypeOK
    <3>3. /\ target[c] \in Runs /\ host[target[c]] = pod /\ conn[c] = pod /\ host' = host
          /\ state' = [state EXCEPT ![target[c]] = "over"]
      BY <1>2, <1>3, <1>4, <3>2 DEF AcceptCancel, Handling, Honest
    <3>4. state'[target[c]] = "over" /\ pod \in Nat
      BY <1>3, <3>3, PodsAssumption DEF PodTypeOK
    <3> QED BY <1>4, <3>1, <3>3, <3>4 DEF CancelHolds
  <2> QED BY <2>1, <2>2
<1> QED BY <1>5, <1>6, <1>7 DEF CancelHolds

LEMMA RunInvStep ==
  ASSUME RunInv, PodInv, Next, SendInv'
  PROVE  RunInv'
<1>1. /\ ClientTypeOK /\ PodTypeOK /\ \A d \in Clients : Honest(d)
      /\ log \in Seq([from : Senders, run : Runs])
  BY DEF RunInv, SendInv, TypeOK
<1>2. [PodNext]_podVars
  BY SessionStepsThePod DEF RunInv
<1>3. \A i \in DOMAIN log : /\ log[i].from \in Senders /\ wire[log[i].from] = "accepted"
                           /\ log[i].run \in Runs
  <2>1. \A i \in DOMAIN log : log[i].from \in Senders
    BY <1>1, LogSenders
  <2> QED BY <1>1, <2>1 DEF RunInv, SendInv, Honest
<1>4. /\ \A c \in Clients : Looked(c)' /\ Remembered(c)'
      /\ \A c \in Clients : wire[c] = "accepted" => conn'[c] = conn[c] /\ source'[c] = source[c]
      /\ \A c \in Cancellers : CancelHolds(c)'
  <2>1. CASE UNCHANGED clientVars
    <3>1. UNCHANGED <<pc, route, seen, source, target, conn, wire, result>>
      BY <2>1 DEF clientVars
    <3>2. ASSUME NEW c \in Cancellers PROVE CancelHolds(c)'
      <4>1. CASE wire[c] = "accepted"
        BY <1>1, <1>2, <3>1, <4>1, CancelKept DEF RunInv
      <4> QED BY <3>1, <4>1 DEF CancelHolds
    <3>3. \A c \in Clients : Remembered(c)'
      BY <1>1, <1>2, <3>1, RememberedKept DEF RunInv
    <3> QED BY <3>1, <3>2, <3>3 DEF RunInv, Looked
  <2>2. CASE DaemonStep
    BY <2>2, HandlingLooked DEF DaemonStep, AcceptMessage, AcceptCancel, AcceptTelemetry, Turn, Verdict
  <2>3. ASSUME NEW c \in Clients, ClientStep(c) \/ Kill(c)
        PROVE  /\ \A d \in Clients : Looked(d)' /\ Remembered(d)'
               /\ \A d \in Clients :
                    wire[d] = "accepted" => conn'[d] = conn[d] /\ source'[d] = source[d]
               /\ \A d \in Cancellers : CancelHolds(d)'
    <3>1. OwnStep(c) /\ UNCHANGED <<pod, state, host>>
      BY <2>3, ClientStepIsOwn DEF RunInv, SendInv, podVars, Scale
    <3>2. Pinned(c) /\ Answered(c)
      BY <1>1, <2>3, PinnedStep DEF RunInv
    <3>3. /\ Looked(c)'
          /\ wire[c] = "accepted" => conn'[c] = conn[c] /\ source'[c] = source[c]
      BY <1>1, <3>1, <3>2, OwnStepLooked DEF RunInv
    <3>4. ASSUME NEW d \in Clients \ {c}
          PROVE  /\ Looked(d)' /\ conn'[d] = conn[d]
                 /\ seen'[d] = seen[d] /\ source'[d] = source[d]
      BY <1>1, <3>1, OthersStand DEF RunInv, Looked
    <3>5. Kept
      BY <1>1, <3>1, OwnStepHonest
    <3>6. Remembered(c)'
      <4>1. CASE seen'[c] = seen[c] /\ source'[c] = source[c]
        BY <1>1, <1>2, <4>1, RememberedKept DEF RunInv
      <4>2. CASE seen'[c] = {} BY <4>2 DEF Remembered
      <4>3. CASE seen'[c] = Listed /\ source'[c] = pod
        BY <3>1, <4>3 DEF Remembered, Listed
      <4> QED BY <3>2, <4>1, <4>2, <4>3 DEF Answered
    <3>7. ASSUME NEW d \in Clients \ {c} PROVE Remembered(d)'
      BY <1>1, <1>2, <3>4, RememberedKept DEF RunInv
    <3>8. ASSUME NEW d \in Cancellers PROVE CancelHolds(d)'
      <4>1. CASE wire'[d] = "accepted"
        <5>1. wire[d] = "accepted" /\ target'[d] = target[d] /\ conn'[d] = conn[d]
          BY <3>3, <3>4, <3>5, <4>1 DEF Kept
        <5> QED BY <1>1, <1>2, <5>1, CancelKept DEF RunInv
      <4> QED BY <4>1 DEF CancelHolds
    <3> QED BY <3>3, <3>4, <3>6, <3>7, <3>8
  <2> QED BY <2>1, <2>2, <2>3 DEF Next, PodOnly
<1> DEFINE Taken(i, g, cn, so) == \/ g[i].run \in Reused /\ g[i].from \notin Forwarded
                                  \/ cn[g[i].from] = so[g[i].from]
<1>5. \A i \in DOMAIN log : Taken(i, log, conn', source')
  BY <1>3, <1>4 DEF RunInv
<1>6. \A i \in DOMAIN log' : Taken(i, log', conn', source')
  <2>1. CASE UNCHANGED log BY <1>5, <2>1
  <2>2. ASSUME NEW c \in Senders, wire[c] = "sent",
               state[target[c]] = "active" /\ host[target[c]] = conn[c],
               log' = Append(log, [from |-> c, run |-> target[c]]),
               UNCHANGED <<conn, source>>
        PROVE  \A i \in DOMAIN log' : Taken(i, log', conn', source')
    <3> DEFINE n == Len(log)
    <3>1. /\ n \in Nat /\ DOMAIN log = 1 .. n /\ DOMAIN log' = 1 .. n + 1
          /\ \A i \in 1 .. n : log'[i] = log[i]
          /\ log'[n + 1].from = c /\ log'[n + 1].run = target[c]
      BY <1>1, <2>2
    <3>2. \A i \in 1 .. n + 1 : i \in 1 .. n \/ i = n + 1
      BY <3>1
    <3>3. /\ Looked(c) /\ Remembered(c) /\ seen[c] = {target[c]} /\ target[c] \in Runs
      BY <1>1, <2>2 DEF RunInv, Looked, Honest
    <3>4. conn[c] # 0 /\ source[c] # 0
      BY <2>2, <3>3 DEF PodInv, Looked, Pods
    <3>5. target[c] \notin Reused => conn[c] = source[c]
      BY <2>2, <3>3 DEF Remembered
    <3>6. c \in Forwarded => conn[c] = source[c]
      BY <3>3, <3>4 DEF Looked
    <3>7. Taken(n + 1, log', conn', source')
      BY <2>2, <3>1, <3>5, <3>6
    <3>8. \A i \in 1 .. n : Taken(i, log', conn', source')
      BY <1>5, <3>1
    <3> HIDE DEF n, Taken
    <3> QED BY <3>1, <3>2, <3>7, <3>8
  <2> HIDE DEF Taken
  <2> QED BY <2>1, <2>2, LogGrows DEF RunInv
<1> QED BY <1>4, <1>6 DEF RunInv

\* A session keeps, of every process and run, what RunInv says.
THEOREM RunInvariant == Spec => []RunInv
<1>1. Init => RunInv
  <2> SUFFICES ASSUME Init PROVE RunInv
    OBVIOUS
  <2>1. SendInv
    BY SendInvInit
  <2>2. log = << >> /\ \A c \in Clients : /\ pc[c] = "start" /\ wire[c] = "none" /\ conn[c] = 0
                                        /\ seen[c] = {} /\ source[c] = 0
    BY DEF Init, ClientInit
  <2> QED BY <2>1, <2>2 DEF RunInv, Looked, Remembered, CancelHolds
<1>2. RunInv /\ PodInv /\ SendInv' /\ [Next]_vars => RunInv'
  <2>1. ASSUME RunInv, SendInv', UNCHANGED vars PROVE RunInv'
    BY <2>1 DEF RunInv, Looked, Remembered, CancelHolds, vars, podVars, clientVars
  <2> QED BY <2>1, RunInvStep
<1>3. Spec => []PodInv
  BY SessionImplementsPod, PodInvariant, PTL
<1> QED BY <1>1, <1>2, <1>3, SendInvariant, PTL DEF Spec

\* A message is taken by the run that was looked up, of the daemon that was asked, for any
\* number of pods that come and go between the two requests of a send and any ids reused;
\* the one exception, an in-cluster send whose id is reused, is part of the property.
THEOREM TakenRight == Spec => []TakenByTheRunLookedUp
<1>1. RunInv => TakenByTheRunLookedUp
  <2> SUFFICES ASSUME RunInv, NEW i \in DOMAIN log
      PROVE  /\ seen[log[i].from] = {log[i].run}
             /\ \/ log[i].run \in Reused /\ log[i].from \notin Forwarded
                \/ conn[log[i].from] = source[log[i].from]
    BY DEF TakenByTheRunLookedUp
  <2>1. log[i].from \in Senders
    BY LogSenders DEF RunInv, SendInv, TypeOK
  <2>2. wire[log[i].from] = "accepted" /\ log[i].run = target[log[i].from]
    BY DEF RunInv, SendInv
  <2> QED BY <2>1, <2>2 DEF RunInv, Looked
<1> QED BY <1>1, RunInvariant, PTL

\* After a cancel that reported success its run stays over and takes no message, whatever
\* runs later pods have under the same id.
THEOREM CancelStands == Spec => CancelIsFinal
<1> DEFINE Final == \A c \in Cancellers : result[c] = "ok" =>
                      /\ host'[target[c]] = conn[c] => state'[target[c]] \in {"over", "gone"}
                      /\ \A i \in DOMAIN log' \ DOMAIN log :
                           log'[i].run = target[c] => conn[log'[i].from] # conn[c]
<1>1. ASSUME RunInv, PodInv, [Next]_vars PROVE [Final]_vars
  <2> SUFFICES ASSUME Next, NEW c \in Cancellers, result[c] = "ok"
      PROVE  /\ host'[target[c]] = conn[c] => state'[target[c]] \in {"over", "gone"}
             /\ \A i \in DOMAIN log' \ DOMAIN log :
                  log'[i].run = target[c] => conn[log'[i].from] # conn[c]
    BY <1>1
  <2>1. /\ wire[c] = "accepted" /\ target[c] \in Runs /\ conn[c] \in 0 .. MaxPods
        /\ CancelHolds(c)
    BY <1>1 DEF RunInv, SendInv, TypeOK, ClientTypeOK, Honest
  <2>2. PodTypeOK /\ [PodNext]_podVars /\ log \in Seq([from : Senders, run : Runs])
    BY <1>1, SessionStepsThePod DEF RunInv, SendInv, TypeOK
  <2>3. host'[target[c]] = conn[c] => state'[target[c]] \in {"over", "gone"}
    BY <1>1, <2>1, <2>2, OverKept DEF CancelHolds
  <2>4. ASSUME NEW i \in DOMAIN log' \ DOMAIN log, log'[i].run = target[c]
        PROVE  conn[log'[i].from] # conn[c]
    <3>1. CASE UNCHANGED log BY <2>4, <3>1
    <3>2. ASSUME NEW d \in Senders, state[target[d]] = "active", host[target[d]] = conn[d],
                 log' = Append(log, [from |-> d, run |-> target[d]])
          PROVE  conn[log'[i].from] # conn[c]
      <4>1. log'[i].from = d /\ log'[i].run = target[d]
        BY <2>2, <2>4, <3>2
      <4> QED BY <2>1, <2>4, <3>2, <4>1 DEF CancelHolds
    <3> QED BY <1>1, <3>1, <3>2, LogGrows DEF RunInv
  <2> QED BY <2>3, <2>4
<1>2. Spec => []PodInv
  BY SessionImplementsPod, PodInvariant, PTL
<1> QED BY <1>1, <1>2, RunInvariant, PTL DEF Spec, CancelIsFinal, Final

-----------------------------------------------------------------------------
(* The session implements Mailbox.                                             *)

Froms == [i \in DOMAIN log |-> log[i].from]

\* No report, no change.
LEMMA StatusStands ==
  ASSUME \A c \in Senders : pc'[c] = pc[c] /\ result'[c] = result[c]
  PROVE  UNCHANGED MailStatus
<1>1. \A c \in Senders : MailStatusOf(c)' = MailStatusOf(c)
  BY DEF MailStatusOf
<1> QED BY <1>1 DEF MailStatus

\* A message that is in the log is one the daemon accepted, and the other way round.
LEMMA AcceptedIs ==
  ASSUME SendInv, NEW c \in Senders
  PROVE  (\E i \in DOMAIN Froms : Froms[i] = c) <=> wire[c] = "accepted"
<1>1. DOMAIN Froms = DOMAIN log /\ \A i \in DOMAIN log : Froms[i] = log[i].from
  BY DEF Froms
<1> QED BY <1>1 DEF SendInv

\* The step of a sender, seen from its message.
LEMMA SenderReports ==
  ASSUME SendInv, SendInv', NEW c \in Senders, OwnStep(c), UNCHANGED log,
         pc[c] # "done", pc'[c] # "start"
  PROVE  Mail!Next \/ UNCHANGED Mail!mailVars
<1> DEFINE st == MailStatusOf(c)'
<1>1. MailStatus' = [MailStatus EXCEPT ![c] = st]
  <2>1. \A d \in Senders \ {c} : MailStatusOf(d)' = MailStatusOf(d)
    BY OthersStand DEF SendInv, TypeOK, MailStatusOf
  <2>2. MailStatus = [d \in Senders |-> MailStatusOf(d)] /\ MailStatus' = [d \in Senders |-> MailStatusOf(d)']
    BY DEF MailStatus
  <2> HIDE DEF st
  <2>3. st = MailStatusOf(c)'
    BY DEF st
  <2> QED BY <2>1, <2>2, <2>3
<1>2. UNCHANGED Froms
  BY DEF Froms
<1>3. MailStatus[c] = MailStatusOf(c)
  BY DEF MailStatus
<1>4. CASE pc'[c] # "done"
  <2>1. st = "trying"
    BY <1>4 DEF MailStatusOf
  <2>2. CASE pc[c] = "start"
    <3>1. MailStatus[c] = "new"
      BY <1>3, <2>2 DEF MailStatusOf
    <3>2. Mail!Begin(c)
      BY <1>1, <1>2, <2>1, <3>1 DEF Mail!Begin, Froms
    <3> QED BY <3>2 DEF Mail!Next
  <2>3. CASE pc[c] # "start"
    <3>1. MailStatus[c] = "trying"
      BY <1>3, <2>3 DEF MailStatusOf
    <3>2. MailStatus' = MailStatus
      BY <1>1, <2>1, <3>1 DEF MailStatus
    <3> QED BY <1>2, <3>2 DEF Mail!mailVars, Froms
  <2> QED BY <2>2, <2>3
<1>5. CASE pc'[c] = "done"
  <2>1. MailStatus[c] \in {"new", "trying"}
    BY <1>3 DEF MailStatusOf
  <2>2. /\ st \in {"ok", "refused", "unsure"}
        /\ st = "ok" => wire'[c] = "accepted"
        /\ st = "refused" => wire'[c] \in {"none", "refused"}
    <3>1. Honest(c)' /\ result'[c] \in Results
      BY DEF SendInv, TypeOK, ClientTypeOK
    <3> QED BY <1>5, <3>1 DEF Honest, MailStatusOf, Results
  <2>3. (\E i \in DOMAIN Froms : Froms[i] = c) <=> wire'[c] = "accepted"
    <3>1. (\E i \in DOMAIN Froms' : Froms'[i] = c) <=> wire'[c] = "accepted"
      BY AcceptedIs, <1>2 DEF SendInv, Froms
    <3> QED BY <1>2, <3>1
  <2>4. Mail!Report(c, st)
    <3> HIDE DEF st
    <3> QED BY <1>1, <1>2, <2>1, <2>2, <2>3 DEF Mail!Report, Mail!Accepted, Froms
  <2> QED BY <2>2, <2>4 DEF Mail!Next
<1> QED BY <1>4, <1>5

\* The acceptance of a message.
LEMMA AcceptsMail ==
  ASSUME SendInv, NEW c \in Senders, wire[c] = "sent",
         log' = Append(log, [from |-> c, run |-> target[c]]), UNCHANGED <<pc, result>>
  PROVE  Mail!Next
<1>1. log \in Seq([from : Senders, run : Runs]) /\ Honest(c)
  BY DEF SendInv, TypeOK
<1>2. Froms' = Append(Froms, c)
  <2>1. Len(log) \in Nat /\ DOMAIN log = 1 .. Len(log) /\ DOMAIN log' = 1 .. Len(log) + 1
        /\ log'[Len(log) + 1].from = c /\ \A i \in 1 .. Len(log) : log'[i] = log[i]
    BY <1>1
  <2>2. Froms \in Seq(Senders) /\ Len(Froms) = Len(log)
    BY <1>1, <2>1, LogSenders DEF Froms
  <2> QED BY <2>1, <2>2 DEF Froms
<1>3. MailStatus' = MailStatus
  BY StatusStands
<1>4. MailStatus[c] \in {"trying", "unsure"}
  <2>1. MailStatusOf(c) \in {"trying", "unsure"}
    <3>1. result[c] \in Results
      BY DEF SendInv, TypeOK, ClientTypeOK
    <3> QED BY <1>1, <3>1 DEF Honest, MailStatusOf, Results
  <2> QED BY <2>1 DEF MailStatus
<1>5. ~ \E i \in DOMAIN Froms : Froms[i] = c
  BY AcceptedIs
<1>6. Mail!Accept(c)
  BY <1>2, <1>3, <1>4, <1>5 DEF Mail!Accept, Mail!Accepted, Froms
<1> QED BY <1>6 DEF Mail!Next

LEMMA SessionStepsTheMail ==
  ASSUME RunInv, PodInv, SendInv', Next
  PROVE  Mail!Next \/ UNCHANGED Mail!mailVars
<1>1. CASE UNCHANGED <<log, pc, result>>
  <2>1. UNCHANGED MailStatus
    BY <1>1, StatusStands
  <2> QED BY <1>1, <2>1 DEF Mail!mailVars
<1>2. ASSUME NEW c \in Clients, ClientStep(c) \/ Kill(c)
      PROVE  Mail!Next \/ UNCHANGED Mail!mailVars
  <2>1. OwnStep(c) /\ UNCHANGED log
    BY <1>2, ClientStepIsOwn DEF RunInv, SendInv
  <2>2. /\ ClientTypeOK /\ SendInv /\ Honest(c) /\ Looked(c)
    BY DEF RunInv, SendInv, TypeOK
  <2>3. CASE c \in Senders
    <3>1. pc[c] # "done" /\ pc'[c] # "start"
      BY <1>2, <2>1, <2>2, PinnedStep, OwnStepLooked
    <3> QED BY <2>1, <2>2, <2>3, <3>1, SenderReports
  <2>4. CASE c \notin Senders
    <3>1. \A d \in Senders : pc'[d] = pc[d] /\ result'[d] = result[d]
      BY <2>1, <2>2, <2>4, OthersStand
    <3>2. UNCHANGED MailStatus
      BY <3>1, StatusStands
    <3> QED BY <2>1, <3>2 DEF Mail!mailVars
  <2> QED BY <2>3, <2>4
<1>3. CASE DaemonStep
  <2>1. UNCHANGED <<pc, result>>
    BY <1>3 DEF DaemonStep, AcceptMessage, AcceptCancel, AcceptTelemetry, Turn, Verdict
  <2>2. CASE UNCHANGED log BY <1>1, <2>1, <2>2
  <2>3. ASSUME NEW c \in Senders, wire[c] = "sent", log' = Append(log, [from |-> c, run |-> target[c]])
        PROVE  Mail!Next
    BY <2>1, <2>3, AcceptsMail DEF RunInv
  <2> QED BY <2>2, <2>3, LogGrows DEF RunInv
<1>4. CASE (EntryStep \/ ClusterStep \/ UserRun) /\ PodOnly
  BY <1>1, <1>4 DEF PodOnly, clientVars
<1> QED BY <1>2, <1>3, <1>4 DEF Next

\* What send reports is what Mailbox promises, whatever the pods and the network do.
THEOREM SessionImplementsMailbox == Spec => MailboxSpec
<1>1. Init => Mail!Init
  <2> SUFFICES ASSUME Init PROVE Mail!Init
    OBVIOUS
  <2>1. \A c \in Senders : MailStatusOf(c) = "new"
    BY DEF Init, ClientInit, MailStatusOf
  <2>2. [i \in DOMAIN log |-> log[i].from] = << >>
    BY DEF Init
  <2> QED BY <2>1, <2>2 DEF Mail!Init, MailStatus
<1>2. RunInv /\ PodInv /\ SendInv' /\ [Next]_vars => [Mail!Next]_Mail!mailVars
  <2>1. ASSUME UNCHANGED vars PROVE UNCHANGED Mail!mailVars
    BY <2>1, StatusStands DEF vars, clientVars, Mail!mailVars
  <2> QED BY <2>1, SessionStepsTheMail
<1>3. Spec => []PodInv
  BY SessionImplementsPod, PodInvariant, PTL
<1> QED BY <1>1, <1>2, <1>3, RunInvariant, SendInvariant, PTL DEF Spec, MailboxSpec, Mail!Spec
=============================================================================
