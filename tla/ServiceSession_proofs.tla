------------------------ MODULE ServiceSession_proofs ------------------------
(* ServiceSession for every set of processes, every number of pods and every     *)
(* retry bound: types, and what a send may report.                               *)
EXTENDS ServiceSession, SandboxPod_proofs

USE ClientAssumption, ForwardedAssumption DEF Clients, Callers, Scalers

\* The steps of a process by itself, without those that read the pod.
OwnStep(c) ==
  \/ BadUsage(c) \/ TokenRead(c) \/ TokenUnreadable(c)
  \/ ListFails(c) \/ ListRejected(c) \/ NotOneRun(c)
  \/ \E r \in Runs : OnlyRun(c, r)
  \/ RequestFails(c) \/ ReplyRead(c) \/ Killed(c)
  \/ Scaled(c, TRUE) \/ Scaled(c, FALSE) \/ ForwardFails(c)
  \/ \E p \in 0 .. MaxPods : Resolved(c, p)
  \/ \E p \in 0 .. MaxPods, list \in SUBSET Runs : ListServed(c, p, list)
  \/ \E p \in 0 .. MaxPods : RequestSent(c, p)

LEMMA ClientTypeStep ==
  ASSUME ClientTypeOK, NEW c \in Clients, OwnStep(c)
  PROVE  ClientTypeOK'
<1> USE PodsAssumption DEF ClientTypeOK, PCs, Results, At, Goto, End
<1>1. CASE BadUsage(c) BY <1>1 DEF BadUsage
<1>2. CASE TokenRead(c) BY <1>2 DEF TokenRead
<1>3. CASE TokenUnreadable(c) BY <1>3 DEF TokenUnreadable
<1>4. CASE ListFails(c) BY <1>4 DEF ListFails
<1>5. CASE ListRejected(c) BY <1>5 DEF ListRejected
<1>6. CASE NotOneRun(c) BY <1>6 DEF NotOneRun
<1>7. ASSUME NEW r \in Runs, OnlyRun(c, r) PROVE ClientTypeOK'
  BY <1>7 DEF OnlyRun
<1>8. CASE RequestFails(c) BY <1>8 DEF RequestFails
<1>9. CASE ReplyRead(c) BY <1>9 DEF ReplyRead
<1>10. CASE Killed(c) BY <1>10 DEF Killed
<1>11. CASE Scaled(c, TRUE) \/ Scaled(c, FALSE) BY <1>11 DEF Scaled
<1>12. CASE ForwardFails(c) BY <1>12 DEF ForwardFails
<1>13. ASSUME NEW p \in 0 .. MaxPods, Resolved(c, p) PROVE ClientTypeOK'
  BY <1>13 DEF Resolved
<1>14. ASSUME NEW p \in 0 .. MaxPods, NEW list \in SUBSET Runs, ListServed(c, p, list) PROVE ClientTypeOK'
  BY <1>14 DEF ListServed
<1>15. ASSUME NEW p \in 0 .. MaxPods, RequestSent(c, p) PROVE ClientTypeOK'
  BY <1>15 DEF RequestSent
<1> QED
  BY <1>1, <1>2, <1>3, <1>4, <1>5, <1>6, <1>7, <1>8, <1>9, <1>10, <1>11, <1>12, <1>13,
     <1>14, <1>15 DEF OwnStep

\* A process takes one of its own steps; the pod stands still or is scaled.
LEMMA ClientStepIsOwn ==
  ASSUME TypeOK, NEW c \in Clients, ClientStep(c) \/ Kill(c)
  PROVE  /\ OwnStep(c) /\ UNCHANGED log
         /\ UNCHANGED podVars \/ \E n \in {0, 1} : Scale(n)
<1> USE DEF OwnStep, ClientOnly
<1>1. pod \in 0 .. MaxPods
  BY DEF TypeOK, PodTypeOK
<1>2. CASE ResolveEndpoint(c)
  <2>1. Resolved(c, pod) \/ Resolved(c, 0)
    BY <1>2 DEF ResolveEndpoint
  <2>2. 0 \in 0 .. MaxPods
    BY PodsAssumption
  <2> QED BY <1>1, <1>2, <2>1, <2>2 DEF ResolveEndpoint
<1>3. CASE ForwardUnavailable(c) BY <1>3 DEF ForwardUnavailable
<1>4. CASE ListRuns(c)
  <2>1. Listed \in SUBSET Runs
    BY DEF Listed
  <2> QED BY <1>1, <1>4, <2>1 DEF ListRuns
<1>5. CASE SendRequest(c) BY <1>1, <1>5 DEF SendRequest
<1>6. CASE ScaleSandbox(c)
  BY <1>6 DEF ScaleSandbox
<1>7. CASE Kill(c) BY <1>7 DEF Kill
<1> QED BY <1>2, <1>3, <1>4, <1>5, <1>6, <1>7 DEF ClientStep

\* What a step must keep: every process honest, and no accepted request, nor the run it
\* was about, touched.
Kept ==
  /\ \A d \in Clients : Honest(d)'
  /\ \A d \in Clients : wire'[d] = "accepted" <=> wire[d] = "accepted"
  /\ \A d \in Clients : wire[d] = "accepted" => target'[d] = target[d]

LEMMA OwnStepHonest ==
  ASSUME ClientTypeOK, \A d \in Clients : Honest(d), NEW c \in Clients, OwnStep(c)
  PROVE  Kept
<1> USE DEF Kept, ClientTypeOK, Honest, At, Goto, End
<1>1. ASSUME BadUsage(c) PROVE Kept BY <1>1 DEF BadUsage
<1>2. ASSUME TokenRead(c) PROVE Kept BY <1>2 DEF TokenRead
<1>3. ASSUME TokenUnreadable(c) PROVE Kept BY <1>3 DEF TokenUnreadable
<1>4. ASSUME ListFails(c) PROVE Kept BY <1>4 DEF ListFails
<1>5. ASSUME ListRejected(c) PROVE Kept BY <1>5 DEF ListRejected
<1>6. ASSUME NotOneRun(c) PROVE Kept BY <1>6 DEF NotOneRun
<1>7. ASSUME NEW r \in Runs, OnlyRun(c, r) PROVE Kept
  BY <1>7 DEF OnlyRun
<1>8. ASSUME RequestFails(c) PROVE Kept BY <1>8 DEF RequestFails
<1>9. ASSUME ReplyRead(c) PROVE Kept BY <1>9 DEF ReplyRead
<1>10. ASSUME Killed(c) PROVE Kept BY <1>10 DEF Killed
<1>11. ASSUME Scaled(c, TRUE) \/ Scaled(c, FALSE) PROVE Kept BY <1>11 DEF Scaled
<1>12. ASSUME ForwardFails(c) PROVE Kept BY <1>12 DEF ForwardFails
<1>13. ASSUME NEW p \in 0 .. MaxPods, Resolved(c, p) PROVE Kept
  BY <1>13 DEF Resolved
<1>14. ASSUME NEW p \in 0 .. MaxPods, NEW list \in SUBSET Runs, ListServed(c, p, list) PROVE Kept
  BY <1>14 DEF ListServed
<1>15. ASSUME NEW p \in 0 .. MaxPods, RequestSent(c, p) PROVE Kept
  BY <1>15 DEF RequestSent
<1> HIDE DEF Kept, ClientTypeOK, Honest, At, Goto, End
<1> QED
  BY <1>1, <1>2, <1>3, <1>4, <1>5, <1>6, <1>7, <1>8, <1>9, <1>10, <1>11, <1>12, <1>13,
     <1>14, <1>15 DEF OwnStep

\* The daemon's verdict on a request.
LEMMA VerdictHonest ==
  ASSUME ClientTypeOK, \A d \in Clients : Honest(d),
         NEW c \in Clients, NEW v \in {"accepted", "refused"}, Handling(c), Verdict(c, v)
  PROVE  /\ ClientTypeOK' /\ \A d \in Clients : Honest(d)'
         /\ target[c] \in Runs /\ wire[c] = "sent" /\ wire'[c] = v
         /\ \A d \in Clients \ {c} : wire'[d] = wire[d]
         /\ UNCHANGED target
<1>1. wire' = [wire EXCEPT ![c] = v] /\ wire[c] = "sent"
  BY DEF Verdict, Handling
<1>2. /\ target[c] \in Runs /\ wire'[c] = v
      /\ \A d \in Clients \ {c} : wire'[d] = wire[d]
  BY <1>1 DEF ClientTypeOK, Honest
<1>3. ClientTypeOK'
  BY <1>1 DEF ClientTypeOK, Verdict
<1>4. result[c] \notin {"usage", "kubectl", "forward", "lookup", "notfound", "refused"}
  BY <1>1 DEF Honest
<1>5. c \in Callers /\ result[c] = "ok" => v = "accepted"
  BY <1>1 DEF Honest
<1>6. Honest(c)'
  BY <1>1, <1>2, <1>4, <1>5 DEF Honest, Verdict
<1>7. \A d \in Clients \ {c} : Honest(d)'
  BY <1>2 DEF Honest, Verdict
<1> QED BY <1>1, <1>2, <1>3, <1>6, <1>7 DEF Verdict

\* What the daemon does with a request, seen from the pod: at most a run ends.
LEMMA DaemonStepKinds ==
  ASSUME SendInv, DaemonStep
  PROVE  \E c \in Callers :
           /\ ClientTypeOK' /\ \A d \in Clients : Honest(d)'
           /\ UNCHANGED target /\ wire[c] = "sent" /\ target[c] \in Runs
           /\ \A d \in Clients \ {c} : wire'[d] = wire[d]
           /\ \/ /\ c \in Senders /\ wire'[c] = "accepted" /\ UNCHANGED podVars
                 /\ log' = Append(log, [from |-> c, run |-> target[c]])
              \/ c \notin Senders /\ UNCHANGED log /\ (UNCHANGED podVars \/ RunEnds(target[c]))
              \/ wire'[c] = "refused" /\ UNCHANGED log /\ UNCHANGED podVars
<1>1. PICK c \in Callers : AcceptMessage(c) \/ AcceptCancel(c) \/ AcceptTelemetry(c) \/ Turn(c)
  BY DEF DaemonStep
<1>2. ClientTypeOK /\ \A d \in Clients : Honest(d)
  BY DEF SendInv, TypeOK
<1>3. /\ Handling(c)
      /\ \/ AcceptMessage(c) /\ Verdict(c, "accepted")
         \/ AcceptCancel(c) /\ Verdict(c, "accepted")
         \/ AcceptTelemetry(c) /\ Verdict(c, "accepted")
         \/ Turn(c) /\ Verdict(c, "refused")
  BY <1>1 DEF AcceptMessage, AcceptCancel, AcceptTelemetry, Turn
<1>4. /\ ClientTypeOK' /\ \A d \in Clients : Honest(d)'
      /\ UNCHANGED target /\ wire[c] = "sent" /\ target[c] \in Runs
      /\ \A d \in Clients \ {c} : wire'[d] = wire[d]
  BY <1>2, <1>3, VerdictHonest
<1>5. CASE AcceptMessage(c)
  <2>1. wire'[c] = "accepted"
    BY <1>2, <1>3, <1>5, VerdictHonest DEF AcceptMessage
  <2> QED BY <1>4, <1>5, <2>1 DEF AcceptMessage
<1>6. CASE AcceptCancel(c)
  <2>1. RunEnds(target[c])
    BY <1>6 DEF AcceptCancel, RunEnds
  <2>2. c \notin Senders /\ UNCHANGED log
    BY <1>6 DEF AcceptCancel
  <2> QED BY <1>4, <2>1, <2>2
<1>7. CASE AcceptTelemetry(c)
  <2>1. c \notin Senders /\ UNCHANGED log /\ UNCHANGED podVars
    BY <1>7 DEF AcceptTelemetry
  <2> QED BY <1>4, <2>1
<1>8. CASE Turn(c)
  <2>1. Verdict(c, "refused") /\ UNCHANGED log /\ UNCHANGED podVars
    BY <1>8 DEF Turn
  <2>2. wire'[c] = "refused"
    BY <1>2, <1>3, <2>1, VerdictHonest
  <2> QED BY <1>4, <2>1, <2>2
<1> QED BY <1>1, <1>5, <1>6, <1>7, <1>8

\* Whatever happens in a session is, for the pod, one of its own steps.
LEMMA SessionStepsThePod ==
  ASSUME SendInv, Next
  PROVE  [PodNext]_podVars
<1>1. CASE (EntryStep \/ ClusterStep \/ UserRun) /\ PodOnly
  BY <1>1 DEF PodNext, UserRun
<1>2. CASE DaemonStep
  <2>1. UNCHANGED podVars \/ \E r \in Runs : RunEnds(r)
    BY <1>2, DaemonStepKinds
  <2> QED BY <2>1 DEF PodNext, ClusterStep
<1>3. ASSUME NEW c \in Clients, ClientStep(c) \/ Kill(c) PROVE [PodNext]_podVars
  <2>1. UNCHANGED podVars \/ \E n \in {0, 1} : Scale(n)
    BY <1>3, ClientStepIsOwn DEF SendInv
  <2>2. ASSUME NEW n \in {0, 1}, Scale(n) PROVE [PodNext]_podVars
    <3>1. CASE replicas = n BY <2>2, <3>1 DEF Scale, podVars
    <3>2. CASE replicas # n BY <2>2, <3>2 DEF PodNext
    <3> QED BY <3>1, <3>2
  <2> QED BY <2>1, <2>2
<1> QED BY <1>1, <1>2, <1>3 DEF Next

LEMMA PodTypesKept ==
  ASSUME PodTypeOK, [PodNext]_podVars
  PROVE  PodTypeOK'
<1>1. CASE PodNext BY <1>1, PodTypeStep
<1>2. CASE UNCHANGED podVars BY <1>2 DEF PodTypeOK, podVars
<1> QED BY <1>1, <1>2

\* The entries of the log are messages of senders.
LEMMA LogSenders ==
  ASSUME log \in Seq([from : Senders, run : Runs])
  PROVE  \A i \in DOMAIN log : log[i].from \in Senders
<1> SUFFICES ASSUME NEW i \in DOMAIN log PROVE log[i].from \in Senders
  OBVIOUS
<1> DEFINE S == [from : Senders, run : Runs]
<1>1. log[i] \in S
  <2> HIDE DEF S
  <2>1. log \in Seq(S)
    BY DEF S
  <2> QED BY <2>1
<1> QED BY <1>1

\* A step that appends nothing keeps the log in agreement with the verdicts.
LEMMA LogKept ==
  ASSUME SendInv, TypeOK', Kept, UNCHANGED log
  PROVE  SendInv'
<1>1. \A i \in DOMAIN log : log[i].from \in Clients
  BY LogSenders DEF SendInv, TypeOK
<1>2. \A i \in DOMAIN log' : /\ wire'[log'[i].from] = "accepted"
                            /\ log'[i].run = target'[log'[i].from]
  BY <1>1 DEF SendInv, Kept
<1>3. ASSUME NEW c \in Senders, wire'[c] = "accepted"
      PROVE  \E i \in DOMAIN log' : log'[i] = [from |-> c, run |-> target'[c]]
  <2>1. wire[c] = "accepted" /\ target'[c] = target[c]
    BY <1>3 DEF Kept
  <2> QED BY <2>1 DEF SendInv
<1>4. AtMostOnce'
  BY DEF SendInv, AtMostOnce
<1> QED BY <1>2, <1>3, <1>4 DEF SendInv, Kept

\* The step that matters: a message is accepted, and its sender is not in the log yet.
LEMMA LogAppended ==
  ASSUME SendInv, TypeOK', NEW c \in Senders,
         \A d \in Clients : Honest(d)',
         UNCHANGED target, wire[c] = "sent", wire'[c] = "accepted",
         \A d \in Clients \ {c} : wire'[d] = wire[d],
         log' = Append(log, [from |-> c, run |-> target[c]]), target[c] \in Runs
  PROVE  SendInv'
<1> DEFINE e == [from |-> c, run |-> target[c]]
           n == Len(log)
<1>1. /\ log \in Seq([from : Senders, run : Runs]) /\ e \in [from : Senders, run : Runs]
  BY DEF SendInv, TypeOK
<1>2. /\ n \in Nat /\ DOMAIN log = 1 .. n
      /\ DOMAIN log' = 1 .. n + 1 /\ log'[n + 1] = e
      /\ \A i \in 1 .. n : log'[i] = log[i]
  BY <1>1
<1>3. \A i \in 1 .. n : /\ log[i].from \in Senders /\ wire[log[i].from] = "accepted"
                       /\ log[i].run = target[log[i].from]
  BY <1>1, <1>2, LogSenders DEF SendInv
<1>4. \A i \in 1 .. n : log[i].from # c
  BY <1>3
<1>5. \A i \in DOMAIN log' : /\ wire'[log'[i].from] = "accepted"
                            /\ log'[i].run = target'[log'[i].from]
  <2>1. \A i \in 1 .. n : /\ wire'[log'[i].from] = "accepted"
                         /\ log'[i].run = target'[log'[i].from]
    BY <1>2, <1>3, <1>4
  <2>2. log'[n + 1].from = c /\ log'[n + 1].run = target[c]
    BY <1>2
  <2>3. \A i \in 1 .. n + 1 : i \in 1 .. n \/ i = n + 1
    BY <1>2
  <2> QED BY <1>2, <2>1, <2>2, <2>3
<1>6. ASSUME NEW d \in Senders, wire'[d] = "accepted"
      PROVE  \E i \in DOMAIN log' : log'[i] = [from |-> d, run |-> target'[d]]
  <2>1. CASE d = c BY <1>2, <2>1
  <2>2. CASE d # c
    <3>1. PICK i \in DOMAIN log : log[i] = [from |-> d, run |-> target[d]]
      BY <1>6, <2>2 DEF SendInv
    <3> QED BY <1>2, <3>1
  <2> QED BY <2>1, <2>2
<1>7. AtMostOnce'
  <2>1. \A i, j \in 1 .. n : log[i].from = log[j].from => i = j
    BY <1>2 DEF SendInv, AtMostOnce
  <2>2. \A i, j \in 1 .. n + 1 : log'[i].from = log'[j].from => i = j
    <3> SUFFICES ASSUME NEW i \in 1 .. n + 1, NEW j \in 1 .. n + 1, log'[i].from = log'[j].from
                 PROVE  i = j
      OBVIOUS
    <3>1. CASE i \in 1 .. n /\ j \in 1 .. n BY <1>2, <2>1, <3>1
    <3>2. CASE i = n + 1 /\ j \in 1 .. n BY <1>2, <1>4, <3>2
    <3>3. CASE j = n + 1 /\ i \in 1 .. n BY <1>2, <1>4, <3>3
    <3>4. CASE i = n + 1 /\ j = n + 1 BY <3>4
    <3> QED BY <1>2, <3>1, <3>2, <3>3, <3>4
  <2> QED BY <1>2, <2>2 DEF AtMostOnce
<1> QED BY <1>5, <1>6, <1>7 DEF SendInv

LEMMA SendInvStep ==
  ASSUME SendInv, Next
  PROVE  SendInv'
<1>1. PodTypeOK'
  BY SessionStepsThePod, PodTypesKept DEF SendInv, TypeOK
<1>2. ClientTypeOK /\ (\A d \in Clients : Honest(d)) /\ log \in Seq([from : Senders, run : Runs])
  BY DEF SendInv, TypeOK
<1>3. CASE (EntryStep \/ ClusterStep \/ UserRun) /\ PodOnly
  <2>1. UNCHANGED clientVars /\ UNCHANGED log
    BY <1>3 DEF PodOnly
  <2>2. ClientTypeOK' /\ Kept
    BY <1>2, <2>1 DEF clientVars, ClientTypeOK, Kept, Honest
  <2> QED BY <1>1, <1>2, <2>1, <2>2, LogKept DEF TypeOK
<1>4. ASSUME NEW c \in Clients, ClientStep(c) \/ Kill(c) PROVE SendInv'
  <2>1. OwnStep(c) /\ UNCHANGED log
    BY <1>4, ClientStepIsOwn DEF SendInv
  <2>2. ClientTypeOK' /\ Kept
    BY <1>2, <2>1, ClientTypeStep, OwnStepHonest
  <2> QED BY <1>1, <1>2, <2>1, <2>2, LogKept DEF TypeOK
<1>5. CASE DaemonStep
  <2>1. PICK c \in Callers :
           /\ ClientTypeOK' /\ \A d \in Clients : Honest(d)'
           /\ UNCHANGED target /\ wire[c] = "sent" /\ target[c] \in Runs
           /\ \A d \in Clients \ {c} : wire'[d] = wire[d]
           /\ \/ /\ c \in Senders /\ wire'[c] = "accepted" /\ UNCHANGED podVars
                 /\ log' = Append(log, [from |-> c, run |-> target[c]])
              \/ c \notin Senders /\ UNCHANGED log
              \/ wire'[c] = "refused" /\ UNCHANGED log
    BY <1>5, DaemonStepKinds
  <2>2. CASE c \in Senders /\ wire'[c] = "accepted" /\ log' = Append(log, [from |-> c, run |-> target[c]])
    <3>1. log' \in Seq([from : Senders, run : Runs])
      BY <1>2, <2>1, <2>2
    <3> QED BY <1>1, <2>1, <2>2, <3>1, LogAppended DEF TypeOK
  <2>3. CASE wire'[c] = "refused" /\ UNCHANGED log
    <3>1. Kept
      BY <2>1, <2>3 DEF Kept
    <3> QED BY <1>1, <1>2, <2>1, <2>3, <3>1, LogKept DEF TypeOK
  <2>4. CASE c \notin Senders /\ UNCHANGED log /\ wire'[c] = "accepted"
    <3>1. TypeOK'
      BY <1>1, <1>2, <2>1, <2>4 DEF TypeOK
    <3>2. \A i \in DOMAIN log : log[i].from \in Senders
      BY <1>2, LogSenders
    <3>3. \A i \in DOMAIN log' : /\ wire'[log'[i].from] = "accepted"
                                /\ log'[i].run = target'[log'[i].from]
      BY <2>1, <2>4, <3>2 DEF SendInv
    <3>4. \A d \in Senders : wire'[d] = "accepted" =>
             \E i \in DOMAIN log' : log'[i] = [from |-> d, run |-> target'[d]]
      BY <2>1, <2>4 DEF SendInv
    <3>5. AtMostOnce'
      BY <2>4 DEF SendInv, AtMostOnce
    <3> QED BY <2>1, <3>1, <3>3, <3>4, <3>5 DEF SendInv
  <2>5. wire'[c] \in {"none", "sent", "accepted", "refused"}
    BY <2>1 DEF ClientTypeOK
  <2>6. CASE c \notin Senders /\ UNCHANGED log /\ wire'[c] # "accepted"
    <3>1. Kept
      BY <2>1, <2>6 DEF Kept
    <3> QED BY <1>1, <1>2, <2>1, <2>6, <3>1, LogKept DEF TypeOK
  <2> QED BY <2>1, <2>2, <2>3, <2>4, <2>6
<1> QED BY <1>3, <1>4, <1>5 DEF Next

LEMMA SendInvInit == Init => SendInv
<1> SUFFICES ASSUME Init PROVE SendInv
  OBVIOUS
<1>1. PodTypeOK
  BY InitPodInv DEF Init, PodInv
<1>2. ClientTypeOK
  <2> USE PodsAssumption DEF Init, ClientInit
  <2>1. /\ route \in [Clients -> 0 .. MaxPods] /\ conn \in [Clients -> 0 .. MaxPods]
        /\ source \in [Clients -> 0 .. MaxPods]
        /\ tries \in [Clients -> 0 .. MaxTries] /\ \A c \in Clients : tries[c] < MaxTries
    OBVIOUS
  <2>2. /\ pc \in [Clients -> PCs] /\ result \in [Clients -> Results]
    BY DEF PCs, Results
  <2>3. /\ seen \in [Clients -> SUBSET Runs]
        /\ target \in [Clients -> Runs \cup {NoRun}]
        /\ wire \in [Clients -> {"none", "sent", "accepted", "refused"}]
    OBVIOUS
  <2> QED BY <2>1, <2>2, <2>3 DEF ClientTypeOK
<1>3. \A c \in Clients : Honest(c)
  BY DEF Init, ClientInit, Honest
<1>4. log = << >> /\ \A c \in Senders : wire[c] = "none"
  BY DEF Init, ClientInit
<1> QED BY <1>1, <1>2, <1>3, <1>4 DEF SendInv, TypeOK, AtMostOnce

LEMMA SendInvStutter == ASSUME SendInv, UNCHANGED vars PROVE SendInv'
<1>1. /\ UNCHANGED podVars /\ UNCHANGED clientVars /\ UNCHANGED log
  BY DEF vars
<1>2. TypeOK'
  BY <1>1 DEF SendInv, TypeOK, PodTypeOK, ClientTypeOK, podVars, clientVars
<1>3. Kept
  BY <1>1 DEF SendInv, Kept, Honest, clientVars
<1> QED BY <1>1, <1>2, <1>3, LogKept

-----------------------------------------------------------------------------
\* What every reachable state of a session satisfies: the types, processes whose reports
\* agree with the daemon's verdicts, and a log that agrees with both.
THEOREM SendInvariant == Spec => []SendInv
<1>1. Init => SendInv BY SendInvInit
<1>2. SendInv /\ [Next]_vars => SendInv' BY SendInvStep, SendInvStutter
<1> QED BY <1>1, <1>2, PTL DEF Spec

\* Every variable of a session keeps its type.
THEOREM SessionTypes == Spec => []TypeOK
<1>1. SendInv => TypeOK BY DEF SendInv
<1> QED BY <1>1, SendInvariant, PTL

\* No message is accepted twice, for any number of senders and any interleaving with
\* timeouts, kills and pods that come and go.
THEOREM MessagesAtMostOnce == Spec => []AtMostOnce
<1>1. SendInv => AtMostOnce BY DEF SendInv
<1> QED BY <1>1, SendInvariant, PTL

\* A send that reported success has had its message accepted by the run it looked up.
THEOREM SuccessIsTrue == Spec => []OkMeansAccepted
<1>1. SendInv => OkMeansAccepted BY DEF SendInv, Honest, OkMeansAccepted
<1> QED BY <1>1, SendInvariant, PTL

\* A send that reported any error but a failed request has left nothing behind.
THEOREM ErrorIsTrue == Spec => []ErrorMeansNotAccepted
<1>1. ASSUME SendInv, NEW c \in Senders,
             result[c] \in {"usage", "kubectl", "forward", "lookup", "notfound", "refused"}
      PROVE  wire[c] # "sent" /\ \A i \in DOMAIN log : log[i].from # c
  <2>1. wire[c] \in {"none", "refused"}
    BY <1>1 DEF SendInv, Honest
  <2> QED BY <1>1, <2>1 DEF SendInv
<1>2. SendInv => ErrorMeansNotAccepted
  BY <1>1 DEF ErrorMeansNotAccepted
<1> QED BY <1>2, SendInvariant, PTL

\* A session implements the pod's specification: what PodIsSafe says holds in it too.
THEOREM SessionImplementsPod == Spec => PodSafety
<1>1. Init => PodInit BY DEF Init
<1>2. SendInv /\ [Next]_vars => [PodNext]_podVars
  BY SessionStepsThePod DEF vars
<1> QED BY <1>1, <1>2, SendInvariant, PTL DEF Spec, PodSafety

\* What Generations promises, a session keeps too: whatever its commands do, no pod loads
\* its spec twice and no run outlives its pod.
THEOREM SessionKeepsPromise == Spec => GenerationsSpec
BY SessionImplementsPod, PodImplementsGenerations, PTL

-----------------------------------------------------------------------------
(* How long a command may take.                                                *)

LEMMA WorkLeftBounded ==
  ASSUME ClientTypeOK, NEW c \in Clients
  PROVE  WorkLeft(c) \in 0 .. 2 * MaxTries + 5
<1>1. tries[c] \in 0 .. MaxTries /\ MaxTries \in Nat
  BY DEF ClientTypeOK
<1> QED BY <1>1 DEF WorkLeft

\* A step of a command takes it nearer to its end; a failed attempt to look up its run
\* takes one of the attempts it has.
LEMMA OwnStepAdvances ==
  ASSUME ClientTypeOK, NEW c \in Clients, OwnStep(c)
  PROVE  /\ WorkLeft(c)' < WorkLeft(c)
         /\ \A d \in Clients \ {c} : pc'[d] = pc[d] /\ tries'[d] = tries[d]
<1>1. \A d \in Clients \ {c} : pc'[d] = pc[d] /\ tries'[d] = tries[d]
  BY DEF OwnStep, BadUsage, TokenRead, TokenUnreadable, ListFails, ListRejected, NotOneRun, OnlyRun,
         RequestFails, ReplyRead, Killed, Scaled, ForwardFails, Resolved, ListServed, RequestSent,
         ClientTypeOK, At, Goto, End
<1>2. /\ tries[c] \in 0 .. MaxTries /\ MaxTries \in Nat \ {0}
      /\ pc[c] \in {"start", "endpoint", "list", "listed"} => tries[c] < MaxTries
      /\ pc[c] \in PCs /\ DOMAIN pc = Clients /\ DOMAIN tries = Clients
  BY DEF ClientTypeOK
<1>3. \/ pc'[c] = "done" /\ pc[c] # "done"
      \/ pc[c] = "start" /\ pc'[c] = "endpoint" /\ tries'[c] = tries[c]
      \/ pc[c] = "endpoint" /\ pc'[c] \in {"list", "parked"} /\ tries'[c] = tries[c]
      \/ pc[c] = "list" /\ pc'[c] = "listed" /\ tries'[c] = tries[c]
      \/ pc[c] \in {"list", "listed"} /\ pc'[c] = "list" /\ tries'[c] = tries[c] + 1
      \/ pc[c] = "listed" /\ pc'[c] = "request"
      \/ pc[c] = "request" /\ pc'[c] = "sent"
  BY <1>2 DEF OwnStep, BadUsage, TokenRead, TokenUnreadable, ListFails, ListRejected, NotOneRun, OnlyRun,
         RequestFails, ReplyRead, Killed, Scaled, ForwardFails, Resolved, ListServed, RequestSent,
         At, Goto, End
<1>4. WorkLeft(c)' < WorkLeft(c)
  BY <1>2, <1>3 DEF WorkLeft, PCs
<1> QED BY <1>1, <1>4

\* No command makes more than 2 * MaxTries + 5 steps, so none asks a daemon without end.
THEOREM CommandsAreBounded ==
  Spec => CommandsAdvance /\ [](\A c \in Clients : WorkLeft(c) \in 0 .. 2 * MaxTries + 5)
<1>1. ASSUME TypeOK, [Next]_vars, NEW c \in Clients, <<pc'[c], tries'[c]>> # <<pc[c], tries[c]>>
      PROVE  WorkLeft(c)' < WorkLeft(c)
  <2>1. CASE \/ (EntryStep \/ ClusterStep \/ UserRun) /\ PodOnly
             \/ DaemonStep \/ UNCHANGED vars
    BY <1>1, <2>1 DEF PodOnly, DaemonStep, AcceptMessage, AcceptCancel, AcceptTelemetry, Turn, Verdict,
                      clientVars, vars
  <2>2. ASSUME NEW d \in Clients, ClientStep(d) \/ Kill(d) PROVE WorkLeft(c)' < WorkLeft(c)
    <3>1. OwnStep(d) /\ ClientTypeOK
      BY <1>1, <2>2, ClientStepIsOwn DEF TypeOK
    <3> QED BY <1>1, <3>1, OwnStepAdvances
  <2> QED BY <1>1, <2>1, <2>2 DEF Next
<1>2. TypeOK /\ [Next]_vars
        => [\A c \in Clients : <<pc'[c], tries'[c]>> # <<pc[c], tries[c]>>
              => WorkLeft(c)' < WorkLeft(c)]_vars
  BY <1>1
<1>3. TypeOK => \A c \in Clients : WorkLeft(c) \in 0 .. 2 * MaxTries + 5
  BY WorkLeftBounded DEF TypeOK
<1> QED BY <1>2, <1>3, SessionTypes, PTL DEF Spec, CommandsAdvance
=============================================================================
