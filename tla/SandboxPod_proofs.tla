-------------------------- MODULE SandboxPod_proofs --------------------------
(* SandboxPod for every number of pods, every set of runs and every length of   *)
(* the wait loop: the types, and the inductive invariant PodInv with what it    *)
(* implies.                                                                     *)
EXTENDS SandboxPod, TLAPS

USE DEF Pods

\* Every step of the pod keeps the types, so do the steps of whoever embeds it.
LEMMA PodTypeStep ==
  ASSUME PodTypeOK, PodNext
  PROVE  PodTypeOK'
<1> USE PodsAssumption, PollAssumption DEF PodTypeOK, RunStates, EntryStates
<1>1. ASSUME EntryStep PROVE PodTypeOK'
  <2>1. CASE StartDaemon BY <2>1 DEF StartDaemon
  <2>2. CASE PollSucceeds BY <2>2 DEF PollSucceeds
  <2>3. CASE PollFails BY <2>3 DEF PollFails
  <2>8. CASE StartFails BY <2>8 DEF StartFails, Exit, RunsGone
  <2>4. ASSUME NEW r \in Runs, SpecAccepted(r) PROVE PodTypeOK'
    BY <2>4 DEF SpecAccepted, NewRun
  <2>5. CASE SpecAnswered BY <2>5 DEF SpecAnswered
  <2>6. CASE SpecPostFails BY <2>6 DEF SpecPostFails, Exit, RunsGone
  <2>7. CASE WaitReturns BY <2>7 DEF WaitReturns, Exit, RunsGone
  <2> QED BY <1>1, <2>1, <2>2, <2>3, <2>4, <2>5, <2>6, <2>7, <2>8 DEF EntryStep
<1>2. ASSUME ClusterStep PROVE PodTypeOK'
  <2>1. CASE PodCreated BY <2>1 DEF PodCreated
  <2>2. CASE PodDeleted BY <2>2 DEF PodDeleted, PodGone, RunsGone
  <2>3. CASE PodLost BY <2>3 DEF PodLost, PodGone, RunsGone
  <2>4. CASE Probe BY <2>4 DEF Probe
  <2>5. CASE DaemonListens BY <2>5 DEF DaemonListens
  <2>6. CASE DaemonDies BY <2>6 DEF DaemonDies, RunsGone
  <2>7. ASSUME NEW r \in Runs, RunEnds(r) \/ RunDelisted(r) PROVE PodTypeOK'
    BY <2>7 DEF RunEnds, RunDelisted
  <2> QED BY <1>2, <2>1, <2>2, <2>3, <2>4, <2>5, <2>6, <2>7 DEF ClusterStep
<1>3. ASSUME NEW r \in Runs, UserPosts(r) PROVE PodTypeOK'
  BY <1>3 DEF UserPosts, NewRun
<1>4. ASSUME NEW n \in {0, 1}, Scale(n) PROVE PodTypeOK'
  BY <1>4 DEF Scale
<1> QED BY <1>1, <1>2, <1>3, <1>4 DEF PodNext

\* When the runs of a pod go none is left alive, and which runs were born stays recorded.
LEMMA RunsGoneLeavesNone ==
  ASSUME PodTypeOK, RunsGone,
         \A r \in Runs : state[r] \in {"active", "over"} => host[r] = pod
  PROVE  /\ \A r \in Runs : state'[r] \notin {"active", "over"}
         /\ \A r \in Runs : state'[r] = "unborn" <=> state[r] = "unborn"
<1>1. \A r \in Runs : state'[r] = IF host[r] = pod /\ state[r] # "unborn" THEN "gone" ELSE state[r]
  BY DEF RunsGone
<1> QED BY <1>1 DEF PodTypeOK

LEMMA InitPodInv == PodInit => PodInv
<1> SUFFICES ASSUME PodInit PROVE PodInv
  OBVIOUS
<1>1. PodTypeOK
  <2>1. /\ state \in [Runs -> RunStates]
        /\ host \in [Runs -> 0 .. MaxPods]
        /\ origin \in [Runs -> {"spec", "user"}]
    BY PodsAssumption DEF PodInit, RunStates
  <2>2. /\ replicas \in {0, 1} /\ pod \in 0 .. MaxPods
        /\ polls \in 0 .. PollLimit /\ polls < PollLimit
    BY PodsAssumption, PollAssumption DEF PodInit
  <2> QED BY <2>1, <2>2 DEF PodInit, PodTypeOK, EntryStates
<1>2. \A r \in Runs : state[r] = "unborn"
  BY DEF PodInit
<1>3. \A p : SpecRuns(p) = {}
  BY <1>2 DEF SpecRuns
<1>4. phase = "none" /\ entry = "none" /\ daemon = "down"
  BY DEF PodInit
<1> QED BY <1>1, <1>2, <1>3, <1>4 DEF PodInv, OneLoadPerPod

\* Steps that neither create a run nor end a pod.
LEMMA QuietStep ==
  ASSUME PodInv, PodTypeOK', UNCHANGED <<pod, phase, host, origin>>,
         entry' \in EntryStates,
         \/ entry' = entry
         \/ entry \in {"start", "polling"} /\ entry' \in {"polling", "posting"}
         \/ entry = "loaded" /\ entry' = "waiting",
         daemon' # "down" => phase = "running" /\ entry' # "start",
         \A r \in Runs : state'[r] = "unborn" <=> state[r] = "unborn",
         \A r \in Runs : state'[r] \in {"active", "over"} =>
                           state[r] \in {"active", "over"} /\ (daemon = "up" => daemon' = "up")
  PROVE  PodInv'
BY DEF PodInv, SpecRuns, OneLoadPerPod, Serving, EntryStates

\* The pod ends or goes away, and its runs with it.
LEMMA EndStep ==
  ASSUME PodInv, PodTypeOK', RunsGone, UNCHANGED <<pod, host, origin>>,
         daemon' = "down",
         \/ phase # "none" /\ phase' = "ended" /\ entry' = "exited"
         \/ phase' = "none" /\ entry' = "none"
  PROVE  PodInv'
<1>1. /\ \A r \in Runs : state'[r] \notin {"active", "over"}
      /\ \A r \in Runs : state'[r] = "unborn" <=> state[r] = "unborn"
  BY RunsGoneLeavesNone DEF PodInv
<1> QED BY <1>1 DEF PodInv, SpecRuns, OneLoadPerPod, EntryStates

\* The daemon registers a run; a spec run is its pod's first.
LEMMA NewRunStep ==
  ASSUME PodInv, PodTypeOK', NEW r \in Runs, NEW by \in {"spec", "user"},
         NewRun(r, by), Serving,
         state[r] = "unborn" \/ (by = "user" /\ host[r] # pod),
         UNCHANGED <<pod, phase, daemon>>,
         \/ by = "user" /\ entry' = entry
         \/ by = "spec" /\ entry = "posting" /\ entry' = "loaded"
  PROVE  PodInv'
<1>1. /\ state'[r] = "active" /\ host'[r] = pod /\ origin'[r] = by
      /\ \A s \in Runs \ {r} : state'[s] = state[s] /\ host'[s] = host[s] /\ origin'[s] = origin[s]
  BY DEF NewRun, PodInv, PodTypeOK
<1>2. pod \in Pods /\ phase = "running" /\ daemon = "up"
  BY DEF PodInv, Serving
<1>3. \A s \in Runs : state'[s] # "unborn" => host'[s] \in Pods /\ host'[s] <= pod
  BY <1>1, <1>2, PodsAssumption DEF PodInv
<1>4. \A s \in Runs : state'[s] \in {"active", "over"} => host'[s] = pod
  BY <1>1 DEF PodInv
<1>6. CASE by = "user"
  <2>1. \A p : SpecRuns(p)' \subseteq SpecRuns(p)
    BY <1>1, <1>6 DEF SpecRuns
  <2>2. SpecRuns(pod)' = SpecRuns(pod)
    BY <1>1, <1>6 DEF SpecRuns
  <2>3. OneLoadPerPod'
    BY <2>1 DEF PodInv, OneLoadPerPod
  <2> QED BY <1>2, <1>3, <1>4, <1>6, <2>2, <2>3 DEF PodInv, Serving
<1>7. CASE by = "spec"
  <2>1. \A s \in Runs : ~ (state[s] # "unborn" /\ host[s] = pod /\ origin[s] = "spec")
    BY <1>7 DEF PodInv, SpecRuns
  <2>2. OneLoadPerPod'
    BY <1>1, <2>1 DEF PodInv, SpecRuns, OneLoadPerPod
  <2>3. r \in SpecRuns(pod)'
    BY <1>1, <1>7 DEF SpecRuns
  <2> QED BY <1>2, <1>3, <1>4, <1>7, <2>2, <2>3 DEF PodInv, Serving
<1> QED BY <1>6, <1>7

LEMMA EntryPodInv == ASSUME PodInv, PodTypeOK', EntryStep PROVE PodInv'
<1> USE DEF EntryStates
<1>1. CASE StartDaemon
  <2>1. daemon = "down" /\ phase = "running"
    BY <1>1 DEF StartDaemon, PodInv
  <2>2. \A r \in Runs : state[r] \notin {"active", "over"}
    BY <2>1 DEF PodInv, Serving
  <2>3. /\ UNCHANGED <<pod, phase, host, origin>> /\ state' = state
        /\ entry = "start" /\ entry' = "polling" /\ entry' \in EntryStates
    BY <1>1 DEF StartDaemon
  <2> QED BY <2>1, <2>2, <2>3, QuietStep
<1>2. CASE PollSucceeds
  <2>1. /\ UNCHANGED <<pod, phase, host, origin>> /\ state' = state /\ daemon' = daemon
        /\ entry = "polling" /\ entry' = "posting" /\ entry' \in EntryStates
    BY <1>2 DEF PollSucceeds
  <2>2. daemon # "down" => phase = "running"
    BY DEF PodInv
  <2> QED BY <2>1, <2>2, QuietStep
<1>3. CASE PollFails
  <2>1. /\ UNCHANGED <<pod, phase, host, origin>> /\ state' = state /\ daemon' = daemon
        /\ entry = "polling" /\ entry' \in {"polling", "posting"} /\ entry' \in EntryStates
    BY <1>3 DEF PollFails
  <2>2. daemon # "down" => phase = "running"
    BY DEF PodInv
  <2> QED BY <2>1, <2>2, QuietStep
<1>4. ASSUME NEW r \in Runs, SpecAccepted(r) PROVE PodInv'
  <2>1. Serving
    BY <1>4 DEF SpecAccepted, PodInv, Serving
  <2> QED BY <1>4, <2>1, NewRunStep DEF SpecAccepted
<1>8. CASE StartFails
  BY <1>8, EndStep DEF StartFails, Exit, PodInv
<1>5. CASE SpecAnswered BY <1>5, QuietStep DEF SpecAnswered, PodInv
<1>6. CASE SpecPostFails
  BY <1>6, EndStep DEF SpecPostFails, Exit, PodInv
<1>7. CASE WaitReturns
  BY <1>7, EndStep DEF WaitReturns, Exit, PodInv
<1> QED BY <1>1, <1>2, <1>3, <1>4, <1>5, <1>6, <1>7, <1>8 DEF EntryStep

LEMMA ClusterPodInv == ASSUME PodInv, PodTypeOK', ClusterStep PROVE PodInv'
<1>1. CASE PodCreated
  <2>1. /\ pod' = pod + 1 /\ pod' \in Pods /\ phase = "none" /\ daemon = "down"
        /\ phase' = "running" /\ entry' = "start" /\ UNCHANGED <<daemon, state, host, origin>>
    BY <1>1, PodsAssumption DEF PodCreated, PodInv, PodTypeOK
  <2>2. \A r \in Runs : state[r] \notin {"active", "over"}
    BY <2>1 DEF PodInv, Serving
  <2>3. \A r \in Runs : state[r] # "unborn" => host[r] # pod' /\ host[r] \in Pods /\ host[r] <= pod'
    BY <2>1, PodsAssumption DEF PodInv, PodTypeOK
  <2> QED BY <2>1, <2>2, <2>3 DEF PodInv, SpecRuns, OneLoadPerPod, EntryStates
<1>2. CASE PodDeleted
  BY <1>2, EndStep DEF PodDeleted, PodGone
<1>3. CASE PodLost
  BY <1>3, EndStep DEF PodLost, PodGone
<1>4. CASE Probe BY <1>4, QuietStep DEF Probe, PodInv, PodTypeOK
<1>5. CASE DaemonListens
  BY <1>5, QuietStep DEF DaemonListens, PodInv, PodTypeOK
<1>6. CASE DaemonDies
  <2>1. /\ \A r \in Runs : state'[r] \notin {"active", "over"}
        /\ \A r \in Runs : state'[r] = "unborn" <=> state[r] = "unborn"
    BY <1>6, RunsGoneLeavesNone DEF DaemonDies, PodInv
  <2> QED BY <1>6, <2>1, QuietStep DEF DaemonDies, PodInv, PodTypeOK
<1>7. ASSUME NEW r \in Runs, RunEnds(r) \/ RunDelisted(r) PROVE PodInv'
  <2>1. /\ state[r] \in {"active", "over"} /\ state'[r] \in {"over", "gone"}
        /\ \A s \in Runs \ {r} : state'[s] = state[s]
    BY <1>7 DEF RunEnds, RunDelisted, PodInv, PodTypeOK
  <2>2. UNCHANGED <<pod, phase, entry, daemon, host, origin>>
    BY <1>7 DEF RunEnds, RunDelisted
  <2>3. entry \in EntryStates /\ (daemon # "down" => phase = "running" /\ entry # "start")
    BY DEF PodInv, PodTypeOK
  <2>4. \A s \in Runs : state'[s] = "unborn" <=> state[s] = "unborn"
    BY <2>1
  <2>5. \A s \in Runs : state'[s] \in {"active", "over"} => state[s] \in {"active", "over"}
    BY <2>1
  <2> QED BY <2>2, <2>3, <2>4, <2>5, QuietStep
<1> QED BY <1>1, <1>2, <1>3, <1>4, <1>5, <1>6, <1>7 DEF ClusterStep

LEMMA PodInvStep == ASSUME PodInv, PodNext PROVE PodInv'
<1>1. PodTypeOK'
  BY PodTypeStep DEF PodInv
<1>2. CASE EntryStep BY <1>1, <1>2, EntryPodInv
<1>3. CASE ClusterStep BY <1>1, <1>3, ClusterPodInv
<1>4. ASSUME NEW r \in Runs, UserPosts(r) PROVE PodInv'
  BY <1>1, <1>4, NewRunStep DEF UserPosts
<1>5. ASSUME NEW n \in {0, 1}, Scale(n) PROVE PodInv'
  BY <1>1, <1>5, QuietStep DEF Scale, PodInv, PodTypeOK
<1> QED BY <1>2, <1>3, <1>4, <1>5 DEF PodNext

LEMMA PodInvStutter == ASSUME PodInv, UNCHANGED podVars PROVE PodInv'
BY DEF PodInv, PodTypeOK, podVars, SpecRuns, OneLoadPerPod, Serving

\* The entrypoint of every pod keeps what PodInv says, in particular the types.
THEOREM PodInvariant == PodSafety => []PodInv
<1>1. PodInit => PodInv BY InitPodInv
<1>2. PodInv /\ [PodNext]_podVars => PodInv' BY PodInvStep, PodInvStutter
<1> QED BY <1>1, <1>2, PTL DEF PodSafety

\* What PodInv says of the entrypoint and of the runs, as the properties state it.
THEOREM PodIsSafe == PodSafety => [](PodTypeOK /\ OneLoadPerPod /\ WaitingMeansLoaded)
<1>1. PodInv => PodTypeOK /\ OneLoadPerPod /\ WaitingMeansLoaded
  BY DEF PodInv, WaitingMeansLoaded
<1> QED BY <1>1, PodInvariant, PTL

\* Type correctness of the pod, with the bound of the wait loop.
THEOREM PodTypes == PodSpec => []PodTypeOK
BY PodIsSafe, PTL DEF PodSpec

\* No pod ever loads the spec twice.
THEOREM PodLoadsOnce == PodSpec => []OneLoadPerPod
BY PodIsSafe, PTL DEF PodSpec

\* An entrypoint in `wait` has had its spec accepted.
THEOREM PodWaitsLoaded == PodSpec => []WaitingMeansLoaded
BY PodIsSafe, PTL DEF PodSpec

-----------------------------------------------------------------------------
(* How long a boot may take.                                                   *)

LEMMA BootLeftBounded == PodTypeOK => BootLeft \in 0 .. PollLimit + 4
BY PollAssumption DEF PodTypeOK, BootLeft

\* Each step of the script takes one of the PollLimit + 4 it has at most; only the
\* arrival of another pod, or the end of this one, does anything else to it.
LEMMA BootStep ==
  ASSUME PodTypeOK, [PodNext]_podVars, pod' = pod, entry' # "none",
         <<entry', polls'>> # <<entry, polls>>
  PROVE  BootLeft' < BootLeft
<1>3. \/ EntryStep \/ ClusterStep \/ UNCHANGED podVars \/ \E r \in Runs : UserPosts(r)
      \/ \E n \in {0, 1} : Scale(n)
  BY DEF PodNext
<1> USE PollAssumption DEF PodTypeOK, BootLeft
<1>1. CASE EntryStep
  <2>1. CASE StartDaemon BY <2>1 DEF StartDaemon
  <2>2. CASE PollSucceeds BY <2>2 DEF PollSucceeds
  <2>3. CASE PollFails BY <2>3 DEF PollFails
  <2>4. CASE \E r \in Runs : SpecAccepted(r) BY <2>4 DEF SpecAccepted
  <2>5. CASE SpecAnswered BY <2>5 DEF SpecAnswered
  <2>6. CASE StartFails \/ SpecPostFails \/ WaitReturns
    BY <2>6 DEF StartFails, SpecPostFails, WaitReturns, Exit
  <2> QED BY <1>1, <2>1, <2>2, <2>3, <2>4, <2>5, <2>6 DEF EntryStep
<1>2. CASE \/ ClusterStep \/ UNCHANGED podVars \/ \E r \in Runs : UserPosts(r)
           \/ \E n \in {0, 1} : Scale(n)
  <2>1. pod' # pod \/ entry' = "none" \/ UNCHANGED <<entry, polls>>
    BY <1>2 DEF ClusterStep, PodCreated, PodDeleted, PodLost, PodGone, Probe, DaemonListens,
                DaemonDies, RunEnds, RunDelisted, UserPosts, Scale, podVars
  <2> QED BY <2>1
<1> QED BY <1>1, <1>2, <1>3

\* A boot makes a bounded number of steps, whatever the daemon answers.
THEOREM BootIsBounded == PodSpec => BootAdvances /\ [](BootLeft \in 0 .. PollLimit + 4)
<1>1. PodTypeOK /\ [PodNext]_podVars
        => [pod' = pod /\ entry' # "none" /\ <<entry', polls'>> # <<entry, polls>>
              => BootLeft' < BootLeft]_podVars
  BY BootStep
<1>2. PodTypeOK => BootLeft \in 0 .. PollLimit + 4
  BY BootLeftBounded
<1> QED BY <1>1, <1>2, PodTypes, PTL DEF PodSpec, PodSafety, BootAdvances

-----------------------------------------------------------------------------
(* The pods of a Sandbox are the generations of Generations.                   *)

Live == {r \in Runs : state[r] = "active"}
Used == {r \in Runs : state[r] # "unborn" /\ host[r] = pod}

\* A step that brings no run and no pod: which runs the pod has had, and whether the spec
\* is loaded, stays.
LEMMA SameRuns ==
  ASSUME UNCHANGED <<pod, host, origin>>,
         \A r \in Runs : state'[r] = "unborn" <=> state[r] = "unborn"
  PROVE  UNCHANGED <<pod, Used, SpecRuns(pod)>>
BY DEF Used, SpecRuns

\* The end of a container is the end of its generation, unless it had ended before.
LEMMA EndPromise ==
  ASSUME PodInv, RunsGone, UNCHANGED <<pod, host, origin>>, phase # "none",
         phase' \in {"ended", "none"}
  PROVE  [Promise!Next]_(Promise!genVars)
<1>1. /\ \A r \in Runs : state'[r] \notin {"active", "over"}
      /\ \A r \in Runs : state'[r] = "unborn" <=> state[r] = "unborn"
  BY RunsGoneLeavesNone DEF PodInv
<1>2. Live' = {} /\ UNCHANGED <<pod, Used, SpecRuns(pod)>>
  BY <1>1, SameRuns DEF Live
<1>3. CASE phase = "running"
  <2>1. Promise!Stops
    BY <1>2, <1>3 DEF Promise!Stops, Live, Used
  <2> QED BY <2>1 DEF Promise!Next
<1>4. CASE phase # "running"
  <2>1. Live = {}
    BY <1>4 DEF PodInv, Serving, Live
  <2> QED BY <1>2, <1>4, <2>1 DEF Promise!genVars, Live, Used
<1> QED BY <1>3, <1>4

LEMMA NewRunPromise ==
  ASSUME PodInv, NEW r \in Runs, NEW by \in {"spec", "user"}, NewRun(r, by), Serving,
         state[r] = "unborn" \/ (by = "user" /\ host[r] # pod),
         UNCHANGED <<pod, phase>>, by = "spec" => SpecRuns(pod) = {}
  PROVE  Promise!Next
<1>1. /\ state'[r] = "active" /\ host'[r] = pod /\ origin'[r] = by
      /\ \A s \in Runs \ {r} : state'[s] = state[s] /\ host'[s] = host[s] /\ origin'[s] = origin[s]
  BY DEF NewRun, PodInv, PodTypeOK
<1>2. r \notin Used /\ Live' = Live \cup {r} /\ Used' = Used \cup {r}
  BY <1>1 DEF Live, Used
<1>3. Promise!Accepts(r)
  BY <1>2 DEF Promise!Accepts, Serving, Live, Used
<1>4. CASE by = "spec"
  <2>1. SpecRuns(pod) = {} /\ SpecRuns(pod)' = {r}
    BY <1>1, <1>4 DEF SpecRuns
  <2>2. Promise!Loads(r)
    BY <1>3, <1>4, <2>1 DEF Promise!Loads
  <2> QED BY <2>2 DEF Promise!Next
<1>5. CASE by = "user"
  <2>1. SpecRuns(pod)' = SpecRuns(pod)
    BY <1>1, <1>5 DEF SpecRuns
  <2>2. Promise!Serves(r)
    BY <1>3, <2>1 DEF Promise!Serves
  <2> QED BY <2>2 DEF Promise!Next
<1> QED BY <1>4, <1>5

\* Runs that end, or leave the list, of a generation that goes on.
LEMMA FinishPromise ==
  ASSUME UNCHANGED <<pod, phase, host, origin>>, NEW some \in SUBSET Live, Live' = Live \ some,
         \A r \in Runs : state'[r] = "unborn" <=> state[r] = "unborn"
  PROVE  Promise!Next
<1>1. UNCHANGED <<pod, Used, SpecRuns(pod)>>
  BY SameRuns
<1>2. Promise!Finish(some)
  BY <1>1 DEF Promise!Finish, Live, Used
<1> QED BY <1>2 DEF Promise!Next, Live

LEMMA SamePromise ==
  ASSUME UNCHANGED <<pod, phase, state, host, origin>>
  PROVE  UNCHANGED Promise!genVars
BY DEF Promise!genVars, SpecRuns

LEMMA PromiseStep ==
  ASSUME PodInv, [PodNext]_podVars
  PROVE  [Promise!Next]_(Promise!genVars)
<1>1. CASE \/ StartDaemon \/ PollSucceeds \/ PollFails \/ SpecAnswered \/ Probe \/ DaemonListens
           \/ (\E n \in {0, 1} : Scale(n)) \/ UNCHANGED podVars
  BY <1>1, SamePromise DEF StartDaemon, PollSucceeds, PollFails, SpecAnswered, Probe, DaemonListens,
                           Scale, podVars
<1>2. ASSUME NEW r \in Runs, SpecAccepted(r) PROVE Promise!Next
  <2>1. Serving /\ SpecRuns(pod) = {}
    BY <1>2 DEF SpecAccepted, PodInv, Serving, EntryStates
  <2> QED BY <1>2, <2>1, NewRunPromise DEF SpecAccepted
<1>3. ASSUME NEW r \in Runs, UserPosts(r) PROVE Promise!Next
  BY <1>3, NewRunPromise DEF UserPosts
<1>4. CASE StartFails \/ SpecPostFails \/ WaitReturns
  <2>1. phase # "none"
    BY <1>4 DEF StartFails, SpecPostFails, WaitReturns, PodInv
  <2> QED BY <1>4, <2>1, EndPromise DEF StartFails, SpecPostFails, WaitReturns, Exit
<1>5. CASE PodDeleted \/ PodLost
  BY <1>5, EndPromise DEF PodDeleted, PodLost, PodGone
<1>6. CASE DaemonDies
  <2>1. /\ \A r \in Runs : state'[r] \notin {"active", "over"}
        /\ \A r \in Runs : state'[r] = "unborn" <=> state[r] = "unborn"
    BY <1>6, RunsGoneLeavesNone DEF DaemonDies, PodInv
  <2>2. Live' = Live \ Live
    BY <2>1 DEF Live
  <2> QED BY <1>6, <2>1, <2>2, FinishPromise DEF DaemonDies
<1>7. ASSUME NEW r \in Runs, RunEnds(r) \/ RunDelisted(r) PROVE Promise!Next
  <2>1. /\ state[r] \in {"active", "over"} /\ state'[r] \in {"over", "gone"}
        /\ \A s \in Runs \ {r} : state'[s] = state[s]
    BY <1>7 DEF RunEnds, RunDelisted, PodInv, PodTypeOK
  <2>2. /\ Live' = Live \ (Live \cap {r})
        /\ \A s \in Runs : state'[s] = "unborn" <=> state[s] = "unborn"
    BY <2>1 DEF Live
  <2> QED BY <1>7, <2>2, FinishPromise DEF RunEnds, RunDelisted
<1>8. CASE PodCreated
  <2>1. /\ phase = "none" /\ phase' = "running" /\ pod' = pod + 1
        /\ UNCHANGED <<state, host, origin>>
    BY <1>8 DEF PodCreated
  <2>2. Live = {} /\ UNCHANGED Live
    BY <2>1 DEF PodInv, Serving, Live
  <2>3. SpecRuns(pod)' = {} /\ Used' = {}
    <3>1. \A r \in Runs : state[r] # "unborn" => host[r] # pod + 1
      BY PodsAssumption DEF PodInv, PodTypeOK
    <3> QED BY <2>1, <3>1 DEF SpecRuns, Used
  <2>4. Promise!Starts
    BY <2>1, <2>2, <2>3 DEF Promise!Starts, Live, Used
  <2> QED BY <2>4 DEF Promise!Next
<1> QED BY <1>1, <1>2, <1>3, <1>4, <1>5, <1>6, <1>7, <1>8 DEF PodNext, EntryStep, ClusterStep

\* A Sandbox keeps the promise of Generations.
THEOREM PodImplementsGenerations == PodSafety => GenerationsSpec
<1>1. PodInit => Promise!Init
  BY DEF PodInit, Promise!Init, SpecRuns
<1>2. PodInv /\ [PodNext]_podVars => [Promise!Next]_(Promise!genVars)
  BY PromiseStep
<1> QED BY <1>1, <1>2, PodInvariant, PTL DEF PodSafety, GenerationsSpec, Promise!Spec
=============================================================================
