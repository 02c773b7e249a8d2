------------------------------ MODULE SandboxPod ------------------------------
(* One Sandbox and the pods that stand for it, one after the other: the        *)
(* container's entrypoint (dockerfile/voidbox-entrypoint.sh, the mode          *)
(* serve-and-load that `run` renders), the voidbox daemon it starts and loads, *)
(* and the cluster around them.  The entrypoint is the repository's; the       *)
(* Sandbox controller, the kubelet and the daemon are external and modelled    *)
(* from what the shim relies on: the pod carries the Sandbox's name, a scale   *)
(* to 0 removes it, a scale to 1 creates a fresh one, a container that exits   *)
(* is not restarted (restartPolicy: Never), and the daemon answers only while  *)
(* its container runs.                                                         *)
EXTENDS SandboxParams

CONSTANT PollLimit    \* iterations of the entrypoint's wait loop (30 in the code)

ASSUME PollAssumption == PollLimit \in Nat \ {0}

VARIABLES replicas,   \* spec.replicas of the Sandbox: 0 suspended, 1 running
          pod,        \* the number of the newest pod, 0 before the first
          phase,      \* that pod: "none" (absent), "running", "ended" (container exited)
          entry,      \* where its entrypoint is
          polls,      \* iterations of the wait loop already made
          daemon,     \* voidbox serve: "down", "booting" (not listening yet) or "up"
          ready,      \* the pod's Ready condition
          state,      \* of each run: "unborn", "active", "over" (listed), "gone" (not listed)
          host,       \* the newest pod whose daemon has had a run of that id
          origin      \* "spec": posted by the entrypoint, "user": by somebody with the token

podVars == <<replicas, pod, phase, entry, polls, daemon, ready, state, host, origin>>

RunStates == {"unborn", "active", "over", "gone"}
EntryStates == {"none", "start", "polling", "posting", "loaded", "waiting", "exited"}

PodTypeOK ==
  /\ replicas \in {0, 1}
  /\ pod \in 0 .. MaxPods
  /\ phase \in {"none", "running", "ended"}
  /\ entry \in EntryStates
  /\ polls \in 0 .. PollLimit
  /\ entry \in {"start", "polling"} => polls < PollLimit
  /\ daemon \in {"down", "booting", "up"}
  /\ ready \in BOOLEAN
  /\ state \in [Runs -> RunStates]
  /\ host \in [Runs -> 0 .. MaxPods]
  /\ origin \in [Runs -> {"spec", "user"}]

PodInit ==
  /\ replicas = 1 /\ pod = 0 /\ phase = "none" /\ entry = "none" /\ polls = 0
  /\ daemon = "down" /\ ready = FALSE
  /\ state = [r \in Runs |-> "unborn"]
  /\ host = [r \in Runs |-> 0]
  /\ origin = [r \in Runs |-> "spec"]

-----------------------------------------------------------------------------
(* The daemon: what GET /v1/runs lists, and how runs come and go.              *)

Listed == {r \in Runs : host[r] = pod /\ state[r] \in {"active", "over"}}
Serving == phase = "running" /\ daemon = "up"

\* A daemon keeps its runs in memory: they go with it.
RunsGone == state' = [r \in Runs |-> IF host[r] = pod /\ state[r] # "unborn"
                                     THEN "gone" ELSE state[r]]

NewRun(r, by) ==
  /\ state' = [state EXCEPT ![r] = "active"]
  /\ host' = [host EXCEPT ![r] = pod]
  /\ origin' = [origin EXCEPT ![r] = by]

DaemonListens ==
  /\ daemon = "booting" /\ daemon' = "up"
  /\ UNCHANGED <<replicas, pod, phase, entry, polls, ready, state, host, origin>>

DaemonDies ==
  /\ daemon # "down" /\ daemon' = "down"
  /\ RunsGone
  /\ UNCHANGED <<replicas, pod, phase, entry, polls, ready, host, origin>>

RunEnds(r) ==
  /\ state[r] = "active" /\ state' = [state EXCEPT ![r] = "over"]
  /\ UNCHANGED <<replicas, pod, phase, entry, polls, daemon, ready, host, origin>>

RunDelisted(r) ==
  /\ state[r] = "over" /\ state' = [state EXCEPT ![r] = "gone"]
  /\ UNCHANGED <<replicas, pod, phase, entry, polls, daemon, ready, host, origin>>

\* Whoever holds the URL and the token that `endpoint` prints may post a run too, under
\* an id of his own choice, which a run of an earlier pod may have had.
UserPosts(r) ==
  /\ Serving
  /\ state[r] = "unborn" \/ (r \in Reused /\ host[r] # pod)
  /\ NewRun(r, "user")
  /\ UNCHANGED <<replicas, pod, phase, entry, polls, daemon, ready>>

-----------------------------------------------------------------------------
(* The entrypoint, serve-and-load.                                             *)

\* The script ends, and with it the container and every process in it.
Exit ==
  /\ entry' = "exited" /\ phase' = "ended" /\ daemon' = "down" /\ ready' = FALSE
  /\ RunsGone
  /\ UNCHANGED <<replicas, pod, polls, host, origin>>

\* An empty token or a failed install ends the script before there is a daemon.
StartFails == entry = "start" /\ Exit

StartDaemon ==
  /\ entry = "start" /\ entry' = "polling"
  /\ daemon' = "booting"
  /\ UNCHANGED <<replicas, pod, phase, polls, ready, state, host, origin>>

PollSucceeds ==
  /\ entry = "polling" /\ daemon = "up"
  /\ entry' = "posting"
  /\ UNCHANGED <<replicas, pod, phase, polls, daemon, ready, state, host, origin>>

\* Faulty variant: a loop that waits for the daemon without counting.
PollFailsUncounted ==
  /\ entry = "polling"
  /\ UNCHANGED podVars

\* Faulty variant: one iteration too many.
PollFailsLate ==
  /\ entry = "polling"
  /\ polls' = polls + 1
  /\ entry' = IF polls = PollLimit THEN "posting" ELSE "polling"
  /\ UNCHANGED <<replicas, pod, phase, daemon, ready, state, host, origin>>

\* After the last iteration the loop falls through to the POST, whatever it saw.
PollFails ==
  /\ entry = "polling"
  /\ polls' = polls + 1
  /\ entry' = IF polls' = PollLimit THEN "posting" ELSE "polling"
  /\ UNCHANGED <<replicas, pod, phase, daemon, ready, state, host, origin>>

SpecAccepted(r) ==
  /\ entry = "posting" /\ daemon = "up" /\ entry' = "loaded"
  /\ state[r] = "unborn"
  /\ NewRun(r, "spec")
  /\ UNCHANGED <<replicas, pod, phase, polls, daemon, ready>>

SpecAnswered ==
  /\ entry = "loaded" /\ entry' = "waiting"
  /\ UNCHANGED <<replicas, pod, phase, polls, daemon, ready, state, host, origin>>

\* Faulty variant: curl --retry, which posts again after a lost answer.
SpecPostRetried ==
  /\ entry \in {"posting", "loaded"} /\ entry' = "posting"
  /\ UNCHANGED <<replicas, pod, phase, polls, daemon, ready, state, host, origin>>

\* Faulty variant: curl without -f, or without `set -e`.
SpecPostIgnored ==
  /\ entry \in {"posting", "loaded"} /\ entry' = "waiting"
  /\ UNCHANGED <<replicas, pod, phase, polls, daemon, ready, state, host, origin>>

\* curl -f under `set -e`: a refused POST, or one whose answer is lost, ends the script.
SpecPostFails == entry \in {"posting", "loaded"} /\ Exit

WaitReturns == entry = "waiting" /\ daemon = "down" /\ Exit

EntryStep ==
  \/ StartFails \/ StartDaemon \/ PollSucceeds \/ PollFails
  \/ \E r \in Runs : SpecAccepted(r)
  \/ SpecAnswered \/ SpecPostFails \/ WaitReturns

-----------------------------------------------------------------------------
(* The Sandbox controller and the kubelet.                                     *)

PodCreated ==
  /\ replicas = 1 /\ phase = "none" /\ pod < MaxPods
  /\ pod' = pod + 1 /\ phase' = "running" /\ entry' = "start" /\ polls' = 0
  /\ UNCHANGED <<replicas, daemon, ready, state, host, origin>>

PodGone ==
  /\ phase # "none"
  /\ phase' = "none" /\ entry' = "none" /\ daemon' = "down" /\ ready' = FALSE
  /\ RunsGone
  /\ UNCHANGED <<replicas, pod, polls, host, origin>>

PodDeleted == replicas = 0 /\ PodGone

\* Eviction or a lost node: the controller makes another pod of the same name.
PodLost == replicas = 1 /\ PodGone

\* The exec readiness probe, GET /v1/runs inside the container.
Probe ==
  /\ phase = "running" /\ ready # (daemon = "up")
  /\ ready' = (daemon = "up")
  /\ UNCHANGED <<replicas, pod, phase, entry, polls, daemon, state, host, origin>>

ClusterStep ==
  \/ PodCreated \/ PodDeleted \/ PodLost \/ Probe
  \/ DaemonListens \/ DaemonDies
  \/ \E r \in Runs : RunEnds(r) \/ RunDelisted(r)

\* kubectl scale sandbox/<name> --replicas=n
Scale(n) ==
  /\ replicas' = n
  /\ UNCHANGED <<pod, phase, entry, polls, daemon, ready, state, host, origin>>

PodNext ==
  \/ EntryStep \/ ClusterStep
  \/ \E r \in Runs : UserPosts(r)
  \/ \E n \in {0, 1} : replicas # n /\ Scale(n)

\* The script runs on by itself as long as nothing listens: a curl is refused at once, or
\* reset when its daemon dies.  The curls have no --max-time, so a daemon that is up may
\* hold one for ever: no fairness then, and none for the daemon or the cluster.
PodSafety == PodInit /\ [][PodNext]_podVars
PodSpec == PodSafety /\ WF_podVars(daemon # "up" /\ EntryStep)

-----------------------------------------------------------------------------
SpecRuns(p) == {r \in Runs : state[r] # "unborn" /\ host[r] = p /\ origin[r] = "spec"}

\* A pod's entrypoint loads the spec at most once, however often it polls and
\* whether or not the answer to its POST arrives (entrypoint lines 24-28).
OneLoadPerPod == \A p \in Pods : \A r, s \in SpecRuns(p) : r = s

\* Once the entrypoint sits in `wait`, the spec has been accepted by this pod's
\* daemon: a pod whose spec was refused never stays up empty (lines 24-30).
WaitingMeansLoaded == entry = "waiting" => SpecRuns(pod) # {}

\* The inductive invariant behind the two: where the entrypoint is tells whether its
\* pod has a spec run, and a run that is not gone lives in the current, serving pod.
PodInv ==
  /\ PodTypeOK
  /\ phase # "none" => pod \in Pods
  /\ phase = "none" => entry = "none"
  /\ entry \in EntryStates \ {"none", "exited"} => phase = "running"
  /\ daemon # "down" => phase = "running" /\ entry # "start"
  /\ \A r \in Runs : state[r] # "unborn" => host[r] \in Pods /\ host[r] <= pod
  /\ \A r \in Runs : state[r] \in {"active", "over"} => host[r] = pod /\ Serving
  /\ entry \in {"start", "polling", "posting"} => SpecRuns(pod) = {}
  /\ entry \in {"loaded", "waiting"} => SpecRuns(pod) # {}
  /\ OneLoadPerPod

\* A boot comes to an end (the spec is loaded, the container has exited or the pod is
\* gone) unless its daemon stays up for ever and never answers: neither a daemon that
\* does not start nor one that dies keeps a pod half started (lines 16-30).
BootEnds ==
  entry \in {"start", "polling", "posting", "loaded"}
    ~> (entry \in {"waiting", "exited", "none"} \/ [](daemon = "up"))

\* The commands a pod's script has still to run, at most.
BootLeft ==
  IF entry = "start" THEN PollLimit + 4
  ELSE IF entry = "polling" THEN PollLimit - polls + 3
  ELSE IF entry = "posting" THEN 3
  ELSE IF entry = "loaded" THEN 2
  ELSE IF entry = "waiting" THEN 1 ELSE 0

\* Its safety half: within one pod each step of the script leaves it less to do, so there
\* is no way round that polls or posts again without end (entrypoint lines 16-30).
BootAdvances ==
  [][pod' = pod /\ entry' # "none" /\ <<entry', polls'>> # <<entry, polls>>
       => BootLeft' < BootLeft]_podVars

\* The promise of Generations, implemented: the pods of a Sandbox are its generations.
Promise == INSTANCE Generations WITH
             gen <- pod,
             up <- phase = "running",
             loaded <- SpecRuns(pod),
             live <- {r \in Runs : state[r] = "active"},
             used <- {r \in Runs : state[r] # "unborn" /\ host[r] = pod}

GenerationsSpec == Promise!Spec
=============================================================================
