# void-shims in TLA+

A model of `void-shim-k8s`, the command line that runs void-box specs on Kubernetes: as
a Job when they run to completion, as a Sandbox (`agents.x-k8s.io`) with a daemon in its
pod when they are services. The modules are translated from `crates/`; what is not in
the repository (Kubernetes, kubectl, the voidbox daemon) is modelled from how the code
uses it and marked external in `PROJECT.json`.

## The system

| Part | Source | State it keeps | Operations |
|---|---|---|---|
| run, status, logs, rm | `shim-k8s/src/main.rs`, `crd_check.rs` | none of its own: the objects in the cluster | render and apply, read a Job or Sandbox, find a pod, delete |
| backend choice | `shim-core/src/lib.rs`, `resolve_backend_choice` | none | spec and `--backend` to Job, Sandbox or an error |
| renderers | `render_job_yaml`, `render_sandbox.rs`, `llm_creds.rs` | none | a manifest of one document, or of three or four |
| entrypoint | `dockerfile/voidbox-entrypoint.sh` | a loop counter, the daemon's pid | start the daemon, wait for it, post the spec, wait |
| daemon client | `client.rs`, the send, cancel, telemetry, endpoint, suspend and resume arms of `main` | per process: token, endpoint, run id, attempts | read token, resolve, look up the only run, one request |
| port-forward | `portforward.rs` | a kubectl child, a reader thread, a channel | open, probe, hold, drop |
| run_ref names | `normalize_dns1123_label`, `parse_run_ref`, `short` | none | name of a run, and back |
| containerd and libvirt shims | `shim-containerd`, `shim-libvirt` | none | empty stubs |

How they meet. `run` applies a Sandbox and its Secrets; the Sandbox controller makes a
pod of the Sandbox's name; its entrypoint starts the daemon and posts the spec, which
becomes the daemon's run. Each later command is a new process: it reads the token from
the Secret, gets an endpoint (the service's DNS name, or a port-forward bound to the pod
that bears the name now), asks `GET /v1/runs` for the only run, and makes one request
about that run. `suspend` and `resume` scale the Sandbox, which removes the pod or makes
another of the same name. No process of the shim knows of any other, and none keeps
anything between two commands.

What is hard, and what must hold:

- *The run id is looked up, then used.* In between, the pod may be replaced by one of
  the same name. A message must be taken by the run that was looked up, or by none; a
  run id may even be used again, since whoever posts a run may choose it.
- *A GET that is retried, a POST that must not be.* After a timeout the daemon may still
  handle what was sent. A message is taken at most once, and what `send` reports is true.
- *The entrypoint is not transactional.* It polls at most 30 times, posts whatever it saw,
  and dies with the POST, and its curls have no time limit. A pod must not load twice nor
  stay up empty.
- *Two threads and a child* around a pipe: the right port, an end to the wait, no orphan.
- *Four documents, applied one by one,* the Sandbox before its Secrets, each of which may
  fail; and later commands that guess the backend from calls that may fail.
- *Status from lagging counters*: never an outcome that is not one, and none taken back.
- *Names made of free text and 32 random bits.* A run_ref must lead back to the run it was
  printed for, and runs of one spec must not touch each other's objects.
- *Documents that refer to each other* through names and numbers written twice, by two
  renderers: a pod must find its Secrets and keys and get the directories it asked for.

`PROJECT.json` lists each of these at its line under `hazards`.

## The modules

| Module | Models | Correspondence |
|---|---|---|
| `SandboxParams` | bounds shared by the next three | `MaxPods`, `Runs`, and `Reused`, the run ids a user posts once more on a later pod |
| `SandboxPod` | entrypoint, daemon and cluster of one Sandbox | `entry` is the line of the script, `polls` its loop counter, `pod` counts the pods that have borne the name, `state`/`host`/`origin` are the daemon's runs (of a run id used again, the latest); one action per command of the script |
| `DaemonClient` | the client commands, any number of processes | `pc` is the place in the command's arm and in `first_run_id`; `target` what it returned, `source` the pod that answered, `route` the pod of the port-forward, `wire` the request on its way, `result` the exit |
| `ServiceSession` | both together | `Reaches` decides whether a connection gets to the current pod; the daemon handles a request at any time after it was sent, also when its sender is gone; `log` records what was accepted |
| `Mailbox` | what `send` promises, in five lines of state | implemented by `ServiceSession` through `MailStatus` (property `MailboxSpec`) |
| `Generations` | what a Sandbox promises to those who use its name: one generation after the other, each with one run of the spec at most, none with an active run of another | implemented by `SandboxPod` (property `GenerationsSpec`): the pod's number, whether its container runs, its run of the spec, the active runs and all that this pod has had |
| `PortForward` | `portforward.rs` | opening thread (`pc`, `ticks`), reader thread (`reader`), channel (`chan`), pipe and child |
| `RunLifecycle` | `run`, `status`, `logs`, `rm` of one run_ref | `run`/`status`/`logs`/`rm` are places in the arms, `docs` what apply has still to do, `objs` what is in the cluster, `job` the Job's status record; `logs` tells a stream that ends by itself from one that follows the container |
| `RunNames` | `normalize_dns1123_label`, the name of a run, `parse_run_ref` | text is a sequence of character classes; one operator per step of the code's pipeline, `ParsedRefs` is the set of results (none or one) |
| `Rendering` | `render_job_yaml`, `render_sandbox_yaml`, `llm_creds.rs` | `Requests` is a command line with its spec; `JobPod`, `SandboxPod` and `SecretKeys` are what a manifest says of privilege, env, volumes, mounts, deadline and keys; `JobRefused`, `SandboxRefused` and `Panics` are the errors |
| `Deployments` | several invocations of `run` and `render`, and `rm`, on one cluster | per invocation `pc`, the run id's first block `short`, what is still to be applied (`todo`); `objects` is the cluster, one object for a kind, namespace and name |
| `RunNames_proofs`, `Deployments_proofs`, `SandboxPod_proofs`, `ServiceSession_proofs`, `SessionRuns_proofs`, `PortForward_proofs`, `RunLifecycle_proofs` | theorems | |
| `MC*` | instances for TLC | |

A definition whose comment begins with *Faulty variant* is not part of the model: it is
the bug a property is tried against (`mutants` in `PROJECT.json`), kept beside the
definition it replaces.

Data is abstracted to what the properties tell apart. A token is right or the request is
turned down; a message is its sender; a run is an id; a manifest is the list of its
documents; a line of kubectl is its kind and its port. Where the code makes a call that
can fail, the model has the failure, and for calls that change the cluster also the
failure that comes after the effect (an answer that is lost).

## The runs

| Run | Instance | Shows |
|---|---|---|
| `pod_boot` | 3 pods, 3 runs, one id of them used again, 2 polls | `OneLoadPerPod`, `WaitingMeansLoaded`, every boot ends (`BootEnds`) unless its daemon stays up and never answers, and gets nearer to its end (`BootAdvances`), and `Generations` is implemented |
| `replaced` | 2 pods, 2 runs, one id of them used again, an in-cluster send, an in-cluster `endpoint` whose user posts runs, a suspend | `TakenByTheRunLookedUp` for a request that goes to whatever pod is Ready when it is made |
| `pinned` | the same with a forwarded send | `TakenByTheRunLookedUp` for a request that can only reach the pod of its forward: the run id used again makes no difference |
| `mailbox` | 1 pod, 1 run, 2 sends, 1 cancel | `AtMostOnce`, `OkMeansAccepted`, `ErrorMeansNotAccepted`, `CancelIsFinal`, and `Mailbox` is implemented |
| `returns` | 1 pod, 1 run, telemetry, endpoint, resume, 2 tries | `EveryCommandReturns`, `CommandsAdvance` |
| `port_forward` | 2 ports, 3 and 2 waits | `PortIsTheChilds`, `DropLeavesNothing`, `OpenEnds` |
| `lifecycle` | every command line and spec, 2 tries of `logs` | `RefusedLeavesNothing`, `PrintedRunHasSecrets`, `PrintedRunStarts`, `OutcomeIsTrue`, `OutcomeStays`, `RmStopsTheRun`, `RemovedForGood`, `LogsEnd` |
| `deployments` | one run for each of some 700 names and option sets, and 25 pairs of runs with like names; 2 id blocks; 4-bit integers | `RefsFindRuns`, `RunsStayApart`, `JobsAreNotTakenOver`, `ReferencesResolve`, `PodsGetTheirMounts`, `NoOtherDeadline`, `NoInterference` |
| `forward_orphan`, `forward_pipe`, `rm_cascade`, `mount_strategy` | small, the last as `deployments` | each a statement of the documentation that the code does not keep, below |

Bounds. Two pods are a lookup on one and a request on its replacement; with the third,
`pod_boot` sees a replacement of a replacement. Two runs are the one that was looked up
and one that must not be mistaken for it; a user's own run makes a daemon with two.
`replaced` and `pinned` have one sender each, in the cluster and outside: both at once,
with the `endpoint`, are some four million states, and a sender knows of no other.
The run ids that are used again are few, since each is one more behaviour: one id tells a
stale id that finds a taker from one that does not.
One poll or two, one try or two, have the loop's first, middle and last iteration. Two
sends and a cancel are the smallest set with a race between equals and one between
unequals. In `deployments`, prefix and name are kept to 2 characters each and tried with up to 3, so
that they are empty, exact, cut, cut at a dash and all dashes; up to 2 mounts on 2 paths
number a second mount behind a first and behind `/dev/kvm`, and may repeat a path; 4 bits
(`Bits`) stand for 64 and have every value of `timeout_secs` on both sides of the sign, the
last date (`LastDate`) lies inside them as chrono's lies inside 64 bits, so that there are
timeouts that fit, that panic on either side of the sign and that wrap to a date; two runs whose
blocks coincide are the collision, and their blocks are interchangeable (symmetry).
Options that do not interact are varied one group at a time.
In `mailbox` the two senders are interchangeable and their symmetry is used; `returns`,
`pod_boot` and `lifecycle` check liveness and use none. `mailbox` has one pod, so of
`CancelIsFinal` it shows what concerns a run on its pod; that a pod which uses the id again
changes nothing is `CancelStands`. Deadlock is not checked where commands end and nothing has to follow
(`CHECK_DEADLOCK FALSE`); `pod_boot` checks it.

Fairness. `PodSpec` assumes that the entrypoint's next command runs and returns as long
as nothing listens on the daemon's port. Its two curls (lines 17 and 24) have no
`--max-time`: with a daemon that is not up they are refused at once, and one that dies
resets them, but a daemon that is up may accept the connection and never answer. So
nothing is assumed of the script while the daemon is up, and `BootEnds` leaves the boot
that hangs open; the daemon and the cluster may do nothing at all. `FairSpec` of `ServiceSession` assumes it of
each shim process: the HTTP client has a 30 s timeout (`main.rs` 346), the port-forward
its own (10 s and 5 s), sleeps are finite, and kubectl is taken to return. `PortForward`
assumes that the two threads run, and nothing of kubectl, which may bind nothing, hang, block
on a stderr that nobody reads ("stuck": its port stays open) or end, after which another
process may have the port. `Deployments` states no fairness: it has safety only. `RunLifecycle` assumes that
kubectl calls of `run` and `logs` are answered, be it with an error, and that Kubernetes
creates, starts and collects the pods it can make (the image and a node are there);
containers need not end, controllers may lag forever in what they write to a status, and
nobody has to call `status` or `rm`. `kubectl logs -f` is assumed to return only when its
container does not run: `LogsEnd` leaves the stream that is followed forever open.

## What the code does not keep

- **`rm` does not cascade to the Secrets** (`rm_cascade`). README line 111 and the
  design (137-138) say that they are owned by the Sandbox. The renderer writes no
  ownerReferences and `rm` deletes the Sandbox alone, so token, spec and LLM
  credential stay.
- **A failed open leaves kubectl running** (`forward_orphan`). The `?` of lines 48 and
  51 of `portforward.rs` drops a plain `Child`; only the finished handle has a `Drop`.
- **The shim closes its kubectl's stdout** (`forward_pipe`). The reader thread ends with
  the line it was looking for. The next line kubectl prints, at the latest the one
  about the connection `wait_for_listener` makes, is a write to a closed pipe, which
  ends a Go program by SIGPIPE. This fits the limitation README line 189 describes.
- **A Sandbox does not know `--mount-strategy`** (`mount_strategy`). `spec/shim-v0.2.md`
  125-127 offers `emptyDir` for every run; the Sandbox renderer has no such option and
  gives the pod directories of its node. (The value the document writes, `emptyDir`,
  is not one clap accepts either: it derives `empty-dir`.)

Seen in the models without a document that says otherwise: of the values of `timeout_secs`
that chrono has no date for, the last ones below 2^64 wrap to a `shutdownTime` in the past
and all others make the render panic before anything is applied (`NoOtherDeadline`, `Panics`);
a second Sandbox with the 32 bits of a first one's run id replaces it without a word, where
a second Job is turned down; a Sandbox with two mounts at one path, or one at `/spec`, may be
accepted, its run_ref is printed and it gets no pod (`input.clash`, the exception of
`PrintedRunStarts`); a boot whose daemon accepts a connection and never answers hangs, since
the 30 iterations count polls and not time (the exception of `BootEnds`); an in-cluster
`send` whose pod is replaced after the lookup may reach a later run for which a user chose
the same id (the exception of `TakenByTheRunLookedUp`); and a `send` between the daemon's
first answer and the entrypoint's POST finds no run, since readiness probe and lookup are
the same GET. The message then says that the run may have completed or been cancelled.

Met while reading and not modelled: a kubectl that exits at once is reported as a timeout
(design 506 promises its stderr); `send` to a Job's run_ref fails on the missing Secret
and not with `BackendMismatch` (`lib.rs` 65); a 404 on a message is `DaemonHttp`
and not `DaemonRunNotFound(0)` (design 505); a key that is missing from the environment is
passed over in silence; `--force` is ignored for a Sandbox; `--namespace ""` makes `run`
print a run_ref that no command takes; the doc comment of `render_sandbox_yaml` (36-37)
names `InvalidMount` where the code returns `InvalidScalar`.

## What is proved

All theorems hold for every value of the constants, under the named assumptions of the
modules: at least one pod, positive bounds, the kinds of process disjoint.

`SandboxPod_proofs`: `PodInvariant` (`PodSafety => []PodInv`) and from it `PodTypes`,
`PodLoadsOnce`, `PodWaitsLoaded`. The last two properties are not inductive: that a second
POST is impossible depends on where the script is. `PodInv` ties the place of the
entrypoint to the set of runs its pod has got from it: none up to the POST, one after it;
and it says that runs that are not gone live in the current pod, which is serving. That is
preserved because every step that ends a container or a daemon also drops its runs.
`PodImplementsGenerations` is the refinement. An accepted run is a `Loads` or a `Serves`,
depending on who posted it, and `PodInv` gives the guard of `Loads`, that the pod has no
run of the spec yet; the end of a container is a `Stops`, since no run of it is left; a
new pod is a `Starts` without runs, since every run there has been has an earlier host. A
run id that is used again moves to the new pod, and the old pod's run of it, which is
gone, moves out of sight: what `Generations` asks of an id is that this pod has not had it.

`ServiceSession_proofs`: `SendInvariant` (`Spec => []SendInv`) and from it `SessionTypes`,
`MessagesAtMostOnce`, `SuccessIsTrue`, `ErrorIsTrue`. `SendInv` adds, for each process,
that the request exists only after the lookup, that a request is "accepted" exactly when
the log has its message (with the run that was looked up), and that what the process
reports agrees with the request's fate. At most once follows since a message is accepted
only from "sent", and nothing returns there. `SessionImplementsPod` shows that each step of
the session is a step of `SandboxPod` or leaves the pod alone, so that the pod's theorems
carry over; `SessionKeepsPromise` is `PodImplementsGenerations` carried over.

`SessionRuns_proofs` goes on from there with `RunInv`, which is about the run and the pod a
process deals with. A process that is about to ask about a run has seen it alone in the
answer of the pod on record as its source, which is its forward's if it has one; a message
on record came over a connection to a pod that had a run of its id, and unless the id is
used again that is the pod of the answer (`TakenRight`); a run that a canceller was answered
about is over, and no run becomes active twice on one pod (`CancelStands`). `SessionImplementsMailbox` is the refinement: under
`MailStatus` the daemon's acceptance of a message is the step of `Mailbox` that accepts
it, a sender's own step begins, reports or changes nothing, and every other step leaves
the mailbox alone.

`PortForward_proofs`: `PortInvariant` (`Spec => []PortInv`) and from it `PortTypes`,
`PortIsOwn`, `DropIsClean`. The port travels from the child through the pipe and the
channel to the opening thread, so `PortInv` says of each place on that way what the
property says at its end: an IPv4 line in the pipe, and the port in the channel, name
what the child listens on as long as it listens. The child listens before it speaks and
never moves, which is what keeps that true while the line is on its way.

`RunNames_proofs` is about the operators, without a specification. `NamesAreLabels`: the
code's pipeline (map, trim, fill in if empty, cut, trim again) makes a DNS label of any
text, no longer than its bound, and the name of a run is one that ends with the block of
its run id; so names of distinct blocks differ (`NamesDiffer`). `RefsAreTaken` and
`RefsAreTakenBack`: a run_ref has one slash, since neither part contains one, and
`parse_run_ref` cuts it there.

`Deployments_proofs`: `DeployInvariant` (`Spec => []DeployInv`), and from it a theorem for
each property of the run `deployments`. `RunsStayApart` is not inductive: it speaks of runs
that are done, and what a run has applied may be lost before. `DeployInv` follows a run
from its rendering: as long as all its documents were accepted, each is in the cluster or
still to be applied; and every object in the cluster is a document of one of the runs.
An apply keeps this since it replaces only what has its own kind, namespace and name: the
documents of one manifest differ in kind, those of two runs in name if their blocks do, and
among Jobs the API server turns the second one down. `rm` keeps it since the run_ref it is
given leads back to the run's own name. With the second part a statement about a pod in
the cluster becomes one about `JobPod` and `SandboxPod`. `DeadlineKept` also needs that what
is applied was rendered (`RenderedInvariant`): of the deadlines the cast makes, a render that
does not panic leaves the ones asked for and those that wrapped to a date already past.
`IsPodOf` says what both make of a
spec, and `MountsGiven` and `ReferencesClosed` use it for any number of mounts.
`NoneInterferes` is about steps: what a run has in the cluster bears its name
(`OwnObjects`), and an apply or an `rm` of another run touches only objects of that run's
name, so if the blocks differ nothing of the first one changes, be it finished or not.
`RenderersAgree` compares the two renderers on every request: a spec gets the same
privilege, mounts and, with `hostPath`, volumes from both, but for the spec's own.

`RunLifecycle_proofs`: `LifeInvariant` (`Spec => []LifeInv`) and from it `LifeTypes`,
`RefusalIsClean`, `OutcomeTrue` and `OutcomeKept`. `RefusedLeavesNothing` speaks of the
cluster only; `RunOrder` adds where the run is when its checks are behind it, that what
is still to be applied is of its own backend, and that nobody asks before the run_ref is
printed. `OutcomeStays` is about two answers with any number of steps of the Job controller
between them: `Truthful` says that a counter that is set has its outcome, a condition
its counter and an answer both, and no step of the controller takes a counter back.
`SettledInvariant` adds to `LifeInv` what a run has of its documents, and from it
`PrintedIsComplete` and `RemovalStands`. That a printed run has its Secrets does not
follow from the order of the documents, since each may fail; `Settled` says that as long
as every one was accepted each Secret the pod names is in the cluster or still to be
applied. That a removed run stays without a pod needs the converse: `rm` is only
given a printed run_ref, nothing is left to apply then, and its two deletes between them
take away the one kind of workload the run can have.

How long things take. Liveness is beyond the prover, its safety half is not: for each
loop a number that says how many steps are left, which every step makes smaller.
`BootIsBounded` (`PollLimit + 4` steps of the entrypoint for each pod), `CommandsAreBounded`
(`2 * MaxTries + 5` steps of a client command), `OpenIsBounded` (`ParseTicks + ProbeTicks + 3`
steps of `open`, whatever the reader thread and kubectl do) and `CallsAreBounded` (`run` and
`logs`). For these loops fairness is all that `BootEnds`, `EveryCommandReturns`, `OpenEnds` and
`LogsEnd` still need, where they have it; that it leads there is what TLC checks. `BootLeft` and `WorkLeft` stand beside the properties they are
checked in, `OpenLeft`, `RunLeft` and `LogsLeft` in the modules of the proofs.

Only model-checked: the liveness properties (`BootEnds`, `EveryCommandReturns`,
`OpenEnds`, `PrintedRunStarts`, `RmStopsTheRun`, `LogsEnd`), which the prover cannot treat.
Of the last three, what is proved is that a printed run has what its pod needs, that a
removed run gets no new pod, and that `logs` makes a bounded number of steps.

## Not modelled

The fields of a manifest that nothing else depends on (image, pull policy, ports, labels
other than the run id, the base64 of specs and tokens) and its YAML text. Of the
error type, only what the client commands tell apart. What the API server makes of a pod
template inside a Sandbox beyond clashing mounts, which are refused in a Job at the apply
and in a Sandbox at the latest when the controller makes the pod. The containerd and
libvirt shims are stubs. `scripts/`, `build.sh` and the workflow drive the program from
outside. Void-box itself (spec parsing, the daemon, the microVM) is another repository.

## Plan

1. Done: `SandboxPod`, `DaemonClient`, `ServiceSession`, `Mailbox` and their theorems;
   `PortForward`, with a kubectl that hangs and a port that changes hands; `RunLifecycle`;
   `RunNames`, `Rendering` and `Deployments`.
2. Done: a theorem for every property of the passing runs that is not about liveness, the
   refinement of `Mailbox` included.
3. Done: the safety half of the liveness properties, the refinement of `Generations`, and
   that no run's objects are touched by another's steps.
4. Left: that the `run` of `RunLifecycle` is, for one invocation and one backend, a step of
   `Deployments`, so that the two views of the cluster are one.
