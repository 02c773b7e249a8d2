----------------------------- MODULE RunLifecycle -----------------------------
(* One run_ref from `run` to `rm`, as the kubectl calls of main.rs see it: the  *)
(* choice of the backend, the checks and the render before anything is applied, *)
(* kubectl apply with its documents one by one, and the later commands `status`,*)
(* `logs` and `rm`, which find out from the cluster which backend the ref has.  *)
(* External: the API server, where any call may fail with or without effect;    *)
(* the Job and Sandbox controllers, the kubelet and the garbage collector.      *)
EXTENDS Sequences, Naturals

CONSTANTS LogTries,    \* retries of wait_for_job_pod (10 in the code)
          NoStatus     \* a Job without a status

VARIABLES input,    \* the command line and the spec, fixed: see Inputs
          crd,      \* the Sandbox CRD is installed, fixed
          run,      \* where `run` is
          docs,     \* documents kubectl apply has still to apply
          applied,  \* every document so far was
          objs,     \* the objects of this run_ref in the cluster
          pod,      \* its pod
          outcome,  \* how its container ended
          job,      \* the Job's status
          ready,    \* the Sandbox's Ready condition, "none" while there is none
          status,   \* where `status` is
          answer,   \* the state it printed last, "none" before the first
          logs,     \* where `logs` is
          tries,    \* its tries to find the Job's pod
          rm        \* where `rm` is

runVars == <<run, docs, applied>>
clusterVars == <<objs, pod, outcome, job, ready>>
readVars == <<status, answer, logs, tries>>
vars == <<input, crd, runVars, clusterVars, readVars, rm>>

\* service: kind agent and mode service; valid: the mounts and scalars pass the checks of
\* the renderer; clash: two mounts of the pod, /spec and /dev/kvm included, have one path,
\* which the renderer does not look for; cred: the key the provider needs is in the
\* environment; limited: timeout_secs is given, and with it a shutdownTime.
Inputs == [arg : {"auto", "job", "sandbox"}, service : BOOLEAN, valid : BOOLEAN,
           clash : BOOLEAN, cred : BOOLEAN, limited : BOOLEAN]

JobStatus == [active : 0 .. 1, succeeded : 0 .. 1, failed : 0 .. 1,
              condition : {"none", "Complete", "Failed"}]
EmptyStatus == [active |-> 0, succeeded |-> 0, failed |-> 0, condition |-> "none"]
ASSUME LifecycleAssumption == LogTries \in Nat \ {0} /\ NoStatus \notin JobStatus

RunStates == {"Pending", "Running", "Succeeded", "Failed", "Unknown"}
LogsStates == {"idle", "waiting", "found", "streaming", "following", "ok", "failed"}
Workload == {"sandbox", "job"}
Secrets == {"token", "spec", "llm"}

RunTypes ==
  /\ input \in Inputs /\ crd \in BOOLEAN
  /\ run \in {"start", "check", "render", "applying", "ok", "failed", "killed"}
  /\ docs \in Seq(Workload \cup Secrets) /\ applied \in BOOLEAN

ClusterTypes ==
  /\ objs \subseteq Workload \cup Secrets
  /\ pod \in {"none", "pending", "running", "succeeded", "failed"}
  /\ outcome \in {"none", "succeeded", "failed"}
  /\ job \in JobStatus \cup {NoStatus}
  /\ ready \in {"none", "True", "False"}

ReadTypes ==
  /\ status \in {"idle", "sandbox", "job"}
  /\ answer \in RunStates \cup {"none"}
  /\ logs \in LogsStates /\ tries \in 0 .. LogTries
  /\ logs = "waiting" => tries < LogTries
  /\ rm \in {"idle", "job", "ok", "failed"}

TypeOK == RunTypes /\ ClusterTypes /\ ReadTypes

Init ==
  /\ input \in Inputs /\ crd \in BOOLEAN
  /\ run = "start" /\ docs = << >> /\ applied = TRUE
  /\ objs = {} /\ pod = "none" /\ outcome = "none" /\ job = NoStatus /\ ready = "none"
  /\ status = "idle" /\ answer = "none" /\ logs = "idle" /\ tries = 0 /\ rm = "idle"

-----------------------------------------------------------------------------
(* `run`.                                                                      *)

\* detect_backend
Detected == IF input.service THEN "sandbox" ELSE "job"

\* resolve_backend_choice
Mismatch == input.arg = "sandbox" /\ Detected = "job"
Backend == IF input.arg = "auto" THEN Detected ELSE input.arg

RunFails == run' = "failed" /\ UNCHANGED <<docs, applied>>

\* load_spec_for_shim may fail too.
Resolve ==
  /\ run = "start"
  /\ \/ /\ ~Mismatch
        /\ run' = IF Backend = "sandbox" THEN "check" ELSE "render"
        /\ UNCHANGED <<docs, applied>>
     \/ RunFails
  /\ UNCHANGED <<input, crd, clusterVars, readVars, rm>>

\* Faulty variant: the CRD is not looked for.
CrdUnchecked ==
  /\ run = "check" /\ run' = "render"
  /\ UNCHANGED <<input, crd, docs, applied, clusterVars, readVars, rm>>

\* check_sandbox_crd_installed: every failure of the call counts as a missing CRD.
CrdCheck ==
  /\ run = "check"
  /\ \/ crd /\ run' = "render" /\ UNCHANGED <<docs, applied>>
     \/ RunFails
  /\ UNCHANGED <<input, crd, clusterVars, readVars, rm>>

\* The documents, in the order they are written.
JobDocuments == <<"job">>
SandboxDocuments == IF input.cred THEN <<"sandbox", "token", "spec", "llm">>
                    ELSE <<"sandbox", "token", "spec">>

\* Either renderer refuses a relative mount path, and a newline in a path or a scalar.
Render ==
  /\ run = "render"
  /\ \/ /\ input.valid /\ run' = "applying"
        /\ docs' = IF Backend = "job" THEN JobDocuments ELSE SandboxDocuments
        /\ UNCHANGED applied
     \/ ~input.valid /\ RunFails
  /\ UNCHANGED <<input, crd, clusterVars, readVars, rm>>

\* kubectl apply goes on after a document that fails.  A Job whose mounts clash is refused,
\* a Sandbox need not be: its pod template is checked when the pod is made.  A created Job
\* may be read without a status or with an empty one.
ApplyDoc ==
  /\ docs # << >> /\ docs' = Tail(docs)
  /\ \/ /\ Head(docs) = "sandbox" => crd
        /\ Head(docs) = "job" => ~input.clash
        /\ objs' = objs \cup {Head(docs)}
        /\ IF Head(docs) = "job" THEN job' \in {NoStatus, EmptyStatus} ELSE UNCHANGED job
        /\ applied' \in {applied, FALSE}       \* created, but the answer may be lost
     \/ applied' = FALSE /\ UNCHANGED <<objs, job>>
  /\ UNCHANGED <<input, crd, run, pod, outcome, ready, readVars, rm>>

\* Faulty variant: the exit status of kubectl apply is not looked at.
ApplyEndsUnseen ==
  /\ run = "applying" /\ docs = << >> /\ run' = "ok"
  /\ UNCHANGED <<input, crd, docs, applied, clusterVars, readVars, rm>>

\* kubectl_apply_yaml returns; only then is the run_ref printed.
ApplyEnds ==
  /\ run = "applying" /\ docs = << >>
  /\ run' = IF applied THEN "ok" ELSE "failed"
  /\ UNCHANGED <<input, crd, docs, applied, clusterVars, readVars, rm>>

\* A signal: kubectl dies with the shim, or finishes without it.
RunKilled ==
  /\ run \notin {"ok", "failed", "killed"} /\ run' = "killed"
  /\ docs' \in {docs, << >>}
  /\ UNCHANGED <<input, crd, applied, clusterVars, readVars, rm>>

RunStep == Resolve \/ CrdCheck \/ Render \/ ApplyDoc \/ ApplyEnds

Known == run = "ok"    \* the user has the run_ref

-----------------------------------------------------------------------------
(* `status`: polled one call after the other.                                  *)

\* sandbox_exists: any failure of the call reads as "there is no Sandbox".
StatusExists ==
  /\ Known /\ status = "idle"
  /\ \/ "sandbox" \in objs /\ status' = "sandbox"
     \/ status' = "job"
  /\ UNCHANGED <<input, crd, runVars, clusterVars, answer, logs, tries, rm>>

\* A call that fails prints no state.
Answers(a) == status' = "idle" /\ answer' = a /\
              UNCHANGED <<input, crd, runVars, clusterVars, logs, tries, rm>>

\* get_sandbox_status
SandboxState == IF ready = "True" THEN "Running"
                ELSE IF ready = "False" THEN "Pending" ELSE "Unknown"

StatusSandbox ==
  /\ status = "sandbox"
  /\ ("sandbox" \in objs /\ Answers(SandboxState)) \/ Answers(answer)

\* Faulty variant: a Job that counts nothing as running any more has failed.
FailedByDefault(s) ==
  IF s = NoStatus THEN "Pending"
  ELSE IF s.succeeded > 0 THEN "Succeeded"
  ELSE IF s.active > 0 THEN "Running"
  ELSE "Failed"

\* map_job_to_state: the first that applies, the counters before the conditions.
MapJob(s) ==
  IF s = NoStatus THEN "Pending"
  ELSE IF s.succeeded > 0 THEN "Succeeded"
  ELSE IF s.failed > 0 THEN "Failed"
  ELSE IF s.active > 0 THEN "Running"
  ELSE IF s.condition = "Complete" THEN "Succeeded"
  ELSE IF s.condition = "Failed" THEN "Failed"
  ELSE "Unknown"

\* get_job_status
StatusJob ==
  /\ status = "job"
  /\ ("job" \in objs /\ Answers(MapJob(job))) \/ Answers(answer)

-----------------------------------------------------------------------------
(* `logs`.                                                                     *)

LogsStep(next, n) ==
  /\ logs' = next /\ tries' = n
  /\ UNCHANGED <<input, crd, runVars, clusterVars, status, answer, rm>>

\* A Sandbox's pod has its name, a Job's pod is looked for.
LogsExists ==
  /\ Known /\ logs = "idle"
  /\ ("sandbox" \in objs /\ LogsStep("found", 0)) \/ LogsStep("waiting", 0)

\* Faulty variant: the tries are not counted.
LogsTryUncounted == logs = "waiting" /\ LogsStep("waiting", tries)

\* Faulty variant: one try too many.
LogsTryLate ==
  /\ logs = "waiting"
  /\ LogsStep(IF tries = LogTries THEN "failed" ELSE "waiting", tries + 1)

\* The label job-name selects pods of Jobs only.
JobPodThere == Backend = "job" /\ pod # "none"

\* wait_for_job_pod, an empty answer: a second of sleep and the next try.
LogsTry ==
  /\ logs = "waiting" /\ ~JobPodThere
  /\ LogsStep(IF tries + 1 = LogTries THEN "failed" ELSE "waiting", tries + 1)

LogsPodFound == logs = "waiting" /\ JobPodThere /\ LogsStep("found", tries)

\* A kubectl call that fails ends the wait, whatever tries are left.
LogsFail == logs = "waiting" /\ LogsStep("failed", tries)

\* kubectl logs, with -f or without, which needs a container that has started.
LogsOpen ==
  /\ logs = "found"
  /\ \/ /\ pod \notin {"none", "pending"}
        /\ \E as \in {"streaming", "following"} : LogsStep(as, tries)
     \/ LogsStep("failed", tries)

\* With -f the stream ends with the container, or breaks.
Followed == logs = "following" /\ pod = "running"
LogsClose ==
  /\ logs \in {"streaming", "following"}
  /\ (~Followed /\ LogsStep("ok", tries)) \/ LogsStep("failed", tries)

-----------------------------------------------------------------------------
(* `rm`.                                                                       *)

Deleted(kind) == objs' = objs \ {kind} /\ UNCHANGED <<pod, outcome, job, ready>>

\* kubectl delete sandbox: a failure of any sort leads on to the Job.
RmSandbox ==
  /\ Known /\ rm = "idle"
  /\ \/ "sandbox" \in objs /\ Deleted("sandbox") /\ rm' \in {"ok", "job"}
     \/ UNCHANGED clusterVars /\ rm' = "job"
  /\ UNCHANGED <<input, crd, runVars, readVars>>

\* Faulty variant: the result of the second delete is dropped too.
RmJobUnseen ==
  /\ rm = "job" /\ rm' = "ok"
  /\ ("job" \in objs /\ Deleted("job")) \/ UNCHANGED clusterVars
  /\ UNCHANGED <<input, crd, runVars, readVars>>

RmJob ==
  /\ rm = "job"
  /\ \/ "job" \in objs /\ Deleted("job") /\ rm' \in {"ok", "failed"}
     \/ UNCHANGED clusterVars /\ rm' = "failed"
  /\ UNCHANGED <<input, crd, runVars, readVars>>

ShimStep == \/ StatusExists \/ StatusSandbox \/ StatusJob
            \/ LogsExists \/ LogsTry \/ LogsPodFound \/ LogsFail \/ LogsOpen \/ LogsClose
            \/ RmSandbox \/ RmJob

-----------------------------------------------------------------------------
(* The cluster.                                                                *)

Unstarted == pod = "none" /\ outcome = "none"

\* The pod of the Job (backoffLimit 0: one), or the Sandbox's first (SandboxPod models
\* those after it).  No pod has two mounts at one path.
PodCreated ==
  /\ Unstarted /\ ~input.clash /\ objs \cap Workload # {} /\ pod' = "pending"
  /\ UNCHANGED <<input, crd, runVars, objs, outcome, job, ready, readVars, rm>>

\* The Secrets the Sandbox's pod template names.
Referenced == IF Backend = "job" THEN {}
              ELSE {"token", "spec"} \cup (IF input.cred THEN {"llm"} ELSE {})

\* The kubelet retries until every Secret a container needs is there.
PodStarts ==
  /\ pod = "pending" /\ Referenced \subseteq objs /\ pod' = "running"
  /\ UNCHANGED <<input, crd, runVars, objs, outcome, job, ready, readVars, rm>>

\* The container exits, or the pod is evicted, also before it started.
PodEnds(how) ==
  /\ pod = "running" \/ (pod = "pending" /\ how = "failed")
  /\ pod' = how /\ outcome' = how
  /\ UNCHANGED <<input, crd, runVars, objs, job, ready, readVars, rm>>

\* Pods follow the object that owns them.
PodCollected ==
  /\ pod # "none" /\ objs \cap Workload = {} /\ pod' = "none"
  /\ UNCHANGED <<input, crd, runVars, objs, outcome, job, ready, readVars, rm>>

Written == IF job = NoStatus THEN EmptyStatus ELSE job

\* The Job controller writes an empty status, then active, then neither active nor
\* counted, then counted, then the condition; it may leave out the first two.
JobSync ==
  LET s == Written
      over(how) == outcome = how /\ s.active = 0
  IN
  /\ "job" \in objs
  /\ \/ Unstarted /\ job' = s
     \/ pod \in {"pending", "running"} /\ job' = [s EXCEPT !.active = 1]
     \/ outcome # "none" /\ s.active = 1 /\ job' = [s EXCEPT !.active = 0]
     \/ over("succeeded") /\ job' = [s EXCEPT !.succeeded = 1]
     \/ over("failed") /\ job' = [s EXCEPT !.failed = 1]
     \/ s.succeeded = 1 /\ job' = [s EXCEPT !.condition = "Complete"]
     \/ s.failed = 1 /\ job' = [s EXCEPT !.condition = "Failed"]
  /\ job' # job
  /\ UNCHANGED <<input, crd, runVars, objs, pod, outcome, ready, readVars, rm>>

\* The Sandbox controller copies the pod's readiness, True only while it runs.
SandboxSync ==
  /\ "sandbox" \in objs
  /\ \E r \in {"True", "False"} : (r = "True" => pod = "running") /\ ready # r /\ ready' = r
  /\ UNCHANGED <<input, crd, runVars, objs, pod, outcome, job, readVars, rm>>

\* shutdownTime with shutdownPolicy Delete.
Expires ==
  /\ "sandbox" \in objs /\ input.limited /\ Deleted("sandbox")
  /\ UNCHANGED <<input, crd, runVars, readVars, rm>>

ClusterStep == PodCreated \/ PodStarts \/ PodCollected
Next == \/ RunStep \/ RunKilled \/ ShimStep \/ ClusterStep \/ JobSync \/ SandboxSync \/ Expires
        \/ \E how \in {"succeeded", "failed"} : PodEnds(how)

\* kubectl and the API server answer every call of `run` and `logs`, be it with an error;
\* the search for a pod has to end even if no call of it ever fails (LogsFail has no
\* fairness).  A stream that is followed has no fairness while its container runs.
\* Kubernetes keeps creating, starting and collecting the pods it can make; the image and a
\* node are taken to be there.  Containers need not end, statuses need not be written, and
\* nobody has to call `status` or `rm`.
Fairness == /\ WF_vars(RunStep) /\ WF_vars(ClusterStep)
            /\ WF_vars(LogsTry \/ LogsPodFound) /\ WF_vars(LogsOpen)
            /\ WF_vars(~Followed /\ LogsClose)
Spec == Init /\ [][Next]_vars
FairSpec == Spec /\ Fairness

-----------------------------------------------------------------------------
\* What cannot run is refused before anything is applied (main.rs 253-280): a backend
\* the spec does not have, a mount the renderer rejects and a cluster without the CRD
\* leave no object behind, in particular none of the Secrets.
RefusedLeavesNothing ==
  Mismatch \/ ~input.valid \/ (Backend = "sandbox" /\ ~crd) => objs = {}

\* A run_ref that was printed belongs to a run that starts: its pod gets going, unless it
\* is evicted, removed or expired first.  The Sandbox is applied before the Secrets its
\* pod needs, and apply may fail between them (render_sandbox.rs 225-250, main.rs 280).
\* The one exception is the code's: a Sandbox with two mounts at one path may be accepted
\* and printed and gets no pod (render_sandbox.rs 119-122).
PrintedRunStarts ==
  run = "ok" /\ ~(Backend = "sandbox" /\ input.clash)
    ~> pod = "running" \/ outcome # "none" \/ objs \cap Workload = {}

\* Its safety half: a printed run_ref has all its Secrets, although apply goes on after a
\* document that fails and its answers may be lost.  Nothing takes a Secret away again,
\* rm and the expiry included, so no pod of the run ever waits for one in vain.
PrintedRunHasSecrets == run = "ok" => Referenced \subseteq objs

\* When rm succeeds the run is over for good, whichever backend it had and whatever calls
\* failed on the way: no pod is left, and none comes back (main.rs 310-325).
RmStopsTheRun == rm = "ok" ~> [](pod = "none")

\* Its safety half: once the pod of a removed run is gone no controller makes another,
\* because whichever of its two deletes succeeded there is no workload left to make it of.
RemovedForGood == [](rm = "ok" /\ pod = "none" => [](pod = "none"))

\* status calls a run Succeeded or Failed only if its container ended that way, although
\* the controller's counters lag behind the pod; a Sandbox never ends (581-611).
OutcomeIsTrue ==
  /\ answer = "Succeeded" => outcome = "succeeded" /\ Backend = "job"
  /\ answer = "Failed" => outcome = "failed" /\ Backend = "job"

\* Having told the outcome, status never prints another state for this run_ref.
OutcomeStays ==
  [][(answer \in {"Succeeded", "Failed"}) => answer' = answer]_answer

\* logs comes back from looking for a pod, whether or not one ever exists, and from its
\* stream, unless it follows a container that never ends (613-656).
LogsEnd == logs = "waiting" ~> (logs \in {"ok", "failed"} \/ []Followed)

\* "delete Sandbox CR (cascades)": with the Sandbox, rm takes its Secrets.
RmCascades == rm = "ok" /\ pod = "none" => objs = {}
=============================================================================
