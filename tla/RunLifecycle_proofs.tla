------------------------- MODULE RunLifecycle_proofs --------------------------
(* RunLifecycle for every bound of `logs`: types, what a refused run leaves, and *)
(* that `status` tells the truth and keeps to it.                                *)
EXTENDS RunLifecycle, SequenceTheorems, TLAPS

USE DEF LogsStates

\* What the backend of this run_ref consists of.
Parts == IF Backend = "job" THEN {"job"} ELSE {"sandbox"} \cup Secrets

Refusable == Mismatch \/ ~input.valid \/ (Backend = "sandbox" /\ ~crd)

\* `run` gets to its documents only past its checks, and `status` starts when it is done.
RunOrder ==
  /\ run = "check" => ~Mismatch
  /\ run = "render" => ~Mismatch /\ (Backend = "sandbox" => crd)
  /\ run \in {"start", "check", "render", "ok"} => docs = << >>
  /\ docs \in Seq(Parts) /\ objs \subseteq Parts
  /\ docs # << >> \/ objs # {} => ~Refusable
  /\ status # "idle" \/ answer # "none" => run = "ok"
  /\ status = "sandbox" => Backend = "sandbox"

\* What is counted has happened, and what was told was counted.
Truthful ==
  /\ pod \in {"pending", "running"} => outcome = "none"
  /\ job # NoStatus => /\ job.succeeded = 1 => outcome = "succeeded"
                       /\ job.failed = 1 => outcome = "failed"
                       /\ job.condition = "Complete" => job.succeeded = 1
                       /\ job.condition = "Failed" => job.failed = 1
  /\ answer = "Succeeded" => Backend = "job" /\ job # NoStatus /\ job.succeeded = 1
  /\ answer = "Failed" => Backend = "job" /\ job # NoStatus /\ job.failed = 1

LifeInv == TypeOK /\ RunOrder /\ Truthful

\* The command line and the spec are given: they decide the backend once and for all.
LEMMA Given ==
  ASSUME UNCHANGED <<input, crd>>
  PROVE  UNCHANGED <<Detected, Mismatch, Backend, Refusable, Parts>>
BY DEF Detected, Mismatch, Backend, Refusable, Parts

LEMMA Backends ==
  ASSUME input \in Inputs
  PROVE  /\ Backend \in {"job", "sandbox"} /\ Parts \subseteq Workload \cup Secrets
         /\ "job" \in Parts => Backend = "job"
         /\ "sandbox" \in Parts => Backend = "sandbox"
BY DEF Inputs, Backend, Detected, Parts, Workload, Secrets

LEMMA DocumentsAre ==
  ASSUME input \in Inputs
  PROVE  (IF Backend = "job" THEN JobDocuments ELSE SandboxDocuments) \in Seq(Parts)
<1>1. CASE Backend = "job"
  BY <1>1 DEF Parts, JobDocuments
<1>2. CASE Backend # "job"
  <2>1. \/ SandboxDocuments = <<"sandbox", "token", "spec", "llm">>
        \/ SandboxDocuments = <<"sandbox", "token", "spec">>
    BY Zenon DEF SandboxDocuments
  <2>2. Parts = {"sandbox", "token", "spec", "llm"}
    BY <1>2 DEF Parts, Secrets
  <2> HIDE DEF SandboxDocuments, Parts
  <2>3. /\ <<"sandbox", "token", "spec", "llm">> \in Seq({"sandbox", "token", "spec", "llm"})
        /\ <<"sandbox", "token", "spec">> \in Seq({"sandbox", "token", "spec", "llm"})
    OBVIOUS
  <2> QED BY <1>2, <2>1, <2>2, <2>3
<1> QED BY <1>1, <1>2

LEMMA TriesNat == LogTries \in Nat /\ 0 \in 0 .. LogTries
BY LifecycleAssumption

LEMMA EmptyStatusType == EmptyStatus \in JobStatus
BY DEF EmptyStatus, JobStatus

\* A status that counts nothing tells nothing.
LEMMA EmptyStatusTells ==
  /\ EmptyStatus.succeeded # 1 /\ EmptyStatus.failed # 1
  /\ EmptyStatus.condition # "Complete" /\ EmptyStatus.condition # "Failed"
  /\ EmptyStatus # NoStatus
<1>1. EmptyStatus # NoStatus BY EmptyStatusType, LifecycleAssumption
<1> QED BY <1>1 DEF EmptyStatus

\* Types of what a step leaves alone.
LEMMA SameTypes ==
  /\ RunTypes /\ UNCHANGED <<input, crd, runVars>> => RunTypes'
  /\ ClusterTypes /\ UNCHANGED clusterVars => ClusterTypes'
  /\ ReadTypes /\ UNCHANGED <<readVars, rm>> => ReadTypes'
<1>1. RunTypes /\ UNCHANGED <<input, crd, runVars>> => RunTypes'
  BY DEF RunTypes, runVars
<1>2. ClusterTypes /\ UNCHANGED clusterVars => ClusterTypes'
  BY DEF ClusterTypes, clusterVars
<1>3. ReadTypes /\ UNCHANGED <<readVars, rm>> => ReadTypes'
  BY TriesNat DEF ReadTypes, readVars
<1> QED BY <1>1, <1>2, <1>3

LEMMA TailOf ==
  ASSUME NEW S, NEW s \in Seq(S), s # << >>
  PROVE  Head(s) \in S /\ Tail(s) \in Seq(S)
OBVIOUS

-----------------------------------------------------------------------------
\* The steps of `run`.
LEMMA RunStepInv ==
  ASSUME LifeInv, RunStep \/ RunKilled
  PROVE  LifeInv'
<1>1. input \in Inputs /\ TypeOK /\ RunOrder /\ Truthful
  BY DEF LifeInv, TypeOK, RunTypes
<1>2. UNCHANGED <<input, crd>>
  BY DEF RunStep, Resolve, CrdCheck, Render, ApplyDoc, ApplyEnds, RunKilled
<1>3. /\ UNCHANGED <<Mismatch, Backend, Refusable, Parts>>
      /\ Backend \in {"job", "sandbox"} /\ Parts \subseteq Workload \cup Secrets
  BY <1>1, <1>2, Given, Backends
<1> USE DEF LifeInv, TypeOK, clusterVars, readVars, RunFails
<1>4. CASE Resolve
  <2>1. RunTypes' BY <1>1, <1>4 DEF Resolve, RunTypes
  <2>5. ClusterTypes' /\ ReadTypes' BY <1>1, <1>4, SameTypes DEF Resolve
  <2>2. RunOrder' BY <1>1, <1>3, <1>4 DEF Resolve, RunOrder
  <2>3. Truthful' BY <1>1, <1>3, <1>4 DEF Resolve, Truthful
  <2> QED BY <2>1, <2>2, <2>3, <2>5
<1>5. CASE CrdCheck
  <2>1. RunTypes' BY <1>1, <1>5 DEF CrdCheck, RunTypes
  <2>5. ClusterTypes' /\ ReadTypes' BY <1>1, <1>5, SameTypes DEF CrdCheck
  <2>2. RunOrder' BY <1>1, <1>3, <1>5 DEF CrdCheck, RunOrder
  <2>3. Truthful' BY <1>1, <1>3, <1>5 DEF CrdCheck, Truthful
  <2> QED BY <2>1, <2>2, <2>3, <2>5
<1>6. CASE Render
  <2> DEFINE list == IF Backend = "job" THEN JobDocuments ELSE SandboxDocuments
  <2>1. list \in Seq(Parts) /\ list \in Seq(Workload \cup Secrets)
    BY <1>1, <1>3, DocumentsAre
  <2>2. /\ run = "render" /\ UNCHANGED <<input, crd, clusterVars, readVars, rm>>
        /\ \/ input.valid /\ run' = "applying" /\ docs' = list /\ UNCHANGED applied
           \/ ~input.valid /\ RunFails
    BY <1>6 DEF Render
  <2> HIDE DEF list
  <2>3. RunTypes' BY <1>1, <2>1, <2>2 DEF RunTypes
  <2>6. ClusterTypes' /\ ReadTypes' BY <1>1, <2>2, SameTypes
  <2>4. RunOrder' BY <1>1, <1>3, <2>1, <2>2 DEF RunOrder, Refusable
  <2>5. Truthful' BY <1>1, <1>3, <2>2 DEF Truthful
  <2> QED BY <2>3, <2>4, <2>5, <2>6
<1>7. CASE ApplyDoc
  <2>1. /\ docs # << >> /\ docs' = Tail(docs)
        /\ objs' \in {objs, objs \cup {Head(docs)}}
        /\ job' \in {job, NoStatus, EmptyStatus} /\ applied' \in {applied, FALSE}
        /\ UNCHANGED <<input, crd, run, pod, outcome, ready, readVars, rm>>
    BY <1>7 DEF ApplyDoc
  <2>2. /\ Head(docs) \in Parts /\ docs' \in Seq(Parts)
        /\ docs' \in Seq(Workload \cup Secrets)
    BY <1>1, <1>3, <2>1, TailOf DEF RunOrder, RunTypes
  <2>3. RunTypes' BY <1>1, <2>1, <2>2 DEF RunTypes
  <2>4. ClusterTypes' BY <1>1, <1>3, <2>1, <2>2, EmptyStatusType DEF ClusterTypes
  <2>8. ReadTypes' BY <1>1, <2>1, SameTypes
  <2>5. run # "ok" /\ status = "idle" /\ answer = "none"
    BY <1>1, <2>1 DEF RunOrder
  <2>6. RunOrder' BY <1>1, <1>3, <2>1, <2>2, <2>5 DEF RunOrder
  <2>7. Truthful'
    <3>1. CASE job' = job BY <1>1, <1>3, <2>1, <2>5, <3>1 DEF Truthful
    <3>2. CASE job' = NoStatus BY <1>1, <1>3, <2>1, <2>5, <3>2 DEF Truthful
    <3>3. CASE job' = EmptyStatus
      BY <1>1, <1>3, <2>1, <2>5, <3>3, EmptyStatusTells DEF Truthful
    <3> QED BY <2>1, <3>1, <3>2, <3>3
  <2> QED BY <2>3, <2>4, <2>6, <2>7, <2>8
<1>8. CASE ApplyEnds
  <2>1. RunTypes' BY <1>1, <1>8 DEF ApplyEnds, RunTypes
  <2>5. ClusterTypes' /\ ReadTypes' BY <1>1, <1>8, SameTypes DEF ApplyEnds
  <2>2. RunOrder' BY <1>1, <1>3, <1>8 DEF ApplyEnds, RunOrder
  <2>3. Truthful' BY <1>1, <1>3, <1>8 DEF ApplyEnds, Truthful
  <2> QED BY <2>1, <2>2, <2>3, <2>5
<1>9. CASE RunKilled
  <2>4. docs' \in Seq(Workload \cup Secrets) /\ docs' \in Seq(Parts)
    BY <1>1, <1>9, EmptySeq DEF RunKilled, RunTypes, RunOrder
  <2>1. RunTypes' BY <1>1, <1>9, <2>4 DEF RunKilled, RunTypes
  <2>5. ClusterTypes' /\ ReadTypes' BY <1>1, <1>9, SameTypes DEF RunKilled
  <2>6. run # "ok" /\ status = "idle" /\ answer = "none" /\ run' = "killed"
    BY <1>1, <1>9 DEF RunKilled, RunOrder
  <2>7. docs' # << >> => docs # << >>
    BY <1>9 DEF RunKilled
  <2>8. UNCHANGED <<objs, status, answer>>
    BY <1>9 DEF RunKilled, clusterVars, readVars
  <2>2. RunOrder' BY <1>1, <1>3, <2>4, <2>6, <2>7, <2>8 DEF RunOrder
  <2>3. Truthful' BY <1>1, <1>3, <1>9 DEF RunKilled, Truthful
  <2> QED BY <2>1, <2>2, <2>3, <2>5
<1> QED BY <1>4, <1>5, <1>6, <1>7, <1>8, <1>9 DEF RunStep

\* Steps that leave the run, its objects and what was counted and told alone.
LEMMA QuietInv ==
  ASSUME LifeInv, TypeOK', UNCHANGED <<input, crd, runVars, objs, job, outcome, answer>>,
         status' = "sandbox" => Backend = "sandbox",
         status' # "idle" => run = "ok",
         pod' \in {"pending", "running"} => outcome = "none"
  PROVE  LifeInv'
<1>1. UNCHANGED <<Mismatch, Backend, Refusable, Parts>>
  BY Given
<1>2. RunOrder' BY <1>1 DEF LifeInv, RunOrder, runVars
<1>3. Truthful' BY <1>1 DEF LifeInv, Truthful
<1> QED BY <1>2, <1>3 DEF LifeInv

\* What `status` makes of a status record.
LEMMA MapJobTells ==
  ASSUME LifeInv
  PROVE  /\ MapJob(job) \in RunStates
         /\ MapJob(job) = "Succeeded" <=> job # NoStatus /\ job.succeeded = 1
         /\ MapJob(job) = "Failed" <=> job # NoStatus /\ job.failed = 1
<1>1. job = NoStatus \/ (/\ job.succeeded \in 0 .. 1 /\ job.failed \in 0 .. 1
                         /\ job.active \in 0 .. 1 /\ job.condition \in {"none", "Complete", "Failed"})
  BY DEF LifeInv, TypeOK, ClusterTypes, JobStatus
<1>2. job # NoStatus => ~(job.succeeded = 1 /\ job.failed = 1)
  BY DEF LifeInv, Truthful
<1>3. job # NoStatus => (job.condition = "Complete" => job.succeeded = 1)
                         /\ (job.condition = "Failed" => job.failed = 1)
  BY DEF LifeInv, Truthful
<1>4. CASE job = NoStatus BY <1>4 DEF MapJob, RunStates
<1>5. CASE job # NoStatus
  <2>1. CASE job.succeeded = 1 BY <1>1, <1>2, <1>5, <2>1 DEF MapJob, RunStates
  <2>2. CASE job.failed = 1 BY <1>1, <1>2, <1>5, <2>2 DEF MapJob, RunStates
  <2>3. CASE job.succeeded = 0 /\ job.failed = 0
    <3>1. job.condition = "none"
      BY <1>1, <1>3, <1>5, <2>3
    <3> QED BY <1>1, <1>5, <2>3, <3>1 DEF MapJob, RunStates
  <2> QED BY <1>1, <1>5, <2>1, <2>2, <2>3
<1> QED BY <1>4, <1>5

\* A step of `status` that prints a state.
LEMMA AnswerInv ==
  ASSUME LifeInv, NEW a \in RunStates, Answers(a), run = "ok",
         a = "Succeeded" => Backend = "job" /\ job # NoStatus /\ job.succeeded = 1,
         a = "Failed" => Backend = "job" /\ job # NoStatus /\ job.failed = 1
  PROVE  LifeInv'
<1>1. UNCHANGED <<Mismatch, Backend, Refusable, Parts>>
  BY Given DEF Answers
<1>2. TypeOK'
  <2>1. RunTypes' /\ ClusterTypes'
    BY SameTypes DEF LifeInv, TypeOK, Answers
  <2>2. ReadTypes'
    BY TriesNat DEF LifeInv, TypeOK, ReadTypes, Answers
  <2> QED BY <2>1, <2>2 DEF TypeOK
<1>3. RunOrder' BY <1>1 DEF LifeInv, RunOrder, Answers, runVars, clusterVars
<1>4. Truthful' BY <1>1 DEF LifeInv, Truthful, Answers, runVars, clusterVars
<1> QED BY <1>2, <1>3, <1>4 DEF LifeInv

LEMMA StatusInv ==
  ASSUME LifeInv, StatusExists \/ StatusSandbox \/ StatusJob
  PROVE  LifeInv' /\ (answer \in {"Succeeded", "Failed"} => answer' = answer)
<1>1. TypeOK /\ RunOrder /\ Truthful /\ input \in Inputs
  BY DEF LifeInv, TypeOK, RunTypes
<1>2. CASE StatusExists
  <2>1. TypeOK'
    <3>1. RunTypes' /\ ClusterTypes' BY <1>1, <1>2, SameTypes DEF StatusExists, TypeOK
    <3>2. ReadTypes' BY <1>1, <1>2, TriesNat DEF StatusExists, TypeOK, ReadTypes
    <3> QED BY <3>1, <3>2 DEF TypeOK
  <2>2. status' = "sandbox" => Backend = "sandbox"
    BY <1>1, <1>2, Backends DEF StatusExists, RunOrder
  <2> QED BY <1>2, <2>1, <2>2, QuietInv DEF StatusExists, Known, clusterVars, LifeInv, Truthful
<1>3. ASSUME Answers(answer), status # "idle" PROVE LifeInv' /\ answer' = answer
  <2>1. TypeOK'
    <3>1. RunTypes' /\ ClusterTypes' BY <1>1, <1>3, SameTypes DEF Answers, TypeOK
    <3>2. ReadTypes' BY <1>1, <1>3, TriesNat DEF Answers, TypeOK, ReadTypes
    <3> QED BY <3>1, <3>2 DEF TypeOK
  <2> QED BY <1>3, <2>1, QuietInv DEF Answers, clusterVars, LifeInv, Truthful
<1>4. CASE StatusSandbox
  <2>1. CASE Answers(answer) BY <1>3, <1>4, <2>1 DEF StatusSandbox
  <2>2. CASE "sandbox" \in objs /\ Answers(SandboxState)
    <3>1. SandboxState \in {"Running", "Pending", "Unknown"} /\ Backend = "sandbox" /\ run = "ok"
      BY <1>1, <1>4 DEF SandboxState, StatusSandbox, RunOrder
    <3>2. LifeInv'
      BY <2>2, <3>1, AnswerInv DEF RunStates
    <3>3. answer \notin {"Succeeded", "Failed"}
      BY <1>1, <3>1 DEF Truthful
    <3> QED BY <3>2, <3>3
  <2> QED BY <1>4, <2>1, <2>2 DEF StatusSandbox
<1>5. CASE StatusJob
  <2>1. CASE Answers(answer) BY <1>3, <1>5, <2>1 DEF StatusJob
  <2>2. CASE "job" \in objs /\ Answers(MapJob(job))
    <3>1. Backend = "job" /\ run = "ok"
      BY <1>1, <1>5, <2>2, Backends DEF StatusJob, RunOrder
    <3>2. LifeInv'
      BY <2>2, <3>1, AnswerInv, MapJobTells
    <3>3. answer' = MapJob(job)
      BY <2>2 DEF Answers
    <3> QED BY <1>1, <3>2, <3>3, MapJobTells DEF Truthful
  <2> QED BY <1>5, <2>1, <2>2 DEF StatusJob
<1> QED BY <1>2, <1>4, <1>5

\* The steps of `logs`.
LEMMA LogsInv ==
  ASSUME LifeInv, LogsExists \/ LogsTry \/ LogsPodFound \/ LogsFail \/ LogsOpen \/ LogsClose
  PROVE  LifeInv' /\ UNCHANGED answer
<1>1. /\ UNCHANGED <<input, crd, runVars, clusterVars, status, answer, rm>>
      /\ logs' \in LogsStates /\ tries' \in 0 .. LogTries
      /\ logs' = "waiting" => tries' < LogTries
  <2>1. /\ logs \in LogsStates /\ tries \in 0 .. LogTries
        /\ logs = "waiting" => tries < LogTries
        /\ LogTries \in Nat \ {0}
    BY LifecycleAssumption DEF LifeInv, TypeOK, ReadTypes
  <2>2. CASE LogsExists BY <2>1, <2>2 DEF LogsExists, LogsStep
  <2>3. CASE LogsTry
    <3>1. tries + 1 \in 0 .. LogTries /\ (tries + 1 # LogTries => tries + 1 < LogTries)
      BY <2>1, <2>3 DEF LogsTry
    <3> QED BY <3>1, <2>3 DEF LogsTry, LogsStep
  <2>4. CASE LogsPodFound BY <2>1, <2>4 DEF LogsPodFound, LogsStep
  <2>5. CASE LogsFail BY <2>1, <2>5 DEF LogsFail, LogsStep
  <2>6. CASE LogsOpen BY <2>1, <2>6 DEF LogsOpen, LogsStep
  <2>7. CASE LogsClose BY <2>1, <2>7 DEF LogsClose, LogsStep
  <2> QED BY <2>2, <2>3, <2>4, <2>5, <2>6, <2>7
<1>2. TypeOK'
  <2>1. RunTypes' /\ ClusterTypes' BY <1>1, SameTypes DEF LifeInv, TypeOK
  <2>2. ReadTypes' BY <1>1, TriesNat DEF LifeInv, TypeOK, ReadTypes
  <2> QED BY <2>1, <2>2 DEF TypeOK
<1> QED BY <1>1, <1>2, QuietInv DEF clusterVars, LifeInv, RunOrder, Truthful

\* `rm`, and a Sandbox whose time has come: an object goes.
LEMMA DeletedInv ==
  ASSUME LifeInv, TypeOK', UNCHANGED <<input, crd, runVars, readVars, pod, outcome, job>>,
         objs' \subseteq objs
  PROVE  LifeInv'
<1>1. UNCHANGED <<Mismatch, Backend, Refusable, Parts>>
  BY Given
<1>2. RunOrder' BY <1>1 DEF LifeInv, RunOrder, runVars, readVars
<1>3. Truthful' BY <1>1 DEF LifeInv, Truthful, readVars
<1> QED BY <1>2, <1>3 DEF LifeInv

LEMMA RmInv ==
  ASSUME LifeInv, RmSandbox \/ RmJob \/ Expires
  PROVE  LifeInv' /\ UNCHANGED answer
<1>1. /\ UNCHANGED <<input, crd, runVars, readVars, pod, outcome, job, ready>>
      /\ objs' \subseteq objs /\ rm' \in {"idle", "job", "ok", "failed"}
  BY DEF LifeInv, TypeOK, ReadTypes, RmSandbox, RmJob, Expires, Deleted, clusterVars
<1>2. TypeOK'
  <2>1. RunTypes' BY <1>1, SameTypes DEF LifeInv, TypeOK
  <2>2. ClusterTypes' BY <1>1 DEF LifeInv, TypeOK, ClusterTypes
  <2>3. ReadTypes' BY <1>1, TriesNat DEF LifeInv, TypeOK, ReadTypes, readVars
  <2> QED BY <2>1, <2>2, <2>3 DEF TypeOK
<1> QED BY <1>1, <1>2, DeletedInv DEF readVars

\* The Job controller counts only what its pod has done, and takes nothing back.
LEMMA JobSyncInv ==
  ASSUME LifeInv, JobSync
  PROVE  LifeInv' /\ UNCHANGED answer
<1> DEFINE s == Written
<1>1. /\ s \in JobStatus
      /\ s.succeeded = 1 => outcome = "succeeded"
      /\ s.failed = 1 => outcome = "failed"
      /\ s.condition = "Complete" => s.succeeded = 1
      /\ s.condition = "Failed" => s.failed = 1
      /\ job # NoStatus => s = job
  <2>1. job \in JobStatus \cup {NoStatus} /\ Truthful
    BY DEF LifeInv, TypeOK, ClusterTypes
  <2>2. CASE job = NoStatus
    <3>1. s = EmptyStatus BY <2>2 DEF Written
    <3> QED BY <2>2, <3>1, EmptyStatusType, EmptyStatusTells
  <2>3. CASE job # NoStatus BY <2>1, <2>3 DEF Written, Truthful
  <2> QED BY <2>2, <2>3
<1>2. /\ \/ job' = s \/ job' = [s EXCEPT !.active = 1] \/ job' = [s EXCEPT !.active = 0]
         \/ outcome = "succeeded" /\ job' = [s EXCEPT !.succeeded = 1]
         \/ outcome = "failed" /\ job' = [s EXCEPT !.failed = 1]
         \/ s.succeeded = 1 /\ job' = [s EXCEPT !.condition = "Complete"]
         \/ s.failed = 1 /\ job' = [s EXCEPT !.condition = "Failed"]
      /\ UNCHANGED <<input, crd, runVars, objs, pod, outcome, ready, readVars, rm>>
  BY DEF JobSync
<1>3. UNCHANGED <<input, crd, runVars, objs, pod, outcome, ready, readVars, rm>>
  BY <1>2
<1> HIDE DEF s
<1>4. /\ job' \in JobStatus
      /\ job'.succeeded = 1 => outcome = "succeeded"
      /\ job'.failed = 1 => outcome = "failed"
      /\ job'.condition = "Complete" => job'.succeeded = 1
      /\ job'.condition = "Failed" => job'.failed = 1
      /\ s.succeeded = 1 => job'.succeeded = 1
      /\ s.failed = 1 => job'.failed = 1
  <2>1. /\ DOMAIN s = {"active", "succeeded", "failed", "condition"}
        /\ s.active \in 0 .. 1 /\ s.succeeded \in 0 .. 1 /\ s.failed \in 0 .. 1
        /\ s.condition \in {"none", "Complete", "Failed"}
    BY <1>1 DEF JobStatus
  <2>2. CASE job' = s BY <1>1, <2>2
  <2>3. CASE job' = [s EXCEPT !.active = 1] BY <1>1, <2>1, <2>3 DEF JobStatus
  <2>4. CASE job' = [s EXCEPT !.active = 0] BY <1>1, <2>1, <2>4 DEF JobStatus
  <2>5. CASE outcome = "succeeded" /\ job' = [s EXCEPT !.succeeded = 1]
    BY <1>1, <2>1, <2>5 DEF JobStatus
  <2>6. CASE outcome = "failed" /\ job' = [s EXCEPT !.failed = 1]
    BY <1>1, <2>1, <2>6 DEF JobStatus
  <2>7. CASE s.succeeded = 1 /\ job' = [s EXCEPT !.condition = "Complete"]
    BY <1>1, <2>1, <2>7 DEF JobStatus
  <2>8. CASE s.failed = 1 /\ job' = [s EXCEPT !.condition = "Failed"]
    BY <1>1, <2>1, <2>8 DEF JobStatus
  <2> QED BY <1>2, <2>2, <2>3, <2>4, <2>5, <2>6, <2>7, <2>8
<1>9. job' # NoStatus
  BY <1>4, LifecycleAssumption
<1>5. UNCHANGED <<Mismatch, Backend, Refusable, Parts>>
  BY <1>3, Given
<1>6. TypeOK'
  <2>1. RunTypes' /\ ReadTypes' BY <1>3, SameTypes DEF LifeInv, TypeOK
  <2>2. ClusterTypes' BY <1>3, <1>4 DEF LifeInv, TypeOK, ClusterTypes
  <2> QED BY <2>1, <2>2 DEF TypeOK
<1>7. RunOrder' BY <1>3, <1>5 DEF LifeInv, RunOrder, runVars, readVars
<1>8. Truthful' BY <1>1, <1>3, <1>4, <1>5, <1>9 DEF LifeInv, Truthful, readVars
<1> QED BY <1>3, <1>6, <1>7, <1>8 DEF LifeInv, readVars

LEMMA PodEndsInv ==
  ASSUME LifeInv, NEW how \in {"succeeded", "failed"}, PodEnds(how)
  PROVE  LifeInv' /\ UNCHANGED answer
<1>1. /\ outcome = "none" /\ pod' = how /\ outcome' = how
      /\ UNCHANGED <<input, crd, runVars, objs, job, ready, readVars, rm>>
  BY DEF PodEnds, LifeInv, Truthful
<1>2. UNCHANGED <<Mismatch, Backend, Refusable, Parts>>
  BY <1>1, Given
<1>3. TypeOK'
  <2>1. RunTypes' /\ ReadTypes' BY <1>1, SameTypes DEF LifeInv, TypeOK
  <2>2. ClusterTypes' BY <1>1 DEF LifeInv, TypeOK, ClusterTypes
  <2> QED BY <2>1, <2>2 DEF TypeOK
<1>4. RunOrder' BY <1>1, <1>2 DEF LifeInv, RunOrder, runVars, readVars
<1>5. Truthful' BY <1>1, <1>2 DEF LifeInv, Truthful, readVars
<1> QED BY <1>1, <1>3, <1>4, <1>5 DEF LifeInv, readVars

\* The other steps of the cluster.
LEMMA ClusterInv ==
  ASSUME LifeInv, ClusterStep \/ SandboxSync
  PROVE  LifeInv' /\ UNCHANGED answer
<1>1. /\ UNCHANGED <<input, crd, runVars, objs, outcome, job, readVars, rm>>
      /\ pod' \in {"none", "pending", "running", pod} /\ ready' \in {ready, "True", "False"}
      /\ pod' \in {"pending", "running"} => outcome = "none"
  BY DEF ClusterStep, PodCreated, PodStarts, PodCollected, SandboxSync, Unstarted, LifeInv, Truthful
<1>2. TypeOK'
  <2>1. RunTypes' /\ ReadTypes' BY <1>1, SameTypes DEF LifeInv, TypeOK
  <2>2. ClusterTypes' BY <1>1 DEF LifeInv, TypeOK, ClusterTypes
  <2> QED BY <2>1, <2>2 DEF TypeOK
<1> QED BY <1>1, <1>2, QuietInv DEF LifeInv, RunOrder, readVars

LEMMA LifeInvStep ==
  ASSUME LifeInv, Next
  PROVE  LifeInv' /\ (answer \in {"Succeeded", "Failed"} => answer' = answer)
<1>1. CASE RunStep \/ RunKilled
  <2>1. UNCHANGED answer
    BY <1>1 DEF RunStep, Resolve, CrdCheck, Render, ApplyDoc, ApplyEnds, RunKilled, readVars
  <2> QED BY <1>1, <2>1, RunStepInv
<1>2. CASE ShimStep
  BY <1>2, StatusInv, LogsInv, RmInv DEF ShimStep
<1>3. CASE ClusterStep \/ SandboxSync BY <1>3, ClusterInv
<1>4. CASE JobSync BY <1>4, JobSyncInv
<1>5. CASE Expires BY <1>5, RmInv
<1>6. CASE \E how \in {"succeeded", "failed"} : PodEnds(how) BY <1>6, PodEndsInv
<1> QED BY <1>1, <1>2, <1>3, <1>4, <1>5, <1>6 DEF Next

LEMMA LifeInvStutter == ASSUME LifeInv, UNCHANGED vars PROVE LifeInv'
<1>1. TypeOK' BY SameTypes DEF LifeInv, TypeOK, vars
<1> QED BY <1>1, QuietInv DEF vars, clusterVars, readVars, LifeInv, RunOrder, Truthful

-----------------------------------------------------------------------------
\* From its checks to its last answer, a run_ref keeps to LifeInv.
THEOREM LifeInvariant == Spec => []LifeInv
<1>1. Init => LifeInv
  <2> SUFFICES ASSUME Init PROVE LifeInv
    OBVIOUS
  <2>6. << >> \in Seq(Workload \cup Secrets) /\ << >> \in Seq(Parts)
    BY EmptySeq
  <2>7. docs = << >> BY DEF Init
  <2>1. RunTypes BY <2>6, <2>7 DEF Init, RunTypes
  <2>2. ClusterTypes BY DEF Init, ClusterTypes
  <2>3. ReadTypes BY TriesNat, LifecycleAssumption DEF Init, ReadTypes
  <2>4. RunOrder BY <2>6, <2>7 DEF Init, RunOrder
  <2>5. Truthful BY DEF Init, Truthful
  <2> QED BY <2>1, <2>2, <2>3, <2>4, <2>5 DEF LifeInv, TypeOK
<1>2. LifeInv /\ [Next]_vars => LifeInv'
  BY LifeInvStep, LifeInvStutter
<1> QED BY <1>1, <1>2, PTL DEF Spec

\* Type correctness of a run_ref's life.
THEOREM LifeTypes == Spec => []TypeOK
<1>1. LifeInv => TypeOK BY DEF LifeInv
<1> QED BY <1>1, LifeInvariant, PTL

\* What cannot run leaves nothing in the cluster.
THEOREM RefusalIsClean == Spec => []RefusedLeavesNothing
<1>1. LifeInv => RefusedLeavesNothing
  BY DEF LifeInv, RunOrder, Refusable, RefusedLeavesNothing
<1> QED BY <1>1, LifeInvariant, PTL

\* `status` tells an outcome only if it is the container's (map_job_to_state).
THEOREM OutcomeTrue == Spec => []OutcomeIsTrue
<1>1. LifeInv => OutcomeIsTrue
  BY DEF LifeInv, Truthful, OutcomeIsTrue
<1> QED BY <1>1, LifeInvariant, PTL

\* And never takes it back.
THEOREM OutcomeKept == Spec => OutcomeStays
<1>1. LifeInv /\ [Next]_vars => [(answer \in {"Succeeded", "Failed"}) => answer' = answer]_answer
  BY LifeInvStep DEF vars, readVars
<1> QED BY <1>1, LifeInvariant, PTL DEF Spec, OutcomeStays

-----------------------------------------------------------------------------
(* What liveness rests on: a printed run can start, and a removed one cannot.  *)

Left == {docs[i] : i \in DOMAIN docs}

\* As long as every document was applied each Secret is in the cluster or still to be
\* applied, and nobody removes a run before it is printed.
Settled ==
  /\ run \in {"applying", "ok"} /\ applied => Referenced \subseteq objs \cup Left
  /\ run = "ok" => applied
  /\ rm # "idle" => run = "ok"
  /\ rm = "ok" => objs \cap Workload = {}

LEMMA LeftOf ==
  ASSUME docs \in Seq(Workload \cup Secrets), docs # << >>, docs' = Tail(docs)
  PROVE  Left \subseteq {Head(docs)} \cup Left'
<1> SUFFICES ASSUME NEW i \in 1 .. Len(docs), i # 1
             PROVE  docs[i] \in Left'
  BY DEF Left
<1>1. /\ i - 1 \in 1 .. Len(Tail(docs)) /\ Tail(docs)[i - 1] = docs[i]
      /\ DOMAIN Tail(docs) = 1 .. Len(Tail(docs))
  OBVIOUS
<1> QED BY <1>1 DEF Left

LEMMA RenderedAll ==
  ASSUME docs' = (IF Backend = "job" THEN JobDocuments ELSE SandboxDocuments)
  PROVE  Referenced \subseteq Left'
<1>1. CASE Backend = "job" BY <1>1 DEF Referenced
<1>2. CASE Backend # "job" /\ input.cred
  <2>1. docs' = <<"sandbox", "token", "spec", "llm">>
    BY <1>2 DEF SandboxDocuments
  <2>2. "token" \in Left' /\ "spec" \in Left' /\ "llm" \in Left'
    BY <2>1 DEF Left
  <2> QED BY <1>2, <2>2 DEF Referenced
<1>3. CASE Backend # "job" /\ ~input.cred
  <2>1. docs' = <<"sandbox", "token", "spec">>
    BY <1>3 DEF SandboxDocuments
  <2>2. "token" \in Left' /\ "spec" \in Left'
    BY <2>1 DEF Left
  <2> QED BY <1>3, <2>2 DEF Referenced
<1> QED BY <1>1, <1>2, <1>3

\* The Secrets a pod names, fixed with the command line; no delete takes one.
LEMMA ReferencedStays ==
  /\ UNCHANGED <<input, crd>> => UNCHANGED Referenced
  /\ Referenced \cap Workload = {}
BY Given DEF Referenced, Workload

LEMMA RunStepSettled ==
  ASSUME LifeInv, Settled, RunStep \/ RunKilled
  PROVE  Settled'
<1>1. /\ UNCHANGED <<input, crd, rm>> /\ UNCHANGED Referenced
      /\ run # "ok" /\ rm = "idle"
  <2>1. UNCHANGED <<input, crd, rm>>
    BY DEF RunStep, Resolve, CrdCheck, Render, ApplyDoc, ApplyEnds, RunKilled
  <2>2. run # "ok"
    BY DEF RunStep, Resolve, CrdCheck, Render, ApplyDoc, ApplyEnds, RunKilled, LifeInv, RunOrder
  <2> QED BY <2>1, <2>2, ReferencedStays DEF Settled
<1>2. CASE Resolve \/ CrdCheck \/ RunKilled
  BY <1>1, <1>2 DEF Resolve, CrdCheck, RunKilled, RunFails, Settled
<1>3. CASE Render
  BY <1>1, <1>3, RenderedAll DEF Render, RunFails, Settled
<1>4. CASE ApplyDoc
  <2>1. Left \subseteq {Head(docs)} \cup Left'
    BY <1>4, LeftOf DEF ApplyDoc, LifeInv, TypeOK, RunTypes
  <2>2. applied' => applied /\ objs' = objs \cup {Head(docs)}
    BY <1>4 DEF ApplyDoc, LifeInv, TypeOK, RunTypes
  <2> QED BY <1>1, <1>4, <2>1, <2>2 DEF ApplyDoc, Settled
<1>5. CASE ApplyEnds
  <2>1. Left = {} /\ UNCHANGED <<objs, Left>>
    BY <1>5 DEF ApplyEnds, Left, clusterVars
  <2> QED BY <1>1, <1>5, <2>1 DEF ApplyEnds, Settled
<1> QED BY <1>2, <1>3, <1>4, <1>5 DEF RunStep

\* Whatever happens after `run`: at most workloads go, and rm reports success only when
\* the one of its own backend has gone.
LEMMA SettledStep ==
  ASSUME LifeInv, Settled, [Next]_vars
  PROVE  Settled' /\ (rm = "ok" /\ pod = "none" => pod' = "none")
<1>1. CASE RunStep \/ RunKilled
  <2>1. UNCHANGED pod
    BY <1>1 DEF RunStep, Resolve, CrdCheck, Render, ApplyDoc, ApplyEnds, RunKilled, clusterVars
  <2> QED BY <1>1, <2>1, RunStepSettled
<1>2. ASSUME UNCHANGED <<input, crd, runVars>>, objs \ Workload \subseteq objs',
             rm' # "idle" => run = "ok", rm' = "ok" => objs' \cap Workload = {}
      PROVE  Settled'
  <2>1. UNCHANGED <<run, docs, applied, Left, Referenced>>
    BY <1>2, ReferencedStays DEF runVars, Left
  <2> QED BY <1>2, <2>1, ReferencedStays DEF Settled
<1>3. CASE RmSandbox \/ RmJob
  <2>1. /\ objs \subseteq Parts /\ (Backend = "job" => Parts = {"job"})
        /\ Backend # "job" => "job" \notin Parts
    BY DEF LifeInv, RunOrder, Parts, Secrets
  <2>2. /\ UNCHANGED <<input, crd, runVars, pod>> /\ objs \ Workload \subseteq objs'
        /\ rm' # "idle" => run = "ok"
    BY <1>3 DEF RmSandbox, RmJob, Deleted, Known, Settled, Workload, clusterVars
  <2>3. ASSUME rm' = "ok" PROVE objs' \cap Workload = {}
    <3>1. CASE RmSandbox
      BY <2>1, <2>3, <3>1 DEF RmSandbox, Deleted, Workload
    <3>2. CASE RmJob
      BY <2>1, <2>3, <3>2 DEF RmJob, Deleted, Workload
    <3> QED BY <1>3, <3>1, <3>2
  <2> QED BY <1>2, <2>2, <2>3
<1>4. CASE \/ StatusExists \/ StatusSandbox \/ StatusJob
           \/ LogsExists \/ LogsTry \/ LogsPodFound \/ LogsFail \/ LogsOpen \/ LogsClose
           \/ UNCHANGED vars
  <2>1. UNCHANGED <<input, crd, runVars, objs, pod, rm>>
    BY <1>4 DEF StatusExists, StatusSandbox, StatusJob, Answers, LogsExists, LogsTry,
                LogsPodFound, LogsFail, LogsOpen, LogsClose, LogsStep, clusterVars, vars
  <2> QED BY <1>2, <2>1 DEF Settled
<1>5. CASE ClusterStep \/ JobSync \/ SandboxSync
  <2>1. UNCHANGED <<input, crd, runVars, objs, rm>>
    BY <1>5 DEF ClusterStep, PodCreated, PodStarts, PodCollected, JobSync, SandboxSync
  <2>2. rm = "ok" /\ pod = "none" => pod' = "none"
    BY <1>5 DEF ClusterStep, PodCreated, PodStarts, PodCollected, JobSync, SandboxSync, Settled
  <2> QED BY <1>2, <2>1, <2>2 DEF Settled
<1>6. CASE Expires
  BY <1>2, <1>6 DEF Expires, Deleted, Workload, Settled
<1>7. CASE \E how \in {"succeeded", "failed"} : PodEnds(how)
  BY <1>2, <1>7 DEF PodEnds, Settled
<1> QED BY <1>1, <1>3, <1>4, <1>5, <1>6, <1>7 DEF Next, ShimStep

\* Settled holds of every behaviour.
THEOREM SettledInvariant == Spec => []Settled
<1>1. Init => Settled
  BY DEF Init, Settled
<1>2. LifeInv /\ Settled /\ [Next]_vars => Settled'
  BY SettledStep
<1> QED BY <1>1, <1>2, LifeInvariant, PTL DEF Spec

\* A printed run_ref has all its Secrets.
THEOREM PrintedIsComplete == Spec => []PrintedRunHasSecrets
<1>1. LifeInv /\ Settled => PrintedRunHasSecrets
  <2>1. LifeInv /\ run = "ok" => docs = << >>
    BY DEF LifeInv, RunOrder
  <2>2. docs = << >> => Left = {}
    BY DEF Left
  <2> QED BY <2>2, <2>1 DEF Settled, PrintedRunHasSecrets
<1> QED BY <1>1, LifeInvariant, SettledInvariant, PTL

\* A removed run whose pod is gone stays without one.
THEOREM RemovalStands == Spec => RemovedForGood
<1>1. LifeInv /\ Settled /\ [Next]_vars /\ rm = "ok" /\ pod = "none"
        => (rm = "ok" /\ pod = "none")'
  <2> SUFFICES ASSUME LifeInv, Settled, [Next]_vars, rm = "ok", pod = "none"
               PROVE  rm' = "ok" /\ pod' = "none"
    OBVIOUS
  <2>1. UNCHANGED rm
    BY DEF Next, RunStep, RunKilled, ShimStep, ClusterStep, JobSync, SandboxSync, Expires, PodEnds,
           Resolve, CrdCheck, Render, ApplyDoc, ApplyEnds, StatusExists, StatusSandbox, StatusJob,
           Answers, LogsExists, LogsTry, LogsPodFound, LogsFail, LogsOpen, LogsClose, LogsStep,
           RmSandbox, RmJob, PodCreated, PodStarts, PodCollected, vars
  <2> QED BY <2>1, SettledStep
<1> QED BY <1>1, LifeInvariant, SettledInvariant, PTL DEF Spec, RemovedForGood

-----------------------------------------------------------------------------
(* How long `run` and `logs` may take.                                         *)

\* The steps `run` has before it at most, those of kubectl apply included, and `logs`.
RunLeft ==
  Len(docs) + (IF run = "start" THEN 8 ELSE IF run = "check" THEN 7 ELSE IF run = "render" THEN 6
               ELSE IF run = "applying" THEN 1 ELSE 0)

LogsLeft ==
  IF logs = "idle" THEN LogTries + 3
  ELSE IF logs = "waiting" THEN LogTries - tries + 2
  ELSE IF logs = "found" THEN 2
  ELSE IF logs \in {"streaming", "following"} THEN 1 ELSE 0

LEMMA RunStepAdvances ==
  ASSUME LifeInv, RunStep \/ RunKilled
  PROVE  RunLeft' < RunLeft
<1>1. docs \in Seq(Workload \cup Secrets) /\ Len(docs) \in Nat
      /\ (run \in {"start", "check", "render"} => docs = << >>)
  BY DEF LifeInv, TypeOK, RunTypes, RunOrder
<1>2. CASE Resolve \/ CrdCheck
  BY <1>1, <1>2 DEF Resolve, CrdCheck, RunFails, RunLeft
<1>3. CASE Render
  <2>1. run = "render" /\ docs = << >>
    BY <1>1, <1>3 DEF Render
  <2>2. \/ run' = "applying" /\ docs' \in {JobDocuments, SandboxDocuments}
        \/ run' = "failed" /\ docs' = << >>
    BY <1>3, <2>1 DEF Render, RunFails
  <2>3. Len(JobDocuments) = 1 /\ Len(SandboxDocuments) \in {3, 4}
    BY DEF JobDocuments, SandboxDocuments
  <2>4. Len(docs') \in 0 .. 4
    BY <2>2, <2>3
  <2>5. RunLeft = 6
    BY <2>1 DEF RunLeft
  <2>6. RunLeft' = Len(docs') + 1 \/ RunLeft' = Len(docs') + 0
    BY <2>2 DEF RunLeft
  <2>7. RunLeft' \in 0 .. 5
    <3> DEFINE n == Len(docs')
    <3> HIDE DEF n
    <3>1. n \in 0 .. 4 /\ (RunLeft' = n + 1 \/ RunLeft' = n + 0)
      BY <2>4, <2>6 DEF n
    <3>2. \A k \in 0 .. 4 : k + 1 \in 0 .. 5 /\ k + 0 \in 0 .. 5
      OBVIOUS
    <3> QED BY <3>1, <3>2
  <2> QED BY <2>5, <2>7
<1>4. CASE ApplyDoc
  <2>1. Len(docs') = Len(docs) - 1 /\ run' = run
    BY <1>1, <1>4 DEF ApplyDoc
  <2> QED BY <1>1, <2>1 DEF RunLeft
<1>5. CASE ApplyEnds
  BY <1>1, <1>5 DEF ApplyEnds, RunLeft
<1>6. CASE RunKilled
  <2>1. Len(docs') <= Len(docs) /\ Len(docs') \in Nat
    BY <1>1, <1>6 DEF RunKilled
  <2>2. run \in {"start", "check", "render", "applying"} /\ run' = "killed"
    BY <1>6 DEF RunKilled, LifeInv, TypeOK, RunTypes
  <2> QED BY <1>1, <2>1, <2>2 DEF RunLeft
<1> QED BY <1>2, <1>3, <1>4, <1>5, <1>6 DEF RunStep

LEMMA LogsStepAdvances ==
  ASSUME LifeInv, LogsExists \/ LogsTry \/ LogsPodFound \/ LogsFail \/ LogsOpen \/ LogsClose
  PROVE  LogsLeft' < LogsLeft
<1>1. LogTries \in Nat \ {0} /\ tries \in 0 .. LogTries /\ (logs = "waiting" => tries < LogTries)
  BY LifecycleAssumption DEF LifeInv, TypeOK, ReadTypes
<1>2. \/ logs = "idle" /\ logs' \in {"found", "waiting"} /\ tries' = 0
      \/ logs = "waiting" /\ logs' \in {"waiting", "failed"} /\ tries' = tries + 1
      \/ logs = "waiting" /\ logs' \in {"found", "failed"}
      \/ logs = "found" /\ logs' \in {"streaming", "following", "failed"}
      \/ logs \in {"streaming", "following"} /\ logs' \in {"ok", "failed"}
  BY DEF LogsExists, LogsTry, LogsPodFound, LogsFail, LogsOpen, LogsClose, LogsStep
<1> QED BY <1>1, <1>2 DEF LogsLeft

\* The safety half of LogsEnd, and as much for `run`: each of their steps leaves them less to
\* do, however the calls of kubectl end and whatever the cluster does in between.
THEOREM CallsAreBounded ==
  Spec => [][/\ <<run', docs'>> # <<run, docs>> => RunLeft' < RunLeft
             /\ <<logs', tries'>> # <<logs, tries>> => LogsLeft' < LogsLeft]_vars
          /\ [](RunLeft \in Nat /\ LogsLeft \in 0 .. LogTries + 3)
<1>1. LifeInv => RunLeft \in Nat /\ LogsLeft \in 0 .. LogTries + 3
  BY LifecycleAssumption DEF LifeInv, TypeOK, RunTypes, ReadTypes, RunLeft, LogsLeft
<1>2. ASSUME LifeInv, [Next]_vars
      PROVE  /\ <<run', docs'>> # <<run, docs>> => RunLeft' < RunLeft
             /\ <<logs', tries'>> # <<logs, tries>> => LogsLeft' < LogsLeft
  <2>1. CASE RunStep \/ RunKilled
    <3>1. UNCHANGED <<logs, tries>>
      BY <2>1 DEF RunStep, RunKilled, Resolve, CrdCheck, Render, ApplyDoc, ApplyEnds, readVars
    <3> QED BY <1>2, <2>1, <3>1, RunStepAdvances
  <2>2. CASE LogsExists \/ LogsTry \/ LogsPodFound \/ LogsFail \/ LogsOpen \/ LogsClose
    <3>1. UNCHANGED <<run, docs>>
      BY <2>2 DEF LogsExists, LogsTry, LogsPodFound, LogsFail, LogsOpen, LogsClose, LogsStep, runVars
    <3> QED BY <1>2, <2>2, <3>1, LogsStepAdvances
  <2>3. CASE \/ StatusExists \/ StatusSandbox \/ StatusJob \/ RmSandbox \/ RmJob
             \/ ClusterStep \/ JobSync \/ SandboxSync \/ Expires \/ UNCHANGED vars
             \/ \E how \in {"succeeded", "failed"} : PodEnds(how)
    <3>1. UNCHANGED <<run, docs, logs, tries>>
      BY <2>3 DEF StatusExists, StatusSandbox, StatusJob, Answers, RmSandbox, RmJob, ClusterStep,
                  PodCreated, PodStarts, PodCollected, JobSync, SandboxSync, Expires, PodEnds,
                  runVars, readVars, vars
    <3> QED BY <3>1
  <2> QED BY <1>2, <2>1, <2>2, <2>3 DEF Next, ShimStep
<1>3. LifeInv /\ [Next]_vars
        => [/\ <<run', docs'>> # <<run, docs>> => RunLeft' < RunLeft
            /\ <<logs', tries'>> # <<logs, tries>> => LogsLeft' < LogsLeft]_vars
  BY <1>2
<1> QED BY <1>1, <1>3, LifeInvariant, PTL DEF Spec
=============================================================================
