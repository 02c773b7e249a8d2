----------------------------- MODULE Deployments ------------------------------
(* Several invocations of `run` and `render` that share a cluster, each with     *)
(* the documents of its manifest (Rendering) under the name of its run           *)
(* (RunNames), and `rm` by run_ref.  No invocation knows of another; the cluster *)
(* keeps one object for a kind, namespace and name.  Backend choice, the checks  *)
(* before a render and the controllers are in RunLifecycle.                      *)
EXTENDS Rendering, Functions

CONSTANTS Runs,       \* invocations
          Workloads,  \* what they may be asked: functions from some of Runs to requests
          Clock,      \* times at which a manifest may be rendered
          ContextNamespace   \* of the kubeconfig, for an object that names none

ASSUME DeploymentsAssumption ==
  /\ \A w \in Workloads : DOMAIN w \subseteq Runs /\ \A r \in DOMAIN w : w[r] \in Requests
  /\ Clock \subseteq -LastDate .. LastDate
  /\ IsName(ContextNamespace)

VARIABLES asked,    \* the requests of this workload, fixed
          pc,       \* where each invocation is
          short,    \* the first block of its run id
          born,     \* the time it rendered
          todo,     \* documents it has still to apply
          clean,    \* every document so far was applied
          objects   \* what is in the cluster

vars == <<asked, pc, short, born, todo, clean, objects>>
Active == DOMAIN asked

Name(r) == JobName(asked[r].prefix, asked[r].name, short[r])
Documents(r) == Manifest(asked[r], r, short[r], born[r])

TypeOK ==
  /\ asked \in Workloads
  /\ pc \in [Active -> {"new", "printed", "applying", "done", "failed", "removed"}]
  /\ short \in [Active -> Shorts] /\ born \in [Active -> Clock]
  /\ DOMAIN todo = Active
  /\ \A r \in Active :
       /\ LET docs == Documents(r)
          IN  \E k \in 1 .. Len(docs) + 1 : todo[r] = SubSeq(docs, k, Len(docs))
       /\ pc[r] \in {"new", "done", "removed"} => todo[r] = << >>
  /\ clean \in [Active -> BOOLEAN]
  /\ \A o, p \in objects : <<o.kind, o.namespace, o.name>> = <<p.kind, p.namespace, p.name>> => o = p

\* Run ids are random: their first blocks may coincide.
Init ==
  /\ asked \in Workloads
  /\ pc = [r \in Active |-> "new"]
  /\ short \in [Active -> Shorts] /\ born \in [Active -> Clock]
  /\ todo = [r \in Active |-> << >>] /\ clean = [r \in Active |-> TRUE]
  /\ objects = {}

Goes(r, place) == pc' = [pc EXCEPT ![r] = place]

-----------------------------------------------------------------------------
(* run and render.                                                             *)

\* A spec that does not load, a mismatched backend, a missing CRD or a refused render.
Fails(r) ==
  /\ pc[r] = "new" /\ Goes(r, "failed")
  /\ UNCHANGED <<asked, short, born, todo, clean, objects>>

\* The manifest is rendered and given to kubectl or printed.
Renders(r) ==
  /\ pc[r] = "new" /\ ~Refused(asked[r], born[r])
  /\ todo' = [todo EXCEPT ![r] = Documents(r)]
  /\ Goes(r, IF asked[r].command = "run" THEN "applying" ELSE "printed")
  /\ UNCHANGED <<asked, short, born, clean, objects>>

\* The user applies what render printed.
UserApplies(r) ==
  /\ pc[r] = "printed" /\ Goes(r, "applying")
  /\ UNCHANGED <<asked, short, born, todo, clean, objects>>

\* kubectl fills in the namespace of its context.
InCluster(d) == [d EXCEPT !.namespace = IF @ = << >> THEN ContextNamespace ELSE @]

Same(d, o) == d.kind = o.kind /\ d.namespace = o.namespace /\ d.name = o.name

\* The API server wants names; of a Job it checks that no two mounts share a path, and it
\* does not change the pod template.  A Sandbox is taken as it is.
Acceptable(d) ==
  /\ IsName(d.namespace) /\ IsName(d.name)
  /\ d.kind = "job" => /\ \A m, n \in d.data.mounts : m.path = n.path => m = n
                       /\ \A o \in objects : Same(d, o) => o.run = d.run

\* kubectl apply replaces an object of the same name; it goes on after a failure.  A call
\* that fails may have had its effect: its answer was lost.
ApplyDoc(r) ==
  LET d == InCluster(Head(todo[r]))
  IN  /\ pc[r] = "applying" /\ todo[r] # << >>
      /\ todo' = [todo EXCEPT ![r] = Tail(@)]
      /\ \/ /\ Acceptable(d)
            /\ objects' = {o \in objects : ~Same(d, o)} \cup {d}
            /\ clean' \in {clean, [clean EXCEPT ![r] = FALSE]}
         \/ clean' = [clean EXCEPT ![r] = FALSE] /\ UNCHANGED objects
      /\ UNCHANGED <<asked, pc, short, born>>

\* Faulty variant: kubectl is not waited for.
ApplyEndsEarly(r) ==
  /\ pc[r] = "applying"
  /\ Goes(r, IF clean[r] THEN "done" ELSE "failed")
  /\ UNCHANGED <<asked, short, born, todo, clean, objects>>

\* Faulty variant: its exit status is not looked at.
ApplyEndsUnseen(r) ==
  /\ pc[r] = "applying" /\ todo[r] = << >> /\ Goes(r, "done")
  /\ UNCHANGED <<asked, short, born, todo, clean, objects>>

\* kubectl_apply_yaml returns and run prints the run_ref; after a failure nothing.
ApplyEnds(r) ==
  /\ pc[r] = "applying" /\ todo[r] = << >>
  /\ Goes(r, IF clean[r] THEN "done" ELSE "failed")
  /\ UNCHANGED <<asked, short, born, todo, clean, objects>>

-----------------------------------------------------------------------------
(* rm <run_ref>, of a ref as `run` printed it or as the rendered names give it. *)

Printed(r) == RunRef(asked[r].namespace, Name(r))

Deleted(ref, o) == o.namespace = ref.namespace /\ o.name = ref.name

\* The Sandbox, or if that call fails the Job; both if the failed call had its effect.
Rm(r) ==
  /\ pc[r] = "done"
  /\ \E ref \in ParsedRefs(Printed(r)), kinds \in SUBSET {"sandbox", "job"} :
       /\ \E o \in objects : o.kind \in kinds /\ Deleted(ref, o)
       /\ objects' = {o \in objects : ~(o.kind \in kinds /\ Deleted(ref, o))}
  /\ Goes(r, "removed")
  /\ UNCHANGED <<asked, short, born, todo, clean>>

-----------------------------------------------------------------------------
Next == \E r \in Active :
          \/ Fails(r) \/ Renders(r) \/ UserApplies(r) \/ ApplyDoc(r) \/ ApplyEnds(r)
          \/ Rm(r)

Spec == Init /\ [][Next]_vars

-----------------------------------------------------------------------------
Pods == {o \in objects : o.kind \in {"job", "sandbox"}}
ObjectsOf(r) == {o \in objects : o.run = r}
Distinct(r) == \A q \in Active \ {r} : short[q] # short[r]

\* "print run_ref (namespace/job_name)": from the moment a name is given, the run_ref is one
\* that every later command parses back to this namespace and name, and the name fits a
\* DNS label, whatever the prefix and the spec's name are made of.
RefsFindRuns ==
  \A r \in Active : pc[r] \in {"printed", "applying", "done"} =>
    LET name == Name(r)
        namespace == asked[r].namespace
    IN  /\ IsName(name) /\ Len(name) <= PrefixMax + NameMax + 3
        /\ IsName(namespace) =>
             ParsedRefs(RunRef(namespace, name)) = {[namespace |-> namespace, name |-> name]}

\* Runs whose ids differ in their first block share nothing: as long as a run is not
\* removed, all that it applied is in the cluster as it was applied, whatever other runs
\* of the same spec and name apply and whichever of them are removed.
RunsStayApart ==
  \A r \in Active : pc[r] = "done" /\ Distinct(r) =>
    \A d \in Range(Documents(r)) : InCluster(d) \in objects

\* Among Jobs not even coinciding blocks let one run take over another's object: a run_ref
\* is printed by the one run the Job is of.  (A second Sandbox of the name would replace
\* the first one without a word.)
JobsAreNotTakenOver ==
  (\A r \in Active : asked[r].backend = "job") =>
    \A r \in Active : pc[r] = "done" => InCluster(Documents(r)[1]) \in objects

\* Neither do they act on each other's objects before and after: what is in the cluster of
\* a run whose block is its own changes only by a step of that run, be it half applied,
\* failed or removed, and whatever names and namespaces the others were given.
NoInterference ==
  [][\A r \in Active : Distinct(r) /\ ObjectsOf(r)' # ObjectsOf(r) =>
       \A q \in Active \ {r} : pc'[q] = pc[q] /\ todo'[q] = todo[q]]_vars

\* The inductive invariant behind the two: what is in the cluster was rendered for one of
\* these runs, and of a run whose documents were all accepted so far each is in the
\* cluster or still to be applied.
Kept(r) == pc[r] \in {"printed", "applying", "done"} /\ clean[r]
DeployInv ==
  /\ TypeOK
  /\ \A o \in objects :
       o.run \in Active /\ \E d \in Range(Documents(o.run)) : o = InCluster(d)
  /\ \A r \in Active : pc[r] = "done" => clean[r]
  /\ \A r \in Active : Kept(r) /\ Distinct(r) =>
       \A d \in Range(Documents(r)) : d \in Range(todo[r]) \/ InCluster(d) \in objects
  /\ (\A r \in Active : asked[r].backend = "job") =>
       \A r \in Active : Kept(r) => todo[r] # << >> \/ InCluster(Documents(r)[1]) \in objects

\* A manifest is closed: every Secret and key that a pod names is there, from the same
\* run, and volumes and mounts belong together by name.
ReferencesResolve ==
  \A o \in Pods : pc[o.run] = "done" /\ Distinct(o.run) =>
    LET secret(part) == {s \in objects : s.kind = part /\ s.namespace = o.namespace
                                         /\ s.name = o.name /\ s.run = o.run}
    IN  /\ \A e \in o.data.env : \E s \in secret(e.secret) : e.key \in s.data
        /\ \A v \in o.data.volumes : v.source.kind = "secret" => secret(v.source.of) # {}
        /\ {m.volume : m \in o.data.mounts} = {v.volume : v \in o.data.volumes}
        /\ \A v, w \in o.data.volumes : v.volume = w.volume => v = w

\* Both renderers give a pod the mounts its spec lists, each backed by its own directory of
\* the node or by an emptyDir, whatever the strategy, and writable only if the spec says
\* so; of the node it sees nothing else, but for the KVM device, and that in exactly the
\* pods that are privileged.
PodsGetTheirMounts ==
  \A o \in Pods :
    LET req == asked[o.run]
        backed(i, v, m) == /\ m.path = req.mounts[i].host /\ m.volume = v.volume
                           /\ m.readOnly = (req.mounts[i].mode = "ro")
                           /\ v.source = HostPath(m.path) \/ v.source = EmptyDir
    IN  /\ \A i \in DOMAIN req.mounts : \E v \in o.data.volumes, m \in o.data.mounts : backed(i, v, m)
        /\ \A v \in o.data.volumes, m \in o.data.mounts :
             m.volume = v.volume /\ v.source.kind = "hostPath" =>
               \/ \E i \in DOMAIN req.mounts : backed(i, v, m)
               \/ v.source.of = "/dev/kvm" /\ m.path = "/dev/kvm" /\ o.data.privileged
        /\ o.data.privileged <=> \E v \in o.data.volumes : v.volume = <<"devkvm">>

\* No timeout_secs, the cast wraps or not, makes a Sandbox that outlives or falls short of
\* what was asked by some other future deadline: what reaches the cluster has the
\* deadline asked for, or, if that is beyond all dates, one that is over when the Sandbox
\* is made; the rest never gets past the render.
NoOtherDeadline ==
  \A o \in Pods : o.kind = "sandbox" =>
    LET t == asked[o.run].timeout
        end == o.data.shutdown
    IN  IF t = NoTimeout THEN end = NoTimeout
        ELSE /\ end \in -LastDate .. LastDate
             /\ end = born[o.run] + t \/ (end < born[o.run] /\ born[o.run] + t > LastDate)

\* "The default strategy is `hostPath`; override with `--mount-strategy emptyDir` for
\* ephemeral pod-local storage": a pod asked for in that way has no directory of its node.
StrategyIsKept ==
  \A o \in Pods : asked[o.run].strategy = "emptyDir" =>
    \A v \in o.data.volumes : v.source.kind = "hostPath" => v.volume = <<"devkvm">>
=============================================================================
