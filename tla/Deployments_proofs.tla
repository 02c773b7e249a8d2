-------------------------- MODULE Deployments_proofs ---------------------------
(* Deployments for any number of invocations and any requests.                   *)
EXTENDS Deployments, RunNames_proofs

\* What every manifest looks like: one document of each kind, all with the name, namespace
\* and run they were rendered for.
DocOf(d, req, run, id) ==
  d = [kind |-> d.kind, namespace |-> req.namespace, run |-> run, data |-> d.data,
       name |-> JobName(req.prefix, req.name, id)]

LEMMA Manifests ==
  ASSUME NEW req, NEW run, NEW id, NEW now
  PROVE  LET docs == Manifest(req, run, id, now) IN
         /\ docs \in Seq(Range(docs)) /\ Len(docs) \in {1, 3, 4}
         /\ \A i \in 1 .. Len(docs) : DocOf(docs[i], req, run, id)
         /\ \A i, j \in 1 .. Len(docs) : docs[i].kind = docs[j].kind => i = j
         /\ docs[1].kind = IF req.backend = "job" THEN "job" ELSE "sandbox"
         /\ req.backend = "job" => Len(docs) = 1
         /\ \A i \in 1 .. Len(docs) : docs[i].kind \in {"job", "sandbox"} => i = 1
         /\ docs[1].data = IF req.backend = "job" THEN JobPod(req) ELSE SandboxPod(req, now)
         /\ req.backend # "job" =>
              /\ 2 \in DOMAIN docs /\ docs[2].kind = "token" /\ docs[2].data = SecretKeys(req).token
              /\ 3 \in DOMAIN docs /\ docs[3].kind = "spec" /\ docs[3].data = SecretKeys(req).spec
              /\ SecretKeys(req).llmCreds # {} =>
                   /\ 4 \in DOMAIN docs /\ docs[4].kind = "llm-creds"
                   /\ docs[4].data = SecretKeys(req).llmCreds
<1> DEFINE docs == Manifest(req, run, id, now)
           doc(kind, data) == [kind |-> kind, namespace |-> req.namespace, run |-> run, data |-> data,
                               name |-> JobName(req.prefix, req.name, id)]
           keys == SecretKeys(req)
<1>1. \A kind, data : /\ DocOf(doc(kind, data), req, run, id)
                       /\ doc(kind, data).kind = kind /\ doc(kind, data).data = data
  BY DEF DocOf
<1>2. CASE req.backend = "job"
  <2>1. docs = <<doc("job", JobPod(req))>>
    BY <1>2 DEF Manifest
  <2> QED BY <1>1, <1>2, <2>1 DEF Range
<1>3. CASE req.backend # "job" /\ keys.llmCreds = {}
  <2>1. docs = <<doc("sandbox", SandboxPod(req, now)), doc("token", keys.token), doc("spec", keys.spec)>>
    BY <1>3 DEF Manifest
  <2> QED BY <1>1, <1>3, <2>1 DEF Range
<1>4. CASE req.backend # "job" /\ keys.llmCreds # {}
  <2>1. docs = <<doc("sandbox", SandboxPod(req, now)), doc("token", keys.token), doc("spec", keys.spec),
                 doc("llm-creds", keys.llmCreds)>>
    <3>1. ASSUME NEW a, NEW b, NEW c, NEW d
          PROVE  <<a, b, c>> \o <<d>> = <<a, b, c, d>>
      <4> DEFINE S == {a, b, c, d}
                 s == <<a, b, c>> \o <<d>>
                 t == <<a, b, c, d>>
      <4>1. <<a, b, c>> \in Seq(S) /\ <<d>> \in Seq(S) /\ t \in Seq(S)
        OBVIOUS
      <4>2. s \in Seq(S) /\ Len(s) = 4 /\ s[1] = a /\ s[2] = b /\ s[3] = c /\ s[4] = d
        BY <4>1
      <4>3. Len(t) = 4 /\ \A i \in 1 .. 4 : s[i] = t[i]
        BY <4>2
      <4> HIDE DEF S, s, t
      <4>4. s = t
        BY <4>1, <4>2, <4>3
      <4> QED BY <4>4 DEF s, t
    <3>2. docs = <<doc("sandbox", SandboxPod(req, now)), doc("token", keys.token), doc("spec", keys.spec)>>
                 \o <<doc("llm-creds", keys.llmCreds)>>
      BY <1>4 DEF Manifest
    <3> HIDE DEF docs, doc, keys
    <3> QED BY <3>1, <3>2
  <2> QED BY <1>1, <1>4, <2>1 DEF Range
<1> QED BY <1>2, <1>3, <1>4

-----------------------------------------------------------------------------
\* The requests of a workload, and the names that come of them.
LEMMA AskedOf ==
  ASSUME asked \in Workloads, short \in [Active -> Shorts], NEW r \in Active
  PROVE  /\ asked[r] \in Requests /\ asked[r].namespace \in Seq(Chars)
         /\ short[r] \in Shorts
         /\ Name(r) \in Seq(LabelChars) /\ IsName(Name(r))
         /\ Len(Name(r)) <= PrefixMax + NameMax + 3
<1>1. asked[r] \in Requests
  BY DeploymentsAssumption DEF Active
<1>2. /\ asked[r].namespace \in Seq(Chars) /\ asked[r].prefix \in Seq(Chars)
      /\ asked[r].name \in Seq(Chars)
  BY <1>1 DEF Requests
<1>3. PrefixMax + NameMax + 3 \in Int
  <2>1. PrefixMax \in Nat /\ NameMax \in Nat BY NamesAssumption
  <2> QED BY <2>1
<1>4. short[r] \in Shorts
  OBVIOUS
<1>5. Name(r) \in Seq(LabelChars) /\ IsName(Name(r)) /\ Len(Name(r)) \in 1 .. PrefixMax + NameMax + 3
  BY <1>2, <1>4, NamesAreLabels DEF Name
<1> QED BY <1>1, <1>2, <1>3, <1>4, <1>5

LEMMA OneNameOneBlock ==
  ASSUME asked \in Workloads, short \in [Active -> Shorts],
         NEW r \in Active, NEW q \in Active, Name(r) = Name(q)
  PROVE  short[r] = short[q]
<1>1. \A s \in Active : /\ asked[s].prefix \in Seq(Chars) /\ asked[s].name \in Seq(Chars)
                         /\ short[s] \in Shorts
  BY AskedOf DEF Requests
<1> QED BY <1>1, NamesDiffer DEF Name

\* A document and what becomes of it in the cluster.
LEMMA DocumentOf ==
  ASSUME NEW r \in Active, NEW d \in Range(Documents(r))
  PROVE  /\ d.run = r /\ d.name = Name(r) /\ d.namespace = asked[r].namespace
         /\ InCluster(d).run = r /\ InCluster(d).name = Name(r)
         /\ InCluster(d).kind = d.kind /\ InCluster(d).data = d.data
         /\ d.namespace # << >> => InCluster(d).namespace = d.namespace
         /\ InCluster(d).namespace = IF d.namespace = << >> THEN ContextNamespace ELSE d.namespace
<1>1. DocOf(d, asked[r], r, short[r])
  <2> DEFINE docs == Documents(r)
  <2>1. /\ docs \in Seq(Range(docs)) /\ \A i \in 1 .. Len(docs) : DocOf(docs[i], asked[r], r, short[r])
    BY Manifests DEF Documents
  <2>2. PICK i \in DOMAIN docs : d = docs[i]
    BY DEF Range
  <2> HIDE DEF docs
  <2> QED BY <2>1, <2>2
<1>2. PICK kind, data :
        d = [kind |-> kind, namespace |-> asked[r].namespace, run |-> r, data |-> data, name |-> Name(r)]
  BY <1>1 DEF DocOf, Name
<1> QED BY <1>2 DEF InCluster

LEMMA KindsDiffer ==
  ASSUME NEW r \in Active, NEW d \in Range(Documents(r)), NEW e \in Range(Documents(r)),
         d.kind = e.kind
  PROVE  d = e
<1> DEFINE docs == Documents(r)
<1>1. /\ docs \in Seq(Range(docs))
      /\ \A i, j \in 1 .. Len(docs) : docs[i].kind = docs[j].kind => i = j
  BY Manifests DEF Documents
<1>2. PICK i \in DOMAIN docs, j \in DOMAIN docs : d = docs[i] /\ e = docs[j]
  BY DEF Range
<1> HIDE DEF docs
<1> QED BY <1>1, <1>2

LEMMA FirstDocument ==
  ASSUME NEW r \in Active
  PROVE  /\ Documents(r) # << >> /\ Documents(r)[1] \in Range(Documents(r))
         /\ Documents(r) \in Seq(Range(Documents(r)))
         /\ Documents(r)[1].kind = IF asked[r].backend = "job" THEN "job" ELSE "sandbox"
         /\ asked[r].backend = "job" => Len(Documents(r)) = 1
<1>1. Len(Documents(r)) \in {1, 3, 4} /\ Documents(r) \in Seq(Range(Documents(r)))
  BY Manifests DEF Documents
<1>2. 1 \in DOMAIN Documents(r)
  BY <1>1
<1> QED BY <1>1, <1>2, Manifests DEF Documents, Range

\* What is still to be applied is the end of the manifest.
LEMMA Remaining ==
  ASSUME TypeOK, NEW r \in Active, todo[r] # << >>
  PROVE  /\ Head(todo[r]) \in Range(Documents(r))
         /\ \A e \in Range(todo[r]) : e = Head(todo[r]) \/ e \in Range(Tail(todo[r]))
         /\ \E k \in 1 .. Len(Documents(r)) + 1 :
              Tail(todo[r]) = SubSeq(Documents(r), k, Len(Documents(r)))
         /\ asked[r].backend = "job" => Head(todo[r]) = Documents(r)[1] /\ Tail(todo[r]) = << >>
<1> DEFINE docs == Documents(r)
           n == Len(docs)
<1>1. docs \in Seq(Range(docs)) /\ n \in Nat /\ DOMAIN docs = 1 .. n
  BY FirstDocument
<1>2. PICK k \in 1 .. n + 1 : todo[r] = SubSeq(docs, k, n)
  BY DEF TypeOK
<1>3. asked[r].backend = "job" => n = 1
  BY FirstDocument
<1> HIDE DEF docs, n
<1>4. k \in 1 .. n
  BY <1>1, <1>2
<1>5. /\ Head(todo[r]) = docs[k] /\ docs[k] \in Range(docs)
      /\ Tail(todo[r]) = SubSeq(docs, k + 1, n) /\ k + 1 \in 1 .. n + 1
  BY <1>1, <1>2, <1>4 DEF n, Range
<1>6. \A e \in Range(todo[r]) : e = Head(todo[r]) \/ e \in Range(Tail(todo[r]))
  <2>1. todo[r] \in Seq(Range(docs)) /\ todo[r] # << >>
    BY <1>1, <1>2
  <2>2. \A i \in DOMAIN todo[r] : i = 1 \/ (i - 1 \in DOMAIN Tail(todo[r]) /\ Tail(todo[r])[i - 1] = todo[r][i])
    BY <2>1
  <2>3. Head(todo[r]) = todo[r][1]
    BY <2>1
  <2>4. \A e \in Range(todo[r]) : \E i \in DOMAIN todo[r] : e = todo[r][i]
    BY DEF Range
  <2>5. \A i \in DOMAIN Tail(todo[r]) : Tail(todo[r])[i] \in Range(Tail(todo[r]))
    BY DEF Range
  <2>6. ASSUME NEW e \in Range(todo[r]) PROVE e = Head(todo[r]) \/ e \in Range(Tail(todo[r]))
    <3>1. PICK i \in DOMAIN todo[r] : e = todo[r][i] BY <2>4
    <3>2. CASE i = 1 BY <2>3, <3>1, <3>2
    <3>3. CASE i - 1 \in DOMAIN Tail(todo[r]) /\ Tail(todo[r])[i - 1] = todo[r][i]
      BY <2>5, <3>1, <3>3
    <3> QED BY <2>2, <3>2, <3>3
  <2> QED BY <2>6
<1>7. asked[r].backend = "job" => k = 1 /\ Tail(todo[r]) = << >>
  BY <1>1, <1>3, <1>4, <1>5
<1> QED BY <1>5, <1>6, <1>7 DEF docs, n

-----------------------------------------------------------------------------
(* The inductive invariant.                                                    *)

LEMMA InitDeployInv == Init => DeployInv
<1> SUFFICES ASSUME Init PROVE DeployInv
  OBVIOUS
<1>1. ASSUME NEW r \in Active
      PROVE  \E k \in 1 .. Len(Documents(r)) + 1 :
               todo[r] = SubSeq(Documents(r), k, Len(Documents(r)))
  <2> DEFINE docs == Documents(r)
             n == Len(docs)
  <2>1. docs \in Seq(Range(docs)) /\ n \in Nat
    BY FirstDocument
  <2>2. todo[r] = << >>
    BY DEF Init
  <2> HIDE DEF docs, n
  <2>3. SubSeq(docs, n + 1, n) = << >> /\ n + 1 \in 1 .. n + 1
    BY <2>1
  <2> QED BY <2>2, <2>3 DEF docs, n
<1>2. TypeOK
  BY <1>1 DEF Init, TypeOK
<1>3. \A r \in Active : ~Kept(r) /\ pc[r] # "done"
  BY DEF Init, Kept
<1>4. objects = {}
  BY DEF Init
<1> QED BY <1>2, <1>3, <1>4 DEF DeployInv

\* What no step changes.
LEMMA Fixed ==
  ASSUME UNCHANGED <<asked, short, born>>
  PROVE  /\ Active' = Active
         /\ \A r : Documents(r)' = Documents(r) /\ Distinct(r)' = Distinct(r) /\ Name(r)' = Name(r)
BY DEF Active, Documents, Distinct, Name

\* Steps that leave the cluster and what is still to be applied alone.
LEMMA MovesKeepDeployInv ==
  ASSUME DeployInv, NEW r \in Active, Fails(r) \/ UserApplies(r) \/ ApplyEnds(r)
  PROVE  DeployInv'
<1>1. UNCHANGED <<asked, short, born, todo, clean, objects>>
  BY DEF Fails, UserApplies, ApplyEnds
<1>2. /\ Active' = Active
      /\ \A q : Documents(q)' = Documents(q) /\ Distinct(q)' = Distinct(q)
  BY <1>1, Fixed
<1>3. /\ pc' \in [Active -> {"new", "printed", "applying", "done", "failed", "removed"}]
      /\ \A q \in Active : q # r => pc'[q] = pc[q]
      /\ pc'[r] = "done" => clean[r] /\ pc[r] = "applying"
      /\ pc'[r] \in {"new", "done", "removed"} => todo[r] = << >>
      /\ Kept(r)' => Kept(r)
  BY <1>1 DEF Fails, UserApplies, ApplyEnds, Goes, DeployInv, TypeOK, Kept
<1>4. \A q \in Active : (Kept(q)' => Kept(q)) /\ (pc'[q] = "done" => clean[q])
  BY <1>1, <1>3 DEF Kept, DeployInv
<1>5. TypeOK'
  <2>1. \A q \in Active : pc'[q] \in {"new", "done", "removed"} => todo[q] = << >>
    BY <1>3 DEF DeployInv, TypeOK
  <2> QED BY <1>1, <1>2, <1>3, <2>1 DEF DeployInv, TypeOK
<1>6. \A d : InCluster(d)' = InCluster(d)
  BY DEF InCluster
<1> QED BY <1>1, <1>2, <1>4, <1>5, <1>6 DEF DeployInv

\* With the whole manifest to apply nothing has to be in the cluster yet.
LEMMA RendersKeepsDeployInv ==
  ASSUME DeployInv, NEW r \in Active, Renders(r)
  PROVE  DeployInv'
<1>1. /\ UNCHANGED <<asked, short, born, clean, objects>>
      /\ todo' = [todo EXCEPT ![r] = Documents(r)]
  BY DEF Renders
<1>2. /\ Active' = Active
      /\ \A q : Documents(q)' = Documents(q) /\ Distinct(q)' = Distinct(q)
  BY <1>1, Fixed
<1>3. /\ pc' \in [Active -> {"new", "printed", "applying", "done", "failed", "removed"}]
      /\ pc'[r] \in {"printed", "applying"}
      /\ \A q \in Active : q # r => pc'[q] = pc[q]
  BY DEF Renders, Goes, DeployInv, TypeOK
<1>4. /\ DOMAIN todo' = Active /\ todo'[r] = Documents(r)
      /\ \A q \in Active : q # r => todo'[q] = todo[q]
  BY <1>1 DEF DeployInv, TypeOK
<1>5. TypeOK'
  <2>1. \E k \in 1 .. Len(Documents(r)) + 1 :
          todo'[r] = SubSeq(Documents(r), k, Len(Documents(r)))
    <3> DEFINE docs == Documents(r)
    <3>1. docs \in Seq(Range(docs)) BY FirstDocument
    <3> HIDE DEF docs
    <3>2. docs = SubSeq(docs, 1, Len(docs)) /\ 1 \in 1 .. Len(docs) + 1 BY <3>1
    <3> QED BY <1>4, <3>2 DEF docs
  <2>2. ASSUME NEW q \in Active
        PROVE  /\ \E k \in 1 .. Len(Documents(q)) + 1 :
                    todo'[q] = SubSeq(Documents(q), k, Len(Documents(q)))
               /\ pc'[q] \in {"new", "done", "removed"} => todo'[q] = << >>
    BY <1>3, <1>4, <2>1 DEF DeployInv, TypeOK
  <2> QED BY <1>1, <1>2, <1>3, <1>4, <2>2 DEF DeployInv, TypeOK
<1>6. \A d : InCluster(d)' = InCluster(d)
  BY DEF InCluster
<1>7. \A q \in Active : q # r => (Kept(q)' <=> Kept(q)) /\ (pc'[q] = "done" => clean'[q])
  BY <1>1, <1>3 DEF Kept, DeployInv
<1>8. todo'[r] # << >>
  BY <1>4, FirstDocument
<1> QED BY <1>1, <1>2, <1>3, <1>4, <1>5, <1>6, <1>7, <1>8 DEF DeployInv

\* A document that is accepted takes the place of none but an earlier one of its own run,
\* if no other run has its block, and of none at all if it is a Job's.
LEMMA ApplyDocKeepsDeployInv ==
  ASSUME DeployInv, NEW r \in Active, ApplyDoc(r)
  PROVE  DeployInv'
<1> DEFINE e == Head(todo[r])
           d == InCluster(e)
<1>1. /\ UNCHANGED <<asked, pc, short, born>> /\ pc[r] = "applying" /\ todo[r] # << >>
      /\ todo' = [todo EXCEPT ![r] = Tail(@)]
      /\ \/ /\ Acceptable(d) /\ clean' \in {clean, [clean EXCEPT ![r] = FALSE]}
            /\ objects' = {o \in objects : ~Same(d, o)} \cup {d}
         \/ clean' = [clean EXCEPT ![r] = FALSE] /\ UNCHANGED objects
  BY DEF ApplyDoc
<1>2. /\ Active' = Active
      /\ \A q : Documents(q)' = Documents(q) /\ Distinct(q)' = Distinct(q)
  BY <1>1, Fixed
<1>3. TypeOK /\ \A c : InCluster(c)' = InCluster(c)
  BY DEF DeployInv, InCluster
<1>4. /\ DOMAIN todo' = Active /\ todo'[r] = Tail(todo[r])
      /\ \A q \in Active : q # r => todo'[q] = todo[q]
  BY <1>1, <1>3 DEF TypeOK
<1>5. /\ e \in Range(Documents(r))
      /\ \A c \in Range(todo[r]) : c = e \/ c \in Range(Tail(todo[r]))
      /\ \E k \in 1 .. Len(Documents(r)) + 1 :
           Tail(todo[r]) = SubSeq(Documents(r), k, Len(Documents(r)))
      /\ asked[r].backend = "job" => e = Documents(r)[1] /\ Tail(todo[r]) = << >>
  BY <1>1, <1>3, Remaining
<1>6. d.run = r /\ d.name = Name(r) /\ d.kind = e.kind
  BY <1>5, DocumentOf
<1> HIDE DEF e, d
<1>7. /\ clean' \in [Active -> BOOLEAN]
      /\ \A o, p \in objects' : <<o.kind, o.namespace, o.name>> = <<p.kind, p.namespace, p.name>> => o = p
  BY <1>1, <1>3 DEF TypeOK, Same
<1>8. TypeOK'
  <2>1. ASSUME NEW q \in Active
        PROVE  /\ \E k \in 1 .. Len(Documents(q)) + 1 :
                    todo'[q] = SubSeq(Documents(q), k, Len(Documents(q)))
               /\ pc[q] \in {"new", "done", "removed"} => todo'[q] = << >>
    BY <1>1, <1>3, <1>4, <1>5 DEF TypeOK
  <2> QED BY <1>1, <1>2, <1>3, <1>4, <1>7, <2>1 DEF TypeOK
<1>9. CASE Acceptable(d) /\ clean' \in {clean, [clean EXCEPT ![r] = FALSE]}
           /\ objects' = {o \in objects : ~Same(d, o)} \cup {d}
  <2>1. \A o \in objects' :
          o.run \in Active /\ \E c \in Range(Documents(o.run)) : o = InCluster(c)
    BY <1>5, <1>6, <1>9 DEF DeployInv, d
  <2>2. \A q \in Active : (Kept(q)' => Kept(q)) /\ (pc[q] = "done" => clean'[q])
    BY <1>1, <1>3, <1>9 DEF Kept, DeployInv, TypeOK
  <2>3. ASSUME NEW q \in Active, Kept(q), Distinct(q), NEW c \in Range(Documents(q))
        PROVE  c \in Range(todo'[q]) \/ InCluster(c) \in objects'
    <3>1. c \in Range(todo[q]) \/ InCluster(c) \in objects
      BY <2>3 DEF DeployInv
    <3>2. CASE q = r
      <4>1. Same(d, InCluster(c)) => c = e
        <5>1. c \in Range(Documents(r)) /\ e \in Range(Documents(r)) BY <1>5, <2>3, <3>2
        <5>2. InCluster(c).kind = c.kind BY <5>1, DocumentOf
        <5>3. c.kind = e.kind => c = e BY <5>1, KindsDiffer
        <5> QED BY <1>6, <5>2, <5>3 DEF Same
      <4> QED BY <1>4, <1>5, <1>9, <3>1, <3>2, <4>1 DEF d
    <3>3. CASE q # r
      <4>1. InCluster(c).name = Name(q)
        BY DocumentOf
      <4>2. Name(q) # Name(r)
        BY <1>3, <2>3, <3>3, OneNameOneBlock DEF Distinct, TypeOK
      <4> QED BY <1>4, <1>6, <1>9, <3>1, <3>3, <4>1, <4>2 DEF Same
    <3> QED BY <3>2, <3>3
  <2>4. ASSUME \A q \in Active : asked[q].backend = "job", NEW q \in Active, Kept(q)
        PROVE  todo'[q] # << >> \/ InCluster(Documents(q)[1]) \in objects'
    <3>1. CASE q = r
      BY <1>5, <1>9, <2>4, <3>1 DEF d
    <3>2. CASE q # r
      <4>1. todo[q] # << >> \/ InCluster(Documents(q)[1]) \in objects
        BY <2>4 DEF DeployInv
      <4>2. InCluster(Documents(q)[1]).run = q
        BY FirstDocument, DocumentOf
      <4>3. d.kind = "job"
        BY <1>5, <1>6, <2>4, FirstDocument
      <4>4. InCluster(Documents(q)[1]) \in objects => ~Same(d, InCluster(Documents(q)[1]))
        BY <1>6, <1>9, <3>2, <4>2, <4>3 DEF Acceptable
      <4> QED BY <1>4, <1>9, <3>2, <4>1, <4>4
    <3> QED BY <3>1, <3>2
  <2> QED BY <1>1, <1>2, <1>3, <1>8, <2>1, <2>2, <2>3, <2>4 DEF DeployInv
<1>10. CASE clean' = [clean EXCEPT ![r] = FALSE] /\ UNCHANGED objects
  <2>1. /\ ~Kept(r)'
        /\ \A q \in Active : q # r => (Kept(q)' <=> Kept(q))
        /\ \A q \in Active : pc[q] = "done" => clean'[q]
    BY <1>1, <1>3, <1>10 DEF Kept, DeployInv, TypeOK
  <2> QED BY <1>1, <1>2, <1>3, <1>4, <1>8, <1>10, <2>1 DEF DeployInv
<1> QED BY <1>1, <1>9, <1>10

\* rm removes what has the name and namespace of one run; a Job of that name and namespace
\* is the run's own if all are Jobs.
LEMMA RmKeepsDeployInv ==
  ASSUME DeployInv, NEW r \in Active, Rm(r)
  PROVE  DeployInv'
<1>1. PICK ref \in ParsedRefs(Printed(r)), kinds \in SUBSET {"sandbox", "job"} :
        objects' = {o \in objects : ~(o.kind \in kinds /\ Deleted(ref, o))}
  BY DEF Rm
<1>2. /\ UNCHANGED <<asked, short, born, todo, clean>>
      /\ pc[r] = "done" /\ pc' = [pc EXCEPT ![r] = "removed"]
  BY DEF Rm, Goes
<1>3. /\ Active' = Active
      /\ \A q : Documents(q)' = Documents(q) /\ Distinct(q)' = Distinct(q)
  BY <1>2, Fixed
<1>4. TypeOK /\ \A c : InCluster(c)' = InCluster(c)
  BY DEF DeployInv, InCluster
<1>5. ref = [namespace |-> asked[r].namespace, name |-> Name(r)] /\ IsName(asked[r].namespace)
  BY <1>1, <1>4, AskedOf, RefsAreTakenBack DEF Printed, TypeOK
<1>6. TypeOK'
  <2>1. objects' \subseteq objects
    BY <1>1
  <2> QED BY <1>2, <1>3, <1>4, <2>1 DEF TypeOK
<1>7. \A q \in Active : /\ Kept(q)' <=> (Kept(q) /\ q # r)
                        /\ pc'[q] = "done" => clean'[q]
  BY <1>2, <1>4 DEF Kept, DeployInv, TypeOK
<1>8. ASSUME NEW q \in Active, q # r, Kept(q), Distinct(q), NEW c \in Range(Documents(q))
      PROVE  c \in Range(todo[q]) \/ InCluster(c) \in objects'
  <2>1. c \in Range(todo[q]) \/ InCluster(c) \in objects
    BY <1>8 DEF DeployInv
  <2>2. InCluster(c).name = Name(q)
    BY DocumentOf
  <2>3. Name(q) # Name(r)
    BY <1>4, <1>8, OneNameOneBlock DEF Distinct, TypeOK
  <2> QED BY <1>1, <1>5, <2>1, <2>2, <2>3 DEF Deleted
<1>9. ASSUME \A q \in Active : asked[q].backend = "job", NEW q \in Active, q # r, Kept(q)
      PROVE  todo[q] # << >> \/ InCluster(Documents(q)[1]) \in objects'
  <2> DEFINE p == InCluster(Documents(q)[1])
             o == InCluster(Documents(r)[1])
  <2>1. todo[q] # << >> \/ p \in objects
    BY <1>9 DEF DeployInv
  <2>2. o \in objects
    BY <1>2, <1>4, <1>9 DEF DeployInv, TypeOK, Kept
  <2>3. /\ p.run = q /\ p.kind = "job"
        /\ o.run = r /\ o.kind = "job" /\ o.name = Name(r) /\ o.namespace = asked[r].namespace
    <3>1. asked[r].namespace # << >>
      BY <1>5 DEF IsName
    <3> QED BY <1>9, <3>1, FirstDocument, DocumentOf
  <2> HIDE DEF p, o
  <2>4. p \in objects => ~Deleted(ref, p)
    <3>1. p.name = o.name /\ p.namespace = o.namespace /\ p \in objects => p = o
      BY <1>4, <2>2, <2>3 DEF TypeOK
    <3> QED BY <1>5, <1>9, <2>3, <3>1 DEF Deleted
  <2> QED BY <1>1, <2>1, <2>4 DEF p
<1>10. \A o \in objects' :
         o.run \in Active /\ \E d \in Range(Documents(o.run)) : o = InCluster(d)
  BY <1>1 DEF DeployInv
<1> QED BY <1>2, <1>3, <1>4, <1>6, <1>7, <1>8, <1>9, <1>10 DEF DeployInv

\* Whatever invocations of run, render and rm do on one cluster, in any order, what is there
\* was rendered for one of them and a run whose documents were accepted keeps them.
THEOREM DeployInvariant == Spec => []DeployInv
<1>1. ASSUME DeployInv, Next PROVE DeployInv'
  BY <1>1, MovesKeepDeployInv, RendersKeepsDeployInv, ApplyDocKeepsDeployInv, RmKeepsDeployInv
     DEF Next
<1>2. ASSUME DeployInv, UNCHANGED vars PROVE DeployInv'
  <2>1. UNCHANGED <<asked, pc, short, born, todo, clean, objects>>
    BY <1>2 DEF vars
  <2>2. /\ Active' = Active
        /\ \A q : Documents(q)' = Documents(q) /\ Distinct(q)' = Distinct(q)
    BY <2>1, Fixed
  <2>3. /\ \A c : InCluster(c)' = InCluster(c)
        /\ \A q : Kept(q)' = Kept(q)
    BY <2>1 DEF InCluster, Kept
  <2> QED BY <1>2, <2>1, <2>2, <2>3 DEF DeployInv, TypeOK
<1> QED BY <1>1, <1>2, InitDeployInv, PTL DEF Spec

-----------------------------------------------------------------------------
(* What follows of names and objects.                                          *)

\* Type correctness, with what is left to apply as an end of the manifest.
THEOREM DeploymentTypes == Spec => []TypeOK
<1>1. DeployInv => TypeOK
  BY DEF DeployInv
<1> QED BY <1>1, DeployInvariant, PTL

\* Every run_ref is taken back to its run (normalize_dns1123_label, parse_run_ref).
THEOREM RunRefsWork == Spec => []RefsFindRuns
<1>1. DeployInv => RefsFindRuns
  <2> SUFFICES ASSUME DeployInv, NEW r \in Active
      PROVE  /\ IsName(Name(r)) /\ Len(Name(r)) <= PrefixMax + NameMax + 3
             /\ IsName(asked[r].namespace) =>
                  ParsedRefs(RunRef(asked[r].namespace, Name(r)))
                    = {[namespace |-> asked[r].namespace, name |-> Name(r)]}
    BY DEF RefsFindRuns
  <2>1. /\ asked[r].namespace \in Seq(Chars) /\ Name(r) \in Seq(LabelChars)
        /\ IsName(Name(r)) /\ Len(Name(r)) <= PrefixMax + NameMax + 3
    BY AskedOf DEF DeployInv, TypeOK
  <2> QED BY <2>1, RefsAreTaken
<1> QED BY <1>1, DeployInvariant, PTL

\* Nothing of a run is replaced or removed by runs of other blocks.
THEOREM RunsApart == Spec => []RunsStayApart
<1>1. DeployInv => RunsStayApart
  <2> SUFFICES ASSUME DeployInv, NEW r \in Active, pc[r] = "done", Distinct(r),
                      NEW d \in Range(Documents(r))
      PROVE  InCluster(d) \in objects
    BY DEF RunsStayApart
  <2>1. Kept(r) /\ todo[r] = << >>
    BY DEF DeployInv, TypeOK, Kept
  <2>2. Range(todo[r]) = {}
    BY <2>1 DEF Range
  <2> QED BY <2>1, <2>2 DEF DeployInv
<1> QED BY <1>1, DeployInvariant, PTL

\* No Job that was reported is another run's, even if blocks coincide.
THEOREM JobsKept == Spec => []JobsAreNotTakenOver
<1>1. DeployInv => JobsAreNotTakenOver
  BY DEF DeployInv, JobsAreNotTakenOver, TypeOK, Kept
<1> QED BY <1>1, DeployInvariant, PTL

\* What a run has in the cluster bears its name, which no other run has if its block is its
\* own.
LEMMA OwnObjects ==
  ASSUME DeployInv, NEW r \in Active, Distinct(r), NEW o \in ObjectsOf(r), NEW s \in Active \ {r}
  PROVE  o.name = Name(r) /\ o.name # Name(s)
<1>1. PICK d \in Range(Documents(r)) : o = InCluster(d)
  BY DEF DeployInv, ObjectsOf
<1>2. o.name = Name(r)
  BY <1>1, DocumentOf
<1>3. short[s] # short[r]
  BY DEF Distinct
<1> QED BY <1>2, <1>3, OneNameOneBlock DEF DeployInv, TypeOK

LEMMA OthersObjectsStay ==
  ASSUME DeployInv, NEW r \in Active, Distinct(r), NEW s \in Active \ {r},
         \/ Fails(s) \/ Renders(s) \/ UserApplies(s) \/ ApplyDoc(s) \/ ApplyEnds(s) \/ Rm(s)
  PROVE  ObjectsOf(r)' = ObjectsOf(r)
<1>1. CASE Fails(s) \/ Renders(s) \/ UserApplies(s) \/ ApplyEnds(s)
  BY <1>1 DEF Fails, Renders, UserApplies, ApplyEnds, ObjectsOf
<1>2. CASE ApplyDoc(s)
  <2> DEFINE d == InCluster(Head(todo[s]))
  <2>1. d.run = s /\ d.name = Name(s)
    BY <1>2, Remaining, DocumentOf DEF ApplyDoc, DeployInv
  <2>2. objects' = {o \in objects : ~Same(d, o)} \cup {d} \/ UNCHANGED objects
    BY <1>2 DEF ApplyDoc
  <2>3. \A o \in ObjectsOf(r) : ~Same(d, o)
    BY <2>1, OwnObjects DEF Same
  <2> HIDE DEF d
  <2> QED BY <2>1, <2>2, <2>3 DEF ObjectsOf
<1>3. CASE Rm(s)
  <2>1. PICK ref \in ParsedRefs(Printed(s)), kinds \in SUBSET {"sandbox", "job"} :
          objects' = {o \in objects : ~(o.kind \in kinds /\ Deleted(ref, o))}
    BY <1>3 DEF Rm
  <2>2. ref.name = Name(s)
    BY <2>1, AskedOf, RefsAreTakenBack DEF Printed, DeployInv, TypeOK
  <2>3. \A o \in ObjectsOf(r) : ~Deleted(ref, o)
    BY <2>2, OwnObjects DEF Deleted
  <2> QED BY <2>1, <2>3 DEF ObjectsOf
<1> QED BY <1>1, <1>2, <1>3

\* The objects of a run whose block is its own change by its own steps only (the name of
\* main.rs 245-251, the removal of 310-325).
THEOREM NoneInterferes == Spec => NoInterference
<1>1. ASSUME DeployInv, Next, NEW r \in Active, Distinct(r), ObjectsOf(r)' # ObjectsOf(r),
             NEW q \in Active \ {r}
      PROVE  pc'[q] = pc[q] /\ todo'[q] = todo[q]
  <2>1. Fails(r) \/ Renders(r) \/ UserApplies(r) \/ ApplyDoc(r) \/ ApplyEnds(r) \/ Rm(r)
    BY <1>1, OthersObjectsStay DEF Next
  <2>2. q # r /\ q \in DOMAIN pc /\ q \in DOMAIN todo
    BY <1>1 DEF DeployInv, TypeOK
  <2> QED BY <2>1, <2>2 DEF Fails, Renders, UserApplies, ApplyDoc, ApplyEnds, Rm, Goes
<1>2. DeployInv /\ [Next]_vars
        => [\A r \in Active : Distinct(r) /\ ObjectsOf(r)' # ObjectsOf(r) =>
              \A q \in Active \ {r} : pc'[q] = pc[q] /\ todo'[q] = todo[q]]_vars
  BY <1>1
<1> QED BY <1>2, DeployInvariant, PTL DEF Spec, NoInterference

-----------------------------------------------------------------------------
(* What follows of the pods.                                                   *)

\* The pod in a manifest, and its Secrets.
LEMMA PodOf ==
  ASSUME NEW r \in Active, NEW d \in Range(Documents(r)), d.kind \in {"job", "sandbox"}
  PROVE  \/ d.kind = "job" /\ asked[r].backend = "job" /\ d.data = JobPod(asked[r])
         \/ d.kind = "sandbox" /\ asked[r].backend # "job" /\ d.data = SandboxPod(asked[r], born[r])
<1> DEFINE docs == Documents(r)
<1>1. /\ docs \in Seq(Range(docs))
      /\ \A i \in 1 .. Len(docs) : docs[i].kind \in {"job", "sandbox"} => i = 1
      /\ docs[1].kind = IF asked[r].backend = "job" THEN "job" ELSE "sandbox"
      /\ docs[1].data = IF asked[r].backend = "job" THEN JobPod(asked[r])
                        ELSE SandboxPod(asked[r], born[r])
  BY Manifests DEF Documents
<1>2. PICK i \in DOMAIN docs : d = docs[i]
  BY DEF Range
<1> HIDE DEF docs
<1>3. d = docs[1]
  BY <1>1, <1>2
<1> QED BY <1>1, <1>3

LEMMA PodInCluster ==
  ASSUME DeployInv, NEW o \in Pods
  PROVE  /\ o.run \in Active /\ asked[o.run] \in Requests
         /\ \/ o.kind = "job" /\ asked[o.run].backend = "job" /\ o.data = JobPod(asked[o.run])
            \/ /\ o.kind = "sandbox" /\ asked[o.run].backend # "job"
               /\ o.data = SandboxPod(asked[o.run], born[o.run])
<1>1. o.run \in Active /\ o \in objects /\ o.kind \in {"job", "sandbox"}
  BY DEF DeployInv, Pods
<1>2. PICK d \in Range(Documents(o.run)) : o = InCluster(d)
  BY <1>1 DEF DeployInv
<1>3. o.kind = d.kind /\ o.data = d.data
  BY <1>1, <1>2, DocumentOf
<1>4. asked[o.run] \in Requests
  BY <1>1, AskedOf DEF DeployInv, TypeOK
<1> QED BY <1>1, <1>3, <1>4, PodOf

\* Nothing of a run is applied or still to be applied unless its render went through.
RenderedInv ==
  \A r \in Active : todo[r] # << >> \/ ObjectsOf(r) # {} => ~Refused(asked[r], born[r])

LEMMA RenderedInvariant == Spec => []RenderedInv
<1>1. Init => RenderedInv
  BY DEF Init, RenderedInv, ObjectsOf
<1>2. ASSUME DeployInv, RenderedInv, NEW r \in Active,
             \/ Fails(r) \/ Renders(r) \/ UserApplies(r) \/ ApplyDoc(r) \/ ApplyEnds(r)
             \/ Rm(r)
      PROVE  RenderedInv'
  <2>1. UNCHANGED <<asked, short, born>>
    BY <1>2 DEF Fails, Renders, UserApplies, ApplyDoc, ApplyEnds, Rm
  <2>2. Active' = Active /\ \A q : Refused(asked[q], born[q])' = Refused(asked[q], born[q])
    BY <2>1, Fixed
  <2>3. DOMAIN todo = Active
    BY <1>2 DEF DeployInv, TypeOK
  <2>4. CASE Fails(r) \/ UserApplies(r) \/ ApplyEnds(r)
    BY <1>2, <2>2, <2>4 DEF Fails, UserApplies, ApplyEnds, RenderedInv, ObjectsOf
  <2>5. CASE Renders(r)
    BY <1>2, <2>2, <2>3, <2>5 DEF Renders, RenderedInv, ObjectsOf
  <2>6. CASE ApplyDoc(r)
    <3> DEFINE d == InCluster(Head(todo[r]))
    <3>1. d.run = r /\ todo[r] # << >>
      BY <1>2, <2>6, Remaining, DocumentOf DEF ApplyDoc, DeployInv
    <3>2. objects' = {o \in objects : ~Same(d, o)} \cup {d} \/ UNCHANGED objects
      BY <2>6 DEF ApplyDoc
    <3>3. \A q \in Active : q # r => todo'[q] = todo[q]
      BY <2>3, <2>6 DEF ApplyDoc
    <3>4. ~Refused(asked[r], born[r])
      BY <1>2, <3>1 DEF RenderedInv
    <3> HIDE DEF d
    <3>5. \A q \in Active : q # r => ObjectsOf(q)' \subseteq ObjectsOf(q)
      BY <3>1, <3>2 DEF ObjectsOf
    <3> QED BY <1>2, <2>2, <3>3, <3>4, <3>5 DEF RenderedInv
  <2>7. CASE Rm(r)
    <3>1. objects' \subseteq objects /\ UNCHANGED todo
      BY <2>7 DEF Rm
    <3> QED BY <1>2, <2>2, <3>1 DEF RenderedInv, ObjectsOf
  <2> QED BY <1>2, <2>4, <2>5, <2>6, <2>7
<1>3. ASSUME RenderedInv, UNCHANGED vars PROVE RenderedInv'
  BY <1>3 DEF vars, RenderedInv, ObjectsOf, Active
<1>4. DeployInv /\ RenderedInv /\ [Next]_vars => RenderedInv'
  BY <1>2, <1>3 DEF Next
<1> QED BY <1>1, <1>4, DeployInvariant, PTL DEF Spec

\* The deadline of a Sandbox (shutdown_time_line, with its cast of timeout_secs) is the one
\* its spec asks for or is over from the start, whatever the timeout, at every width of the
\* integers: what lies beyond the dates is never applied.
THEOREM DeadlineKept == Spec => []NoOtherDeadline
<1>1. DeployInv /\ RenderedInv => NoOtherDeadline
  <2> SUFFICES ASSUME DeployInv, RenderedInv, NEW o \in Pods, o.kind = "sandbox"
      PROVE  LET t == asked[o.run].timeout
                 end == o.data.shutdown
             IN  IF t = NoTimeout THEN end = NoTimeout
                 ELSE /\ end \in -LastDate .. LastDate
                      /\ \/ end = born[o.run] + t
                         \/ end < born[o.run] /\ born[o.run] + t > LastDate
    BY DEF NoOtherDeadline
  <2> DEFINE req == asked[o.run]
             now == born[o.run]
             t == req.timeout
  <2>1. /\ o.run \in Active /\ req \in Requests /\ req.backend # "job"
        /\ o.data = SandboxPod(req, now)
    BY PodInCluster
  <2>2. o.data.shutdown = ShutdownTime(req, now)
    BY <2>1 DEF SandboxPod
  <2>3. ~Panics(req, now)
    <3>1. o \in ObjectsOf(o.run)
      BY DEF Pods, ObjectsOf
    <3>2. ~Refused(req, now)
      BY <2>1, <3>1 DEF RenderedInv
    <3> QED BY <2>1, <3>2 DEF Refused, SandboxRefused
  <2>4. now \in -LastDate .. LastDate
    BY <2>1, DeploymentsAssumption DEF DeployInv, TypeOK
  <2>5. t \in 0 .. 2^Bits - 1 \cup {NoTimeout}
    BY <2>1 DEF Requests
  <2>6. CASE t = NoTimeout
    BY <2>2, <2>6 DEF ShutdownTime
  <2>7. CASE t # NoTimeout
    <3>1. /\ o.data.shutdown = Deadline(req, now)
          /\ Deadline(req, now) \in -LastDate .. LastDate
      BY <2>2, <2>3, <2>7 DEF ShutdownTime, Panics
    <3>2. Deadline(req, now) = now + t \/ Deadline(req, now) = now + (t - 2^Bits)
      BY DEF Deadline, AsSigned
    <3>3. 2^Bits \in Int /\ LastDate \in Nat /\ 2 * LastDate < 2^Bits
      BY RenderingAssumption
    <3>4. t \in 0 .. 2^Bits - 1
      BY <2>5, <2>7
    <3> HIDE DEF req, now, t
    <3>5. ASSUME NEW e \in -LastDate .. LastDate, e = now + (t - 2^Bits)
          PROVE  e < now /\ now + t > LastDate
      BY <2>4, <3>3, <3>4, <3>5
    <3> QED BY <2>7, <3>1, <3>2, <3>5 DEF req, now, t
  <2> QED BY <2>6, <2>7
<1> QED BY <1>1, DeployInvariant, RenderedInvariant, PTL

\* Names of volumes do not clash.
LEMMA VolumeNames ==
  /\ \A i, j : <<"mount", i>> = <<"mount", j>> => i = j
  /\ \A i : <<"mount", i>> # <<"spec">> /\ <<"mount", i>> # <<"devkvm">>
  /\ <<"spec">> # <<"devkvm">>
OBVIOUS

LEMMA Fields ==
  /\ \A name, s : Volume(name, s).volume = name /\ Volume(name, s).source = s
  /\ \A name, path, ro : /\ Mount(name, path, ro).volume = name
                         /\ Mount(name, path, ro).path = path
                         /\ Mount(name, path, ro).readOnly = ro
  /\ \A path : HostPath(path).kind = "hostPath" /\ HostPath(path).of = path
  /\ EmptyDir.kind = "emptyDir"
BY DEF Volume, Mount, HostPath, EmptyDir

\* The volumes of a pod and the mounts that use them, in both renderers: the device, the
\* spec, and one volume with one mount for each mount of the spec.
IsPodOf(p, req) ==
  /\ p.privileged = Kvm(req)
  /\ \A i \in DOMAIN req.mounts :
       /\ Mount(<<"mount", i>>, req.mounts[i].host, req.mounts[i].mode = "ro") \in p.mounts
       /\ \E s \in {HostPath(req.mounts[i].host), EmptyDir} : Volume(<<"mount", i>>, s) \in p.volumes
  /\ \A v \in p.volumes :
       \/ v = Volume(<<"devkvm">>, HostPath("/dev/kvm")) /\ Kvm(req)
       \/ v = Volume(<<"spec">>, [kind |-> "secret", of |-> "spec"])
       \/ \E i \in DOMAIN req.mounts :
            /\ v.volume = <<"mount", i>> /\ v = Volume(v.volume, v.source)
            /\ v.source = HostPath(req.mounts[i].host) \/ v.source = EmptyDir
  /\ Kvm(req) => Volume(<<"devkvm">>, HostPath("/dev/kvm")) \in p.volumes
  /\ \A m \in p.mounts :
       \/ m = Mount(<<"devkvm">>, "/dev/kvm", FALSE)
       \/ m.volume = <<"spec">>
       \/ \E i \in DOMAIN req.mounts :
            m = Mount(<<"mount", i>>, req.mounts[i].host, req.mounts[i].mode = "ro")
  /\ {m.volume : m \in p.mounts} = {v.volume : v \in p.volumes}
  /\ \A v, w \in p.volumes : v.volume = w.volume => v = w

\* A pod made of a volume and a mount for each mount of a spec, and no others but the device
\* and the spec, is one.
SpecVolume == Volume(<<"spec">>, [kind |-> "secret", of |-> "spec"])
SpecMount == Mount(<<"spec">>, "/spec", TRUE)
Device == Volume(<<"devkvm">>, HostPath("/dev/kvm"))
DeviceMount == Mount(<<"devkvm">>, "/dev/kvm", FALSE)
VolumeOf(req, i, v) == \E s \in {HostPath(req.mounts[i].host), EmptyDir} : v = Volume(<<"mount", i>>, s)
MountOf(req, i, m) == m = Mount(<<"mount", i>>, req.mounts[i].host, req.mounts[i].mode = "ro")

\* Volumes and mounts that are made in pairs belong together by name.
LEMMA PairsByName ==
  ASSUME NEW D, NEW vol, NEW mnt, NEW VS, NEW MS, NEW sv, NEW sm, NEW dv, NEW dm,
         \A i \in D : vol[i].volume = <<"mount", i>> /\ mnt[i].volume = <<"mount", i>>,
         sv.volume = <<"spec">>, sm.volume = <<"spec">>,
         dv.volume = <<"devkvm">>, dm.volume = <<"devkvm">>,
         \A v \in VS : v = sv \/ v = dv \/ \E i \in D : v = vol[i],
         \A m \in MS : m = sm \/ m = dm \/ \E i \in D : m = mnt[i],
         \A i \in D : vol[i] \in VS /\ mnt[i] \in MS,
         sv \in VS <=> sm \in MS, dv \in VS <=> dm \in MS
  PROVE  /\ {m.volume : m \in MS} = {v.volume : v \in VS}
         /\ \A v, w \in VS : v.volume = w.volume => v = w
<1>1. ASSUME NEW m \in MS PROVE \E v \in VS : v.volume = m.volume
  OBVIOUS
<1>2. ASSUME NEW v \in VS PROVE \E m \in MS : m.volume = v.volume
  OBVIOUS
<1>3. ASSUME NEW v \in VS, NEW w \in VS, v.volume = w.volume PROVE v = w
  <2>1. CASE v = sv BY <1>3, <2>1, VolumeNames
  <2>2. CASE v = dv BY <1>3, <2>2, VolumeNames
  <2>3. CASE \E i \in D : v = vol[i] BY <1>3, <2>3, VolumeNames
  <2> QED BY <2>1, <2>2, <2>3
<1> QED BY <1>1, <1>2, <1>3

LEMMA PodsAreMadeSo ==
  ASSUME NEW p, NEW req, NEW vol, NEW mnt, NEW V, NEW W,
         \A i \in DOMAIN req.mounts : VolumeOf(req, i, vol[i]) /\ MountOf(req, i, mnt[i]),
         (V = {} /\ W = {}) \/ (V = {SpecVolume} /\ W = {SpecMount}),
         p.privileged = Kvm(req),
         p.volumes = V \cup KvmVolumes(req) \cup {vol[i] : i \in DOMAIN req.mounts},
         p.mounts = W \cup KvmMounts(req) \cup {mnt[i] : i \in DOMAIN req.mounts}
  PROVE  IsPodOf(p, req)
<1> DEFINE D == DOMAIN req.mounts
<1>1. ASSUME NEW i \in D
      PROVE  /\ vol[i] \in p.volumes /\ vol[i].volume = <<"mount", i>>
             /\ vol[i] = Volume(vol[i].volume, vol[i].source)
             /\ vol[i].source = HostPath(req.mounts[i].host) \/ vol[i].source = EmptyDir
             /\ mnt[i] \in p.mounts
  <2>1. PICK s \in {HostPath(req.mounts[i].host), EmptyDir} : vol[i] = Volume(<<"mount", i>>, s)
    BY DEF VolumeOf
  <2>2. vol[i].volume = <<"mount", i>> /\ vol[i].source = s
    BY <2>1, Fields
  <2> QED BY <2>1, <2>2
<1>2. ASSUME NEW i \in D PROVE mnt[i].volume = <<"mount", i>>
  <2>1. PICK ro : mnt[i] = Mount(<<"mount", i>>, req.mounts[i].host, ro)
    BY Zenon DEF MountOf
  <2> QED BY <2>1 DEF Mount
<1>3. /\ SpecVolume.volume = <<"spec">> /\ SpecMount.volume = <<"spec">>
      /\ Device.volume = <<"devkvm">> /\ DeviceMount.volume = <<"devkvm">>
  BY DEF SpecVolume, SpecMount, Device, DeviceMount, Volume, Mount
<1>4. /\ Kvm(req) => KvmVolumes(req) = {Device} /\ KvmMounts(req) = {DeviceMount}
      /\ ~Kvm(req) => KvmVolumes(req) = {} /\ KvmMounts(req) = {}
  BY DEF KvmVolumes, KvmMounts, Device, DeviceMount
<1>5. /\ \A v : v \in p.volumes <=>
               v \in V \/ (v = Device /\ Kvm(req)) \/ \E i \in D : v = vol[i]
      /\ \A m : m \in p.mounts <=>
               m \in W \/ (m = DeviceMount /\ Kvm(req)) \/ \E i \in D : m = mnt[i]
  <2>1. CASE Kvm(req) BY <1>4, <2>1
  <2>2. CASE ~Kvm(req) BY <1>4, <2>2
  <2> QED BY <2>1, <2>2
<1>6. /\ \A v \in p.volumes : v = SpecVolume \/ (v = Device /\ Kvm(req)) \/ \E i \in D : v = vol[i]
      /\ \A m \in p.mounts : m = SpecMount \/ (m = DeviceMount /\ Kvm(req)) \/ \E i \in D : m = mnt[i]
  BY <1>5
<1>7. SpecVolume \in p.volumes <=> SpecMount \in p.mounts
  <2>1. SpecVolume \in p.volumes <=> SpecVolume \in V
    BY <1>1, <1>3, <1>5, VolumeNames
  <2>2. SpecMount \in p.mounts <=> SpecMount \in W
    BY <1>2, <1>3, <1>5, VolumeNames
  <2> QED BY <2>1, <2>2
<1>8. /\ Device \in p.volumes <=> Kvm(req)
      /\ DeviceMount \in p.mounts <=> Kvm(req)
  <2>1. Device # SpecVolume /\ DeviceMount # SpecMount
        /\ \A i \in D : Device # vol[i] /\ DeviceMount # mnt[i]
    BY <1>1, <1>2, <1>3, VolumeNames
  <2> QED BY <1>5, <1>6, <2>1
<1> HIDE DEF D
<1>9. /\ {m.volume : m \in p.mounts} = {v.volume : v \in p.volumes}
      /\ \A v, w \in p.volumes : v.volume = w.volume => v = w
  <2> DEFINE VS == p.volumes
             MS == p.mounts
  <2>1. /\ \A i \in D : vol[i].volume = <<"mount", i>> /\ mnt[i].volume = <<"mount", i>>
        /\ \A v \in VS : v = SpecVolume \/ v = Device \/ \E i \in D : v = vol[i]
        /\ \A m \in MS : m = SpecMount \/ m = DeviceMount \/ \E i \in D : m = mnt[i]
        /\ \A i \in D : vol[i] \in VS /\ mnt[i] \in MS
        /\ SpecVolume \in VS <=> SpecMount \in MS
        /\ Device \in VS <=> DeviceMount \in MS
    BY <1>1, <1>2, <1>6, <1>7, <1>8
  <2> HIDE DEF VS, MS
  <2>2. /\ {m.volume : m \in MS} = {v.volume : v \in VS}
        /\ \A v, w \in VS : v.volume = w.volume => v = w
    BY <1>3, <2>1, PairsByName
  <2> QED BY <2>2 DEF VS, MS
<1>10. ASSUME NEW i \in D
       PROVE  /\ Mount(<<"mount", i>>, req.mounts[i].host, req.mounts[i].mode = "ro") \in p.mounts
              /\ \E s \in {HostPath(req.mounts[i].host), EmptyDir} : Volume(<<"mount", i>>, s) \in p.volumes
  <2>1. MountOf(req, i, mnt[i]) /\ mnt[i] \in p.mounts
    BY <1>1 DEF D
  <2>2. Mount(<<"mount", i>>, req.mounts[i].host, req.mounts[i].mode = "ro") \in p.mounts
    BY <2>1, Zenon DEF MountOf
  <2> QED BY <1>1, <2>2
<1>11. ASSUME NEW v \in p.volumes
       PROVE  \/ v = Device /\ Kvm(req)
              \/ v = SpecVolume
              \/ \E i \in D :
                   /\ v.volume = <<"mount", i>> /\ v = Volume(v.volume, v.source)
                   /\ v.source = HostPath(req.mounts[i].host) \/ v.source = EmptyDir
  <2>1. CASE \E i \in D : v = vol[i] BY <1>1, <2>1
  <2> QED BY <1>6, <2>1
<1>12. ASSUME NEW m \in p.mounts
       PROVE  \/ m = DeviceMount
              \/ m.volume = <<"spec">>
              \/ \E i \in D :
                   m = Mount(<<"mount", i>>, req.mounts[i].host, req.mounts[i].mode = "ro")
  <2>1. CASE \E i \in D : m = mnt[i]
    <3>1. PICK i \in D : m = mnt[i] BY <2>1
    <3>2. MountOf(req, i, m) BY <3>1 DEF D
    <3> QED BY <3>2, Zenon DEF MountOf
  <2> QED BY <1>3, <1>6, <2>1
<1>13. p.privileged = Kvm(req) /\ (Kvm(req) => Device \in p.volumes)
  BY <1>8
<1> QED BY <1>9, <1>10, <1>11, <1>12, <1>13, Zenon DEF IsPodOf, D, Device, DeviceMount, SpecVolume

LEMMA JobPodIsPod == ASSUME NEW req PROVE IsPodOf(JobPod(req), req)
<1> DEFINE p == JobPod(req)
           vol == [i \in DOMAIN req.mounts |->
                     Volume(<<"mount", i>>, IF req.strategy = "emptyDir" THEN EmptyDir
                                            ELSE HostPath(req.mounts[i].host))]
           mnt == [i \in DOMAIN req.mounts |->
                     Mount(<<"mount", i>>, req.mounts[i].host, req.mounts[i].mode = "ro")]
           none == {}
<1>1. p.privileged = Kvm(req)
  BY DEF JobPod
<1>2. p.volumes = none \cup KvmVolumes(req) \cup {vol[i] : i \in DOMAIN req.mounts}
  <2>1. p.volumes = KvmVolumes(req) \cup
          {Volume(<<"mount", i>>, IF req.strategy = "emptyDir" THEN EmptyDir
                                  ELSE HostPath(req.mounts[i].host)) : i \in DOMAIN req.mounts}
    BY DEF JobPod
  <2> QED BY <2>1
<1>3. p.mounts = none \cup KvmMounts(req) \cup {mnt[i] : i \in DOMAIN req.mounts}
  <2>1. p.mounts = KvmMounts(req) \cup
          {Mount(<<"mount", i>>, req.mounts[i].host, req.mounts[i].mode = "ro") : i \in DOMAIN req.mounts}
    BY DEF JobPod
  <2> QED BY <2>1
<1>4. \A i \in DOMAIN req.mounts : VolumeOf(req, i, vol[i]) /\ MountOf(req, i, mnt[i])
  BY DEF VolumeOf, MountOf
<1>5. none = {}
  OBVIOUS
<1> HIDE DEF p, vol, mnt, none
<1>6. IsPodOf(p, req)
  BY <1>1, <1>2, <1>3, <1>4, <1>5, PodsAreMadeSo
<1> QED BY <1>6 DEF p

LEMMA SandboxPodIsPod == ASSUME NEW req, NEW now PROVE IsPodOf(SandboxPod(req, now), req)
<1> DEFINE p == SandboxPod(req, now)
           vol == [i \in DOMAIN req.mounts |-> Volume(<<"mount", i>>, HostPath(req.mounts[i].host))]
           mnt == [i \in DOMAIN req.mounts |->
                     Mount(<<"mount", i>>, req.mounts[i].host, req.mounts[i].mode = "ro")]
           V == {SpecVolume}
           W == {SpecMount}
<1>1. p.privileged = Kvm(req)
  BY DEF SandboxPod
<1>2. p.volumes = V \cup KvmVolumes(req) \cup {vol[i] : i \in DOMAIN req.mounts}
  <2>1. p.volumes = {SpecVolume} \cup KvmVolumes(req) \cup
          {Volume(<<"mount", i>>, HostPath(req.mounts[i].host)) : i \in DOMAIN req.mounts}
    BY DEF SandboxPod, SpecVolume
  <2> QED BY <2>1
<1>3. p.mounts = W \cup KvmMounts(req) \cup {mnt[i] : i \in DOMAIN req.mounts}
  <2>1. p.mounts = {SpecMount} \cup KvmMounts(req) \cup
          {Mount(<<"mount", i>>, req.mounts[i].host, req.mounts[i].mode = "ro") : i \in DOMAIN req.mounts}
    BY DEF SandboxPod, SpecMount
  <2> QED BY <2>1
<1>4. \A i \in DOMAIN req.mounts : VolumeOf(req, i, vol[i]) /\ MountOf(req, i, mnt[i])
  BY DEF VolumeOf, MountOf
<1>5. V = {SpecVolume} /\ W = {SpecMount}
  OBVIOUS
<1> HIDE DEF p, vol, mnt, V, W
<1>6. IsPodOf(p, req)
  BY <1>1, <1>2, <1>3, <1>4, <1>5, PodsAreMadeSo
<1> QED BY <1>6 DEF p

LEMMA PodIsPod ==
  ASSUME DeployInv, NEW o \in Pods
  PROVE  IsPodOf(o.data, asked[o.run])
BY PodInCluster, JobPodIsPod, SandboxPodIsPod

\* A pod sees the directories its spec lists, and no other of its node (render_job_yaml,
\* render_sandbox_yaml).
THEOREM MountsGiven == Spec => []PodsGetTheirMounts
<1>1. DeployInv => PodsGetTheirMounts
  <2> SUFFICES ASSUME DeployInv, NEW o \in Pods
      PROVE
        LET req == asked[o.run]
            backed(i, v, m) == /\ m.path = req.mounts[i].host /\ m.volume = v.volume
                               /\ m.readOnly = (req.mounts[i].mode = "ro")
                               /\ v.source = HostPath(m.path) \/ v.source = EmptyDir
        IN  /\ \A i \in DOMAIN req.mounts : \E v \in o.data.volumes, m \in o.data.mounts : backed(i, v, m)
            /\ \A v \in o.data.volumes, m \in o.data.mounts :
                 m.volume = v.volume /\ v.source.kind = "hostPath" =>
                   \/ \E i \in DOMAIN req.mounts : backed(i, v, m)
                   \/ v.source.of = "/dev/kvm" /\ m.path = "/dev/kvm" /\ o.data.privileged
            /\ o.data.privileged <=> \E v \in o.data.volumes : v.volume = <<"devkvm">>
    BY DEF PodsGetTheirMounts
  <2> DEFINE req == asked[o.run]
             p == o.data
             backed(i, v, m) == /\ m.path = req.mounts[i].host /\ m.volume = v.volume
                                /\ m.readOnly = (req.mounts[i].mode = "ro")
                                /\ v.source = HostPath(m.path) \/ v.source = EmptyDir
  <2>1. IsPodOf(p, req)
    BY PodIsPod
  <2> HIDE DEF p, req
  <2>2. ASSUME NEW i \in DOMAIN req.mounts
        PROVE  \E v \in p.volumes, m \in p.mounts : backed(i, v, m)
    <3> DEFINE m == Mount(<<"mount", i>>, req.mounts[i].host, req.mounts[i].mode = "ro")
    <3>1. PICK s \in {HostPath(req.mounts[i].host), EmptyDir} : Volume(<<"mount", i>>, s) \in p.volumes
      BY <2>1 DEF IsPodOf
    <3>2. m \in p.mounts
      BY <2>1 DEF IsPodOf
    <3>3. backed(i, Volume(<<"mount", i>>, s), m)
      BY Fields
    <3> QED BY <3>1, <3>2, <3>3
  <2>3. ASSUME NEW v \in p.volumes, NEW m \in p.mounts,
               m.volume = v.volume, v.source.kind = "hostPath"
        PROVE  \/ \E i \in DOMAIN req.mounts : backed(i, v, m)
               \/ v.source.of = "/dev/kvm" /\ m.path = "/dev/kvm" /\ p.privileged
    <3>1. \/ v = Volume(<<"devkvm">>, HostPath("/dev/kvm")) /\ Kvm(req)
          \/ v = Volume(<<"spec">>, [kind |-> "secret", of |-> "spec"])
          \/ \E i \in DOMAIN req.mounts :
               /\ v.volume = <<"mount", i>> /\ v = Volume(v.volume, v.source)
               /\ v.source = HostPath(req.mounts[i].host) \/ v.source = EmptyDir
      BY <2>1 DEF IsPodOf
    <3>2. \/ m = Mount(<<"devkvm">>, "/dev/kvm", FALSE)
          \/ m.volume = <<"spec">>
          \/ \E i \in DOMAIN req.mounts :
               m = Mount(<<"mount", i>>, req.mounts[i].host, req.mounts[i].mode = "ro")
      BY <2>1 DEF IsPodOf
    <3>3. CASE v = Volume(<<"devkvm">>, HostPath("/dev/kvm")) /\ Kvm(req)
      <4>1. m.volume = <<"devkvm">> /\ v.source.of = "/dev/kvm"
        BY <2>3, <3>3, Fields
      <4>2. m.path = "/dev/kvm"
        <5>1. m.volume # <<"spec">> /\ \A i : m.volume # <<"mount", i>>
          BY <4>1, VolumeNames
        <5>2. \A i : Mount(<<"mount", i>>, req.mounts[i].host, req.mounts[i].mode = "ro").volume = <<"mount", i>>
          BY Fields
        <5>3. m = Mount(<<"devkvm">>, "/dev/kvm", FALSE)
          BY <3>2, <5>1, <5>2
        <5> QED BY <5>3 DEF Mount
      <4>3. p.privileged
        <5>1. p.privileged = Kvm(req) BY <2>1 DEF IsPodOf
        <5> QED BY <3>3, <5>1, Zenon
      <4> QED BY <4>1, <4>2, <4>3
    <3>4. CASE v = Volume(<<"spec">>, [kind |-> "secret", of |-> "spec"])
      BY <2>3, <3>4, Fields
    <3>5. CASE \E i \in DOMAIN req.mounts :
                 /\ v.volume = <<"mount", i>> /\ v = Volume(v.volume, v.source)
                 /\ v.source = HostPath(req.mounts[i].host) \/ v.source = EmptyDir
      <4>1. PICK i \in DOMAIN req.mounts :
              /\ v.volume = <<"mount", i>>
              /\ v.source = HostPath(req.mounts[i].host) \/ v.source = EmptyDir
        BY <3>5
      <4>2. m = Mount(<<"mount", i>>, req.mounts[i].host, req.mounts[i].mode = "ro")
        <5>1. m.volume = <<"mount", i>>
          BY <2>3, <4>1
        <5>2. m.volume # <<"spec">> /\ m.volume # <<"devkvm">> /\ \A j : m.volume = <<"mount", j>> => j = i
          BY <5>1, VolumeNames
        <5>3. m # Mount(<<"devkvm">>, "/dev/kvm", FALSE)
          <6>1. Mount(<<"devkvm">>, "/dev/kvm", FALSE).volume = <<"devkvm">>
            BY DEF Mount
          <6> QED BY <5>2, <6>1
        <5>4. PICK j \in DOMAIN req.mounts :
                m = Mount(<<"mount", j>>, req.mounts[j].host, req.mounts[j].mode = "ro")
          BY <3>2, <5>2, <5>3
        <5>5. j = i
          <6>1. m.volume = <<"mount", j>>
            BY <5>4 DEF Mount
          <6> QED BY <5>2, <6>1
        <5> QED BY <5>4, <5>5
      <4>3. backed(i, v, m)
        BY <2>3, <4>1, <4>2, Fields
      <4> QED BY <4>3
    <3> QED BY <3>1, <3>3, <3>4, <3>5
  <2>4. p.privileged <=> \E v \in p.volumes : v.volume = <<"devkvm">>
    <3>1. p.privileged = Kvm(req) /\ Kvm(req) \in BOOLEAN
      <4>1. p.privileged = Kvm(req) BY <2>1 DEF IsPodOf
      <4>2. Kvm(req) \in BOOLEAN
        <5>1. CASE req.kvm = "auto" BY <5>1 DEF Kvm
        <5>2. CASE req.kvm # "auto" BY <5>2 DEF Kvm
        <5> QED BY <5>1, <5>2
      <4> QED BY <4>1, <4>2
    <3>2. ASSUME NEW v \in p.volumes, v.volume = <<"devkvm">> PROVE Kvm(req)
      <4>1. v # Volume(<<"spec">>, [kind |-> "secret", of |-> "spec"])
        BY <3>2, Fields, VolumeNames
      <4>2. \A i : v.volume # <<"mount", i>>
        BY <3>2, VolumeNames
      <4> QED BY <2>1, <4>1, <4>2 DEF IsPodOf
    <3>3. Kvm(req) => \E v \in p.volumes : v.volume = <<"devkvm">>
      BY <2>1, Fields DEF IsPodOf
    <3> QED BY <3>1, <3>2, <3>3
  <2> QED BY <2>2, <2>3, <2>4 DEF p, req
<1> QED BY <1>1, DeployInvariant, PTL

\* The Secrets of a Sandbox that stands alone are in the cluster, each with its keys.
IsSecretOf(s, r, part) ==
  /\ s.kind = part /\ s.name = Name(r) /\ s.run = r
  /\ s.namespace = IF asked[r].namespace = << >> THEN ContextNamespace ELSE asked[r].namespace
  /\ s.data = IF part = "token" THEN {"token"}
              ELSE IF part = "spec" THEN {"run.yaml"} ELSE Credential(asked[r])

LEMMA SecretsInCluster ==
  ASSUME DeployInv, NEW r \in Active, asked[r].backend # "job", pc[r] = "done", Distinct(r),
         NEW part \in {"token", "spec", "llm-creds"},
         part = "llm-creds" => Credential(asked[r]) # {}
  PROVE  \E s \in objects : IsSecretOf(s, r, part)
<1> DEFINE docs == Documents(r)
           data == IF part = "token" THEN {"token"}
                   ELSE IF part = "spec" THEN {"run.yaml"} ELSE Credential(asked[r])
<1>1. \E d \in Range(docs) : d.kind = part /\ d.data = data
  <2>1. /\ 2 \in DOMAIN docs /\ docs[2].kind = "token" /\ docs[2].data = {"token"}
        /\ 3 \in DOMAIN docs /\ docs[3].kind = "spec" /\ docs[3].data = {"run.yaml"}
        /\ Credential(asked[r]) # {} =>
             /\ 4 \in DOMAIN docs /\ docs[4].kind = "llm-creds"
             /\ docs[4].data = Credential(asked[r])
    BY Manifests DEF Documents, SecretKeys
  <2>2. \A i \in DOMAIN docs : docs[i] \in Range(docs)
    BY DEF Range
  <2> HIDE DEF docs
  <2> QED BY <2>1, <2>2
<1>2. PICK d \in Range(docs) : d.kind = part /\ d.data = data
  BY <1>1
<1>3. InCluster(d) \in objects
  <2>1. Kept(r) /\ todo[r] = << >>
    BY DEF DeployInv, TypeOK, Kept
  <2>2. Range(todo[r]) = {}
    BY <2>1 DEF Range
  <2> QED BY <2>1, <2>2 DEF DeployInv
<1>4. /\ InCluster(d).kind = part /\ InCluster(d).name = Name(r) /\ InCluster(d).run = r
      /\ InCluster(d).namespace = IF asked[r].namespace = << >> THEN ContextNamespace ELSE asked[r].namespace
      /\ InCluster(d).data = data
  BY <1>2, DocumentOf
<1> QED BY <1>3, <1>4 DEF IsSecretOf

\* Every Secret and key a pod names was applied with it, and its mounts name its volumes
\* (render_sandbox_yaml, resolve_llm_credential).
THEOREM ReferencesClosed == Spec => []ReferencesResolve
<1>1. DeployInv => ReferencesResolve
  <2> SUFFICES ASSUME DeployInv, NEW o \in Pods, pc[o.run] = "done", Distinct(o.run)
      PROVE
        LET secret(part) == {s \in objects : s.kind = part /\ s.namespace = o.namespace
                                             /\ s.name = o.name /\ s.run = o.run}
        IN  /\ \A e \in o.data.env : \E s \in secret(e.secret) : e.key \in s.data
            /\ \A v \in o.data.volumes : v.source.kind = "secret" => secret(v.source.of) # {}
            /\ {m.volume : m \in o.data.mounts} = {v.volume : v \in o.data.volumes}
            /\ \A v, w \in o.data.volumes : v.volume = w.volume => v = w
    BY DEF ReferencesResolve
  <2> DEFINE r == o.run
             req == asked[r]
             secret(part) == {s \in objects : s.kind = part /\ s.namespace = o.namespace
                                              /\ s.name = o.name /\ s.run = o.run}
  <2>1. /\ r \in Active
        /\ \/ req.backend = "job" /\ o.data = JobPod(req)
           \/ req.backend # "job" /\ o.data = SandboxPod(req, born[r])
    BY PodInCluster
  <2>2. /\ o.name = Name(r)
        /\ o.namespace = IF asked[r].namespace = << >> THEN ContextNamespace ELSE asked[r].namespace
    BY DocumentOf DEF DeployInv, Pods
  <2>3. ASSUME req.backend # "job", NEW part \in {"token", "spec", "llm-creds"},
               part = "llm-creds" => Credential(req) # {}
        PROVE  \E s \in secret(part) :
                 s.data = IF part = "token" THEN {"token"}
                          ELSE IF part = "spec" THEN {"run.yaml"} ELSE Credential(req)
    <3>1. asked[r].backend # "job" /\ pc[r] = "done" /\ Distinct(r)
          /\ (part = "llm-creds" => Credential(asked[r]) # {})
      BY <2>3
    <3>2. PICK s \in objects : IsSecretOf(s, r, part)
      <4>1. r \in Active
        BY <2>1
      <4> HIDE DEF r
      <4> QED BY <3>1, <4>1, SecretsInCluster
    <3>3. s \in secret(part)
      BY <2>2, <3>2 DEF IsSecretOf
    <3> QED BY <3>2, <3>3 DEF IsSecretOf
  <2>4. ASSUME NEW e \in o.data.env PROVE \E s \in secret(e.secret) : e.key \in s.data
    <3>1. CASE req.backend = "job"
      BY <2>1, <3>1 DEF JobPod
    <3>2. CASE req.backend # "job"
      <4>1. \/ e = [var |-> "VOIDBOX_DAEMON_TOKEN", secret |-> "token", key |-> "token"]
            \/ \E key \in Credential(req) : e = [var |-> key, secret |-> "llm-creds", key |-> key]
        BY <2>1, <3>2 DEF SandboxPod
      <4>2. CASE e = [var |-> "VOIDBOX_DAEMON_TOKEN", secret |-> "token", key |-> "token"]
        <5>1. \E s \in secret("token") : s.data = {"token"}
          BY <2>3, <3>2
        <5> QED BY <4>2, <5>1
      <4>3. CASE \E key \in Credential(req) : e = [var |-> key, secret |-> "llm-creds", key |-> key]
        <5>1. e.secret = "llm-creds" /\ e.key \in Credential(req)
          BY <4>3
        <5>2. \E s \in secret("llm-creds") : s.data = Credential(req)
          BY <2>3, <3>2, <5>1
        <5> QED BY <5>1, <5>2
      <4> QED BY <4>1, <4>2, <4>3
    <3> QED BY <3>1, <3>2
  <2>5. ASSUME NEW v \in o.data.volumes, v.source.kind = "secret" PROVE secret(v.source.of) # {}
    <3>1. v = Volume(<<"spec">>, [kind |-> "secret", of |-> "spec"])
      <4>1. IsPodOf(o.data, req)
        BY PodIsPod
      <4>2. \/ v = Volume(<<"devkvm">>, HostPath("/dev/kvm"))
            \/ v = Volume(<<"spec">>, [kind |-> "secret", of |-> "spec"])
            \/ \E path : v.source = HostPath(path)
            \/ v.source = EmptyDir
        BY <4>1 DEF IsPodOf
      <4>3. v.source # EmptyDir /\ \A path : v.source # HostPath(path)
        BY <2>5, Fields
      <4> QED BY <4>2, <4>3, Fields
    <3>2. v.source.of = "spec" /\ v.volume = <<"spec">>
      BY <3>1 DEF Volume
    <3>3. req.backend # "job"
      <4> SUFFICES ASSUME req.backend = "job" PROVE FALSE
        OBVIOUS
      <4>1. v \in KvmVolumes(req) \cup
              {Volume(<<"mount", i>>, IF req.strategy = "emptyDir" THEN EmptyDir
                                      ELSE HostPath(req.mounts[i].host)) : i \in DOMAIN req.mounts}
        BY <2>1 DEF JobPod
      <4>2. CASE v \in KvmVolumes(req)
        <5>1. v = Volume(<<"devkvm">>, HostPath("/dev/kvm"))
          BY <4>2 DEF KvmVolumes
        <5>2. v.volume = <<"devkvm">>
          BY <5>1 DEF Volume
        <5> QED BY <3>2, <5>2, VolumeNames
      <4>3. CASE \E i, s : v = Volume(<<"mount", i>>, s)
        <5>1. PICK i, s : v = Volume(<<"mount", i>>, s)
          BY <4>3
        <5>2. v.volume = <<"mount", i>>
          BY <5>1 DEF Volume
        <5> QED BY <3>2, <5>2, VolumeNames
      <4> QED BY <4>1, <4>2, <4>3
    <3>4. \E s \in secret("spec") : TRUE
      BY <2>3, <3>3
    <3> QED BY <3>2, <3>4
  <2>6. /\ {m.volume : m \in o.data.mounts} = {v.volume : v \in o.data.volumes}
        /\ \A v, w \in o.data.volumes : v.volume = w.volume => v = w
    BY PodIsPod DEF IsPodOf
  <2> QED BY <2>4, <2>5, <2>6
<1> QED BY <1>1, DeployInvariant, PTL

-----------------------------------------------------------------------------
(* The two renderers.                                                          *)

\* A spec gets the same privilege and mounts from both renderers, and with hostPath the same
\* volumes, but for the spec that a Sandbox reads from its Secret; and but for a newline in
\* --command and a deadline they refuse the same (render_job_yaml, render_sandbox_yaml).
THEOREM RenderersAgree ==
  ASSUME NEW req \in Requests, NEW now
  PROVE  /\ JobPod(req).privileged = SandboxPod(req, now).privileged
         /\ JobPod(req).mounts = SandboxPod(req, now).mounts \ {SpecMount}
         /\ req.strategy = "hostPath" =>
              JobPod(req).volumes = SandboxPod(req, now).volumes \ {SpecVolume}
         /\ req.newline # "command" /\ ~Panics(req, now) =>
              (JobRefused(req) <=> SandboxRefused(req, now))
<1> DEFINE D == DOMAIN req.mounts
           M == {Mount(<<"mount", i>>, req.mounts[i].host, req.mounts[i].mode = "ro") : i \in D}
           V == {Volume(<<"mount", i>>, HostPath(req.mounts[i].host)) : i \in D}
<1>1. SpecMount \notin KvmMounts(req) /\ SpecMount \notin M
  <2>1. SpecMount.volume = <<"spec">> /\ DeviceMount.volume = <<"devkvm">>
    BY DEF SpecMount, DeviceMount, Mount
  <2>2. \A m \in KvmMounts(req) : m = DeviceMount
    BY DEF KvmMounts, DeviceMount
  <2>3. ASSUME NEW m \in M PROVE \E i : m.volume = <<"mount", i>>
    <3>1. PICK i, ro : m = Mount(<<"mount", i>>, req.mounts[i].host, ro)
      BY Zenon
    <3> QED BY <3>1 DEF Mount
  <2> QED BY <2>1, <2>2, <2>3, VolumeNames
<1>2. SpecVolume \notin KvmVolumes(req) /\ SpecVolume \notin V
  <2>1. SpecVolume.volume = <<"spec">> /\ Device.volume = <<"devkvm">>
    BY Fields DEF SpecVolume, Device
  <2>2. \A v \in KvmVolumes(req) : v = Device
    BY DEF KvmVolumes, Device
  <2>3. ASSUME NEW v \in V PROVE \E i : v.volume = <<"mount", i>>
    <3>1. PICK i : v = Volume(<<"mount", i>>, HostPath(req.mounts[i].host))
      BY Zenon
    <3> QED BY <3>1 DEF Volume
  <2> QED BY <2>1, <2>2, <2>3, VolumeNames
<1>3. /\ JobPod(req).mounts = KvmMounts(req) \cup M
      /\ SandboxPod(req, now).mounts = {SpecMount} \cup KvmMounts(req) \cup M
  BY DEF JobPod, SandboxPod, SpecMount
<1>4. req.strategy = "hostPath" => JobPod(req).volumes = KvmVolumes(req) \cup V
  BY DEF JobPod
<1>5. SandboxPod(req, now).volumes = {SpecVolume} \cup KvmVolumes(req) \cup V
  BY DEF SandboxPod, SpecVolume
<1>6. JobPod(req).privileged = SandboxPod(req, now).privileged
  <2>1. JobPod(req).privileged = Kvm(req) BY Zenon DEF JobPod
  <2>2. SandboxPod(req, now).privileged = Kvm(req) BY Zenon DEF SandboxPod
  <2> QED BY <2>1, <2>2, Zenon
<1>7. req.newline # "command" /\ ~Panics(req, now) => (JobRefused(req) <=> SandboxRefused(req, now))
  <2>1. req.newline \in {"none", "scalar", "command"}
    BY DEF Requests
  <2> QED BY <2>1 DEF JobRefused, SandboxRefused
<1> HIDE DEF M, V
<1> QED BY <1>1, <1>2, <1>3, <1>4, <1>5, <1>6, <1>7
=============================================================================
