---------------------------- MODULE RunNames_proofs ----------------------------
(* What normalize_dns1123_label and parse_run_ref do with any text, whatever the *)
(* lengths kept and the first blocks of run ids are.                             *)
EXTENDS RunNames, WellFoundedInduction, TLAPS

LabelChars == Alnum \cup {"-"}

\* A set of positions that is not empty has a first and a last one.
LEMMA FirstAndLast ==
  ASSUME NEW n \in Nat, NEW S \in SUBSET (1 .. n), S # {}
  PROVE  /\ Min(S) \in S /\ \A i \in S : Min(S) <= i
         /\ Max(S) \in S /\ \A i \in S : i <= Max(S)
<1>1. ASSUME NEW T \in SUBSET Nat, T # {}
      PROVE  \E x \in T : \A y \in T : x <= y
  <2> DEFINE R == OpToRel(<, Nat)
  <2>1. \E x \in T : \A y \in T : <<y, x>> \notin R
    BY <1>1, NatLessThanWellFounded, WFMin
  <2>2. \A x, y \in T : <<y, x>> \in R <=> y < x
    BY DEF OpToRel
  <2> HIDE DEF R
  <2>3. PICK x \in T : \A y \in T : <<y, x>> \notin R
    BY <2>1
  <2>4. ASSUME NEW y \in T PROVE x <= y
    <3>1. ~(y < x) BY <2>2, <2>3
    <3> QED BY <3>1
  <2> QED BY <2>4
<1>2. \E x \in S : \A y \in S : x <= y
  <2>1. S \in SUBSET Nat OBVIOUS
  <2> QED BY <1>1, <2>1
<1>3. \E x \in S : \A y \in S : x >= y
  <2> DEFINE T == {n - i : i \in S}
  <2>1. T \in SUBSET Nat /\ T # {}
    <3>1. \A i \in S : n - i \in Nat OBVIOUS
    <3>2. PICK i \in S : TRUE OBVIOUS
    <3>3. n - i \in T BY <3>2
    <3>4. ASSUME NEW x \in T PROVE x \in Nat BY <3>1
    <3> QED BY <3>3, <3>4
  <2>2. PICK x \in T : \A y \in T : x <= y BY <1>1, <2>1
  <2>3. PICK i \in S : x = n - i BY <2>2
  <2>4. ASSUME NEW j \in S PROVE i >= j
    <3>1. n - i <= n - j BY <2>2, <2>3
    <3> QED BY <3>1
  <2> QED BY <2>4
<1> QED BY <1>2, <1>3 DEF Min, Max

\* The pipeline's steps, of a text of n characters.
LEMMA LabelOf ==
  ASSUME NEW s \in Seq(Chars)
  PROVE  Label(s) \in Seq(LabelChars) /\ Len(Label(s)) = Len(s)
<1>1. \A i \in 1 .. Len(s) : LabelChar(s[i]) \in LabelChars
  BY DEF LabelChar, LabelChars, Alnum, Letters
<1>2. Label(s) = [i \in 1 .. Len(s) |-> LabelChar(s[i])]
  BY DEF Label
<1> QED BY <1>1, <1>2

LEMMA TruncatedTo ==
  ASSUME NEW S, NEW s \in Seq(S), NEW n \in Nat
  PROVE  Truncated(s, n) \in Seq(S) /\ Len(Truncated(s, n)) <= n
BY DEF Truncated

LEMMA TrimmedEnds ==
  ASSUME NEW s \in Seq(LabelChars), Trimmed(s) # << >>
  PROVE  LET t == Trimmed(s) IN
         /\ t \in Seq(LabelChars) /\ Len(t) \in 1 .. Len(s)
         /\ t[1] \in Alnum /\ t[Len(t)] \in Alnum
<1> DEFINE kept == {i \in DOMAIN s : s[i] # "-"}
           t == Trimmed(s)
<1>1. kept \in SUBSET (1 .. Len(s)) /\ kept # {} /\ Len(s) \in Nat
  BY DEF Trimmed
<1>2. PICK a, b : a = Min(kept) /\ b = Max(kept)
  OBVIOUS
<1>3. a \in kept /\ b \in kept /\ a <= b
  <2> HIDE DEF kept
  <2> QED BY <1>1, <1>2, FirstAndLast
<1>4. t = SubSeq(s, a, b)
  BY <1>1, <1>2 DEF Trimmed
<1>5. a \in 1 .. Len(s) /\ b \in 1 .. Len(s) /\ s[a] \in Alnum /\ s[b] \in Alnum
  BY <1>3 DEF LabelChars
<1>6. t \in Seq(LabelChars) /\ Len(t) = b - a + 1 /\ t[1] = s[a] /\ t[Len(t)] = s[b]
  BY <1>3, <1>4, <1>5
<1> QED BY <1>3, <1>5, <1>6

LEMMA NormalizedIsLabel ==
  ASSUME NEW s \in Seq(Chars), NEW n \in Nat \ {0}
  PROVE  LET t == Normalized(s, n) IN
         /\ t \in Seq(LabelChars) /\ Len(t) \in 1 .. n
         /\ t[1] \in Alnum /\ t[Len(t)] \in Alnum
<1> DEFINE cut == Truncated(Label(s), n)
<1>1. cut \in Seq(LabelChars) /\ Len(cut) <= n
  BY LabelOf, TruncatedTo
<1>2. CASE Trimmed(cut) = << >>
  <2>1. Normalized(s, n) = <<"x">>
    BY <1>2 DEF Normalized, OrX
  <2>2. "x" \in Alnum
    BY DEF Alnum, Letters
  <2> QED BY <2>1, <2>2 DEF LabelChars
<1>3. CASE Trimmed(cut) # << >>
  <2>1. Normalized(s, n) = Trimmed(cut)
    BY <1>3 DEF Normalized, OrX
  <2> QED BY <1>1, <1>3, <2>1, TrimmedEnds
<1> QED BY <1>2, <1>3

\* The name of a run is a DNS label of a known length, whatever the prefix and the spec's
\* name are, and it ends with the block of its run id (normalize_dns1123_label, job_name).
THEOREM NamesAreLabels ==
  ASSUME NEW prefix \in Seq(Chars), NEW name \in Seq(Chars), NEW id \in Shorts
  PROVE  LET j == JobName(prefix, name, id) IN
         /\ j \in Seq(LabelChars) /\ Len(j) \in 1 .. PrefixMax + NameMax + 3
         /\ IsName(j) /\ j[Len(j)] = id
<1> DEFINE p == Normalized(prefix, PrefixMax)
           q == Normalized(name, NameMax)
           j == JobName(prefix, name, id)
<1>1. /\ p \in Seq(LabelChars) /\ Len(p) \in 1 .. PrefixMax /\ p[1] \in Alnum
      /\ q \in Seq(LabelChars) /\ Len(q) \in 1 .. NameMax
  BY NormalizedIsLabel, NamesAssumption
<1>2. <<"-">> \in Seq(LabelChars) /\ <<"-", id>> \in Seq(LabelChars) /\ id \in Alnum
  BY DEF LabelChars, Alnum
<1>3. j = p \o <<"-">> \o q \o <<"-", id>>
  BY DEF JobName
<1> HIDE DEF p, q, j
<1>4. /\ j \in Seq(LabelChars) /\ Len(j) = Len(p) + Len(q) + 3
      /\ j[1] = p[1] /\ j[Len(j)] = id
  BY <1>1, <1>2, <1>3
<1>5. IsName(j)
  BY <1>1, <1>2, <1>4 DEF IsName, LabelChars
<1>6. Len(j) \in 1 .. PrefixMax + NameMax + 3
  <2>1. PrefixMax \in Nat /\ NameMax \in Nat
    BY NamesAssumption
  <2>2. \A a \in 1 .. PrefixMax, b \in 1 .. NameMax :
          a + b + 3 \in Int /\ 1 <= a + b + 3 /\ a + b + 3 <= PrefixMax + NameMax + 3
    BY <2>1
  <2> QED BY <1>1, <1>4, <2>1, <2>2
<1> QED BY <1>4, <1>5, <1>6 DEF j

\* Two runs whose ids differ in their first block never have one name.
COROLLARY NamesDiffer ==
  ASSUME NEW p \in Seq(Chars), NEW n \in Seq(Chars), NEW id \in Shorts,
         NEW q \in Seq(Chars), NEW m \in Seq(Chars), NEW other \in Shorts,
         JobName(p, n, id) = JobName(q, m, other)
  PROVE  id = other
<1>1. /\ JobName(p, n, id)[Len(JobName(p, n, id))] = id
      /\ JobName(q, m, other)[Len(JobName(q, m, other))] = other
  BY NamesAreLabels
<1> QED BY <1>1

\* The slash of a run_ref is the only one if its parts are names, and parse_run_ref takes
\* the run_ref apart there.
LEMMA Slashes ==
  ASSUME NEW namespace \in Seq(Chars), NEW name \in Seq(LabelChars)
  PROVE  LET ref == RunRef(namespace, name)
             k == Len(namespace) + 1
         IN  /\ ref \in Seq(Chars) /\ k \in DOMAIN ref /\ ref[k] = "/"
             /\ SubSeq(ref, 1, k - 1) = namespace /\ SubSeq(ref, k + 1, Len(ref)) = name
             /\ \A i \in DOMAIN ref : ref[i] = "/" => i <= k
             /\ namespace \in Seq(LabelChars) => \A i \in DOMAIN ref : ref[i] = "/" => i = k
<1> DEFINE ref == RunRef(namespace, name)
           k == Len(namespace) + 1
<1>1. "/" \notin LabelChars /\ LabelChars \subseteq Chars /\ "/" \in Chars
  BY NamesAssumption DEF LabelChars, Chars, Alnum, Letters
<1>2. name \in Seq(Chars)
  BY <1>1
<1>3. /\ ref \in Seq(Chars) /\ Len(ref) = k + Len(name)
      /\ \A i \in 1 .. Len(namespace) : ref[i] = namespace[i]
      /\ ref[k] = "/"
      /\ \A i \in 1 .. Len(name) : ref[k + i] = name[i]
  BY <1>1, <1>2 DEF RunRef
<1> HIDE DEF ref
<1>4. k \in 1 .. Len(ref) /\ DOMAIN ref = 1 .. Len(ref)
  BY <1>3
<1>5. SubSeq(ref, 1, k - 1) = namespace
  BY <1>3
<1>6. SubSeq(ref, k + 1, Len(ref)) = name
  BY <1>2, <1>3
<1>7. ASSUME NEW i \in DOMAIN ref, i > k PROVE ref[i] # "/"
  <2>1. i - k \in 1 .. Len(name) /\ k + (i - k) = i
    BY <1>3, <1>4, <1>7
  <2>2. name[i - k] \in LabelChars
    BY <2>1
  <2> QED BY <1>1, <1>3, <2>1, <2>2
<1>8. ASSUME namespace \in Seq(LabelChars), NEW i \in DOMAIN ref, i < k PROVE ref[i] # "/"
  <2>1. i \in 1 .. Len(namespace)
    BY <1>4, <1>8
  <2>2. namespace[i] \in LabelChars
    BY <1>8, <2>1
  <2> QED BY <1>1, <1>3, <2>1, <2>2
<1>9. \A i \in DOMAIN ref : i \in Int /\ k \in Int
  BY <1>4
<1> QED BY <1>3, <1>4, <1>5, <1>6, <1>7, <1>8, <1>9 DEF ref

\* Whatever parse_run_ref makes of a printed run_ref is the namespace and name it was
\* printed of, and both are names.
THEOREM RefsAreTakenBack ==
  ASSUME NEW namespace \in Seq(Chars), NEW name \in Seq(LabelChars),
         NEW r \in ParsedRefs(RunRef(namespace, name))
  PROVE  r = [namespace |-> namespace, name |-> name] /\ IsName(namespace) /\ IsName(name)
<1> DEFINE ref == RunRef(namespace, name)
           k == Len(namespace) + 1
<1>1. PICK j \in {i \in DOMAIN ref : ref[i] = "/"} :
        /\ {i \in DOMAIN ref : ref[i] = "/"} = {j}
        /\ r = [namespace |-> SubSeq(ref, 1, j - 1), name |-> SubSeq(ref, j + 1, Len(ref))]
        /\ IsName(r.namespace) /\ IsName(r.name)
  BY DEF ParsedRefs
<1>2. k = j
  BY <1>1, Slashes
<1> QED BY <1>1, <1>2, Slashes

\* And parse_run_ref takes every printed run_ref whose parts are names.
THEOREM RefsAreTaken ==
  ASSUME NEW namespace \in Seq(Chars), NEW name \in Seq(LabelChars),
         IsName(namespace), IsName(name)
  PROVE  ParsedRefs(RunRef(namespace, name)) = {[namespace |-> namespace, name |-> name]}
<1> DEFINE ref == RunRef(namespace, name)
           k == Len(namespace) + 1
           slashes == {i \in DOMAIN ref : ref[i] = "/"}
           at(j) == [namespace |-> SubSeq(ref, 1, j - 1), name |-> SubSeq(ref, j + 1, Len(ref))]
<1>1. namespace \in Seq(LabelChars)
  BY DEF IsName, LabelChars
<1>2. slashes = {k} /\ at(k) = [namespace |-> namespace, name |-> name]
  <2>1. /\ k \in DOMAIN ref /\ ref[k] = "/"
        /\ SubSeq(ref, 1, k - 1) = namespace /\ SubSeq(ref, k + 1, Len(ref)) = name
        /\ \A i \in DOMAIN ref : ref[i] = "/" => i = k
    BY <1>1, Slashes
  <2> HIDE DEF ref, k
  <2> QED BY <2>1
<1>3. IsName(at(k).namespace) /\ IsName(at(k).name)
  BY <1>2
<1>4. ParsedRefs(ref) = {at(j) : j \in {i \in slashes : slashes = {i} /\ IsName(at(i).namespace) /\ IsName(at(i).name)}}
  BY DEF ParsedRefs
<1> HIDE DEF ref, slashes
<1>5. {i \in slashes : slashes = {i} /\ IsName(at(i).namespace) /\ IsName(at(i).name)} = {k}
  BY <1>2, <1>3
<1>6. ParsedRefs(ref) = {at(k)}
  BY <1>4, <1>5
<1> QED BY <1>2, <1>6 DEF ref
=============================================================================
