------------------------------- MODULE RunNames -------------------------------
(* The name a run gets and the run_ref that stands for it on the command line    *)
(* (main.rs: short, normalize_dns1123_label, parse_run_ref, is_k8s_name).        *)
(* Text is a sequence of characters; a character is one of the classes the code  *)
(* tells apart: "a" and "x" (ASCII lower case and digits), "A" (what becomes "a" *)
(* in lower case), "-", "/" and "_" (everything else, a newline not among it).   *)
(* The eight hexadecimal digits of a run id that go into a name are one          *)
(* character.                                                                    *)
EXTENDS Naturals, Sequences, FiniteSetsExt

CONSTANTS PrefixMax,   \* longest --name-prefix kept (20)
          NameMax,     \* longest spec name kept (30)
          Shorts       \* the first blocks of run ids

Letters == {"a", "x"}

ASSUME NamesAssumption ==
  /\ PrefixMax \in Nat \ {0} /\ NameMax \in Nat \ {0}
  /\ Shorts \cap (Letters \cup {"A", "-", "/", "_"}) = {}

Alnum == Letters \cup Shorts
Chars == Alnum \cup {"A", "-", "/", "_"}

\* to_lowercase, then what is neither alphanumeric nor a dash becomes a dash.
LabelChar(c) == IF c = "A" THEN "a" ELSE IF c \in Alnum THEN c ELSE "-"

Truncated(s, n) == SubSeq(s, 1, IF Len(s) > n THEN n ELSE Len(s))

\* trim_matches('-')
Trimmed(s) ==
  LET kept == {i \in DOMAIN s : s[i] # "-"}
  IN  IF kept = {} THEN << >> ELSE SubSeq(s, Min(kept), Max(kept))

Label(s) == [i \in DOMAIN s |-> LabelChar(s[i])]
OrX(s) == IF s = << >> THEN <<"x">> ELSE s

\* Faulty variant: cut and not trimmed.
NormalizedUntrimmed(s, n) == OrX(Truncated(Label(s), n))

\* normalize_dns1123_label
Normalized(s, n) == OrX(Trimmed(Truncated(Label(s), n)))

\* Faulty variant: the whole name is normalised, and cut, at the end.
JobNameCut(prefix, name, id) ==
  Normalized(prefix \o <<"-">> \o name \o <<"-", id>>, PrefixMax + NameMax + 1)

\* What run and render call the Job or Sandbox.
JobName(prefix, name, id) ==
  Normalized(prefix, PrefixMax) \o <<"-">> \o Normalized(name, NameMax) \o <<"-", id>>

\* is_k8s_name
IsName(s) ==
  /\ s # << >> /\ s[1] \in Alnum /\ s[Len(s)] \in Alnum
  /\ \A i \in DOMAIN s : s[i] \in Alnum \cup {"-"}

RunRef(namespace, name) == namespace \o <<"/">> \o name

\* parse_run_ref, the set of its results: two parts, both names, or none.
ParsedRefs(ref) ==
  LET slashes == {i \in DOMAIN ref : ref[i] = "/"}
      at(k) == [namespace |-> SubSeq(ref, 1, k - 1), name |-> SubSeq(ref, k + 1, Len(ref))]
  IN  {at(k) : k \in {j \in slashes : slashes = {j} /\ IsName(at(j).namespace) /\ IsName(at(j).name)}}
=============================================================================
