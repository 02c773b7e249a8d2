----------------------------- MODULE MCDeployments -----------------------------
(* Deployments for TLC: one run with each of many names and options, and pairs   *)
(* of runs whose names are alike.                                                *)
EXTENDS Deployments, TLC

CONSTANTS r1, r2

Base == [command |-> "run", backend |-> "sandbox", namespace |-> <<"a">>, prefix |-> <<"a">>,
         name |-> <<"x">>, newline |-> "none", kvm |-> "auto", mode |-> "mock",
         strategy |-> "hostPath", mounts |-> << >>, timeout |-> NoTimeout,
         provider |-> "", keys |-> {}]

MCContextNamespace == <<"a">>

Texts(n) == UNION {[1 .. k -> {"a", "A", "-", "_"}] : k \in 0 .. n}
Named == {[Base EXCEPT !.backend = b, !.prefix = p, !.name = n] :
            b \in {"job"}, p \in {<< >>, <<"A", "-", "a">>, <<"-", "x", "x">>, <<"_">>}, n \in Texts(3)}
         \cup {[Base EXCEPT !.namespace = ns, !.command = c] :
            ns \in {<< >>, <<"A">>, <<"-">>, <<"a", "a">>}, c \in {"run", "render"}}

Mounts == LET m == [host : {"/a", "/dev/kvm"}, mode : {"ro", "rw"}] \cup [host : {"rel"}, mode : {"rw"}]
          IN  UNION {[1 .. k -> m] : k \in 0 .. 2}
Mounted == {[Base EXCEPT !.backend = b, !.strategy = s, !.kvm = k, !.mounts = m] :
              b \in {"job", "sandbox"}, s \in {"hostPath", "emptyDir"}, k \in {"auto", "true"},
              m \in Mounts}
           \cup {[Base EXCEPT !.backend = b, !.kvm = k, !.mode = m, !.newline = l] :
              b \in {"job", "sandbox"}, k \in {"auto", "true", "false"},
              m \in {"auto", "mock", "kvm", "vz"}, l \in {"none", "scalar", "command"}}

Timed == {[Base EXCEPT !.timeout = t] : t \in 0 .. 2^Bits - 1}
Keyed == {[Base EXCEPT !.provider = p, !.keys = k] :
            p \in {"", "claude", "anthropic", "codex", "openai", "ollama", "other"}, k \in SUBSET Keys}

Like == {Base, [Base EXCEPT !.backend = "job"], [Base EXCEPT !.namespace = << >>],
         [Base EXCEPT !.name = <<"x", "x", "x">>], [Base EXCEPT !.prefix = <<"a", "a", "a">>]}

MCWorkloads == {r1 :> q : q \in Named \cup Mounted \cup Timed \cup Keyed}
               \cup {(r1 :> q) @@ (r2 :> p) : q \in Like, p \in Like}

Symmetry == Permutations(Shorts)
=============================================================================
