------------------------------ MODULE Generations ------------------------------
(* What a Sandbox promises to those who talk to it by its name: it lives in      *)
(* generations, one after the other.  A generation loads the spec at most once,  *)
(* gives each id to one run at most, and its runs end with it: a later one knows *)
(* none of them, though it may give the same id to a run of its own.             *)
EXTENDS Naturals

CONSTANT Runs

VARIABLES gen,      \* the number of the newest generation, 0 before the first
          up,       \* it accepts runs
          loaded,   \* the run it has made of the spec, in a set that is empty before
          live,     \* the runs that work
          used      \* the ids it has given to runs

genVars == <<gen, up, loaded, live, used>>

Init == gen = 0 /\ up = FALSE /\ loaded = {} /\ live = {} /\ used = {}

Starts ==
  /\ ~up /\ live = {}
  /\ gen' = gen + 1 /\ up' = TRUE /\ loaded' = {} /\ used' = {}
  /\ UNCHANGED live

Accepts(r) ==
  /\ up /\ r \notin used
  /\ live' = live \cup {r} /\ used' = used \cup {r}
  /\ UNCHANGED <<gen, up>>

Loads(r) == loaded = {} /\ loaded' = {r} /\ Accepts(r)
Serves(r) == UNCHANGED loaded /\ Accepts(r)

Finish(some) ==
  /\ live' = live \ some
  /\ UNCHANGED <<gen, up, loaded, used>>

Stops ==
  /\ up /\ up' = FALSE /\ live' = {}
  /\ UNCHANGED <<gen, loaded, used>>

Next ==
  \/ Starts \/ Stops
  \/ \E r \in Runs : Loads(r) \/ Serves(r)
  \/ \E some \in SUBSET live : Finish(some)

Spec == Init /\ [][Next]_genVars
=============================================================================
