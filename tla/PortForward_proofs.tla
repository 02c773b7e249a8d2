-------------------------- MODULE PortForward_proofs --------------------------
(* PortForward for every set of ports and every length of its two waits.         *)
EXTENDS PortForward, TLAPS

LEMMA InitPortInv == Init => PortInv
<1> SUFFICES ASSUME Init PROVE PortInv
  OBVIOUS
<1>1. TypeOK
  <2>1. pipe \in Seq(Lines) BY DEF Init
  <2>2. ticks \in 0 .. ParseTicks BY ForwardAssumption DEF Init
  <2> QED BY <2>1, <2>2 DEF Init, TypeOK
<1>2. DOMAIN pipe = {} BY DEF Init
<1> QED BY <1>1, <1>2 DEF Init, PortInv

\* A step of the opening thread.
LEMMA MainKeepsPortInv ==
  ASSUME PortInv, MainStep \/ DropForward \/ ShimKilled
  PROVE  PortInv'
<1> USE ForwardAssumption DEF PortInv, TypeOK, Alive, mainVars, readerVars, childVars
<1>1. CASE Spawn
  <2>1. child = "none" /\ reader = "none" /\ chan = NoPort /\ said = {} /\ pc = "new"
    BY <1>1 DEF Spawn
  <2>2. \A i \in DOMAIN pipe : pipe[i].kind # "v4"
    BY <2>1
  <2>3. CASE /\ pc' = "parsing" /\ child' = "running" /\ reader' = "reading"
             /\ UNCHANGED <<bound, said, owes, chan>>
    BY <1>1, <2>1, <2>2, <2>3 DEF Spawn
  <2>4. CASE pc' = "failed" /\ UNCHANGED <<childVars, readerVars>>
    BY <1>1, <2>1, <2>4 DEF Spawn
  <2> QED BY <1>1, <2>3, <2>4 DEF Spawn
<1>2. CASE ParseWaits BY <1>2 DEF ParseWaits
<1>3. CASE ParseReturns BY <1>3 DEF ParseReturns
<1>4. CASE ProbeConnects BY <1>4 DEF ProbeConnects, Accepting
<1>5. CASE ProbeRefused BY <1>5 DEF ProbeRefused
<1>6. CASE OpenReturns BY <1>6 DEF OpenReturns
<1>7. CASE DropForward BY <1>7 DEF DropForward
<1>8. CASE ShimKilled BY <1>8 DEF ShimKilled
<1> QED BY <1>1, <1>2, <1>3, <1>4, <1>5, <1>6, <1>7, <1>8 DEF MainStep

\* A step of the reader thread: what it takes from the pipe is what it sends.
LEMMA ReaderKeepsPortInv ==
  ASSUME PortInv, ReaderStep
  PROVE  PortInv'
<1> USE ForwardAssumption DEF Alive, mainVars, readerVars, childVars
<1>1. CASE ReadLine
  <2>1. /\ pipe \in Seq(Lines) /\ pipe # << >>
        /\ Head(pipe) = pipe[1] /\ 1 \in DOMAIN pipe /\ Head(pipe) \in Lines
    BY <1>1 DEF ReadLine, PortInv, TypeOK
  <2>2. Head(pipe).port \in Ports
    BY <2>1 DEF Lines
  <2>3. chan = NoPort /\ local_port = NoPort
    BY <1>1 DEF ReadLine, PortInv
  <2>4. CASE Head(pipe).kind = "v4"
    <3>1. /\ "v4" \in said
          /\ Alive => bound = Head(pipe).port
      BY <2>1, <2>4 DEF PortInv
    <3>2. chan' = Head(pipe).port /\ reader' = "gone" /\ pipe' = << >>
          /\ UNCHANGED <<mainVars, childVars>>
      BY <1>1, <2>4 DEF ReadLine
    <3>3. pipe' \in Seq(Lines) /\ DOMAIN pipe' = {}
      BY <3>2
    <3> QED BY <2>2, <2>3, <3>1, <3>2, <3>3 DEF PortInv, TypeOK
  <2>5. CASE Head(pipe).kind # "v4"
    <3>1. pipe' = Tail(pipe) /\ UNCHANGED <<mainVars, readerVars, childVars>>
      BY <1>1, <2>5 DEF ReadLine
    <3>2. /\ pipe' \in Seq(Lines)
          /\ \A i \in DOMAIN pipe' : i + 1 \in DOMAIN pipe /\ pipe'[i] = pipe[i + 1]
      BY <2>1, <3>1
    <3>3. \A i \in DOMAIN pipe' : pipe'[i].kind = "v4" =>
            "v4" \in said' /\ (Alive' => bound' = pipe'[i].port)
      BY <3>1, <3>2 DEF PortInv
    <3> QED BY <3>1, <3>2, <3>3 DEF PortInv, TypeOK
  <2> QED BY <2>4, <2>5
<1>2. CASE ReadEnd BY <1>2 DEF ReadEnd, PortInv, TypeOK
<1> QED BY <1>1, <1>2 DEF ReaderStep

\* What kubectl writes reaches the pipe, or ends it.
LEMMA WritesKeepsPortInv ==
  ASSUME PortInv, child = "running", NEW line \in Lines, Writes(line),
         line.kind = "v4" => line.port = bound /\ "v4" \in said',
         said' \in SUBSET {"v4", "v6"}, said \subseteq said',
         ("v4" \in said' \/ owes') => bound # NoPort,
         owes' \in BOOLEAN, UNCHANGED <<mainVars, readerVars>>
  PROVE  PortInv'
<1> USE ForwardAssumption DEF Alive, mainVars, readerVars
<1>1. CASE reader = "reading"
  <2>1. pipe' = Append(pipe, line) /\ UNCHANGED <<child, bound>>
    BY <1>1 DEF Writes
  <2>2. /\ pipe' \in Seq(Lines)
        /\ \A i \in DOMAIN pipe' : \/ i \in DOMAIN pipe /\ pipe'[i] = pipe[i]
                                   \/ pipe'[i] = line
    BY <2>1 DEF PortInv, TypeOK
  <2>3. \A i \in DOMAIN pipe' : pipe'[i].kind = "v4" =>
          "v4" \in said' /\ (Alive' => bound' = pipe'[i].port)
    BY <2>1, <2>2 DEF PortInv
  <2> QED BY <2>1, <2>2, <2>3 DEF PortInv, TypeOK
<1>2. CASE reader # "reading"
  <2>1. child' = "broken" /\ bound' = NoPort /\ UNCHANGED pipe
    BY <1>2 DEF Writes
  <2> QED BY <2>1 DEF PortInv, TypeOK
<1> QED BY <1>1, <1>2

\* A step of kubectl.
LEMMA ChildKeepsPortInv ==
  ASSUME PortInv, ChildStep
  PROVE  PortInv'
<1> USE ForwardAssumption DEF Alive
<1>1. CASE Binds
  BY <1>1 DEF Binds, PortInv, TypeOK, mainVars, readerVars
<1>2. CASE SaysV4
  <2>1. [kind |-> "v4", port |-> bound] \in Lines
    BY <1>2 DEF SaysV4, PortInv, TypeOK, Lines
  <2> QED BY <1>2, <2>1, WritesKeepsPortInv DEF SaysV4, PortInv, TypeOK
<1>3. CASE SaysV6
  <2>1. PICK p \in Ports : Writes([kind |-> "v6", port |-> p])
    BY <1>3 DEF SaysV6
  <2>2. [kind |-> "v6", port |-> p] \in Lines
    BY DEF Lines
  <2>3. "v4" \in said' => bound # NoPort
    BY <1>3 DEF SaysV6, PortInv
  <2> QED BY <1>3, <2>1, <2>2, <2>3, WritesKeepsPortInv DEF SaysV6, PortInv, TypeOK
<1>4. CASE SaysHandling
  <2>1. [kind |-> "handling", port |-> bound] \in Lines
    BY <1>4 DEF SaysHandling, PortInv, TypeOK, Lines
  <2> QED BY <1>4, <2>1, WritesKeepsPortInv DEF SaysHandling, PortInv, TypeOK
<1>5. CASE ChildExits
  BY <1>5 DEF ChildExits, PortInv, TypeOK, mainVars, readerVars
<1>6. CASE ChildBlocks
  BY <1>6 DEF ChildBlocks, PortInv, TypeOK, mainVars, readerVars
<1> QED BY <1>1, <1>2, <1>3, <1>4, <1>5, <1>6 DEF ChildStep

\* The port open returns is the child's own and a dropped handle leaves nothing: the
\* invariant both follow from, in every state.
THEOREM PortInvariant == Spec => []PortInv
<1>1. PortInv /\ [Next]_vars => PortInv'
  <2> SUFFICES ASSUME PortInv, [Next]_vars PROVE PortInv'
    OBVIOUS
  <2>1. CASE UNCHANGED vars
    BY <2>1 DEF PortInv, TypeOK, Alive, vars, mainVars, readerVars, childVars
  <2> QED BY <2>1, MainKeepsPortInv, ReaderKeepsPortInv, ChildKeepsPortInv DEF Next
<1> QED BY <1>1, InitPortInv, PTL DEF Spec

\* TypeOK: every variable keeps its range, the two wait counters included.
THEOREM PortTypes == Spec => []TypeOK
<1>1. PortInv => TypeOK
  BY DEF PortInv
<1> QED BY <1>1, PortInvariant, PTL

\* PortIsTheChilds: never the port of another line or of a child that listens elsewhere.
THEOREM PortIsOwn == Spec => []PortIsTheChilds
<1>1. PortInv => PortIsTheChilds
  BY DEF PortInv, PortIsTheChilds, Alive
<1> QED BY <1>1, PortInvariant, PTL

\* DropLeavesNothing: a handle that was dropped has left neither an orphan nor a zombie.
THEOREM DropIsClean == Spec => []DropLeavesNothing
<1>1. PortInv => DropLeavesNothing
  BY DEF PortInv, DropLeavesNothing
<1> QED BY <1>1, PortInvariant, PTL

-----------------------------------------------------------------------------
(* How long open may take.                                                     *)

\* The steps the opening thread has before it at most.
OpenLeft ==
  IF pc = "new" THEN ParseTicks + ProbeTicks + 3
  ELSE IF pc = "parsing" THEN ParseTicks - ticks + ProbeTicks + 2
  ELSE IF pc = "probing" THEN ProbeTicks - ticks + 2
  ELSE IF pc = "settling" THEN 1 ELSE 0

\* The safety half of OpenEnds: each step of open leaves it less to do and nothing else gives
\* it more, whatever kubectl and the reader thread do or fail to do (portforward.rs 35-60).
THEOREM OpenIsBounded ==
  Spec => [][/\ MainStep => OpenLeft' < OpenLeft
             /\ ~MainStep => OpenLeft' <= OpenLeft]_vars
          /\ [](OpenLeft \in 0 .. ParseTicks + ProbeTicks + 3)
<1>1. PortInv => OpenLeft \in 0 .. ParseTicks + ProbeTicks + 3
  BY ForwardAssumption DEF PortInv, TypeOK, OpenLeft
<1>2. ASSUME PortInv, MainStep PROVE OpenLeft' < OpenLeft
  <2>1. ticks \in Nat /\ ParseTicks \in Nat \ {0} /\ ProbeTicks \in Nat \ {0}
    BY <1>2, ForwardAssumption DEF PortInv, TypeOK
  <2>2. \/ pc = "new" /\ pc' \in {"parsing", "failed"} /\ ticks = 0 /\ ticks' = ticks
        \/ pc = "parsing" /\ ticks < ParseTicks /\ pc' \in {"parsing", "failed"} /\ ticks' = ticks + 1
        \/ pc = "parsing" /\ ticks < ParseTicks /\ pc' = "probing" /\ ticks' = 0
        \/ pc = "probing" /\ ticks < ProbeTicks /\ pc' \in {"settling", "failed"}
        \/ pc = "probing" /\ ticks < ProbeTicks /\ pc' = "probing" /\ ticks' = ticks + 1
        \/ pc = "settling" /\ pc' = "held"
    BY <1>2 DEF MainStep, Spawn, ParseWaits, ParseReturns, ProbeConnects, ProbeRefused, OpenReturns, PortInv
  <2> QED BY <2>1, <2>2 DEF OpenLeft
<1>3. ASSUME PortInv, [Next]_vars, ~MainStep PROVE OpenLeft' <= OpenLeft
  <2>1. OpenLeft \in Nat
    BY <1>1, <1>3, ForwardAssumption
  <2>2. CASE DropForward \/ ShimKilled
    BY <2>1, <2>2 DEF DropForward, ShimKilled, OpenLeft
  <2>3. CASE ReaderStep \/ ChildStep \/ UNCHANGED vars
    <3>1. UNCHANGED mainVars
      BY <2>3 DEF ReaderStep, ReadLine, ReadEnd, ChildStep, Binds, SaysV4, SaysV6, SaysHandling,
                  ChildExits, ChildBlocks, vars
    <3>2. OpenLeft' = OpenLeft
      BY <3>1 DEF mainVars, OpenLeft
    <3> QED BY <2>1, <3>2
  <2> QED BY <1>3, <2>2, <2>3 DEF Next
<1>4. PortInv /\ [Next]_vars
        => [/\ MainStep => OpenLeft' < OpenLeft
            /\ ~MainStep => OpenLeft' <= OpenLeft]_vars
  BY <1>2, <1>3
<1> QED BY <1>1, <1>4, PortInvariant, PTL DEF Spec
=============================================================================
