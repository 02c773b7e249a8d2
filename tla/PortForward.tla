------------------------------ MODULE PortForward ------------------------------
(* One PortForward (portforward.rs): the thread that opens, holds and drops it,   *)
(* the reader thread that parse_port_with_timeout starts, the pipe between the    *)
(* kubectl child and that thread, and the channel between the threads.  kubectl   *)
(* is external: it binds a loopback port for IPv4 and/or IPv6, prints one line    *)
(* for each and one for every connection it takes, and may end at any time.       *)
EXTENDS Naturals, Sequences

CONSTANTS Ports, NoPort,
          ParseTicks,    \* waits of 100 ms in the 10 s of parse_port_with_timeout
          ProbeTicks     \* failed connects in the 5 s of wait_for_listener

ASSUME ForwardAssumption ==
  NoPort \notin Ports /\ ParseTicks \in Nat \ {0} /\ ProbeTicks \in Nat \ {0}

VARIABLES pc,          \* the opening thread
          ticks,       \* its waits so far in the loop it is in
          local_port,  \* what parse_port_with_timeout returned
          reader,      \* the reader thread: "none", "reading", "gone"
          chan,        \* the port it has sent, NoPort while it has sent none
          child,       \* kubectl: "none", "running", "stuck", "exited", "broken" (by SIGPIPE), "reaped"
          bound,       \* the IPv4 port it listens on, NoPort if it does not
          said,        \* the lines it has printed, in order, of those it prints
          pipe,        \* its lines not yet read
          owes         \* connections taken whose line is not printed yet

mainVars == <<pc, ticks, local_port>>
readerVars == <<reader, chan>>
childVars == <<child, bound, said, owes>>
vars == <<mainVars, readerVars, childVars, pipe>>

Lines == [kind : {"v4"}, port : Ports] \cup [kind : {"v6", "handling"}, port : Ports]

TypeOK ==
  /\ pc \in {"new", "parsing", "probing", "settling", "held", "dropped", "failed", "killed"}
  /\ ticks \in 0 .. ParseTicks \cup 0 .. ProbeTicks
  /\ local_port \in Ports \cup {NoPort}
  /\ reader \in {"none", "reading", "gone"}
  /\ chan \in Ports \cup {NoPort}
  /\ child \in {"none", "running", "stuck", "exited", "broken", "reaped"}
  /\ bound \in Ports \cup {NoPort}
  /\ said \in SUBSET {"v4", "v6"}
  /\ pipe \in Seq(Lines)
  /\ owes \in BOOLEAN

Init ==
  /\ pc = "new" /\ ticks = 0 /\ local_port = NoPort
  /\ reader = "none" /\ chan = NoPort
  /\ child = "none" /\ bound = NoPort /\ said = {} /\ owes = FALSE
  /\ pipe = << >>

-----------------------------------------------------------------------------
(* The opening thread.                                                         *)

\* PortForward::open: kubectl is spawned and the reader thread takes its stdout.
Spawn ==
  /\ pc = "new"
  /\ \/ /\ pc' = "parsing" /\ child' = "running" /\ reader' = "reading"
        /\ UNCHANGED <<bound, said, owes, chan>>
     \/ pc' = "failed" /\ UNCHANGED <<childVars, readerVars>>
  /\ UNCHANGED <<ticks, local_port, pipe>>

\* Faulty variant: the wait does not count.
ParseWaitsForever ==
  /\ pc = "parsing" /\ chan = NoPort
  /\ UNCHANGED vars

\* Faulty variant: the deadline is noticed one wait too late.
ParseWaitsLate ==
  /\ pc = "parsing" /\ chan = NoPort
  /\ ticks' = ticks + 1
  /\ pc' = IF ticks = ParseTicks THEN "failed" ELSE "parsing"
  /\ UNCHANGED <<local_port, readerVars, childVars, pipe>>

\* 100 ms without a port, also when the reader is gone and none can come any more.
ParseWaits ==
  /\ pc = "parsing" /\ chan = NoPort
  /\ ticks' = ticks + 1
  /\ pc' = IF ticks' = ParseTicks THEN "failed" ELSE "parsing"
  /\ UNCHANGED <<local_port, readerVars, childVars, pipe>>

ParseReturns ==
  /\ pc = "parsing" /\ chan # NoPort
  /\ pc' = "probing" /\ ticks' = 0 /\ local_port' = chan
  /\ UNCHANGED <<readerVars, childVars, pipe>>

\* kubectl has its sockets.
Alive == child \in {"running", "stuck"}

\* Somebody accepts connections to the port: kubectl, its kernel for it while it is stuck,
\* and once it has ended whoever got the port after it.
Accepting == Alive => bound = local_port

\* wait_for_listener: a connect that succeeds ends the loop with two seconds of sleep.
ProbeConnects ==
  /\ pc = "probing" /\ Accepting
  /\ pc' = "settling" /\ owes' = (owes \/ Alive)
  /\ UNCHANGED <<ticks, local_port, readerVars, child, bound, said, pipe>>

\* A connect that is refused or times out, as it may although kubectl listens.
ProbeRefused ==
  /\ pc = "probing"
  /\ ticks' = ticks + 1
  /\ pc' = IF ticks' = ProbeTicks THEN "failed" ELSE "probing"
  /\ UNCHANGED <<local_port, readerVars, childVars, pipe>>

OpenReturns ==
  /\ pc = "settling" /\ pc' = "held"
  /\ UNCHANGED <<ticks, local_port, readerVars, childVars, pipe>>

\* Faulty variant: kill without wait.
DropWithoutWait ==
  /\ pc = "held" /\ pc' = "dropped"
  /\ child' = "exited" /\ bound' = NoPort
  /\ UNCHANGED <<ticks, local_port, readerVars, said, owes, pipe>>

\* impl Drop: kill, then wait.
DropForward ==
  /\ pc = "held" /\ pc' = "dropped"
  /\ child' = "reaped" /\ bound' = NoPort
  /\ UNCHANGED <<ticks, local_port, readerVars, said, owes, pipe>>

MainStep == \/ Spawn \/ ParseWaits \/ ParseReturns
            \/ ProbeConnects \/ ProbeRefused \/ OpenReturns

\* A signal ends the shim at any point, with no destructor run.  Ctrl-C reaches kubectl as
\* well (ChildExits may follow), TERM does not.
ShimKilled ==
  /\ pc \notin {"new", "dropped", "failed", "killed"} /\ pc' = "killed"
  /\ UNCHANGED <<ticks, local_port, readerVars, childVars, pipe>>

-----------------------------------------------------------------------------
(* The reader thread.                                                          *)

\* Faulty variant: any line with a port will do.
ReadAnyLine ==
  /\ reader = "reading" /\ pipe # << >>
  /\ chan' = Head(pipe).port /\ reader' = "gone" /\ pipe' = << >>
  /\ UNCHANGED <<mainVars, childVars>>

\* A line with a port on 127.0.0.1 is sent and ends the thread, which closes the pipe.
ReadLine ==
  /\ reader = "reading" /\ pipe # << >>
  /\ IF Head(pipe).kind = "v4"
     THEN chan' = Head(pipe).port /\ reader' = "gone" /\ pipe' = << >>
     ELSE pipe' = Tail(pipe) /\ UNCHANGED readerVars
  /\ UNCHANGED <<mainVars, childVars>>

\* End of file, or the end of the process this thread belongs to.
ReadEnd ==
  /\ reader = "reading"
  /\ pc \in {"failed", "killed"} \/ (pipe = << >> /\ child = "exited")
  /\ reader' = "gone"
  /\ UNCHANGED <<chan, mainVars, childVars, pipe>>

ReaderStep == ReadLine \/ ReadEnd

-----------------------------------------------------------------------------
(* kubectl.                                                                    *)

\* It listens on 127.0.0.1 before it says so, on [::1] only, or on both.
Binds ==
  /\ child = "running" /\ bound = NoPort /\ said = {}
  /\ \E p \in Ports : bound' = p
  /\ UNCHANGED <<child, said, owes, mainVars, readerVars, pipe>>

\* A write to the pipe: with nobody left to read it the process is ended by SIGPIPE.
Writes(line) ==
  IF reader = "reading"
  THEN pipe' = Append(pipe, line) /\ UNCHANGED <<child, bound>>
  ELSE child' = "broken" /\ bound' = NoPort /\ UNCHANGED pipe

SaysV4 ==
  /\ child = "running" /\ bound # NoPort /\ "v4" \notin said
  /\ Writes([kind |-> "v4", port |-> bound])
  /\ said' = said \cup {"v4"}
  /\ UNCHANGED <<owes, mainVars, readerVars>>

SaysV6 ==
  /\ child = "running" /\ "v6" \notin said /\ (bound # NoPort => "v4" \in said)
  /\ \E p \in Ports :
       /\ bound # NoPort => p = bound
       /\ Writes([kind |-> "v6", port |-> p])
  /\ said' = said \cup {"v6"}
  /\ UNCHANGED <<owes, mainVars, readerVars>>

SaysHandling ==
  /\ child = "running" /\ owes
  /\ Writes([kind |-> "handling", port |-> bound])
  /\ owes' = FALSE
  /\ UNCHANGED <<said, mainVars, readerVars>>

\* No such pod, no access, the pod is gone, the connection to it is lost.
ChildExits ==
  /\ Alive
  /\ child' = "exited" /\ bound' = NoPort
  /\ UNCHANGED <<said, owes, mainVars, readerVars, pipe>>

\* Its stderr is a pipe nobody reads: the write that finds it full never returns.
ChildBlocks ==
  /\ child = "running" /\ child' = "stuck"
  /\ UNCHANGED <<bound, said, owes, mainVars, readerVars, pipe>>

ChildStep == Binds \/ SaysV4 \/ SaysV6 \/ SaysHandling \/ ChildExits \/ ChildBlocks

-----------------------------------------------------------------------------
Next == MainStep \/ DropForward \/ ShimKilled \/ ReaderStep \/ ChildStep

\* The shim's threads run: every wait of theirs has a timeout.  Nothing is assumed of
\* kubectl, and a handle may be held forever (endpoint parks).
Spec == Init /\ [][Next]_vars /\ WF_vars(MainStep) /\ WF_vars(ReaderStep)

-----------------------------------------------------------------------------
\* The port open returns is one that this child has listened on at 127.0.0.1, and as long
\* as the child listens it is still that port: never the IPv6 line's or a connection's.
PortIsTheChilds ==
  local_port # NoPort =>
    /\ "v4" \in said
    /\ Alive => bound = local_port

\* After the handle is dropped the child is dead and has been waited for: no orphan and
\* no zombie, whatever happened while it was held.
DropLeavesNothing == pc = "dropped" => child = "reaped" /\ reader # "reading"

\* The inductive invariant behind the two: a port on the channel or an IPv4 line in the
\* pipe names what the child listens on, as long as it listens, and the reader that sent
\* one is gone; local_port is what came through the channel.
PortInv ==
  /\ TypeOK
  /\ pc = "new" => ticks = 0 /\ child = "none"
  /\ pc = "parsing" => ticks < ParseTicks
  /\ pc = "probing" => ticks < ProbeTicks
  /\ child = "none" => reader = "none" /\ said = {} /\ bound = NoPort /\ ~owes
  /\ ("v4" \in said \/ owes) /\ Alive => bound # NoPort
  /\ \A i \in DOMAIN pipe : pipe[i].kind = "v4" =>
       "v4" \in said /\ (Alive => bound = pipe[i].port)
  /\ chan # NoPort => "v4" \in said /\ reader = "gone" /\ (Alive => bound = chan)
  /\ local_port # NoPort => local_port = chan
  /\ pc \in {"probing", "settling", "held", "dropped"} => local_port # NoPort
  /\ pc = "dropped" => child = "reaped"

\* open comes back, with a handle or an error, though kubectl may hang, print nothing, fill
\* its stderr or die at any moment.
OpenEnds == pc = "parsing" ~> pc \in {"held", "dropped", "failed", "killed"}

\* "tears it down on return (or on `?` early-exit via Drop)": an open that fails leaves no
\* kubectl behind.
FailedLeavesNothing == pc = "failed" => ~Alive

\* "A live `kubectl port-forward` child process; killed on drop": while the handle is held
\* the shim itself does nothing that ends its child.
HandleKeepsChildAlive == pc \in {"settling", "held"} => child # "broken"
=============================================================================
