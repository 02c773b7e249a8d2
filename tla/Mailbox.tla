------------------------------- MODULE Mailbox -------------------------------
(* What `send` promises, for any number of messages sent by independent        *)
(* processes: a message is accepted at most once, between the start of its     *)
(* send and a report of success; a send that reports a refusal leaves nothing  *)
(* behind; only a send whose request failed on the way (or that was killed)    *)
(* leaves its caller unsure, and its message may still be accepted later.      *)
EXTENDS Naturals, Sequences

CONSTANT Messages

VARIABLES status,   \* of each message: "new", "trying", "ok", "refused", "unsure"
          log       \* the accepted messages, in the order of acceptance

mailVars == <<status, log>>

Accepted(m) == \E i \in DOMAIN log : log[i] = m

Init == status = [m \in Messages |-> "new"] /\ log = << >>

Begin(m) ==
  /\ status[m] = "new" /\ status' = [status EXCEPT ![m] = "trying"]
  /\ UNCHANGED log

Accept(m) ==
  /\ status[m] \in {"trying", "unsure"} /\ ~ Accepted(m)
  /\ log' = Append(log, m)
  /\ UNCHANGED status

Report(m, s) ==
  /\ status[m] \in {"new", "trying"}
  /\ s = "ok" => Accepted(m)
  /\ s = "refused" => ~ Accepted(m)
  /\ status' = [status EXCEPT ![m] = s]
  /\ UNCHANGED log

Next == \E m \in Messages :
          \/ Begin(m) \/ Accept(m)
          \/ \E s \in {"ok", "refused", "unsure"} : Report(m, s)

Spec == Init /\ [][Next]_mailVars
=============================================================================
