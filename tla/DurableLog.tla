----------------------------- MODULE DurableLog -----------------------------
(***************************************************************************)
(* What the session package promises of one session file: an append-only  *)
(* log.  `log` is the sequence of records a reader would recover, `acked`  *)
(* the records whose append was reported as successful.  A prefix of the   *)
(* log that holds every acknowledged record never changes; only records    *)
(* after it, which nobody was promised, may come and go.                   *)
(***************************************************************************)
EXTENDS Integers, Sequences

VARIABLES log,      \* records, each with a number r.id
          acked     \* the numbers of the acknowledged records

dlVars == <<log, acked>>

Init ==
    /\ log = <<>>
    /\ acked = {}

\* The first n records hold all the acknowledged ones.
Promised(n) == \A i \in (n + 1)..Len(log) : log[i].id \notin acked

\* Records are added or lost after a promised prefix, in the order of their
\* numbers.
Write ==
    /\ \E n \in 0..Len(log) :
          /\ Promised(n)
          /\ n <= Len(log')
          /\ \A i \in 1..n : log'[i] = log[i]
    /\ \A i, j \in 1..Len(log') : i < j => log'[i].id < log'[j].id
    /\ UNCHANGED acked

\* The writer is told that a record of the log is there to stay.
Acknowledge ==
    /\ \E i \in 1..Len(log) : acked' = acked \cup {log[i].id}
    /\ UNCHANGED log

Next == Write \/ Acknowledge

Spec == Init /\ [][Next]_dlVars
=============================================================================
