-------------------------------- MODULE Herdr --------------------------------
(* The reporter of the state of the agent to the Herdr pane that notch runs   *)
(* in, internal/herdr: the hooks and questions that change the state, the     *)
(* queue of one report, the worker that runs a command for each, and the      *)
(* release of the pane.                                                       *)
EXTENDS Naturals, Sequences, FiniteSets

CONSTANTS Question,    \* the questions of extensions, each put once
          Model,       \* models the agent may be switched to
          Id,          \* identities of sessions, 0 for a session that is not kept
          MaxTurns, MaxSwitches

VARIABLES agent,       \* the agent: running, its model, the model a hook was told, turns
          question,    \* where the questions are
          reporter,    \* the fields under mu: state, session, blocks
          closing,     \* what Close has done
          queue,       \* the channel of one report
          worker,      \* the goroutine, and the report it is sending
          seq,         \* the number of the last command
          pane,        \* what Herdr shows, and whether the last command has reached it
          switches     \* bound of this model

vars == <<agent, question, reporter, closing, queue, worker, seq, pane, switches>>

None == [state |-> "none", session |-> [id |-> 0, model |-> 0], seq |-> 0]
NoHook == 0

Init ==
  /\ agent = [runs |-> FALSE, model |-> 1, hook |-> NoHook, turns |-> 0]
  /\ question = [q \in Question |-> "new"]
  /\ reporter = [state |-> "idle", session |-> [id |-> 0, model |-> 0], blocks |-> 0]
  /\ closing = "no" /\ queue = <<>> /\ worker = [at |-> "idle", report |-> None]
  /\ seq = 0 /\ pane = [shows |-> None, heard |-> TRUE] /\ switches = 0

-----------------------------------------------------------------------------
(* The fields, and the queue. *)

Report(r) == [state |-> IF r.blocks > 0 THEN "blocked" ELSE r.state, session |-> r.session, seq |-> 0]

(* Mutant: a report is dropped when one waits. *)
EnqueueIfEmpty(r) == queue' = IF closing = "no" /\ queue = <<>> THEN <<Report(r)>> ELSE queue

(* The report that waits is replaced; after Close none is taken.              *)
Enqueue(r) == queue' = IF closing = "no" THEN <<Report(r)>> ELSE queue

Becomes(r) == reporter' = r /\ Enqueue(r)
(* Between questions only; the end of the last one tells what changed.        *)
BecomesUnblocked(r) == reporter' = r /\ IF r.blocks = 0 THEN Enqueue(r) ELSE UNCHANGED queue

Started == reporter.session.model # 0

StartReporter ==
  /\ ~Started
  /\ \E i \in Id : Becomes([reporter EXCEPT !.state = "idle", !.session = [id |-> i, model |-> agent.model]])
  /\ UNCHANGED <<agent, question, closing, worker, seq, pane, switches>>

SetSessionID ==
  /\ Started /\ switches < MaxSwitches /\ switches' = switches + 1
  /\ \E i \in Id : Becomes([reporter EXCEPT !.session.id = i])
  /\ UNCHANGED <<agent, question, closing, worker, seq, pane>>

(* /model: the agent takes the model over before its next turn; the reporter  *)
(* is told at once.  /thinking does the same with another field.              *)
SetModel ==
  /\ Started /\ switches < MaxSwitches /\ switches' = switches + 1
  /\ \E m \in Model : /\ Becomes([reporter EXCEPT !.session.model = m])
                      /\ agent' = [agent EXCEPT !.model = m]
  /\ UNCHANGED <<question, closing, worker, seq, pane>>

(* The hook before every turn is told the model of that moment. *)
TurnBegins ==
  /\ Started /\ agent.hook = NoHook /\ agent.turns < MaxTurns
  /\ agent' = [agent EXCEPT !.runs = TRUE, !.hook = agent.model, !.turns = @ + 1]
  /\ UNCHANGED <<question, reporter, closing, queue, worker, seq, pane, switches>>

BeginRun ==
  /\ agent.hook # NoHook /\ agent' = [agent EXCEPT !.hook = NoHook]
  /\ BecomesUnblocked([reporter EXCEPT !.state = "working", !.session.model = agent.hook])
  /\ UNCHANGED <<question, closing, worker, seq, pane, switches>>

RunEnds ==
  /\ agent.runs /\ agent.hook = NoHook
  /\ agent' = [agent EXCEPT !.runs = FALSE]
  /\ BecomesUnblocked([reporter EXCEPT !.state = "idle"])
  /\ UNCHANGED <<question, closing, worker, seq, pane, switches>>

BeginBlock(q) ==
  /\ Started /\ question[q] = "new"
  /\ question' = [question EXCEPT ![q] = "asked"]
  /\ LET r == [reporter EXCEPT !.blocks = @ + 1] IN
       /\ reporter' = r
       /\ IF r.blocks = 1 THEN Enqueue(r) ELSE UNCHANGED queue
  /\ UNCHANGED <<agent, closing, worker, seq, pane, switches>>

EndBlock(q) ==
  /\ question[q] = "asked"
  /\ question' = [question EXCEPT ![q] = "answered"]
  /\ BecomesUnblocked([reporter EXCEPT !.blocks = IF @ > 0 THEN @ - 1 ELSE 0])
  /\ UNCHANGED <<agent, closing, worker, seq, pane, switches>>

-----------------------------------------------------------------------------
(* The worker. *)

(* The resume command is left out of a session that is not kept. *)
Shown(r) == IF r.session.id = 0 THEN [r EXCEPT !.session = [id |-> 0, model |-> 0]] ELSE r

Work ==
  /\ worker.at = "idle"
  /\ \/ /\ closing \in {"canceled", "released"}
        /\ worker' = [worker EXCEPT !.at = "done"] /\ UNCHANGED <<queue, seq>>
     \/ /\ queue # <<>>
        /\ seq' = seq + 1 /\ queue' = <<>>
        /\ worker' = [at |-> IF closing = "canceled" THEN "failing" ELSE "sending",
                      report |-> [Head(queue) EXCEPT !.seq = seq + 1]]
  /\ UNCHANGED <<agent, question, reporter, closing, pane, switches>>

(* The command reaches Herdr, or it fails, or it is stopped after a second or *)
(* by Close, before or after it has; none starts once Close has canceled.     *)
Send ==
  /\ worker.at \in {"sending", "failing"}
  /\ worker' = [at |-> "idle", report |-> None]
  /\ \/ worker.at = "sending" /\ pane' = [shows |-> Shown(worker.report), heard |-> TRUE]
     \/ pane' = [pane EXCEPT !.heard = FALSE]
  /\ UNCHANGED <<agent, question, reporter, closing, queue, seq, switches>>

-----------------------------------------------------------------------------
(* Close, a step at a time; a second call returns at once. *)

CloseBegins ==
  /\ closing = "no" /\ closing' = "closed"
  /\ UNCHANGED <<agent, question, reporter, queue, worker, seq, pane, switches>>

CloseCancels ==
  /\ closing = "closed" /\ closing' = "canceled"
  /\ UNCHANGED <<agent, question, reporter, queue, worker, seq, pane, switches>>

Release ==
  /\ closing = "canceled" /\ worker.at = "done" /\ closing' = "released"
  /\ seq' = seq + 1
  /\ \/ pane' = [shows |-> [None EXCEPT !.seq = seq + 1], heard |-> TRUE]
     \/ pane' = [pane EXCEPT !.heard = FALSE]
  /\ UNCHANGED <<agent, question, reporter, queue, worker, switches>>

Close == CloseBegins \/ CloseCancels \/ Release

Next ==
  \/ StartReporter \/ SetSessionID \/ SetModel \/ TurnBegins \/ BeginRun \/ RunEnds
  \/ \E q \in Question : BeginBlock(q) \/ EndBlock(q)
  \/ Work \/ Send \/ Close

Spec == Init /\ [][Next]_vars

-----------------------------------------------------------------------------
\* No more unblockings than blockings, at most one report waiting, and the points of the worker.
TypeOK ==
  /\ reporter.blocks \in 0..Cardinality(Question) /\ Len(queue) <= 1
  /\ worker.at \in {"idle", "sending", "failing", "done"}
  /\ closing \in {"no", "closed", "canceled", "released"}

Asked == {q \in Question : question[q] = "asked"}
StateOfAgent ==
  IF Asked # {} THEN "blocked" ELSE IF agent.runs /\ agent.hook = NoHook THEN "working" ELSE "idle"

(* Once the worker has nothing left to send, and its last command arrived, the *)
(* pane shows what the agent does and, between questions, the session to       *)
(* resume, however the changes before it met in the queue of one.              *)
ShowsTheAgent ==
  Started /\ closing = "no" /\ queue = <<>> /\ worker.at = "idle" /\ pane.heard /\ agent.hook = NoHook =>
    /\ pane.shows.state = StateOfAgent
    /\ Asked = {} => pane.shows.session = Shown(Report(reporter)).session

(* Commands reach the pane in their order, and nothing after its release.      *)
ReleasedLast ==
  /\ pane.shows.seq <= seq
  /\ closing = "released" => /\ worker.at = "done"
                             /\ pane.heard => pane.shows.state = "none"

HerdrSafe == TypeOK /\ ShowsTheAgent /\ ReleasedLast

(* The model of the resume command is that of the agent: a hook that was told  *)
(* the model before a switch may run after it.                                 *)
ResumesTheModel ==
  Started /\ agent.hook = NoHook => reporter.session.model = agent.model
=============================================================================
