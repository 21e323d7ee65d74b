------------------------------ MODULE Subagent ------------------------------
(* One call of run_subagent, internal/officialext/subagent: a child process   *)
(* that streams events, the parser of its standard output, the two timers and *)
(* the cancellation that stop it, its process group, the records of the role, *)
(* and what the parent reports of it.                                         *)
EXTENDS Naturals, Sequences, FiniteSets

CONSTANTS MaxTurns,   \* model requests of the child
          MaxTools,   \* tool calls of the child
          PipeSize    \* events between the child and the parser

VARIABLES call,       \* what this call is: [timeout, role, deaf, escapes]
          phase,      \* where roleRunner.Run and processRunner.Run are
          child,      \* the child process: what it does, and the code it exited with
          began, ended,  \* requests it began; answers it reported, and of those the priced ones
          heir,       \* whether a descendant of the child holds its output
          pipe,       \* standard output: the events not yet read, and whether it was closed
          parsed,     \* what parseEvents has seen
          cause,      \* the cause of runCtx, "none" while it is not done
          canceled,   \* whether the context of the caller is done
          term, force,   \* terminated; the force timer
          waited,     \* what cmd.Wait returned
          result      \* what the tool reports to the agent

vars == <<call, phase, child, began, ended, heir, pipe, parsed, cause, canceled,
          term, force, waited, result>>

Alive == child.at \in {"ready", "asking", "stuck"}
Running == phase \in {"select", "drain", "wait", "reap", "reaped"}
NoResult == [exit |-> 0, error |-> FALSE, reported |-> FALSE, timedOut |-> FALSE,
             turns |-> 0, tools |-> 0, priced |-> FALSE]

Init ==
  /\ call \in [timeout : BOOLEAN, role : BOOLEAN, deaf : BOOLEAN, escapes : BOOLEAN]
  /\ phase = "new"
  /\ child = [at |-> "none", code |-> 0] /\ began = 0 /\ ended = [turns |-> 0, priced |-> 0]
  /\ heir = FALSE /\ pipe = [events |-> <<>>, open |-> TRUE]
  /\ parsed = [turns |-> 0, priced |-> 0, tools |-> 0, done |-> FALSE, err |-> FALSE]
  /\ cause = "none" /\ canceled = FALSE /\ term = FALSE /\ force = "none"
  /\ waited = [at |-> "no", code |-> 0] /\ result = NoResult

process == <<child, began, ended, heir>>
stop == <<cause, canceled, term, force>>

-----------------------------------------------------------------------------
(* The child. *)

Count(events, type) == Cardinality({i \in DOMAIN events : events[i].type = type})

Write(event) ==
  /\ Len(pipe.events) < PipeSize
  /\ pipe' = IF pipe.open THEN [pipe EXCEPT !.events = Append(@, event)] ELSE pipe

ChildAsks ==
  /\ child.at = "ready" /\ began < MaxTurns
  /\ child' = [child EXCEPT !.at = "asking"] /\ began' = began + 1
  /\ Write([type |-> "turn_start", priced |-> FALSE])
  /\ UNCHANGED <<call, phase, ended, heir, parsed, stop, waited, result>>

ChildAnswers ==
  /\ child.at = "asking"
  /\ \E priced \in BOOLEAN :
       /\ Write([type |-> "turn_end", priced |-> priced])
       /\ ended' = [turns |-> ended.turns + 1, priced |-> ended.priced + IF priced THEN 1 ELSE 0]
  /\ child' = [child EXCEPT !.at = "ready"]
  /\ UNCHANGED <<call, phase, began, heir, parsed, stop, waited, result>>

ChildCallsTool ==
  /\ child.at = "ready" /\ began > 0
  /\ parsed.tools + Count(pipe.events, "tool_start") < MaxTools
  /\ Write([type |-> "tool_start", priced |-> FALSE])
  /\ heir' \in {heir, TRUE}
  /\ UNCHANGED <<call, phase, child, began, ended, parsed, stop, waited, result>>

(* A request, or a command of a tool, that never ends. *)
ChildHangs ==
  /\ child.at \in {"ready", "asking"}
  /\ child' = [child EXCEPT !.at = "stuck"]
  /\ UNCHANGED <<call, phase, began, ended, heir, pipe, parsed, stop, waited, result>>

(* 0 after an answer or before any, 1 for an error, 2 for a limit. *)
ChildExits ==
  /\ child.at = "ready"
  /\ \E code \in 0..2 : child' = [at |-> "dead", code |-> code]
  /\ UNCHANGED <<call, phase, began, ended, heir, pipe, parsed, stop, waited, result>>

(* SIGTERM ends a child that does not ignore it, at a time of its own. *)
ChildTerminates ==
  /\ Alive /\ term /\ ~call.deaf
  /\ child' = [at |-> "dead", code |-> 1]
  /\ UNCHANGED <<call, phase, began, ended, heir, pipe, parsed, stop, waited, result>>

HeirExits ==
  /\ heir /\ heir' = FALSE
  /\ UNCHANGED <<call, phase, child, began, ended, pipe, parsed, stop, waited, result>>

-----------------------------------------------------------------------------
(* Before the child runs. *)

Fail(reported) ==
  /\ phase' = "returned"
  /\ result' = [NoResult EXCEPT !.error = TRUE, !.reported = reported]

(* decodeInput, the skills, the role and its model, its record in the session, *)
(* the directories and the provider: whatever fails, nothing has run.          *)
Refuse ==
  /\ phase = "new"
  /\ Fail(FALSE)
  /\ UNCHANGED <<call, process, pipe, parsed, stop, waited>>

Start ==
  /\ phase = "new"
  /\ phase' = "select"
  /\ child' = [child EXCEPT !.at = "ready"]
  /\ UNCHANGED <<call, began, ended, heir, pipe, parsed, stop, waited, result>>

-----------------------------------------------------------------------------
(* The timers and the cancellation; the first cause is kept. *)

Cancel(why) == cause' = IF cause = "none" THEN why ELSE cause

CallerCancels ==
  /\ Running /\ ~canceled
  /\ canceled' = TRUE /\ Cancel("canceled")
  /\ UNCHANGED <<call, phase, process, pipe, parsed, term, force, waited, result>>

TotalTimer ==
  /\ Running /\ call.timeout /\ cause = "none"
  /\ Cancel("deadline")
  /\ UNCHANGED <<call, phase, process, pipe, parsed, canceled, term, force, waited, result>>

(* Every event read starts the idle timer again. *)
IdleTimer ==
  /\ Running /\ cause = "none" /\ (pipe.events = <<>> \/ parsed.done)
  /\ Cancel("idle")
  /\ UNCHANGED <<call, phase, process, pipe, parsed, canceled, term, force, waited, result>>

(* SIGKILL reaches the group; a descendant that left the group keeps running. *)
KillGroup ==
  /\ child' = IF Alive THEN [at |-> "dead", code |-> 1] ELSE child
  /\ heir' = (heir /\ call.escapes)

(* The same without closing the output. *)
ForceKillOnly ==
  /\ force = "armed" /\ Running
  /\ force' = "fired" /\ KillGroup
  /\ UNCHANGED <<call, phase, began, ended, pipe, parsed, cause, canceled, term, waited, result>>

ForceTimer ==
  /\ force = "armed" /\ Running
  /\ force' = "fired" /\ KillGroup
  /\ pipe' = [events |-> <<>>, open |-> FALSE]
  /\ UNCHANGED <<call, phase, began, ended, parsed, cause, canceled, term, waited, result>>

-----------------------------------------------------------------------------
(* The parser. *)

Parse ==
  /\ Running /\ ~parsed.done /\ pipe.events # <<>>
  /\ LET e == Head(pipe.events) IN
     parsed' = [parsed EXCEPT
       !.tools = @ + IF e.type = "tool_start" THEN 1 ELSE 0,
       !.turns = @ + IF e.type = "turn_end" THEN 1 ELSE 0,
       !.priced = @ + IF e.priced THEN 1 ELSE 0]
  /\ pipe' = [pipe EXCEPT !.events = Tail(@)]
  /\ UNCHANGED <<call, phase, process, stop, waited, result>>

ParseEnds ==
  /\ Running /\ ~parsed.done /\ pipe.events = <<>>
  /\ ~pipe.open \/ (~Alive /\ ~heir)
  /\ parsed' = [parsed EXCEPT !.done = TRUE, !.err = ~pipe.open]
  /\ UNCHANGED <<call, phase, process, pipe, stop, waited, result>>

(* A line beyond maxEventLine ends the parser; the child then writes to nobody. *)
ParseFails ==
  /\ Running /\ ~parsed.done /\ pipe.events # <<>>
  /\ parsed' = [parsed EXCEPT !.done = TRUE, !.err = TRUE]
  /\ UNCHANGED <<call, phase, process, pipe, stop, waited, result>>

-----------------------------------------------------------------------------
(* processRunner.Run once the child runs. *)

StopChild ==
  IF term THEN UNCHANGED <<term, force>>
  ELSE term' = TRUE /\ force' = "armed"

StreamDone ==
  /\ phase \in {"select", "drain"} /\ parsed.done
  /\ phase' = "wait"
  /\ UNCHANGED <<call, process, pipe, parsed, stop, waited, result>>

ContextDone ==
  /\ cause # "none"
  /\ \/ phase = "select" /\ phase' = "drain"
     \/ phase = "wait" /\ waited.at = "no" /\ phase' = "reap"
  /\ StopChild
  /\ UNCHANGED <<call, process, pipe, parsed, cause, canceled, waited, result>>

(* cmd.Wait: the exit of the child, and, for at most WaitDelay, the end of its *)
(* standard error; a child that succeeded is an error when that did not end.   *)
Waited ==
  /\ phase \in {"wait", "reap"} /\ waited.at = "no" /\ ~Alive
  /\ waited' = [at |-> "yes", code |-> IF child.code = 0 /\ heir THEN 1 ELSE child.code]
  /\ phase' = "reaped"
  /\ UNCHANGED <<call, process, pipe, parsed, stop, result>>

TimedOut == cause \in {"deadline", "idle"}
(* Without the check that a model turn was completed. *)
ExitCodeOfProcess == IF TimedOut THEN 124 ELSE waited.code
ExitCode ==
  IF TimedOut THEN 124
  ELSE IF waited.code # 0 THEN waited.code
  ELSE IF parsed.err \/ parsed.turns = 0 THEN 1 ELSE 0

(* The result of the process, then the record of the role, which may fail, and *)
(* the tool, which reports what ran whatever failed.                           *)
Return ==
  /\ phase = "reaped"
  /\ phase' = "returned"
  /\ \E unrecorded \in {FALSE, call.role} :
       result' = [exit |-> ExitCode, error |-> canceled \/ unrecorded, reported |-> TRUE,
                  timedOut |-> TimedOut, turns |-> parsed.turns, tools |-> parsed.tools,
                  priced |-> parsed.turns > 0 /\ parsed.priced = parsed.turns]
  /\ IF force # "none" THEN KillGroup ELSE UNCHANGED <<child, heir>>
  /\ UNCHANGED <<call, began, ended, pipe, parsed, stop, waited>>

Done == phase = "returned" /\ UNCHANGED vars

Child == ChildAsks \/ ChildAnswers \/ ChildCallsTool \/ ChildHangs \/ ChildExits
         \/ ChildTerminates \/ HeirExits
Own == Refuse \/ Start \/ Parse \/ ParseEnds \/ StreamDone \/ ContextDone \/ Waited \/ Return
       \/ ForceTimer
Next == Child \/ CallerCancels \/ TotalTimer \/ IdleTimer \/ ParseFails \/ Own \/ Done

(* The runtime schedules the goroutines of the parent, and its timers fire;   *)
(* nothing is assumed of the child.                                           *)
Fairness == WF_vars(Own) /\ WF_vars(IdleTimer)
Spec == Init /\ [][Next]_vars
FairSpec == Spec /\ Fairness

-----------------------------------------------------------------------------
\* The states of the helper process, of its stream and of its timers.
TypeOK ==
  /\ child.at \in {"none", "ready", "asking", "stuck", "dead"}
  /\ phase \in {"new", "select", "drain", "wait", "reap", "reaped", "returned"}
  /\ began \in 0..MaxTurns /\ ended.turns \in 0..MaxTurns /\ ended.priced \in 0..ended.turns
  /\ parsed.turns \in 0..MaxTurns /\ parsed.tools \in 0..MaxTools
  /\ cause \in {"none", "canceled", "deadline", "idle"}
  /\ force \in {"none", "armed", "fired"}

(* A call that has returned has left no child, and when it stopped the child, *)
(* nothing of its process group.                                              *)
Reaped ==
  phase = "returned" => /\ ~Alive
                        /\ term => (heir => call.escapes)

(* A helper reported as successful answered every request it began, exited by *)
(* itself, and everything it wrote has been read.                             *)
SuccessIsWhole ==
  result.reported /\ result.exit = 0 =>
    /\ child.code = 0 /\ ~result.timedOut
    /\ result.turns = began /\ result.turns = ended.turns /\ result.turns > 0

(* What is reported was done: never more turns than the child completed, and a *)
(* known cost only when the price of every turn read is known.  What ran is    *)
(* always reported, errors and cancellations included.                         *)
UsageIsTrue ==
  /\ result.turns <= ended.turns
  /\ result.priced => parsed.priced = result.turns
  /\ phase = "returned" /\ began > 0 => result.reported

SubagentSafe == TypeOK /\ Reaped /\ SuccessIsWhole /\ UsageIsTrue

(* A call ends, whatever the child does: a child that hangs, ignores SIGTERM  *)
(* or leaves a descendant with its output is stopped.                         *)
Over == phase = "returned"
SubagentEnds == <>Over

(* A known cost covers every request the child began.                         *)
CostIsWhole == result.priced => result.turns = began
=============================================================================
