------------------------------- MODULE Helpers -------------------------------
(* Batches of helpers: coordinate_helpers, internal/officialext/team, with its *)
(* budgets, its one clarification and its writers in git worktrees, and        *)
(* explore_codebase, internal/officialext/explore.  A helper is one call of    *)
(* the runner that module Subagent describes.                                  *)
EXTENDS Naturals, FiniteSets, FiniteSetsExt

CONSTANTS Task, Tree,     \* the tasks of the batch; the worktrees besides that of the lead
          MaxConcurrency, \* workers of explore_codebase, 4 in the code
          TurnLimit,      \* max_turns and the limit of a role
          CostLimit,      \* max_cost_usd
          Turns,          \* model requests of one run that has a limit, 1 of others
          MaxMoves        \* changes of the lead's branch by somebody else

VARIABLES batch,      \* the tool, its limits, and whether the commits of two writers conflict
          request,    \* what every task asks for
          lead,       \* commits on the branch of the lead; commits are numbered along it
          tree,       \* the state of every worktree
          leadHead,   \* what execute found the branch of the lead at
          phase,      \* of the batch
          task,       \* where every task is
          limit,      \* what the next run of every task may use
          spent,      \* ghost: what the runs of every task used
          result,     \* the results of the tasks
          canceled,   \* whether the context of the call is done
          usage       \* delegated_usage

vars == <<batch, request, lead, tree, leadHead, phase, task, limit, spent, result, canceled, usage>>

Nothing == [turns |-> 0, cost |-> 0, known |-> TRUE, calls |-> 0]
NoResult == [status |-> "failed", wrote |-> FALSE]
NoUsage == [turns |-> 0, cost |-> 0, known |-> FALSE, calls |-> 0]

(* A head is a commit of the lead, or a commit of a writer on top of one. *)
Head(base) == [base |-> base, own |-> FALSE]

Init ==
  /\ batch \in [tool : {"team", "explore"}, turns : TurnLimit, role : TurnLimit, cost : CostLimit,
                clashes : BOOLEAN]
  /\ batch.turns > 0 => batch.role = 0
  /\ request \in [Task -> [writes : BOOLEAN, tree : Tree, base : {0, 1}]]
  /\ \A t \in Task : ~request[t].writes => request[t] = [writes |-> FALSE, tree |-> CHOOSE w \in Tree : TRUE, base |-> 1]
  /\ batch.tool = "explore" => /\ \A t \in Task : ~request[t].writes
                               /\ batch.turns = 0 /\ batch.role = 0 /\ batch.cost = 0
  /\ IF \A t \in Task : ~request[t].writes THEN ~batch.clashes
     ELSE batch.turns = 0 /\ batch.role = 0 /\ batch.cost = 0
  /\ lead = 1
  /\ tree \in [Tree -> [head : {Head(0), Head(1)}, dirty : BOOLEAN]]
  /\ (\A t \in Task : ~request[t].writes) => tree = [w \in Tree |-> [head |-> Head(1), dirty |-> FALSE]]
  /\ leadHead = 0 /\ phase = "new"
  /\ task = [t \in Task |-> "ready"]
  /\ limit = [t \in Task |-> [turns |-> 0, cost |-> 0]]
  /\ spent = [t \in Task |-> Nothing] /\ result = [t \in Task |-> NoResult]
  /\ canceled = FALSE /\ usage = NoUsage

Writers == {t \in Task : request[t].writes}

-----------------------------------------------------------------------------
(* The call. *)

Inspect ==
  /\ phase = "new"
  /\ phase' = "validate" /\ leadHead' = lead
  /\ UNCHANGED <<batch, request, lead, tree, task, limit, spent, result, canceled, usage>>

(* normalizeAndValidate: every writer has a clean worktree of its own that is *)
(* exactly at the commit of the lead.                                         *)
Valid ==
  \A t \in Writers :
    /\ \A u \in Writers \ {t} : request[u].tree # request[t].tree
    /\ ~tree[request[t].tree].dirty
    /\ request[t].base = leadHead
    /\ tree[request[t].tree].head = Head(request[t].base)
Validate ==
  /\ phase = "validate"
  /\ phase' = IF Valid THEN "running" ELSE "refused"
  /\ limit' = [t \in Task |-> [turns |-> batch.turns, cost |-> batch.cost]]
  /\ UNCHANGED <<batch, request, lead, tree, leadHead, task, spent, result, canceled, usage>>

Cancel ==
  /\ phase = "running" /\ ~canceled
  /\ canceled' = TRUE
  /\ UNCHANGED <<batch, request, lead, tree, leadHead, phase, task, limit, spent, result, usage>>

(* A commit of somebody else on the branch of the lead. *)
LeadMoves ==
  /\ phase \in {"validate", "running"} /\ lead <= MaxMoves /\ Writers # {}
  /\ lead' = lead + 1
  /\ UNCHANGED <<batch, request, tree, leadHead, phase, task, limit, spent, result, canceled, usage>>

-----------------------------------------------------------------------------
(* One run of a helper. *)

(* All tasks of a team run at once, those of an exploration on a few workers. *)
Begin(t) ==
  /\ phase = "running" /\ task[t] = "ready"
  /\ batch.tool = "explore" =>
       Cardinality({u \in Task : task[u] = "first"}) < MaxConcurrency
  /\ task' = [task EXCEPT ![t] = "first"]
  /\ UNCHANGED <<batch, request, lead, tree, leadHead, phase, limit, spent, result, canceled, usage>>

(* What the helper does to its worktree: leaves changes, commits, or rewinds it. *)
Write(t) ==
  /\ task[t] \in {"first", "second"} /\ request[t].writes
  /\ \E new \in {[tree[request[t].tree] EXCEPT !.dirty = TRUE],
                 [tree[request[t].tree] EXCEPT !.dirty = FALSE, !.head.own = TRUE],
                 [head |-> Head(0), dirty |-> FALSE], [head |-> [base |-> 0, own |-> TRUE], dirty |-> FALSE]} :
       tree' = [tree EXCEPT ![request[t].tree] = new]
  /\ UNCHANGED <<batch, request, lead, leadHead, phase, task, limit, spent, result, canceled, usage>>

(* The limits a run works under: a role gives the number of turns of a task   *)
(* that does not set its own.                                                  *)
Effective(t) == [limit[t] EXCEPT !.turns = IF task[t] = "first" /\ batch.turns = 0 THEN batch.role ELSE @]

(* The child stops at its turn limit, and after the turn that reaches its cost; *)
(* one turn costs 1 or 2.                                                        *)
Within(l, n, cost) ==
  /\ l.turns > 0 => n <= l.turns
  /\ l.cost > 0 => \E last \in 1..2 : cost - last < l.cost
Runs(l) == {r \in [turns : 0..(IF l.turns = 0 /\ l.cost = 0 THEN 1 ELSE Turns), cost : 0..(2 * Turns),
                     known : BOOLEAN] :
              /\ r.cost \in r.turns..(2 * r.turns)
              /\ l.cost = 0 => r.cost = r.turns
              /\ ~r.known => r.cost = r.turns
              /\ r.turns = 0 => ~r.known
              /\ Within(l, r.turns, r.cost)}

(* addSubagentUsage. *)
Plus(u, r) == [turns |-> u.turns + r.turns, cost |-> u.cost + r.cost, known |-> u.known /\ r.known,
               calls |-> u.calls + 1]

(* applyRemainingBudget; a budget that is used up, or cannot be known, refuses. *)
Remaining(l, r) ==
  [turns |-> IF l.turns = 0 THEN 0 ELSE IF r.turns < l.turns THEN l.turns - r.turns ELSE 0,
   cost |-> IF l.cost = 0 THEN 0 ELSE IF r.cost < l.cost THEN l.cost - r.cost ELSE 0]
MayContinue(l, r) ==
  /\ l.turns > 0 => r.turns < l.turns
  /\ l.cost > 0 => r.known /\ r.cost < l.cost

AfterRun(t) == IF request[t].writes THEN "audit" ELSE "done"

(* The limits the continuation starts from, without what the role had set. *)
RemainingOfTask(t, r) == Remaining(limit[t], r)
RemainingOf(t, r) == Remaining(Effective(t), r)

(* runTask and the worker of explore: an error or an exit code fails the task; *)
(* a first answer may be a question, a second may not. What a writer used is   *)
(* one turn: its batch has no limits, and its audit does not look at the usage. *)
RunEnds(t) ==
  /\ task[t] \in {"first", "second"}
  /\ \E r \in Runs(Effective(t)), outcome \in {"error", "failed", "complete", "clarification"} :
       /\ canceled => outcome = "error"
       /\ request[t].writes => r = [turns |-> 1, cost |-> 1, known |-> TRUE]
       /\ outcome \in {"complete", "clarification"} =>
            r.turns > 0 /\ (batch.cost > 0 => r.known /\ r.cost < Effective(t).cost)
       /\ spent' = [spent EXCEPT ![t] = Plus(@, r)]
       /\ \/ /\ outcome = "clarification" /\ task[t] = "first" /\ batch.tool = "team"
             /\ MayContinue(Effective(t), r)
             /\ task' = [task EXCEPT ![t] = "asking"]
             /\ limit' = [limit EXCEPT ![t] = RemainingOf(t, r)]
             /\ UNCHANGED result
          \/ /\ outcome = "clarification" =>
                  task[t] = "second" \/ batch.tool = "explore" \/ ~MayContinue(Effective(t), r)
             /\ task' = [task EXCEPT ![t] = AfterRun(t)]
             /\ result' = [result EXCEPT ![t].status =
                   CASE outcome = "complete" -> "complete"
                     [] batch.tool = "explore" /\ outcome = "error" -> "error"
                     [] OTHER -> "failed"]
             /\ UNCHANGED limit
  /\ UNCHANGED <<batch, request, lead, tree, leadHead, phase, canceled, usage>>

Answer(t) ==
  /\ task[t] = "asking" /\ ~canceled
  /\ task' = [task EXCEPT ![t] = "second"]
  /\ UNCHANGED <<batch, request, lead, tree, leadHead, phase, limit, spent, result, canceled, usage>>

(* The wait for the answer has a limit, and ends with the call. *)
NoAnswer(t) ==
  /\ task[t] = "asking"
  /\ task' = [task EXCEPT ![t] = AfterRun(t)]
  /\ result' = [result EXCEPT ![t].status = "cancelled"]
  /\ UNCHANGED <<batch, request, lead, tree, leadHead, phase, limit, spent, canceled, usage>>

-----------------------------------------------------------------------------
(* The audit of a writer. *)

Fault(t, status) == IF result[t].status = "complete" THEN status ELSE result[t].status
HeadOf(t) == tree[request[t].tree].head

(* auditWriter up to the base of the commit; git may fail at any command. *)
AuditTree(t) ==
  /\ task[t] = "audit"
  /\ \E looked, compared \in BOOLEAN :
       LET w == tree[request[t].tree]
           new == w.head # Head(request[t].base)
           based == w.head.base >= request[t].base
           ok == looked /\ new /\ compared /\ based IN
       /\ result' = [result EXCEPT ![t] =
            [status |-> IF ok /\ ~w.dirty THEN @.status ELSE Fault(t, "failed"), wrote |-> looked /\ new]]
       /\ task' = [task EXCEPT ![t] = IF ok THEN "audit lead" ELSE "done"]
  /\ UNCHANGED <<batch, request, lead, tree, leadHead, phase, limit, spent, canceled, usage>>

(* A commit on top of leadHead merges with it, so a conflict with the lead can *)
(* only come with a lead that has moved, which is stale already.               *)
AuditLead(t) ==
  /\ task[t] = "audit lead"
  /\ \E looked, merged \in BOOLEAN :
       result' = [result EXCEPT ![t].status =
         IF ~looked \/ lead # leadHead THEN Fault(t, "stale")
         ELSE IF ~merged THEN Fault(t, "failed") ELSE @]
  /\ task' = [task EXCEPT ![t] = "done"]
  /\ UNCHANGED <<batch, request, lead, tree, leadHead, phase, limit, spent, canceled, usage>>

(* The tasks of an exploration that were not handed out when it was cancelled *)
(* stay as they are.                                                           *)
AllDone == \A t \in Task : task[t] = "done" \/ (batch.tool = "explore" /\ canceled /\ task[t] = "ready")

(* auditWriterPairs: the commits of two writers must merge. *)
AuditPairs ==
  /\ phase = "running" /\ AllDone
  /\ \E merged \in BOOLEAN :
       result' = [t \in Task |->
         IF result[t].wrote /\ \E u \in Task \ {t} : result[u].wrote
         THEN [result[t] EXCEPT !.status = IF ~merged THEN Fault(t, "failed")
                                           ELSE IF batch.clashes THEN Fault(t, "conflict") ELSE @]
         ELSE result[t]]
  /\ phase' = "report"
  /\ UNCHANGED <<batch, request, lead, tree, leadHead, task, limit, spent, canceled, usage>>

(* Usage.Add over the results: a cost is known when every cost is. *)
Sum(field(_)) == MapThenSumSet(field, Task)
Total == [turns |-> Sum(LAMBDA t : spent[t].turns), cost |-> Sum(LAMBDA t : spent[t].cost),
          known |-> \A t \in Task : spent[t].known, calls |-> Sum(LAMBDA t : spent[t].calls)]

(* Team reports everything; an exploration of which one task ended in an error, *)
(* or that was cancelled before it was handed out, reports nothing.             *)
Failed == batch.tool = "explore" /\ \E t \in Task : result[t].status = "error" \/ task[t] = "ready"
Report ==
  /\ phase = "report"
  /\ phase' = IF Failed THEN "failed" ELSE "reported"
  /\ usage' = IF Failed THEN NoUsage ELSE Total
  /\ UNCHANGED <<batch, request, lead, tree, leadHead, task, limit, spent, result, canceled>>

Done == phase \in {"refused", "failed", "reported"} /\ UNCHANGED vars

Next ==
  \/ Inspect \/ Validate \/ Cancel \/ LeadMoves \/ AuditPairs \/ Report \/ Done
  \/ \E t \in Task : \/ Begin(t) \/ Write(t) \/ RunEnds(t) \/ Answer(t) \/ NoAnswer(t)
                     \/ AuditTree(t) \/ AuditLead(t)
Spec == Init /\ [][Next]_vars

-----------------------------------------------------------------------------
\* Phases of a batch, stages of its tasks, and results with one of the statuses of a report.
TypeOK ==
  /\ phase \in {"new", "validate", "refused", "running", "report", "failed", "reported"}
  /\ task \in [Task -> {"ready", "first", "asking", "second", "audit", "audit lead", "done"}]
  /\ \A t \in Task : result[t].status \in
       {"failed", "complete", "cancelled", "stale", "conflict", "error"}
  /\ lead \in 1..(MaxMoves + 1) /\ leadHead \in 0..lead

(* The runs of a task share one budget: together they stay within its turns,  *)
(* and within its cost but for the turn that reaches it; a role's limit too.  *)
BudgetIsShared ==
  \A t \in Task :
    /\ batch.turns > 0 => spent[t].turns <= batch.turns
    /\ batch.turns = 0 /\ batch.role > 0 => spent[t].turns <= batch.role
    /\ batch.cost > 0 => spent[t].cost <= batch.cost + 1
    /\ spent[t].calls <= 2

(* A writer reported as complete left, in a clean worktree no other writer has, *)
(* a commit of its own on top of the commit the lead was at, and two complete  *)
(* writers left commits that merge.                                            *)
CompleteIsIntegrable ==
  phase = "reported" => \A t \in Writers : result[t].status = "complete" =>
    /\ HeadOf(t) = [base |-> leadHead, own |-> TRUE] /\ ~tree[request[t].tree].dirty
    /\ \A u \in Writers \ {t} : /\ request[u].tree # request[t].tree
                                 /\ result[u].status = "complete" => ~batch.clashes

(* The call answers when no helper runs any more, and a helper that did not   *)
(* run is never reported as complete.                                         *)
BatchIsOver ==
  /\ phase \in {"refused", "failed", "reported"} =>
       \A t \in Task : task[t] \in {"ready", "done"}
  /\ phase = "reported" => \A t \in Task : spent[t].calls > 0
  /\ \A t \in Task : result[t].status = "complete" => spent[t].turns > 0

HelpersSafe == TypeOK /\ BudgetIsShared /\ CompleteIsIntegrable /\ BatchIsOver

(* What the helpers of a batch used is what the parent is told.               *)
UsageIsReported ==
  phase \in {"failed", "reported"} => usage.turns = Total.turns
=============================================================================
