----------------------------- MODULE AgentLoop ------------------------------
(***************************************************************************)
(* The loop of internal/agent that runs one prompt to its final answer:    *)
(* compaction, provider request with retries, tool calls (concurrently),   *)
(* their results, deferred model switches, steering and settling, with the *)
(* session records each of them appends, failed appends, the death of the  *)
(* process at any point and its restart from the session.                  *)
(*                                                                         *)
(* A session is the sequence of its durable records (SessionLog is how it  *)
(* is kept).  A message is its kind and, for an answer or for tool results,*)
(* its tool calls, of which some may be invalid; texts, tokens and costs   *)
(* are not represented: a decision that depends on them may go either way. *)
(* Error results that a load, or the context of a request, makes up for    *)
(* calls without results are kept with the message they are next to:       *)
(* `made` says of an answer that a message of such results follows it, and *)
(* of another message that it begins with such results.                    *)
(* An aborted context shows as the error it makes a hook or the provider   *)
(* return.  The queue of messages is AgentQueue; here a queued message is  *)
(* or is not there.                                                        *)
(***************************************************************************)
EXTENDS Integers, Sequences, FiniteSets, SequencesExt

CONSTANTS Model,         \* the models to switch between
          DefaultModel,  \* the model of the configuration
          NoModel,
          MaxTurns,      \* Config.MaxTurns
          MaxAttempts,   \* RetryConfig.MaxAttempts
          MaxCalls,      \* bound: the tool calls of one answer
          MaxOps,        \* bound: operations started by the user
          MaxFailures,   \* bound: session appends that fail
          MaxCrashes     \* bound: deaths of the process

\* DefaultModel is a member of Model and NoModel is not; MaxTurns and MaxAttempts
\* are positive.

VARIABLES at,             \* where the goroutine that holds Agent.mu is
          run,            \* its local variables
          log,            \* the records of the current session
          other,          \* the records of another session of the directory
          messages,       \* Agent.messages
          model,          \* Agent.model
          pendingSwitch,  \* Agent.pendingSwitch
          answers,        \* the number of answers so far
          ran,            \* the latest calls whose tool was executed
          ops, failures, crashes

conversation == <<log, other, messages>>
models == <<model, pendingSwitch>>
history == <<answers, ran>>
bounds == <<ops, failures, crashes>>
vars == <<at, run, conversation, models, history, bounds>>

-----------------------------------------------------------------------------
(* Messages, records, and the conversation they amount to.                 *)

User == [kind |-> "user", calls |-> <<>>, invalid |-> {}, made |-> <<>>]
Answer(c, bad) == [kind |-> "assistant", calls |-> c, invalid |-> bad, made |-> <<>>]
Results(c) == [kind |-> "results", calls |-> c, invalid |-> {}, made |-> <<>>]

NoCall == <<0, 0>>

Rec(kind, msgs) == [kind |-> kind, messages |-> msgs]

ReplayRecord(m, r) ==
    CASE r.kind = "message"    -> m \o r.messages
      [] r.kind = "compaction" -> r.messages
      [] r.kind = "reset"      -> <<>>

\* One line after another.
Replay(l) ==
    LET after[n \in 0..Len(l)] ==
            IF n = 0 THEN <<>> ELSE ReplayRecord(after[n - 1], l[n])
    IN after[Len(l)]

-----------------------------------------------------------------------------
(* Calls without results.                                                  *)

\* The calls that have results in a message, or in the one made up after it.
ResultsOf(x) == Range(x.made) \cup IF x.kind = "results" THEN Range(x.calls) ELSE {}

\* The calls of c that are not in s, in their order.
Without(c, s) == FlattenSeq([k \in 1..Len(c) |-> IF c[k] \in s THEN <<>> ELSE <<c[k]>>])

\* Whatever results the i-th message needs go in a message of their own.
Alone(m, i) == m[i].made # <<>> \/ i = Len(m) \/ m[i + 1].kind = "assistant"

\* The calls with results in the message that follows the i-th.
NextResults(m, i) == IF Alone(m, i) THEN Range(m[i].made) ELSE ResultsOf(m[i + 1])

\* The calls of an answer with an invalid one that have no results there.
Lacking(m, i) ==
    IF m[i].invalid = {} THEN <<>> ELSE Without(m[i].calls, NextResults(m, i))

\* RepairToolCallResults gives them error results.
Repair(m) ==
    [i \in 1..Len(m) |->
        [m[i] EXCEPT !.made = (IF Alone(m, i) THEN Lacking(m, i) ELSE <<>>)
                              \o (IF i > 1 /\ ~Alone(m, i - 1) THEN Lacking(m, i - 1) ELSE <<>>)
                              \o @]]

LoadWithoutRepair(l) == Replay(l)  \* a defect: invalid calls stay without results

\* What a load of the session yields.
Load(l) == Repair(Replay(l))

\* The calls of the i-th message with no result after it, in their order.
Missing(m, i) ==
    IF m[i].kind # "assistant" THEN <<>>
    ELSE Without(m[i].calls, UNION {ResultsOf(m[j]) : j \in i..Len(m)})

ContextWithoutRepair(m) == m       \* a defect: interrupted calls are sent as they are

\* contextMessages gives them results, in a message right after the answer; and
\* before the request the messages are repaired.
Context(m) ==
    Repair([i \in 1..Len(m) |-> [m[i] EXCEPT !.made = Missing(m, i) \o @]])

\* normalUserPrompt holds of these; compactionSplitLocked picks one of them,
\* never the first message, by the tokens that follow it.
Splits(m) == {i \in 2..Len(m) : m[i].kind = "user" /\ m[i].made = <<>>}

-----------------------------------------------------------------------------
(* The local variables: the turn; the attempt of the request and those of  *)
(* its attempts whose output was forwarded; the tool calls of the answer,  *)
(* those that are invalid, what each is doing and its result; where a      *)
(* compaction splits the messages and whether it is part of a prompt;      *)
(* whether the prompt ends once the usage of the turn is recorded.         *)

NoRun == [turn |-> 0, attempt |-> 0, shown |-> {}, calls |-> <<>>, invalid |-> {},
          tool |-> <<>>, results |-> <<>>, split |-> 0, auto |-> FALSE, failed |-> FALSE]

Goto(s) == at' = s

\* Only the local variables change.
Local == UNCHANGED <<conversation, models, history, bounds>>

\* The record the goroutine is about to append.
Pending ==
    CASE at \in {"prompt", "queued"} -> Rec("message", <<User>>)
      [] at = "answer"               -> Rec("message", <<Answer(run.calls, run.invalid)>>)
      [] at = "results"              -> Rec("message", <<Results(run.results)>>)
      [] at = "compactSave"          ->
             Rec("compaction", <<User>> \o SubSeq(messages, run.split, Len(messages)))
      [] at = "reset"                -> Rec("reset", <<>>)

Appending == {"prompt", "queued", "answer", "results", "compactSave", "reset"}

\* Usage and model_change records leave the conversation alone: they are not
\* kept, but to append one may fail.
AppendingOther == {"switch", "usage", "compactUsage"}

\* A durable append, and then the change in memory.
Save ==
    /\ log' = Append(log, Pending)
    /\ messages' = ReplayRecord(messages, Pending)
    /\ UNCHANGED <<other, history, bounds>>

SaveOther == UNCHANGED <<conversation, history, bounds>>

\* An append that returns an error changes neither (SessionLog).
SaveFails ==
    /\ failures < MaxFailures
    /\ failures' = failures + 1
    /\ UNCHANGED <<conversation, history, ops, crashes>>

-----------------------------------------------------------------------------
(* promptWithStart.                                                        *)

\* The prompt, and a steering message left from an earlier run, if any.
AppendPrompt ==
    /\ at = "prompt"
    /\ Save
    /\ at' \in {"queued", "top"}
    /\ UNCHANGED <<run, models>>

\* A queued message or an automatic follow-up becomes the next user message.
AppendQueued ==
    /\ at = "queued"
    /\ Save
    /\ Goto("top")
    /\ UNCHANGED <<run, models>>

PromptFails ==
    /\ at \in {"prompt", "queued"}
    /\ SaveFails
    /\ Goto("ending")
    /\ UNCHANGED <<run, models>>

\* ErrMaxTurns, before the turn makes any request.
TurnLimit ==
    /\ at = "top"
    /\ run.turn >= MaxTurns
    /\ Goto("ending")
    /\ UNCHANGED run /\ Local

\* before_agent_start or context fails or stops the run.
HookStops ==
    /\ at = "top"
    /\ run.turn < MaxTurns
    /\ Goto("ending")
    /\ UNCHANGED run /\ Local

\* shouldAutoCompactLocked.
AutoCompact ==
    /\ at = "top"
    /\ run.turn < MaxTurns
    /\ \E i \in Splits(messages) :
          run' = [run EXCEPT !.split = i, !.auto = TRUE, !.attempt = 1]
    /\ at' \in {"summarize", "compactSave"}     \* a hook may supply the summary
    /\ Local

SendRequest ==
    /\ at = "top"
    /\ run.turn < MaxTurns
    /\ Goto("stream")
    /\ run' = [run EXCEPT !.attempt = 1]
    /\ Local

\* A delta of the answer or of its thinking is forwarded.
StreamDelta ==
    /\ at = "stream"
    /\ run' = [run EXCEPT !.shown = @ \cup {run.attempt}]
    /\ UNCHANGED at /\ Local

StreamRetryForever ==              \* a defect: the attempts are not counted
    /\ at \in {"stream", "summarize"}
    /\ at = "stream" => run.attempt \notin run.shown
    /\ run' = [run EXCEPT !.attempt = IF @ < MaxAttempts THEN @ + 1 ELSE 1]
    /\ UNCHANGED at /\ Local

\* streamWithRetryMode: a transient error is retried unless output was shown.
StreamRetry ==
    /\ at \in {"stream", "summarize"}
    /\ at = "stream" => run.attempt \notin run.shown
    /\ run.attempt < MaxAttempts
    /\ run' = [run EXCEPT !.attempt = @ + 1]
    /\ UNCHANGED at /\ Local

StreamFails ==
    /\ at \in {"stream", "summarize"}
    /\ IF at = "stream" \/ run.auto
       THEN Goto("ending") /\ UNCHANGED run
       ELSE Goto("idle") /\ run' = NoRun
    /\ Local

\* The answer arrives, with its tool calls; the arguments of some are no JSON.
StreamDone ==
    /\ at = "stream"
    /\ answers' = answers + 1
    /\ \E n \in 0..MaxCalls : \E bad \in SUBSET (1..n) :
          run' = [run EXCEPT !.attempt = 0, !.shown = {},
                             !.calls = [i \in 1..n |-> <<answers + 1, i>>],
                             !.invalid = {<<answers + 1, i>> : i \in bad},
                             !.tool = [i \in 1..n |-> "ready"],
                             !.results = [i \in 1..n |-> NoCall]]
    /\ Goto("answer")
    /\ UNCHANGED <<conversation, models, ran, bounds>>

AppendAnswer ==
    /\ at = "answer"
    /\ Save
    /\ Goto(IF run.calls = <<>> THEN "usage" ELSE "tools")
    /\ UNCHANGED <<run, models>>

AnswerFailsYetRuns ==              \* a defect: the tools run all the same
    /\ at = "answer"
    /\ SaveFails
    /\ Goto(IF run.calls = <<>> THEN "ending" ELSE "tools")
    /\ UNCHANGED <<run, models>>

AnswerFails ==
    /\ at = "answer"
    /\ SaveFails
    /\ Goto("ending")
    /\ UNCHANGED <<run, models>>

-----------------------------------------------------------------------------
(* Tools: one goroutine for each call (executeTools, executeTool).         *)

ToolRuns(i) ==
    /\ at = "tools"
    /\ run.tool[i] = "ready" /\ run.calls[i] \notin run.invalid
    /\ run' = [run EXCEPT !.tool[i] = "running"]
    /\ ran' = {c \in ran : c[1] = run.calls[i][1]} \cup {run.calls[i]}
    /\ UNCHANGED <<at, conversation, models, answers, bounds>>

\* results[i] of executeTools.
Store(i) == [run.results EXCEPT ![i] = run.calls[i]]

\* An invalid call, a hook that fails or denies the call, an unknown tool;
\* or the tool returns, with or without an error.
ToolReturns(i) ==
    /\ at = "tools"
    /\ run.tool[i] \in {"ready", "running"}
    /\ run' = [run EXCEPT !.tool[i] = "done", !.results = Store(i)]
    /\ UNCHANGED at /\ Local

\* The switch_model tool: QueueProviderSwitch while a prompt is processed.
QueueProviderSwitch(i) ==
    /\ at = "tools"
    /\ run.tool[i] = "running"
    /\ \E m \in Model : pendingSwitch' = m
    /\ UNCHANGED <<at, run, conversation, model, history, bounds>>

\* WaitGroup.Wait: every call has returned.
ToolsDone ==
    /\ at = "tools"
    /\ \A i \in 1..Len(run.calls) : run.tool[i] = "done"
    /\ Goto("results")
    /\ UNCHANGED run /\ Local

\* All results are appended as one message.
AppendResults ==
    /\ at = "results"
    /\ Save
    /\ Goto(IF pendingSwitch = NoModel THEN "usage" ELSE "switch")
    /\ UNCHANGED <<run, models>>

ResultsFail ==
    /\ at = "results"
    /\ SaveFails
    /\ Goto("usage")
    /\ run' = [run EXCEPT !.failed = TRUE]
    /\ UNCHANGED models

\* applyPendingSwitchLocked.
ApplySwitch ==
    /\ at = "switch"
    /\ SaveOther
    /\ model' = pendingSwitch /\ pendingSwitch' = NoModel
    /\ Goto("usage")
    /\ UNCHANGED run

SwitchFails ==
    /\ at = "switch"
    /\ SaveFails
    /\ pendingSwitch' = NoModel
    /\ Goto("usage")
    /\ run' = [run EXCEPT !.failed = TRUE]
    /\ UNCHANGED model

\* The usage of the turn; the cost limit may end the run here.
AppendTurnUsage ==
    /\ at = "usage"
    /\ SaveOther
    /\ at' \in IF run.failed THEN {"ending"} ELSE {"boundary", "ending"}
    /\ UNCHANGED <<run, models>>

UsageFails ==
    /\ at = "usage"
    /\ SaveFails
    /\ Goto("ending")
    /\ UNCHANGED <<run, models>>

\* A steering message is taken, or the tool results go to the model, or the
\* run is about to settle.
TurnBoundary ==
    /\ at = "boundary"
    /\ at' \in {"queued", IF run.calls # <<>> THEN "top" ELSE "settle"}
    /\ run' = [NoRun EXCEPT !.turn = run.turn + 1]
    /\ Local

\* agent_end fails, or settleOrTakeQueuedOr finds something or nothing.
Settle ==
    /\ at = "settle"
    /\ at' \in {"queued", "ending"}
    /\ UNCHANGED run /\ Local

\* run_end, AbortPendingTurn, endProcessing, Unlock.
EndRun ==
    /\ at = "ending"
    /\ Goto("idle")
    /\ run' = NoRun
    /\ Local

-----------------------------------------------------------------------------
(* Compaction (compactLocked), in a prompt or by itself.                   *)

SummaryDone ==
    /\ at = "summarize"
    /\ Goto("compactUsage")
    /\ UNCHANGED run /\ Local

\* Compaction is over without an effect.
CompactionEnds ==
    IF run.auto THEN Goto("ending") /\ UNCHANGED run ELSE Goto("idle") /\ run' = NoRun

\* An empty summary is an error.
AppendSummaryUsage ==
    /\ at = "compactUsage"
    /\ SaveOther
    /\ \/ Goto("compactSave") /\ UNCHANGED run
       \/ CompactionEnds
    /\ UNCHANGED models

\* applyCompactionLocked.  A prompt goes on to its request.
AppendCompaction ==
    /\ at = "compactSave"
    /\ Save
    /\ IF run.auto
       THEN Goto("stream") /\ run' = [NoRun EXCEPT !.turn = run.turn, !.attempt = 1]
       ELSE Goto("idle") /\ run' = NoRun
    /\ UNCHANGED models

CompactionFailsYetApplies ==       \* a defect: memory is changed first
    /\ at = "compactSave"
    /\ failures < MaxFailures
    /\ failures' = failures + 1
    /\ messages' = ReplayRecord(messages, Pending)
    /\ CompactionEnds
    /\ UNCHANGED <<log, other, models, history, ops, crashes>>

CompactionFails ==
    /\ at \in {"compactUsage", "compactSave"}
    /\ SaveFails
    /\ CompactionEnds
    /\ UNCHANGED models

-----------------------------------------------------------------------------
(* Operations that take Agent.mu while no prompt holds it.                 *)

Operation ==
    /\ at = "idle"
    /\ ops < MaxOps
    /\ ops' = ops + 1
    /\ UNCHANGED <<history, failures, crashes>>

\* promptWithStart; the context may be done already.
Prompt ==
    /\ Operation
    /\ at' \in {"prompt", "ending"}
    /\ UNCHANGED <<run, conversation, models>>

Compact ==
    /\ Operation
    /\ \E i \in Splits(messages) : run' = [NoRun EXCEPT !.split = i, !.attempt = 1]
    /\ at' \in {"summarize", "compactSave"}
    /\ UNCHANGED <<conversation, models>>

\* QueueProviderSwitch without a prompt.  A failed append changes nothing.
SwitchProvider ==
    /\ Operation
    /\ \E m \in Model : model' = m
    /\ UNCHANGED <<at, run, conversation, pendingSwitch>>

\* ResetConversation of the current session.
ResetConversation ==
    /\ Operation
    /\ Goto("reset")
    /\ UNCHANGED <<run, conversation, models>>

AppendReset ==
    /\ at = "reset"
    /\ Save
    /\ Goto("idle")
    /\ UNCHANGED <<run, models>>

ResetFails ==
    /\ at = "reset"
    /\ SaveFails
    /\ Goto("idle")
    /\ UNCHANGED <<run, models>>

\* ResetConversation with a new session.
NewConversation ==
    /\ Operation
    /\ other' = log /\ log' = <<>> /\ messages' = <<>>
    /\ UNCHANGED <<at, run, models>>

\* ResumeSession: the session loaded from its file is swapped in.
ResumeSession ==
    /\ Operation
    /\ other' = log /\ log' = other /\ messages' = Load(other)
    /\ UNCHANGED <<at, run, models>>

\* The user asks for nothing more.
Quiet == at = "idle" /\ ops = MaxOps /\ UNCHANGED vars

-----------------------------------------------------------------------------
(* The process dies, maybe after an append became durable, and is started  *)
(* again with the messages of the loaded session (New).                    *)

Crash ==
    /\ at # "down"
    /\ crashes < MaxCrashes
    /\ crashes' = crashes + 1
    /\ Goto("down")
    /\ \/ UNCHANGED log
       \/ at \in Appending /\ log' = Append(log, Pending)
    /\ run' = NoRun
    /\ messages' = <<>> /\ model' = DefaultModel /\ pendingSwitch' = NoModel
    /\ UNCHANGED <<other, history, ops, failures>>

Start ==
    /\ at = "down"
    /\ Goto("idle")
    /\ messages' = Load(log)
    /\ UNCHANGED <<run, log, other, models, history, bounds>>

-----------------------------------------------------------------------------
Init ==
    /\ at = "down"
    /\ run = NoRun
    /\ log = <<>> /\ other = <<>> /\ messages = <<>>
    /\ model = DefaultModel /\ pendingSwitch = NoModel
    /\ answers = 0 /\ ran = {}
    /\ ops = 0 /\ failures = 0 /\ crashes = 0

PromptStep ==
    \/ AppendPrompt \/ AppendQueued \/ PromptFails
    \/ TurnLimit \/ HookStops \/ AutoCompact \/ SendRequest
    \/ StreamDelta \/ StreamRetry \/ StreamFails \/ StreamDone
    \/ AppendAnswer \/ AnswerFails
    \/ ToolsDone \/ AppendResults \/ ResultsFail \/ ApplySwitch \/ SwitchFails
    \/ AppendTurnUsage \/ UsageFails \/ TurnBoundary \/ Settle \/ EndRun

CompactStep == SummaryDone \/ AppendSummaryUsage \/ AppendCompaction \/ CompactionFails

ResetStep == AppendReset \/ ResetFails

ToolStep(i) == ToolRuns(i) \/ ToolReturns(i) \/ QueueProviderSwitch(i)

IdleStep ==
    \/ Prompt \/ Compact \/ SwitchProvider \/ ResetConversation
    \/ NewConversation \/ ResumeSession \/ Quiet

Next ==
    \/ PromptStep \/ CompactStep \/ ResetStep \/ IdleStep
    \/ \E i \in 1..Len(run.calls) : ToolStep(i)
    \/ Crash \/ Start

\* The goroutine that holds the lock is scheduled, a request ends (the
\* provider's or the idle timeout), and a tool call returns.
AToolReturns == \E i \in 1..Len(run.calls) : ToolReturns(i)
Holds == PromptStep \/ CompactStep \/ ResetStep
Fairness == WF_vars(Holds) /\ WF_vars(AToolReturns)

Spec == Init /\ [][Next]_vars /\ Fairness

-----------------------------------------------------------------------------
(* Properties.                                                             *)

Call == Nat \X Nat

Message == [kind : {"user", "assistant", "results"}, calls : Seq(Call),
            invalid : SUBSET Call, made : Seq(Call)]

LogRecord == [kind : {"message", "compaction", "reset"}, messages : Seq(Message)]

Run == [turn : 0..MaxTurns, attempt : 0..MaxAttempts, shown : SUBSET (1..MaxAttempts),
        calls : Seq(Call), invalid : SUBSET Call,
        tool : Seq({"ready", "running", "done"}), results : Seq(Call),
        split : Nat, auto : BOOLEAN, failed : BOOLEAN]

\* The types of the variables.
TypeOK ==
    /\ at \in Appending \cup AppendingOther \cup
              {"idle", "top", "summarize", "stream", "tools", "boundary", "settle",
               "ending", "down"}
    /\ run \in Run
    /\ Len(run.tool) = Len(run.calls) /\ Len(run.results) = Len(run.calls)
    /\ {log, other} \subseteq Seq(LogRecord)
    /\ messages \in Seq(Message)
    /\ model \in Model /\ pendingSwitch \in Model \cup {NoModel}
    /\ ran \subseteq Call
    /\ {answers, ops, failures, crashes} \subseteq Nat

\* The message after an answer with tool calls has the results of exactly these
\* calls, and there are no other results: what providers accept.
WellFormed(m) ==
    /\ \A i \in 1..Len(m) :
          m[i].kind = "assistant" => NextResults(m, i) = Range(m[i].calls)
    /\ \A i \in 1..Len(m) :
          m[i].kind = "results" \/ (m[i].kind = "user" /\ m[i].made # <<>>) =>
              i > 1 /\ m[i - 1].kind = "assistant" /\ m[i - 1].made = <<>>

\* Whatever appends failed, wherever the process died between an answer and
\* its results, and wherever compactions split the conversation, the messages
\* of a request are a transcript that providers accept.
RequestIsValid == at = "stream" => WellFormed(Context(messages))

\* The messages without the results that were made up.
Written(m) == [i \in 1..Len(m) |-> [m[i] EXCEPT !.made = <<>>]]

\* While the process lives its messages are those a restart would load: none
\* is in memory only, and no durable one is missing; only what loads make up may
\* differ, and a load leaves no call of an answer with an invalid one without a
\* result in the next message.
MemoryIsDurable ==
    at # "down" =>
        LET m == Load(log)
        IN Written(messages) = Written(m) /\ \A i \in 1..Len(m) : Lacking(m, i) = <<>>

\* A tool starts only for a call of a durable answer, and never twice for the
\* same call: neither a retry, nor a restart, nor a resumed session replays it.
RunsOnceFromDurableAnswer ==
    \A i \in 1..Len(run.calls) :
        ToolRuns(i) =>
           /\ run.calls[i] \notin ran /\ \A c \in ran : c[1] <= run.calls[i][1]
           /\ \E k \in 1..Len(log) : Answer(run.calls, run.invalid) \in Range(log[k].messages)
ToolsRunOnceFromDurableAnswers == [][RunsOnceFromDurableAnswer]_vars

\* In every session's conversation the results of an answer come in the order
\* of its calls, whatever order the concurrent tools returned in.
ResultsInCallOrder ==
    \A l \in {log, other} :
        LET m == Replay(l)
        IN \A i \in 1..Len(m) :
              m[i].kind = "results" => i > 1 /\ m[i - 1] = Answer(m[i].calls, m[i - 1].invalid)

\* A prompt, and a compaction, that started comes to an end.
AtRest == at \in {"idle", "down"}
RunEnds == ~AtRest ~> AtRest
=============================================================================
