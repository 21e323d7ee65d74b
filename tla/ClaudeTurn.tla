---------------------------- MODULE ClaudeTurn -----------------------------
(***************************************************************************)
(* The claude-agent provider: one prompt of the agent is served by one     *)
(* claude process that stays alive across the tool calls of the prompt.    *)
(* Source: src/internal/provider/claudeagent/claudeagent.go.               *)
(*                                                                         *)
(* Three actors: the agent, which calls Stream and executes the tools in   *)
(* between; the goroutine that reads the process's output and answers its  *)
(* control requests; and the process itself, which announces every tool    *)
(* call with a hook and issues the calls in the order of the hooks.        *)
(*                                                                         *)
(* A call is a number; 0 is the result of a call that was refused.  Texts  *)
(* and thinking are left out, and so is what a killed process had written: *)
(* only the abandoned run sees it.                                         *)
(***************************************************************************)
EXTENDS Integers, SequencesExt, FiniteSets

CONSTANTS EventBuffer,  \* capacity of the events channel (64 in the code)
          MaxProcesses, \* processes started: bound on the prompts
          MaxSteps,     \* answers of one process
          MaxCalls,     \* calls in one answer
          MaxStale,     \* calls of tools that are no longer registered
          MaxSteers     \* user messages that join the conversation mid-turn

VARIABLES caller,    \* the agent: "idle", "starting", "streaming", "tools"
          alive,     \* the process runs
          childpc,   \* the process: "off", "booting", "thinking", "calling", "finished"
          asked,     \* calls of its current answer, in order
          hooked,    \* how many of them it has announced
          called,    \* how many of them it has issued
          replies,   \* <<call, result>> it has received
          out,       \* its output not yet read
          events,    \* channel from the reader to readStep
          over,      \* the reader has finished: done holds the error, events is closed
          toolQueue, \* announced calls
          pending,   \* <<announced call, issued call>> waiting for a result
          results,   \* results that came before their call was issued
          content,   \* calls of the answer readStep is assembling
          executed,  \* calls whose result is in the conversation
          stale,     \* calls of tools that are no longer registered
          issued,    \* counter of call numbers
          unheard,   \* user messages of the conversation the process was not told
          steers, processes, steps,
          spent, accounted, reported, \* usage: the process's, the run's, the responses'
          failed     \* the last Stream returned an error

child == <<alive, childpc, asked, hooked, called, steps, spent, issued, stale>>
bridge == <<toolQueue, pending, results>>
bookkeeping == <<steers, processes>>
vars == <<caller, child, replies, out, events, over, bridge, content, executed,
          unheard, bookkeeping, accounted, reported, failed>>

Init ==
  /\ caller = "idle" /\ alive = FALSE /\ childpc = "off" /\ over = FALSE /\ failed = FALSE
  /\ asked = <<>> /\ out = <<>> /\ events = <<>> /\ toolQueue = <<>> /\ content = {}
  /\ hooked = 0 /\ called = 0 /\ issued = 0 /\ unheard = 0
  /\ steers = 0 /\ processes = 0 /\ steps = 0
  /\ spent = 0 /\ accounted = 0 /\ reported = 0
  /\ replies = {} /\ pending = {} /\ results = {} /\ executed = {} /\ stale = {}

----------------------------------------------------------------------------
(* The agent and Stream.                                                   *)

\* start: a new process is told the whole conversation.
Start ==
  /\ caller = "idle" /\ processes < MaxProcesses
  /\ caller' = "starting"
  /\ processes' = processes + 1
  /\ alive' = TRUE /\ childpc' = "booting" /\ asked' = <<>>
  /\ hooked' = 0 /\ called' = 0 /\ steps' = 0 /\ spent' = 0
  /\ out' = <<>> /\ events' = <<>> /\ over' = FALSE
  /\ toolQueue' = <<>> /\ pending' = {} /\ results' = {} /\ content' = {}
  /\ accounted' = 0 /\ reported' = 0 /\ failed' = FALSE
  /\ UNCHANGED <<issued, stale, replies, executed, unheard, steers>>

\* stop: input closed, process killed, run forgotten.
Stopped ==
  /\ alive' = FALSE /\ childpc' = "off"
  /\ out' = <<>> /\ events' = <<>> /\ over' = FALSE
  /\ toolQueue' = <<>> /\ pending' = {} /\ results' = {} /\ content' = {}
  /\ asked' = <<>> /\ hooked' = 0 /\ called' = 0
  /\ UNCHANGED <<steps, spent, issued, stale, replies, executed, unheard,
                 bookkeeping, accounted, reported>>

\* initialize succeeds and the prompt is written, or the process has died, or
\* the caller cancels: an error closes the run.
Initialized ==
  /\ caller = "starting" /\ childpc = "thinking"
  /\ caller' = "streaming"
  /\ unheard' = 0
  /\ UNCHANGED <<child, replies, out, events, over, bridge, content, executed,
                 bookkeeping, accounted, reported, failed>>

\* Stream returns an error: cancelled, an error result, or the events ended.
StreamFails ==
  /\ caller \in {"starting", "streaming"}
  /\ caller' = "idle" /\ failed' = TRUE
  /\ Stopped

ProcessGone ==
  /\ caller \in {"starting", "streaming"}
  /\ over /\ events = <<>>
  /\ caller' = "idle" /\ failed' = TRUE
  /\ Stopped

\* readStep: blocks of an answer are collected; a tool that is not registered
\* is skipped.
ReadAnswer ==
  /\ caller = "streaming" /\ events # <<>> /\ Head(events).type = "assistant"
  /\ content' = content \union (Range(Head(events).calls) \ stale)
  /\ events' = Tail(events)
  /\ UNCHANGED <<caller, child, replies, out, over, bridge, executed, unheard,
                 bookkeeping, accounted, reported, failed>>

\* message_stop: with calls in it the answer is returned, and the process
\* waits; without, readStep goes on.
ReadStop ==
  /\ caller = "streaming" /\ events # <<>> /\ Head(events).type = "stop"
  /\ events' = Tail(events)
  /\ IF content = {} THEN UNCHANGED <<caller, accounted, reported>>
     ELSE /\ caller' = "tools"
          /\ accounted' = accounted + 1
          /\ reported' = reported + 1
  /\ UNCHANGED <<child, replies, out, over, bridge, content, executed, unheard,
                 bookkeeping, failed>>

\* Mutant: the usage of the steps already returned is reported again.
TotalUsage == reported + spent

\* result: what is left of the process's usage belongs to the last response.
FinalUsage == reported + (IF spent > accounted THEN spent - accounted ELSE 0)

ReadResult ==
  /\ caller = "streaming" /\ events # <<>> /\ Head(events).type = "result"
  /\ caller' = "idle"
  /\ reported' = FinalUsage
  /\ alive' = FALSE /\ childpc' = "finished"
  /\ out' = <<>> /\ events' = <<>> /\ over' = FALSE
  /\ toolQueue' = <<>> /\ pending' = {} /\ results' = {} /\ content' = {}
  /\ UNCHANGED <<asked, hooked, called, steps, spent, issued, stale, replies, executed,
                 unheard, bookkeeping, accounted, failed>>

\* The agent executes the calls, appends the results and perhaps a steering
\* message, and calls Stream again: resolveResults answers the calls that
\* wait, keeps the other results, and passes over everything else.
Conversation == executed \union content

\* Mutant: a result whose call was not issued yet is forgotten.
AnsweredOnly(done) ==
  /\ replies' = replies \union {<<p[2], p[1]>> : p \in {q \in pending : q[1] \in done}}
  /\ pending' = {p \in pending : p[1] \notin done}
  /\ UNCHANGED results

Resolved(done) ==
  /\ replies' = replies \union {<<p[2], p[1]>> : p \in {q \in pending : q[1] \in done}}
  /\ results' = results \union (done \ {p[1] : p \in pending})
  /\ pending' = {p \in pending : p[1] \notin done}

NextStream ==
  /\ caller = "tools"
  /\ caller' = "streaming"
  /\ executed' = Conversation
  /\ Resolved(Conversation)
  /\ content' = {}
  /\ \/ UNCHANGED <<unheard, steers>>
     \/ steers < MaxSteers /\ steers' = steers + 1 /\ unheard' = unheard + 1
  /\ UNCHANGED <<child, out, events, over, toolQueue, processes, accounted, reported, failed>>

\* The prompt ends while the process waits: AbortPendingTurn.
AbortPendingTurn ==
  /\ caller = "tools"
  /\ caller' = "idle" /\ failed' = TRUE
  /\ Stopped

----------------------------------------------------------------------------
(* The reading goroutine.                                                  *)

\* Messages that are not control requests go to the channel, which may be full.
ReadEvent ==
  /\ out # <<>> /\ Head(out).type \in {"assistant", "stop", "result"}
  /\ Len(events) < EventBuffer
  /\ events' = Append(events, Head(out))
  /\ out' = Tail(out)
  /\ UNCHANGED <<caller, child, replies, over, bridge, content, executed, unheard,
                 bookkeeping, accounted, reported, failed>>

\* PreToolUse hook.
ReadHook ==
  /\ out # <<>> /\ Head(out).type = "hook"
  /\ toolQueue' = Append(toolQueue, Head(out).call)
  /\ out' = Tail(out)
  /\ UNCHANGED <<caller, child, replies, events, over, pending, results, content,
                 executed, unheard, bookkeeping, accounted, reported, failed>>

\* tools/call: refused before the queue is looked at when the tool is not
\* registered; else it takes the oldest announced call, which must have the
\* same tool name, and is answered at once if that call's result is known.
ReadCall ==
  /\ out # <<>> /\ Head(out).type = "call"
  /\ out' = Tail(out)
  /\ LET c == Head(out).call
         tool == Head(toolQueue)
         reply(r) == replies' = replies \union {<<c, r>>}
     IN \/ /\ c \in stale \/ toolQueue = <<>>
           /\ reply(0)
           /\ UNCHANGED bridge
        \/ /\ c \notin stale /\ toolQueue # <<>>
           /\ toolQueue' = Tail(toolQueue)
           /\ \/ tool \in stale /\ reply(0) /\ UNCHANGED <<pending, results>>
              \/ /\ tool \notin stale /\ tool \in results
                 /\ reply(tool)
                 /\ results' = results \ {tool}
                 /\ UNCHANGED pending
              \/ /\ tool \notin stale /\ tool \notin results
                 /\ pending' = pending \union {<<tool, c>>}
                 /\ UNCHANGED <<replies, results>>
  /\ UNCHANGED <<caller, child, events, over, content, executed, unheard, bookkeeping,
                 accounted, reported, failed>>

\* End of output: the process is reaped, done gets its error, events closes.
ReaderEnds ==
  /\ childpc # "off" /\ ~alive /\ out = <<>> /\ ~over /\ caller # "idle"
  /\ over' = TRUE
  /\ UNCHANGED <<caller, child, replies, out, events, bridge, content, executed, unheard,
                 bookkeeping, accounted, reported, failed>>

----------------------------------------------------------------------------
(* The claude process.                                                     *)

Says(messages) == out' = out \o messages

ChildBoots ==
  /\ alive /\ childpc = "booting"
  /\ childpc' = "thinking"
  /\ UNCHANGED <<caller, alive, asked, hooked, called, steps, spent, issued, stale, replies,
                 out, events, over, bridge, content, executed, unheard, bookkeeping,
                 accounted, reported, failed>>

\* An answer with calls, and its message_stop.
ChildAnswers ==
  /\ alive /\ childpc = "thinking" /\ caller # "starting" /\ steps < MaxSteps
  /\ \E n \in 1..MaxCalls :
       LET new == [i \in 1..n |-> issued + i]
       IN /\ asked' = new
          /\ \E s \in SUBSET Range(new) :
               Cardinality(stale \union s) <= MaxStale /\ stale' = stale \union s
          /\ issued' = issued + n
          /\ Says(<<[type |-> "assistant", calls |-> new], [type |-> "stop"]>>)
  /\ steps' = steps + 1 /\ spent' = spent + 1
  /\ hooked' = 0 /\ called' = 0
  /\ childpc' = "calling"
  /\ UNCHANGED <<caller, alive, replies, events, over, bridge, content, executed, unheard,
                 bookkeeping, accounted, reported, failed>>

ChildHooks ==
  /\ alive /\ childpc = "calling" /\ hooked < Len(asked)
  /\ Says(<<[type |-> "hook", call |-> asked[hooked + 1]]>>)
  /\ hooked' = hooked + 1
  /\ UNCHANGED <<caller, alive, childpc, asked, called, steps, spent, issued, stale, replies,
                 events, over, bridge, content, executed, unheard, bookkeeping,
                 accounted, reported, failed>>

ChildCalls ==
  /\ alive /\ childpc = "calling" /\ called < hooked
  /\ Says(<<[type |-> "call", call |-> asked[called + 1]]>>)
  /\ called' = called + 1
  /\ UNCHANGED <<caller, alive, childpc, asked, hooked, steps, spent, issued, stale, replies,
                 events, over, bridge, content, executed, unheard, bookkeeping,
                 accounted, reported, failed>>

ChildGoesOn ==
  /\ alive /\ childpc = "calling"
  /\ \A c \in Range(asked) : \E r \in replies : r[1] = c
  /\ childpc' = "thinking"
  /\ UNCHANGED <<caller, alive, asked, hooked, called, steps, spent, issued, stale, replies,
                 out, events, over, bridge, content, executed, unheard, bookkeeping,
                 accounted, reported, failed>>

\* The last answer, which has no calls, and the result of the whole turn.
ChildFinishes ==
  /\ alive /\ childpc = "thinking" /\ caller # "starting"
  /\ Says(<<[type |-> "assistant", calls |-> <<>>], [type |-> "stop"], [type |-> "result"]>>)
  /\ spent' = spent + 1
  /\ childpc' = "finished"
  /\ UNCHANGED <<caller, alive, asked, hooked, called, steps, issued, stale, replies, events,
                 over, bridge, content, executed, unheard, bookkeeping,
                 accounted, reported, failed>>

ChildDies ==
  /\ alive
  /\ alive' = FALSE
  /\ UNCHANGED <<caller, childpc, asked, hooked, called, steps, spent, issued, stale, replies,
                 out, events, over, bridge, content, executed, unheard, bookkeeping,
                 accounted, reported, failed>>

Agent == Start \/ Initialized \/ StreamFails \/ ProcessGone \/ ReadAnswer \/ ReadStop
         \/ ReadResult \/ NextStream \/ AbortPendingTurn
Reader == ReadEvent \/ ReadHook \/ ReadCall \/ ReaderEnds
Child == ChildBoots \/ ChildAnswers \/ ChildHooks \/ ChildCalls \/ ChildGoesOn
         \/ ChildFinishes \/ ChildDies

\* Nobody sends another prompt.
Rest == caller = "idle" /\ UNCHANGED vars

Next == Agent \/ Reader \/ Child \/ Rest

Spec == Init /\ [][Next]_vars

\* The goroutines run; the agent takes what it is sent and its tools end; a
\* live process answers what it was asked.
Reads == ProcessGone \/ ReadAnswer \/ ReadStop \/ ReadResult \/ Initialized
Works == ChildBoots \/ ChildHooks \/ ChildCalls \/ ChildGoesOn \/ ChildAnswers \/ ChildFinishes

FairSpec ==
  Spec /\ WF_vars(Reader) /\ WF_vars(Reads) /\ WF_vars(NextStream) /\ WF_vars(Works)

----------------------------------------------------------------------------
(* Properties                                                              *)

\* The states of the process and of its caller; a hook comes for what was asked, a call for what was hooked.
TypeOK ==
  /\ caller \in {"idle", "starting", "streaming", "tools"}
  /\ Len(events) <= EventBuffer
  /\ called <= hooked /\ hooked <= Len(asked)
  /\ executed \subseteq 1..issued /\ stale \subseteq 1..issued

\* Every call the process issued gets the result of that very call, once, and
\* only after the agent has executed it, whether the result or the call came
\* first (handleMCP, resolveResults).
OwnResult ==
  /\ \A r \in replies : r[1] \notin stale => r[2] = r[1] /\ r[2] \in executed
  /\ \A r, s \in replies : r[1] = s[1] => r = s

\* When a turn completes, the usage of its responses adds up to what the
\* process reports for the turn (readStep's accounting).
UsageAddsUp == caller = "idle" /\ processes > 0 /\ ~failed => reported = spent

\* An ended prompt leaves no process that could consume the next one, and a
\* process that waits for results has them coming (AbortPendingTurn).
NoOrphan ==
  /\ caller = "idle" => ~alive /\ pending = {}
  /\ caller = "streaming" => \A p \in pending : p[1] \notin executed

ClaudeSafe == TypeOK /\ OwnResult /\ UsageAddsUp /\ NoOrphan

\* A request ends: neither the process nor the agent waits for the other for
\* ever, in whatever order hooks, calls and results meet.
Streaming == caller = "streaming"
ClaudeEnds == Streaming ~> ~Streaming

\* A response is to the conversation of its request, user messages that joined
\* between two of its turns included: docs/architecture.md has steering
\* redirect the next model turn.
SteeringIsHeard ==
  [][caller = "streaming" /\ caller' # "streaming" /\ ~failed' => unheard = 0]_vars

=============================================================================
