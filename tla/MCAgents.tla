------------------------------ MODULE MCAgents ------------------------------
(***************************************************************************)
(* The agent, its queue and front end, and the processes notch runs: safety. *)
(* Every behaviour is of one part: the initial state says which. The parts *)
(* share no state; they use the variables s1, s2, ... in turn, and those a *)
(* part does not need stay 0.                                              *)
(* A part with proofs instantiates their module, which extends that of the *)
(* component: MCAgentsProofs uses its theorems.  Agents has three parts,    *)
(* Processes four, and Prompts is the loop with other bounds.              *)
(***************************************************************************)
EXTENDS Integers, Sequences, TLC

CONSTANTS a, b, c1, d1, d2, m1, Unset

VARIABLES part,  \* the part this behaviour is of
          s1, s2, s3, s4, s5, s6, s7, s8, s9, s10, s11, s12, s13, s14, s15, s16,
          s17, s18, s19, s20, s21, s22, s23, s24, s25, s26, s27

vars == <<part, s1, s2, s3, s4, s5, s6, s7, s8, s9, s10, s11, s12, s13, s14, s15,
         s16, s17, s18, s19, s20, s21, s22, s23, s24, s25, s26, s27>>

\* The two sides of a connection number their calls apart.
ASSUME IdsDiffer == b \notin {a, c1}

\* The messages of an RPC client are no wakes.
ASSUME WakesDiffer == "message" \notin {d1, d2}

\* The calls of an MCP client over HTTP and over a pipe are not the same, nor are
\* they the pings of the server.
ASSUME CallsDiffer == b \notin {d1, d2} /\ {d1, d2} \intersect {"ping", "pong"} = {}

Agents ==
  INSTANCE AgentProofs WITH
    at <- s1, run <- s2, log <- s3, other <- s4, messages <- s5, model <- s6,
      pendingSwitch <- s7, answers <- s8, ran <- s9, ops <- s10, failures <- s11,
      crashes <- s12, Model <- {m1}, DefaultModel <- m1, NoModel <- Unset,
      MaxTurns <- 2, MaxAttempts <- 2, MaxCalls <- 2, MaxOps <- 1, MaxFailures <- 1,
      MaxCrashes <- 1,
    processing <- s1, steering <- s2, followUps <- s3, queueSequence <- s4,
      prompter <- s5, held <- s6, offered <- s7, calls <- s8, turn <- s9,
      prompts <- s10, sending <- s11, snapshot <- s12, shown <- s13, said <- s14,
      lost <- s15, Sender <- {d1, d2}, MaxQueued <- 3, MaxRuns <- 2,
      MaxRequests <- 3,
    reader <- s1, active <- s2, settling <- s3, closed <- s4, pending <- s5,
      stopped <- s6, command <- s7, cancel <- s8, runs <- s9, commands <- s10,
      agent <- s11, taken <- s12, dropped <- s13, questions <- s14, seen <- s15,
      budget <- s16, Wake <- {d1, d2}, Input <- {b}, MaxPrompts <- 1,
      MaxCommands <- 1, MaxFails <- 1

Prompts ==
  INSTANCE AgentProofs WITH
    at <- s1, run <- s2, log <- s3, other <- s4, messages <- s5, model <- s6,
      pendingSwitch <- s7, answers <- s8, ran <- s9, ops <- s10, failures <- s11,
      crashes <- s12, Model <- {m1}, DefaultModel <- m1, NoModel <- Unset,
      MaxTurns <- 1, MaxAttempts <- 1, MaxCalls <- 1, MaxOps <- 3, MaxFailures <- 0,
      MaxCrashes <- 1, processing <- s1, steering <- s2, followUps <- s3,
      queueSequence <- s4, prompter <- s5, held <- s6, offered <- s7, calls <- s8,
      turn <- s9, prompts <- s10, sending <- s11, snapshot <- s12, shown <- s13,
      said <- s14, lost <- s15, Sender <- {d1, d2}, MaxQueued <- 3, MaxRuns <- 2,
      MaxRequests <- 3, reader <- s1, active <- s2, settling <- s3, closed <- s4,
      pending <- s5, stopped <- s6, command <- s7, cancel <- s8, runs <- s9,
      commands <- s10, agent <- s11, taken <- s12, dropped <- s13, questions <- s14,
      seen <- s15, budget <- s16, Wake <- {d1, d2}, Input <- {b}, MaxPrompts <- 1,
      MaxCommands <- 1, MaxFails <- 1

Processes ==
  INSTANCE ProcessProofs WITH
    request <- s1, ctxDone <- s2, answer <- s3, ch <- s4, awaited <- s5,
      withdrawn <- s6, stopErr <- s7, fin <- s8, receiver <- s9, start <- s10,
      lease <- s11, registered <- s12, serving <- s13, hostRequests <- s14,
      workCanceled <- s15, toPlugin <- s16, toHost <- s17, rogue <- s18,
      lives <- s19, closed <- s20, handler <- s21, requests <- s22,
      handlerCanceled <- s23, hostCall <- s24, owner <- s25, sdkPending <- s26,
      sdkCh <- s27, Calls <- {a, c1}, Initialize <- a, HostCalls <- {b},
      Buffer <- 1, MaxRogue <- 1,
    spawn <- s1, phase <- s2, child <- s3, began <- s4, ended <- s5,
      descendant <- s6, pipe <- s7, parsed <- s8, cause <- s9, canceled <- s10,
      term <- s11, force <- s12, waited <- s13, result <- s14, MaxTurns <- 2,
      MaxTools <- 1, Unread <- 2,
    call <- s1, done <- s2, pending <- s3, handing <- s4, channel <- s5, dead <- s6,
      writer <- s7, stdin <- s8, stdout <- s9, stdinOpen <- s10, stdoutOpen <- s11,
      work <- s12, ran <- s13, server <- s14, heir <- s15, pings <- s16,
      reader <- s17, waiter <- s18, closer <- s19, http <- s20, Call <- {d1, d2},
      HttpCall <- {b}, PipeSize <- 1, MaxPings <- 1,
    caller <- s1, alive <- s2, childpc <- s3, asked <- s4, hooked <- s5,
      called <- s6, replies <- s7, out <- s8, events <- s9, over <- s10,
      toolQueue <- s11, unanswered <- s12, results <- s13, content <- s14,
      executed <- s15, stale <- s16, issued <- s17, unheard <- s18, steers <- s19,
      processes <- s20, steps <- s21, spent <- s22, accounted <- s23,
      reported <- s24, failed <- s25, EventBuffer <- 1, MaxProcesses <- 2,
      MaxSteps <- 2, MaxCalls <- 2, MaxStale <- 0, MaxSteers <- 1

Init ==
  \/ part = "agent loop" /\ Agents!Init
     /\ s13 = 0 /\ s14 = 0 /\ s15 = 0 /\ s16 = 0 /\ s17 = 0 /\ s18 = 0 /\
     s19 = 0 /\ s20 = 0 /\ s21 = 0 /\ s22 = 0 /\ s23 = 0 /\ s24 = 0 /\ s25 = 0
     /\ s26 = 0 /\ s27 = 0
  \/ part = "agent queue" /\ Agents!Queue!Init
     /\ s16 = 0 /\ s17 = 0 /\ s18 = 0 /\ s19 = 0 /\ s20 = 0 /\ s21 = 0 /\
     s22 = 0 /\ s23 = 0 /\ s24 = 0 /\ s25 = 0 /\ s26 = 0 /\ s27 = 0
  \/ part = "rpc" /\ Agents!Rpcs!Init
     /\ s17 = 0 /\ s18 = 0 /\ s19 = 0 /\ s20 = 0 /\ s21 = 0 /\ s22 = 0 /\
     s23 = 0 /\ s24 = 0 /\ s25 = 0 /\ s26 = 0 /\ s27 = 0
  \/ part = "agent prompts" /\ Prompts!Init
     /\ s13 = 0 /\ s14 = 0 /\ s15 = 0 /\ s16 = 0 /\ s17 = 0 /\ s18 = 0 /\
     s19 = 0 /\ s20 = 0 /\ s21 = 0 /\ s22 = 0 /\ s23 = 0 /\ s24 = 0 /\ s25 = 0
     /\ s26 = 0 /\ s27 = 0
  \/ part = "plugin" /\ Processes!Plug!Init
  \/ part = "subagent" /\ Processes!Sub!Init
     /\ s15 = 0 /\ s16 = 0 /\ s17 = 0 /\ s18 = 0 /\ s19 = 0 /\ s20 = 0 /\
     s21 = 0 /\ s22 = 0 /\ s23 = 0 /\ s24 = 0 /\ s25 = 0 /\ s26 = 0 /\ s27 = 0
  \/ part = "mcp" /\ Processes!Srv!Init
     /\ s21 = 0 /\ s22 = 0 /\ s23 = 0 /\ s24 = 0 /\ s25 = 0 /\ s26 = 0 /\
     s27 = 0
  \/ part = "claude" /\ Processes!Claude!Init
     /\ s26 = 0 /\ s27 = 0

Next ==
  \/ part = "agent loop" /\ Agents!Next
     /\ UNCHANGED <<part, s13, s14, s15, s16, s17, s18, s19, s20, s21, s22, s23,
                      s24, s25, s26, s27>>
  \/ part = "agent queue" /\ Agents!Queue!Next
     /\ UNCHANGED <<part, s16, s17, s18, s19, s20, s21, s22, s23, s24, s25, s26, s27>>
  \/ part = "rpc" /\ Agents!Rpcs!Next
     /\ UNCHANGED <<part, s17, s18, s19, s20, s21, s22, s23, s24, s25, s26, s27>>
  \/ part = "agent prompts" /\ Prompts!Next
     /\ UNCHANGED <<part, s13, s14, s15, s16, s17, s18, s19, s20, s21, s22, s23,
                      s24, s25, s26, s27>>
  \/ part = "plugin" /\ Processes!Plug!Next
     /\ UNCHANGED <<part>>
  \/ part = "subagent" /\ Processes!Sub!Next
     /\ UNCHANGED <<part, s15, s16, s17, s18, s19, s20, s21, s22, s23, s24, s25,
                      s26, s27>>
  \/ part = "mcp" /\ Processes!Srv!Next
     /\ UNCHANGED <<part, s21, s22, s23, s24, s25, s26, s27>>
  \/ part = "claude" /\ Processes!Claude!Next
     /\ UNCHANGED <<part, s26, s27>>

Spec == Init /\ [][Next]_vars

\* Whatever appends fail and wherever the process dies, the agent has in memory
\* what a restart would load, but for results made up for interrupted calls, and
\* every answer its results, in the order of its calls; the messages of a request
\* are a transcript that providers accept.  In turns of a prompt, and in several
\* prompts with loads and compactions between them (agent.go: append, executeTools;
\* context.go: contextMessages; model/types.go: RepairToolCallResults).
LoopSafe ==
  /\ part = "agent loop" =>
        Agents!TypeOK /\ Agents!MemoryIsDurable /\ Agents!ResultsInCallOrder /\ Agents!RequestIsValid
  /\ part = "agent prompts" =>
        Prompts!MemoryIsDurable /\ Prompts!ResultsInCallOrder /\ Prompts!RequestIsValid

\* A tool starts for a call of a durable answer only, and once.
ToolsRunOnce == [][part = "agent loop" => Agents!RunsOnceFromDurableAnswer]_vars

\* Every accepted message is in one place, a prompt that settles leaves none
\* behind, and each mode keeps its order (agent.go: Steer, FollowUp, settle).
QueueSafe ==
  part = "agent queue" => Agents!Queue!QueueSafe

\* Of prompts, commands, questions and wakes of the RPC front end: one prompt
\* runs at a time, alone when a command asks for it, a question gets one reply,
\* and a wake is in one place (rpc/server.go).
RpcSafe == part = "rpc" => Agents!Rpcs!RpcSafe

\* The client sees the events of a run in order, and its own prompt does not
\* pass a wake that was accepted before (rpc/server.go, events.go).
RpcOrder == [][part = "rpc" => Agents!Rpcs!InOrder]_vars

\* Whatever the plugin writes and however a call ends, nobody waits to deliver
\* its outcome, a stopped plugin offers no tools, and no cancellation is lost
\* (plugin.go: handleResponse, finish, call).
PluginSafe == part = "plugin" => Processes!Plug!PluginSafe

\* A helper that is reported as successful did all it began, its usage is
\* reported and true, and a call that has returned has left no process behind
\* (subagent.go: processRunner.Run).
SubagentSafe == part = "subagent" => Processes!Sub!SubagentSafe

\* An MCP call that waits is not forgotten by a failing connection, handing a
\* reply over never waits, and no call is run twice (mcp/stdio.go, http.go).
McpSafe == part = "mcp" => Processes!Srv!McpSafe

\* Every call of a turn of Claude gets its own result once, the usage adds up,
\* and no process outlives its prompt (claudeagent.go).
ClaudeSafe == part = "claude" => Processes!Claude!ClaudeSafe

\* The members of this set are not told apart by any part.
Symmetry == Permutations({d1, d2})

=============================================================================
