--------------------------- MODULE MCAgentsProofs ---------------------------
(***************************************************************************)
(* Proofs about MCAgents: what is proved of a component holds of the part  *)
(* that runs it.  A step of the composition is a step of the part that     *)
(* runs, so the inductive invariant of the component, while its part runs, *)
(* is one of the composition.                                              *)
(***************************************************************************)
EXTENDS MCAgents, TLAPS

----------------------------------------
(* The loop of the agent, in the two instances that run it.                *)

LoopInv ==
  /\ part = "agent loop" => Agents!IInv
  /\ part = "agent prompts" => Prompts!IInv

\* The instances have the parameters the proof assumes.
LEMMA LoopParameters == Agents!Parameters /\ Prompts!Parameters
  BY DEF Agents!Parameters, Prompts!Parameters

\* A step of the composition is a step of the loop or leaves it alone.
LEMMA LoopStep ==
    ASSUME [Next]_vars
    PROVE  /\ part' = part
           /\ part = "agent loop" => [Agents!Next]_(Agents!vars)
           /\ part = "agent prompts" => [Prompts!Next]_(Prompts!vars)
<1>1. CASE UNCHANGED vars
  BY <1>1 DEF vars, Agents!vars, Agents!conversation, Agents!models, Agents!history, Agents!bounds,
              Prompts!vars, Prompts!conversation, Prompts!models, Prompts!history, Prompts!bounds
<1>2. CASE Next BY <1>2 DEF Next
<1>. QED BY <1>1, <1>2

\* What the invariant of the loop is to the composition.
LEMMA LoopInductive ==
    /\ Init => LoopInv
    /\ LoopInv /\ [Next]_vars => LoopInv'
<1>1. Init => LoopInv
  BY ZenonT(40), LoopParameters, Agents!InitInv, Prompts!InitInv DEF Init, LoopInv
<1>2. LoopInv /\ [Next]_vars => LoopInv'
  BY ZenonT(40), LoopParameters, LoopStep, Agents!NextInv, Prompts!NextInv DEF LoopInv
<1>. QED BY <1>1, <1>2

\* While the loop of agent.go runs, its messages are those a restart would load,
\* results follow their answer, and providers accept every request.
THEOREM LoopAlwaysSafe == Spec => []LoopSafe
<1>1. LoopInv => LoopSafe BY Agents!InvImplies, Prompts!InvImplies DEF LoopInv, LoopSafe
<1>. QED BY <1>1, LoopInductive, PTL DEF Spec

\* While it runs, a tool starts once for a call, of a durable answer.
THEOREM ToolsAlwaysRunOnce == Spec => ToolsRunOnce
<1>1. LoopInv /\ [Next]_vars => [part = "agent loop" => Agents!RunsOnceFromDurableAnswer]_vars
  BY Agents!InvImplies DEF LoopInv
<1>. QED BY <1>1, LoopInductive, PTL DEF Spec, ToolsRunOnce

----------------------------------------
(* The message queue of the agent.                                         *)

QueueInv == part = "agent queue" => Agents!QueueIInv

\* A step of the composition is a step of the queue or leaves it alone.
LEMMA QueueStep ==
    ASSUME [Next]_vars
    PROVE  /\ part' = part
           /\ part = "agent queue" => [Agents!Queue!Next]_(Agents!Queue!vars)
<1>1. CASE UNCHANGED vars
  BY <1>1 DEF vars, Agents!Queue!vars, Agents!Queue!queues, Agents!Queue!prompt, Agents!Queue!frontend, Agents!Queue!outcome
<1>2. CASE Next BY <1>2 DEF Next
<1>. QED BY <1>1, <1>2

\* While the queue of agent.go runs, every accepted message is in exactly one
\* place, a settled prompt leaves none behind, and each mode keeps its order.
THEOREM QueueAlwaysSafe == Spec => []QueueSafe
<1>1. Init => QueueInv BY Agents!QueueInitInv DEF Init, QueueInv
<1>2. QueueInv /\ [Next]_vars => QueueInv' BY QueueStep, Agents!QueueNextInv DEF QueueInv
<1>3. QueueInv => QueueSafe BY Agents!QueueInvImplies DEF QueueInv, QueueSafe
<1>. QED BY <1>1, <1>2, <1>3, PTL DEF Spec

----------------------------------------
(* The extension processes.                                                *)

PluginInv == part = "plugin" => Processes!PluginIInv

\* The instance has the parameters the proof assumes.
LEMMA PluginParameters == Processes!PluginParameters
  BY IdsDiffer DEF Processes!PluginParameters

\* A step of the composition is a step of the calls or leaves them alone.
LEMMA PluginStep ==
    ASSUME [Next]_vars
    PROVE  /\ part' = part
           /\ part = "plugin" => [Processes!Plug!Next]_(Processes!Plug!vars)
<1>1. CASE UNCHANGED vars
  BY <1>1 DEF vars, Processes!Plug!vars, Processes!Plug!callVars,
              Processes!Plug!stopVars, Processes!Plug!startVars,
              Processes!Plug!workVars, Processes!Plug!process, Processes!Plug!sdkVars
<1>2. CASE Next BY ZenonT(40), <1>2 DEF Next
<1>. QED BY <1>1, <1>2

\* While the processes of plugin.go run, nobody waits to deliver an outcome, a
\* stopped plugin offers no tools, and no cancellation is lost.
THEOREM PluginAlwaysSafe == Spec => []PluginSafe
<1>1. Init => PluginInv BY PluginParameters, Processes!PluginInitInv DEF Init, PluginInv
<1>2. PluginInv /\ [Next]_vars => PluginInv'
  BY PluginParameters, PluginStep, Processes!PluginNextInv DEF PluginInv
<1>3. PluginInv => PluginSafe BY Processes!PluginInvImplies DEF PluginInv, PluginSafe
<1>. QED BY <1>1, <1>2, <1>3, PTL DEF Spec

----------------------------------------
(* The RPC front end.                                                      *)

RpcInv == part = "rpc" => Agents!RpcIInv

\* The instance has the parameters the proof assumes.
LEMMA RpcParameters == Agents!RpcParameters
  BY WakesDiffer DEF Agents!RpcParameters

\* A step of the composition is a step of the front end or leaves it alone.
LEMMA RpcStep ==
    ASSUME [Next]_vars
    PROVE  /\ part' = part
           /\ part = "rpc" => [Agents!Rpcs!Next]_(Agents!Rpcs!vars)
<1>1. CASE UNCHANGED vars BY <1>1 DEF vars, Agents!Rpcs!vars
<1>2. CASE Next BY <1>2 DEF Next
<1>. QED BY <1>1, <1>2

\* What the invariant of the front end is to the composition.
LEMMA RpcInductive ==
    /\ Init => RpcInv
    /\ RpcInv /\ [Next]_vars => RpcInv'
<1>1. Init => RpcInv BY Agents!RpcInitInv DEF Init, RpcInv
<1>2. RpcInv /\ [Next]_vars => RpcInv' BY RpcParameters, RpcStep, Agents!RpcNextInv DEF RpcInv
<1>. QED BY <1>1, <1>2

\* While the front end of server.go runs, one prompt runs at a time, alone when a
\* command asks for it, a question gets one reply, and a wake is in one place.
THEOREM RpcAlwaysSafe == Spec => []RpcSafe
<1>1. RpcInv => RpcSafe BY Agents!RpcInvImplies DEF RpcInv, RpcSafe
<1>. QED BY <1>1, RpcInductive, PTL DEF Spec

\* While it runs, its client sees the events in order, and no prompt of the client
\* passes a wake that was accepted before.
THEOREM RpcAlwaysInOrder == Spec => RpcOrder
<1>1. RpcInv /\ [Next]_vars => [part = "rpc" => Agents!Rpcs!InOrder]_vars
  BY RpcStep, Agents!StepInOrder DEF RpcInv
<1>. QED BY <1>1, RpcInductive, PTL DEF Spec, RpcOrder

----------------------------------------
(* The processes notch runs: helpers, MCP servers and claude.              *)

HelperInv == part = "subagent" => Processes!HelperInv
ServerInv == part = "mcp" => Processes!ServerInv
ClaudeInv == part = "claude" => s16 = {} /\ Processes!ClaudeInv

\* The instances have the parameters the proofs assume.
LEMMA ProcessParameters ==
    Processes!HelperParameters /\ Processes!ServerParameters /\ Processes!ClaudeParameters
<1>1. {d1, d2} \cap {b} = {} /\ {d1, d2} \cap {"ping", "pong"} = {} BY CallsDiffer
<1>. QED
  BY <1>1 DEF Processes!HelperParameters, Processes!ServerParameters, Processes!ClaudeParameters

\* A step of the composition is a step of one of them or leaves them alone.
LEMMA ProcessStep ==
    ASSUME [Next]_vars
    PROVE  /\ part' = part
           /\ part = "subagent" => [Processes!Sub!Next]_(Processes!Sub!vars)
           /\ part = "mcp" => [Processes!Srv!Next]_(Processes!Srv!vars)
           /\ part = "claude" => [Processes!Claude!Next]_(Processes!Claude!vars)
<1>1. CASE UNCHANGED vars
  BY <1>1 DEF vars, Processes!Sub!vars, Processes!Srv!vars, Processes!Claude!vars, Processes!Claude!child,
              Processes!Claude!bridge, Processes!Claude!bookkeeping
<1>2. CASE Next BY ZenonT(40), <1>2 DEF Next
<1>. QED BY <1>1, <1>2

\* While a helper of subagent.go runs, what it reports is true and whole, and a call
\* that has returned has left no process behind.
THEOREM SubagentAlwaysSafe == Spec => []SubagentSafe
<1>1. Init => HelperInv BY ProcessParameters, Processes!HelperInit DEF Init, HelperInv
<1>2. HelperInv /\ [Next]_vars => HelperInv'
  BY ProcessParameters, ProcessStep, Processes!HelperNext DEF HelperInv
<1>3. HelperInv => SubagentSafe
  BY ProcessParameters, Processes!HelperImplies DEF HelperInv, SubagentSafe
<1>. QED BY <1>1, <1>2, <1>3, PTL DEF Spec

\* While an MCP client runs, no call that waits is forgotten, no reply is handed over
\* in vain, and no call runs twice.
THEOREM McpAlwaysSafe == Spec => []McpSafe
<1>1. Init => ServerInv BY ProcessParameters, Processes!ServerInit DEF Init, ServerInv
<1>2. ServerInv /\ [Next]_vars => ServerInv'
  BY ProcessParameters, ProcessStep, Processes!ServerNext DEF ServerInv
<1>3. ServerInv => McpSafe BY ProcessParameters, Processes!ServerImplies DEF ServerInv, McpSafe
<1>. QED BY <1>1, <1>2, <1>3, PTL DEF Spec

\* While a claude process runs, every call of its turn gets its own result once, the
\* usage adds up, and it does not outlive its prompt.
THEOREM ClaudeAlwaysSafe == Spec => []ClaudeSafe
<1>1. Init => ClaudeInv
  BY ProcessParameters, Processes!ClaudeInit DEF Init, ClaudeInv, Processes!Claude!Init
<1>2. ClaudeInv /\ [Next]_vars => ClaudeInv'
  BY ProcessParameters, ProcessStep, Processes!ClaudeNext, Processes!NoneStale DEF ClaudeInv
<1>3. ClaudeInv => ClaudeSafe BY Processes!ClaudeImplies DEF ClaudeInv, ClaudeSafe
<1>. QED BY <1>1, <1>2, <1>3, PTL DEF Spec

=============================================================================
