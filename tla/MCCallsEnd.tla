----------------------------- MODULE MCCallsEnd -----------------------------
(***************************************************************************)
(* The processes notch runs and the calls they serve: what must happen.    *)
(* Every behaviour is of one part: the initial state says which. The parts *)
(* share no state; they use the variables s1, s2, ... in turn, and those a *)
(* part does not need stay 0. Fairness is that of each part, stated here    *)
(* for the one that runs: the conditions of the others need no evaluation.  *)
(***************************************************************************)
EXTENDS Integers, Sequences

CONSTANTS a, b, c1, t1, t2, f1, Unset, BUILTIN

VARIABLES part,  \* the part this behaviour is of
          s1, s2, s3, s4, s5, s6, s7, s8, s9, s10, s11, s12, s13, s14, s15, s16,
          s17, s18, s19, s20, s21, s22, s23, s24, s25, s26, s27

vars == <<part, s1, s2, s3, s4, s5, s6, s7, s8, s9, s10, s11, s12, s13, s14, s15,
         s16, s17, s18, s19, s20, s21, s22, s23, s24, s25, s26, s27>>

Plugin ==
  INSTANCE PluginCalls WITH call <- s1, ctxDone <- s2, outcome <- s3, ch <- s4,
    pending <- s5, canceled <- s6, stopErr <- s7, fin <- s8, reader <- s9,
    start <- s10, lease <- s11, registered <- s12, work <- s13, hostRequests <- s14,
    workCanceled <- s15, toPlugin <- s16, toHost <- s17, rogue <- s18, alive <- s19,
    closed <- s20, handler <- s21, requests <- s22, handlerCanceled <- s23,
    hostCall <- s24, owner <- s25, sdkPending <- s26, sdkCh <- s27,
    Calls <- {a, c1}, Initialize <- a, HostCalls <- {b}, PipeSize <- 1,
    MaxRogue <- 0

Sub ==
  INSTANCE Subagent WITH call <- s1, phase <- s2, child <- s3, began <- s4,
    ended <- s5, heir <- s6, pipe <- s7, parsed <- s8, cause <- s9, canceled <- s10,
    term <- s11, force <- s12, waited <- s13, result <- s14, MaxTurns <- 1,
    MaxTools <- 1, PipeSize <- 1

Srv ==
  INSTANCE Mcp WITH call <- s1, done <- s2, pending <- s3, handing <- s4,
    channel <- s5, dead <- s6, writer <- s7, stdin <- s8, stdout <- s9,
    stdinOpen <- s10, stdoutOpen <- s11, work <- s12, ran <- s13, server <- s14,
    heir <- s15, pings <- s16, reader <- s17, waiter <- s18, closer <- s19,
    http <- s20, Call <- {a}, HttpCall <- {}, PipeSize <- 1, MaxPings <- 1

Mons ==
  INSTANCE Monitor WITH record <- s1, listed <- s2, order <- s3, kind <- s4,
    process <- s5, open <- s6, matched <- s7, starter <- s8, watch <- s9,
    stopper <- s10, closing <- s11, flight <- s12, told <- s13, wakes <- s14,
    Mon <- {a}, MaxCompleted <- 1

Ext ==
  INSTANCE Extensions WITH registry <- s1, batch <- s2, lua <- s3, loader <- s4,
    closing <- s5, policy <- s6, stage <- s7, manager <- s8, conns <- s9,
    server <- s10, reload <- s11, running <- s12, call <- s13, Tool <- {t1, t2},
    Command <- {c1}, Remote <- {t2}, Direct <- {}, Call <- {a},
    Batch <- {{t2}, {c1}}, MaxReloads <- 1, NONE <- Unset, BUILTIN <- BUILTIN,
    LoadOrder <- <<f1>>, Policy <- {[allow |-> {Unset}, exclude |-> {}]}

Claude ==
  INSTANCE ClaudeTurn WITH caller <- s1, alive <- s2, childpc <- s3, asked <- s4,
    hooked <- s5, called <- s6, replies <- s7, out <- s8, events <- s9, over <- s10,
    toolQueue <- s11, pending <- s12, results <- s13, content <- s14,
    executed <- s15, stale <- s16, issued <- s17, unheard <- s18, steers <- s19,
    processes <- s20, steps <- s21, spent <- s22, accounted <- s23, reported <- s24,
    failed <- s25, EventBuffer <- 1, MaxProcesses <- 1, MaxSteps <- 2,
    MaxCalls <- 2, MaxStale <- 0, MaxSteers <- 0

Init ==
  \/ part = "plugin" /\ Plugin!Init
  \/ part = "subagent" /\ Sub!Init
     /\ s15 = 0 /\ s16 = 0 /\ s17 = 0 /\ s18 = 0 /\ s19 = 0 /\ s20 = 0 /\
     s21 = 0 /\ s22 = 0 /\ s23 = 0 /\ s24 = 0 /\ s25 = 0 /\ s26 = 0 /\ s27 = 0
  \/ part = "mcp" /\ Srv!Init
     /\ s21 = 0 /\ s22 = 0 /\ s23 = 0 /\ s24 = 0 /\ s25 = 0 /\ s26 = 0 /\
     s27 = 0
  \/ part = "monitor" /\ Mons!Init
     /\ s15 = 0 /\ s16 = 0 /\ s17 = 0 /\ s18 = 0 /\ s19 = 0 /\ s20 = 0 /\
     s21 = 0 /\ s22 = 0 /\ s23 = 0 /\ s24 = 0 /\ s25 = 0 /\ s26 = 0 /\ s27 = 0
  \/ part = "extensions" /\ Ext!Init
     /\ s14 = 0 /\ s15 = 0 /\ s16 = 0 /\ s17 = 0 /\ s18 = 0 /\ s19 = 0 /\
     s20 = 0 /\ s21 = 0 /\ s22 = 0 /\ s23 = 0 /\ s24 = 0 /\ s25 = 0 /\ s26 = 0
     /\ s27 = 0
  \/ part = "claude" /\ Claude!Init
     /\ s26 = 0 /\ s27 = 0

Next ==
  \/ part = "plugin" /\ Plugin!Next
     /\ UNCHANGED <<part>>
  \/ part = "subagent" /\ Sub!Next
     /\ UNCHANGED <<part, s15, s16, s17, s18, s19, s20, s21, s22, s23, s24, s25,
                      s26, s27>>
  \/ part = "mcp" /\ Srv!Next
     /\ UNCHANGED <<part, s21, s22, s23, s24, s25, s26, s27>>
  \/ part = "monitor" /\ Mons!Next
     /\ UNCHANGED <<part, s15, s16, s17, s18, s19, s20, s21, s22, s23, s24, s25,
                      s26, s27>>
  \/ part = "extensions" /\ Ext!Next
     /\ UNCHANGED <<part, s14, s15, s16, s17, s18, s19, s20, s21, s22, s23, s24,
                      s25, s26, s27>>
  \/ part = "claude" /\ Claude!Next
     /\ UNCHANGED <<part, s26, s27>>

Spec == Init /\ [][Next]_vars

PluginVars == Plugin!vars
HelperVars == Sub!vars
ServerVars == Srv!vars
MonitorsVars == Mons!vars
ExtsVars == Ext!vars
ClaudeVars == Claude!vars

Fairness ==
  /\ WF_PluginVars(part = "plugin" /\ Plugin!FinishStep)
  /\ WF_PluginVars(part = "plugin" /\ Plugin!ReaderStep)
  /\ WF_PluginVars(part = "plugin" /\ Plugin!StartStep)
  /\ WF_PluginVars(part = "plugin" /\ Plugin!ProcessReaped)
  /\ WF_PluginVars(part = "plugin" /\ Plugin!AbandonedEnds)
  /\ WF_PluginVars(part = "plugin" /\ Plugin!SdkReaderStep)
  /\ \A c \in {a, c1} : WF_PluginVars(part = "plugin" /\ Plugin!CallGoesOn(c))
  /\ \A c \in {a, c1} : WF_PluginVars(part = "plugin" /\ Plugin!CallCanceled(c))
  /\ \A c \in {a, c1} : WF_PluginVars(part = "plugin" /\ Plugin!HandlerResponds(c))
  /\ \A c \in {a, c1} : WF_PluginVars(part = "plugin" /\ Plugin!CancelledEnds(c))
  /\ WF_PluginVars(part = "plugin" /\ Plugin!WorkAnswers(b))
  /\ WF_PluginVars(part = "plugin" /\ Plugin!HostCallStep(b))
  /\ WF_HelperVars(part = "subagent" /\ Sub!Own)
  /\ WF_HelperVars(part = "subagent" /\ Sub!IdleTimer)
  /\ SF_ServerVars(part = "mcp" /\ Srv!BeginWrite(a))
  /\ WF_ServerVars(part = "mcp" /\ Srv!EndWrite(a))
  /\ WF_ServerVars(part = "mcp" /\ Srv!Comes(a))
  /\ WF_ServerVars(part = "mcp" /\ Srv!HandOver(a))
  /\ WF_ServerVars(part = "mcp" /\ Srv!Reading)
  /\ SF_ServerVars(part = "mcp" /\ Srv!BeginReply)
  /\ WF_ServerVars(part = "mcp" /\ Srv!Waited)
  /\ WF_ServerVars(part = "mcp" /\ Srv!WaitFails)
  /\ WF_ServerVars(part = "mcp" /\ Srv!Kill)
  /\ WF_ServerVars(part = "mcp" /\ Srv!Closed)
  /\ WF_ServerVars(part = "mcp" /\ Srv!HeirEnds)
  /\ WF_MonitorsVars(part = "monitor" /\ Mons!HooksRun)
  /\ WF_MonitorsVars(part = "monitor" /\ Mons!Goroutines(a))
  /\ WF_MonitorsVars(part = "monitor" /\ Mons!StopCancels(a))
  /\ WF_MonitorsVars(part = "monitor" /\ Mons!CloseCancels(a))
  /\ WF_ExtsVars(part = "extensions" /\ Ext!EndGoesOn)
  /\ SF_ExtsVars(part = "extensions" /\ Ext!Proceeds(a))
  /\ WF_ClaudeVars(part = "claude" /\ Claude!Reader)
  /\ WF_ClaudeVars(part = "claude" /\ Claude!Reads)
  /\ WF_ClaudeVars(part = "claude" /\ Claude!NextStream)
  /\ WF_ClaudeVars(part = "claude" /\ Claude!Works)

FairSpec == Spec /\ Fairness

-----------------------------------------------------------------------------
\* A call whose context is cancelled returns, the host does not remember it for
\* ever, and the work that its handler asked the host for is cancelled.
CancellationEnds ==
  /\ \A c \in {a, c1} :
       /\ (part = "plugin" /\ Plugin!GivenUp(c)) ~> (part = "plugin" /\ Plugin!Over(c))
       /\ (part = "plugin" /\ Plugin!Remembered(c)) ~> (part = "plugin" /\ ~Plugin!Remembered(c))
  /\ (part = "plugin" /\ Plugin!Orphaned(b)) ~> (part = "plugin" /\ Plugin!Released(b))

\* The call of a helper ends, whatever the child does (subagent.go).
SubagentEnds == part = "subagent" ~> (part = "subagent" /\ Sub!Over)

\* A client that is closed leaves no call behind, whatever the server does
\* (mcp/stdio.go: close, fail).
McpEnds == (part = "mcp" /\ Srv!Closing) ~> (part = "mcp" /\ Srv!Settled)

\* A monitor whose process has ended and whose output nobody holds any more is
\* finished, the hooks hear of it, and the agent of an exit it waits for
\* (monitor.go: watch, finish).
MonitorEnds == (part = "monitor" /\ Mons!WaitReturns(a)) ~> (part = "monitor" /\ Mons!IsFinished(a))

\* The program ends although calls are in flight when it closes, and every call
\* returns (luaext/manager.go: Close, callLocked).
ExtensionsEnd ==
  /\ (part = "extensions" /\ Ext!Stopping) ~> (part = "extensions" /\ Ext!Stopped)
  /\ (part = "extensions" /\ Ext!InCall(a)) ~> (part = "extensions" /\ ~Ext!InCall(a))

\* A request ends: the process and the agent do not wait for one another
\* (claudeagent.go: handleMCP, resolveResults).
ClaudeEnds == (part = "claude" /\ Claude!Streaming) ~> (part = "claude" /\ ~Claude!Streaming)

=============================================================================
