----------------------------- MODULE MCAgentsEnd ----------------------------
(***************************************************************************)
(* The agent, its queue and its front ends: what must happen.              *)
(* Every behaviour is of one part: the initial state says which. The parts *)
(* share no state; they use the variables s1, s2, ... in turn, and those a *)
(* part does not need stay 0. Fairness is that of each part, stated here    *)
(* for the one that runs: the conditions of the others need no evaluation.  *)
(***************************************************************************)
EXTENDS Integers, Sequences

CONSTANTS a, b, m1, t1, Unset

VARIABLES part,  \* the part this behaviour is of
          s1, s2, s3, s4, s5, s6, s7, s8, s9, s10, s11, s12, s13, s14, s15, s16

vars == <<part, s1, s2, s3, s4, s5, s6, s7, s8, s9, s10, s11, s12, s13, s14, s15,
         s16>>

Loop ==
  INSTANCE AgentLoop WITH at <- s1, run <- s2, log <- s3, other <- s4,
    messages <- s5, model <- s6, pendingSwitch <- s7, answers <- s8, ran <- s9,
    ops <- s10, failures <- s11, crashes <- s12, Model <- {m1}, DefaultModel <- m1,
    NoModel <- Unset, MaxTurns <- 1, MaxAttempts <- 2, MaxCalls <- 2, MaxOps <- 1,
    MaxFailures <- 1, MaxCrashes <- 0

Queue ==
  INSTANCE AgentQueue WITH processing <- s1, steering <- s2, followUps <- s3,
    queueSequence <- s4, at <- s5, held <- s6, offered <- s7, calls <- s8,
    turn <- s9, runs <- s10, sending <- s11, snapshot <- s12, pending <- s13,
    said <- s14, lost <- s15, Sender <- {a, b}, MaxQueued <- 2, MaxRuns <- 2,
    MaxTurns <- 2

Rpcs ==
  INSTANCE Rpc WITH reader <- s1, active <- s2, settling <- s3, closed <- s4,
    pending <- s5, stopped <- s6, command <- s7, cancel <- s8, runs <- s9,
    commands <- s10, agent <- s11, taken <- s12, dropped <- s13, questions <- s14,
    seen <- s15, budget <- s16, Wake <- {a}, Input <- {b}, MaxPrompts <- 1,
    MaxCommands <- 1, MaxFailures <- 1

Terminal ==
  INSTANCE TuiLoop WITH events <- s1, loop <- s2, ui <- s3, retained <- s4,
    session <- s5, run <- s6, queue <- s7, jobs <- s8, wake <- s9, delivered <- s10,
    commands <- s11, deltas <- s12, failures <- s13, Wake <- {a, b}, Guarded <- {a},
    Typed <- {t1}, BufferSize <- 3, MaxSessions <- 1, MaxCommands <- 1,
    MaxDeltas <- 1, MaxFailures <- 0

Init ==
  \/ part = "agent loop" /\ Loop!Init
     /\ s13 = 0 /\ s14 = 0 /\ s15 = 0 /\ s16 = 0
  \/ part = "agent queue" /\ Queue!Init
     /\ s16 = 0
  \/ part = "rpc" /\ Rpcs!Init
  \/ part = "terminal" /\ Terminal!Init
     /\ s14 = 0 /\ s15 = 0 /\ s16 = 0

Next ==
  \/ part = "agent loop" /\ Loop!Next
     /\ UNCHANGED <<part, s13, s14, s15, s16>>
  \/ part = "agent queue" /\ Queue!Next
     /\ UNCHANGED <<part, s16>>
  \/ part = "rpc" /\ Rpcs!Next
     /\ UNCHANGED <<part>>
  \/ part = "terminal" /\ Terminal!Next
     /\ UNCHANGED <<part, s14, s15, s16>>

Spec == Init /\ [][Next]_vars

LoopVars == Loop!vars
QueueVars == Queue!vars
RpcsVars == Rpcs!vars
TerminalVars == Terminal!vars

Fairness ==
  /\ WF_LoopVars(part = "agent loop" /\ Loop!Holds)
  /\ WF_LoopVars(part = "agent loop" /\ Loop!AToolReturns)
  /\ WF_QueueVars(part = "agent queue" /\ Queue!PromptStep)
  /\ \A s \in {a, b} : WF_QueueVars(part = "agent queue" /\ Queue!EmitEnqueued(s))
  /\ WF_TerminalVars(part = "terminal" /\ Terminal!LoopStep)
  /\ WF_TerminalVars(part = "terminal" /\ Terminal!RunStep)
  /\ SF_TerminalVars(part = "terminal" /\ Terminal!AFollowUpPosts)
  /\ SF_TerminalVars(part = "terminal" /\ Terminal!AJobEnds)
  /\ \A r \in 1..2 : WF_RpcsVars(part = "rpc" /\ Rpcs!RunGoesOn(r))
  /\ WF_RpcsVars(part = "rpc" /\ Rpcs!CommandGoesOn(1))
  /\ WF_RpcsVars(part = "rpc" /\ Rpcs!ReaderStep)
  /\ WF_RpcsVars(part = "rpc" /\ Rpcs!InputCanceled(b))
  /\ WF_RpcsVars(part = "rpc" /\ Rpcs!InputReturns(b))

FairSpec == Spec /\ Fairness

-----------------------------------------------------------------------------
\* A prompt, and a compaction, that started comes to an end.
RunEnds == (part = "agent loop" /\ ~Loop!AtRest) ~> (part = "agent loop" /\ Loop!AtRest)

\* A follow-up that is accepted while a prompt runs is taken by that prompt,
\* unless the run fails (agent.go: settle).
AcceptedIsTaken ==
  \A i \in 1..2 : (part = "agent queue" /\ Queue!Waits(i)) ~> (part = "agent queue" /\ Queue!Taken(i))

\* A server whose input has ended exits with every question answered, and a
\* wake that waits runs (rpc/server.go: Run, startPendingLocked, shutdown).
RpcLive ==
  /\ (part = "rpc" /\ Rpcs!InputEnded) ~> (part = "rpc" /\ Rpcs!Exited)
  /\ (part = "rpc" /\ Rpcs!AsksInVain(b)) ~> (part = "rpc" /\ Rpcs!Told(b))
  /\ (part = "rpc" /\ Rpcs!Waits(a)) ~> (part = "rpc" /\ ~Rpcs!Waits(a))

\* A follow-up is given to the model in the end, unless a run fails, the user
\* exits or changes the session, or the loop waits for itself (tui/app.go: post).
FollowUpsRun ==
  \A w \in {a, b} : (part = "terminal" /\ Terminal!Sending(w)) ~> (part = "terminal" /\ Terminal!Heard(w))

=============================================================================
