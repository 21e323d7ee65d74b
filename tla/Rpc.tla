-------------------------------- MODULE Rpc --------------------------------
(* The RPC front end of notch, internal/rpc: a loop that reads the client's  *)
(* commands, goroutines that run prompts and extension commands, follow-ups  *)
(* (wakes) of extensions at any time, and questions to the client.           *)
EXTENDS Naturals, Sequences, SequencesExt, FiniteSets

CONSTANTS Wake,          \* follow-ups of extensions, each offered once
          Input,         \* questions of extensions to the client
          MaxPrompts,    \* prompts, steers and follow-ups of the client
          MaxCommands,   \* extension commands
          MaxFailures    \* runs that fail by themselves, and a broken output

VARIABLES reader,    \* what the command loop does
          active, settling, closed, pending,   \* fields of Server
          stopped,   \* whether runCancel was called
          command,   \* commandActive, commandExclusive and commandCancel: 0 or a position in commands
          cancel,    \* Server.cancel: 0 or a position in runs
          runs,      \* the goroutines of startPromptLocked
          commands,  \* the goroutines of handleExtensionCommand
          agent,     \* whether the agent takes queued messages, and its queue
          taken,     \* the wakes that became a prompt, were delivered, or were refused with an error
          dropped,   \* the accepted wakes that a failing run took with it
          questions, \* the state of every question
          seen,      \* what the client has seen of runs: the last lifecycle event
          budget     \* how much of the bounds is used

vars == <<reader, active, settling, closed, pending, stopped, command, cancel, runs, commands,
          agent, taken, dropped, questions, seen, budget>>
server == <<active, settling, closed, pending, stopped, command, cancel>>
wakes == <<taken, dropped>>

Nobody == <<"none", 0>>
Ready == [at |-> "ready", run |-> 0, command |-> 0]

Init ==
  /\ reader = Ready
  /\ active = FALSE /\ settling = FALSE /\ closed = FALSE /\ stopped = FALSE
  /\ pending = <<>> /\ command = 0 /\ cancel = 0 /\ runs = <<>> /\ commands = <<>>
  /\ agent = [processing |-> FALSE, queue |-> <<>>]
  /\ taken = {} /\ dropped = {}
  /\ questions = [i \in Input |-> [by |-> Nobody, open |-> FALSE, sent |-> 0, at |-> "unasked"]]
  /\ seen = "settled"
  /\ budget = [prompts |-> 0, failures |-> 0, broken |-> FALSE]

Live(r) == runs[r].at # "done"
Exclusive == command # 0 /\ commands[command].exclusive

(* A context that was canceled: that of a run is a child of Run's context for *)
(* a prompt of the client, of runCtx for a wake and for a command.            *)
RunCanceled(r) == runs[r].canceled \/ (stopped /\ runs[r].wake)
CommandCanceled(c) == commands[c].canceled \/ stopped

(* A goroutine that has returned. *)
Ended == [at |-> "done", ok |-> TRUE, canceled |-> FALSE, wake |-> FALSE, release |-> TRUE]

-----------------------------------------------------------------------------
(* Starting prompts. *)

(* startPromptLocked; release: whether the caller closes it at once. *)
StartPromptWith(new, release, wake) ==
  /\ active' = TRUE
  /\ cancel' = Len(runs) + 1
  /\ runs' = Append(new, [at |-> "begun", ok |-> TRUE, canceled |-> FALSE,
                          wake |-> wake, release |-> release])
StartPromptLocked(release, wake) == StartPromptWith(runs, release, wake)

MayStartPending(q, isActive, isExclusive) ==
  /\ ~closed /\ ~isActive /\ ~isExclusive /\ ~stopped
  /\ q # <<>>

(* followUpFor with a wake of an extension. The session never changes here. *)
FollowUp(w) ==
  /\ w \notin taken \cup dropped \cup ToSet(pending) \cup ToSet(agent.queue)
  /\ IF closed
     THEN taken' = taken \cup {w} /\ UNCHANGED <<server, runs, agent>>
     ELSE IF settling \/ Exclusive \/ (~active /\ pending # <<>>)
     THEN LET q == Append(pending, w) IN
          /\ IF MayStartPending(q, active, Exclusive)
             THEN /\ pending' = Tail(q) /\ taken' = taken \cup {Head(q)}
                  /\ StartPromptLocked(TRUE, TRUE)
             ELSE pending' = q /\ UNCHANGED <<taken, active, cancel, runs>>
          /\ UNCHANGED <<agent, settling, closed, stopped, command>>
     ELSE IF ~active
     THEN /\ IF stopped
             THEN UNCHANGED <<active, cancel, runs>>
             ELSE StartPromptLocked(TRUE, TRUE)
          /\ taken' = taken \cup {w}
          /\ UNCHANGED <<agent, pending, settling, closed, stopped, command>>
     ELSE /\ IF agent.processing
             THEN agent' = [agent EXCEPT !.queue = Append(@, w)] /\ UNCHANGED pending
             ELSE pending' = Append(pending, w) /\ UNCHANGED agent
          /\ UNCHANGED <<runs, taken, active, settling, closed, stopped, command, cancel>>
  /\ UNCHANGED <<reader, commands, dropped, questions, seen, budget>>

-----------------------------------------------------------------------------
(* The goroutine of a prompt. *)

(* PromptWithStart opens the queue of the agent and calls started, which in  *)
(* the first prompt of the goroutine waits for release.                      *)
RunBegins(r) ==
  /\ runs[r].at \in {"begun", "continued"}
  /\ agent' = [agent EXCEPT !.processing = TRUE]
  /\ runs' = [runs EXCEPT ![r].at = IF @ = "begun" THEN "held" ELSE "running"]
  /\ UNCHANGED <<reader, server, commands, wakes, questions, seen, budget>>

RunReleased(r) ==
  /\ runs[r].at = "held" /\ runs[r].release
  /\ runs' = [runs EXCEPT ![r].at = "running"]
  /\ seen' = "agent_start"
  /\ UNCHANGED <<reader, server, commands, agent, wakes, questions, budget>>

NoQuestionOf(who) == \A i \in Input : questions[i].by = who => questions[i].at # "waiting"

(* Agent.settleOrTakeQueuedOr: a queued message, or the end of the run,  *)
(* which eventAdapter.Finish reports.                                    *)
RunSettles(r) ==
  /\ runs[r].at = "running" /\ NoQuestionOf(<<"run", r>>)
  /\ IF agent.queue # <<>>
     THEN /\ agent' = [agent EXCEPT !.queue = Tail(@)]
          /\ taken' = taken \cup ({Head(agent.queue)} \cap Wake)
          /\ UNCHANGED <<runs, seen>>
     ELSE /\ agent' = [agent EXCEPT !.processing = FALSE]
          /\ runs' = [runs EXCEPT ![r].at = "ended"]
          /\ seen' = "agent_end" /\ UNCHANGED taken
  /\ UNCHANGED <<reader, server, commands, dropped, questions, budget>>

(* A canceled run ends, and any run may fail: what is queued stays queued. *)
RunFails(r) ==
  /\ runs[r].at = "running" /\ NoQuestionOf(<<"run", r>>)
  /\ \/ RunCanceled(r) /\ UNCHANGED budget
     \/ /\ ~RunCanceled(r) /\ budget.failures < MaxFailures
        /\ budget' = [budget EXCEPT !.failures = @ + 1]
  /\ agent' = [agent EXCEPT !.processing = FALSE]
  /\ runs' = [runs EXCEPT ![r].at = "ended", ![r].ok = FALSE]
  /\ seen' = "agent_end"
  /\ UNCHANGED <<reader, server, commands, wakes, questions>>

(* The goroutine decides under Server.mu: the next pending wake, with an      *)
(* adapter of its own, or the end.                                            *)
RunDecides(r) ==
  /\ runs[r].at = "ended"
  /\ LET kept == IF runs[r].ok THEN pending ELSE <<>> IN
     /\ dropped' = dropped \cup (ToSet(pending) \ ToSet(kept))
     /\ IF kept = <<>> \/ closed
        THEN /\ runs' = [runs EXCEPT ![r].at = "settling"]
             /\ settling' = TRUE /\ pending' = kept /\ UNCHANGED <<taken, seen>>
        ELSE /\ runs' = [runs EXCEPT ![r].at = "continued"]
             /\ seen' = "agent_start"
             /\ taken' = taken \cup {Head(kept)} /\ pending' = Tail(kept)
             /\ UNCHANGED settling
  /\ UNCHANGED <<reader, active, closed, stopped, command, cancel, commands, agent,
                 questions, budget>>

RunReportsSettled(r) ==
  /\ runs[r].at = "settling"
  /\ runs' = [runs EXCEPT ![r].at = "settled"]
  /\ seen' = "settled"
  /\ UNCHANGED <<reader, server, commands, agent, wakes, questions, budget>>

(* The same goroutine without looking at what arrived while it settled. *)
RunRetiresOnly(r) ==
  /\ runs[r].at = "settled"
  /\ settling' = FALSE /\ active' = FALSE /\ cancel' = 0
  /\ runs' = [runs EXCEPT ![r] = Ended]
  /\ UNCHANGED <<reader, closed, stopped, command, commands, agent, pending, wakes, questions,
                 seen, budget>>

(* The end of the goroutine, and startPendingLocked in the same section. *)
RunRetires(r) ==
  /\ runs[r].at = "settled"
  /\ settling' = FALSE
  /\ LET ended == [runs EXCEPT ![r] = Ended] IN
     IF MayStartPending(pending, FALSE, Exclusive)
     THEN /\ StartPromptWith(ended, TRUE, TRUE)
          /\ pending' = Tail(pending) /\ taken' = taken \cup {Head(pending)}
     ELSE /\ runs' = ended /\ active' = FALSE /\ cancel' = 0
          /\ UNCHANGED <<pending, taken>>
  /\ UNCHANGED <<reader, closed, stopped, command, commands, agent, dropped, questions,
                 seen, budget>>

RunStep(r) == \/ RunBegins(r) \/ RunReleased(r) \/ RunSettles(r) \/ RunFails(r)
              \/ RunDecides(r) \/ RunReportsSettled(r) \/ RunRetires(r)

-----------------------------------------------------------------------------
(* The commands of the client. *)

Accepts == reader = Ready /\ ~stopped
UsesPrompt == /\ budget.prompts < MaxPrompts
              /\ budget' = [budget EXCEPT !.prompts = @ + 1]

(* A prompt whose guard does not look at what was accepted before it. *)
PromptFirst ==
  /\ Accepts /\ UsesPrompt
  /\ IF Exclusive \/ active THEN UNCHANGED <<reader, active, cancel, runs>>
     ELSE /\ StartPromptLocked(FALSE, FALSE)
          /\ reader' = [Ready EXCEPT !.at = "started", !.run = Len(runs) + 1]
  /\ UNCHANGED <<pending, settling, closed, stopped, command, commands, agent, wakes, questions, seen>>

(* handlePrompt: refused beside an exclusive command; accepted wakes start   *)
(* first; a running agent gets the message queued or the client an error.    *)
Prompt ==
  /\ Accepts /\ UsesPrompt
  /\ IF Exclusive THEN UNCHANGED <<reader, active, cancel, runs, pending, taken>>
     ELSE IF MayStartPending(pending, active, FALSE)
     THEN /\ StartPromptLocked(TRUE, TRUE)
          /\ pending' = Tail(pending) /\ taken' = taken \cup {Head(pending)}
          /\ reader' \in {Ready, [Ready EXCEPT !.at = "queue"]}
     ELSE /\ IF active THEN reader' \in {Ready, [Ready EXCEPT !.at = "queue"]}
                            /\ UNCHANGED <<active, cancel, runs>>
             ELSE /\ StartPromptLocked(FALSE, FALSE)
                  /\ reader' = [Ready EXCEPT !.at = "started", !.run = Len(runs) + 1]
          /\ UNCHANGED <<pending, taken>>
  /\ UNCHANGED <<settling, closed, stopped, command, commands, agent, dropped, questions, seen>>

(* The success response is written before the run is released; a write that *)
(* fails ends the loop.                                                     *)
PromptStarted ==
  /\ reader.at = "started" /\ runs[reader.run].at = "held"
  /\ runs' = [runs EXCEPT ![reader.run].release = TRUE]
  /\ reader' = IF budget.broken THEN [Ready EXCEPT !.at = "ends"] ELSE Ready
  /\ UNCHANGED <<server, commands, agent, wakes, questions, seen, budget>>

(* The steer and follow_up commands, and a prompt with streamingBehavior: the *)
(* look at Server.active, then the agent, which may have settled.             *)
Queue ==
  /\ Accepts /\ UsesPrompt /\ active
  /\ reader' = [Ready EXCEPT !.at = "queue"]
  /\ UNCHANGED <<server, runs, commands, agent, wakes, questions, seen>>

QueueAtAgent ==
  /\ reader.at = "queue"
  /\ agent' = IF agent.processing THEN [agent EXCEPT !.queue = Append(@, "message")] ELSE agent
  /\ reader' = Ready
  /\ UNCHANGED <<server, runs, commands, wakes, questions, seen, budget>>

(* handleExtensionCommand: one at a time, and an exclusive one only when idle. *)
ExtensionCommand(exclusive) ==
  /\ Accepts /\ Len(commands) < MaxCommands
  /\ IF (active /\ exclusive) \/ command # 0 THEN UNCHANGED <<commands, command>>
     ELSE /\ commands' = Append(commands, [at |-> "running", exclusive |-> exclusive, canceled |-> FALSE])
          /\ command' = Len(commands) + 1
  /\ UNCHANGED <<reader, active, settling, closed, pending, stopped, cancel, runs, agent, wakes,
                 questions, seen, budget>>

(* Execute returns: the reservation ends, the response comes later. *)
CommandReturns(c) ==
  /\ commands[c].at = "running" /\ NoQuestionOf(<<"command", c>>)
  /\ commands' = [commands EXCEPT ![c].at = "answering"]
  /\ command' = 0
  /\ UNCHANGED <<reader, active, settling, closed, pending, stopped, cancel, runs, agent, wakes,
                 questions, seen, budget>>

(* The response is written; when that fails failAsync stops everything.  Then *)
(* startPendingLocked.                                                        *)
CommandAnswers(c) ==
  /\ commands[c].at = "answering"
  /\ commands' = [commands EXCEPT ![c].at = "answered"]
  /\ stopped' = (stopped \/ budget.broken)
  /\ UNCHANGED <<reader, active, settling, closed, pending, command, cancel, runs, agent, wakes,
                 questions, seen, budget>>
CommandEnds(c) ==
  /\ commands[c].at = "answered"
  /\ commands' = [commands EXCEPT ![c] = [at |-> "done", exclusive |-> FALSE, canceled |-> FALSE]]
  /\ IF MayStartPending(pending, active, Exclusive)
     THEN /\ StartPromptLocked(TRUE, TRUE)
          /\ pending' = Tail(pending) /\ taken' = taken \cup {Head(pending)}
     ELSE UNCHANGED <<active, cancel, runs, pending, taken>>
  /\ UNCHANGED <<reader, settling, closed, stopped, command, agent, dropped, questions, seen, budget>>

CommandStep(c) == CommandReturns(c) \/ CommandAnswers(c) \/ CommandEnds(c)

-----------------------------------------------------------------------------
(* Questions: requestInteractiveInput and its three ends. *)

OwnerCanceled(who) == IF who[1] = "run" THEN RunCanceled(who[2]) ELSE CommandCanceled(who[2])

Owners == {<<"run", r>> : r \in {s \in DOMAIN runs : runs[s].at = "running"}}
          \cup {<<"command", c>> : c \in {d \in DOMAIN commands : commands[d].at = "running"}}

(* Registered under Server.mu; the request is written after it, and a write *)
(* that fails takes the question back.                                      *)
Ask(i, who) ==
  /\ questions[i].at = "unasked"
  /\ questions' = [questions EXCEPT ![i] =
       IF closed \/ OwnerCanceled(who) \/ budget.broken
       THEN [@ EXCEPT !.at = "returned"]
       ELSE [by |-> who, open |-> TRUE, sent |-> 0, at |-> "waiting"]]
  /\ UNCHANGED <<reader, server, runs, commands, agent, wakes, seen, budget>>

Replied(q, Is) == [i \in Input |-> IF i \in Is THEN [q[i] EXCEPT !.open = FALSE, !.sent = @ + 1] ELSE q[i]]
(* A reply that leaves the question open. *)
RepliedOpen(q, Is) == [i \in Input |-> IF i \in Is THEN [q[i] EXCEPT !.sent = @ + 1] ELSE q[i]]

InputResponseKeeps(i) ==
  /\ Accepts /\ questions[i].open
  /\ questions' = RepliedOpen(questions, {i})
  /\ UNCHANGED <<reader, server, runs, commands, agent, wakes, seen, budget>>

(* handleInputResponse: whoever removes the question replies to it. *)
InputResponse(i) ==
  /\ Accepts /\ questions[i].open
  /\ questions' = Replied(questions, {i})
  /\ UNCHANGED <<reader, server, runs, commands, agent, wakes, seen, budget>>
(* context.AfterFunc of the question. *)
InputCanceled(i) ==
  /\ questions[i].open /\ OwnerCanceled(questions[i].by)
  /\ questions' = Replied(questions, {i})
  /\ UNCHANGED <<reader, server, runs, commands, agent, wakes, seen, budget>>

InputReturns(i) ==
  /\ questions[i].at = "waiting" /\ questions[i].sent > 0
  /\ questions' = [questions EXCEPT ![i].at = "returned", ![i].by = Nobody]
  /\ UNCHANGED <<reader, server, runs, commands, agent, wakes, seen, budget>>

-----------------------------------------------------------------------------
(* Abort and the end. *)

(* abort takes what it cancels under Server.mu and cancels it after. *)
Abort ==
  /\ Accepts
  /\ command # 0 \/ cancel # 0 \/ \E i \in Input : questions[i].open
  /\ reader' = [at |-> "aborting", run |-> cancel, command |-> command]
  /\ UNCHANGED <<server, runs, commands, agent, wakes, questions, seen, budget>>

CancelTaken(at) ==
  /\ runs' = [r \in DOMAIN runs |-> [runs[r] EXCEPT !.canceled = @ \/ (r = reader.run /\ Live(r))]]
  /\ commands' = [c \in DOMAIN commands |-> [commands[c] EXCEPT !.canceled = @ \/ (c = reader.command /\ commands[c].at # "done")]]
  /\ reader' = [Ready EXCEPT !.at = at]

CancelInputs == questions' = Replied(questions, {i \in Input : questions[i].open})

Aborts ==
  /\ reader.at = "aborting"
  /\ CancelTaken("ready") /\ CancelInputs
  /\ UNCHANGED <<server, agent, wakes, seen, budget>>

(* The client closes its side, or sends a record that is cut short. *)
EndOfInput ==
  /\ Accepts
  /\ reader' = [Ready EXCEPT !.at = "ends"]
  /\ UNCHANGED <<server, runs, commands, agent, wakes, questions, seen, budget>>

(* A canceled runCtx closes the input. *)
InputClosed ==
  /\ reader = Ready /\ stopped
  /\ reader' = [Ready EXCEPT !.at = "ends"]
  /\ UNCHANGED <<server, runs, commands, agent, wakes, questions, seen, budget>>

(* The client goes away: writes fail from now on. *)
OutputBreaks ==
  /\ ~budget.broken /\ budget.failures < MaxFailures
  /\ budget' = [budget EXCEPT !.broken = TRUE, !.failures = @ + 1]
  /\ UNCHANGED <<reader, server, runs, commands, agent, wakes, questions, seen>>

Shutdown ==
  /\ reader.at = "ends"
  /\ closed' = TRUE /\ stopped' = TRUE
  /\ reader' = [at |-> "shutdown", run |-> cancel, command |-> command]
  /\ UNCHANGED <<active, settling, pending, command, cancel, runs, commands, agent, wakes,
                 questions, seen, budget>>

ShutdownCancels ==
  /\ reader.at = "shutdown"
  /\ CancelTaken("waiting") /\ CancelInputs
  /\ UNCHANGED <<server, agent, wakes, seen, budget>>

(* wg.Wait returns. *)
Exit ==
  /\ reader.at = "waiting"
  /\ \A r \in DOMAIN runs : runs[r].at = "done"
  /\ \A c \in DOMAIN commands : commands[c].at = "done"
  /\ reader' = [Ready EXCEPT !.at = "exited"]
  /\ UNCHANGED <<server, runs, commands, agent, wakes, questions, seen, budget>>

Quiet == reader.at \in {"ready", "exited"} /\ UNCHANGED vars

ReaderStep == PromptStarted \/ QueueAtAgent \/ Aborts \/ InputClosed \/ Shutdown \/ ShutdownCancels \/ Exit

Next ==
  \/ \E w \in Wake : FollowUp(w)
  \/ \E r \in DOMAIN runs : RunStep(r)
  \/ \E c \in DOMAIN commands : CommandStep(c)
  \/ Prompt \/ Queue \/ (\E e \in BOOLEAN : ExtensionCommand(e)) \/ Abort \/ EndOfInput
  \/ ReaderStep \/ OutputBreaks \/ Quiet
  \/ \E i \in Input : \/ \E who \in Owners : Ask(i, who)
                      \/ InputResponse(i) \/ InputCanceled(i) \/ InputReturns(i)

(* Every goroutine is scheduled, a run ends once it is canceled and a command *)
(* returns; nothing makes a client or an extension act.                       *)
MaxRuns == MaxPrompts + Cardinality(Wake)
RunGoesOn(r) == r \in DOMAIN runs /\ RunStep(r)
CommandGoesOn(c) == c \in DOMAIN commands /\ CommandStep(c)
Fairness ==
  /\ \A r \in 1..MaxRuns : WF_vars(RunGoesOn(r))
  /\ \A c \in 1..MaxCommands : WF_vars(CommandGoesOn(c))
  /\ WF_vars(ReaderStep)
  /\ \A i \in Input : WF_vars(InputCanceled(i)) /\ WF_vars(InputReturns(i))

Spec == Init /\ [][Next]_vars
FairSpec == Spec /\ Fairness

-----------------------------------------------------------------------------
RunPoints == {"begun", "held", "running", "ended", "settling", "settled",
              "continued", "done"}

\* The points that the reader, the runs and the commands can be at.
TypeOK ==
  /\ reader.at \in {"ready", "started", "queue", "aborting", "ends", "shutdown", "waiting", "exited"}
  /\ {active, settling, closed, stopped} \subseteq BOOLEAN
  /\ pending \in Seq(Wake) /\ agent.queue \in Seq(Wake \cup {"message"})
  /\ command \in 0..Len(commands) /\ cancel \in 0..Len(runs)
  /\ \A r \in DOMAIN runs : runs[r].at \in RunPoints
  /\ \A c \in DOMAIN commands : commands[c].at \in {"running", "answering", "answered", "done"}
  /\ seen \in {"settled", "agent_start", "agent_end"}

(* One prompt runs at a time, and Server.active, settling and cancel speak of *)
(* it; the agent takes messages only while it runs.                           *)
OneRun ==
  /\ \A r, s \in DOMAIN runs : Live(r) /\ Live(s) => r = s
  /\ active <=> \E r \in DOMAIN runs : Live(r)
  /\ active => cancel = Len(runs)
  /\ agent.processing => \E r \in DOMAIN runs : runs[r].at \in {"held", "running"}
  /\ settling => \E r \in DOMAIN runs : runs[r].at \in {"settling", "settled"}

(* Nothing runs beside a command that forbids it. *)
CommandIsExclusive == Exclusive => ~active

(* A question gets at most one reply, for its channel has one slot and the   *)
(* command loop sends to it; whoever waits is in the table or has a reply,   *)
(* and nothing is in the table once the server has been shut down.           *)
OneReplyEach ==
  /\ \A i \in Input : questions[i].sent <= 1
  /\ \A i \in Input : questions[i].at = "waiting" => (questions[i].open # (questions[i].sent = 1))
  /\ reader.at \in {"waiting", "exited"} => \A i \in Input : ~questions[i].open

(* A wake is in one place, until it runs or is lost with a run that failed. *)
Once(queue) == \A i, j \in DOMAIN queue : queue[i] \in Wake /\ queue[i] = queue[j] => i = j
WakeOnce ==
  /\ Once(pending) /\ Once(agent.queue)
  /\ ToSet(pending) \cap ToSet(agent.queue) = {}
  /\ taken \cap dropped = {}
  /\ (ToSet(pending) \cup ToSet(agent.queue)) \cap (taken \cup dropped) = {}

(* What the front end does to prompts, commands, questions and wakes, in     *)
(* every order of the client, the extensions and the goroutines.             *)
RpcSafe == TypeOK /\ OneRun /\ CommandIsExclusive /\ OneReplyEach /\ WakeOnce

(* The client sees agent_start, agent_end and agent_settled in this order,   *)
(* and a prompt of the client is not run before a wake that was accepted     *)
(* earlier.                                                                  *)
InOrder ==
  /\ \/ seen' = seen
     \/ <<seen, seen'>> \in {<<"settled", "agent_start">>, <<"agent_start", "agent_end">>,
                             <<"agent_end", "agent_start">>, <<"agent_end", "settled">>}
  /\ (reader'.at = "started" /\ reader.at # "started") => pending = <<>>
RpcOrder == [][InOrder]_vars

(* A server whose input has ended exits, with every question answered; a wake *)
(* that waits runs, unless a run fails, the server is closed, or the client    *)
(* leaves a question open.                                                   *)
Asks(i) == questions[i].at = "waiting"
AsksInVain(i) == Asks(i) /\ closed
Told(i) == questions[i].at = "returned"
Waits(w) == w \in ToSet(pending) /\ ~closed /\ ~\E i \in Input : Asks(i)
InputEnded == reader.at = "ends"
Exited == reader.at = "exited"
RpcLive ==
  /\ InputEnded ~> Exited
  /\ \A i \in Input : AsksInVain(i) ~> Told(i)
  /\ \A w \in Wake : Waits(w) ~> ~Waits(w)
=============================================================================
