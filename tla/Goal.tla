-------------------------------- MODULE Goal --------------------------------
(* Goal mode, internal/officialext/goal: a goal kept in the session, the hooks *)
(* that continue and stop the agent's runs for it, the commands of the user,   *)
(* changes of the session, failing appends, and deaths of the process.         *)
EXTENDS Naturals, FiniteSets

CONSTANTS Sessions,
          MaxGoals,       \* goals ever started
          Limits,         \* values of --max-steps, 0 for none
          TurnsPerStep,   \* turnsPerStep, 10 in the code
          NoProgressLimit,\* noProgressLimit, 5 in the code
          MaxTurns,       \* model requests
          MaxCommands,    \* commands of the user, and prompts
          MaxFailures     \* failing appends and follow-ups
          , MaxChanges    \* changes of the session, deaths and stops

VARIABLES stored,     \* the last goal_state entry of every session
          goal, persisted, sessionID, haltRun, completionRun, finalTurn, failed,  \* fields of state
          host,       \* the session of the front end
          hook,       \* the session_change event being handled, and one that waits
          command,    \* the command of the user being executed
          wake,       \* whether a start message waits to become a prompt
          run,        \* the run of the agent
          requests,   \* the model requests made for every goal
          home,       \* the session every goal was started in
          slipped,  \* whether a late event undid something newer, or the pause of a restored
                      \* goal could not be recorded
          used        \* how much of the bounds is used

fields == <<goal, persisted, sessionID, haltRun, completionRun, finalTurn, failed>>
flags == <<haltRun, completionRun, finalTurn>>
ghosts == <<requests, home, slipped>>
vars == <<stored, fields, host, hook, command, wake, run, ghosts, used>>

None == [id |-> 0, status |-> "none", max |-> 0, steps |-> 0, turns |-> 0, idle |-> 0,
         news |-> FALSE, progress |-> FALSE]
NoRun == [at |-> "idle", stop |-> "none", halted |-> "none", after |-> 0]
NoHook == [at |-> "none", id |-> "none", loaded |-> None, next |-> "none"]
NoCommand == [op |-> "none", at |-> "none", max |-> 0]

Init ==
  /\ host \in Sessions /\ sessionID = host
  /\ stored = [s \in Sessions |-> None]
  /\ goal = None /\ persisted = None
  /\ haltRun = FALSE /\ completionRun = FALSE /\ finalTurn = FALSE /\ failed = FALSE
  /\ hook = NoHook /\ command = NoCommand /\ wake = FALSE /\ run = NoRun
  /\ requests = [g \in 1..MaxGoals |-> 0] /\ home = [g \in 1..MaxGoals |-> "none"]
  /\ slipped = FALSE
  /\ used = [turns |-> 0, commands |-> 0, failures |-> 0, changes |-> 0]

Started == Cardinality({g \in 1..MaxGoals : home[g] # "none"})

-----------------------------------------------------------------------------
(* Recording. *)

Spend(what, limit) == used[what] < limit /\ used' = [used EXCEPT ![what] = @ + 1]

(* persistLocked with sid as sessionID: the front end refuses an entry for    *)
(* another session, an append may fail, and then memory returns to what was  *)
(* persisted.  after: what the caller does to memory when it failed.          *)
PersistAs(sid, new, old, after(_)) ==
  \/ /\ sid = host
     /\ stored' = [stored EXCEPT ![sid] = new]
     /\ goal' = new /\ persisted' = new /\ failed' = FALSE
     /\ UNCHANGED used
  \/ /\ IF sid = host THEN Spend("failures", MaxFailures) ELSE UNCHANGED used
     /\ goal' = after(old) /\ persisted' = old /\ failed' = (failed \/ after(old) # old)
     /\ UNCHANGED stored
Keep(old) == old
(* A caller that must stop says so even when it cannot be recorded. *)
Paused(g) == [g EXCEPT !.status = "paused"]
(* Whether an append of new, which differs from what was there, succeeded. *)
Recorded(new) == stored'[host] = new
Persist(new, after(_)) == PersistAs(sessionID, new, persisted, after)

Restored(g) == IF g.status = "active" THEN Paused(g) ELSE g

(* refreshCurrentLocked: memory becomes the last entry of the session of the  *)
(* front end; a goal that was active in another session is paused.            *)
Refresh ==
  /\ sessionID' = host
  /\ IF stored[host].status = "active" /\ host # sessionID
     THEN PersistAs(host, Paused(stored[host]), stored[host], Keep)
     ELSE /\ goal' = stored[host] /\ persisted' = stored[host]
          /\ UNCHANGED <<stored, failed, used>>
RefreshFailed == host # sessionID /\ goal'.status = "active"

-----------------------------------------------------------------------------
(* Commands of the user: start and resume need an idle front end, clear does not. *)

UserCommand(op) ==
  /\ command = NoCommand
  /\ op # "clear" => run.at = "idle" /\ ~wake
  /\ Spend("commands", MaxCommands)
  /\ \E m \in IF op = "start" THEN Limits ELSE {0} : command' = [op |-> op, at |-> "refresh", max |-> m]
  /\ UNCHANGED <<stored, fields, host, hook, wake, run, ghosts>>

(* A goal whose state could not be recorded takes no command. *)
CommandRefreshes ==
  /\ command.at = "refresh"
  /\ IF failed
     THEN command' = NoCommand /\ UNCHANGED <<stored, fields, slipped, used>>
     ELSE /\ Refresh
          /\ command' = IF RefreshFailed THEN NoCommand ELSE [command EXCEPT !.at = "act"]
          /\ slipped' = (slipped \/ RefreshFailed)
          /\ UNCHANGED flags
  /\ UNCHANGED <<host, hook, wake, run, requests, home>>

NewGoal(m) == [None EXCEPT !.id = Started + 1, !.status = "active", !.max = m]

(* startGoal; followUp tells the command from the tool. *)
StartGoal(m, followUp) ==
  /\ Started < MaxGoals
  /\ Persist(NewGoal(m), Keep)
  /\ home' = IF Recorded(NewGoal(m)) THEN [home EXCEPT ![Started + 1] = sessionID] ELSE home
  /\ command' = IF ~followUp THEN command
                ELSE IF Recorded(NewGoal(m)) THEN [command EXCEPT !.at = "follow up"] ELSE NoCommand
  /\ UNCHANGED <<flags, requests, slipped>>

CommandStarts ==
  /\ command.op = "start" /\ command.at = "act"
  /\ IF goal.status = "active"
     THEN command' = NoCommand /\ UNCHANGED <<stored, fields, ghosts, used>>
     ELSE StartGoal(command.max, TRUE) /\ UNCHANGED sessionID
  /\ UNCHANGED <<host, hook, wake, run>>

Exhausted(g) == g.max > 0 /\ (g.steps >= g.max \/ g.turns >= g.max * TurnsPerStep)

CommandResumes ==
  /\ command.op = "resume" /\ command.at = "act"
  /\ IF goal.status # "paused" \/ Exhausted(goal)
     THEN command' = NoCommand /\ UNCHANGED <<stored, fields, used>>
     ELSE /\ haltRun' = FALSE
          /\ Persist([goal EXCEPT !.status = "active", !.idle = 0], Keep)
          /\ command' = IF goal'.status = "active" THEN [command EXCEPT !.at = "follow up"] ELSE NoCommand
          /\ UNCHANGED <<sessionID, completionRun, finalTurn>>
  /\ UNCHANGED <<host, hook, wake, run, ghosts>>

(* clear: a run in progress stops before its next request. *)
CommandClears ==
  /\ command.op = "clear" /\ command.at = "act"
  /\ IF goal.status \in {"none", "cleared"} THEN UNCHANGED <<stored, fields, used, run>>
     ELSE /\ haltRun' = (haltRun \/ goal.status = "active")
          /\ run' = IF goal.status = "active" /\ run.at # "idle" THEN [run EXCEPT !.halted = "cleared", !.after = 0] ELSE run
          /\ Persist([goal EXCEPT !.status = "cleared"], Keep)
          /\ UNCHANGED <<sessionID, completionRun, finalTurn>>
  /\ command' = NoCommand
  /\ UNCHANGED <<host, hook, wake, ghosts>>

(* The start message is handed to the front end; when that fails the goal is *)
(* paused, if it is still active.                                             *)
CommandFollowsUp ==
  /\ command.at = "follow up"
  /\ \/ wake' = TRUE /\ command' = NoCommand /\ UNCHANGED used
     \/ Spend("failures", MaxFailures) /\ command' = [command EXCEPT !.at = "pause"] /\ UNCHANGED wake
  /\ UNCHANGED <<stored, fields, host, hook, run, ghosts>>

CommandPauses ==
  /\ command.at = "pause"
  /\ command' = NoCommand
  /\ IF goal.status # "active" THEN UNCHANGED <<stored, fields, used>>
     ELSE /\ haltRun' = TRUE
          /\ Persist(Paused(goal), Keep)
          /\ UNCHANGED <<sessionID, completionRun, finalTurn>>
  /\ UNCHANGED <<host, hook, wake, run, ghosts>>

-----------------------------------------------------------------------------
(* A run of the agent and the hooks it calls. *)

RunStarts(byWake) ==
  /\ run.at = "idle" /\ command.op \in {"none", "clear"}
  /\ IF byWake THEN wake /\ wake' = FALSE /\ UNCHANGED used
     ELSE UNCHANGED wake /\ Spend("commands", MaxCommands)
  /\ run' = [NoRun EXCEPT !.at = "before"]
  /\ UNCHANGED <<stored, fields, host, hook, command, ghosts>>

Ending(stop) == [run EXCEPT !.at = "ending", !.stop = stop]
Requesting == [run EXCEPT !.at = "turn", !.after = IF run.halted = "none" THEN 0 ELSE @ + 1]

(* The request goes out, counted for the goal it is made for. *)
BeforeGoalTurn ==
  \/ /\ Persist([goal EXCEPT !.turns = @ + 1], Keep)
     /\ IF Recorded([goal EXCEPT !.turns = @ + 1])
        THEN /\ run' = Requesting /\ requests' = [requests EXCEPT ![goal.id] = @ + 1]
        ELSE /\ run' = Ending("error") /\ UNCHANGED requests
     /\ UNCHANGED <<sessionID, flags, home, slipped>>

(* beforeAgent; used.turns bounds the requests. *)
BeforeAgent ==
  /\ run.at = "before"
  /\ CASE haltRun ->
            /\ haltRun' = FALSE /\ run' = Ending("goal_paused")
            /\ UNCHANGED <<stored, goal, persisted, sessionID, completionRun, finalTurn, failed, used, ghosts>>
       [] ~haltRun /\ failed ->
            run' = Ending("goal_state_error") /\ UNCHANGED <<stored, fields, used, ghosts>>
       [] OTHER ->
            /\ Refresh
            /\ run' = IF RefreshFailed THEN Ending("error") ELSE [run EXCEPT !.at = "refreshed"]
            /\ UNCHANGED <<flags, ghosts>>
  /\ UNCHANGED <<host, hook, command, wake>>

(* The rest of beforeAgent, with nothing in between: see Next. *)
BeforeAgentRefreshed ==
  /\ run.at = "refreshed"
  /\ \/ /\ completionRun /\ finalTurn
        /\ finalTurn' = FALSE /\ run' = Requesting
        /\ UNCHANGED <<stored, goal, persisted, sessionID, haltRun, completionRun, failed, used, ghosts>>
     \/ /\ completionRun /\ ~finalTurn
        /\ run' = Ending("goal_completed") /\ UNCHANGED <<stored, fields, used, ghosts>>
     \/ /\ ~completionRun /\ goal.status # "active"
        /\ run' = Requesting /\ UNCHANGED <<stored, fields, used, ghosts>>
     \/ /\ ~completionRun /\ goal.status = "active" /\ goal.max > 0
        /\ goal.turns >= goal.max * TurnsPerStep
        /\ Persist(Paused(goal), Paused)
        /\ run' = Ending("goal_turn_limit")
        /\ UNCHANGED <<sessionID, flags, ghosts>>
     \/ /\ ~completionRun /\ goal.status = "active"
        /\ goal.max > 0 => goal.turns < goal.max * TurnsPerStep
        /\ BeforeGoalTurn
  /\ UNCHANGED <<host, hook, command, wake>>

(* What the tools of a turn do. *)
StartTool ==
  /\ run.at = "turn" /\ goal.status # "active"
  /\ \E m \in Limits : StartGoal(m, FALSE)
  /\ UNCHANGED <<sessionID, host, hook, wake, run>>
ProgressTool ==
  /\ run.at = "turn" /\ goal.status = "active" /\ ~goal.news
  /\ Persist([goal EXCEPT !.news = TRUE, !.progress = TRUE], Keep)
  /\ UNCHANGED <<sessionID, flags, host, hook, command, wake, run, ghosts>>
CompleteTool ==
  /\ run.at = "turn" /\ goal.status = "active" /\ goal.progress
  /\ Persist([goal EXCEPT !.status = "completed"], Keep)
  /\ IF goal'.status = "completed"
     THEN /\ completionRun' = TRUE /\ finalTurn' = TRUE
          /\ run' = [run EXCEPT !.halted = "completed", !.after = 0]
     ELSE UNCHANGED <<completionRun, finalTurn, run>>
  /\ UNCHANGED <<sessionID, haltRun, host, hook, command, wake, ghosts>>
ToolDenied ==
  /\ run.at = "turn"
  /\ goal.status = "active" \/ (goal.status = "completed" /\ completionRun)
  /\ haltRun' = TRUE /\ completionRun' = FALSE /\ finalTurn' = FALSE
  /\ Persist(Paused(goal), Paused)
  /\ run' = [run EXCEPT !.halted = "denied", !.after = 0]
  /\ UNCHANGED <<sessionID, host, hook, command, wake, ghosts>>

(* The answer had tool calls, one of which may have been denied, and another   *)
(* turn follows, or had none.                                                 *)
TurnEnds ==
  /\ run.at = "turn" /\ used.turns < MaxTurns
  /\ \/ run' = [run EXCEPT !.at = "before"]
     \/ run.halted # "denied" /\ run' = [run EXCEPT !.at = "agent_end"]
  /\ used' = [used EXCEPT !.turns = @ + 1]
  /\ UNCHANGED <<stored, fields, host, hook, command, wake, ghosts>>

(* Canceled, failed, or at a limit of notch. *)
TurnStops ==
  /\ run.at = "turn"
  /\ \E stop \in {"canceled", "error"} : run' = Ending(stop)
  /\ UNCHANGED <<stored, fields, host, hook, command, wake, ghosts, used>>

(* Mutant: the limit is looked at one step late. *)
SteppedLate(g) ==
  LET n == IF g.news THEN 0 ELSE g.idle + 1
      stops == (g.max > 0 /\ g.steps >= g.max) \/ n >= NoProgressLimit
  IN [g EXCEPT !.steps = @ + 1, !.news = FALSE, !.idle = n,
               !.status = IF stops THEN "paused" ELSE "active"]

(* agentEnd: one work step is over; a goal without limit, with progress, goes *)
(* on, unless a message of the user is queued, which goes first.              *)
Stepped(g) ==
  LET n == IF g.news THEN 0 ELSE g.idle + 1
      stops == (g.max > 0 /\ g.steps + 1 >= g.max) \/ n >= NoProgressLimit
  IN [g EXCEPT !.steps = @ + 1, !.news = FALSE, !.idle = n,
               !.status = IF stops THEN "paused" ELSE "active"]
AgentEnd ==
  /\ run.at = "agent_end"
  /\ IF goal.status # "active"
     THEN run' \in {[run EXCEPT !.at = "before"], Ending("end_turn")} /\ UNCHANGED <<stored, fields, used>>
     ELSE /\ Persist(Stepped(goal), Keep)
          /\ run' \in IF ~Recorded(Stepped(goal)) THEN {Ending("error")}
                      ELSE IF goal'.status = "active" THEN {[run EXCEPT !.at = "before"]}
                      ELSE {[run EXCEPT !.at = "before"], Ending("end_turn")}
          /\ UNCHANGED <<sessionID, flags>>
  /\ UNCHANGED <<host, hook, command, wake, ghosts>>

(* runEnd: whatever ended the run, no flag of it stays, and a goal that was    *)
(* active is paused unless the run ended by itself.  The cost is recorded too. *)
RunEnd ==
  /\ run.at = "ending"
  /\ haltRun' = FALSE /\ completionRun' = FALSE /\ finalTurn' = FALSE
  /\ IF goal.status \in {"none", "cleared"} THEN UNCHANGED <<stored, goal, persisted, failed, used>>
     ELSE Persist(IF goal.status = "active" /\ run.stop # "end_turn" THEN Paused(goal) ELSE goal, Paused)
  /\ run' = NoRun
  /\ UNCHANGED <<sessionID, host, hook, command, wake, ghosts>>

-----------------------------------------------------------------------------
(* Changes of the session, and the asynchronous event that follows. *)

(* A front end with nothing to do changes the session; App.sessionChanged: an *)
(* event that waits is superseded, one that is being handled goes on.         *)
SessionChanges(s) ==
  /\ s # host /\ run.at = "idle" /\ command = NoCommand
  /\ Spend("changes", MaxChanges)
  /\ host' = s
  /\ hook' = IF hook.at = "none" THEN [NoHook EXCEPT !.at = "event", !.id = s]
             ELSE IF hook.at = "event" THEN [hook EXCEPT !.id = s] ELSE [hook EXCEPT !.next = s]
  /\ UNCHANGED <<stored, fields, command, wake, run, ghosts>>

(* sessionChange reads the entries of the front end's session, ... *)
HookReads ==
  /\ hook.at = "event"
  /\ hook' = [hook EXCEPT !.at = "read", !.loaded = stored[host]]
  /\ UNCHANGED <<stored, fields, host, command, wake, run, ghosts, used>>

(* ... and takes the lock. *)
HookApplies ==
  /\ hook.at = "read"
  /\ hook' = IF hook.next = "none" THEN NoHook ELSE [NoHook EXCEPT !.at = "event", !.id = hook.next]
  /\ IF sessionID = hook.id /\ goal.id # 0 /\ goal.id = hook.loaded.id /\ goal.status = "active"
     THEN UNCHANGED <<stored, fields, used, slipped>>
     ELSE /\ sessionID' = hook.id
          /\ haltRun' = FALSE /\ completionRun' = FALSE /\ finalTurn' = FALSE
          /\ IF hook.loaded.status = "active"
             THEN PersistAs(hook.id, Paused(hook.loaded), hook.loaded, Keep)
             ELSE /\ goal' = hook.loaded /\ persisted' = hook.loaded /\ failed' = FALSE
                  /\ UNCHANGED <<stored, used>>
          /\ slipped' = (slipped \/ hook.loaded # stored[hook.id] \/ goal'.status = "active"
                               \/ haltRun \/ completionRun)
  /\ UNCHANGED <<host, command, wake, run, requests, home>>

(* The process ends, after shutdown's pause or without it, and starts again   *)
(* with a session, whose session_start hook runs before anything else.        *)
Restarts(s, stops) ==
  /\ Spend("changes", MaxChanges)
  /\ host' = s /\ sessionID' = s
  /\ LET left == IF stops /\ goal.status = "active" /\ sessionID = host
                 THEN [stored EXCEPT ![host] = Paused(goal)] ELSE stored
         now == Restored(left[s])
     IN stored' = [left EXCEPT ![s] = now] /\ goal' = now /\ persisted' = now
  /\ haltRun' = FALSE /\ completionRun' = FALSE /\ finalTurn' = FALSE /\ failed' = FALSE
  /\ hook' = NoHook /\ command' = NoCommand /\ wake' = FALSE /\ run' = NoRun
  /\ UNCHANGED ghosts

Quiet == run.at \in {"idle", "turn"} /\ UNCHANGED vars

(* "refreshed" is inside one critical section: nothing else comes in between. *)
Next ==
  \/ BeforeAgentRefreshed
  \/ /\ run.at # "refreshed"
     /\ \/ \E op \in {"start", "resume", "clear"} : UserCommand(op)
        \/ CommandRefreshes \/ CommandStarts \/ CommandResumes \/ CommandClears \/ CommandFollowsUp \/ CommandPauses
        \/ \E byWake \in BOOLEAN : RunStarts(byWake)
        \/ BeforeAgent \/ StartTool \/ ProgressTool \/ CompleteTool \/ ToolDenied
        \/ TurnEnds \/ TurnStops \/ AgentEnd \/ RunEnd
        \/ \E s \in Sessions : SessionChanges(s) \/ \E stops \in BOOLEAN : Restarts(s, stops)
        \/ HookReads \/ HookApplies
        \/ Quiet

Spec == Init /\ [][Next]_vars

-----------------------------------------------------------------------------
Statuses == {"none", "active", "paused", "cleared", "completed"}

\* The goal, what was persisted of it and what the sessions store have a status and a number.
TypeOK ==
  /\ \A g \in {goal, persisted} \cup {stored[s] : s \in Sessions} :
       g.status \in Statuses /\ g.id \in 0..MaxGoals
  /\ {haltRun, completionRun, finalTurn, failed, wake, slipped} \subseteq BOOLEAN
  /\ run.at \in {"idle", "before", "refreshed", "turn", "agent_end", "ending"}
  /\ hook.at \in {"none", "event", "read"}

(* Memory is what the session says, or says that it could not be recorded.    *)
MemoryIsRecorded ==
  /\ persisted = stored[sessionID]
  /\ goal # persisted => failed /\ goal.status = "paused"

(* A goal stays in the session it was started in. *)
GoalStaysHome == \A s \in Sessions : stored[s].id # 0 => home[stored[s].id] = s

(* The ceilings of a goal hold over all its runs, resumes and restarts: as    *)
(* many requests as recorded, and never more than its steps allow.            *)
CeilingsHold ==
  \A s \in Sessions : LET g == stored[s] IN
    g.id # 0 => /\ requests[g.id] <= g.turns
                /\ g.max > 0 => /\ g.steps <= g.max
                                /\ requests[g.id] <= g.max * TurnsPerStep
                /\ g.status = "active" => g.max = 0 \/ g.steps < g.max

(* After the user cleared a goal or a tool was denied no request of the run   *)
(* follows, after its completion one.                                         *)
HaltsInTime == run.after <= IF run.halted = "completed" THEN 1 ELSE 0

(* Goal mode keeps what it promises, over every order of commands, hooks,      *)
(* changes of the session, failures and deaths.                               *)
GoalSafe ==
  /\ TypeOK /\ GoalStaysHome
  /\ ~slipped => MemoryIsRecorded /\ CeilingsHold /\ HaltsInTime

(* Nobody finds a goal active that nothing works on: a run, the message that   *)
(* starts one, the command that sends it, or an event to come; a pause that    *)
(* could not be recorded is made up for by the next run.                       *)
ActiveIsWorkedOn ==
  stored[host].status = "active" =>
    \/ run.at # "idle" \/ wake \/ command # NoCommand
    \/ sessionID # host \/ failed \/ haltRun \/ slipped

(* A goal that was started is not replaced by an older one.                    *)
GoalIsKept == [][\A s \in Sessions : stored'[s].id >= stored[s].id]_stored
=============================================================================
