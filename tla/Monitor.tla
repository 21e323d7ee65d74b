------------------------------- MODULE Monitor -------------------------------
(* Background monitors (internal/officialext/monitor/monitor.go): the tool  *)
(* that starts one, its watch goroutine, stop_monitor, the shutdown of the  *)
(* session, and the process they all reach. state.mu guards the records; it *)
(* is free while a process is cancelled, a hook runs or the agent is woken. *)
EXTENDS Naturals, FiniteSets, FiniteSetsExt

CONSTANTS Mon,          \* monitors, each started at most once
          MaxCompleted  \* maxCompleted: how many that are over are kept

VARIABLES
  record,   \* the monitors' records
  listed,   \* state.monitors
  order,    \* when each was completed, as a rank
  kind,     \* trigger and stopOnTrigger
  process,  \* "none", "running", "killed", "failed" (non-zero exit) or "succeeded"
  open,     \* something may still write to the output: the process or one it started
  matched,  \* the output matches the pattern
  starter,  \* the tool call: "idle", "spawned", "registered", "over"
  watch,    \* the goroutine: "no", "loop", "wake", "finished", "last wake" or "over"
  stopper,  \* stop_monitor: "idle", "marked", "over"
  closing,  \* session_shutdown: "no", or the monitors still to be cancelled
  flight,   \* hooks under way: the event and its monitor
  told,     \* how often the hooks were told of each event
  wakes     \* follow-ups sent to the agent

vars == <<record, listed, order, kind, process, open, matched, starter, watch, stopper, closing,
          flight, told, wakes>>
World == <<kind, process, open, matched>>
Hooks == <<flight, told>>

\* stopOnTrigger acts on an output that matches (or a timeout, which is alike).
Kind == {[trigger |-> "exit", stop |-> FALSE], [trigger |-> "output_match", stop |-> FALSE],
         [trigger |-> "output_match", stop |-> TRUE]}

Init ==
  /\ record = [m \in Mon |-> [status |-> "none", completed |-> FALSE, triggered |-> FALSE]]
  /\ listed = {} /\ order = [m \in Mon |-> 0]
  /\ kind \in [Mon -> Kind]
  /\ process = [m \in Mon |-> "none"] /\ open = [m \in Mon |-> FALSE]
  /\ matched = [m \in Mon |-> FALSE]
  /\ starter = [m \in Mon |-> "idle"] /\ watch = [m \in Mon |-> "no"]
  /\ stopper = [m \in Mon |-> "idle"] /\ closing = {"no"}
  /\ flight = {}
  /\ told = [m \in Mon |-> [monitor_start |-> 0, monitor_end |-> 0]]
  /\ wakes = [m \in Mon |-> 0]

Active(m) == ~record[m].completed /\ record[m].status \in {"running", "triggered"}
ActiveOnes == {m \in listed : Active(m)}
Exited(m) == process[m] \in {"killed", "failed", "succeeded"}

\* emitLifecycle: the hooks run after the mutex is released.
Emit(event, m) == flight' = flight \union {[event |-> event, of |-> m]}

HooksRun ==
  /\ \E f \in flight :
       /\ flight' = flight \ {f}
       /\ told' = [told EXCEPT ![f.of][f.event] = @ + 1]
  /\ UNCHANGED <<record, listed, order, World, starter, watch, stopper, closing, wakes>>

\* The goroutine that emits waits for its hooks.
Quiet(event, m) == \A f \in flight : ~(f.event = event /\ f.of = m)

\* exec.CommandContext kills the process it has started and no other.
Cancel(ms) ==
  process' = [m \in Mon |-> IF m \in ms /\ process[m] = "running" THEN "killed" ELSE process[m]]

Rank == Max({order[m] : m \in Mon}) + 1

-----------------------------------------------------------------------------
(* start and startArgv: the process runs before its monitor is listed.      *)

Spawn(m) ==
  /\ starter[m] = "idle"
  /\ starter' = [starter EXCEPT ![m] = "spawned"]
  /\ process' = [process EXCEPT ![m] = "running"]
  /\ open' = [open EXCEPT ![m] = TRUE]
  /\ UNCHANGED <<record, listed, order, kind, matched, watch, stopper, closing, Hooks, wakes>>

List(m) ==
  /\ starter[m] = "spawned"
  /\ starter' = [starter EXCEPT ![m] = "registered"]
  /\ record' = [record EXCEPT ![m].status = "running"]
  /\ listed' = listed \union {m}
  /\ UNCHANGED <<order, World, watch, stopper, closing, Hooks, wakes>>

Announce(m) ==
  /\ starter[m] = "registered"
  /\ starter' = [starter EXCEPT ![m] = "announced"]
  /\ Emit("monitor_start", m)
  /\ UNCHANGED <<record, listed, order, World, watch, stopper, closing, told, wakes>>

Watch(m) ==
  /\ starter[m] = "announced" /\ Quiet("monitor_start", m)
  /\ starter' = [starter EXCEPT ![m] = "over"]
  /\ watch' = [watch EXCEPT ![m] = "loop"]
  /\ UNCHANGED <<record, listed, order, World, stopper, closing, Hooks, wakes>>

-----------------------------------------------------------------------------
(* watch *)

\* Mutant: trigger does not look whether the monitor is over.
FiresAgain(m) ==
  IF record[m].triggered THEN UNCHANGED record
  ELSE record' = [record EXCEPT ![m].triggered = TRUE,
                           ![m].status = IF kind[m].trigger # "exit" THEN "triggered" ELSE @]

\* trigger, by output that matches; a timeout does the same with the trigger
\* "timeout". A monitor that is over or has triggered is left alone.
Fires(m) ==
  IF record[m].triggered \/ ~Active(m) THEN UNCHANGED record
  ELSE record' = [record EXCEPT ![m].triggered = TRUE,
                                ![m].status = IF kind[m].trigger # "exit" THEN "triggered" ELSE @]

Trigger(m) ==
  /\ watch[m] = "loop" /\ kind[m].trigger = "output_match" /\ matched[m]
  /\ Fires(m)
  /\ watch' = [watch EXCEPT ![m] = IF record' # record THEN "wake" ELSE "matched"]
  /\ UNCHANGED <<listed, order, World, starter, stopper, closing, Hooks, wakes>>

\* wakeup, and stopOnTrigger's cancel after it
WakeUp(m) ==
  /\ watch[m] \in {"wake", "matched"}
  /\ wakes' = IF watch[m] = "wake" THEN [wakes EXCEPT ![m] = @ + 1] ELSE wakes
  /\ watch' = [watch EXCEPT ![m] = "drained"]
  /\ IF kind[m].stop THEN Cancel({m}) ELSE UNCHANGED process
  /\ UNCHANGED <<record, listed, order, kind, open, matched, starter, stopper, closing, Hooks>>

\* Mutant: only a failure wakes the agent.
NotifiesFailure(m) == ~record[m].triggered /\ process[m] # "succeeded"

Notifies(m) == ~record[m].triggered /\ (kind[m].trigger = "exit" \/ process[m] # "succeeded")

AfterFinish(m) ==
  [record[m] EXCEPT !.completed = TRUE,
     !.status = IF @ = "cancelled" THEN @ ELSE IF process[m] = "succeeded" THEN "completed" ELSE "failed",
     !.triggered = @ \/ Notifies(m)]

\* finish: cmd.Wait has returned (the process is gone and nothing else holds its
\* output), and the output was looked at once more. A stopped monitor keeps its
\* status, and its end was told already.
Finish(m) ==
  /\ watch[m] = "drained" \/ (watch[m] = "loop" /\ ~(kind[m].trigger = "output_match" /\ matched[m]))
  /\ Exited(m) /\ ~open[m]
  /\ record' = [record EXCEPT ![m] = AfterFinish(m)]
  /\ order' = [order EXCEPT ![m] = Rank]
  /\ LET over == {n \in listed : n = m \/ ~Active(n)}
         old == {n \in over : Cardinality({k \in over : order'[k] > order'[n]}) >= MaxCompleted} IN
     listed' = listed \ old
  /\ IF record[m].completed THEN UNCHANGED flight
     ELSE Emit("monitor_end", m)
  /\ watch' = [watch EXCEPT ![m] = IF Notifies(m) THEN "last wake" ELSE "over"]
  /\ UNCHANGED <<World, starter, stopper, closing, told, wakes>>

LastWake(m) ==
  /\ watch[m] = "last wake" /\ Quiet("monitor_end", m)
  /\ wakes' = [wakes EXCEPT ![m] = @ + 1]
  /\ watch' = [watch EXCEPT ![m] = "over"]
  /\ UNCHANGED <<record, listed, order, World, starter, stopper, closing, Hooks>>

-----------------------------------------------------------------------------
(* stop_monitor and session_shutdown: the record first, then the process.   *)

Stopped(ms) ==
  /\ record' = [m \in Mon |-> IF m \in ms THEN [record[m] EXCEPT !.status = "cancelled", !.completed = TRUE]
                              ELSE record[m]]
  /\ order' = [m \in Mon |-> IF m \in ms THEN Rank ELSE order[m]]

Stop(m) ==
  /\ stopper[m] = "idle" /\ m \in listed /\ Active(m)
  /\ Stopped({m})
  /\ stopper' = [stopper EXCEPT ![m] = "marked"]
  /\ UNCHANGED <<listed, World, starter, watch, closing, Hooks, wakes>>

StopCancels(m) ==
  /\ stopper[m] = "marked"
  /\ stopper' = [stopper EXCEPT ![m] = "over"]
  /\ Cancel({m})
  /\ Emit("monitor_end", m)
  /\ UNCHANGED <<record, listed, order, kind, open, matched, starter, watch, closing, told, wakes>>

Close ==
  /\ closing = {"no"}
  /\ closing' = ActiveOnes
  /\ Stopped(ActiveOnes)
  /\ UNCHANGED <<listed, World, starter, watch, stopper, Hooks, wakes>>

CloseCancels(m) ==
  /\ m \in closing
  /\ closing' = closing \ {m}
  /\ Cancel({m})
  /\ Emit("monitor_end", m)
  /\ UNCHANGED <<record, listed, order, kind, open, matched, starter, watch, stopper, told, wakes>>

-----------------------------------------------------------------------------
(* The process, and those it started, which may outlive it with its output. *)

Output(m) ==
  /\ open[m] /\ ~matched[m] /\ kind[m].trigger = "output_match"
  /\ matched' = [matched EXCEPT ![m] = TRUE]
  /\ UNCHANGED <<record, listed, order, kind, process, open, starter, watch, stopper, closing,
                 Hooks, wakes>>

Exit(m) ==
  /\ process[m] = "running"
  /\ \E code \in {"failed", "succeeded"} : process' = [process EXCEPT ![m] = code]
  /\ UNCHANGED <<record, listed, order, kind, open, matched, starter, watch, stopper, closing,
                 Hooks, wakes>>

LetGo(m) ==
  /\ open[m]
  /\ open' = [open EXCEPT ![m] = FALSE]
  /\ UNCHANGED <<record, listed, order, kind, process, matched, starter, watch, stopper, closing,
                 Hooks, wakes>>

Goroutines(m) ==
  List(m) \/ Announce(m) \/ Watch(m) \/ Trigger(m) \/ WakeUp(m) \/ Finish(m) \/ LastWake(m)
    \/ StopCancels(m) \/ CloseCancels(m)

Done == (\A m \in Mon : watch[m] = "over") /\ UNCHANGED vars

Next ==
  \/ \E m \in Mon : Spawn(m) \/ Goroutines(m) \/ Stop(m) \/ Output(m) \/ Exit(m) \/ LetGo(m)
  \/ HooksRun \/ Close \/ Done

Spec == Init /\ [][Next]_vars

\* The goroutines go on, and the hooks return (they have five seconds). When the process ends is
\* its own affair, unless it was cancelled, and so is when others let go of its output: nothing
\* the monitor does makes them (it has no process group and no WaitDelay).
FairSpec ==
  /\ Spec
  /\ WF_vars(HooksRun)
  /\ \A m \in Mon : WF_vars(Goroutines(m)) /\ WF_vars(StopCancels(m))
                      /\ WF_vars(CloseCancels(m))

-----------------------------------------------------------------------------
\* Monitors have one of their statuses, and their processes one of theirs.
TypeOK ==
  /\ record \in [Mon -> [status : {"none", "running", "triggered", "completed", "failed", "cancelled"},
                         completed : BOOLEAN, triggered : BOOLEAN]]
  /\ listed \subseteq Mon
  /\ process \in [Mon -> {"none", "running", "killed", "failed", "succeeded"}]
  /\ open \in [Mon -> BOOLEAN]

\* The trigger, the exit, a stop and the shutdown race for one monitor
\* (monitor.go:404, 418 and 473): the agent is woken at most once for it, and the
\* hooks hear of its start and of its end at most once.
OnceEach ==
  \A m \in Mon : /\ wakes[m] <= 1 /\ told[m].monitor_start <= 1
                 /\ told[m].monitor_end + Cardinality({f \in flight : f.of = m /\ f.event = "monitor_end"}) <= 1

\* A monitor that was stopped, or that the shutdown found, stays cancelled
\* whatever its process does, and the process is killed.
StoppedStays ==
  \A m \in Mon :
    stopper[m] # "idle" =>
      record[m].status = "cancelled" /\ (stopper[m] = "over" => Exited(m))

\* Pruning forgets only what is over; a monitor that is not is watched or will be.
ActiveIsManaged ==
  \A m \in Mon : Active(m) => /\ m \in listed
                              /\ watch[m] \notin {"over", "last wake"}

MonitorSafe == TypeOK /\ OnceEach /\ StoppedStays /\ ActiveIsManaged

\* Once the process of a monitor has ended, on its own or stopped, and nothing holds
\* its output any more (monitor.go:325), the monitor is finished and the hooks hear of
\* it; the agent hears of each end of a monitor that waits for one.
WaitReturns(m) == Exited(m) /\ ~open[m] /\ m \in listed
IsFinished(m) ==
  watch[m] = "over" /\ told[m].monitor_end = 1 /\ (kind[m].trigger = "exit" => wakes[m] = 1)
MonitorEnds == \A m \in Mon : WaitReturns(m) ~> IsFinished(m)

=============================================================================
