------------------------------- MODULE TuiLoop -------------------------------
(***************************************************************************)
(* The event loop of the terminal front end (internal/tui/app.go) and the  *)
(* goroutines around it: the prompt of the agent, extension commands, the  *)
(* loading of another session, and the extensions that wake the agent with *)
(* FollowUp and FollowUpFor.  They talk to the loop through one channel of *)
(* limited size, and the loop itself posts to it when it queues a message: *)
(* the agent emits the queue_update of an enqueue in the caller's          *)
(* goroutine.                                                              *)
(*                                                                         *)
(* The order of the agent's queue is left to AgentQueue: here it is a set. *)
(* Drawing, the composer and the streamed text are left out, and so is     *)
(* Handoff, which nothing outside the tests calls.                         *)
(***************************************************************************)
EXTENDS Naturals, Sequences, FiniteSets, SequencesExt

CONSTANTS Wake,         \* messages extensions send
          Guarded,      \* those they send with FollowUpFor
          Typed,        \* messages the user types
          BufferSize,   \* the capacity of App.events
          MaxSessions,  \* bound: sessions
          MaxCommands,  \* bound: commands, and loads of a session
          MaxDeltas,    \* bound: events a run emits on its own account
          MaxFailures   \* bound: runs that fail or are canceled

VARIABLES events,     \* App.events
          loop,       \* the event loop
          ui,         \* activeModel, activeCommand and the concurrent commands
          retained,   \* pendingFollowUps
          session,    \* the current session
          run,        \* the goroutine of the prompt
          queue,      \* the messages queued in the agent
          jobs,       \* the goroutines of commands and session loads
          wake,       \* the follow-ups: who they are for, and where they are
          delivered,  \* the messages given to the model, and in which session
          commands, deltas, failures

counters == <<commands, deltas, failures>>
vars == <<events, loop, ui, retained, session, run, queue, jobs, wake, delivered, counters>>

-----------------------------------------------------------------------------
Session == 1..MaxSessions

AnySession == 0

Room == Len(events) < BufferSize

Event(type, w) == [type |-> type, wake |-> w]

Plain == {Event(type, 0) : type \in {"agent", "promptDone", "command", "concurrent", "resume"}}

Wakeups == {Event("wake", w) : w \in Wake}

IdleRun == [at |-> "idle", processing |-> FALSE, canceled |-> FALSE, owed |-> 0]

\* post, by a goroutine that is not canceled, to the loop that is running.
Post(e) == Room /\ events' = Append(events, e)

-----------------------------------------------------------------------------
(* submit and the queue.                                                   *)

\* The prompt of message m in session s, by a user interface that was u.
Submit(m, u, s) ==
    /\ ui' = [u EXCEPT !.model = TRUE]
    /\ run' = [IdleRun EXCEPT !.at = "starting"]
    /\ delivered' = delivered \cup {[message |-> m, session |-> s]}

\* The agent takes m, and its queue_update goes to the channel.
Enqueue(m) ==
    /\ run.processing
    /\ queue' = queue \cup {m}
    /\ loop' = "posting"

LoopPosts ==
    /\ loop = "posting"
    /\ \/ Post(Event("agent", 0))
       \/ run.canceled /\ UNCHANGED events
    /\ loop' = "select"
    /\ UNCHANGED <<ui, retained, session, run, queue, jobs, wake, delivered, counters>>

-----------------------------------------------------------------------------
(* Keys.                                                                   *)

Unused(m) == m \notin queue /\ ~\E d \in delivered : d.message = m

\* Enter and Alt-Enter.  What cannot be queued stays in the composer.
Enter(m) ==
    /\ loop = "select" /\ Unused(m)
    /\ \/ ui.model /\ Enqueue(m) /\ UNCHANGED <<ui, run, delivered>>
       \/ ~ui.model /\ ~ui.command /\ Submit(m, ui, session) /\ UNCHANGED <<queue, loop>>
    /\ UNCHANGED <<events, retained, session, jobs, wake, counters>>

\* Ctrl-C.
Cancel ==
    /\ loop = "select"
    /\ ui.model /\ run.at # "idle" /\ ~run.canceled
    /\ failures < MaxFailures /\ failures' = failures + 1
    /\ run' = [run EXCEPT !.canceled = TRUE]
    /\ UNCHANGED <<events, loop, ui, retained, session, queue, jobs, wake, delivered, commands, deltas>>

\* /new.
NewConversation ==
    /\ loop = "select"
    /\ ~ui.model /\ ~ui.command
    /\ session < MaxSessions
    /\ session' = session + 1
    /\ UNCHANGED <<events, loop, ui, retained, run, queue, jobs, wake, delivered, counters>>

\* An extension command, or /resume.
StartCommand(type) ==
    /\ loop = "select"
    /\ ~ui.model /\ ~ui.command
    /\ commands < MaxCommands /\ commands' = commands + 1
    /\ ui' = [ui EXCEPT !.command = TRUE]
    /\ jobs' = [jobs EXCEPT ![type] = @ + 1]
    /\ UNCHANGED <<events, loop, retained, session, run, queue, wake, delivered, deltas, failures>>

\* An extension command that is allowed while the model streams.
StartConcurrent ==
    /\ loop = "select"
    /\ ui.model
    /\ commands < MaxCommands /\ commands' = commands + 1
    /\ ui' = [ui EXCEPT !.command = TRUE, !.concurrent = @ + 1]
    /\ jobs' = [jobs EXCEPT !["concurrent"] = @ + 1]
    /\ UNCHANGED <<events, loop, retained, session, run, queue, wake, delivered, deltas, failures>>

\* Ctrl-D, /exit: the posts that wait are released.
Exit ==
    /\ loop = "select"
    /\ loop' = "exited"
    /\ UNCHANGED <<events, ui, retained, session, run, queue, jobs, wake, delivered, counters>>

-----------------------------------------------------------------------------
(* applyEvent.                                                             *)

Stale(w, s) == wake[w].session \notin {AnySession, s}

Take(type) ==
    /\ loop = "select"
    /\ events # <<>> /\ Head(events).type = type
    /\ events' = Tail(events)

Drop(w) == wake' = [wake EXCEPT ![w].at = "dropped"]

DispatchUnchecked(u, s) ==         \* a defect: the session is not looked at again
    IF u.model \/ u.command \/ retained = <<>>
    THEN ui' = u /\ UNCHANGED <<retained, run, wake, delivered>>
    ELSE /\ retained' = Tail(retained)
         /\ Submit(Head(retained), u, s) /\ UNCHANGED wake

DispatchPendingFollowUp(u, s) ==
    IF u.model \/ u.command \/ retained = <<>>
    THEN ui' = u /\ UNCHANGED <<retained, run, wake, delivered>>
    ELSE /\ retained' = Tail(retained)
         /\ IF Stale(Head(retained), s)
            THEN Drop(Head(retained)) /\ ui' = u /\ UNCHANGED <<run, delivered>>
            ELSE Submit(Head(retained), u, s) /\ UNCHANGED wake

AgentEvent ==
    /\ Take("agent")
    /\ UNCHANGED <<loop, ui, retained, session, run, queue, jobs, wake, delivered, counters>>

FinishPrompt ==
    /\ Take("promptDone")
    /\ DispatchPendingFollowUp([ui EXCEPT !.model = FALSE], session)
    /\ UNCHANGED <<loop, session, queue, jobs, counters>>

FinishCommandOnly ==               \* a defect: what was retained is not looked at
    /\ Take("command")
    /\ ui' = [ui EXCEPT !.command = FALSE]
    /\ UNCHANGED <<loop, retained, run, wake, delivered, session, queue, jobs, counters>>

FinishCommand ==
    /\ Take("command")
    /\ DispatchPendingFollowUp([ui EXCEPT !.command = FALSE], session)
    /\ UNCHANGED <<loop, session, queue, jobs, counters>>

FinishConcurrentAnyway ==          \* a defect: one of several commands ends them all
    /\ Take("concurrent")
    /\ DispatchPendingFollowUp([ui EXCEPT !.concurrent = @ - 1, !.command = FALSE], session)
    /\ UNCHANGED <<loop, session, queue, jobs, counters>>

FinishConcurrent ==
    /\ Take("concurrent")
    /\ DispatchPendingFollowUp([ui EXCEPT !.concurrent = @ - 1,
                                          !.command = (ui.concurrent > 1)], session)
    /\ UNCHANGED <<loop, session, queue, jobs, counters>>

\* The session is switched, or none was chosen or could be loaded.
FinishResume ==
    /\ Take("resume")
    /\ \E s \in {session, session + 1} \cap Session :
          /\ session' = s
          /\ DispatchPendingFollowUp([ui EXCEPT !.command = FALSE], s)
    /\ UNCHANGED <<loop, queue, jobs, counters>>

\* What becomes of the follow-up w: it is stale, it is kept for when the work
\* is done, the agent takes it, or it starts a prompt.
Arrives(w, keep) ==
    \/ /\ Stale(w, session)
       /\ Drop(w)
       /\ UNCHANGED <<loop, ui, retained, run, queue, delivered>>
    \/ /\ ~Stale(w, session) /\ keep
       /\ retained' = Append(retained, w)
       /\ UNCHANGED <<loop, ui, run, queue, wake, delivered>>
    \/ /\ ~Stale(w, session) /\ ui.model
       /\ Enqueue(w)
       /\ UNCHANGED <<ui, retained, run, wake, delivered>>
    \/ /\ ~Stale(w, session) /\ ~ui.model /\ ~ui.command
       /\ Submit(w, ui, session)
       /\ UNCHANGED <<loop, retained, queue, wake>>

CommandOnly == ui.command /\ ~ui.model

FollowUpLost ==                    \* a defect: ErrNotProcessing loses the message
    /\ Take("wake")
    /\ \/ Arrives(Head(events).wake, CommandOnly)
       \/ ui.model /\ ~run.processing /\ UNCHANGED <<loop, ui, retained, run, queue, wake, delivered>>
    /\ UNCHANGED <<session, jobs, counters>>

\* The agent may have settled before its promptDone is here.
FollowUpEvent ==
    /\ Take("wake")
    /\ Arrives(Head(events).wake, CommandOnly \/ (ui.model /\ ~run.processing))
    /\ UNCHANGED <<session, jobs, counters>>

-----------------------------------------------------------------------------
(* The goroutines.  After the loop has ended they do not matter.           *)

Running == loop # "exited"

\* FollowUp, or FollowUpFor the session that is current now.
FollowUp(w) ==
    /\ Running
    /\ wake[w].at = "unsent"
    /\ wake' = [wake EXCEPT ![w] = [at |-> "sending",
                                    session |-> IF w \in Guarded THEN session ELSE AnySession]]
    /\ UNCHANGED <<events, loop, ui, retained, session, run, queue, jobs, delivered, counters>>

FollowUpPosts(w) ==
    /\ Running
    /\ wake[w].at = "sending"
    /\ Post(Event("wake", w))
    /\ wake' = [wake EXCEPT ![w].at = "posted"]
    /\ UNCHANGED <<loop, ui, retained, session, run, queue, jobs, delivered, counters>>

JobEnds(type) ==
    /\ Running
    /\ jobs[type] > 0
    /\ Post(Event(type, 0))
    /\ jobs' = [jobs EXCEPT ![type] = @ - 1]
    /\ UNCHANGED <<loop, ui, retained, session, run, queue, wake, delivered, counters>>

RunBegins ==
    /\ Running
    /\ run.at = "starting"
    /\ run' = [run EXCEPT !.at = "running", !.processing = TRUE,
                          !.owed = IF queue = {} THEN 0 ELSE 1]
    /\ UNCHANGED <<events, loop, ui, retained, session, queue, jobs, wake, delivered, counters>>

\* Text, tools and the other events of a run.
RunStreams ==
    /\ Running
    /\ run.at = "running" /\ run.owed = 0
    /\ deltas < MaxDeltas /\ deltas' = deltas + 1
    /\ run' = [run EXCEPT !.owed = 1]
    /\ UNCHANGED <<events, loop, ui, retained, session, queue, jobs, wake, delivered, commands, failures>>

\* The events of a canceled run may be dropped.
RunEmits ==
    /\ Running
    /\ run.owed > 0
    /\ Post(Event("agent", 0)) \/ (run.canceled /\ UNCHANGED events)
    /\ run' = [run EXCEPT !.owed = @ - 1]
    /\ UNCHANGED <<loop, ui, retained, session, queue, jobs, wake, delivered, counters>>

\* takeQueued and settleOrTakeQueuedOr: queue_delivered and queue_update follow.
RunTakes ==
    /\ Running
    /\ run.at = "running" /\ run.owed = 0
    /\ \E m \in queue :
          /\ queue' = queue \ {m}
          /\ delivered' = delivered \cup {[message |-> m, session |-> session]}
    /\ run' = [run EXCEPT !.owed = 2]
    /\ UNCHANGED <<events, loop, ui, retained, session, jobs, wake, counters>>

RunSettles ==
    /\ Running
    /\ run.at = "running" /\ run.owed = 0
    /\ queue = {}
    /\ run' = [run EXCEPT !.at = "ended", !.processing = FALSE]
    /\ UNCHANGED <<events, loop, ui, retained, session, queue, jobs, wake, delivered, counters>>

\* An error ends the run; what is queued stays queued.
RunFails ==
    /\ Running
    /\ run.at = "running" /\ run.owed = 0
    /\ IF run.canceled THEN UNCHANGED failures
       ELSE failures < MaxFailures /\ failures' = failures + 1
    /\ run' = [run EXCEPT !.at = "ended", !.processing = FALSE]
    /\ UNCHANGED <<events, loop, ui, retained, session, queue, jobs, wake, delivered, commands, deltas>>

RunDone ==
    /\ Running
    /\ run.at = "ended"
    /\ Post(Event("promptDone", 0))
    /\ run' = [run EXCEPT !.at = "idle"]
    /\ UNCHANGED <<loop, ui, retained, session, queue, jobs, wake, delivered, counters>>

\* The program has ended.
Quiet == loop = "exited" /\ UNCHANGED vars

-----------------------------------------------------------------------------
Init ==
    /\ events = <<>>
    /\ loop = "select"
    /\ ui = [model |-> FALSE, command |-> FALSE, concurrent |-> 0]
    /\ retained = <<>>
    /\ session = 1
    /\ run = IdleRun
    /\ queue = {}
    /\ jobs = [type \in {"command", "resume", "concurrent"} |-> 0]
    /\ wake = [w \in Wake |-> [at |-> "unsent", session |-> AnySession]]
    /\ delivered = {}
    /\ commands = 0 /\ deltas = 0 /\ failures = 0

Key ==
    \/ \E m \in Typed : Enter(m)
    \/ \E type \in {"command", "resume"} : StartCommand(type)
    \/ Cancel \/ NewConversation \/ StartConcurrent \/ Exit

LoopStep ==
    \/ LoopPosts
    \/ AgentEvent \/ FinishPrompt \/ FinishCommand \/ FinishConcurrent \/ FinishResume \/ FollowUpEvent

RunStep == RunBegins \/ RunEmits \/ RunTakes \/ RunSettles \/ RunDone

AFollowUpPosts == \E w \in Wake : FollowUpPosts(w)

AJobEnds == \E type \in DOMAIN jobs : JobEnds(type)

Next ==
    \/ Key \/ LoopStep \/ RunStep \/ RunStreams \/ RunFails
    \/ \E w \in Wake : FollowUp(w)
    \/ AFollowUpPosts \/ AJobEnds
    \/ Quiet

Spec == Init /\ [][Next]_vars

-----------------------------------------------------------------------------
(* Properties.                                                             *)

\* The types of the variables.
TypeOK ==
    /\ events \in Seq(Plain \cup Wakeups) /\ Len(events) <= BufferSize
    /\ loop \in {"select", "posting", "exited"}
    /\ ui \in [model : BOOLEAN, command : BOOLEAN, concurrent : 0..MaxCommands]
    /\ retained \in Seq(Wake)
    /\ session \in Session
    /\ run \in [at : {"idle", "starting", "running", "ended"}, processing : BOOLEAN,
                canceled : BOOLEAN, owed : 0..2]
    /\ queue \subseteq Wake \cup Typed
    /\ jobs \in [{"command", "resume", "concurrent"} -> 0..MaxCommands]
    /\ wake \in [Wake -> [at : {"unsent", "sending", "posted", "dropped"},
                          session : Session \cup {AnySession}]]
    /\ delivered \subseteq [message : Wake \cup Typed, session : Session]

Count(type) == Len(SelectSeq(events, LAMBDA e : e.type = type))

\* What the user interface believes is running is running, or its end is on the
\* way: there is never a second prompt beside one, and no command is forgotten.
BusyIsBusy ==
    /\ ui.model <=> (run.at # "idle" \/ Count("promptDone") > 0)
    /\ ui.command <=> \E type \in DOMAIN jobs : jobs[type] + Count(type) > 0
    /\ Count("promptDone") + (IF run.at = "idle" THEN 0 ELSE 1) <= 1

\* The places where w is.
Places(w) ==
    (IF wake[w].at \in {"unsent", "sending", "dropped"} THEN 1 ELSE 0)
    + Cardinality({i \in DOMAIN events : events[i] = Event("wake", w)})
    + Cardinality({i \in DOMAIN retained : retained[i] = w})
    + (IF w \in queue THEN 1 ELSE 0)
    + Cardinality({d \in delivered : d.message = w})

\* A follow-up is neither lost nor duplicated, whatever runs when it comes.
OnePlace == \A w \in Wake : Places(w) = 1

\* The event loop is in a post to the channel that it alone reads, and the
\* channel is full.
Blocked == loop = "posting" /\ ~Room /\ ~run.canceled

\* "[...] allowing RPC/TUI status and queued messages to stay responsive"
\* (docs/architecture.md): the loop never waits for itself.
LoopResponds == ~Blocked

\* "FollowUpFor queues a follow-up only for the named durable session [...]
\* closing the race with /new and /resume" (app.go): the model never reads a
\* guarded follow-up in another session, as long as no run has failed or was
\* canceled (what such a run has queued is read by the next one).
OwnSession ==
    failures = 0 =>
        \A w \in Guarded, d \in delivered : d.message = w => d.session = wake[w].session

\* A follow-up waits for the loop; it was given to the model, or will not be: a
\* run failed, the user left or changed the session, the loop waits for itself.
Sending(w) == wake[w].at = "sending"

Heard(w) ==
    \/ \E d \in delivered : d.message = w
    \/ loop = "exited" \/ Blocked
    \/ failures > 0 \/ session > 1
=============================================================================
