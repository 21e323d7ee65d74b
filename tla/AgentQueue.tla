----------------------------- MODULE AgentQueue -----------------------------
(***************************************************************************)
(* The steering and follow-up queues of internal/agent, between the        *)
(* goroutine that runs prompts, which holds Agent.mu from promptWithStart  *)
(* to its return, and the callers of Steer and FollowUp, which only take   *)
(* queueMu.  A queue event is built under queueMu and emitted after it is  *)
(* released: what happens in between is the point of the model.            *)
(*                                                                         *)
(* A message is its number (the N of its identifier q-N) and its mode.     *)
(* What the prompt does between two looks at the queue is AgentLoop.       *)
(***************************************************************************)
EXTENDS Integers, Sequences, FiniteSets, SequencesExt

CONSTANTS Sender,     \* goroutines that call Steer and FollowUp
          MaxQueued,  \* bound: messages accepted
          MaxRuns,    \* bound: prompts
          MaxTurns    \* Config.MaxTurns

VARIABLES processing,     \* Agent.processing, and whether queueEmit is set
          steering,       \* Agent.steering
          followUps,      \* Agent.followUps
          queueSequence,  \* Agent.queueSequence
          at,             \* where the goroutine of the prompt is
          held,           \* the message it took from a queue, or none
          offered,        \* agent_end returned a follow_up
          calls,          \* the last answer made tool calls
          turn, runs,
          sending,        \* the senders that have an event to emit
          snapshot,       \* the queue in the event of each goroutine
          pending,        \* the queue in the last queue_update emitted
          said,           \* the messages appended to the conversation
          lost            \* the messages whose append failed

queues == <<steering, followUps, queueSequence>>
prompt == <<at, held, offered, calls, turn, runs>>
frontend == <<sending, snapshot, pending>>
outcome == <<said, lost>>
vars == <<processing, queues, prompt, frontend, outcome>>

-----------------------------------------------------------------------------
Mode == {"steer", "follow_up"}

None == [id |-> 0, mode |-> "none"]

Automatic == [id |-> 0, mode |-> "automatic"]

Prompter == "prompter"

\* queueSnapshotLocked, after the change of the queues.
Snapshot(g) == snapshot' = [snapshot EXCEPT ![g] = steering' \o followUps']

Emitted(g) == snapshot' = [snapshot EXCEPT ![g] = <<>>]

Goto(s) == at' = s

-----------------------------------------------------------------------------
(* enqueueMessage                                                          *)

EnqueueAnyTime(s, mode) ==         \* a defect: accepted though no prompt runs
    /\ s \notin sending
    /\ queueSequence < MaxQueued
    /\ queueSequence' = queueSequence + 1
    /\ IF mode = "steer"
       THEN /\ steering' = Append(steering, [id |-> queueSequence + 1, mode |-> mode])
            /\ UNCHANGED followUps
       ELSE /\ followUps' = Append(followUps, [id |-> queueSequence + 1, mode |-> mode])
            /\ UNCHANGED steering
    /\ Snapshot(s)
    /\ sending' = sending \cup {s}
    /\ UNCHANGED <<processing, prompt, pending, outcome>>

\* Under queueMu; without a prompt the answer is ErrNotProcessing.
Enqueue(s, mode) ==
    /\ s \notin sending
    /\ processing
    /\ queueSequence < MaxQueued
    /\ queueSequence' = queueSequence + 1
    /\ IF mode = "steer"
       THEN /\ steering' = Append(steering, [id |-> queueSequence + 1, mode |-> mode])
            /\ UNCHANGED followUps
       ELSE /\ followUps' = Append(followUps, [id |-> queueSequence + 1, mode |-> mode])
            /\ UNCHANGED steering
    /\ Snapshot(s)
    /\ sending' = sending \cup {s}
    /\ UNCHANGED <<processing, prompt, pending, outcome>>

\* queue_update, after the unlock; only now does the caller know of the message.
EmitEnqueued(s) ==
    /\ s \in sending
    /\ pending' = snapshot[s]
    /\ sending' = sending \ {s}
    /\ Emitted(s)
    /\ UNCHANGED <<processing, queues, prompt, outcome>>

-----------------------------------------------------------------------------
(* The prompt: beginProcessing to endProcessing.                           *)

BeginProcessing ==
    /\ at = "idle"
    /\ runs < MaxRuns
    /\ runs' = runs + 1
    /\ processing' = TRUE
    /\ UNCHANGED queues
    /\ Snapshot(Prompter)
    /\ Goto("begin")
    /\ UNCHANGED <<held, offered, calls, turn, sending, pending, outcome>>

\* The queue an earlier prompt left, if any; then the prompt is appended, or
\* the context is done or the append fails.
EmitBegin ==
    /\ at = "begin"
    /\ pending' = IF snapshot[Prompter] = <<>> THEN pending ELSE snapshot[Prompter]
    /\ at' \in {"prompt", "ending"}
    /\ Emitted(Prompter)
    /\ UNCHANGED <<processing, queues, held, offered, calls, turn, runs, sending, outcome>>

TakeSteeringKeepingIt ==           \* a defect: the message is not removed
    /\ steering # <<>>
    /\ held' = Head(steering)
    /\ UNCHANGED <<steering, followUps>>

TakeSteering ==
    /\ steering # <<>>
    /\ held' = Head(steering) /\ steering' = Tail(steering)
    /\ UNCHANGED followUps

TakeLatestFollowUp ==              \* a defect: a stack
    /\ followUps # <<>>
    /\ held' = Last(followUps) /\ followUps' = Front(followUps)
    /\ UNCHANGED steering

TakeFollowUp ==
    /\ followUps # <<>>
    /\ held' = Head(followUps) /\ followUps' = Tail(followUps)
    /\ UNCHANGED steering

\* takeQueued("steer"), under queueMu, after the prompt's message and at the
\* end of every turn.
TakeQueuedSteer ==
    /\ at \in {"prompt", "boundary"}
    /\ TakeSteering
    /\ Snapshot(Prompter)
    /\ Goto("delivered")
    /\ UNCHANGED <<processing, queueSequence, offered, calls, turn, runs, sending, pending,
                   outcome>>

NoSteer ==
    /\ at \in {"prompt", "boundary"}
    /\ steering = <<>>
    /\ Goto(IF at = "prompt" \/ calls THEN "turn" ELSE "end")
    /\ UNCHANGED <<processing, queues, held, offered, calls, turn, runs, frontend, outcome>>

\* queue_delivered and queue_update, after the unlock.
EmitDelivered ==
    /\ at = "delivered"
    /\ pending' = snapshot[Prompter]
    /\ Goto("append")
    /\ Emitted(Prompter)
    /\ UNCHANGED <<processing, queues, held, offered, calls, turn, runs, sending, outcome>>

AppendHeldAutomatic ==             \* a defect: the hook's message passes for a queued one
    /\ at = "append"
    /\ \/ Goto("turn") /\ said' = Append(said, held) /\ UNCHANGED lost
       \/ Goto("ending") /\ lost' = lost \cup {held} /\ UNCHANGED said
    /\ held' = None
    /\ UNCHANGED <<processing, queues, offered, calls, turn, runs, frontend>>

\* appendMessage; the message was taken and announced whether it fails or not.
AppendHeld ==
    /\ at = "append"
    /\ \/ /\ Goto("turn")
          /\ said' = IF held = Automatic THEN said ELSE Append(said, held)
          /\ UNCHANGED lost
       \/ /\ Goto("ending")
          /\ lost' = IF held = Automatic THEN lost ELSE lost \cup {held}
          /\ UNCHANGED said
    /\ held' = None
    /\ UNCHANGED <<processing, queues, offered, calls, turn, runs, frontend>>

\* A turn that ends with the results of its tool calls, or without any calls.
Turn ==
    /\ at = "turn"
    /\ turn < MaxTurns
    /\ turn' = turn + 1
    /\ calls' \in BOOLEAN
    /\ Goto("boundary")
    /\ UNCHANGED <<processing, queues, held, offered, runs, frontend, outcome>>

\* A hook, the provider or an append fails, the run is aborted, or a limit is
\* reached.
TurnFails ==
    /\ at \in {"turn", "end"}
    /\ Goto("ending")
    /\ UNCHANGED <<processing, queues, held, offered, calls, turn, runs, frontend, outcome>>

\* The agent_end hook.
AgentEnd ==
    /\ at = "end"
    /\ offered' \in BOOLEAN
    /\ Goto("settle")
    /\ UNCHANGED <<processing, queues, held, calls, turn, runs, frontend, outcome>>

\* settleOrTakeQueuedOr, all of it under queueMu.
SettleTakes ==
    /\ at = "settle"
    /\ TakeSteering \/ (steering = <<>> /\ TakeFollowUp)
    /\ Snapshot(Prompter)
    /\ Goto("delivered")
    /\ offered' = FALSE
    /\ UNCHANGED <<processing, queueSequence, calls, turn, runs, sending, pending, outcome>>

SettleContinues ==
    /\ at = "settle"
    /\ steering = <<>> /\ followUps = <<>>
    /\ offered
    /\ held' = Automatic
    /\ Goto("append")
    /\ offered' = FALSE
    /\ UNCHANGED <<processing, queues, calls, turn, runs, frontend, outcome>>

SettleIgnoringFollowUps ==         \* a defect: only steering is looked at
    /\ at = "settle"
    /\ steering = <<>>
    /\ ~offered
    /\ processing' = FALSE
    /\ Goto("settled")
    /\ UNCHANGED <<queues, held, offered, calls, turn, runs, frontend, outcome>>

Settle ==
    /\ at = "settle"
    /\ steering = <<>> /\ followUps = <<>>
    /\ ~offered
    /\ processing' = FALSE
    /\ Goto("settled")
    /\ UNCHANGED <<queues, held, offered, calls, turn, runs, frontend, outcome>>

\* endProcessing and the unlock of Agent.mu.  After a run that settled the
\* goroutine rests at "idle" with nothing left; after one that failed the
\* queues keep what they hold for the next prompt.
EndProcessing ==
    /\ at \in {"settled", "ending"}
    /\ processing' = FALSE
    /\ Goto("idle")
    /\ turn' = 0 /\ calls' = FALSE
    /\ UNCHANGED <<queues, held, offered, runs, frontend, outcome>>

\* No more prompts.
Quiet == at = "idle" /\ runs = MaxRuns /\ sending = {} /\ UNCHANGED vars

-----------------------------------------------------------------------------
Init ==
    /\ processing = FALSE
    /\ steering = <<>> /\ followUps = <<>> /\ queueSequence = 0
    /\ at = "idle" /\ held = None
    /\ offered = FALSE /\ calls = FALSE /\ turn = 0 /\ runs = 0
    /\ sending = {}
    /\ snapshot = [g \in Sender \cup {Prompter} |-> <<>>]
    /\ pending = <<>>
    /\ said = <<>> /\ lost = {}

PromptStep ==
    \/ EmitBegin \/ TakeQueuedSteer \/ NoSteer \/ EmitDelivered \/ AppendHeld
    \/ Turn \/ TurnFails \/ AgentEnd
    \/ SettleTakes \/ SettleContinues \/ Settle \/ EndProcessing

Next ==
    \/ \E s \in Sender : (\E mode \in Mode : Enqueue(s, mode)) \/ EmitEnqueued(s)
    \/ BeginProcessing \/ PromptStep
    \/ Quiet

\* The goroutines are scheduled and the turns end.
Fairness == WF_vars(PromptStep) /\ \A s \in Sender : WF_vars(EmitEnqueued(s))

Spec == Init /\ [][Next]_vars /\ Fairness

-----------------------------------------------------------------------------
(* Properties.                                                             *)

Message == [id : Nat \ {0}, mode : Mode]

\* The types of the variables.
TypeOK ==
    /\ processing \in BOOLEAN
    /\ steering \in Seq(Message) /\ followUps \in Seq(Message)
    /\ queueSequence \in Nat
    /\ at \in {"idle", "begin", "prompt", "delivered", "append", "turn", "boundary",
               "end", "settle", "settled", "ending"}
    /\ held \in Message \cup {None, Automatic}
    /\ offered \in BOOLEAN /\ calls \in BOOLEAN
    /\ turn \in Nat /\ runs \in Nat
    /\ sending \subseteq Sender
    /\ snapshot \in [Sender \cup {Prompter} -> Seq(Message)]
    /\ pending \in Seq(Message)
    /\ said \in Seq(Message) /\ lost \subseteq Message

\* The places where message i is.
Places(i) ==
    {<<"steering", k>> : k \in {j \in 1..Len(steering) : steering[j].id = i}}
    \cup {<<"followUps", k>> : k \in {j \in 1..Len(followUps) : followUps[j].id = i}}
    \cup {<<"held", 0>> : m \in {held} \cap {x \in {held} : x.id = i}}
    \cup {<<"said", k>> : k \in {j \in 1..Len(said) : said[j].id = i}}
    \cup {<<"lost", 0>> : m \in {x \in lost : x.id = i}}

\* Every accepted message is queued, about to be appended, appended, or lost to
\* a failed append, and in one of these places only, however the senders and
\* the prompt interleave.
EachMessageOnce == \A i \in 1..queueSequence : Cardinality(Places(i)) = 1

\* A prompt that settles leaves no message behind, and none is accepted from
\* then on: a message that was accepted never waits for a prompt that may not
\* come, unless the run failed.
SettledLeavesNothing ==
    /\ at \in {"idle", "settled"} => ~processing
    /\ at = "settled" => steering = <<>> /\ followUps = <<>>

\* The messages of one mode are appended in the order they were accepted in.
DeliveredInOrder ==
    \A i, j \in 1..Len(said) :
        i < j /\ said[i].mode = said[j].mode => said[i].id < said[j].id

\* Every accepted message is in one place, a prompt that settles leaves none
\* behind, and each mode keeps its order (agent.go: Steer, FollowUp, settle).
QueueSafe == TypeOK /\ EachMessageOnce /\ SettledLeavesNothing /\ DeliveredInOrder

\* A follow-up that is accepted while a prompt runs is taken by that prompt,
\* unless the run fails.
Queued(i) == \E k \in 1..Len(followUps) : followUps[k].id = i
Taken(i) == at = "ending" \/ ~Queued(i)
Waits(i) == processing /\ Queued(i)
AcceptedIsTaken == \A i \in 1..MaxQueued : Waits(i) ~> Taken(i)

\* "pending messages remain visible above the composer until delivered"
\* (README.md): when nothing is going on the pending messages shown are those
\* in the queues.
PendingIsQueue == at = "idle" /\ sending = {} => pending = steering \o followUps
=============================================================================
