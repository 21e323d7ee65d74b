---------------------------- MODULE PluginCalls ----------------------------
(***************************************************************************)
(* The JSON-RPC traffic between notch and one extension process: the host  *)
(* side of internal/extension/plugin.go (Plugin) and the other end that    *)
(* the Go library plugin/plugin.go (Client) gives to extensions.           *)
(*                                                                         *)
(* On the host side there are the goroutines that call the plugin          *)
(* (Plugin.call), the goroutine that reads its output (readLoop), one      *)
(* goroutine for every request of the plugin (handleRequest), the one that *)
(* waits for the process, and finish, which any of them may enter but only *)
(* one executes.  In the plugin there are its reader, one handler for      *)
(* every request of the host, and the calls these handlers make to the     *)
(* host.  Two pipes of PipeSize messages connect them; a write to a full   *)
(* pipe waits.  A plugin that does not keep to the library may write any    *)
(* response at any time; what it writes so is counted.                     *)
(*                                                                         *)
(* tool.update notifications and what the requests are about are left out. *)
(***************************************************************************)
EXTENDS Naturals, Sequences, FiniteSets

CONSTANTS
  Calls,       \* the calls the host makes
  Initialize,  \* the first of Calls, made by startPlugin
  HostCalls,   \* the calls the plugin makes to the host, not in Calls
  PipeSize,    \* the messages a pipe holds before a write to it waits
  MaxRogue     \* bound: the responses the plugin writes unasked

VARIABLES
  \* the host
  call,          \* where each call is in Plugin.call
  ctxDone,       \* the calls whose context has been cancelled
  outcome,       \* what each call returned
  ch,            \* pendingCall.ch of each call, a channel of one slot
  pending,       \* p.pending
  canceled,      \* p.canceled
  stopErr,       \* p.stopErr: why the plugin stopped
  fin,           \* the progress of finish
  reader,        \* what readLoop is doing
  start,         \* the progress of startPlugin
  lease,         \* p.lease: is there something to unregister?
  registered,    \* does the registry hold the tools of the plugin?
  work,          \* the goroutine of each request of the plugin
  hostRequests,  \* p.hostRequests
  workCanceled,  \* the requests of the plugin whose context is cancelled
  \* the pipes
  toPlugin, toHost,
  \* the plugin
  rogue,         \* the responses nobody asked for that it has written
  alive,         \* does the process run?
  closed,        \* c.closed: has the library shut down?
  handler,       \* the goroutine of each request of the host
  requests,      \* c.requests
  handlerCanceled, \* the requests of the host whose context is cancelled
  hostCall,      \* where each call of the plugin is in Client.call
  owner,         \* the handler that made it
  sdkPending,    \* c.pending
  sdkCh          \* the calls of the plugin with an answer in their channel

callVars   == <<call, ctxDone, outcome, ch>>
stopVars   == <<pending, canceled, stopErr, fin, lease>>
startVars  == <<start, registered>>
workVars   == <<work, hostRequests, workCanceled>>
sdkVars    == <<closed, handler, requests, handlerCanceled, hostCall, owner, sdkPending, sdkCh>>
process    == <<rogue, alive>>
vars == <<callVars, stopVars, startVars, reader, workVars, toPlugin, toHost, process, sdkVars>>

Kinds == {"request", "cancel", "response", "bad"}
Message == [kind : Kinds, id : Calls \cup HostCalls]
Request(i)  == [kind |-> "request", id |-> i]
Cancel(i)   == [kind |-> "cancel", id |-> i]
Response(i) == [kind |-> "response", id |-> i]
\* A response with both a result and an error, or with neither.
Bad(i)      == [kind |-> "bad", id |-> i]

Idle == [do |-> "read"]
Nobody == "nobody"

\* The states of calls on both ends of the pipes; a slot holds at most one message.
TypeOK ==
  /\ call \in [Calls -> {"idle", "write", "wait", "cancel", "done"}]
  /\ ctxDone \subseteq Calls
  /\ outcome \in [Calls -> {"none", "result", "error", "canceled", "stopped"}]
  /\ ch \in [Calls -> {<<>>, <<"result">>, <<"error">>, <<"stopped">>}]
  /\ pending \subseteq Calls
  /\ canceled \subseteq Calls
  /\ stopErr \in {"none", "protocol", "eof", "exited", "closed"}
  /\ fin \in [stage : {"no", "unregister", "send", "done"}, calls : SUBSET Calls, lease : BOOLEAN]
  /\ reader \in {Idle, [do |-> "stopping"], [do |-> "ended"]}
              \cup [do : {"send"}, id : Calls, what : {"result", "error"}]
  /\ start \in {"initialize", "register", "up", "failed"}
  /\ lease \in BOOLEAN /\ registered \in BOOLEAN
  /\ work \in [HostCalls -> {"none", "run", "answer", "done"}]
  /\ hostRequests \subseteq HostCalls
  /\ workCanceled \subseteq HostCalls
  /\ toPlugin \in Seq(Message) /\ Len(toPlugin) <= PipeSize
  /\ toHost \in Seq(Message) /\ Len(toHost) <= PipeSize
  /\ rogue \in 0..MaxRogue /\ alive \in BOOLEAN /\ closed \in BOOLEAN
  /\ handler \in [Calls -> {"none", "run", "host", "respond", "done"}]
  /\ requests \subseteq Calls
  /\ handlerCanceled \subseteq Calls
  /\ hostCall \in [HostCalls -> {"idle", "write", "wait", "cancel", "done"}]
  /\ owner \in [HostCalls -> Calls \cup {Nobody}]
  /\ sdkPending \subseteq HostCalls
  /\ sdkCh \subseteq HostCalls

Init ==
  /\ call = [c \in Calls |-> "idle"]
  /\ ctxDone = {}
  /\ outcome = [c \in Calls |-> "none"]
  /\ ch = [c \in Calls |-> <<>>]
  /\ pending = {} /\ canceled = {}
  /\ stopErr = "none"
  /\ fin = [stage |-> "no", calls |-> {}, lease |-> FALSE]
  /\ reader = Idle
  /\ start = "initialize"
  /\ lease = FALSE /\ registered = FALSE
  /\ work = [r \in HostCalls |-> "none"]
  /\ hostRequests = {} /\ workCanceled = {}
  /\ toPlugin = <<>> /\ toHost = <<>>
  /\ rogue = 0
  /\ alive = TRUE /\ closed = FALSE
  /\ handler = [c \in Calls |-> "none"]
  /\ requests = {} /\ handlerCanceled = {}
  /\ hostCall = [r \in HostCalls |-> "idle"]
  /\ owner = [r \in HostCalls |-> Nobody]
  /\ sdkPending = {} /\ sdkCh = {}

-----------------------------------------------------------------------------
(***************************************************************************)
(* finish.  The part under p.mu is one step of whoever enters it first;    *)
(* the rest happens afterwards, a step at a time.  Later callers only wait *)
(* for it (sync.Once).                                                     *)
(***************************************************************************)

Finish(why) ==
  IF fin.stage # "no"
    THEN UNCHANGED stopVars
    ELSE /\ stopErr' = why
         /\ fin' = [stage |-> "unregister", calls |-> pending, lease |-> lease]
         /\ pending' = {} /\ canceled' = {}
         /\ lease' = FALSE

FinishUnregister ==
  /\ fin.stage = "unregister"
  /\ registered' = (registered /\ ~fin.lease)
  /\ fin' = [fin EXCEPT !.stage = "send"]
  /\ UNCHANGED <<callVars, pending, canceled, stopErr, lease, start, reader, workVars, toPlugin, toHost, process, sdkVars>>

FinishSend ==
  /\ fin.stage = "send"
  /\ \E c \in fin.calls :
       /\ ch[c] = <<>>
       /\ ch' = [ch EXCEPT ![c] = <<"stopped">>]
       /\ fin' = [fin EXCEPT !.calls = @ \ {c}]
  /\ UNCHANGED <<call, ctxDone, outcome, pending, canceled, stopErr, lease, startVars, reader, workVars, toPlugin, toHost, process, sdkVars>>

\* close(p.done), p.cancel(), stdin.Close() and the kill.
FinishClose ==
  /\ fin.stage = "send" /\ fin.calls = {}
  /\ fin' = [fin EXCEPT !.stage = "done"]
  /\ workCanceled' = workCanceled \cup {r \in HostCalls : work[r] # "none"}
  /\ UNCHANGED <<callVars, pending, canceled, stopErr, lease, startVars, reader, work, hostRequests, toPlugin, toHost, process, sdkVars>>

StdinClosed == fin.stage = "done"
HostWriteFails == StdinClosed \/ ~alive

-----------------------------------------------------------------------------
(***************************************************************************)
(* Plugin.call.                                                            *)
(***************************************************************************)

Return(c, what) ==
  /\ call' = [call EXCEPT ![c] = "done"]
  /\ outcome' = [outcome EXCEPT ![c] = what]

\* The context of a caller other than startPlugin is cancelled.
CancelContext(c) ==
  /\ c \notin ctxDone /\ c # Initialize /\ call[c] # "done"
  /\ ctxDone' = ctxDone \cup {c}
  /\ UNCHANGED <<call, outcome, ch, stopVars, startVars, reader, workVars, toPlugin, toHost, process, sdkVars>>

CallBegin(c) ==
  /\ call[c] = "idle"
  /\ start = IF c = Initialize THEN "initialize" ELSE "up"
  /\ \/ /\ c \in ctxDone
        /\ Return(c, "canceled")
        /\ UNCHANGED pending
     \/ /\ c \notin ctxDone /\ stopErr # "none"
        /\ Return(c, "stopped")
        /\ UNCHANGED pending
     \/ /\ c \notin ctxDone /\ stopErr = "none"
        /\ pending' = pending \cup {c}
        /\ call' = [call EXCEPT ![c] = "write"]
        /\ UNCHANGED outcome
  /\ UNCHANGED <<ctxDone, ch, canceled, stopErr, fin, lease, startVars, reader, workVars, toPlugin, toHost, process, sdkVars>>

CallWrite(c) ==
  /\ call[c] = "write"
  /\ \/ /\ HostWriteFails
        /\ pending' = pending \ {c}
        /\ Return(c, "error")
        /\ UNCHANGED toPlugin
     \/ /\ ~HostWriteFails /\ Len(toPlugin) < PipeSize
        /\ toPlugin' = Append(toPlugin, Request(c))
        /\ call' = [call EXCEPT ![c] = "wait"]
        /\ UNCHANGED <<outcome, pending>>
  /\ UNCHANGED <<ctxDone, ch, canceled, stopErr, fin, lease, startVars, reader, workVars, toHost, process, sdkVars>>

CallTake(c) ==
  /\ call[c] = "wait" /\ ch[c] # <<>>
  /\ Return(c, Head(ch[c]))
  /\ ch' = [ch EXCEPT ![c] = <<>>]
  /\ UNCHANGED <<ctxDone, stopVars, startVars, reader, workVars, toPlugin, toHost, process, sdkVars>>

\* case <-p.done
CallStopped(c) ==
  /\ call[c] = "wait" /\ fin.stage = "done"
  /\ Return(c, "stopped")
  /\ UNCHANGED <<ctxDone, ch, stopVars, startVars, reader, workVars, toPlugin, toHost, process, sdkVars>>

\* A defect: only the plugin can end the wait.
CallCanceledIgnored(c) ==
  /\ call[c] = "wait" /\ c \in ctxDone /\ c \notin pending
  /\ Return(c, "canceled")
  /\ UNCHANGED <<ctxDone, ch, stopVars, startVars, reader, workVars, toPlugin, toHost, process, sdkVars>>

\* case <-ctx.Done(): cancelPending.
CallCanceled(c) ==
  /\ call[c] = "wait" /\ c \in ctxDone
  /\ IF c \in pending
       THEN /\ pending' = pending \ {c}
            /\ canceled' = canceled \cup {c}
            /\ call' = [call EXCEPT ![c] = "cancel"]
            /\ UNCHANGED outcome
       ELSE /\ Return(c, "canceled")
            /\ UNCHANGED <<pending, canceled>>
  /\ UNCHANGED <<ctxDone, ch, stopErr, fin, lease, startVars, reader, workVars, toPlugin, toHost, process, sdkVars>>

CallWriteCancel(c) ==
  /\ call[c] = "cancel"
  /\ \/ /\ HostWriteFails
        /\ UNCHANGED toPlugin
     \/ /\ ~HostWriteFails /\ Len(toPlugin) < PipeSize
        /\ toPlugin' = Append(toPlugin, Cancel(c))
  /\ Return(c, "canceled")
  /\ UNCHANGED <<ctxDone, ch, stopVars, startVars, reader, workVars, toHost, process, sdkVars>>

-----------------------------------------------------------------------------
(***************************************************************************)
(* startPlugin and Close.                                                  *)
(***************************************************************************)

Initialized ==
  /\ start = "initialize" /\ call[Initialize] = "done"
  /\ IF outcome[Initialize] = "result"
       THEN start' = "register" /\ UNCHANGED stopVars
       ELSE start' = "failed" /\ Finish("closed")
  /\ UNCHANGED <<callVars, reader, registered, workVars, toPlugin, toHost, process, sdkVars>>

Register ==
  /\ start = "register" /\ stopErr = "none"
  /\ registered' = TRUE /\ lease' = TRUE
  /\ start' = "up"
  /\ UNCHANGED <<callVars, pending, canceled, stopErr, fin, reader, workVars, toPlugin, toHost, process, sdkVars>>

\* The plugin has stopped, its answer is invalid, or a name of it is taken.
RegisterFails ==
  /\ start = "register"
  /\ start' = "failed"
  /\ Finish("closed")
  /\ UNCHANGED <<callVars, reader, registered, workVars, toPlugin, toHost, process, sdkVars>>

Close ==
  /\ start = "up" /\ stopErr = "none"
  /\ Finish("closed")
  /\ UNCHANGED <<callVars, reader, startVars, workVars, toPlugin, toHost, process, sdkVars>>

\* cmd.Wait returns and closes the read end of the output of the process.
ProcessReaped ==
  /\ ~alive /\ (fin.stage = "no" \/ toHost # <<>>)
  /\ Finish("exited")
  /\ toHost' = <<>>
  /\ UNCHANGED <<callVars, reader, startVars, workVars, toPlugin, process, sdkVars>>

-----------------------------------------------------------------------------
(***************************************************************************)
(* readLoop.                                                               *)
(***************************************************************************)

\* A defect: the pending call is found but not removed.
ReadResponseKept ==
  /\ reader = Idle /\ toHost # <<>> /\ Head(toHost).kind \in {"response", "bad"}
  /\ Head(toHost).id \in pending
  /\ toHost' = Tail(toHost)
  /\ reader' = [do |-> "send", id |-> Head(toHost).id, what |-> IF Head(toHost).kind = "response" THEN "result" ELSE "error"]
  /\ UNCHANGED <<callVars, stopVars, startVars, workVars, toPlugin, process, sdkVars>>

\* handleResponse.
ReadResponse ==
  /\ reader = Idle /\ toHost # <<>> /\ Head(toHost).kind \in {"response", "bad"}
  /\ toHost' = Tail(toHost)
  /\ LET c == Head(toHost).id
         what == IF Head(toHost).kind = "response" THEN "result" ELSE "error"
     IN \/ /\ c \in pending
           /\ reader' = [do |-> "send", id |-> c, what |-> what]
           /\ pending' = pending \ {c} /\ canceled' = canceled \ {c}
           /\ UNCHANGED <<stopErr, fin, lease>>
        \/ /\ c \in canceled \ pending
           /\ canceled' = canceled \ {c}
           /\ UNCHANGED <<reader, pending, stopErr, fin, lease>>
        \/ /\ c \notin pending \cup canceled
           /\ reader' = [do |-> "stopping"]
           /\ Finish("protocol")
  /\ UNCHANGED <<callVars, startVars, workVars, toPlugin, process, sdkVars>>

ReadSend ==
  /\ reader.do = "send" /\ ch[reader.id] = <<>>
  /\ ch' = [ch EXCEPT ![reader.id] = <<reader.what>>]
  /\ IF reader.what = "error"
       THEN reader' = [do |-> "stopping"] /\ Finish("protocol")
       ELSE reader' = Idle /\ UNCHANGED stopVars
  /\ UNCHANGED <<call, ctxDone, outcome, startVars, workVars, toPlugin, toHost, process, sdkVars>>

\* finish has returned to the reader.
ReadGoesOn ==
  /\ reader.do = "stopping" /\ fin.stage = "done"
  /\ reader' = Idle
  /\ UNCHANGED <<callVars, stopVars, startVars, workVars, toPlugin, toHost, process, sdkVars>>

\* handleRequest.
ReadRequest ==
  /\ reader = Idle /\ toHost # <<>> /\ Head(toHost).kind = "request"
  /\ LET r == Head(toHost).id IN
       /\ hostRequests' = hostRequests \cup {r}
       /\ work' = [work EXCEPT ![r] = "run"]
       /\ workCanceled' = IF fin.stage = "done" THEN workCanceled \cup {r} ELSE workCanceled
  /\ toHost' = Tail(toHost)
  /\ UNCHANGED <<callVars, stopVars, startVars, reader, toPlugin, process, sdkVars>>

\* handleRequest of $/cancelRequest.
ReadCancel ==
  /\ reader = Idle /\ toHost # <<>> /\ Head(toHost).kind = "cancel"
  /\ workCanceled' = workCanceled \cup ({Head(toHost).id} \cap hostRequests)
  /\ toHost' = Tail(toHost)
  /\ UNCHANGED <<callVars, stopVars, startVars, reader, work, hostRequests, toPlugin, process, sdkVars>>

ReadEnds ==
  /\ reader = Idle /\ toHost = <<>> /\ ~alive
  /\ Finish("eof")
  /\ reader' = [do |-> "ended"]
  /\ UNCHANGED <<callVars, startVars, workVars, toPlugin, toHost, process, sdkVars>>

\* The goroutine of a request of the plugin: dispatchHost returns ...
WorkEnds(r) ==
  /\ work[r] = "run"
  /\ work' = [work EXCEPT ![r] = "answer"]
  /\ UNCHANGED <<callVars, stopVars, startVars, reader, hostRequests, workCanceled, toPlugin, toHost, process, sdkVars>>

\* ... and the answer is written.
WorkAnswers(r) ==
  /\ work[r] = "answer"
  /\ \/ /\ HostWriteFails
        /\ UNCHANGED toPlugin
     \/ /\ ~HostWriteFails /\ Len(toPlugin) < PipeSize
        /\ toPlugin' = Append(toPlugin, Response(r))
  /\ work' = [work EXCEPT ![r] = "done"]
  /\ hostRequests' = hostRequests \ {r}
  /\ UNCHANGED <<callVars, stopVars, startVars, reader, workCanceled, toHost, process, sdkVars>>

-----------------------------------------------------------------------------
(***************************************************************************)
(* The plugin.                                                             *)
(***************************************************************************)

SdkRuns == alive /\ ~closed

\* A defect: a response is taken for a request, having an id as well.
SdkRequestAny ==
  /\ SdkRuns /\ toPlugin # <<>> /\ Head(toPlugin).kind \in {"request", "response"}
  /\ LET c == Head(toPlugin).id IN
       /\ requests' = requests \cup {c}
       /\ handler' = [handler EXCEPT ![c] = "run"]
  /\ toPlugin' = Tail(toPlugin)
  /\ UNCHANGED <<callVars, stopVars, startVars, reader, workVars, toHost, process, closed, handlerCanceled, hostCall, owner, sdkPending, sdkCh>>

\* startRequest.
SdkRequest ==
  /\ SdkRuns /\ toPlugin # <<>> /\ Head(toPlugin).kind = "request"
  /\ LET c == Head(toPlugin).id IN
       /\ requests' = requests \cup {c}
       /\ handler' = [handler EXCEPT ![c] = "run"]
  /\ toPlugin' = Tail(toPlugin)
  /\ UNCHANGED <<callVars, stopVars, startVars, reader, workVars, toHost, process, closed, handlerCanceled, hostCall, owner, sdkPending, sdkCh>>

\* handleCancel.
SdkCancel ==
  /\ SdkRuns /\ toPlugin # <<>> /\ Head(toPlugin).kind = "cancel"
  /\ handlerCanceled' = handlerCanceled \cup ({Head(toPlugin).id} \cap requests)
  /\ toPlugin' = Tail(toPlugin)
  /\ UNCHANGED <<callVars, stopVars, startVars, reader, workVars, toHost, process, closed, handler, requests, hostCall, owner, sdkPending, sdkCh>>

\* handleResponse.
SdkResponse ==
  /\ SdkRuns /\ toPlugin # <<>> /\ Head(toPlugin).kind = "response"
  /\ sdkCh' = sdkCh \cup ({Head(toPlugin).id} \cap sdkPending)
  /\ sdkPending' = sdkPending \ {Head(toPlugin).id}
  /\ toPlugin' = Tail(toPlugin)
  /\ UNCHANGED <<callVars, stopVars, startVars, reader, workVars, toHost, process, closed, handler, requests, handlerCanceled, hostCall, owner>>

\* The input has ended: shutdown, and Serve returns.
SdkShutdown ==
  /\ SdkRuns /\ toPlugin = <<>> /\ StdinClosed
  /\ closed' = TRUE
  /\ handlerCanceled' = handlerCanceled \cup requests
  /\ requests' = {}
  /\ sdkCh' = sdkCh \cup sdkPending
  /\ sdkPending' = {}
  /\ UNCHANGED <<callVars, stopVars, startVars, reader, workVars, toPlugin, toHost, process, handler, hostCall, owner>>

\* The process ends: it is killed, it returns from Serve, or it crashes.
ProcessEnds ==
  /\ alive
  /\ alive' = FALSE
  /\ UNCHANGED <<callVars, stopVars, startVars, reader, workVars, toPlugin, toHost, rogue, sdkVars>>

HandlerEnds(c) ==
  /\ alive /\ handler[c] = "run"
  /\ handler' = [handler EXCEPT ![c] = "respond"]
  /\ UNCHANGED <<callVars, stopVars, startVars, reader, workVars, toPlugin, toHost, process, closed, requests, handlerCanceled, hostCall, owner, sdkPending, sdkCh>>

HandlerResponds(c) ==
  /\ alive /\ handler[c] = "respond" /\ Len(toHost) < PipeSize
  /\ toHost' = Append(toHost, Response(c))
  /\ handler' = [handler EXCEPT ![c] = "done"]
  /\ requests' = requests \ {c}
  /\ UNCHANGED <<callVars, stopVars, startVars, reader, workVars, toPlugin, process, closed, handlerCanceled, hostCall, owner, sdkPending, sdkCh>>

\* A handler calls the host, with the context it was given.
HandlerCalls(c, r) ==
  /\ alive /\ handler[c] = "run" /\ hostCall[r] = "idle" /\ ~closed
  /\ handler' = [handler EXCEPT ![c] = "host"]
  /\ hostCall' = [hostCall EXCEPT ![r] = "write"]
  /\ owner' = [owner EXCEPT ![r] = c]
  /\ sdkPending' = sdkPending \cup {r}
  /\ UNCHANGED <<callVars, stopVars, startVars, reader, workVars, toPlugin, toHost, process, closed, requests, handlerCanceled, sdkCh>>

HostCallWrite(r) ==
  /\ alive /\ hostCall[r] = "write" /\ Len(toHost) < PipeSize
  /\ toHost' = Append(toHost, Request(r))
  /\ hostCall' = [hostCall EXCEPT ![r] = "wait"]
  /\ UNCHANGED <<callVars, stopVars, startVars, reader, workVars, toPlugin, process, closed, handler, requests, handlerCanceled, owner, sdkPending, sdkCh>>

HostCallReturns(r) ==
  /\ hostCall' = [hostCall EXCEPT ![r] = "done"]
  /\ handler' = [handler EXCEPT ![owner[r]] = "run"]

HostCallEnds(r) ==
  /\ alive /\ hostCall[r] = "wait" /\ (r \in sdkCh \/ closed)
  /\ HostCallReturns(r)
  /\ sdkCh' = sdkCh \ {r}
  /\ UNCHANGED <<callVars, stopVars, startVars, reader, workVars, toPlugin, toHost, process, closed, requests, handlerCanceled, owner, sdkPending>>

HostCallCanceled(r) ==
  /\ alive /\ hostCall[r] = "wait" /\ owner[r] \in handlerCanceled
  /\ IF r \in sdkPending
       THEN /\ sdkPending' = sdkPending \ {r}
            /\ hostCall' = [hostCall EXCEPT ![r] = "cancel"]
            /\ UNCHANGED handler
       ELSE HostCallReturns(r) /\ UNCHANGED sdkPending
  /\ UNCHANGED <<callVars, stopVars, startVars, reader, workVars, toPlugin, toHost, process, closed, requests, handlerCanceled, owner, sdkCh>>

HostCallWriteCancel(r) ==
  /\ alive /\ hostCall[r] = "cancel" /\ Len(toHost) < PipeSize
  /\ toHost' = Append(toHost, Cancel(r))
  /\ HostCallReturns(r)
  /\ UNCHANGED <<callVars, stopVars, startVars, reader, workVars, toPlugin, process, closed, requests, handlerCanceled, owner, sdkPending, sdkCh>>

\* A plugin without the library.
RogueWrites ==
  /\ alive /\ Len(toHost) < PipeSize
  /\ rogue < MaxRogue /\ rogue' = rogue + 1
  /\ \E c \in Calls : \E m \in {Response(c), Bad(c)} : toHost' = Append(toHost, m)
  /\ UNCHANGED <<callVars, stopVars, startVars, reader, workVars, toPlugin, alive, sdkVars>>

-----------------------------------------------------------------------------
FinishStep == FinishUnregister \/ FinishSend \/ FinishClose
CallStep(c) == CallBegin(c) \/ CallWrite(c) \/ CallTake(c) \/ CallStopped(c) \/ CallCanceled(c) \/ CallWriteCancel(c)
ReaderStep == ReadResponse \/ ReadSend \/ ReadGoesOn \/ ReadRequest \/ ReadCancel \/ ReadEnds
StartStep == Initialized \/ Register \/ RegisterFails
SdkReaderStep == SdkRequest \/ SdkCancel \/ SdkResponse \/ SdkShutdown
HostCallStep(r) == HostCallWrite(r) \/ HostCallEnds(r) \/ HostCallCanceled(r) \/ HostCallWriteCancel(r)

\* The process has ended and the host has noticed everything of it.
Quiet == ~alive /\ reader.do = "ended" /\ fin.stage = "done"

Next ==
  \/ FinishStep \/ ReaderStep \/ StartStep \/ SdkReaderStep
  \/ Close \/ ProcessReaped \/ ProcessEnds \/ RogueWrites
  \/ \E c \in Calls : CallStep(c) \/ HandlerEnds(c) \/ HandlerResponds(c) \/ CancelContext(c)
  \/ \E r \in HostCalls : WorkEnds(r) \/ WorkAnswers(r) \/ HostCallStep(r)
  \/ \E c \in Calls, r \in HostCalls : HandlerCalls(c, r)
  \/ Quiet /\ UNCHANGED vars

Spec == Init /\ [][Next]_vars

\* The goroutines of the host are scheduled, and a killed process ends.
CallGoesOn(c) == CallWrite(c) \/ CallTake(c) \/ CallStopped(c) \/ CallWriteCancel(c)
AbandonedEnds == StdinClosed /\ ProcessEnds
HostFairness ==
  /\ WF_vars(FinishStep) /\ WF_vars(ReaderStep) /\ WF_vars(StartStep)
  /\ WF_vars(ProcessReaped)
  /\ WF_vars(AbandonedEnds)
  /\ \A c \in Calls : WF_vars(CallGoesOn(c)) /\ WF_vars(CallCanceled(c))
  /\ \A r \in HostCalls : WF_vars(WorkAnswers(r))

\* So are those of the plugin, and its handlers end once they are cancelled.
CancelledEnds(c) == c \in handlerCanceled /\ HandlerEnds(c)
PluginFairness ==
  /\ WF_vars(SdkReaderStep)
  /\ \A c \in Calls : WF_vars(HandlerResponds(c)) /\ WF_vars(CancelledEnds(c))
  /\ \A r \in HostCalls : WF_vars(HostCallStep(r))

FairSpec == Spec /\ HostFairness /\ PluginFairness
-----------------------------------------------------------------------------
(***************************************************************************)
(* Properties.                                                             *)
(***************************************************************************)

\* Nobody waits to deliver an outcome: whoever sends to the channel of one
\* slot of a call (handleResponse, finish) is the only one that will ever do
\* so, whatever the plugin writes and however the call ends meanwhile.
\* Otherwise readLoop, or finish and with it every later Close, would block.
SendNeverBlocks ==
  /\ reader.do = "send" => ch[reader.id] = <<>> /\ reader.id \notin fin.calls
  /\ \A c \in fin.calls : ch[c] = <<>>

\* When the callers learn that the plugin has stopped, the registry no longer
\* offers its tools, also if it stopped while startPlugin was registering
\* them ("Unregister before exposing the stopped plugin to new registry
\* lookups").
StoppedIsUnregistered == fin.stage \in {"send", "done"} => ~registered

Mentions(pipe, i) == \E k \in DOMAIN pipe : pipe[k].id = i

\* A cancellation is not lost, on either side: when a call has returned for its
\* cancelled context and the plugin has read everything about it, the handler
\* of the call is over or knows; and when the plugin has given up a call to the
\* host and the host has read everything about it, the host has answered it or
\* has cancelled its work.  And the late response of a cancelled or failed call is
\* recognised: it is never taken for the protocol error that stops a plugin.
CancelArrives ==
  /\ rogue = 0 => stopErr # "protocol"
  /\ rogue = 0 /\ alive =>
    /\ \A c \in Calls :
         /\ fin.stage = "no" /\ ~Mentions(toPlugin, c)
         /\ call[c] = "done" /\ outcome[c] = "canceled"
         => handler[c] \in {"none", "done"} \/ c \in handlerCanceled
    /\ \A r \in HostCalls :
         hostCall[r] = "done" /\ ~Mentions(toHost, r)
         => work[r] # "run" \/ r \in workCanceled

\* The three together, with the types.
PluginSafe == TypeOK /\ SendNeverBlocks /\ StoppedIsUnregistered /\ CancelArrives

\* A call whose context is cancelled returns: "Notch sends a notification and
\* stops waiting" (docs/extensions.md).  And the host does not remember it for
\* ever: the response of the cancelled handler, or the end of the plugin, removes
\* it from p.canceled.
GivenUp(c) == call[c] # "idle" /\ c \in ctxDone
Over(c) == call[c] = "done"
Remembered(c) == rogue = 0 /\ c \in canceled
CancelledReturns ==
  \A c \in Calls : /\ GivenUp(c) ~> Over(c)
                   /\ Remembered(c) ~> ~Remembered(c)

\* Cancelling a call of the host reaches, through the plugin, the work that
\* the handler of the call had asked the host for.
Orphaned(r) == rogue = 0 /\ owner[r] # Nobody /\ owner[r] \in canceled /\ work[r] = "run"
Released(r) == work[r] # "run" \/ r \in workCanceled \/ rogue > 0
CancelCascades == \A r \in HostCalls : Orphaned(r) ~> Released(r)
=============================================================================
