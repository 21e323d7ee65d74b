------------------------------ MODULE Intercom ------------------------------
(***************************************************************************)
(* Messages between the sessions of several notch processes                *)
(* (internal/officialext/intercom).  A session that has opted in listens   *)
(* on a socket; a sender records its message in its own session, connects, *)
(* and waits for an answer, which may come too late; the receiver records  *)
(* the message in its session, may wake its agent, and answers.            *)
(*                                                                         *)
(* In each process there are the goroutine that holds settingsMu (a send,  *)
(* a change of settings, or the start of a session), one goroutine for     *)
(* every connection, and the front end, which changes its session and      *)
(* tells the service later.                                                *)
(*                                                                         *)
(* A message is its position in `outbound`.  Names, scopes, collaborations *)
(* and the explicit /intercom process are left out, and so are the limits  *)
(* of a thousand entries.                                                  *)
(***************************************************************************)
EXTENDS Naturals, Sequences, FiniteSets, SequencesExt

CONSTANTS Process,
          Session,
          Opens(_),      \* the process in which a session is opened
          Connection,    \* connections that may be served at a time
          None,
          MaxOps,        \* bound: sends, replies and retries
          MaxTrouble     \* bound: changes of settings and sessions, failures, deaths

ASSUME IntercomAssumption ==
    /\ \A s \in Session : Opens(s) \in Process
    /\ \A p \in Process : \E s \in Session : Opens(s) = p
    /\ None \notin Process \cup Session \cup Connection
    /\ {MaxOps, MaxTrouble} \subseteq Nat

VARIABLES outbound,   \* the messages recorded by their senders
          inbound,    \* the messages recorded by each session that got them
          config,     \* the settings recorded in each session
          active,     \* the session of each front end
          change,     \* the change of it the service has not been told of
          service,    \* the fields of each service
          op,         \* what holds its settingsMu
          conn,       \* the connections being served
          woken,      \* how often each message has woken an agent
          forgotten,  \* the messages whose delivery a service has forgotten
          ops, trouble

durable == <<outbound, inbound, config>>
bounds == <<ops, trouble>>
vars == <<durable, active, change, service, op, conn, woken, forgotten, bounds>>

-----------------------------------------------------------------------------
Message == 1..(MaxOps + 1)

Settings == [enabled : BOOLEAN, wake : BOOLEAN]

NoService == [session |-> None, enabled |-> FALSE, wake |-> FALSE, listening |-> FALSE,
              inbox |-> {}, outbox |-> {}, seen |-> {}, inflight |-> {}, reserved |-> {}]

NoOp == [at |-> "idle", to |-> None, replyTo |-> 0, id |-> 0, attempt |-> 0,
         call |-> None, before |-> FALSE]

NoConn == [at |-> "free", process |-> None, session |-> None, id |-> 0, wake |-> FALSE,
           canceled |-> FALSE, stored |-> FALSE]

Sent(s) == {i \in DOMAIN outbound : outbound[i].from = s}

\* What disturbs an exchange of messages.
Troubles == trouble < MaxTrouble /\ trouble' = trouble + 1

\* The front end appends an entry only to its session, and may fail to.
Refused(p, s) == IF active[p] # s THEN UNCHANGED trouble ELSE Troubles

\* The operation that holds settingsMu returns.
Done(p) == op' = [op EXCEPT ![p] = NoOp]

Free(p) == active[p] # None /\ op[p].at = "idle"

-----------------------------------------------------------------------------
(* Endpoints.                                                              *)

Listener(s) == {p \in Process : service[p].listening /\ service[p].session = s}

\* peers: those that answer a ping.
Peers(p) == {service[q].session : q \in {r \in Process \ {p} : service[r].listening /\ service[r].enabled}}

\* The service without its endpoint; the connections lose their context.
Closed(sv) == [sv EXCEPT !.listening = FALSE]

Listening(sv) == [sv EXCEPT !.listening = TRUE]

CancelConns(p) ==
    [c \in Connection |-> IF conn[c].process = p THEN [conn[c] EXCEPT !.canceled = TRUE] ELSE conn[c]]

-----------------------------------------------------------------------------
(* Sending.                                                                *)

Starts(p, o) ==
    /\ Free(p)
    /\ op' = [op EXCEPT ![p] = o]
    /\ UNCHANGED <<durable, active, change, conn, woken, forgotten>>

Send(p) ==
    /\ service[p].listening
    /\ \E to \in Peers(p) : Starts(p, [NoOp EXCEPT !.at = "record", !.to = to])
    /\ ops < MaxOps /\ ops' = ops + 1
    /\ UNCHANGED <<service, trouble>>

\* resolveReply: one reply to a request, none to a reply.
Reply(p) ==
    /\ service[p].listening
    /\ \E i \in service[p].inbox :
          /\ outbound[i].replyTo = 0
          /\ \A j \in service[p].outbox : outbound[j].replyTo # i
          /\ outbound[i].from \in Peers(p)
          /\ Starts(p, [NoOp EXCEPT !.at = "record", !.to = outbound[i].from, !.replyTo = i])
    /\ ops < MaxOps /\ ops' = ops + 1
    /\ UNCHANGED <<service, trouble>>

Retry(p) ==
    /\ service[p].listening
    /\ \E i \in service[p].outbox :
          /\ outbound[i].to \in Peers(p)
          /\ Starts(p, [NoOp EXCEPT !.at = "dial", !.to = outbound[i].to, !.id = i])
    /\ ops < MaxOps /\ ops' = ops + 1
    /\ UNCHANGED <<service, trouble>>

\* The message is recorded before it is delivered.
Record(p) ==
    /\ op[p].at = "record"
    /\ active[p] = service[p].session
    /\ LET i == Len(outbound) + 1
       IN  /\ outbound' = Append(outbound, [from |-> service[p].session, to |-> op[p].to,
                                            replyTo |-> op[p].replyTo, delivered |-> FALSE])
           /\ service' = [service EXCEPT ![p].outbox = @ \cup {i}]
           /\ op' = [op EXCEPT ![p].at = "dial", ![p].id = i]
    /\ UNCHANGED <<inbound, config, active, change, conn, woken, forgotten, bounds>>

RecordFails(p) ==
    /\ op[p].at = "record"
    /\ Refused(p, service[p].session)
    /\ Done(p)
    /\ UNCHANGED <<durable, active, change, service, conn, woken, forgotten, ops>>

AgainForever(o) ==                 \* a defect: attempts are not limited
    [o EXCEPT !.at = "dial", !.attempt = @ + 1, !.call = None]

\* The attempt has failed; there is a second one.
Again(o) == IF o.attempt = 0 THEN [o EXCEPT !.at = "dial", !.attempt = 1, !.call = None] ELSE NoOp

Dial(p) ==
    /\ op[p].at = "dial"
    /\ \/ \E c \in Connection, q \in Listener(op[p].to) :
             /\ conn[c].at = "free"
             /\ conn' = [conn EXCEPT ![c] = [NoConn EXCEPT !.at = "gate", !.process = q, !.id = op[p].id]]
             /\ op' = [op EXCEPT ![p].at = "answer", ![p].call = c]
       \/ /\ Listener(op[p].to) = {} \/ \A c \in Connection : conn[c].at # "free"
          /\ op' = [op EXCEPT ![p] = Again(@)]
          /\ UNCHANGED conn
    /\ UNCHANGED <<durable, active, change, service, woken, forgotten, bounds>>

\* The answer does not come in time, or is lost.
TimesOut(p) ==
    /\ op[p].at = "answer"
    /\ op' = [op EXCEPT ![p] = Again(@)]
    /\ UNCHANGED <<durable, active, change, service, conn, woken, forgotten, bounds>>

Confirm(p) ==
    /\ op[p].at = "confirm"
    /\ \/ /\ active[p] = outbound[op[p].id].from
          /\ outbound' = [outbound EXCEPT ![op[p].id].delivered = TRUE]
          /\ UNCHANGED trouble
       \/ /\ Refused(p, outbound[op[p].id].from)
          /\ UNCHANGED outbound
    /\ Done(p)
    /\ UNCHANGED <<inbound, config, active, change, service, conn, woken, forgotten, ops>>

-----------------------------------------------------------------------------
(* Receiving.                                                              *)

\* handleConn writes the answer, which is lost if the connection was closed; the
\* sender tries again only if it got none.
Answers(c, answer) ==
    op' = [p \in Process |->
             IF op[p].at # "answer" \/ op[p].call # c THEN op[p]
             ELSE IF conn[c].canceled THEN Again(op[p])
             ELSE IF answer = "delivered" THEN [op[p] EXCEPT !.at = "confirm", !.call = None]
             ELSE NoOp]

\* A reply may wake the sender of the request it belongs to, which asked for
\* it, once.
MayWake(sv, i) ==
    LET m == outbound[i]
    IN  /\ sv.wake
        /\ m.replyTo # 0 =>
              /\ m.replyTo \in sv.outbox \ sv.reserved
              /\ LET r == outbound[m.replyTo] IN r.to = m.from /\ r.replyTo = 0
              /\ \A j \in sv.inbox : outbound[j].replyTo # m.replyTo

\* The connections of the process that store the same message.
Storing(c) == {d \in service[conn[c].process].inflight : conn[d].id = conn[c].id}

Reject(c) ==
    LET sv == service[conn[c].process]
    IN  /\ conn[c].at = "gate"
        /\ ~sv.enabled \/ sv.session # outbound[conn[c].id].to
        /\ Answers(c, "error")
        /\ conn' = [conn EXCEPT ![c] = NoConn]
        /\ UNCHANGED <<durable, active, change, service, woken, forgotten, bounds>>

Admitted(c) ==
    LET sv == service[conn[c].process]
    IN  conn[c].at = "gate" /\ sv.enabled /\ sv.session = outbound[conn[c].id].to

Duplicate(c) ==
    /\ Admitted(c)
    /\ conn[c].id \in service[conn[c].process].seen
    /\ Answers(c, "delivered")
    /\ conn' = [conn EXCEPT ![c] = NoConn]
    /\ UNCHANGED <<durable, active, change, service, woken, forgotten, bounds>>

\* Another connection is storing the message.
Wait(c) ==
    /\ Admitted(c)
    /\ conn[c].id \notin service[conn[c].process].seen
    /\ Storing(c) # {}
    /\ conn' = [conn EXCEPT ![c].at = "wait"]
    /\ UNCHANGED <<durable, active, change, service, op, woken, forgotten, bounds>>

WaitCanceled(c) ==
    /\ conn[c].at = "wait" /\ conn[c].canceled
    /\ Answers(c, "error")
    /\ conn' = [conn EXCEPT ![c] = NoConn]
    /\ UNCHANGED <<durable, active, change, service, woken, forgotten, bounds>>

AdmitBeside(c) ==                  \* a defect: another delivery is not waited for
    LET p == conn[c].process
        i == conn[c].id
        wake == MayWake(service[p], i)
    IN  /\ Admitted(c)
        /\ i \notin service[p].seen
        /\ conn' = [conn EXCEPT ![c].at = "check", ![c].session = service[p].session, ![c].wake = wake]
        /\ service' = [service EXCEPT ![p].inflight = @ \cup {c},
                                      ![p].reserved = IF wake THEN @ \cup ({outbound[i].replyTo} \ {0}) ELSE @]
        /\ UNCHANGED <<durable, active, change, op, woken, forgotten, bounds>>

Admit(c) ==
    LET p == conn[c].process
        i == conn[c].id
        wake == MayWake(service[p], i)
    IN  /\ Admitted(c)
        /\ i \notin service[p].seen
        /\ Storing(c) = {}
        /\ conn' = [conn EXCEPT ![c].at = "check", ![c].session = service[p].session, ![c].wake = wake]
        /\ service' = [service EXCEPT ![p].inflight = @ \cup {c},
                                      ![p].reserved = IF wake THEN @ \cup ({outbound[i].replyTo} \ {0}) ELSE @]
        /\ UNCHANGED <<durable, active, change, op, woken, forgotten, bounds>>

\* AppendSessionEntryFor looks at its context, and then the front end at its
\* session.
Check(c) ==
    /\ conn[c].at = "check"
    /\ conn' = [conn EXCEPT ![c].at = IF conn[c].canceled THEN "finish" ELSE "append"]
    /\ UNCHANGED <<durable, active, change, service, op, woken, forgotten, bounds>>

Store(c) ==
    LET p == conn[c].process
        s == conn[c].session
    IN  /\ conn[c].at = "append"
        /\ \/ /\ active[p] = s
              /\ inbound' = [inbound EXCEPT ![s] = Append(@, conn[c].id)]
              /\ conn' = [conn EXCEPT ![c].at = "publish", ![c].stored = TRUE]
              /\ forgotten' = IF c \in service[p].inflight THEN forgotten ELSE forgotten \cup {conn[c].id}
              /\ UNCHANGED trouble
           \/ /\ Refused(p, s)
              /\ conn' = [conn EXCEPT ![c].at = "finish"]
              /\ UNCHANGED <<inbound, forgotten>>
        /\ UNCHANGED <<outbound, config, active, change, service, op, woken, ops>>

\* Does the service still have the session and the entry of this connection?
Current(c) ==
    LET sv == service[conn[c].process]
    IN  sv.session = conn[c].session /\ c \in sv.inflight

PublishToSameEndpoint(c) ==        \* a defect: a restart of the endpoint ends the delivery
    /\ conn[c].at = "publish"
    /\ service' = IF Current(c) /\ ~conn[c].canceled
                  THEN [service EXCEPT ![conn[c].process].inbox = @ \cup {conn[c].id}]
                  ELSE service
    /\ conn' = [conn EXCEPT ![c].at = IF conn[c].wake THEN "wake" ELSE "finish"]
    /\ UNCHANGED <<durable, active, change, op, woken, forgotten, bounds>>

\* The inbox is published before the agent is woken, which may reply at once.
Publish(c) ==
    /\ conn[c].at = "publish"
    /\ service' = IF Current(c) THEN [service EXCEPT ![conn[c].process].inbox = @ \cup {conn[c].id}]
                  ELSE service
    /\ conn' = [conn EXCEPT ![c].at = IF conn[c].wake THEN "wake" ELSE "finish"]
    /\ UNCHANGED <<durable, active, change, op, woken, forgotten, bounds>>

\* FollowUpFor: the front end refuses it for another session.
Wake(c) ==
    /\ conn[c].at = "wake"
    /\ woken' = IF ~conn[c].canceled /\ active[conn[c].process] = conn[c].session
                THEN [woken EXCEPT ![conn[c].id] = @ + 1] ELSE woken
    /\ conn' = [conn EXCEPT ![c].at = "finish"]
    /\ UNCHANGED <<durable, active, change, service, op, forgotten, bounds>>

\* What the service knows of the delivery when it is over.
Settled(sv, c) ==
    [sv EXCEPT !.inflight = @ \ {c},
               !.reserved = IF conn[c].wake THEN @ \ {outbound[conn[c].id].replyTo} ELSE @,
               !.seen = IF conn[c].stored THEN @ \cup {conn[c].id} ELSE @]

FinishLeavingOthers(c) ==          \* a defect: the channel is not closed after a failure
    LET p == conn[c].process
    IN  /\ conn[c].at = "finish"
        /\ service' = IF Current(c) THEN [service EXCEPT ![p] = Settled(@, c)] ELSE service
        /\ conn' = [d \in Connection |->
                      IF d = c THEN NoConn
                      ELSE IF /\ conn[d].at = "wait" /\ conn[d].process = p /\ conn[d].id = conn[c].id
                              /\ conn[c].stored
                      THEN [conn[d] EXCEPT !.at = "gate"]
                      ELSE conn[d]]
        /\ Answers(c, IF conn[c].stored THEN "delivered" ELSE "error")
        /\ UNCHANGED <<durable, active, change, woken, forgotten, bounds>>

\* Those that wait for this connection look at the tables again.
Finish(c) ==
    LET p == conn[c].process
    IN  /\ conn[c].at = "finish"
        /\ service' = IF Current(c) THEN [service EXCEPT ![p] = Settled(@, c)] ELSE service
        /\ conn' = [d \in Connection |->
                      IF d = c THEN NoConn
                      ELSE IF conn[d].at = "wait" /\ conn[d].process = p /\ conn[d].id = conn[c].id
                      THEN [conn[d] EXCEPT !.at = "gate"]
                      ELSE conn[d]]
        /\ Answers(c, IF conn[c].stored THEN "delivered" ELSE "error")
        /\ UNCHANGED <<durable, active, change, woken, forgotten, bounds>>

-----------------------------------------------------------------------------
(* Settings: the endpoint is opened before they are recorded, and closed    *)
(* after.                                                                   *)

Enable(p) ==
    /\ service[p].session # None
    /\ Troubles /\ UNCHANGED ops
    /\ Starts(p, [NoOp EXCEPT !.at = "saveOn", !.before = service[p].listening])
    /\ service' = [service EXCEPT ![p].listening = TRUE]

SaveOn(p) ==
    LET sv == service[p]
    IN  /\ op[p].at = "saveOn"
        /\ active[p] = sv.session
        /\ config' = [config EXCEPT ![sv.session] = [enabled |-> TRUE, wake |-> sv.wake]]
        /\ service' = [service EXCEPT ![p].enabled = TRUE]
        /\ Done(p)
        /\ UNCHANGED <<outbound, inbound, active, change, conn, woken, forgotten, bounds>>

SaveOnFails(p) ==
    /\ op[p].at = "saveOn"
    /\ Refused(p, service[p].session)
    /\ service' = [service EXCEPT ![p].listening = op[p].before]
    /\ conn' = IF op[p].before THEN conn ELSE CancelConns(p)
    /\ Done(p)
    /\ UNCHANGED <<durable, active, change, woken, forgotten, ops>>

\* Nothing is admitted any more while the opt-out is recorded.
Disable(p) ==
    /\ service[p].session # None
    /\ Troubles /\ UNCHANGED ops
    /\ Starts(p, [NoOp EXCEPT !.at = "saveOff", !.before = service[p].enabled])
    /\ service' = [service EXCEPT ![p].enabled = FALSE]

SaveOff(p) ==
    LET sv == service[p]
    IN  /\ op[p].at = "saveOff"
        /\ active[p] = sv.session
        /\ config' = [config EXCEPT ![sv.session] = [enabled |-> FALSE, wake |-> sv.wake]]
        /\ service' = [service EXCEPT ![p] = Closed(@)]
        /\ conn' = CancelConns(p)
        /\ Done(p)
        /\ UNCHANGED <<outbound, inbound, active, change, woken, forgotten, bounds>>

SaveOffFails(p) ==
    /\ op[p].at = "saveOff"
    /\ Refused(p, service[p].session)
    /\ service' = [service EXCEPT ![p].enabled = op[p].before]
    /\ Done(p)
    /\ UNCHANGED <<durable, active, change, conn, woken, forgotten, ops>>

SetWake(p) ==
    LET sv == service[p]
    IN  /\ Free(p) /\ sv.session = active[p]
        /\ Troubles
        /\ config' = [config EXCEPT ![sv.session] = [enabled |-> sv.enabled, wake |-> ~sv.wake]]
        /\ service' = [service EXCEPT ![p].wake = ~@]
        /\ UNCHANGED <<outbound, inbound, active, change, op, conn, woken, forgotten, ops>>

-----------------------------------------------------------------------------
(* Sessions and processes.                                                  *)

\* The front end resumes or starts another session.  The service is told by a
\* goroutine, unless a later change has superseded this one.
Switch(p) ==
    /\ active[p] # None
    /\ Troubles
    /\ \E s \in Session \ {active[p]} :
          /\ Opens(s) = p
          /\ active' = [active EXCEPT ![p] = s]
          /\ change' = [change EXCEPT ![p] = s]
    /\ UNCHANGED <<durable, service, op, conn, woken, forgotten, ops>>

StartSession(p) ==
    /\ Free(p) /\ change[p] # None
    /\ change' = [change EXCEPT ![p] = None]
    /\ service' = [service EXCEPT ![p] = [NoService EXCEPT !.session = change[p]]]
    /\ conn' = CancelConns(p)
    /\ op' = [op EXCEPT ![p] = [NoOp EXCEPT !.at = "load"]]
    /\ UNCHANGED <<durable, active, woken, forgotten, bounds>>

LoadedWithoutReplies(sv) ==        \* a defect: only requests are loaded
    [sv EXCEPT !.enabled = config[sv.session].enabled,
               !.wake = config[sv.session].wake,
               !.inbox = Range(inbound[sv.session]),
               !.seen = Range(inbound[sv.session]),
               !.outbox = {i \in Sent(sv.session) : outbound[i].replyTo = 0}]

\* What is recorded in a session.
Loaded(sv) ==
    [sv EXCEPT !.enabled = config[sv.session].enabled,
               !.wake = config[sv.session].wake,
               !.inbox = Range(inbound[sv.session]),
               !.seen = Range(inbound[sv.session]),
               !.outbox = Sent(sv.session)]

\* The service has the session, and nothing of its records.
Unread(p) ==
    /\ forgotten' = forgotten \cup {i \in DOMAIN outbound : outbound[i].to = service[p].session}
    /\ Done(p)

\* A change of the session ends the context of this one.
Load(p) ==
    /\ op[p].at = "load"
    /\ IF change[p] # None
       THEN Unread(p) /\ UNCHANGED service
       ELSE /\ service' = [service EXCEPT ![p] = Loaded(@)]
            /\ IF config[service[p].session].enabled THEN op' = [op EXCEPT ![p].at = "open"] ELSE Done(p)
            /\ UNCHANGED forgotten
    /\ UNCHANGED <<durable, active, change, conn, woken, bounds>>

LoadFails(p) ==
    /\ op[p].at = "load"
    /\ Troubles
    /\ Unread(p)
    /\ UNCHANGED <<durable, active, change, service, conn, woken, ops>>

Open(p) ==
    /\ op[p].at = "open"
    /\ \/ /\ service' = [service EXCEPT ![p].listening = TRUE]
          /\ UNCHANGED trouble
       \/ Troubles /\ UNCHANGED service
    /\ Done(p)
    /\ UNCHANGED <<durable, active, change, conn, woken, forgotten, ops>>

\* The process dies; those that wait for an answer of it get none.
Crash(p) ==
    /\ active[p] # None
    /\ Troubles
    /\ active' = [active EXCEPT ![p] = None]
    /\ change' = [change EXCEPT ![p] = None]
    /\ service' = [service EXCEPT ![p] = NoService]
    /\ conn' = [c \in Connection |-> IF conn[c].process = p THEN NoConn ELSE conn[c]]
    /\ op' = [q \in Process |->
                IF q = p THEN NoOp
                ELSE IF op[q].at = "answer" /\ conn[op[q].call].process = p THEN Again(op[q])
                ELSE op[q]]
    /\ UNCHANGED <<durable, woken, forgotten, ops>>

Restart(p) ==
    /\ active[p] = None
    /\ \E s \in Session :
          /\ Opens(s) = p
          /\ active' = [active EXCEPT ![p] = s]
          /\ change' = [change EXCEPT ![p] = s]
    /\ UNCHANGED <<durable, service, op, conn, woken, forgotten, bounds>>

-----------------------------------------------------------------------------
\* Every process has a session that has opted in, and one of them has got a request.
Init ==
    /\ active \in {a \in [Process -> Session] : \A p \in Process : Opens(a[p]) = p}
    /\ \E from, to \in Range(active) :
          /\ from # to
          /\ outbound = <<[from |-> from, to |-> to, replyTo |-> 0, delivered |-> TRUE]>>
          /\ inbound = [s \in Session |-> IF s = to THEN <<1>> ELSE << >>]
    /\ config = [s \in Session |-> [enabled |-> TRUE, wake |-> TRUE]]
    /\ change = [p \in Process |-> None]
    /\ service = [p \in Process |-> Listening(Loaded([NoService EXCEPT !.session = active[p]]))]
    /\ op = [p \in Process |-> NoOp]
    /\ conn = [c \in Connection |-> NoConn]
    /\ woken = [i \in Message |-> IF i = 1 THEN 1 ELSE 0]
    /\ forgotten = {}
    /\ ops = 0 /\ trouble = 0

Serve(c) ==
    Reject(c) \/ Duplicate(c) \/ Wait(c) \/ WaitCanceled(c) \/ Admit(c) \/ Check(c) \/ Store(c)
    \/ Publish(c) \/ Wake(c) \/ Finish(c)

Operate(p) ==
    Send(p) \/ Reply(p) \/ Retry(p) \/ Record(p) \/ RecordFails(p) \/ Dial(p) \/ TimesOut(p) \/ Confirm(p)
    \/ Enable(p) \/ SaveOn(p) \/ SaveOnFails(p) \/ Disable(p) \/ SaveOff(p) \/ SaveOffFails(p) \/ SetWake(p)
    \/ StartSession(p) \/ Load(p) \/ LoadFails(p) \/ Open(p)

\* Nothing is left to do.
Quiet ==
    /\ \A p \in Process : active[p] # None /\ change[p] = None /\ op[p].at = "idle"
    /\ \A c \in Connection : conn[c].at = "free"
    /\ UNCHANGED vars

Next ==
    \/ \E c \in Connection : Serve(c)
    \/ \E p \in Process : Operate(p) \/ Switch(p) \/ Crash(p) \/ Restart(p)
    \/ Quiet

Spec == Init /\ [][Next]_vars

-----------------------------------------------------------------------------
(* Properties.                                                              *)

\* What the sessions store, and what the processes hold of it, has its shape.
TypeOK ==
    /\ outbound \in Seq([from : Session, to : Session, replyTo : {0} \cup Message, delivered : BOOLEAN])
    /\ inbound \in [Session -> Seq(Message)]
    /\ config \in [Session -> Settings]
    /\ active \in [Process -> Session \cup {None}] /\ change \in [Process -> Session \cup {None}]
    /\ service \in [Process -> [session : Session \cup {None}, enabled : BOOLEAN, wake : BOOLEAN,
                                listening : BOOLEAN, inbox : SUBSET Message, outbox : SUBSET Message,
                                seen : SUBSET Message, inflight : SUBSET Connection, reserved : SUBSET Message]]
    /\ op \in [Process -> [at : {"idle", "record", "dial", "answer", "confirm", "saveOn", "saveOff", "load",
                                 "open"},
                           to : Session \cup {None}, replyTo : {0} \cup Message,
                           id : {0} \cup Message, attempt : 0..1, call : Connection \cup {None}, before : BOOLEAN]]
    /\ conn \in [Connection -> [at : {"free", "gate", "wait", "check", "append", "publish", "wake", "finish"},
                                process : Process \cup {None}, session : Session \cup {None},
                                id : {0} \cup Message, wake : BOOLEAN, canceled : BOOLEAN, stored : BOOLEAN]]
    /\ woken \in [Message -> Nat] /\ forgotten \subseteq Message
    /\ ops \in 0..MaxOps /\ trouble \in 0..MaxTrouble

\* The receiver acknowledges duplicates without persisting or waking twice
\* (intercom.go:526), over retries, restarts of the endpoint, changes of the
\* session and deaths; only the session a message is for records it; and a sender
\* that was told of the delivery, or has recorded that, can rely on it.  Not
\* covered are messages whose delivery the service has forgotten: it stores after
\* its session has been left and resumed, or it has not read its records.
HandledOnce ==
    /\ TypeOK
    /\ \A i \in Message \ forgotten :
          /\ Cardinality({e \in Session \X Message : e[2] \in DOMAIN inbound[e[1]] /\ inbound[e[1]][e[2]] = i}) <= 1
          /\ woken[i] <= 1
    /\ \A s \in Session : \A k \in DOMAIN inbound[s] : outbound[inbound[s][k]].to = s
    /\ \A i \in DOMAIN outbound :
          outbound[i].delivered \/ (\E p \in Process : op[p].at = "confirm" /\ op[p].id = i) =>
              i \in Range(inbound[outbound[i].to])

\* A request gets one reply, and a reply none, over restarts of the session that
\* replies (docs/intercom.md:115), as long as the request is not forgotten.
OneReply ==
    \A i, j \in DOMAIN outbound :
        outbound[i].replyTo # 0 =>
            /\ outbound[outbound[i].replyTo].replyTo = 0
            /\ outbound[j].replyTo = outbound[i].replyTo => i = j \/ outbound[i].replyTo \in forgotten

\* What the service holds in memory is what its session has recorded: messages are
\* accepted, and wake the agent, only if the user has opted in and that was
\* recorded (settings.go:43), and the inbox, by which later copies and replies are
\* judged, lacks only the messages that are being stored (intercom.go:364).
MemoryIsStored ==
    \A p \in Process :
        LET sv == service[p]
            storing == {conn[c].id : c \in sv.inflight}
        IN  /\ sv.enabled => config[sv.session].enabled
            /\ sv.wake => config[sv.session].wake
            /\ sv.listening /\ op[p].at = "idle" => sv.enabled
            /\ sv.session # None /\ op[p].at # "load" =>
                  Range(inbound[sv.session]) \ (storing \cup forgotten) = sv.inbox \ (storing \cup forgotten)

\* A connection waits for a delivery only while there is one, and is woken when that
\* fails (intercom.go:378).
WaitsForDelivery ==
    \A c \in Connection :
        conn[c].at = "wait" =>
            \E d \in Connection :
                /\ conn[d].at \in {"check", "append", "publish", "wake", "finish"}
                /\ conn[d].process = conn[c].process /\ conn[d].id = conn[c].id
=============================================================================
