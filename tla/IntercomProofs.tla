--------------------------- MODULE IntercomProofs ---------------------------
(***************************************************************************)
(* Proofs about Intercom, for any processes, sessions and connections and  *)
(* any number of messages and troubles.                                    *)
(***************************************************************************)
EXTENDS Intercom, FiniteSetTheorems, SequenceTheorems, TLAPS

----------------------------------------
(* The inductive invariant.                                                *)

\* Every operation that will record a message has been counted.
Recording == {p \in Process : op[p].at = "record"}

CountInv == IsFiniteSet(Recording) /\ Len(outbound) + Cardinality(Recording) <= ops + 1

\* What a service knows of the records of its session.
Empty(sv) == ~sv.enabled /\ ~sv.listening /\ sv.inbox = {} /\ sv.outbox = {} /\ sv.seen = {} /\ sv.inflight = {}

\* A session is served by the process that opens it, and by the one that has it.
PlaceInv ==
    \A p \in Process :
        /\ active[p] # None => Opens(active[p]) = p
        /\ change[p] # None => change[p] = active[p]
        /\ service[p].session # None => Opens(service[p].session) = p
        /\ service[p].session = None => Empty(service[p]) /\ ~service[p].wake /\ op[p].at = "idle"
        /\ active[p] = None => service[p].session = None
        /\ op[p].at = "load" => Empty(service[p])

\* The switches of a service follow what its session has recorded, but for the
\* operation that changes them.
SettingsInv ==
    \A p \in Process :
        /\ service[p].enabled => config[service[p].session].enabled
        /\ service[p].wake => config[service[p].session].wake
        /\ service[p].listening /\ op[p].at \notin {"saveOn", "saveOff"} => service[p].enabled
        /\ op[p].at = "saveOn" /\ op[p].before => service[p].enabled
        /\ op[p].at = "open" => service[p].enabled
        /\ op[p].at = "saveOff" =>
              /\ ~service[p].enabled
              /\ op[p].before => config[service[p].session].enabled
              /\ service[p].listening => op[p].before

Busy == {"check", "append", "publish", "wake", "finish"}

Stored(s) == Range(inbound[s])

\* A connection serves a message that exists, for the session it is meant for.
ConnInv ==
    \A c \in Connection :
        conn[c].at # "free" =>
            /\ conn[c].process \in Process
            /\ conn[c].id \in DOMAIN outbound
            /\ conn[c].at \notin {"publish", "wake", "finish"} => ~conn[c].stored
            /\ conn[c].at \in {"publish", "wake"} => conn[c].stored
            /\ conn[c].at \in Busy =>
                  /\ conn[c].session = outbound[conn[c].id].to
                  /\ Opens(conn[c].session) = conn[c].process
                  /\ conn[c].stored => conn[c].id \in Stored(conn[c].session)

\* One connection at a time stores a message for the session a service has.
InflightInv ==
    \A p \in Process :
        /\ \A c \in service[p].inflight :
              conn[c].at \in Busy /\ conn[c].process = p /\ conn[c].session = service[p].session
        /\ \A c, d \in service[p].inflight : conn[c].id = conn[d].id => c = d

\* A session stores the messages to it, once.
InboundInv ==
    \A s \in Session :
        /\ \A k \in DOMAIN inbound[s] : inbound[s][k] \in DOMAIN outbound /\ outbound[inbound[s][k]].to = s
        /\ \A j, k \in DOMAIN inbound[s] : inbound[s][j] = inbound[s][k] /\ inbound[s][k] \notin forgotten => j = k

\* What is stored is in the tables of the service, but for what a connection is
\* about to enter there.
MemoryInv ==
    \A p \in Process :
        service[p].session # None =>
            /\ service[p].inbox \cup service[p].seen \subseteq Stored(service[p].session)
            /\ \A c \in service[p].inflight :
                  conn[c].id \notin forgotten /\ ~conn[c].stored => conn[c].id \notin Stored(service[p].session)
            /\ op[p].at # "load" => \A i \in Stored(service[p].session) \ forgotten :
                  /\ i \in service[p].inbox \/ \E c \in service[p].inflight : conn[c].id = i /\ conn[c].at = "publish"
                  /\ i \in service[p].seen \/ \E c \in service[p].inflight : conn[c].id = i /\ conn[c].stored

Waking(c) == conn[c].at \in {"publish", "wake"} /\ conn[c].id \notin forgotten

\* A message wakes an agent once, after it is stored.
WokenInv ==
    /\ \A i \in Message \ forgotten :
          /\ woken[i] <= 1
          /\ woken[i] > 0 => i \in DOMAIN outbound /\ i \in Stored(outbound[i].to)
    /\ \A c \in Connection : Waking(c) => woken[conn[c].id] = 0
    /\ \A c, d \in Connection : Waking(c) /\ Waking(d) /\ conn[c].id = conn[d].id => c = d

\* An answer is about the message of the one that waits for it.
DeliveredInv ==
    /\ \A i \in DOMAIN outbound : outbound[i].delivered => i \in Stored(outbound[i].to)
    /\ \A p \in Process :
          /\ op[p].at \in {"dial", "answer", "confirm"} => op[p].id \in DOMAIN outbound
          /\ op[p].at = "confirm" => op[p].id \in Stored(outbound[op[p].id].to)
          /\ op[p].at = "answer" =>
                op[p].call \in Connection /\ conn[op[p].call].at # "free" /\ conn[op[p].call].id = op[p].id

\* The service that replies knows the replies of its session.
ReplyInv ==
    /\ \A j \in DOMAIN outbound :
          outbound[j].replyTo # 0 =>
              /\ outbound[j].replyTo \in DOMAIN outbound
              /\ outbound[outbound[j].replyTo].replyTo = 0
              /\ outbound[outbound[j].replyTo].to = outbound[j].from
    /\ \A i, j \in DOMAIN outbound :
          outbound[i].replyTo # 0 /\ outbound[i].replyTo = outbound[j].replyTo =>
              i = j \/ outbound[i].replyTo \in forgotten
    /\ \A p \in Process :
          /\ service[p].outbox \subseteq DOMAIN outbound
          /\ op[p].at = "record" => op[p].to \in Session
          /\ op[p].at = "record" /\ op[p].replyTo # 0 =>
                /\ op[p].replyTo \in DOMAIN outbound
                /\ outbound[op[p].replyTo].replyTo = 0
                /\ outbound[op[p].replyTo].to = service[p].session
                /\ \A j \in DOMAIN outbound : outbound[j].replyTo = op[p].replyTo => op[p].replyTo \in forgotten
          /\ service[p].session # None /\ op[p].at # "load" =>
                \A j \in DOMAIN outbound :
                    outbound[j].from = service[p].session /\ outbound[j].replyTo \notin {0} \cup forgotten =>
                        j \in service[p].outbox

IInv ==
    /\ TypeOK /\ CountInv /\ PlaceInv /\ SettingsInv /\ ConnInv /\ InflightInv /\ InboundInv
    /\ MemoryInv /\ WokenInv /\ DeliveredInv /\ ReplyInv /\ WaitsForDelivery
----------------------------------------
(* Types.                                                                  *)

TextT == [from : Session, to : Session, replyTo : {0} \cup Message, delivered : BOOLEAN]

ServiceT == [session : Session \cup {None}, enabled : BOOLEAN, wake : BOOLEAN, listening : BOOLEAN,
             inbox : SUBSET Message, outbox : SUBSET Message, seen : SUBSET Message,
             inflight : SUBSET Connection, reserved : SUBSET Message]

Tries == 0..1

OpT == [at : {"idle", "record", "dial", "answer", "confirm", "saveOn", "saveOff", "load", "open"},
        to : Session \cup {None}, replyTo : {0} \cup Message, id : {0} \cup Message, attempt : Tries,
        call : Connection \cup {None}, before : BOOLEAN]

ConnT == [at : {"free", "gate", "wait", "check", "append", "publish", "wake", "finish"},
          process : Process \cup {None}, session : Session \cup {None}, id : {0} \cup Message,
          wake : BOOLEAN, canceled : BOOLEAN, stored : BOOLEAN]

RecordTypes ==
    /\ outbound \in Seq(TextT)
    /\ inbound \in [Session -> Seq(Message)]
    /\ config \in [Session -> Settings]
    /\ active \in [Process -> Session \cup {None}] /\ change \in [Process -> Session \cup {None}]

GhostTypes ==
    /\ woken \in [Message -> Nat] /\ forgotten \subseteq Message
    /\ ops \in 0..MaxOps /\ trouble \in 0..MaxTrouble

ServiceType == service \in [Process -> ServiceT]
OpType == op \in [Process -> OpT]
ConnType == conn \in [Connection -> ConnT]

\* The type invariant, variable by variable.
LEMMA Types ==
    TypeOK <=> RecordTypes /\ GhostTypes /\ ServiceType /\ OpType /\ ConnType
  BY DEF TypeOK, RecordTypes, GhostTypes, ServiceType, OpType, ConnType, TextT, ServiceT, OpT, ConnT, Tries

\* What the proofs use of the constants.
LEMMA Parameters ==
    /\ MaxOps \in Nat /\ MaxTrouble \in Nat
    /\ None \notin Process /\ None \notin Session /\ None \notin Connection
    /\ \A s \in Session : Opens(s) \in Process
    /\ 1 \in Message /\ 0 \notin Message /\ Message \subseteq Nat
  BY IntercomAssumption DEF Message

\* The records of those that do nothing.
LEMMA Blank ==
    /\ NoService \in ServiceT /\ NoOp \in OpT /\ NoConn \in ConnT
    /\ NoOp.at = "idle" /\ NoOp.replyTo = 0 /\ NoOp.id = 0 /\ 1 \in Tries
    /\ NoConn.at = "free" /\ ~NoConn.stored
    /\ NoService.session = None /\ Empty(NoService) /\ ~NoService.wake
  BY DEF NoService, NoOp, NoConn, ServiceT, OpT, ConnT, Empty, Tries

\* A retry has the type of an operation.
LEMMA AgainType ==
    ASSUME NEW o \in OpT
    PROVE  /\ Again(o) \in OpT
           /\ Again(o).at \in {"dial", "idle"}
           /\ Again(o).at = "dial" => Again(o).id = o.id
<1>1. CASE o.attempt = 0
 <2>1. Again(o) = [o EXCEPT !.at = "dial", !.attempt = 1, !.call = None] BY <1>1 DEF Again
 <2>. QED BY <2>1, Blank DEF OpT
<1>2. CASE o.attempt # 0 BY <1>2, Blank DEF Again
<1>. QED BY <1>1, <1>2

\* So has what an answer makes of one.
LEMMA AnswersType ==
    ASSUME OpType, NEW c, NEW answer, Answers(c, answer)
    PROVE  /\ OpType'
           /\ \A p \in Process :
                 \/ op'[p] = op[p]
                 \/ /\ op[p].at = "answer" /\ op[p].call = c
                    /\ op'[p].at \in {"dial", "idle", "confirm"}
                    /\ op'[p].at # "idle" => op'[p].id = op[p].id
                    /\ op'[p].at = "confirm" => answer = "delivered"
           /\ \A p \in Process : op'[p].at = "answer" => op'[p].call # c
<1>1. SUFFICES ASSUME NEW p \in Process
      PROVE  /\ op'[p] \in OpT
             /\ \/ op'[p] = op[p]
                \/ /\ op[p].at = "answer" /\ op[p].call = c
                   /\ op'[p].at \in {"dial", "idle", "confirm"}
                   /\ op'[p].at # "idle" => op'[p].id = op[p].id
                   /\ op'[p].at = "confirm" => answer = "delivered"
             /\ op'[p].at = "answer" => op'[p].call # c
  BY Zenon DEF OpType, Answers
<1>2. op[p] \in OpT BY DEF OpType
<1>3. Again(op[p]) \in OpT /\ NoOp \in OpT /\ NoOp.at = "idle" BY <1>2, Blank, AgainType
<1>4. CASE op[p].at # "answer" \/ op[p].call # c BY <1>2, <1>4 DEF Answers
<1>5. CASE op[p].at = "answer" /\ op[p].call = c /\ conn[c].canceled
  BY <1>2, <1>3, <1>5, AgainType DEF Answers
<1>6. CASE op[p].at = "answer" /\ op[p].call = c /\ ~conn[c].canceled /\ answer = "delivered"
 <2>1. op'[p] = [op[p] EXCEPT !.at = "confirm", !.call = None] BY <1>6 DEF Answers
 <2>. QED BY <1>2, <1>6, <2>1 DEF OpT
<1>7. CASE op[p].at = "answer" /\ op[p].call = c /\ ~conn[c].canceled /\ answer # "delivered"
  BY <1>3, <1>7 DEF Answers
<1>. QED BY <1>4, <1>5, <1>6, <1>7

\* Those that answer have a session.
LEMMA PeersType ==
    ASSUME TypeOK, PlaceInv, NEW p \in Process
    PROVE  Peers(p) \subseteq Session
<1>1. \A q \in Process : service[q].listening => service[q].session \in Session
  BY Types DEF PlaceInv, Empty, ServiceType, ServiceT
<1>. QED BY <1>1 DEF Peers

\* The messages are counted.
LEMMA Numbers ==
    ASSUME TypeOK, CountInv
    PROVE  /\ Len(outbound) \in Nat /\ DOMAIN outbound = 1..Len(outbound)
           /\ Len(outbound) <= ops + 1 /\ DOMAIN outbound \subseteq Message
           /\ \A p \in Process : op[p].at = "record" => Len(outbound) + 1 \in Message
<1>1. /\ Len(outbound) \in Nat /\ DOMAIN outbound = 1..Len(outbound)
      /\ ops \in Nat /\ ops <= MaxOps /\ MaxOps \in Nat
  BY Types, Parameters DEF RecordTypes, GhostTypes
<1>2. Cardinality(Recording) \in Nat BY FS_CardinalityType DEF CountInv
<1>3. Len(outbound) <= ops + 1 BY <1>1, <1>2 DEF CountInv
<1>4. ASSUME NEW p \in Process, op[p].at = "record"
      PROVE  Cardinality(Recording) # 0
  BY <1>4, FS_EmptySet DEF CountInv, Recording
<1>5. ASSUME NEW p \in Process, op[p].at = "record"
      PROVE  Len(outbound) + 1 \in Message
  BY <1>1, <1>2, <1>4, <1>5 DEF CountInv, Message
<1>6. DOMAIN outbound \subseteq Message BY <1>1, <1>3 DEF Message
<1>. QED BY <1>1, <1>3, <1>5, <1>6

\* What is recorded.
LEMMA RecordFields ==
    ASSUME TypeOK
    PROVE  /\ \A i \in DOMAIN outbound :
                 /\ outbound[i] \in TextT
                 /\ outbound[i].from \in Session /\ outbound[i].to \in Session
                 /\ outbound[i].replyTo \in {0} \cup Message /\ outbound[i].delivered \in BOOLEAN
           /\ \A s \in Session : inbound[s] \in Seq(Message) /\ Stored(s) \subseteq Message
           /\ \A s \in Session : config[s].enabled \in BOOLEAN /\ config[s].wake \in BOOLEAN
<1>1. RecordTypes BY Types
<1>2. ASSUME NEW i \in DOMAIN outbound
      PROVE  outbound[i] \in TextT
  BY <1>1 DEF RecordTypes
<1>3. ASSUME NEW s \in Session
      PROVE  inbound[s] \in Seq(Message) /\ Stored(s) \subseteq Message
  BY <1>1 DEF RecordTypes, Stored, Range
<1>. QED BY <1>1, <1>2, <1>3 DEF RecordTypes, TextT, Settings

\* An operation is one of its process.
LEMMA OpStep ==
    ASSUME TypeOK, CountInv, PlaceInv, NEW p \in Process, Operate(p) \/ Switch(p) \/ Restart(p)
    PROVE  \E o \in OpT : op' = [op EXCEPT ![p] = o]
<1>0. OpType /\ ServiceType /\ ConnType /\ RecordTypes BY Types
<1>1. op[p] \in OpT /\ service[p] \in ServiceT BY <1>0 DEF OpType, ServiceType
<1>2. UNCHANGED op => \E o \in OpT : op' = [op EXCEPT ![p] = o] BY <1>0, <1>1 DEF OpType
<1>3. Done(p) => \E o \in OpT : op' = [op EXCEPT ![p] = o] BY Blank DEF Done
<1>4. Again(op[p]) \in OpT BY <1>1, AgainType
<1>5. CASE Send(p)
 <2>1. PICK to \in Session : Starts(p, [NoOp EXCEPT !.at = "record", !.to = to])
   BY <1>5, PeersType DEF Send
 <2>2. [NoOp EXCEPT !.at = "record", !.to = to] \in OpT BY Blank DEF OpT
 <2>. QED BY <2>1, <2>2 DEF Starts
<1>6. CASE Reply(p)
 <2>1. PICK i \in service[p].inbox : /\ outbound[i].from \in Peers(p)
                                     /\ Starts(p, [NoOp EXCEPT !.at = "record", !.to = outbound[i].from, !.replyTo = i])
   BY <1>6 DEF Reply
 <2>2. i \in Message /\ outbound[i].from \in Session BY <1>1, <2>1, PeersType DEF ServiceT
 <2>3. [NoOp EXCEPT !.at = "record", !.to = outbound[i].from, !.replyTo = i] \in OpT
   BY <2>2, Blank DEF OpT
 <2>. QED BY <2>1, <2>3 DEF Starts
<1>7. CASE Retry(p)
 <2>1. PICK i \in service[p].outbox : /\ outbound[i].to \in Peers(p)
                                      /\ Starts(p, [NoOp EXCEPT !.at = "dial", !.to = outbound[i].to, !.id = i])
   BY <1>7 DEF Retry
 <2>2. i \in Message /\ outbound[i].to \in Session BY <1>1, <2>1, PeersType DEF ServiceT
 <2>3. [NoOp EXCEPT !.at = "dial", !.to = outbound[i].to, !.id = i] \in OpT BY <2>2, Blank DEF OpT
 <2>. QED BY <2>1, <2>3 DEF Starts
<1>8. CASE Record(p)
 <2>1. Len(outbound) + 1 \in Message BY <1>8, Numbers DEF Record
 <2>2. op' = [op EXCEPT ![p] = [op[p] EXCEPT !.at = "dial", !.id = Len(outbound) + 1]]
   BY <1>0, <1>1, <1>8 DEF Record, OpType
 <2>3. [op[p] EXCEPT !.at = "dial", !.id = Len(outbound) + 1] \in OpT BY <1>1, <2>1 DEF OpT
 <2>. QED BY <2>2, <2>3
<1>9. CASE Dial(p)
 <2>1. ASSUME NEW c \in Connection, op' = [op EXCEPT ![p].at = "answer", ![p].call = c]
       PROVE  \E o \in OpT : op' = [op EXCEPT ![p] = o]
  <3>1. op' = [op EXCEPT ![p] = [op[p] EXCEPT !.at = "answer", !.call = c]]
    BY <1>0, <1>1, <2>1 DEF OpType
  <3>2. [op[p] EXCEPT !.at = "answer", !.call = c] \in OpT BY <1>1 DEF OpT
  <3>. QED BY <3>1, <3>2
 <2>. QED BY <1>4, <1>9, <2>1 DEF Dial
<1>10. CASE TimesOut(p) BY <1>4, <1>10 DEF TimesOut
<1>11. CASE Enable(p)
 <2>1. [NoOp EXCEPT !.at = "saveOn", !.before = service[p].listening] \in OpT
   BY ZenonT(40), <1>1, Blank DEF OpT, ServiceT
 <2>. QED BY <1>11, <2>1 DEF Enable, Starts
<1>12. CASE Disable(p)
 <2>1. [NoOp EXCEPT !.at = "saveOff", !.before = service[p].enabled] \in OpT
   BY ZenonT(40), <1>1, Blank DEF OpT, ServiceT
 <2>. QED BY <1>12, <2>1 DEF Disable, Starts
<1>13. CASE StartSession(p)
 <2>1. [NoOp EXCEPT !.at = "load"] \in OpT BY Blank DEF OpT
 <2>. QED BY <1>13, <2>1 DEF StartSession
<1>14. CASE Load(p) \/ LoadFails(p) \/ Open(p)
 <2>1. op' = [op EXCEPT ![p].at = "open"] => op' = [op EXCEPT ![p] = [op[p] EXCEPT !.at = "open"]]
   BY <1>0, <1>1 DEF OpType
 <2>2. [op[p] EXCEPT !.at = "open"] \in OpT BY <1>1 DEF OpT
 <2>. QED BY <1>3, <1>14, <2>1, <2>2 DEF Load, LoadFails, Open, Unread
<1>15. CASE RecordFails(p) \/ Confirm(p) \/ SaveOn(p) \/ SaveOnFails(p) \/ SaveOff(p) \/ SaveOffFails(p)
  BY <1>3, <1>15 DEF RecordFails, Confirm, SaveOn, SaveOnFails, SaveOff, SaveOffFails
<1>16. CASE SetWake(p) \/ Switch(p) \/ Restart(p)
  BY SMTT(40), <1>2, <1>16 DEF SetWake, Switch, Restart
<1>. QED
  BY <1>5, <1>6, <1>7, <1>8, <1>9, <1>10, <1>11, <1>12, <1>13, <1>14, <1>15, <1>16 DEF Operate

\* A connection changes the tables of the service it serves.
LEMMA ServeService ==
    ASSUME TypeOK, CountInv, ConnInv, NEW c \in Connection, Serve(c)
    PROVE  \E inbox, seen, reserved \in SUBSET Message, inflight \in SUBSET Connection :
               service' = [service EXCEPT ![conn[c].process] =
                              [@ EXCEPT !.inbox = inbox, !.seen = seen, !.reserved = reserved, !.inflight = inflight]]
<1> DEFINE P == conn[c].process
           Goal == \E inbox, seen, reserved \in SUBSET Message, inflight \in SUBSET Connection :
               service' = [service EXCEPT ![P] =
                              [@ EXCEPT !.inbox = inbox, !.seen = seen, !.reserved = reserved, !.inflight = inflight]]
<1>1. conn[c].at # "free"
  BY Zenon, Blank DEF Serve, Reject, Duplicate, Wait, WaitCanceled, Admit, Admitted, Check, Store, Publish, Wake, Finish
<1>2. P \in Process /\ conn[c].id \in DOMAIN outbound /\ conn[c].id \in Message
  BY <1>1, Numbers DEF ConnInv
<1>3. service \in [Process -> ServiceT] /\ service[P] \in ServiceT BY <1>2, Types DEF ServiceType
<1>4. /\ service[P].inbox \in SUBSET Message /\ service[P].seen \in SUBSET Message
      /\ service[P].reserved \in SUBSET Message /\ service[P].inflight \in SUBSET Connection
  BY <1>3 DEF ServiceT
<1>5. ASSUME UNCHANGED service
      PROVE  Goal
 <2>1. service' = [service EXCEPT ![P] = [@ EXCEPT !.inbox = service[P].inbox, !.seen = service[P].seen,
                                             !.reserved = service[P].reserved, !.inflight = service[P].inflight]]
   BY <1>2, <1>3, <1>5 DEF ServiceT
 <2>. QED BY <1>4, <2>1
<1>6. CASE Admit(c)
 <2>1. outbound[conn[c].id].replyTo \in {0} \cup Message BY <1>2, RecordFields
 <2>2. PICK r \in SUBSET Message :
           service' = [service EXCEPT ![P].inflight = @ \cup {c}, ![P].reserved = r]
  <3>1. service[P].reserved \cup ({outbound[conn[c].id].replyTo} \ {0}) \in SUBSET Message
    BY <1>4, <2>1
  <3>. QED BY <1>3, <1>4, <1>6, <3>1 DEF Admit
 <2>3. service' = [service EXCEPT ![P] = [@ EXCEPT !.inbox = service[P].inbox, !.seen = service[P].seen,
                                             !.reserved = r, !.inflight = service[P].inflight \cup {c}]]
   BY <1>2, <1>3, <2>2 DEF ServiceT
 <2>. QED BY ZenonT(40), <1>4, <2>3
<1>7. CASE Publish(c)
 <2>1. CASE ~Current(c) BY <1>5, <1>7, <2>1 DEF Publish
 <2>2. CASE Current(c)
  <3>1. service' = [service EXCEPT ![P] = [@ EXCEPT !.inbox = service[P].inbox \cup {conn[c].id}, !.seen = service[P].seen,
                                            !.reserved = service[P].reserved, !.inflight = service[P].inflight]]
    BY <1>2, <1>3, <1>7, <2>2 DEF Publish, ServiceT
  <3>. QED BY ZenonT(40), <1>2, <1>4, <3>1
 <2>. QED BY <2>1, <2>2
<1>8. CASE Finish(c)
 <2>1. CASE ~Current(c) BY <1>5, <1>8, <2>1 DEF Finish
 <2>2. CASE Current(c)
  <3> DEFINE r == IF conn[c].wake THEN service[P].reserved \ {outbound[conn[c].id].replyTo} ELSE service[P].reserved
             n == IF conn[c].stored THEN service[P].seen \cup {conn[c].id} ELSE service[P].seen
  <3>1. service' = [service EXCEPT ![P] = [@ EXCEPT !.inbox = service[P].inbox, !.seen = n,
                                            !.reserved = r, !.inflight = service[P].inflight \ {c}]]
    BY ZenonT(40), <1>2, <1>3, <1>8, <2>2 DEF Finish, Settled, ServiceT
  <3>2. r \in SUBSET Message /\ n \in SUBSET Message /\ service[P].inflight \ {c} \in SUBSET Connection
    BY <1>2, <1>4
  <3> HIDE DEF r, n
  <3>. QED BY <1>4, <3>1, <3>2
 <2>. QED BY <2>1, <2>2
<1>9. CASE Reject(c) \/ Duplicate(c) \/ Wait(c) \/ WaitCanceled(c) \/ Check(c) \/ Store(c) \/ Wake(c)
  BY Zenon, <1>5, <1>9 DEF Reject, Duplicate, Wait, WaitCanceled, Check, Store, Wake
<1>. QED BY ZenonT(40), <1>6, <1>7, <1>8, <1>9 DEF Serve

\* What a connection leaves alone.
LEMMA ServeFrame ==
    ASSUME TypeOK, CountInv, ConnInv, NEW c \in Connection, Serve(c)
    PROVE  /\ ServiceType' /\ conn[c].at # "free"
           /\ UNCHANGED <<outbound, config, active, change, ops>>
           /\ \A q \in Process :
                 /\ service'[q].session = service[q].session /\ service'[q].enabled = service[q].enabled
                 /\ service'[q].wake = service[q].wake /\ service'[q].listening = service[q].listening
                 /\ service'[q].outbox = service[q].outbox
                 /\ q # conn[c].process => service'[q] = service[q]
<1>1. PICK inbox \in SUBSET Message, seen \in SUBSET Message, reserved \in SUBSET Message,
           inflight \in SUBSET Connection :
               service' = [service EXCEPT ![conn[c].process] =
                              [@ EXCEPT !.inbox = inbox, !.seen = seen, !.reserved = reserved, !.inflight = inflight]]
  BY ServeService
<1>2. service \in [Process -> ServiceT] BY Types DEF ServiceType
<1>3. ASSUME NEW q \in Process
      PROVE  /\ service'[q] \in ServiceT
             /\ service'[q].session = service[q].session /\ service'[q].enabled = service[q].enabled
             /\ service'[q].wake = service[q].wake /\ service'[q].listening = service[q].listening
             /\ service'[q].outbox = service[q].outbox
             /\ q # conn[c].process => service'[q] = service[q]
 <2>1. service[q] \in ServiceT BY <1>2
 <2>2. CASE q = conn[c].process
  <3>1. service'[q] = [service[q] EXCEPT !.inbox = inbox, !.seen = seen, !.reserved = reserved, !.inflight = inflight]
    BY <1>1, <1>2, <2>2
  <3>. QED BY ZenonT(40), <2>1, <2>2, <3>1 DEF ServiceT
 <2>3. CASE q # conn[c].process BY <1>1, <1>2, <2>1, <2>3
 <2>. QED BY <2>2, <2>3
<1>4. ServiceType' BY Zenon, <1>1, <1>2, <1>3 DEF ServiceType
<1>5. /\ conn[c].at # "free"
      /\ UNCHANGED <<outbound, config, active, change, ops>>
  BY Zenon DEF Serve, Reject, Duplicate, Wait, WaitCanceled, Admit, Admitted, Check, Store, Publish, Wake, Finish,
         durable, bounds
<1>. QED BY <1>3, <1>4, <1>5

\* What a connection does to the operations.
LEMMA ServeOp ==
    ASSUME TypeOK, NEW c \in Connection, Serve(c)
    PROVE  /\ OpType'
           /\ \A p \in Process :
                 \/ op'[p] = op[p]
                 \/ /\ op[p].at = "answer" /\ op[p].call = c
                    /\ op'[p].at \in {"dial", "idle", "confirm"}
                    /\ op'[p].at # "idle" => op'[p].id = op[p].id
                    /\ op'[p].at = "confirm" => Duplicate(c) \/ (Finish(c) /\ conn[c].stored)
           /\ \/ op' = op /\ (Wait(c) \/ Admit(c) \/ Check(c) \/ Store(c) \/ Publish(c) \/ Wake(c))
              \/ \A p \in Process : op'[p].at = "answer" => op'[p].call # c
<1> OpType BY Types
<1>1. CASE op' = op /\ (Wait(c) \/ Admit(c) \/ Check(c) \/ Store(c) \/ Publish(c) \/ Wake(c))
  BY <1>1 DEF OpType
<1>2. CASE Reject(c) \/ WaitCanceled(c)
 <2>1. Answers(c, "error") BY <1>2 DEF Reject, WaitCanceled
 <2>. QED BY <2>1, AnswersType
<1>3. CASE Duplicate(c)
 <2>1. Answers(c, "delivered") BY <1>3 DEF Duplicate
 <2>. QED BY <1>3, <2>1, AnswersType
<1>4. CASE Finish(c)
 <2>1. CASE conn[c].stored
  <3>1. Answers(c, "delivered") BY <1>4, <2>1 DEF Finish
  <3>. QED BY <1>4, <2>1, <3>1, AnswersType
 <2>2. CASE ~conn[c].stored
  <3>1. Answers(c, "error") BY SMTT(40), <1>4, <2>2 DEF Finish
  <3>. QED BY <3>1, AnswersType
 <2>. QED BY <2>1, <2>2
<1>5. CASE Wait(c) \/ Admit(c) \/ Check(c) \/ Store(c) \/ Publish(c) \/ Wake(c)
  BY Zenon, <1>1, <1>5 DEF Wait, Admit, Check, Store, Publish, Wake
<1>. QED BY <1>2, <1>3, <1>4, <1>5 DEF Serve

\* An operation changes the service of its process, and so does the end of it.
LEMMA ServiceStep ==
    ASSUME TypeOK, CountInv, PlaceInv, NEW p \in Process, Operate(p) \/ Switch(p) \/ Restart(p) \/ Crash(p)
    PROVE  \E sv \in ServiceT : service' = [service EXCEPT ![p] = sv]
<1>0. service \in [Process -> ServiceT] /\ RecordTypes BY Types DEF ServiceType
<1>1. service[p] \in ServiceT BY <1>0
<1>2. UNCHANGED service => \E sv \in ServiceT : service' = [service EXCEPT ![p] = sv] BY <1>0, <1>1
<1>3. CASE Record(p)
 <2>1. Len(outbound) + 1 \in Message BY <1>3, Numbers DEF Record
 <2>2. service' = [service EXCEPT ![p] = [service[p] EXCEPT !.outbox = service[p].outbox \cup {Len(outbound) + 1}]]
   BY <1>0, <1>1, <1>3 DEF Record
 <2>3. [service[p] EXCEPT !.outbox = service[p].outbox \cup {Len(outbound) + 1}] \in ServiceT
   BY <1>1, <2>1 DEF ServiceT
 <2>. QED BY <2>2, <2>3
<1>4. CASE Enable(p) \/ SaveOnFails(p) \/ SaveOff(p) \/ Open(p)
 <2>1. op[p].before \in BOOLEAN BY Types DEF OpType, OpT
 <2>2. \E b \in BOOLEAN : service' = [service EXCEPT ![p] = [service[p] EXCEPT !.listening = b]]
  <3>1. CASE Enable(p) BY <1>0, <1>1, <3>1 DEF Enable
  <3>2. CASE SaveOnFails(p) BY <1>0, <1>1, <2>1, <3>2 DEF SaveOnFails
  <3>3. CASE SaveOff(p) BY <1>0, <1>1, <3>3 DEF SaveOff, Closed
  <3>4. CASE Open(p)
   <4>1. CASE UNCHANGED service
    <5>1. service' = [service EXCEPT ![p] = [service[p] EXCEPT !.listening = service[p].listening]]
      BY <1>0, <1>1, <4>1 DEF ServiceT
    <5>2. service[p].listening \in BOOLEAN BY <1>1 DEF ServiceT
    <5>. QED BY <5>1, <5>2
   <4>2. CASE service' = [service EXCEPT ![p].listening = TRUE] BY <1>0, <1>1, <4>2
   <4>. QED BY <3>4, <4>1, <4>2 DEF Open
  <3>. QED BY <1>4, <3>1, <3>2, <3>3, <3>4
 <2>3. \A b \in BOOLEAN : [service[p] EXCEPT !.listening = b] \in ServiceT BY <1>1 DEF ServiceT
 <2>. QED BY <2>2, <2>3
<1>5. CASE SaveOn(p) \/ Disable(p) \/ SaveOffFails(p)
 <2>1. op[p].before \in BOOLEAN BY Types DEF OpType, OpT
 <2>2. \E b \in BOOLEAN : service' = [service EXCEPT ![p] = [service[p] EXCEPT !.enabled = b]]
   BY <1>0, <1>1, <1>5, <2>1 DEF SaveOn, Disable, SaveOffFails
 <2>3. \A b \in BOOLEAN : [service[p] EXCEPT !.enabled = b] \in ServiceT BY <1>1 DEF ServiceT
 <2>. QED BY <2>2, <2>3
<1>6. CASE SetWake(p)
 <2>1. service' = [service EXCEPT ![p] = [service[p] EXCEPT !.wake = ~service[p].wake]]
   BY <1>0, <1>1, <1>6 DEF SetWake
 <2>2. [service[p] EXCEPT !.wake = ~service[p].wake] \in ServiceT BY <1>1 DEF ServiceT
 <2>. QED BY <2>1, <2>2
<1>7. CASE StartSession(p)
 <2>1. change[p] \in Session \cup {None} BY <1>0 DEF RecordTypes
 <2>2. [NoService EXCEPT !.session = change[p]] \in ServiceT BY <2>1, Blank DEF ServiceT
 <2>. QED BY <1>7, <2>2 DEF StartSession
<1>8. CASE Load(p)
 <2>1. CASE UNCHANGED service BY <1>2, <2>1
 <2>2. CASE service' = [service EXCEPT ![p] = Loaded(@)]
  <3>1. service[p].session \in Session BY <1>1, <1>8 DEF Load, PlaceInv, ServiceT
  <3>2. /\ config[service[p].session].enabled \in BOOLEAN /\ config[service[p].session].wake \in BOOLEAN
        /\ Range(inbound[service[p].session]) \subseteq Message /\ Sent(service[p].session) \subseteq Message
    BY <3>1, RecordFields, Numbers DEF Sent, Stored
  <3>3. Loaded(service[p]) \in ServiceT BY <1>1, <3>2 DEF Loaded, ServiceT
  <3>. QED BY <2>2, <3>3
 <2>. QED BY <1>8, <2>1, <2>2 DEF Load
<1>9. CASE Crash(p) BY <1>9, Blank DEF Crash
<1>10. CASE \/ Send(p) \/ Reply(p) \/ Retry(p) \/ RecordFails(p) \/ Dial(p) \/ TimesOut(p) \/ Confirm(p) \/ LoadFails(p)
            \/ Switch(p) \/ Restart(p)
  BY <1>2, <1>10 DEF Send, Reply, Retry, RecordFails, Dial, TimesOut, Confirm, LoadFails, Switch, Restart
<1>. QED BY <1>3, <1>4, <1>5, <1>6, <1>7, <1>8, <1>9, <1>10 DEF Operate

\* The connection is the same, but for its context.
SameConn(c) ==
    /\ conn'[c].at = conn[c].at /\ conn'[c].process = conn[c].process /\ conn'[c].session = conn[c].session
    /\ conn'[c].id = conn[c].id /\ conn'[c].wake = conn[c].wake /\ conn'[c].stored = conn[c].stored

\* Operations dial and cancel.
LEMMA ConnStep ==
    ASSUME TypeOK, NEW p \in Process, Operate(p) \/ Switch(p) \/ Restart(p), ~Dial(p)
    PROVE  ConnType' /\ \A c \in Connection : SameConn(c)
<1>0. conn \in [Connection -> ConnT] BY Types DEF ConnType
<1>1. CASE UNCHANGED conn BY <1>0, <1>1 DEF ConnType, SameConn
<1>2. CASE conn' = CancelConns(p)
 <2>1. ASSUME NEW c \in Connection
       PROVE  conn'[c] \in ConnT /\ SameConn(c)
  <3>1. conn[c] \in ConnT BY <1>0
  <3>2. conn'[c] = [conn[c] EXCEPT !.canceled = TRUE] \/ conn'[c] = conn[c] BY <1>2 DEF CancelConns
  <3>. QED BY <3>1, <3>2 DEF ConnT, SameConn
 <2>2. conn' = [c \in Connection |-> conn'[c]] BY <1>2 DEF CancelConns
 <2>. QED BY <2>1, <2>2 DEF ConnType
<1>3. UNCHANGED conn \/ conn' = CancelConns(p)
 <2>1. CASE Send(p) \/ Reply(p) \/ Retry(p) \/ Enable(p) \/ Disable(p)
   BY <2>1 DEF Send, Reply, Retry, Enable, Disable, Starts
 <2>2. CASE Record(p) \/ RecordFails(p) \/ TimesOut(p) \/ Confirm(p) \/ SaveOn(p) \/ SaveOffFails(p) \/ SetWake(p)
   BY <2>2 DEF Record, RecordFails, TimesOut, Confirm, SaveOn, SaveOffFails, SetWake
 <2>3. CASE SaveOnFails(p) \/ SaveOff(p) \/ StartSession(p)
   BY <2>3 DEF SaveOnFails, SaveOff, StartSession
 <2>4. CASE Load(p) \/ LoadFails(p) \/ Open(p) \/ Switch(p) \/ Restart(p)
   BY <2>4 DEF Load, LoadFails, Open, Switch, Restart
 <2>. QED BY <2>1, <2>2, <2>3, <2>4 DEF Operate
<1>. QED BY <1>1, <1>2, <1>3

\* A call is a connection that is served, or there is none.
LEMMA DialConn ==
    ASSUME TypeOK, CountInv, DeliveredInv, NEW p \in Process, Dial(p)
    PROVE  /\ ConnType'
           /\ \/ UNCHANGED conn /\ op' = [op EXCEPT ![p] = Again(@)]
              \/ \E c \in Connection, q \in Process :
                    /\ conn[c].at = "free" /\ op' = [op EXCEPT ![p].at = "answer", ![p].call = c]
                    /\ service[q].listening /\ service[q].session = op[p].to
                    /\ conn'[c].at = "gate" /\ conn'[c].process = q /\ conn'[c].id = op[p].id /\ ~conn'[c].stored
                    /\ \A d \in Connection \ {c} : conn'[d] = conn[d]
<1>0. conn \in [Connection -> ConnT] BY Types DEF ConnType
<1>1. CASE UNCHANGED conn /\ op' = [op EXCEPT ![p] = Again(@)] BY <1>0, <1>1 DEF ConnType
<1>2. ASSUME NEW c \in Connection, NEW q \in Listener(op[p].to), conn[c].at = "free",
             conn' = [conn EXCEPT ![c] = [NoConn EXCEPT !.at = "gate", !.process = q, !.id = op[p].id]],
             op' = [op EXCEPT ![p].at = "answer", ![p].call = c]
      PROVE  /\ ConnType'
             /\ \E d \in Connection, r \in Process :
                    /\ conn[d].at = "free" /\ op' = [op EXCEPT ![p].at = "answer", ![p].call = d]
                    /\ service[r].listening /\ service[r].session = op[p].to
                    /\ conn'[d].at = "gate" /\ conn'[d].process = r /\ conn'[d].id = op[p].id /\ ~conn'[d].stored
                    /\ \A e \in Connection \ {d} : conn'[e] = conn[e]
 <2>1. q \in Process /\ service[q].listening /\ service[q].session = op[p].to BY DEF Listener
 <2>2. op[p].id \in Message BY Numbers DEF DeliveredInv, Dial
 <2> DEFINE n == [NoConn EXCEPT !.at = "gate", !.process = q, !.id = op[p].id]
 <2>3. n \in ConnT /\ n.at = "gate" /\ n.process = q /\ n.id = op[p].id /\ ~n.stored
   BY <2>1, <2>2, Blank DEF ConnT
 <2>4. conn' = [conn EXCEPT ![c] = n] BY <1>2
 <2> HIDE DEF n
 <2>5. ConnType' BY <1>0, <2>3, <2>4 DEF ConnType
 <2>6. conn'[c] = n /\ \A d \in Connection \ {c} : conn'[d] = conn[d] BY <1>0, <2>4
 <2>. QED BY <1>2, <2>1, <2>3, <2>5, <2>6
<1>. QED BY <1>1, <1>2 DEF Dial

\* A connection ends, or goes on with its message.
LEMMA ServeConn ==
    ASSUME TypeOK, CountInv, ConnInv, NEW c \in Connection, Serve(c)
    PROVE  /\ ConnType'
           /\ \A d \in Connection \ {c} :
                 \/ SameConn(d)
                 \/ /\ Finish(c) /\ conn[d].at = "wait" /\ conn'[d].at = "gate" /\ conn'[d].process = conn[d].process
                    /\ conn'[d].id = conn[d].id /\ conn'[d].stored = conn[d].stored
           /\ \/ conn'[c].at = "free"
              \/ /\ conn'[c].process = conn[c].process /\ conn'[c].id = conn[c].id
                 /\ ~Admit(c) => conn'[c].session = conn[c].session
                 /\ ~Store(c) => conn'[c].stored = conn[c].stored
<1>0. conn \in [Connection -> ConnT] /\ service \in [Process -> ServiceT]
  BY Types DEF ConnType, ServiceType
<1>1. conn[c] \in ConnT /\ conn[c].process \in Process BY <1>0, ServeFrame DEF ConnInv
<1>2. ASSUME NEW n \in ConnT, conn' = [conn EXCEPT ![c] = n]
      PROVE  ConnType' /\ conn'[c] = n /\ \A d \in Connection \ {c} : SameConn(d)
  BY <1>0, <1>2 DEF ConnType, SameConn
<1>3. CASE Reject(c) \/ Duplicate(c) \/ WaitCanceled(c)
 <2>1. conn' = [conn EXCEPT ![c] = NoConn] BY <1>3 DEF Reject, Duplicate, WaitCanceled
 <2>. QED BY <1>2, <2>1, Blank
<1>4. CASE Wait(c) \/ Check(c) \/ Publish(c) \/ Wake(c)
 <2>1. PICK a \in {"wait", "finish", "append", "wake"} : conn' = [conn EXCEPT ![c].at = a]
   BY <1>4 DEF Wait, Check, Publish, Wake
 <2>2. [conn[c] EXCEPT !.at = a] \in ConnT BY <1>1 DEF ConnT
 <2>3. conn' = [conn EXCEPT ![c] = [conn[c] EXCEPT !.at = a]] BY <1>0, <1>1, <2>1
 <2>4. ConnType' /\ conn'[c] = [conn[c] EXCEPT !.at = a] /\ \A d \in Connection \ {c} : SameConn(d)
   BY <1>2, <2>2, <2>3
 <2>. QED BY <1>1, <2>4 DEF ConnT
<1>5. CASE Admit(c)
 <2> DEFINE P == conn[c].process
            w == MayWake(service[P], conn[c].id)
            n == [conn[c] EXCEPT !.at = "check", !.session = service[P].session, !.wake = w]
 <2>1. conn' = [conn EXCEPT ![c] = n] BY <1>0, <1>1, <1>5 DEF Admit
 <2>2. w \in BOOLEAN BY DEF MayWake
 <2>3. service[P].session \in Session \cup {None} BY <1>0, <1>1 DEF ServiceT
 <2>4. /\ n \in ConnT /\ n.process = conn[c].process /\ n.id = conn[c].id /\ n.stored = conn[c].stored
   BY <1>1, <2>2, <2>3 DEF ConnT
 <2> HIDE DEF n
 <2>5. ConnType' /\ conn'[c] = n /\ \A d \in Connection \ {c} : SameConn(d) BY <1>2, <2>1, <2>4
 <2>. QED BY <1>5, <2>4, <2>5 DEF Admit
<1>6. CASE Store(c)
 <2>1. PICK a \in {"publish", "finish"}, b \in BOOLEAN : conn' = [conn EXCEPT ![c].at = a, ![c].stored = b]
  <3>1. conn' = [conn EXCEPT ![c].at = "publish", ![c].stored = TRUE]
           \/ conn' = [conn EXCEPT ![c].at = "finish", ![c].stored = conn[c].stored]
   <4>1. CASE conn' = [conn EXCEPT ![c].at = "finish"]
    <5>1. [conn EXCEPT ![c].at = "finish"] = [conn EXCEPT ![c].at = "finish", ![c].stored = conn[c].stored]
      BY <1>0, <1>1 DEF ConnT
    <5>. QED BY <4>1, <5>1
   <4>. QED BY <1>6, <4>1 DEF Store
  <3>2. conn[c].stored \in BOOLEAN BY <1>1 DEF ConnT
  <3>. QED BY <3>1, <3>2
 <2>2. [conn[c] EXCEPT !.at = a, !.stored = b] \in ConnT BY <1>1 DEF ConnT
 <2>3. conn' = [conn EXCEPT ![c] = [conn[c] EXCEPT !.at = a, !.stored = b]] BY <1>0, <1>1, <2>1
 <2>4. ConnType' /\ conn'[c] = [conn[c] EXCEPT !.at = a, !.stored = b] /\ \A d \in Connection \ {c} : SameConn(d)
   BY <1>2, <2>2, <2>3
 <2>. QED BY <1>1, <1>6, <2>4 DEF ConnT
<1>7. CASE Finish(c)
 <2>1. ASSUME NEW d \in Connection
       PROVE  /\ conn'[d] \in ConnT
              /\ d = c => conn'[d].at = "free"
              /\ d # c =>
                    \/ SameConn(d)
                    \/ /\ conn[d].at = "wait" /\ conn'[d].at = "gate" /\ conn'[d].process = conn[d].process
                       /\ conn'[d].id = conn[d].id /\ conn'[d].stored = conn[d].stored
  <3>1. conn[d] \in ConnT BY <1>0
  <3>2. CASE conn'[d] = NoConn /\ d = c BY <3>2, Blank
  <3>3. CASE conn'[d] = [conn[d] EXCEPT !.at = "gate"] /\ conn[d].at = "wait" /\ d # c
    BY <3>1, <3>3 DEF ConnT
  <3>4. CASE conn'[d] = conn[d] /\ d # c BY <3>1, <3>4 DEF SameConn
  <3>. QED BY <1>7, <3>2, <3>3, <3>4 DEF Finish
 <2>2. conn' = [d \in Connection |-> conn'[d]] BY <1>7 DEF Finish
 <2>. QED BY <1>7, <2>1, <2>2 DEF ConnType
<1>. QED BY <1>3, <1>4, <1>5, <1>6, <1>7 DEF Serve

\* The end of a process ends its connections.
LEMMA CrashConn ==
    ASSUME TypeOK, NEW p \in Process, Crash(p)
    PROVE  /\ ConnType'
           /\ \A c \in Connection :
                 IF conn[c].process = p THEN conn'[c].at = "free" ELSE conn'[c] = conn[c]
           /\ op'[p] = NoOp
           /\ OpType'
           /\ \A q \in Process \ {p} :
                 \/ op'[q] = op[q] /\ ~(op[q].at = "answer" /\ conn[op[q].call].process = p)
                 \/ /\ op[q].at = "answer" /\ op'[q].at \in {"dial", "idle"}
                    /\ op'[q].at = "dial" => op'[q].id = op[q].id
<1>0. conn \in [Connection -> ConnT] /\ op \in [Process -> OpT] BY Types DEF ConnType, OpType
<1>1. conn' = [c \in Connection |-> IF conn[c].process = p THEN NoConn ELSE conn[c]] BY DEF Crash
<1>2. ConnType' /\ \A c \in Connection : IF conn[c].process = p THEN conn'[c].at = "free" ELSE conn'[c] = conn[c]
  BY <1>0, <1>1, Blank DEF ConnType
<1>3. ASSUME NEW q \in Process
      PROVE  /\ op'[q] \in OpT
             /\ q # p =>
                 \/ op'[q] = op[q] /\ ~(op[q].at = "answer" /\ conn[op[q].call].process = p)
                 \/ /\ op[q].at = "answer" /\ op'[q].at \in {"dial", "idle"}
                    /\ op'[q].at = "dial" => op'[q].id = op[q].id
 <2>1. op[q] \in OpT BY <1>0
 <2>2. op'[q] = IF q = p THEN NoOp
               ELSE IF op[q].at = "answer" /\ conn[op[q].call].process = p THEN Again(op[q])
               ELSE op[q]
   BY DEF Crash
 <2>. QED BY <2>1, <2>2, Blank, AgainType
<1>4. op' = [q \in Process |-> op'[q]] /\ op'[p] = NoOp BY SMTT(40) DEF Crash
<1>. QED BY <1>2, <1>3, <1>4 DEF OpType

\* What a recorded message says stays; the next one is recorded at the end.
OutboundStep ==
    /\ outbound' \in Seq(TextT) /\ DOMAIN outbound \subseteq DOMAIN outbound'
    /\ \A i \in DOMAIN outbound :
          /\ outbound'[i].from = outbound[i].from /\ outbound'[i].to = outbound[i].to
          /\ outbound'[i].replyTo = outbound[i].replyTo
          /\ outbound'[i].delivered =>
                outbound[i].delivered \/ \E p \in Process : op[p].at = "confirm" /\ op[p].id = i
    /\ \/ DOMAIN outbound' = DOMAIN outbound /\ Len(outbound') = Len(outbound)
       \/ \E p \in Process :
             /\ Record(p) /\ Len(outbound') = Len(outbound) + 1
             /\ DOMAIN outbound' = DOMAIN outbound \cup {Len(outbound) + 1}
             /\ Len(outbound) + 1 \notin DOMAIN outbound
             /\ outbound'[Len(outbound) + 1] = [from |-> service[p].session, to |-> op[p].to,
                                                replyTo |-> op[p].replyTo, delivered |-> FALSE]

\* What Record does to the record of the messages.
LEMMA Recorded ==
    ASSUME TypeOK, CountInv, PlaceInv, ReplyInv, NEW p \in Process, Record(p)
    PROVE  OutboundStep
<1>0. outbound \in Seq(TextT) BY Types DEF RecordTypes
<1> DEFINE m == [from |-> service[p].session, to |-> op[p].to, replyTo |-> op[p].replyTo, delivered |-> FALSE]
<1>1. service[p].session \in Session BY Types DEF Record, PlaceInv, ServiceType, ServiceT
<1>2. op[p].to \in Session /\ op[p].replyTo \in {0} \cup Message
  BY Types DEF Record, ReplyInv, OpType, OpT
<1>3. m \in TextT BY <1>1, <1>2 DEF TextT
<1>4. outbound' = Append(outbound, m) BY DEF Record
<1> HIDE DEF m
<1>5. /\ outbound' \in Seq(TextT) /\ Len(outbound') = Len(outbound) + 1 /\ outbound'[Len(outbound) + 1] = m
      /\ \A i \in 1..Len(outbound) : outbound'[i] = outbound[i]
  BY <1>0, <1>3, <1>4, AppendProperties
<1>6. /\ DOMAIN outbound = 1..Len(outbound) /\ DOMAIN outbound' = 1..(Len(outbound) + 1) /\ Len(outbound) \in Nat
  BY <1>0, <1>5
<1>7. DOMAIN outbound' = DOMAIN outbound \cup {Len(outbound) + 1} /\ Len(outbound) + 1 \notin DOMAIN outbound
  BY <1>6
<1>. QED BY Zenon, <1>5, <1>6, <1>7 DEF OutboundStep, m

\* What a step does to the record of the messages.
LEMMA Outbound ==
    ASSUME TypeOK, CountInv, PlaceInv, ConnInv, DeliveredInv, ReplyInv, [Next]_vars
    PROVE  OutboundStep
<1>0. outbound \in Seq(TextT) BY Types DEF RecordTypes
<1>1. CASE UNCHANGED outbound BY <1>0, <1>1 DEF OutboundStep
<1>2. ASSUME NEW p \in Process, Confirm(p)
      PROVE  OutboundStep
 <2>1. CASE UNCHANGED outbound BY <1>1, <2>1
 <2>2. CASE outbound' = [outbound EXCEPT ![op[p].id].delivered = TRUE]
  <3>1. op[p].id \in DOMAIN outbound /\ op[p].at = "confirm" BY <1>2 DEF Confirm, DeliveredInv
  <3>2. outbound[op[p].id] \in TextT BY <3>1, RecordFields
  <3>3. outbound' = [outbound EXCEPT ![op[p].id] = [outbound[op[p].id] EXCEPT !.delivered = TRUE]]
    BY <2>2
  <3>4. [outbound[op[p].id] EXCEPT !.delivered = TRUE] \in TextT BY <3>2 DEF TextT
  <3>5. outbound' \in Seq(TextT) /\ DOMAIN outbound' = DOMAIN outbound /\ Len(outbound') = Len(outbound)
    BY <1>0, <3>1, <3>3, <3>4
  <3>6. ASSUME NEW i \in DOMAIN outbound
        PROVE  /\ outbound'[i].from = outbound[i].from /\ outbound'[i].to = outbound[i].to
               /\ outbound'[i].replyTo = outbound[i].replyTo
               /\ outbound'[i].delivered => outbound[i].delivered \/ op[p].id = i
    BY <3>2, <3>3, <3>6 DEF TextT
  <3>. QED BY <3>1, <3>5, <3>6 DEF OutboundStep
 <2>. QED BY <1>2, <2>1, <2>2 DEF Confirm
<1>3. ASSUME NEW p \in Process, Operate(p)
      PROVE  OutboundStep
 <2>1. CASE Send(p) \/ Reply(p) \/ Retry(p) \/ Enable(p) \/ Disable(p)
   BY <1>1, <2>1 DEF Send, Reply, Retry, Enable, Disable, Starts, durable
 <2>2. CASE RecordFails(p) \/ TimesOut(p) \/ Dial(p) \/ SaveOn(p) \/ SaveOffFails(p) \/ SetWake(p)
   BY <1>1, <2>2 DEF RecordFails, TimesOut, Dial, SaveOn, SaveOffFails, SetWake, durable
 <2>3. CASE SaveOnFails(p) \/ SaveOff(p) \/ StartSession(p)
   BY <1>1, <2>3 DEF SaveOnFails, SaveOff, StartSession, durable
 <2>4. CASE Load(p) \/ LoadFails(p) \/ Open(p) BY <1>1, <2>4 DEF Load, LoadFails, Open, durable
 <2>. QED BY SMTT(40), <1>2, <1>3, <2>1, <2>2, <2>3, <2>4, Recorded DEF Operate
<1>4. ASSUME NEW c \in Connection, Serve(c)
      PROVE  OutboundStep
  BY <1>1, <1>4, ServeFrame
<1>5. ASSUME NEW p \in Process, Switch(p) \/ Crash(p) \/ Restart(p)
      PROVE  OutboundStep
  BY <1>1, <1>5 DEF Switch, Crash, Restart, durable
<1>. QED BY <1>1, <1>3, <1>4, <1>5 DEF Next, Quiet, vars, durable

\* A session records at its end.
InboundStep(s) ==
    \/ inbound'[s] = inbound[s]
    \/ \E c \in Connection :
          /\ Store(c) /\ s = conn[c].session /\ inbound'[s] = Append(inbound[s], conn[c].id)
          /\ active[conn[c].process] = s
          /\ conn'[c].at = "publish" /\ conn'[c].stored
          /\ forgotten' = IF c \in service[conn[c].process].inflight THEN forgotten ELSE forgotten \cup {conn[c].id}

\* What a step does to the record of a session.
LEMMA Inbound ==
    ASSUME TypeOK, CountInv, ConnInv, [Next]_vars
    PROVE  inbound' \in [Session -> Seq(Message)] /\ \A s \in Session : InboundStep(s)
<1>0. inbound \in [Session -> Seq(Message)] /\ conn \in [Connection -> ConnT]
  BY Types DEF RecordTypes, ConnType
<1>1. CASE UNCHANGED inbound BY <1>0, <1>1 DEF InboundStep
<1>2. ASSUME NEW c \in Connection, Store(c)
      PROVE  inbound' \in [Session -> Seq(Message)] /\ \A s \in Session : InboundStep(s)
 <2>1. CASE UNCHANGED inbound BY <1>1, <2>1
 <2>2. CASE /\ active[conn[c].process] = conn[c].session
            /\ inbound' = [inbound EXCEPT ![conn[c].session] = Append(@, conn[c].id)]
            /\ conn' = [conn EXCEPT ![c].at = "publish", ![c].stored = TRUE]
            /\ forgotten' = IF c \in service[conn[c].process].inflight THEN forgotten ELSE forgotten \cup {conn[c].id}
  <3>1. conn[c].id \in Message BY <1>2, Numbers DEF ConnInv, Store
  <3>2. conn'[c].at = "publish" /\ conn'[c].stored BY <1>0, <2>2 DEF ConnT
  <3>3. inbound' \in [Session -> Seq(Message)]
   <4>1. inbound[conn[c].session] \in Seq(Message) => Append(inbound[conn[c].session], conn[c].id) \in Seq(Message)
     BY <3>1, AppendProperties
   <4>. QED BY <1>0, <2>2, <4>1
  <3>4. \A s \in Session : inbound'[s] = IF s = conn[c].session THEN Append(inbound[s], conn[c].id) ELSE inbound[s]
    BY SMTT(40), <1>0, <2>2
  <3>. QED BY <1>2, <2>2, <3>2, <3>3, <3>4 DEF InboundStep
 <2>. QED BY <1>2, <2>1, <2>2 DEF Store
<1>3. ASSUME NEW c \in Connection, Serve(c)
      PROVE  UNCHANGED inbound \/ Store(c)
  BY <1>3 DEF Serve, Reject, Duplicate, Wait, WaitCanceled, Admit, Check, Publish, Wake, Finish, durable
<1>4. ASSUME NEW p \in Process, Operate(p)
      PROVE  UNCHANGED inbound
 <2>1. CASE Send(p) \/ Reply(p) \/ Retry(p) \/ Enable(p) \/ Disable(p)
   BY <2>1 DEF Send, Reply, Retry, Enable, Disable, Starts, durable
 <2>2. CASE RecordFails(p) \/ TimesOut(p) \/ Dial(p) \/ SaveOn(p) \/ SaveOffFails(p) \/ SetWake(p)
   BY <2>2 DEF RecordFails, TimesOut, Dial, SaveOn, SaveOffFails, SetWake, durable
 <2>3. CASE SaveOnFails(p) \/ SaveOff(p) \/ StartSession(p) \/ Record(p) \/ Confirm(p)
   BY <2>3 DEF SaveOnFails, SaveOff, StartSession, Record, Confirm, durable
 <2>4. CASE Load(p) \/ LoadFails(p) \/ Open(p) BY <2>4 DEF Load, LoadFails, Open, durable
 <2>. QED BY SMTT(40), <1>4, <2>1, <2>2, <2>3, <2>4 DEF Operate
<1>5. ASSUME NEW p \in Process, Switch(p) \/ Crash(p) \/ Restart(p)
      PROVE  UNCHANGED inbound
  BY <1>5 DEF Switch, Crash, Restart, durable
<1>. QED BY <1>1, <1>2, <1>3, <1>4, <1>5 DEF Next, Quiet, vars, durable

\* What is stored stays.
LEMMA StoredStep ==
    ASSUME TypeOK, NEW s \in Session, NEW i \in Message
    PROVE  /\ inbound'[s] = Append(inbound[s], i) => Stored(s)' = Stored(s) \cup {i}
           /\ inbound'[s] = inbound[s] => Stored(s)' = Stored(s)
<1>1. inbound[s] \in Seq(Message) BY Types DEF RecordTypes
<1>2. ASSUME inbound'[s] = Append(inbound[s], i)
      PROVE  Range(inbound'[s]) = Range(inbound[s]) \cup {i}
 <2>1. /\ Len(inbound'[s]) = Len(inbound[s]) + 1 /\ inbound'[s][Len(inbound[s]) + 1] = i
       /\ \A k \in 1..Len(inbound[s]) : inbound'[s][k] = inbound[s][k]
       /\ DOMAIN inbound'[s] = 1..(Len(inbound[s]) + 1) /\ DOMAIN inbound[s] = 1..Len(inbound[s])
       /\ Len(inbound[s]) \in Nat
   BY <1>1, <1>2, AppendProperties
 <2>2. DOMAIN inbound'[s] = DOMAIN inbound[s] \cup {Len(inbound[s]) + 1} BY <2>1
 <2>. QED BY <2>1, <2>2 DEF Range
<1>. QED BY <1>2 DEF Stored, Range

\* The rest of the records have their types.
LEMMA RestTypes ==
    ASSUME TypeOK, CountInv, PlaceInv, ConnInv, [Next]_vars
    PROVE  /\ config' \in [Session -> Settings]
           /\ active' \in [Process -> Session \cup {None}] /\ change' \in [Process -> Session \cup {None}]
           /\ GhostTypes'
<1>0. /\ config \in [Session -> Settings] /\ service \in [Process -> ServiceT]
      /\ active \in [Process -> Session \cup {None}] /\ change \in [Process -> Session \cup {None}]
      /\ woken \in [Message -> Nat] /\ forgotten \subseteq Message
      /\ ops \in 0..MaxOps /\ trouble \in 0..MaxTrouble /\ MaxOps \in Nat /\ MaxTrouble \in Nat
  BY Types, Parameters DEF RecordTypes, GhostTypes, ServiceType
<1>1. UNCHANGED config => config' \in [Session -> Settings] BY <1>0
<1>2. UNCHANGED <<active, change>> =>
          active' \in [Process -> Session \cup {None}] /\ change' \in [Process -> Session \cup {None}]
  BY <1>0
<1>3. UNCHANGED woken => woken' \in [Message -> Nat] BY <1>0
<1>4. UNCHANGED forgotten => forgotten' \subseteq Message BY <1>0
<1>5. UNCHANGED ops \/ (ops < MaxOps /\ ops' = ops + 1) => ops' \in 0..MaxOps BY <1>0
<1>6. UNCHANGED trouble \/ Troubles => trouble' \in 0..MaxTrouble BY <1>0 DEF Troubles
<1>7. ASSUME NEW p \in Process, NEW s, Refused(p, s)
      PROVE  UNCHANGED trouble \/ Troubles
  BY <1>7 DEF Refused
<1>8. ASSUME NEW p \in Process, NEW x, NEW b \in Settings, config' = [config EXCEPT ![x] = b]
      PROVE  config' \in [Session -> Settings]
  BY <1>0, <1>8
<1>9. ASSUME NEW p \in Process, Unread(p)
      PROVE  forgotten' \subseteq Message
  BY <1>0, <1>9, Numbers DEF Unread
<1>10. ASSUME NEW c \in Connection, Serve(c)
       PROVE  /\ UNCHANGED <<config, active, change, ops>>
              /\ UNCHANGED trouble \/ Troubles
              /\ woken' \in [Message -> Nat] /\ forgotten' \subseteq Message
 <2>1. conn[c].id \in Message BY <1>10, ServeFrame, Numbers DEF ConnInv
 <2>2. CASE Store(c)
  <3>1. UNCHANGED trouble \/ Troubles BY <2>2 DEF Store, Refused
  <3>. QED BY <1>0, <2>1, <2>2, <3>1 DEF Store
 <2>3. CASE Wake(c)
  <3>1. woken' \in [Message -> Nat] BY SMTT(40), <1>0, <2>1, <2>3 DEF Wake
  <3>. QED BY <1>0, <2>3, <3>1 DEF Wake, durable, bounds
 <2>4. CASE Reject(c) \/ Duplicate(c) \/ Wait(c) \/ WaitCanceled(c) \/ Admit(c) \/ Check(c) \/ Publish(c) \/ Finish(c)
   BY <1>0, <2>4 DEF Reject, Duplicate, Wait, WaitCanceled, Admit, Check, Publish, Finish, durable, bounds
 <2>. QED BY <1>10, <2>2, <2>3, <2>4 DEF Serve
<1>11. ASSUME NEW p \in Process, Operate(p)
       PROVE  /\ config' \in [Session -> Settings]
              /\ UNCHANGED active /\ change' \in [Process -> Session \cup {None}]
              /\ UNCHANGED ops \/ (ops < MaxOps /\ ops' = ops + 1)
              /\ UNCHANGED trouble \/ Troubles
              /\ UNCHANGED woken /\ forgotten' \subseteq Message
 <2>0. service[p] \in ServiceT BY SMTT(40), <1>0
 <2>1. CASE Send(p) \/ Reply(p) \/ Retry(p) \/ Enable(p) \/ Disable(p)
   BY <1>0, <2>1 DEF Send, Reply, Retry, Enable, Disable, Starts, durable
 <2>2. CASE RecordFails(p) \/ TimesOut(p) \/ Dial(p) \/ Record(p) \/ Confirm(p)
   BY <1>0, <1>7, <2>2 DEF RecordFails, TimesOut, Dial, Record, Confirm, durable, bounds
 <2>3. CASE SaveOnFails(p) \/ SaveOffFails(p)
   BY <1>0, <1>7, <2>3 DEF SaveOnFails, SaveOffFails, durable
 <2>4. CASE SaveOn(p)
  <3>1. [enabled |-> TRUE, wake |-> service[p].wake] \in Settings BY <2>0 DEF Settings, ServiceT
  <3>. QED BY <1>0, <1>8, <2>4, <3>1 DEF SaveOn, bounds
 <2>5. CASE SaveOff(p)
  <3>1. [enabled |-> FALSE, wake |-> service[p].wake] \in Settings BY <2>0 DEF Settings, ServiceT
  <3>. QED BY <1>0, <1>8, <2>5, <3>1 DEF SaveOff, bounds
 <2>6. CASE SetWake(p)
  <3>1. [enabled |-> service[p].enabled, wake |-> ~service[p].wake] \in Settings
    BY <2>0 DEF Settings, ServiceT
  <3>. QED BY <1>0, <1>8, <2>6, <3>1 DEF SetWake
 <2>7. CASE StartSession(p) BY <1>0, <2>7 DEF StartSession, durable, bounds
 <2>8. CASE Load(p) \/ LoadFails(p) \/ Open(p)
   BY <1>0, <1>9, <2>8 DEF Load, LoadFails, Open, durable, bounds
 <2>. QED BY <1>11, <2>1, <2>2, <2>3, <2>4, <2>5, <2>6, <2>7, <2>8 DEF Operate
<1>12. ASSUME NEW p \in Process, Switch(p) \/ Crash(p) \/ Restart(p)
       PROVE  /\ config' = config /\ ops' = ops /\ woken' = woken /\ forgotten' = forgotten
              /\ trouble' = trouble \/ Troubles
              /\ active' \in [Process -> Session \cup {None}] /\ change' \in [Process -> Session \cup {None}]
  BY <1>0, <1>12 DEF Switch, Crash, Restart, durable, bounds
<1>13. CASE UNCHANGED vars BY <1>0, <1>13 DEF vars, durable, bounds, GhostTypes
<1>14. CASE \E c \in Connection : Serve(c) BY <1>1, <1>2, <1>5, <1>6, <1>10, <1>14 DEF GhostTypes
<1>15. CASE \E p \in Process : Operate(p) BY <1>0, <1>3, <1>5, <1>6, <1>11, <1>15 DEF GhostTypes
<1>16. CASE \E p \in Process : Switch(p) \/ Crash(p) \/ Restart(p)
 <2>1. /\ config' = config /\ ops' = ops /\ woken' = woken /\ forgotten' = forgotten
       /\ trouble' = trouble \/ Troubles
       /\ active' \in [Process -> Session \cup {None}] /\ change' \in [Process -> Session \cup {None}]
   BY <1>12, <1>16
 <2>2. config' \in [Session -> Settings] /\ ops' \in 0..MaxOps /\ trouble' \in 0..MaxTrouble
   BY <1>1, <1>5, <1>6, <2>1
 <2>3. woken' \in [Message -> Nat] /\ forgotten' \subseteq Message BY <1>3, <1>4, <2>1
 <2>. QED BY <2>1, <2>2, <2>3 DEF GhostTypes
<1>. QED BY <1>13, <1>14, <1>15, <1>16 DEF Next, Quiet

\* Every step preserves the types.
LEMMA TypesKept ==
    ASSUME TypeOK, CountInv, PlaceInv, ConnInv, DeliveredInv, ReplyInv, [Next]_vars
    PROVE  TypeOK'
<1>0. op \in [Process -> OpT] /\ service \in [Process -> ServiceT] /\ conn \in [Connection -> ConnT]
  BY Types DEF OpType, ServiceType, ConnType
<1>1. RecordTypes' /\ GhostTypes' BY Outbound, Inbound, RestTypes DEF OutboundStep, RecordTypes
<1>2. OpType' /\ ServiceType' /\ ConnType'
 <2>1. CASE UNCHANGED vars BY <1>0, <2>1 DEF vars, OpType, ServiceType, ConnType
 <2>2. CASE \E c \in Connection : Serve(c) BY <2>2, ServeFrame, ServeConn, ServeOp
 <2>3. ASSUME NEW p \in Process, Operate(p) \/ Switch(p) \/ Restart(p) \/ Crash(p)
       PROVE  OpType' /\ ServiceType' /\ ConnType'
  <3>1. ServiceType' BY <1>0, <2>3, ServiceStep DEF ServiceType
  <3>2. CASE Crash(p) BY <3>1, <3>2, CrashConn
  <3>3. CASE Operate(p) \/ Switch(p) \/ Restart(p)
   <4>1. OpType' BY <1>0, <3>3, OpStep DEF OpType
   <4>2. ConnType' BY <3>3, ConnStep, DialConn
   <4>. QED BY <3>1, <4>1, <4>2
  <3>. QED BY <2>3, <3>2, <3>3
 <2>. QED BY <2>1, <2>2, <2>3 DEF Next, Quiet
<1>. QED
 <2>1. TypeOK' <=> (RecordTypes /\ GhostTypes /\ ServiceType /\ OpType /\ ConnType)'
   BY DEF TypeOK, RecordTypes, GhostTypes, ServiceType, OpType, ConnType, TextT, ServiceT, OpT, ConnT, Tries
 <2>. QED BY <1>1, <1>2, <2>1

\* What the operation of a process does next.
OpNow(p) ==
    /\ Send(p) \/ Reply(p) =>
          /\ op[p].at = "idle" /\ active[p] # None
          /\ op'[p].at = "record" /\ op'[p].to \in Session
          /\ Send(p) => op'[p].replyTo = 0
          /\ Reply(p) => /\ service[p].listening
                         /\ op'[p].replyTo \in service[p].inbox /\ outbound[op'[p].replyTo].replyTo = 0
                         /\ \A j \in service[p].outbox : outbound[j].replyTo # op'[p].replyTo
    /\ Retry(p) => op[p].at = "idle" /\ active[p] # None /\ op'[p].at = "dial" /\ op'[p].id \in service[p].outbox
    /\ Record(p) => op[p].at = "record" /\ op'[p].at = "dial" /\ op'[p].id = Len(outbound) + 1
    /\ Dial(p) => /\ op[p].at = "dial" /\ op'[p].at \in {"answer", "dial", "idle"}
                  /\ op'[p].at # "idle" => op'[p].id = op[p].id
    /\ TimesOut(p) => /\ op[p].at = "answer" /\ op'[p].at \in {"dial", "idle"}
                      /\ op'[p].at # "idle" => op'[p].id = op[p].id
    /\ Enable(p) => op[p].at = "idle" /\ op'[p].at = "saveOn" /\ op'[p].before = service[p].listening
    /\ Disable(p) => op[p].at = "idle" /\ op'[p].at = "saveOff" /\ op'[p].before = service[p].enabled
    /\ SetWake(p) => op[p].at = "idle" /\ op'[p] = op[p]
    /\ StartSession(p) => op[p].at = "idle" /\ op'[p].at = "load"
    /\ Load(p) => op[p].at = "load" /\ op'[p].at \in {"open", "idle"}
    /\ RecordFails(p) => op[p].at = "record" /\ op'[p].at = "idle"
    /\ Confirm(p) => op[p].at = "confirm" /\ op'[p].at = "idle"
    /\ SaveOn(p) \/ SaveOnFails(p) => op[p].at = "saveOn" /\ op'[p].at = "idle"
    /\ SaveOff(p) \/ SaveOffFails(p) => op[p].at = "saveOff" /\ op'[p].at = "idle"
    /\ LoadFails(p) => op[p].at = "load" /\ op'[p].at = "idle"
    /\ Open(p) => op[p].at = "open" /\ op'[p].at = "idle"

\* Every step of the system does that to an operation.
LEMMA OpNext ==
    ASSUME TypeOK, PlaceInv, NEW p \in Process
    PROVE  OpNow(p)
<1>0. op \in [Process -> OpT] /\ op[p] \in OpT BY Types DEF OpType
<1>1. ASSUME NEW o \in OpT, Starts(p, o)
      PROVE  op[p].at = "idle" /\ active[p] # None /\ op'[p] = o
  BY <1>0, <1>1 DEF Starts, Free
<1>2. Done(p) => op'[p].at = "idle" BY <1>0, Blank DEF Done
<1>3. Send(p) => /\ op[p].at = "idle" /\ active[p] # None
                 /\ op'[p].at = "record" /\ op'[p].to \in Session /\ op'[p].replyTo = 0
 <2> SUFFICES ASSUME Send(p)
     PROVE  /\ op[p].at = "idle" /\ active[p] # None
            /\ op'[p].at = "record" /\ op'[p].to \in Session /\ op'[p].replyTo = 0
   OBVIOUS
 <2>1. PICK to \in Session : Starts(p, [NoOp EXCEPT !.at = "record", !.to = to])
   BY PeersType DEF Send
 <2> DEFINE o == [NoOp EXCEPT !.at = "record", !.to = to]
 <2>2. o \in OpT /\ o.at = "record" /\ o.to = to /\ o.replyTo = 0 BY Blank DEF OpT
 <2> HIDE DEF o
 <2>. QED BY <1>1, <2>1, <2>2 DEF o
<1>4. Reply(p) => /\ op[p].at = "idle" /\ active[p] # None
                  /\ op'[p].at = "record" /\ op'[p].to \in Session /\ service[p].listening
                  /\ op'[p].replyTo \in service[p].inbox /\ outbound[op'[p].replyTo].replyTo = 0
                  /\ \A j \in service[p].outbox : outbound[j].replyTo # op'[p].replyTo
 <2> SUFFICES ASSUME Reply(p)
     PROVE  /\ op[p].at = "idle" /\ active[p] # None
            /\ op'[p].at = "record" /\ op'[p].to \in Session /\ service[p].listening
            /\ op'[p].replyTo \in service[p].inbox /\ outbound[op'[p].replyTo].replyTo = 0
            /\ \A j \in service[p].outbox : outbound[j].replyTo # op'[p].replyTo
   OBVIOUS
 <2>1. PICK i \in service[p].inbox : /\ outbound[i].replyTo = 0
                                     /\ \A j \in service[p].outbox : outbound[j].replyTo # i
                                     /\ outbound[i].from \in Peers(p)
                                     /\ Starts(p, [NoOp EXCEPT !.at = "record", !.to = outbound[i].from, !.replyTo = i])
   BY DEF Reply
 <2>2. i \in Message /\ outbound[i].from \in Session
   BY <2>1, PeersType, Types DEF ServiceType, ServiceT
 <2> DEFINE o == [NoOp EXCEPT !.at = "record", !.to = outbound[i].from, !.replyTo = i]
 <2>3. o \in OpT /\ o.at = "record" /\ o.to = outbound[i].from /\ o.replyTo = i
   BY <2>2, Blank DEF OpT
 <2>4. service[p].listening BY DEF Reply
 <2>5. Starts(p, o) BY <2>1
 <2> HIDE DEF o
 <2>6. op[p].at = "idle" /\ active[p] # None /\ op'[p] = o BY <1>1, <2>3, <2>5
 <2>. QED BY <2>1, <2>2, <2>3, <2>4, <2>6
<1>5. Retry(p) => op[p].at = "idle" /\ active[p] # None /\ op'[p].at = "dial" /\ op'[p].id \in service[p].outbox
 <2> SUFFICES ASSUME Retry(p)
     PROVE  op[p].at = "idle" /\ active[p] # None /\ op'[p].at = "dial" /\ op'[p].id \in service[p].outbox
   OBVIOUS
 <2>1. PICK i \in service[p].outbox : /\ outbound[i].to \in Peers(p)
                                      /\ Starts(p, [NoOp EXCEPT !.at = "dial", !.to = outbound[i].to, !.id = i])
   BY DEF Retry
 <2>2. i \in Message /\ outbound[i].to \in Session
   BY <2>1, PeersType, Types DEF ServiceType, ServiceT
 <2> DEFINE o == [NoOp EXCEPT !.at = "dial", !.to = outbound[i].to, !.id = i]
 <2>3. o \in OpT /\ o.at = "dial" /\ o.id = i BY <2>2, Blank DEF OpT
 <2> HIDE DEF o
 <2>. QED BY <1>1, <2>1, <2>3 DEF o
<1>6. Record(p) => op[p].at = "record" /\ op'[p].at = "dial" /\ op'[p].id = Len(outbound) + 1
  BY <1>0 DEF Record, OpT
<1>7. Again(op[p]).at \in {"dial", "idle"} /\ (Again(op[p]).at = "dial" => Again(op[p]).id = op[p].id)
  BY <1>0, AgainType
<1>8. Dial(p) => /\ op[p].at = "dial" /\ op'[p].at \in {"answer", "dial", "idle"}
                 /\ op'[p].at # "idle" => op'[p].id = op[p].id
 <2>1. ASSUME NEW c \in Connection, op' = [op EXCEPT ![p].at = "answer", ![p].call = c]
       PROVE  op'[p].at = "answer" /\ op'[p].id = op[p].id
   BY <1>0, <2>1 DEF OpT
 <2>2. op' = [op EXCEPT ![p] = Again(@)] => op'[p] = Again(op[p]) BY <1>0
 <2>. QED BY <1>7, <2>1, <2>2 DEF Dial
<1>9. TimesOut(p) => /\ op[p].at = "answer" /\ op'[p].at \in {"dial", "idle"}
                     /\ op'[p].at # "idle" => op'[p].id = op[p].id
 <2>1. op' = [op EXCEPT ![p] = Again(@)] => op'[p] = Again(op[p]) BY <1>0
 <2>. QED BY <1>7, <2>1 DEF TimesOut
<1>10. Enable(p) => op[p].at = "idle" /\ op'[p].at = "saveOn" /\ op'[p].before = service[p].listening
 <2> DEFINE o == [NoOp EXCEPT !.at = "saveOn", !.before = service[p].listening]
 <2>1. service[p].listening \in BOOLEAN BY Types DEF ServiceType, ServiceT
 <2>2. o \in OpT /\ o.at = "saveOn" /\ o.before = service[p].listening BY <2>1, Blank DEF OpT
 <2>3. Enable(p) => Starts(p, o) BY DEF Enable
 <2> HIDE DEF o
 <2>. QED BY <1>1, <2>2, <2>3
<1>11. Disable(p) => op[p].at = "idle" /\ op'[p].at = "saveOff" /\ op'[p].before = service[p].enabled
 <2> DEFINE o == [NoOp EXCEPT !.at = "saveOff", !.before = service[p].enabled]
 <2>1. service[p].enabled \in BOOLEAN BY Types DEF ServiceType, ServiceT
 <2>2. o \in OpT /\ o.at = "saveOff" /\ o.before = service[p].enabled BY <2>1, Blank DEF OpT
 <2>3. Disable(p) => Starts(p, o) BY DEF Disable
 <2> HIDE DEF o
 <2>. QED BY <1>1, <2>2, <2>3
<1>12. SetWake(p) => op[p].at = "idle" /\ op'[p] = op[p] BY DEF SetWake, Free
<1>13. StartSession(p) => op[p].at = "idle" /\ op'[p].at = "load"
 <2>1. [NoOp EXCEPT !.at = "load"].at = "load" BY Blank DEF OpT
 <2>2. StartSession(p) => op'[p] = [NoOp EXCEPT !.at = "load"] /\ op[p].at = "idle"
   BY <1>0 DEF StartSession, Free
 <2>. QED BY <2>1, <2>2
<1>14. Load(p) => op[p].at = "load" /\ op'[p].at \in {"open", "idle"}
 <2>1. op' = [op EXCEPT ![p].at = "open"] => op'[p].at = "open" BY <1>0 DEF OpT
 <2>. QED BY <1>2, <2>1 DEF Load, Unread
<1>15. /\ RecordFails(p) => op[p].at = "record" /\ op'[p].at = "idle"
       /\ Confirm(p) => op[p].at = "confirm" /\ op'[p].at = "idle"
       /\ SaveOn(p) \/ SaveOnFails(p) => op[p].at = "saveOn" /\ op'[p].at = "idle"
       /\ SaveOff(p) \/ SaveOffFails(p) => op[p].at = "saveOff" /\ op'[p].at = "idle"
       /\ LoadFails(p) => op[p].at = "load" /\ op'[p].at = "idle"
       /\ Open(p) => op[p].at = "open" /\ op'[p].at = "idle"
  BY <1>2 DEF RecordFails, Confirm, SaveOn, SaveOnFails, SaveOff, SaveOffFails, LoadFails, Open, Unread
<1>. QED BY <1>3, <1>4, <1>5, <1>6, <1>8, <1>9, <1>10, <1>11, <1>12, <1>13, <1>14, <1>15 DEF OpNow

\* What an operation does to the service of its process.
SameTables(p) ==
    /\ service'[p].inbox = service[p].inbox /\ service'[p].outbox = service[p].outbox
    /\ service'[p].seen = service[p].seen /\ service'[p].inflight = service[p].inflight
    /\ service'[p].session = service[p].session

SameSwitches(p) ==
    /\ service'[p].enabled = service[p].enabled /\ service'[p].wake = service[p].wake
    /\ service'[p].listening = service[p].listening

ServiceNow(p) ==
    /\ \/ Send(p) \/ Reply(p) \/ Retry(p) \/ RecordFails(p) \/ Dial(p) \/ TimesOut(p) \/ Confirm(p) \/ LoadFails(p)
       => service' = service
    /\ Record(p) => /\ SameSwitches(p)
                    /\ service'[p].inbox = service[p].inbox /\ service'[p].seen = service[p].seen
                    /\ service'[p].inflight = service[p].inflight /\ service'[p].session = service[p].session
                    /\ service'[p].outbox = service[p].outbox \cup {Len(outbound) + 1}
    /\ Enable(p) => /\ SameTables(p) /\ service'[p].listening
                    /\ service'[p].enabled = service[p].enabled /\ service'[p].wake = service[p].wake
    /\ SaveOn(p) => /\ SameTables(p) /\ service'[p].enabled
                    /\ service'[p].listening = service[p].listening /\ service'[p].wake = service[p].wake
    /\ SaveOnFails(p) => /\ SameTables(p) /\ service'[p].listening = op[p].before
                         /\ service'[p].enabled = service[p].enabled /\ service'[p].wake = service[p].wake
    /\ Disable(p) => /\ SameTables(p) /\ ~service'[p].enabled
                     /\ service'[p].listening = service[p].listening /\ service'[p].wake = service[p].wake
    /\ SaveOff(p) => /\ SameTables(p) /\ ~service'[p].listening
                     /\ service'[p].enabled = service[p].enabled /\ service'[p].wake = service[p].wake
    /\ SaveOffFails(p) => /\ SameTables(p) /\ service'[p].enabled = op[p].before
                          /\ service'[p].listening = service[p].listening /\ service'[p].wake = service[p].wake
    /\ SetWake(p) => /\ SameTables(p) /\ service'[p].wake = ~service[p].wake
                     /\ service'[p].listening = service[p].listening /\ service'[p].enabled = service[p].enabled
    /\ StartSession(p) => Empty(service'[p]) /\ ~service'[p].wake /\ service'[p].session = change[p]
    /\ Load(p) => \/ change[p] # None /\ service' = service
                  \/ /\ change[p] = None
                     /\ service'[p].session = service[p].session /\ service'[p].inflight = service[p].inflight
                     /\ service'[p].listening = service[p].listening
                     /\ service'[p].enabled = config[service[p].session].enabled
                     /\ service'[p].wake = config[service[p].session].wake
                     /\ service'[p].inbox = Stored(service[p].session)
                     /\ service'[p].seen = Stored(service[p].session)
                     /\ service'[p].outbox = Sent(service[p].session)
    /\ Open(p) => /\ SameTables(p) /\ (service'[p].listening = service[p].listening \/ service'[p].listening)
                  /\ service'[p].enabled = service[p].enabled /\ service'[p].wake = service[p].wake

\* Every step of the system does that to a service.
LEMMA ServiceNext ==
    ASSUME TypeOK, NEW p \in Process
    PROVE  ServiceNow(p)
<1>0. service \in [Process -> ServiceT] /\ service[p] \in ServiceT BY Types DEF ServiceType
<1>1. \/ Send(p) \/ Reply(p) \/ Retry(p) \/ RecordFails(p) \/ Dial(p) \/ TimesOut(p) \/ Confirm(p) \/ LoadFails(p)
      => service' = service
  BY DEF Send, Reply, Retry, RecordFails, Dial, TimesOut, Confirm, LoadFails
<1>2. Record(p) => /\ SameSwitches(p)
                   /\ service'[p].inbox = service[p].inbox /\ service'[p].seen = service[p].seen
                   /\ service'[p].inflight = service[p].inflight /\ service'[p].session = service[p].session
                   /\ service'[p].outbox = service[p].outbox \cup {Len(outbound) + 1}
  BY <1>0 DEF Record, ServiceT, SameSwitches
<1>3. /\ Enable(p) => /\ SameTables(p) /\ service'[p].listening
                      /\ service'[p].enabled = service[p].enabled /\ service'[p].wake = service[p].wake
      /\ SaveOn(p) => /\ SameTables(p) /\ service'[p].enabled
                      /\ service'[p].listening = service[p].listening /\ service'[p].wake = service[p].wake
      /\ Disable(p) => /\ SameTables(p) /\ ~service'[p].enabled
                       /\ service'[p].listening = service[p].listening /\ service'[p].wake = service[p].wake
  BY <1>0 DEF Enable, SaveOn, Disable, ServiceT, SameTables
<1>4. /\ SaveOnFails(p) => /\ SameTables(p) /\ service'[p].listening = op[p].before
                           /\ service'[p].enabled = service[p].enabled /\ service'[p].wake = service[p].wake
      /\ SaveOff(p) => /\ SameTables(p) /\ ~service'[p].listening
                       /\ service'[p].enabled = service[p].enabled /\ service'[p].wake = service[p].wake
      /\ SaveOffFails(p) => /\ SameTables(p) /\ service'[p].enabled = op[p].before
                            /\ service'[p].listening = service[p].listening /\ service'[p].wake = service[p].wake
  BY <1>0 DEF SaveOnFails, SaveOff, SaveOffFails, Closed, ServiceT, SameTables
<1>5. SetWake(p) => /\ SameTables(p) /\ service'[p].wake = ~service[p].wake
                    /\ service'[p].listening = service[p].listening /\ service'[p].enabled = service[p].enabled
  BY <1>0 DEF SetWake, ServiceT, SameTables
<1>6. StartSession(p) => Empty(service'[p]) /\ ~service'[p].wake /\ service'[p].session = change[p]
 <2>1. StartSession(p) => service'[p] = [NoService EXCEPT !.session = change[p]]
   BY <1>0 DEF StartSession
 <2> DEFINE n == [NoService EXCEPT !.session = change[p]]
 <2>2. Empty(n) /\ ~n.wake /\ n.session = change[p] BY Blank DEF ServiceT, Empty
 <2>. QED BY <2>1, <2>2
<1>7. Load(p) => \/ change[p] # None /\ service' = service
                 \/ /\ change[p] = None
                    /\ service'[p].session = service[p].session /\ service'[p].inflight = service[p].inflight
                    /\ service'[p].listening = service[p].listening
                    /\ service'[p].enabled = config[service[p].session].enabled
                    /\ service'[p].wake = config[service[p].session].wake
                    /\ service'[p].inbox = Stored(service[p].session)
                    /\ service'[p].seen = Stored(service[p].session)
                    /\ service'[p].outbox = Sent(service[p].session)
 <2> DEFINE sv == Loaded(service[p])
 <2>1. Load(p) => (change[p] # None /\ service' = service) \/ (change[p] = None /\ service'[p] = sv)
   BY <1>0 DEF Load
 <2>2. /\ sv.session = service[p].session /\ sv.inflight = service[p].inflight
       /\ sv.listening = service[p].listening
       /\ sv.enabled = config[service[p].session].enabled
       /\ sv.wake = config[service[p].session].wake
       /\ sv.inbox = Stored(service[p].session)
       /\ sv.seen = Stored(service[p].session)
       /\ sv.outbox = Sent(service[p].session)
   BY <1>0 DEF Loaded, ServiceT, Stored
 <2> HIDE DEF sv
 <2>. QED BY <2>1, <2>2
<1>8. Open(p) => /\ SameTables(p) /\ (service'[p].listening = service[p].listening \/ service'[p].listening)
                 /\ service'[p].enabled = service[p].enabled /\ service'[p].wake = service[p].wake
  BY <1>0 DEF Open, ServiceT, SameTables
<1>. QED BY <1>1, <1>2, <1>3, <1>4, <1>5, <1>6, <1>7, <1>8 DEF ServiceNow

----------------------------------------
(* Frames.                                                                 *)

\* The other processes do not notice.
LEMMA Others ==
    ASSUME TypeOK, CountInv, PlaceInv, NEW p \in Process, Operate(p) \/ Switch(p) \/ Restart(p),
           NEW q \in Process \ {p}
    PROVE  /\ op'[q] = op[q] /\ service'[q] = service[q]
           /\ active'[q] = active[q] /\ change'[q] = change[q]
<1>0. op \in [Process -> OpT] /\ service \in [Process -> ServiceT] BY Types DEF OpType, ServiceType
<1>1. op'[q] = op[q] /\ service'[q] = service[q] BY <1>0, OpStep, ServiceStep
<1>2. \/ UNCHANGED active /\ (UNCHANGED change \/ StartSession(p))
      \/ Switch(p) \/ Restart(p)
 <2>1. CASE Send(p) \/ Reply(p) \/ Retry(p) \/ Enable(p) \/ Disable(p)
   BY <2>1 DEF Send, Reply, Retry, Enable, Disable, Starts
 <2>2. CASE RecordFails(p) \/ TimesOut(p) \/ Dial(p) \/ SaveOn(p) \/ SaveOffFails(p) \/ SetWake(p)
   BY <2>2 DEF RecordFails, TimesOut, Dial, SaveOn, SaveOffFails, SetWake
 <2>3. CASE SaveOnFails(p) \/ SaveOff(p) \/ StartSession(p) \/ Record(p) \/ Confirm(p)
   BY <2>3 DEF SaveOnFails, SaveOff, StartSession, Record, Confirm
 <2>4. CASE Load(p) \/ LoadFails(p) \/ Open(p) BY <2>4 DEF Load, LoadFails, Open
 <2>. QED BY SMTT(40), <2>1, <2>2, <2>3, <2>4 DEF Operate
<1>3. active'[q] = active[q] /\ change'[q] = change[q]
  BY <1>2, Types DEF StartSession, Switch, Restart, RecordTypes
<1>. QED BY <1>1, <1>3

\* Only the start of a session is told of a change of it.
LEMMA Actives ==
    ASSUME TypeOK, NEW p \in Process, Operate(p)
    PROVE  /\ active' = active
           /\ IF StartSession(p) THEN change' = [change EXCEPT ![p] = None] ELSE change' = change
<1>1. CASE Send(p) \/ Reply(p) \/ Retry(p) \/ Enable(p) \/ Disable(p)
  BY <1>1 DEF Send, Reply, Retry, Enable, Disable, Starts, StartSession
<1>2. CASE RecordFails(p) \/ TimesOut(p) \/ Dial(p) \/ SaveOn(p) \/ SaveOffFails(p) \/ SetWake(p)
  BY <1>2 DEF RecordFails, TimesOut, Dial, SaveOn, SaveOffFails, SetWake, StartSession
<1>3. CASE SaveOnFails(p) \/ SaveOff(p) \/ StartSession(p) \/ Record(p) \/ Confirm(p)
  BY <1>3 DEF SaveOnFails, SaveOff, StartSession, Record, Confirm
<1>4. CASE Load(p) \/ LoadFails(p) \/ Open(p) BY <1>4 DEF Load, LoadFails, Open, StartSession
<1>. QED BY SMTT(40), <1>1, <1>2, <1>3, <1>4 DEF Operate

\* A connection leaves a service that has nothing as it is.
LEMMA ServeEmpty ==
    ASSUME TypeOK, CountInv, ConnInv, NEW c \in Connection, Serve(c), NEW q \in Process, Empty(service[q])
    PROVE  service'[q] = service[q]
<1>1. CASE q # conn[c].process BY <1>1, ServeFrame
<1>2. CASE q = conn[c].process
 <2>1. ~Admit(c) BY <1>2 DEF Admit, Admitted, Empty
 <2>2. ~Current(c) BY <1>2 DEF Current, Empty
 <2>. QED
   BY <2>1, <2>2 DEF Serve, Reject, Duplicate, Wait, WaitCanceled, Check, Store, Publish, Wake, Finish
<1>. QED BY <1>1, <1>2

----------------------------------------
(* Every part of the invariant is preserved.                               *)

\* The bound on operations bounds the messages.
LEMMA Counted ==
    ASSUME TypeOK, CountInv, PlaceInv, ConnInv, DeliveredInv, ReplyInv, [Next]_vars
    PROVE  CountInv'
<1>0. /\ Len(outbound) \in Nat /\ ops \in Nat /\ IsFiniteSet(Recording) /\ Cardinality(Recording) \in Nat
      /\ Len(outbound) + Cardinality(Recording) <= ops + 1
  BY Numbers, Types, Parameters, FS_CardinalityType DEF CountInv, GhostTypes
<1>1. ASSUME Recording' \subseteq Recording, Len(outbound') = Len(outbound), ops' = ops \/ ops' = ops + 1
      PROVE  CountInv'
 <2>1. IsFiniteSet(Recording') /\ Cardinality(Recording') <= Cardinality(Recording) /\ Cardinality(Recording') \in Nat
   BY <1>0, <1>1, FS_Subset, FS_CardinalityType
 <2>. QED BY <1>0, <1>1, <2>1 DEF CountInv
<1>2. CASE UNCHANGED vars BY <1>1, <1>2 DEF vars, durable, bounds, Recording
<1>3. ASSUME NEW c \in Connection, Serve(c)
      PROVE  CountInv'
 <2>1. Recording' \subseteq Recording BY <1>3, ServeOp DEF Recording
 <2>. QED BY <1>1, <1>3, <2>1, ServeFrame
<1>4. ASSUME NEW p \in Process, Crash(p)
      PROVE  CountInv'
 <2>1. Recording' \subseteq Recording BY <1>4, CrashConn, Blank DEF Recording
 <2>. QED BY <1>1, <1>4, <2>1 DEF Crash, durable
<1>5. ASSUME NEW p \in Process, Operate(p) \/ Switch(p) \/ Restart(p)
      PROVE  CountInv'
 <2>1. \A q \in Process \ {p} : op'[q] = op[q] BY <1>5, Others
 <2>2. CASE Send(p) \/ Reply(p)
  <3>1. p \notin Recording /\ Recording' = Recording \cup {p}
    BY <2>1, <2>2, OpNext DEF OpNow, Recording
  <3>2. IsFiniteSet(Recording') /\ Cardinality(Recording') = Cardinality(Recording) + 1
    BY SMTT(40), <1>0, <3>1, FS_AddElement
  <3>3. ops' = ops + 1 /\ outbound' = outbound BY <2>2 DEF Send, Reply, Starts, durable
  <3>. QED BY <1>0, <3>2, <3>3 DEF CountInv
 <2>3. CASE Record(p)
  <3>1. p \in Recording /\ Recording' = Recording \ {p} BY <2>1, <2>3, OpNext DEF OpNow, Recording
  <3>2. IsFiniteSet(Recording') /\ Cardinality(Recording') = Cardinality(Recording) - 1
    BY <1>0, <3>1, FS_RemoveElement
  <3>3. Len(outbound') = Len(outbound) + 1 /\ ops' = ops
    BY <2>3, Numbers, Types DEF Record, bounds, RecordTypes
  <3>. QED BY <1>0, <3>2, <3>3 DEF CountInv
 <2>4. ASSUME op'[p].at = "record" => op[p].at = "record", Len(outbound') = Len(outbound), ops' = ops \/ ops' = ops + 1
       PROVE  CountInv'
  <3>1. Recording' \subseteq Recording BY SMTT(40), <2>1, <2>4 DEF Recording
  <3>. QED BY <1>1, <2>4, <3>1
 <2>5. CASE Retry(p) \/ Enable(p) \/ Disable(p)
   BY ZenonT(40), <2>4, <2>5, OpNext DEF OpNow, Retry, Enable, Disable, Starts, durable
 <2>6. CASE RecordFails(p) \/ TimesOut(p) \/ Dial(p) \/ SaveOn(p) \/ SaveOffFails(p) \/ SetWake(p)
   BY ZenonT(40), <2>4, <2>6, OpNext DEF OpNow, RecordFails, TimesOut, Dial, SaveOn, SaveOffFails, SetWake, durable, bounds
 <2>7. CASE SaveOnFails(p) \/ SaveOff(p) \/ StartSession(p) \/ Load(p) \/ LoadFails(p) \/ Open(p)
   BY <2>4, <2>7, OpNext DEF OpNow, SaveOnFails, SaveOff, StartSession, Load, LoadFails, Open, durable, bounds
 <2>8. CASE Confirm(p)
  <3>1. Len(outbound') = Len(outbound)
   <4>1. [Next]_vars OBVIOUS
   <4>2. ~ \E q \in Process : Record(q)
    <5>1. ASSUME NEW q \in Process, Record(q)
          PROVE  FALSE
     <6>1. outbound' # outbound /\ Len(outbound') = Len(outbound) + 1
       BY <5>1, Types DEF Record, RecordTypes
     <6>2. outbound' = outbound \/ outbound' = [outbound EXCEPT ![op[p].id].delivered = TRUE]
       BY <2>8 DEF Confirm
     <6>. QED BY <1>0, <6>1, <6>2, Types DEF RecordTypes
    <5>. QED BY <5>1
   <4>. QED BY <4>1, <4>2, Outbound DEF OutboundStep
  <3>. QED BY <2>4, <2>8, <3>1, OpNext DEF OpNow, Confirm
 <2>9. CASE Switch(p) \/ Restart(p) BY <2>4, <2>9 DEF Switch, Restart, durable, bounds
 <2>. QED BY <1>5, <2>2, <2>3, <2>5, <2>6, <2>7, <2>8, <2>9 DEF Operate
<1>. QED BY <1>2, <1>3, <1>4, <1>5 DEF Next, Quiet

\* A session is served where it is opened.
LEMMA Placed ==
    ASSUME TypeOK, CountInv, PlaceInv, ConnInv, [Next]_vars
    PROVE  PlaceInv'
<1> DEFINE Place(p) ==
        /\ active[p] # None => Opens(active[p]) = p
        /\ change[p] # None => change[p] = active[p]
        /\ service[p].session # None => Opens(service[p].session) = p
        /\ service[p].session = None => Empty(service[p]) /\ ~service[p].wake /\ op[p].at = "idle"
        /\ active[p] = None => service[p].session = None
        /\ op[p].at = "load" => Empty(service[p])
<1>0. \A p \in Process : Place(p) BY DEF PlaceInv
<1>1. SUFFICES ASSUME NEW q \in Process
      PROVE  Place(q)'
  BY DEF PlaceInv
<1>2. ASSUME op'[q] = op[q], service'[q] = service[q], active'[q] = active[q], change'[q] = change[q]
      PROVE  Place(q)'
  BY <1>0, <1>2 DEF Empty
<1>3. CASE UNCHANGED vars BY <1>2, <1>3 DEF vars
<1>4. ASSUME NEW c \in Connection, Serve(c)
      PROVE  Place(q)'
 <2>1. Empty(service[q]) => service'[q] = service[q] BY <1>4, ServeEmpty
 <2>2. op'[q] = op[q] \/ (op[q].at = "answer" /\ op'[q].at \in {"dial", "idle", "confirm"})
   BY <1>4, ServeOp
 <2>3. active' = active /\ change' = change /\ service'[q].session = service[q].session
   BY <1>4, ServeFrame
 <2>. QED BY <1>0, <2>1, <2>2, <2>3
<1>5. ASSUME NEW p \in Process, Crash(p)
      PROVE  Place(q)'
 <2>1. active' = [active EXCEPT ![p] = None] /\ change' = [change EXCEPT ![p] = None]
       /\ service' = [service EXCEPT ![p] = NoService]
   BY <1>5 DEF Crash
 <2>2. CASE q = p
  <3>1. active'[q] = None /\ change'[q] = None /\ service'[q] = NoService /\ op'[q] = NoOp
    BY <1>5, <2>1, <2>2, CrashConn, Types DEF RecordTypes, ServiceType
  <3>. QED BY <3>1, Blank DEF Empty
 <2>3. CASE q # p
  <3>1. active'[q] = active[q] /\ change'[q] = change[q] /\ service'[q] = service[q]
    BY <2>1, <2>3, Types DEF RecordTypes, ServiceType
  <3>2. op'[q] = op[q] \/ (op[q].at = "answer" /\ op'[q].at \in {"dial", "idle"})
    BY <1>5, <2>3, CrashConn
  <3>. QED BY <1>0, <3>1, <3>2 DEF Empty
 <2>. QED BY <2>2, <2>3
<1>6. ASSUME NEW p \in Process, Switch(p) \/ Restart(p)
      PROVE  Place(q)'
 <2>1. CASE q # p BY <1>2, <1>6, <2>1, Others
 <2>2. CASE q = p
  <3>1. PICK s \in Session : /\ Opens(s) = p /\ active' = [active EXCEPT ![p] = s]
                             /\ change' = [change EXCEPT ![p] = s]
    BY <1>6 DEF Switch, Restart
  <3>2. active'[q] = s /\ change'[q] = s /\ op'[q] = op[q] /\ service'[q] = service[q]
    BY <1>6, <2>2, <3>1, Types DEF Switch, Restart, RecordTypes
  <3>. QED BY <1>0, <2>2, <3>1, <3>2, Parameters DEF Empty
 <2>. QED BY <2>1, <2>2
<1>7. ASSUME NEW p \in Process, Operate(p)
      PROVE  Place(q)'
 <2>1. CASE q # p BY <1>2, <1>7, <2>1, Others
 <2>2. CASE q = p
  <3>0. active' = active /\ OpNow(q) /\ ServiceNow(q) /\ Place(q)
    BY <1>0, <1>7, Actives, OpNext, ServiceNext
  <3>1. ASSUME ~StartSession(p)
        PROVE  change' = change
    BY <1>7, <3>1, Actives
  <3>2. CASE StartSession(q)
   <4>1. change' = [change EXCEPT ![q] = None] BY <1>7, <2>2, <3>2, Actives
   <4>2. change'[q] = None /\ change[q] # None /\ active[q] # None
     BY <2>2, <3>2, <4>1, Types DEF StartSession, Free, RecordTypes
   <4>. QED BY <2>2, <3>0, <3>2, <4>2 DEF OpNow, ServiceNow
  <3>3. ASSUME service'[q].session = service[q].session, service[q].session # None,
               op'[q].at # "load"
        PROVE  Place(q)'
   <4>1. ~StartSession(q) BY SMTT(40), <3>0, <3>3 DEF OpNow
   <4>. QED BY <2>2, <3>0, <3>1, <3>3, <4>1 DEF Empty
  <3>4. CASE Send(q) \/ Reply(q) \/ Retry(q)
    BY Zenon, <3>0, <3>3, <3>4 DEF Send, Reply, Retry, Empty, OpNow, ServiceNow
  <3>5. CASE Enable(q) \/ Disable(q)
    BY <3>0, <3>3, <3>5 DEF Enable, Disable, OpNow, ServiceNow, SameTables
  <3>6. CASE SetWake(q) BY <3>0, <3>3, <3>6 DEF SetWake, Free, OpNow, ServiceNow, SameTables
  <3>7. CASE Record(q) \/ RecordFails(q) \/ Dial(q) \/ TimesOut(q) \/ Confirm(q)
   <4>1. op[q].at # "idle" /\ op'[q].at # "load" /\ service'[q].session = service[q].session
     BY <3>0, <3>7 DEF OpNow, ServiceNow
   <4>. QED BY <3>0, <3>3, <4>1
  <3>8. CASE SaveOn(q) \/ SaveOnFails(q) \/ SaveOff(q) \/ SaveOffFails(q) \/ Open(q)
   <4>1. op[q].at # "idle" /\ op'[q].at # "load" BY <3>0, <3>8 DEF OpNow
   <4>2. service'[q].session = service[q].session BY <3>0, <3>8 DEF ServiceNow, SameTables
   <4>. QED BY <3>0, <3>3, <4>1, <4>2
  <3>9. CASE Load(q) \/ LoadFails(q)
   <4>1. op[q].at # "idle" /\ op'[q].at # "load" /\ service'[q].session = service[q].session
     BY <3>0, <3>9 DEF OpNow, ServiceNow
   <4>. QED BY <3>0, <3>3, <4>1
  <3>. QED BY <1>7, <2>2, <3>2, <3>4, <3>5, <3>6, <3>7, <3>8, <3>9 DEF Operate
 <2>. QED BY <2>1, <2>2
<1>. QED BY <1>3, <1>4, <1>5, <1>6, <1>7 DEF Next, Quiet

\* Settings are recorded in the session of the service.
ConfigNow(p) ==
    /\ \A s \in Session : s # service[p].session => config'[s] = config[s]
    /\ SaveOn(p) => config'[service[p].session].enabled /\ config'[service[p].session].wake = service[p].wake
    /\ SaveOff(p) => config'[service[p].session].wake = service[p].wake
    /\ SetWake(p) => /\ config'[service[p].session].enabled = service[p].enabled
                     /\ config'[service[p].session].wake = ~service[p].wake
    /\ ~SaveOn(p) /\ ~SaveOff(p) /\ ~SetWake(p) => config' = config

\* What a step does to the recorded settings.
LEMMA ConfigNext ==
    ASSUME TypeOK, PlaceInv, NEW p \in Process, Operate(p)
    PROVE  ConfigNow(p)
<1>0. config \in [Session -> Settings] /\ service[p] \in ServiceT
  BY Types DEF RecordTypes, ServiceType
<1>1. ASSUME UNCHANGED config, ~SaveOn(p), ~SaveOff(p), ~SetWake(p)
      PROVE  ConfigNow(p)
  BY <1>1 DEF ConfigNow
<1>2. op[p].at # "idle" => service[p].session \in Session BY <1>0 DEF PlaceInv, ServiceT
<1>3. CASE SaveOn(p)
 <2>1. service[p].session \in Session BY <1>2, <1>3 DEF SaveOn
 <2>2. config' = [config EXCEPT ![service[p].session] = [enabled |-> TRUE, wake |-> service[p].wake]]
   BY <1>3 DEF SaveOn
 <2>3. ~SaveOff(p) /\ ~SetWake(p) BY <1>3 DEF SaveOn, SaveOff, SetWake, Free
 <2>. QED BY <1>0, <1>3, <2>1, <2>2, <2>3 DEF ConfigNow
<1>4. CASE SaveOff(p)
 <2>1. service[p].session \in Session BY <1>2, <1>4 DEF SaveOff
 <2>2. config' = [config EXCEPT ![service[p].session] = [enabled |-> FALSE, wake |-> service[p].wake]]
   BY <1>4 DEF SaveOff
 <2>3. ~SaveOn(p) /\ ~SetWake(p) BY <1>4 DEF SaveOn, SaveOff, SetWake, Free
 <2>. QED BY <1>0, <1>4, <2>1, <2>2, <2>3 DEF ConfigNow
<1>5. CASE SetWake(p)
 <2>1. service[p].session \in Session BY <1>0, <1>5, Types DEF SetWake, Free, RecordTypes
 <2>2. config' = [config EXCEPT ![service[p].session] = [enabled |-> service[p].enabled, wake |-> ~service[p].wake]]
   BY <1>5 DEF SetWake
 <2>3. ~SaveOn(p) /\ ~SaveOff(p) BY <1>5 DEF SaveOn, SaveOff, SetWake, Free
 <2>. QED BY <1>0, <1>5, <2>1, <2>2, <2>3 DEF ConfigNow
<1>6. CASE ~SaveOn(p) /\ ~SaveOff(p) /\ ~SetWake(p)
 <2>1. CASE Send(p) \/ Reply(p) \/ Retry(p) \/ Enable(p) \/ Disable(p)
   BY <1>1, <1>6, <2>1 DEF Send, Reply, Retry, Enable, Disable, Starts, durable
 <2>2. CASE RecordFails(p) \/ TimesOut(p) \/ Dial(p) \/ SaveOffFails(p) \/ SaveOnFails(p)
   BY <1>1, <1>6, <2>2 DEF RecordFails, TimesOut, Dial, SaveOffFails, SaveOnFails, durable
 <2>3. CASE StartSession(p) \/ Record(p) \/ Confirm(p)
   BY <1>1, <1>6, <2>3 DEF StartSession, Record, Confirm, durable
 <2>4. CASE Load(p) \/ LoadFails(p) \/ Open(p)
   BY <1>1, <1>6, <2>4 DEF Load, LoadFails, Open, durable
 <2>. QED BY SMTT(40), <1>6, <2>1, <2>2, <2>3, <2>4 DEF Operate
<1>. QED BY <1>3, <1>4, <1>5, <1>6

\* The switches follow the recorded settings.
LEMMA SettingsKept ==
    ASSUME TypeOK, CountInv, PlaceInv, SettingsInv, ConnInv, [Next]_vars
    PROVE  SettingsInv'
<1> DEFINE Switches(p) ==
        /\ service[p].enabled => config[service[p].session].enabled
        /\ service[p].wake => config[service[p].session].wake
        /\ service[p].listening /\ op[p].at \notin {"saveOn", "saveOff"} => service[p].enabled
        /\ op[p].at = "saveOn" /\ op[p].before => service[p].enabled
        /\ op[p].at = "open" => service[p].enabled
        /\ op[p].at = "saveOff" =>
              /\ ~service[p].enabled
              /\ op[p].before => config[service[p].session].enabled
              /\ service[p].listening => op[p].before
<1>0. \A p \in Process : Switches(p) BY DEF SettingsInv
<1>1. SUFFICES ASSUME NEW q \in Process
      PROVE  Switches(q)'
  BY DEF SettingsInv
<1>2. CASE UNCHANGED vars BY <1>0, <1>2 DEF vars, durable
<1>3. ASSUME NEW c \in Connection, Serve(c)
      PROVE  Switches(q)'
 <2>1. op'[q] = op[q] \/ (op[q].at = "answer" /\ op'[q].at \in {"dial", "idle", "confirm"})
   BY <1>3, ServeOp
 <2>2. /\ config' = config /\ service'[q].session = service[q].session /\ service'[q].enabled = service[q].enabled
       /\ service'[q].wake = service[q].wake /\ service'[q].listening = service[q].listening
   BY <1>3, ServeFrame
 <2>. QED BY <1>0, <2>1, <2>2
<1>4. ASSUME NEW p \in Process, Crash(p)
      PROVE  Switches(q)'
 <2>1. service' = [service EXCEPT ![p] = NoService] /\ config' = config BY <1>4 DEF Crash, durable
 <2>2. CASE q = p
  <3>1. service'[q] = NoService /\ op'[q] = NoOp
    BY <1>4, <2>1, <2>2, CrashConn, Types DEF ServiceType
  <3>. QED BY <3>1, Blank DEF Empty
 <2>3. CASE q # p
  <3>1. service'[q] = service[q] BY <2>1, <2>3, Types DEF ServiceType
  <3>2. op'[q] = op[q] \/ (op[q].at = "answer" /\ op'[q].at \in {"dial", "idle"})
    BY <1>4, <2>3, CrashConn
  <3>. QED BY <1>0, <2>1, <3>1, <3>2
 <2>. QED BY <2>2, <2>3
<1>5. ASSUME NEW p \in Process, Switch(p) \/ Restart(p)
      PROVE  Switches(q)'
  BY <1>0, <1>5 DEF Switch, Restart, durable
<1>6. ASSUME NEW p \in Process \ {q}, Operate(p)
      PROVE  Switches(q)'
 <2>1. op'[q] = op[q] /\ service'[q] = service[q] BY <1>6, Others
 <2>2. CASE service[q].session = None BY <2>1, <2>2 DEF PlaceInv, Empty
 <2>3. CASE service[q].session # None
  <3>1. service[q].session \in Session /\ service[q].session # service[p].session
    BY <2>3, Types DEF PlaceInv, ServiceType, ServiceT
  <3>2. config'[service[q].session] = config[service[q].session]
    BY <1>6, <3>1, ConfigNext DEF ConfigNow
  <3>. QED BY <1>0, <2>1, <3>2
 <2>. QED BY <2>2, <2>3
<1>7. ASSUME Operate(q)
      PROVE  Switches(q)'
 <2>0. OpNow(q) /\ ServiceNow(q) /\ ConfigNow(q) /\ Switches(q)
   BY <1>0, <1>7, OpNext, ServiceNext, ConfigNext
 <2>1. ASSUME config' = config, SameSwitches(q), service'[q].session = service[q].session,
              op[q].at \notin {"saveOn", "saveOff"}, op'[q].at \notin {"saveOn", "saveOff", "open"}
       PROVE  Switches(q)'
   BY <2>0, <2>1 DEF SameSwitches
 <2>2. ~SaveOn(q) /\ ~SaveOff(q) /\ ~SetWake(q) => config' = config BY <2>0 DEF ConfigNow
 <2>3. op[q].at # "saveOn" => ~SaveOn(q) BY DEF SaveOn
 <2>4. op[q].at # "saveOff" => ~SaveOff(q) BY DEF SaveOff
 <2>5. op[q].at # "idle" => ~SetWake(q) BY DEF SetWake, Free
 <2>6. op'[q].at # "idle" => ~SetWake(q) BY <2>0 DEF OpNow
 <2>7. service' = service => SameSwitches(q) /\ service'[q].session = service[q].session
   BY DEF SameSwitches
 <2>8. CASE Send(q) \/ Reply(q) \/ Retry(q)
  <3>1. op[q].at = "idle" /\ op'[q].at \in {"record", "dial"} BY <2>0, <2>8 DEF OpNow
  <3>2. service' = service BY <2>0, <2>8 DEF ServiceNow
  <3>. QED BY <2>1, <2>2, <2>3, <2>4, <2>6, <2>7, <3>1, <3>2
 <2>9. CASE Record(q) \/ RecordFails(q) \/ Dial(q) \/ TimesOut(q) \/ Confirm(q)
  <3>1. op[q].at \in {"record", "dial", "answer", "confirm"} /\ op'[q].at \in {"dial", "answer", "idle"}
    BY <2>0, <2>9 DEF OpNow
  <3>2. SameSwitches(q) /\ service'[q].session = service[q].session
    BY <2>0, <2>7, <2>9 DEF ServiceNow
  <3>. QED BY <2>1, <2>2, <2>3, <2>4, <2>5, <3>1, <3>2
 <2>10. CASE Enable(q) \/ Disable(q)
  <3>1. config' = config BY <2>10 DEF Enable, Disable, Starts, durable
  <3>. QED BY <2>0, <2>10, <3>1 DEF OpNow, ServiceNow, SameTables
 <2>11. CASE SaveOn(q) BY <2>0, <2>11 DEF OpNow, ServiceNow, ConfigNow, SameTables
 <2>12. CASE SaveOff(q) BY <2>0, <2>12 DEF OpNow, ServiceNow, ConfigNow, SameTables
 <2>13. CASE SaveOnFails(q) \/ SaveOffFails(q)
  <3>1. config' = config BY <2>13 DEF SaveOnFails, SaveOffFails, durable
  <3>. QED BY <2>0, <2>13, <3>1 DEF OpNow, ServiceNow, SameTables
 <2>14. CASE SetWake(q) BY <2>0, <2>14 DEF OpNow, ServiceNow, ConfigNow, SameTables
 <2>15. CASE StartSession(q) BY <2>0, <2>15 DEF OpNow, ServiceNow, Empty
 <2>16. CASE Load(q)
  <3>1. Empty(service[q]) /\ config' = config BY <2>16 DEF Load, PlaceInv, durable
  <3>2. CASE change[q] # None
   <4>1. service' = service /\ op'[q].at = "idle"
     BY <2>16, <3>2, Blank, Types DEF Load, Unread, Done, OpType
   <4>. QED BY <2>0, <3>1, <4>1 DEF Empty
  <3>3. CASE change[q] = None
   <4>1. ~config[service[q].session].enabled => op'[q].at = "idle"
     BY <2>16, <3>3, Blank, Types DEF Load, Done, OpType
   <4>2. op'[q].at \in {"open", "idle"} BY <2>0, <2>16 DEF OpNow
   <4>3. /\ service'[q].session = service[q].session
         /\ service'[q].listening = service[q].listening
         /\ service'[q].enabled = config[service[q].session].enabled
         /\ service'[q].wake = config[service[q].session].wake
     BY <2>0, <2>16, <3>3 DEF ServiceNow
   <4>. QED BY <3>1, <4>1, <4>2, <4>3 DEF Empty
  <3>. QED BY <3>2, <3>3
 <2>17. CASE LoadFails(q)
  <3>1. Empty(service[q]) /\ config' = config /\ service' = service /\ op'[q].at = "idle"
    BY <2>0, <2>17 DEF LoadFails, PlaceInv, durable, OpNow
  <3>. QED BY <2>0, <3>1 DEF Empty
 <2>18. CASE Open(q)
  <3>1. config' = config BY <2>18 DEF Open, durable
  <3>. QED BY <2>0, <2>18, <3>1 DEF OpNow, ServiceNow, SameTables
 <2>. QED
   BY <1>7, <2>8, <2>9, <2>10, <2>11, <2>12, <2>13, <2>14, <2>15, <2>16, <2>17, <2>18 DEF Operate
<1>. QED BY <1>2, <1>3, <1>4, <1>5, <1>6, <1>7 DEF Next, Quiet

\* What a connection does next.
ConnNow(c) ==
    /\ Reject(c) \/ Duplicate(c) => conn[c].at = "gate" /\ conn'[c].at = "free"
    /\ WaitCanceled(c) => conn[c].at = "wait" /\ conn'[c].at = "free"
    /\ Wait(c) => conn[c].at = "gate" /\ conn'[c].at = "wait"
    /\ Admit(c) => /\ conn[c].at = "gate" /\ conn'[c].at = "check"
                   /\ conn'[c].session = service[conn[c].process].session
                   /\ conn'[c].session = outbound[conn[c].id].to
    /\ Check(c) => conn[c].at = "check" /\ conn'[c].at \in {"finish", "append"}
    /\ Store(c) => /\ conn[c].at = "append"
                   /\ \/ /\ conn'[c].at = "publish" /\ conn'[c].stored /\ active[conn[c].process] = conn[c].session
                         /\ inbound' = [inbound EXCEPT ![conn[c].session] = Append(@, conn[c].id)]
                         /\ forgotten' = IF c \in service[conn[c].process].inflight THEN forgotten
                                         ELSE forgotten \cup {conn[c].id}
                      \/ /\ conn'[c].at = "finish" /\ conn'[c].stored = conn[c].stored
                         /\ inbound' = inbound /\ forgotten' = forgotten
    /\ Publish(c) => conn[c].at = "publish" /\ conn'[c].at \in {"wake", "finish"}
    /\ Wake(c) => conn[c].at = "wake" /\ conn'[c].at = "finish"
    /\ Finish(c) => conn[c].at = "finish" /\ conn'[c].at = "free"

\* Every step of the system does that to a connection.
LEMMA ConnNext ==
    ASSUME TypeOK, NEW c \in Connection
    PROVE  ConnNow(c)
<1>0. conn \in [Connection -> ConnT] /\ conn[c] \in ConnT BY Types DEF ConnType
<1>1. /\ Reject(c) \/ Duplicate(c) => conn[c].at = "gate" /\ conn'[c].at = "free"
      /\ WaitCanceled(c) => conn[c].at = "wait" /\ conn'[c].at = "free"
      /\ Finish(c) => conn[c].at = "finish" /\ conn'[c].at = "free"
  BY <1>0, Blank DEF Reject, Duplicate, Admitted, WaitCanceled, Finish
<1>2. Wait(c) => conn[c].at = "gate" /\ conn'[c].at = "wait" BY <1>0 DEF Wait, Admitted, ConnT
<1>3. Admit(c) => /\ conn[c].at = "gate" /\ conn'[c].at = "check"
                  /\ conn'[c].session = service[conn[c].process].session
                  /\ conn'[c].session = outbound[conn[c].id].to
  BY <1>0 DEF Admit, Admitted, ConnT
<1>4. Check(c) => conn[c].at = "check" /\ conn'[c].at \in {"finish", "append"}
  BY <1>0 DEF Check, ConnT
<1>5. Store(c) => /\ conn[c].at = "append"
                  /\ \/ /\ conn'[c].at = "publish" /\ conn'[c].stored /\ active[conn[c].process] = conn[c].session
                        /\ inbound' = [inbound EXCEPT ![conn[c].session] = Append(@, conn[c].id)]
                        /\ forgotten' = IF c \in service[conn[c].process].inflight THEN forgotten
                                        ELSE forgotten \cup {conn[c].id}
                     \/ /\ conn'[c].at = "finish" /\ conn'[c].stored = conn[c].stored
                        /\ inbound' = inbound /\ forgotten' = forgotten
 <2>1. conn' = [conn EXCEPT ![c].at = "publish", ![c].stored = TRUE] => conn'[c].at = "publish" /\ conn'[c].stored
   BY <1>0 DEF ConnT
 <2>2. conn' = [conn EXCEPT ![c].at = "finish"] => conn'[c].at = "finish" /\ conn'[c].stored = conn[c].stored
   BY <1>0 DEF ConnT
 <2>. QED BY <2>1, <2>2 DEF Store
<1>6. Publish(c) => conn[c].at = "publish" /\ conn'[c].at \in {"wake", "finish"}
  BY <1>0 DEF Publish, ConnT
<1>7. Wake(c) => conn[c].at = "wake" /\ conn'[c].at = "finish" BY <1>0 DEF Wake, ConnT
<1>. QED BY <1>1, <1>2, <1>3, <1>4, <1>5, <1>6, <1>7 DEF ConnNow

\* Stores only grow.
LEMMA StoredGrows ==
    ASSUME TypeOK, CountInv, ConnInv, [Next]_vars, NEW s \in Session
    PROVE  Stored(s) \subseteq Stored(s)'
<1>1. CASE inbound'[s] = inbound[s] BY <1>1 DEF Stored
<1>2. ASSUME NEW c \in Connection, Store(c), inbound'[s] = Append(inbound[s], conn[c].id)
      PROVE  Stored(s) \subseteq Stored(s)'
 <2>1. conn[c].id \in Message BY <1>2, Numbers DEF Store, ConnInv
 <2>. QED BY <1>2, <2>1, StoredStep
<1>. QED BY <1>1, <1>2, Inbound DEF InboundStep

\* A connection goes on with a message that exists.
LEMMA Connected ==
    ASSUME TypeOK, CountInv, PlaceInv, ConnInv, DeliveredInv, ReplyInv, [Next]_vars
    PROVE  ConnInv'
<1> DEFINE Serves(c) ==
        conn[c].at # "free" =>
            /\ conn[c].process \in Process
            /\ conn[c].id \in DOMAIN outbound
            /\ conn[c].at \notin {"publish", "wake", "finish"} => ~conn[c].stored
            /\ conn[c].at \in {"publish", "wake"} => conn[c].stored
            /\ conn[c].at \in Busy =>
                  /\ conn[c].session = outbound[conn[c].id].to
                  /\ Opens(conn[c].session) = conn[c].process
                  /\ conn[c].stored => conn[c].id \in Stored(conn[c].session)
<1>0. \A c \in Connection : Serves(c) BY DEF ConnInv
<1>1. SUFFICES ASSUME NEW c \in Connection
      PROVE  Serves(c)'
  BY DEF ConnInv
<1>2. OutboundStep BY Outbound
<1>3. \A s \in Session : Stored(s) \subseteq Stored(s)' BY StoredGrows
<1>4. \A i \in DOMAIN outbound : i \in DOMAIN outbound' /\ outbound'[i].to = outbound[i].to /\ outbound[i].to \in Session
  BY <1>2, RecordFields DEF OutboundStep
<1>5. CASE SameConn(c) BY <1>0, <1>3, <1>4, <1>5 DEF SameConn, Busy
<1>6. CASE conn'[c].at = "free" BY <1>6
<1>7. ASSUME NEW d \in Connection \ {c}, Serve(d)
      PROVE  Serves(c)'
 <2>1. CASE /\ conn[c].at = "wait" /\ conn'[c].at = "gate" /\ conn'[c].process = conn[c].process
            /\ conn'[c].id = conn[c].id /\ conn'[c].stored = conn[c].stored
   BY <1>0, <1>4, <2>1 DEF Busy
 <2>. QED BY <1>5, <1>7, <2>1, ServeConn
<1>8. CASE Serve(c)
 <2>1. ConnNow(c) /\ Serves(c) /\ conn[c].at # "free" BY <1>0, <1>8, ConnNext, ServeFrame
 <2>2. \/ conn'[c].at = "free"
       \/ /\ conn'[c].process = conn[c].process /\ conn'[c].id = conn[c].id
          /\ ~Admit(c) => conn'[c].session = conn[c].session
          /\ ~Store(c) => conn'[c].stored = conn[c].stored
   BY <1>8, ServeConn
 <2>3. CASE Wait(c)
  <3>1. conn[c].at = "gate" /\ conn'[c].at = "wait" /\ ~Admit(c) /\ ~Store(c)
    BY <2>1, <2>3 DEF ConnNow
  <3>. QED BY <1>4, <2>1, <2>2, <3>1 DEF Busy
 <2>4. CASE Admit(c)
  <3>1. /\ conn[c].at = "gate" /\ conn'[c].at = "check" /\ ~Store(c)
        /\ conn'[c].session = service[conn[c].process].session
        /\ conn'[c].session = outbound[conn[c].id].to
    BY <2>1, <2>4 DEF ConnNow
  <3>2. conn[c].process \in Process /\ outbound[conn[c].id].to \in Session BY <1>4, <2>1
  <3>3. Opens(conn'[c].session) = conn[c].process BY <3>1, <3>2, Parameters DEF PlaceInv
  <3>. QED BY <1>4, <2>1, <2>2, <3>1, <3>3 DEF Busy
 <2>5. CASE Check(c)
  <3>1. conn[c].at = "check" /\ conn'[c].at \in {"finish", "append"} /\ ~Store(c) /\ ~Admit(c)
    BY <2>1, <2>5 DEF ConnNow
  <3>. QED BY <1>3, <1>4, <2>1, <2>2, <3>1 DEF Busy
 <2>6. CASE Store(c)
  <3>1. conn[c].at = "append" /\ ~Admit(c) BY <2>1, <2>6 DEF ConnNow
  <3>2. /\ conn'[c].process = conn[c].process /\ conn'[c].id = conn[c].id /\ conn'[c].session = conn[c].session
    BY <2>1, <2>2, <2>6, <3>1 DEF ConnNow
  <3>3. conn[c].id \in Message /\ conn[c].session \in Session BY <1>4, <2>1, <3>1, Numbers DEF Busy
  <3>4. CASE conn'[c].at = "finish" /\ conn'[c].stored = conn[c].stored
    BY <1>3, <1>4, <2>1, <3>1, <3>2, <3>4 DEF Busy
  <3>5. CASE /\ conn'[c].at = "publish" /\ conn'[c].stored
             /\ inbound' = [inbound EXCEPT ![conn[c].session] = Append(@, conn[c].id)]
   <4>1. inbound'[conn[c].session] = Append(inbound[conn[c].session], conn[c].id)
     BY <3>3, <3>5, Types DEF RecordTypes
   <4>2. \A s \in Session : s = conn[c].session => conn[c].id \in Stored(s)'
     BY <3>3, <4>1, StoredStep
   <4>. QED BY <1>4, <2>1, <3>1, <3>2, <3>3, <3>5, <4>2 DEF Busy
  <3>. QED BY <2>1, <2>6, <3>4, <3>5 DEF ConnNow
 <2>7. CASE Publish(c) \/ Wake(c)
  <3>1. conn[c].at \in {"publish", "wake"} /\ conn'[c].at \in {"wake", "finish"} /\ ~Store(c) /\ ~Admit(c)
    BY <2>1, <2>7 DEF ConnNow
  <3>. QED BY <1>3, <1>4, <2>1, <2>2, <3>1 DEF Busy
 <2>8. CASE Reject(c) \/ Duplicate(c) \/ WaitCanceled(c) \/ Finish(c)
   BY <1>6, <2>1, <2>8 DEF ConnNow
 <2>. QED BY <1>8, <2>3, <2>4, <2>5, <2>6, <2>7, <2>8 DEF Serve
<1>9. ASSUME NEW p \in Process, Dial(p)
      PROVE  Serves(c)'
 <2>1. CASE conn'[c] = conn[c] BY <1>5, <2>1 DEF SameConn
 <2>2. CASE conn'[c].at = "gate" /\ conn'[c].process \in Process /\ conn'[c].id = op[p].id /\ ~conn'[c].stored
  <3>1. op[p].id \in DOMAIN outbound BY <1>9 DEF Dial, DeliveredInv
  <3>. QED BY <1>4, <2>2, <3>1 DEF Busy
 <2>. QED BY ZenonT(40), <1>9, <2>1, <2>2, DialConn
<1>10. ASSUME NEW p \in Process, Operate(p) \/ Switch(p) \/ Restart(p)
       PROVE  Serves(c)'
  BY <1>5, <1>9, <1>10, ConnStep
<1>11. ASSUME NEW p \in Process, Crash(p)
       PROVE  Serves(c)'
  BY <1>5, <1>6, <1>11, CrashConn DEF SameConn
<1>12. CASE UNCHANGED vars BY <1>5, <1>12 DEF vars, SameConn
<1>. QED BY <1>7, <1>8, <1>10, <1>11, <1>12 DEF Next, Quiet

\* What a connection does to the tables of its service.
TablesNow(c) ==
    LET P == conn[c].process
    IN  /\ Admit(c) => /\ service'[P].inflight = service[P].inflight \cup {c}
                       /\ service'[P].inbox = service[P].inbox /\ service'[P].seen = service[P].seen
        /\ Publish(c) => /\ service'[P].inflight = service[P].inflight /\ service'[P].seen = service[P].seen
                         /\ IF c \in service[P].inflight
                            THEN service'[P].inbox = service[P].inbox \cup {conn[c].id}
                            ELSE service'[P].inbox = service[P].inbox
        /\ Finish(c) => /\ service'[P].inflight = service[P].inflight \ {c} /\ service'[P].inbox = service[P].inbox
                        /\ IF c \in service[P].inflight /\ conn[c].stored
                           THEN service'[P].seen = service[P].seen \cup {conn[c].id}
                           ELSE service'[P].seen = service[P].seen
        /\ ~Admit(c) /\ ~Publish(c) /\ ~Finish(c) => service' = service

\* Serving a connection does that to the tables.
LEMMA TablesNext ==
    ASSUME TypeOK, CountInv, ConnInv, InflightInv, NEW c \in Connection, Serve(c)
    PROVE  TablesNow(c)
<1> DEFINE P == conn[c].process
<1>0. service \in [Process -> ServiceT] /\ P \in Process /\ service[P] \in ServiceT
 <2>1. P \in Process BY ServeFrame DEF ConnInv
 <2>. QED BY <2>1, Types DEF ServiceType
<1>1. Current(c) <=> c \in service[P].inflight BY SMTT(40), <1>0 DEF Current, InflightInv
<1>2. Admit(c) => /\ service'[P].inflight = service[P].inflight \cup {c}
                  /\ service'[P].inbox = service[P].inbox /\ service'[P].seen = service[P].seen
  BY <1>0 DEF Admit, ServiceT
<1>3. Publish(c) => /\ service'[P].inflight = service[P].inflight /\ service'[P].seen = service[P].seen
                    /\ IF c \in service[P].inflight
                       THEN service'[P].inbox = service[P].inbox \cup {conn[c].id}
                       ELSE service'[P].inbox = service[P].inbox
  BY <1>0, <1>1 DEF Publish, ServiceT
<1>4. Finish(c) => /\ service'[P].inflight = service[P].inflight \ {c} /\ service'[P].inbox = service[P].inbox
                   /\ IF c \in service[P].inflight /\ conn[c].stored
                      THEN service'[P].seen = service[P].seen \cup {conn[c].id}
                      ELSE service'[P].seen = service[P].seen
 <2>1. SUFFICES ASSUME Finish(c)
       PROVE  /\ service'[P].inflight = service[P].inflight \ {c} /\ service'[P].inbox = service[P].inbox
              /\ IF c \in service[P].inflight /\ conn[c].stored
                 THEN service'[P].seen = service[P].seen \cup {conn[c].id}
                 ELSE service'[P].seen = service[P].seen
   OBVIOUS
 <2>2. CASE Current(c)
  <3>1. service'[P] = Settled(service[P], c) BY <1>0, <2>1, <2>2 DEF Finish
  <3>. QED BY <1>0, <1>1, <2>2, <3>1 DEF Settled, ServiceT
 <2>3. CASE ~Current(c) BY <1>1, <2>1, <2>3 DEF Finish
 <2>. QED BY <2>2, <2>3
<1>5. ~Admit(c) /\ ~Publish(c) /\ ~Finish(c) => service' = service
  BY DEF Serve, Reject, Duplicate, Wait, WaitCanceled, Check, Store, Wake
<1>. QED BY <1>2, <1>3, <1>4, <1>5 DEF TablesNow

\* One connection at a time stores a message.
LEMMA Inflight ==
    ASSUME TypeOK, CountInv, PlaceInv, ConnInv, InflightInv, DeliveredInv, [Next]_vars
    PROVE  InflightInv'
<1> DEFINE Inflights(p) ==
        /\ \A c \in service[p].inflight :
              conn[c].at \in Busy /\ conn[c].process = p /\ conn[c].session = service[p].session
        /\ \A c, d \in service[p].inflight : conn[c].id = conn[d].id => c = d
<1>0. \A p \in Process : Inflights(p) /\ service[p].inflight \subseteq Connection
  BY Types DEF InflightInv, ServiceType, ServiceT
<1>1. SUFFICES ASSUME NEW q \in Process
      PROVE  Inflights(q)'
  BY DEF InflightInv
<1>2. ASSUME service'[q].session = service[q].session,
             \A c \in service'[q].inflight :
                 /\ c \in service[q].inflight /\ conn'[c].at \in Busy
                 /\ conn'[c].process = conn[c].process /\ conn'[c].session = conn[c].session /\ conn'[c].id = conn[c].id
      PROVE  Inflights(q)'
  BY <1>0, <1>2 DEF Busy
<1>3. ASSUME service'[q].session = service[q].session, service'[q].inflight = service[q].inflight,
             \A c \in Connection : conn[c].at # "free" => SameConn(c)
      PROVE  Inflights(q)'
  BY <1>0, <1>2, <1>3 DEF SameConn, Busy
<1>4. CASE UNCHANGED vars BY <1>3, <1>4 DEF vars, SameConn
<1>5. ASSUME NEW p \in Process, Dial(p)
      PROVE  Inflights(q)'
 <2>1. service' = service BY <1>5 DEF Dial
 <2>2. \A c \in Connection : conn[c].at # "free" => SameConn(c) BY <1>5, DialConn DEF SameConn
 <2>. QED BY <1>3, <2>1, <2>2
<1>6. ASSUME NEW p \in Process, Operate(p) \/ Switch(p) \/ Restart(p), ~Dial(p)
      PROVE  Inflights(q)'
 <2>1. \A c \in Connection : SameConn(c) BY <1>6, ConnStep
 <2>2. CASE q # p
  <3>1. service'[q] = service[q] BY <1>6, <2>2, Others
  <3>. QED BY <1>3, <2>1, <3>1
 <2>3. CASE q = p
  <3>0. ServiceNow(q) BY ServiceNext
  <3>1. CASE StartSession(q) BY <3>0, <3>1 DEF ServiceNow, Empty
  <3>2. ASSUME service'[q].session = service[q].session, service'[q].inflight = service[q].inflight
        PROVE  Inflights(q)'
    BY <1>3, <2>1, <3>2
  <3>3. CASE \/ Send(q) \/ Reply(q) \/ Retry(q) \/ RecordFails(q) \/ TimesOut(q) \/ Confirm(q) \/ LoadFails(q)
             \/ Record(q) \/ Load(q)
    BY <3>0, <3>2, <3>3 DEF ServiceNow
  <3>4. CASE Enable(q) \/ SaveOn(q) \/ SaveOnFails(q) \/ Disable(q) \/ SaveOff(q) \/ SaveOffFails(q) \/ SetWake(q) \/ Open(q)
   <4>1. SameTables(q) BY <3>0, <3>4 DEF ServiceNow
   <4>. QED BY <3>2, <4>1 DEF SameTables
  <3>5. CASE Switch(q) \/ Restart(q) BY <3>2, <3>5 DEF Switch, Restart
  <3>. QED BY <1>6, <2>3, <3>1, <3>3, <3>4, <3>5 DEF Operate
 <2>. QED BY <2>2, <2>3
<1>7. ASSUME NEW p \in Process, Crash(p)
      PROVE  Inflights(q)'
 <2>1. service' = [service EXCEPT ![p] = NoService] BY <1>7 DEF Crash
 <2>2. CASE q = p BY <2>1, <2>2, Blank, Types DEF ServiceType, Empty
 <2>3. CASE q # p
  <3>1. service'[q] = service[q] BY <2>1, <2>3, Types DEF ServiceType
  <3>2. \A c \in service[q].inflight : conn'[c] = conn[c] BY <1>0, <1>7, <2>3, CrashConn
  <3>. QED BY <1>0, <1>2, <3>1, <3>2
 <2>. QED BY <2>2, <2>3
<1>8. ASSUME NEW d \in Connection, Serve(d)
      PROVE  Inflights(q)'
 <2>0. ConnNow(d) /\ TablesNow(d) /\ service'[q].session = service[q].session
   BY <1>8, ConnNext, TablesNext, ServeFrame
 <2>1. \A c \in Connection \ {d} : conn[c].at \in Busy => SameConn(c) BY <1>8, ServeConn DEF Busy
 <2>2. ASSUME service'[q].inflight \subseteq service[q].inflight \ {d}
       PROVE  Inflights(q)'
   BY <1>0, <1>2, <2>0, <2>1, <2>2 DEF SameConn
 <2>3. CASE d \notin service[q].inflight /\ service'[q].inflight = service[q].inflight BY <2>2, <2>3
 <2>4. CASE q # conn[d].process
  <3>1. service'[q] = service[q] /\ d \notin service[q].inflight BY <1>0, <1>8, <2>4, ServeFrame
  <3>. QED BY <2>3, <3>1
 <2>5. CASE q = conn[d].process
  <3>1. CASE Finish(d)
   <4>1. service'[q].inflight = service[q].inflight \ {d} BY <2>0, <2>5, <3>1 DEF TablesNow
   <4>. QED BY <2>2, <4>1
  <3>2. CASE Reject(d) \/ Duplicate(d) \/ WaitCanceled(d) \/ Wait(d)
   <4>1. conn[d].at \notin Busy BY <2>0, <3>2 DEF ConnNow, Busy
   <4>2. service' = service BY <3>2 DEF Reject, Duplicate, WaitCanceled, Wait
   <4>. QED BY <1>0, <2>3, <4>1, <4>2
  <3>3. CASE Admit(d)
   <4>1. /\ conn[d].at = "gate" /\ conn'[d].at = "check" /\ conn'[d].session = service[q].session
         /\ service'[q].inflight = service[q].inflight \cup {d}
     BY <2>0, <2>5, <3>3 DEF ConnNow, TablesNow
   <4>2. conn'[d].process = q /\ conn'[d].id = conn[d].id BY <1>8, <2>5, <4>1, ServeConn
   <4>3. \A c \in service[q].inflight : conn[c].id # conn[d].id BY <2>5, <3>3 DEF Admit, Storing
   <4>4. \A c \in service[q].inflight : c # d /\ SameConn(c) BY <1>0, <2>1, <4>1 DEF Busy
   <4>. QED BY SMTT(40), <1>0, <2>0, <4>1, <4>2, <4>3, <4>4 DEF SameConn, Busy
  <3>4. CASE Check(d) \/ Store(d) \/ Publish(d) \/ Wake(d)
   <4>1. conn'[d].at \in Busy /\ conn[d].at # "gate" BY <2>0, <3>4 DEF ConnNow, Busy
   <4>2. ~Admit(d) BY <4>1 DEF Admit, Admitted
   <4>3. conn'[d].process = conn[d].process /\ conn'[d].session = conn[d].session /\ conn'[d].id = conn[d].id
     BY SMTT(40), <1>8, <4>1, <4>2, ServeConn DEF Busy
   <4>4. service'[q].inflight = service[q].inflight
     BY <2>0, <2>5, <3>4 DEF TablesNow, Check, Store, Wake
   <4>. QED BY <1>0, <1>2, <2>0, <2>1, <4>1, <4>3, <4>4 DEF SameConn
  <3>. QED BY <1>8, <3>1, <3>2, <3>3, <3>4 DEF Serve
 <2>. QED BY <2>4, <2>5
<1>. QED BY <1>4, <1>5, <1>6, <1>7, <1>8 DEF Next, Quiet

\* What is forgotten stays so.
ForgottenStep ==
    /\ forgotten \subseteq forgotten'
    /\ \/ forgotten' = forgotten
       \/ \E c \in Connection : Store(c)
       \/ \E p \in Process : (Load(p) \/ LoadFails(p)) /\ Unread(p)

\* What a step adds to the forgotten messages.
LEMMA Forgotten ==
    ASSUME [Next]_vars
    PROVE  ForgottenStep
<1>1. ASSUME NEW c \in Connection, Serve(c)
      PROVE  ForgottenStep
 <2>1. CASE Store(c) BY <2>1 DEF Store, ForgottenStep
 <2>2. CASE \/ Reject(c) \/ Duplicate(c) \/ Wait(c) \/ WaitCanceled(c) \/ Admit(c) \/ Check(c) \/ Publish(c)
            \/ Wake(c) \/ Finish(c)
   BY <2>2 DEF Reject, Duplicate, Wait, WaitCanceled, Admit, Check, Publish, Wake, Finish, ForgottenStep
 <2>. QED BY <1>1, <2>1, <2>2 DEF Serve
<1>2. ASSUME NEW p \in Process, Operate(p)
      PROVE  ForgottenStep
 <2>1. CASE Send(p) \/ Reply(p) \/ Retry(p) \/ Enable(p) \/ Disable(p)
   BY <2>1 DEF Send, Reply, Retry, Enable, Disable, Starts, ForgottenStep
 <2>2. CASE RecordFails(p) \/ TimesOut(p) \/ Dial(p) \/ SaveOn(p) \/ SaveOffFails(p) \/ SetWake(p)
   BY <2>2 DEF RecordFails, TimesOut, Dial, SaveOn, SaveOffFails, SetWake, ForgottenStep
 <2>3. CASE SaveOnFails(p) \/ SaveOff(p) \/ StartSession(p) \/ Record(p) \/ Confirm(p) \/ Open(p)
   BY <2>3 DEF SaveOnFails, SaveOff, StartSession, Record, Confirm, Open, ForgottenStep
 <2>4. CASE Load(p) \/ LoadFails(p) BY <2>4 DEF Load, LoadFails, Unread, ForgottenStep
 <2>. QED BY SMTT(40), <1>2, <2>1, <2>2, <2>3, <2>4 DEF Operate
<1>3. ASSUME NEW p \in Process, Switch(p) \/ Crash(p) \/ Restart(p)
      PROVE  ForgottenStep
  BY <1>3 DEF Switch, Crash, Restart, ForgottenStep
<1>4. CASE UNCHANGED vars BY <1>4 DEF vars, ForgottenStep
<1>. QED BY <1>1, <1>2, <1>3, <1>4 DEF Next, Quiet

\* A session stores the messages to it, once.
LEMMA Inbounds ==
    ASSUME TypeOK, CountInv, PlaceInv, ConnInv, InflightInv, InboundInv, MemoryInv, DeliveredInv, ReplyInv,
           [Next]_vars
    PROVE  InboundInv'
<1> DEFINE Once(s) ==
        /\ \A k \in DOMAIN inbound[s] : inbound[s][k] \in DOMAIN outbound /\ outbound[inbound[s][k]].to = s
        /\ \A j, k \in DOMAIN inbound[s] : inbound[s][j] = inbound[s][k] /\ inbound[s][k] \notin forgotten => j = k
<1>0. \A s \in Session : Once(s) BY DEF InboundInv
<1>1. SUFFICES ASSUME NEW s \in Session
      PROVE  Once(s)'
  BY DEF InboundInv
<1>2. forgotten \subseteq forgotten' BY Forgotten DEF ForgottenStep
<1>3. \A i \in DOMAIN outbound : i \in DOMAIN outbound' /\ outbound'[i].to = outbound[i].to
  BY Outbound DEF OutboundStep
<1>4. CASE inbound'[s] = inbound[s] BY <1>0, <1>2, <1>3, <1>4
<1>5. ASSUME NEW c \in Connection,
             /\ Store(c) /\ s = conn[c].session /\ inbound'[s] = Append(inbound[s], conn[c].id)
             /\ forgotten' = IF c \in service[conn[c].process].inflight THEN forgotten ELSE forgotten \cup {conn[c].id}
      PROVE  Once(s)'
 <2>1. conn[c].at = "append" /\ conn[c].process \in Process /\ conn[c].id \in DOMAIN outbound
       /\ outbound[conn[c].id].to = s /\ ~conn[c].stored
   BY <1>5 DEF Store, ConnInv, Busy
 <2>2. inbound[s] \in Seq(Message) /\ conn[c].id \in Message BY <2>1, Numbers, RecordFields
 <2> DEFINE n == Len(inbound[s])
 <2>3. /\ DOMAIN inbound'[s] = 1..(n + 1) /\ DOMAIN inbound[s] = 1..n /\ n \in Nat
       /\ inbound'[s][n + 1] = conn[c].id /\ \A k \in 1..n : inbound'[s][k] = inbound[s][k]
   BY <1>5, <2>2, AppendProperties
 <2>4. \A k \in DOMAIN inbound'[s] : k \in DOMAIN inbound[s] \/ k = n + 1 BY <2>3
 <2>5. conn[c].id \notin forgotten' => conn[c].id \notin Stored(s)
   BY <1>5, <2>1, Parameters DEF MemoryInv, InflightInv
 <2>6. \A k \in DOMAIN inbound[s] : inbound[s][k] = conn[c].id => conn[c].id \in forgotten'
   BY <2>5 DEF Stored, Range
 <2>7. \A k \in DOMAIN inbound[s] : inbound'[s][k] = inbound[s][k] BY <2>3
 <2> HIDE DEF n
 <2>8. \A k \in DOMAIN inbound'[s] : inbound'[s][k] \in DOMAIN outbound /\ outbound[inbound'[s][k]].to = s
   BY <1>0, <2>1, <2>3, <2>4, <2>7
 <2>9. \A j, k \in DOMAIN inbound'[s] : inbound'[s][j] = inbound'[s][k] /\ inbound'[s][k] \notin forgotten' => j = k
   BY <1>0, <1>2, <2>3, <2>4, <2>6, <2>7
 <2>. QED BY SMTT(40), <1>3, <2>8, <2>9
<1>. QED BY <1>4, <1>5, Inbound DEF InboundStep

\* A connection that waits has a delivery to wait for.
LEMMA Waits ==
    ASSUME TypeOK, CountInv, PlaceInv, ConnInv, InflightInv, DeliveredInv, WaitsForDelivery, [Next]_vars
    PROVE  WaitsForDelivery'
<1> DEFINE Delivers(c, d) == conn[d].at \in Busy /\ conn[d].process = conn[c].process /\ conn[d].id = conn[c].id
<1>0. \A c \in Connection : conn[c].at = "wait" => \E d \in Connection : Delivers(c, d)
  BY DEF WaitsForDelivery, Busy
<1>1. SUFFICES ASSUME NEW c \in Connection, conn'[c].at = "wait"
      PROVE  \E d \in Connection : Delivers(c, d)'
  BY DEF WaitsForDelivery, Busy
<1>2. ASSUME SameConn(c), NEW d \in Connection, Delivers(c, d), SameConn(d)
      PROVE  Delivers(c, d)'
  BY <1>2 DEF SameConn
<1>3. ASSUME \A d \in Connection : conn[d].at # "free" => SameConn(d), conn[c].at # "free"
      PROVE  \E d \in Connection : Delivers(c, d)'
 <2>1. SameConn(c) /\ conn[c].at = "wait" BY <1>1, <1>3 DEF SameConn
 <2>2. PICK d \in Connection : Delivers(c, d) BY <1>0, <2>1
 <2>3. SameConn(d) BY <1>3, <2>2 DEF Busy
 <2>. QED BY <1>2, <2>1, <2>2, <2>3
<1>4. CASE UNCHANGED vars BY <1>1, <1>3, <1>4 DEF vars, SameConn
<1>5. ASSUME NEW p \in Process, Dial(p)
      PROVE  \E d \in Connection : Delivers(c, d)'
 <2>1. \A d \in Connection : conn[d].at # "free" => SameConn(d) BY <1>5, DialConn DEF SameConn
 <2>2. conn[c].at # "free" BY <1>1, <1>5, DialConn
 <2>. QED BY <1>3, <2>1, <2>2
<1>6. ASSUME NEW p \in Process, Operate(p) \/ Switch(p) \/ Restart(p)
      PROVE  \E d \in Connection : Delivers(c, d)'
 <2>1. CASE ~Dial(p)
  <3>1. \A d \in Connection : SameConn(d) BY <1>6, <2>1, ConnStep
  <3>2. conn[c].at = "wait" BY <1>1, <3>1 DEF SameConn
  <3>. QED BY <1>3, <3>1, <3>2
 <2>. QED BY <1>5, <2>1
<1>7. ASSUME NEW p \in Process, Crash(p)
      PROVE  \E d \in Connection : Delivers(c, d)'
 <2>1. conn'[c] = conn[c] /\ conn[c].process # p BY <1>1, <1>7, CrashConn
 <2>2. PICK d \in Connection : Delivers(c, d) BY <1>0, <1>1, <2>1
 <2>3. conn'[d] = conn[d] BY <1>7, <2>1, <2>2, CrashConn
 <2>4. Delivers(c, d)' BY <2>1, <2>2, <2>3
 <2>. QED BY <2>4
<1>8. ASSUME NEW e \in Connection, Serve(e)
      PROVE  \E d \in Connection : Delivers(c, d)'
 <2>0. ConnNow(e) BY ConnNext
 <2>1. CASE c = e
  <3>1. Wait(c) BY <1>1, <1>8, <2>0, <2>1 DEF Serve, ConnNow
  <3>2. conn[c].at = "gate" /\ conn[c].process \in Process
    BY <1>8, <2>0, <2>1, <3>1, ServeFrame DEF ConnNow, ConnInv
  <3>3. PICK d \in service[conn[c].process].inflight : conn[d].id = conn[c].id
    BY <3>1 DEF Wait, Storing
  <3>4. d \in Connection /\ conn[d].at \in Busy /\ conn[d].process = conn[c].process
    BY <3>2, <3>3, Types DEF InflightInv, ServiceType, ServiceT
  <3>5. d # c /\ SameConn(d) BY <1>8, <2>1, <3>2, <3>4, ServeConn DEF Busy
  <3>6. conn'[c].process = conn[c].process /\ conn'[c].id = conn[c].id
    BY <1>1, <1>8, <2>1, ServeConn
  <3>7. Delivers(c, d)' BY <3>3, <3>4, <3>5, <3>6 DEF SameConn
  <3>. QED BY <3>4, <3>7
 <2>2. CASE c # e
  <3>1. SameConn(c) /\ conn[c].at = "wait" BY <1>1, <1>8, <2>2, ServeConn DEF SameConn
  <3>2. PICK d \in Connection : Delivers(c, d) BY <1>0, <3>1
  <3>3. CASE d # e
   <4>1. SameConn(d) BY <1>8, <3>2, <3>3, ServeConn DEF Busy
   <4>. QED BY <1>2, <3>1, <3>2, <4>1
  <3>4. CASE d = e
   <4>1. ~Finish(e)
    <5>1. SUFFICES ASSUME Finish(e)
          PROVE  FALSE
      OBVIOUS
    <5>2. conn'[c] = [conn[c] EXCEPT !.at = "gate"] BY <2>2, <3>1, <3>2, <3>4, <5>1 DEF Finish
    <5>3. conn[c] \in ConnT BY Types DEF ConnType
    <5>. QED BY <1>1, <5>2, <5>3 DEF ConnT
   <4>2. conn[e].at \in Busy BY <3>2, <3>4
   <4>3. conn'[e].at \in Busy BY <1>8, <2>0, <4>1, <4>2 DEF Serve, ConnNow, Busy
   <4>4. conn'[e].process = conn[e].process /\ conn'[e].id = conn[e].id
     BY <1>8, <4>3, ServeConn DEF Busy
   <4>5. Delivers(c, e)' BY <3>1, <3>2, <3>4, <4>3, <4>4 DEF SameConn
   <4>. QED BY <4>5
  <3>. QED BY <3>3, <3>4
 <2>. QED BY <2>1, <2>2
<1>. QED BY <1>4, <1>6, <1>7, <1>8 DEF Next, Quiet

\* The part of MemoryInv about a process p that has the session s.
Knows(p, s) ==
    /\ service[p].inbox \cup service[p].seen \subseteq Stored(s)
    /\ \A c \in service[p].inflight : conn[c].id \notin forgotten /\ ~conn[c].stored => conn[c].id \notin Stored(s)
    /\ op[p].at # "load" => \A i \in Stored(s) \ forgotten :
          /\ i \in service[p].inbox \/ \E c \in service[p].inflight : conn[c].id = i /\ conn[c].at = "publish"
          /\ i \in service[p].seen \/ \E c \in service[p].inflight : conn[c].id = i /\ conn[c].stored

\* What keeps it.
LEMMA KnowsKept ==
    ASSUME NEW q \in Process, NEW s \in Session, Knows(q, s), Stored(s)' = Stored(s), forgotten \subseteq forgotten',
           op'[q].at # "load" => op[q].at # "load",
           service'[q].inbox = service[q].inbox, service'[q].seen = service[q].seen,
           service'[q].inflight = service[q].inflight,
           \A c \in service[q].inflight :
               /\ conn'[c].id = conn[c].id /\ conn'[c].stored = conn[c].stored
               /\ conn[c].at = "publish" => conn'[c].at = "publish"
    PROVE  Knows(q, s)'
<1>1. service'[q].inbox \cup service'[q].seen \subseteq Stored(s)' BY DEF Knows
<1>2. ASSUME NEW c \in service'[q].inflight, conn'[c].id \notin forgotten', ~conn'[c].stored
      PROVE  conn'[c].id \notin Stored(s)'
  BY <1>2 DEF Knows
<1>3. ASSUME op'[q].at # "load", NEW i \in Stored(s)' \ forgotten'
      PROVE  /\ i \in service'[q].inbox \/ \E c \in service'[q].inflight : conn'[c].id = i /\ conn'[c].at = "publish"
             /\ i \in service'[q].seen \/ \E c \in service'[q].inflight : conn'[c].id = i /\ conn'[c].stored
 <2>1. /\ i \in service[q].inbox \/ \E c \in service[q].inflight : conn[c].id = i /\ conn[c].at = "publish"
       /\ i \in service[q].seen \/ \E c \in service[q].inflight : conn[c].id = i /\ conn[c].stored
   BY <1>3 DEF Knows
 <2>. QED BY <2>1
<1>. QED BY <1>1, <1>2, <1>3 DEF Knows

\* Serving a connection keeps what the service knows.
LEMMA KnowsServing ==
    ASSUME TypeOK, CountInv, PlaceInv, ConnInv, InflightInv, [Next]_vars,
           NEW q \in Process, NEW d \in Connection, Serve(d), q = conn[d].process,
           NEW s \in Session, s = service[q].session, Knows(q, s)
    PROVE  Knows(q, s)'
<1> DEFINE sv == service[q]
<1>0. ConnNow(d) /\ TablesNow(d) BY ConnNext, TablesNext
<1>1. op'[q].at # "load" => op[q].at # "load" BY ServeOp
<1>2. forgotten \subseteq forgotten' BY Forgotten DEF ForgottenStep
<1>3. \A c \in sv.inflight : /\ c \in Connection /\ conn[c].at \in Busy /\ conn[c].process = q /\ conn[c].session = s
                             /\ conn[c].id \in Message /\ (conn[c].stored => conn[c].id \in Stored(s))
  BY Types, Numbers DEF InflightInv, ConnInv, ServiceType, ServiceT, Busy
<1>4. \A c \in sv.inflight : c # d => SameConn(c) BY <1>3, ServeConn DEF Busy
<1>5. d \in sv.inflight => conn'[d].at = "free" \/ (conn'[d].id = conn[d].id /\ (~Store(d) => conn'[d].stored = conn[d].stored))
  BY ServeConn
<1>6. ~Store(d) => Stored(s)' = Stored(s)
 <2>1. ~Store(d) => inbound' = inbound
   BY ZenonT(40) DEF Serve, Reject, Duplicate, Wait, WaitCanceled, Admit, Check, Publish, Wake, Finish, durable
 <2>. QED BY SMTT(40), <2>1 DEF Stored
<1>7. ~Store(d) => forgotten' = forgotten
  BY DEF Serve, Reject, Duplicate, Wait, WaitCanceled, Admit, Check, Publish, Wake, Finish
<1>8. CASE Reject(d) \/ Duplicate(d) \/ WaitCanceled(d) \/ Wait(d)
 <2>1. d \notin sv.inflight /\ ~Store(d) BY <1>0, <1>3, <1>8 DEF ConnNow, Busy
 <2>2. service' = service BY <1>8 DEF Reject, Duplicate, WaitCanceled, Wait
 <2>. QED BY <1>1, <1>2, <1>4, <1>6, <2>1, <2>2, KnowsKept DEF SameConn
<1>9. CASE Check(d) \/ Wake(d)
 <2>1. ~Store(d) /\ conn[d].at # "publish" /\ conn'[d].at # "free" BY <1>0, <1>9 DEF ConnNow
 <2>2. service' = service BY <1>9 DEF Check, Wake
 <2>. QED BY <1>1, <1>2, <1>4, <1>5, <1>6, <2>1, <2>2, KnowsKept DEF SameConn
<1>10. CASE Publish(d)
 <2>1. /\ ~Store(d) /\ conn[d].at = "publish" /\ conn'[d].at # "free"
       /\ service'[q].inflight = sv.inflight /\ service'[q].seen = sv.seen
       /\ d \in sv.inflight => service'[q].inbox = sv.inbox \cup {conn[d].id}
       /\ d \notin sv.inflight => service'[q].inbox = sv.inbox
   BY <1>0, <1>10 DEF ConnNow, TablesNow
 <2>2. CASE d \notin sv.inflight
   BY SMTT(40), <1>1, <1>2, <1>4, <1>6, <2>1, <2>2, KnowsKept DEF SameConn
 <2>3. CASE d \in sv.inflight
  <3>1. conn[d].stored /\ conn[d].id \in Stored(s) BY <1>3, <2>1, <2>3 DEF ConnInv
  <3>2. \A c \in sv.inflight : conn'[c].id = conn[c].id /\ conn'[c].stored = conn[c].stored
                               /\ (conn[c].at = "publish" => c = d \/ conn'[c].at = "publish")
    BY SMTT(40), <1>4, <1>5, <2>1 DEF SameConn
  <3>. QED BY <1>1, <1>2, <1>6, <2>1, <2>3, <3>1, <3>2 DEF Knows
 <2>. QED BY SMTT(40), <2>2, <2>3
<1>11. CASE Admit(d)
 <2>1. /\ ~Store(d) /\ conn[d].at = "gate" /\ conn'[d].at = "check"
       /\ service'[q].inflight = sv.inflight \cup {d} /\ service'[q].inbox = sv.inbox /\ service'[q].seen = sv.seen
   BY <1>0, <1>11 DEF ConnNow, TablesNow
 <2>2. conn'[d].id = conn[d].id /\ conn'[d].stored = conn[d].stored /\ ~conn[d].stored
   BY <2>1, ServeConn DEF ConnInv
 <2>3. d \notin sv.inflight BY SMTT(40), <1>3, <2>1 DEF Busy
 <2>4. conn[d].id \notin sv.seen /\ (\A c \in sv.inflight : conn[c].id # conn[d].id) /\ op[q].at # "load"
   BY <1>11 DEF Admit, Admitted, Storing, PlaceInv, Empty
 <2>5. conn[d].id \notin forgotten => conn[d].id \notin Stored(s) BY <2>4 DEF Knows
 <2>6. \A c \in sv.inflight : conn'[c].id = conn[c].id /\ conn'[c].stored = conn[c].stored
                              /\ conn'[c].at = conn[c].at
   BY SMTT(40), <1>4, <2>3 DEF SameConn
 <2>. QED BY SMTT(40), <1>1, <1>2, <1>6, <2>1, <2>2, <2>5, <2>6 DEF Knows
<1>12. CASE Finish(d)
 <2>1. /\ ~Store(d) /\ conn[d].at = "finish"
       /\ service'[q].inflight = sv.inflight \ {d} /\ service'[q].inbox = sv.inbox
       /\ d \in sv.inflight /\ conn[d].stored => service'[q].seen = sv.seen \cup {conn[d].id}
       /\ ~(d \in sv.inflight /\ conn[d].stored) => service'[q].seen = sv.seen
   BY <1>0, <1>12 DEF ConnNow, TablesNow
 <2>2. \A c \in service'[q].inflight : conn'[c].id = conn[c].id /\ conn'[c].stored = conn[c].stored
                                       /\ conn'[c].at = conn[c].at
   BY <1>4, <2>1 DEF SameConn
 <2>3. d \in sv.inflight /\ conn[d].stored => conn[d].id \in Stored(s) BY <1>3
 <2>4. service'[q].inbox \cup service'[q].seen \subseteq Stored(s)' BY <1>6, <2>1, <2>3 DEF Knows
 <2>5. ASSUME op'[q].at # "load", NEW i \in Stored(s)' \ forgotten'
       PROVE  /\ i \in service'[q].inbox \/ \E c \in service'[q].inflight : conn'[c].id = i /\ conn'[c].at = "publish"
              /\ i \in service'[q].seen \/ \E c \in service'[q].inflight : conn'[c].id = i /\ conn'[c].stored
  <3>1. /\ i \in sv.inbox \/ \E c \in sv.inflight : conn[c].id = i /\ conn[c].at = "publish"
        /\ i \in sv.seen \/ \E c \in sv.inflight : conn[c].id = i /\ conn[c].stored
    BY <1>1, <1>6, <1>7, <2>1, <2>5 DEF Knows
  <3>. QED BY <2>1, <2>2, <3>1
 <2>. QED BY SMTT(40), <1>2, <1>6, <2>1, <2>2, <2>4, <2>5 DEF Knows
<1>13. CASE Store(d)
 <2>1. conn[d].at = "append" /\ conn[d].id \in Message /\ ~conn[d].stored /\ conn[d].session \in Session
   BY <1>0, <1>13, Numbers, RecordFields DEF ConnNow, ConnInv, Busy
 <2>2. service' = service BY <1>13 DEF Store
 <2>3. CASE conn'[d].at = "finish" /\ conn'[d].stored = conn[d].stored /\ inbound' = inbound
  <3>1. Stored(s)' = Stored(s) BY <2>3 DEF Stored
  <3>. QED BY <1>1, <1>2, <1>4, <1>5, <2>1, <2>2, <2>3, <3>1, KnowsKept DEF SameConn
 <2>4. CASE /\ conn'[d].at = "publish" /\ conn'[d].stored
            /\ inbound' = [inbound EXCEPT ![conn[d].session] = Append(@, conn[d].id)]
            /\ forgotten' = IF d \in sv.inflight THEN forgotten ELSE forgotten \cup {conn[d].id}
  <3>1. CASE conn[d].session # s
   <4>1. Stored(s)' = Stored(s) /\ d \notin sv.inflight
     BY <1>3, <2>4, <3>1, Types DEF Stored, RecordTypes
   <4>. QED BY <1>1, <1>2, <1>4, <2>2, <4>1, KnowsKept DEF SameConn
  <3>2. CASE conn[d].session = s
   <4>1. Stored(s)' = Stored(s) \cup {conn[d].id}
    <5>1. inbound'[s] = Append(inbound[s], conn[d].id) BY <2>4, <3>2, Types DEF RecordTypes
    <5>. QED BY ZenonT(40), <2>1, <5>1, StoredStep
   <4>2. service'[q].inbox \cup service'[q].seen \subseteq Stored(s)' BY <2>2, <4>1 DEF Knows
   <4>3. CASE d \in sv.inflight
    <5>1. \A c \in sv.inflight : c # d => conn[c].id # conn[d].id BY <4>3 DEF InflightInv
    <5>2. conn'[d].id = conn[d].id BY <1>5, <2>4, <4>3
    <5>3. \A c \in sv.inflight : conn'[c].id \notin forgotten' /\ ~conn'[c].stored => conn'[c].id \notin Stored(s)'
      BY <1>2, <1>4, <2>4, <4>1, <5>1 DEF Knows, SameConn
    <5>4. ASSUME op'[q].at # "load", NEW i \in Stored(s)' \ forgotten'
          PROVE  /\ i \in sv.inbox \/ \E c \in sv.inflight : conn'[c].id = i /\ conn'[c].at = "publish"
                 /\ i \in sv.seen \/ \E c \in sv.inflight : conn'[c].id = i /\ conn'[c].stored
     <6>1. CASE i = conn[d].id BY <2>4, <4>3, <5>2, <6>1
     <6>2. CASE i # conn[d].id
      <7>1. /\ i \in sv.inbox \/ \E c \in sv.inflight : conn[c].id = i /\ conn[c].at = "publish"
            /\ i \in sv.seen \/ \E c \in sv.inflight : conn[c].id = i /\ conn[c].stored
        BY <1>1, <1>2, <4>1, <5>4, <6>2 DEF Knows
      <7>. QED BY <1>4, <6>2, <7>1 DEF SameConn
     <6>. QED BY <6>1, <6>2
    <5>. QED BY <2>2, <4>2, <5>3, <5>4 DEF Knows
   <4>4. CASE d \notin sv.inflight
    <5>1. \A c \in sv.inflight : conn'[c].id = conn[c].id /\ conn'[c].stored = conn[c].stored /\ conn'[c].at = conn[c].at
      BY <1>4, <4>4 DEF SameConn
    <5>2. forgotten' = forgotten \cup {conn[d].id} BY <2>4, <4>4
    <5>. QED BY <1>1, <2>2, <4>1, <4>2, <5>1, <5>2 DEF Knows
   <4>. QED BY SMTT(40), <4>3, <4>4
  <3>. QED BY <3>1, <3>2
 <2>. QED BY <1>0, <1>13, <2>3, <2>4 DEF ConnNow
<1>. QED BY <1>8, <1>9, <1>10, <1>11, <1>12, <1>13 DEF Serve

\* The tables of a service have what its session stores.
LEMMA Memory ==
    ASSUME TypeOK, CountInv, PlaceInv, ConnInv, InflightInv, InboundInv, MemoryInv, DeliveredInv, ReplyInv,
           [Next]_vars
    PROVE  MemoryInv'
<1>0. /\ \A p \in Process, s \in Session : service[p].session = s => Knows(p, s)
      /\ \A p \in Process : service[p].inflight \subseteq Connection /\ \A c \in service[p].inflight : conn[c].at \in Busy
  BY Types, Parameters DEF MemoryInv, Knows, InflightInv, ServiceType, ServiceT
<1>1. SUFFICES ASSUME NEW q \in Process, NEW s \in Session, service'[q].session = s
      PROVE  Knows(q, s)'
 <2>1. service' \in [Process -> ServiceT] BY TypesKept DEF TypeOK, ServiceT
 <2>2. \A p \in Process : service'[p].session # None => service'[p].session \in Session
   BY <2>1 DEF ServiceT
 <2>. QED BY <1>1, <2>2 DEF MemoryInv, Knows
<1>2. forgotten \subseteq forgotten' BY Forgotten DEF ForgottenStep
<1>3. ASSUME service'[q].session = service[q].session, SameTables(q), op'[q].at # "load" => op[q].at # "load",
             Stored(s)' = Stored(s), \A c \in Connection : conn[c].at \in Busy /\ c \in service[q].inflight => SameConn(c)
      PROVE  Knows(q, s)'
  BY <1>0, <1>1, <1>2, <1>3, KnowsKept DEF SameTables, SameConn
<1>4. inbound' = inbound => Stored(s)' = Stored(s) BY DEF Stored
<1>5. service'[q] = service[q] => SameTables(q) BY DEF SameTables
<1>6. CASE UNCHANGED vars BY <1>3, <1>4, <1>5, <1>6 DEF vars, durable, SameConn
<1>7. ASSUME NEW d \in Connection, Serve(d)
      PROVE  Knows(q, s)'
 <2>0. service'[q].session = service[q].session BY <1>7, ServeFrame
 <2>1. CASE q = conn[d].process BY <1>0, <1>1, <1>7, <2>0, <2>1, KnowsServing
 <2>2. CASE q # conn[d].process
  <3>1. service'[q] = service[q] /\ (op'[q].at # "load" => op[q].at # "load")
    BY <1>7, <2>2, ServeFrame, ServeOp
  <3>2. d \notin service[q].inflight BY <2>2 DEF InflightInv
  <3>3. inbound'[s] = inbound[s]
   <4>1. CASE Store(d)
    <5>1. conn[d].session # s
      BY SMTT(40), <1>1, <2>0, <2>2, <4>1, Parameters DEF PlaceInv, ConnInv, Store, Busy
    <5>. QED BY <4>1, <5>1, Types DEF Store, RecordTypes
   <4>2. CASE ~Store(d)
     BY Zenon, <1>7, <4>2 DEF Serve, Reject, Duplicate, Wait, WaitCanceled, Admit, Check, Publish, Wake, Finish, durable
   <4>. QED BY <4>1, <4>2
  <3>4. \A c \in Connection : conn[c].at \in Busy /\ c \in service[q].inflight => SameConn(c)
    BY <1>7, <3>2, ServeConn DEF Busy
  <3>. QED BY <1>3, <1>5, <2>0, <3>1, <3>3, <3>4 DEF Stored
 <2>. QED BY <2>1, <2>2
<1>8. ASSUME NEW p \in Process, Crash(p)
      PROVE  Knows(q, s)'
 <2>1. service' = [service EXCEPT ![p] = NoService] /\ inbound' = inbound BY <1>8 DEF Crash, durable
 <2>2. q # p BY <1>1, <2>1, Blank, Types, Parameters DEF ServiceType
 <2>3. service'[q] = service[q] BY <2>1, <2>2, Types DEF ServiceType
 <2>4. \A c \in service[q].inflight : SameConn(c)
   BY <1>0, <1>8, <2>2, CrashConn DEF InflightInv, SameConn
 <2>5. op'[q].at # "load" => op[q].at # "load" BY <1>8, <2>2, CrashConn
 <2>. QED BY <1>3, <1>4, <1>5, <2>1, <2>3, <2>4, <2>5
<1>9. ASSUME NEW p \in Process, Operate(p) \/ Switch(p) \/ Restart(p)
      PROVE  Knows(q, s)'
 <2>0. \A c \in Connection : conn[c].at \in Busy /\ c \in service[q].inflight => SameConn(c)
  <3>1. CASE Dial(p) BY <3>1, DialConn DEF Busy, SameConn
  <3>2. CASE ~Dial(p) BY <1>9, <3>2, ConnStep
  <3>. QED BY <3>1, <3>2
 <2>1. inbound' = inbound
  <3>1. CASE Send(p) \/ Reply(p) \/ Retry(p) \/ Enable(p) \/ Disable(p)
    BY <3>1 DEF Send, Reply, Retry, Enable, Disable, Starts, durable
  <3>2. CASE RecordFails(p) \/ TimesOut(p) \/ Dial(p) \/ SaveOn(p) \/ SaveOffFails(p) \/ SetWake(p)
    BY <3>2 DEF RecordFails, TimesOut, Dial, SaveOn, SaveOffFails, SetWake, durable
  <3>3. CASE SaveOnFails(p) \/ SaveOff(p) \/ StartSession(p) \/ Record(p) \/ Confirm(p) \/ Switch(p) \/ Restart(p)
    BY <3>3 DEF SaveOnFails, SaveOff, StartSession, Record, Confirm, Switch, Restart, durable
  <3>4. CASE Load(p) \/ LoadFails(p) \/ Open(p) BY <3>4 DEF Load, LoadFails, Open, durable
  <3>. QED BY <1>9, <3>1, <3>2, <3>3, <3>4 DEF Operate
 <2>2. CASE q # p
  <3>1. service'[q] = service[q] /\ op'[q] = op[q] BY <1>9, <2>2, Others
  <3>. QED BY <1>3, <1>4, <1>5, <2>0, <2>1, <3>1
 <2>3. CASE q = p
  <3>0. OpNow(q) /\ ServiceNow(q) BY OpNext, ServiceNext
  <3>1. ASSUME SameTables(q), op[q].at # "load"
        PROVE  Knows(q, s)'
    BY <1>3, <1>4, <2>0, <2>1, <3>1 DEF SameTables
  <3>2. CASE Send(q) \/ Reply(q) \/ Retry(q) \/ RecordFails(q) \/ Dial(q) \/ TimesOut(q) \/ Confirm(q)
   <4>1. op[q].at # "load" BY <3>0, <3>2 DEF OpNow
   <4>2. service' = service BY <3>0, <3>2 DEF ServiceNow
   <4>. QED BY <1>5, <3>1, <4>1, <4>2
  <3>3. CASE Enable(q) \/ SaveOn(q) \/ SaveOnFails(q) \/ Disable(q) \/ SaveOff(q) \/ SaveOffFails(q) \/ SetWake(q) \/ Open(q)
   <4>1. op[q].at # "load" BY <3>0, <3>3 DEF OpNow
   <4>2. SameTables(q) BY <3>0, <3>3 DEF ServiceNow
   <4>. QED BY <3>1, <4>1, <4>2
  <3>4. CASE Record(q)
   <4>1. /\ op[q].at # "load" /\ service'[q].inbox = service[q].inbox /\ service'[q].seen = service[q].seen
         /\ service'[q].inflight = service[q].inflight /\ service'[q].session = service[q].session
     BY <3>0, <3>4 DEF OpNow, ServiceNow
   <4>. QED BY <1>0, <1>1, <1>2, <1>4, <2>0, <2>1, <4>1, KnowsKept DEF SameConn
  <3>5. CASE StartSession(q)
   <4>1. Empty(service'[q]) /\ op'[q].at = "load" BY <3>0, <3>5 DEF OpNow, ServiceNow
   <4>. QED BY <4>1 DEF Knows, Empty
  <3>6. CASE Load(q) \/ LoadFails(q)
   <4>0. op[q].at = "load" /\ Empty(service[q]) BY <3>6 DEF Load, LoadFails, PlaceInv
   <4>1. CASE service' = service /\ Unread(q)
    <5>1. Stored(s) \subseteq forgotten' BY <1>1, <4>1 DEF Unread, InboundInv, Stored, Range
    <5>. QED BY <1>4, <2>1, <4>0, <4>1, <5>1 DEF Knows, Empty
   <4>2. CASE Load(q) /\ change[q] = None
    <5>1. /\ service'[q].session = service[q].session /\ service'[q].inflight = {}
          /\ service'[q].inbox = Stored(service[q].session) /\ service'[q].seen = Stored(service[q].session)
      BY <3>0, <4>0, <4>2 DEF ServiceNow, Empty
    <5>. QED BY <1>1, <1>4, <2>1, <5>1 DEF Knows
   <4>. QED BY <3>0, <3>6, <4>1, <4>2 DEF ServiceNow, Load, LoadFails
  <3>7. CASE Switch(q) \/ Restart(q) BY <1>3, <1>4, <1>5, <2>0, <2>1, <3>7 DEF Switch, Restart
  <3>. QED BY <1>9, <2>3, <3>2, <3>3, <3>4, <3>5, <3>6, <3>7 DEF Operate
 <2>. QED BY <2>2, <2>3
<1>. QED BY <1>6, <1>7, <1>8, <1>9 DEF Next, Quiet

\* A message wakes an agent once.
LEMMA Awoken ==
    ASSUME TypeOK, CountInv, PlaceInv, ConnInv, InflightInv, MemoryInv, WokenInv, DeliveredInv, ReplyInv, [Next]_vars
    PROVE  WokenInv'
<1>0. /\ forgotten \subseteq forgotten' /\ woken \in [Message -> Nat]
      /\ \A i \in DOMAIN outbound : i \in DOMAIN outbound' /\ outbound'[i].to = outbound[i].to /\ outbound[i].to \in Session
      /\ \A s \in Session : Stored(s) \subseteq Stored(s)'
  BY Forgotten, Outbound, StoredGrows, RecordFields, Types DEF ForgottenStep, OutboundStep, GhostTypes
<1>1. ASSUME woken' = woken
      PROVE  \A i \in Message \ forgotten' : /\ woken'[i] <= 1
                                             /\ woken'[i] > 0 => i \in DOMAIN outbound' /\ i \in (Stored(outbound[i].to))'
 <2>1. SUFFICES ASSUME NEW i \in Message \ forgotten'
       PROVE  woken'[i] <= 1 /\ (woken'[i] > 0 => i \in DOMAIN outbound' /\ i \in (Stored(outbound[i].to))')
   OBVIOUS
 <2>2. woken[i] <= 1 /\ (woken[i] > 0 => i \in DOMAIN outbound /\ i \in Stored(outbound[i].to))
   BY <1>0, <2>1 DEF WokenInv
 <2>3. i \in DOMAIN outbound => Stored(outbound[i].to) \subseteq (Stored(outbound[i].to))'
  <3>1. \A s \in Session : s = outbound'[i].to => Stored(s)' = (Stored(outbound[i].to))'
    BY DEF Stored
  <3>. QED BY <1>0, <3>1
 <2>. QED BY <1>0, <1>1, <2>2, <2>3
<1>2. ASSUME woken' = woken,
             \A c \in Connection : conn'[c].at \in {"publish", "wake"} =>
                 conn[c].at \in {"publish", "wake"} /\ conn'[c].id = conn[c].id
      PROVE  WokenInv'
  BY <1>0, <1>1, <1>2 DEF WokenInv, Waking
<1>3. CASE UNCHANGED vars BY <1>2, <1>3 DEF vars
<1>4. ASSUME NEW p \in Process, Operate(p) \/ Switch(p) \/ Restart(p)
      PROVE  WokenInv'
 <2>1. woken' = woken
  <3>1. CASE Send(p) \/ Reply(p) \/ Retry(p) \/ Enable(p) \/ Disable(p)
    BY <3>1 DEF Send, Reply, Retry, Enable, Disable, Starts
  <3>2. CASE RecordFails(p) \/ TimesOut(p) \/ Dial(p) \/ SaveOn(p) \/ SaveOffFails(p) \/ SetWake(p)
    BY <3>2 DEF RecordFails, TimesOut, Dial, SaveOn, SaveOffFails, SetWake
  <3>3. CASE SaveOnFails(p) \/ SaveOff(p) \/ StartSession(p) \/ Record(p) \/ Confirm(p) \/ Switch(p) \/ Restart(p)
    BY <3>3 DEF SaveOnFails, SaveOff, StartSession, Record, Confirm, Switch, Restart
  <3>4. CASE Load(p) \/ LoadFails(p) \/ Open(p) BY <3>4 DEF Load, LoadFails, Open
  <3>. QED BY SMTT(40), <1>4, <3>1, <3>2, <3>3, <3>4 DEF Operate
 <2>2. CASE Dial(p)
  <3>1. \A c \in Connection : conn'[c].at \in {"publish", "wake"} =>
            conn[c].at \in {"publish", "wake"} /\ conn'[c].id = conn[c].id
    BY <2>2, DialConn
  <3>. QED BY <1>2, <2>1, <3>1
 <2>3. CASE ~Dial(p) BY <1>2, <1>4, <2>1, <2>3, ConnStep DEF SameConn
 <2>. QED BY <2>2, <2>3
<1>5. ASSUME NEW p \in Process, Crash(p)
      PROVE  WokenInv'
 <2>1. woken' = woken BY <1>5 DEF Crash
 <2>2. \A c \in Connection : conn'[c].at \in {"publish", "wake"} =>
           conn[c].at \in {"publish", "wake"} /\ conn'[c].id = conn[c].id
   BY <1>5, CrashConn
 <2>. QED BY <1>2, <2>1, <2>2
<1>6. ASSUME NEW d \in Connection, Serve(d)
      PROVE  WokenInv'
 <2>0. ConnNow(d) BY ConnNext
 <2>1. \A c \in Connection \ {d} : conn'[c].at \in {"publish", "wake"} =>
           conn[c].at \in {"publish", "wake"} /\ conn'[c].id = conn[c].id
   BY <1>6, ServeConn DEF SameConn
 <2>2. conn'[d].at # "free" => conn'[d].id = conn[d].id BY <1>6, ServeConn
 <2>3. CASE Reject(d) \/ Duplicate(d) \/ Wait(d) \/ WaitCanceled(d) \/ Admit(d) \/ Check(d) \/ Publish(d) \/ Finish(d)
  <3>1. woken' = woken
    BY <2>3 DEF Reject, Duplicate, Wait, WaitCanceled, Admit, Check, Publish, Finish
  <3>2. conn'[d].at \in {"publish", "wake"} => conn[d].at \in {"publish", "wake"}
    BY <2>0, <2>3 DEF ConnNow
  <3>. QED BY SMTT(40), <1>2, <2>1, <2>2, <3>1, <3>2
 <2>4. CASE Store(d)
  <3>1. woken' = woken /\ conn[d].at = "append" /\ conn'[d].at # "free"
    BY <2>0, <2>4 DEF Store, ConnNow
  <3>2. /\ conn[d].process \in Process /\ conn[d].id \in DOMAIN outbound /\ conn[d].id \in Message
        /\ conn[d].session = outbound[conn[d].id].to /\ ~conn[d].stored
    BY <3>1, Numbers DEF ConnInv, Busy
  <3>3. CASE conn'[d].at = "finish" BY <1>2, <2>1, <2>2, <3>1, <3>3
  <3>4. CASE /\ conn'[d].at = "publish"
             /\ forgotten' = IF d \in service[conn[d].process].inflight THEN forgotten ELSE forgotten \cup {conn[d].id}
   <4>1. conn[d].id \notin forgotten' =>
             conn[d].id \notin forgotten /\ conn[d].id \notin Stored(outbound[conn[d].id].to)
    <5>1. SUFFICES ASSUME conn[d].id \notin forgotten'
          PROVE  conn[d].id \notin forgotten /\ conn[d].id \notin Stored(outbound[conn[d].id].to)
      OBVIOUS
    <5>2. d \in service[conn[d].process].inflight /\ conn[d].id \notin forgotten BY <3>4, <5>1
    <5>3. service[conn[d].process].session = outbound[conn[d].id].to BY <3>2, <5>2 DEF InflightInv
    <5>4. service[conn[d].process].session # None BY <1>0, <3>2, <5>3, Parameters
    <5>. QED BY <3>2, <5>2, <5>3, <5>4 DEF MemoryInv
   <4>2. conn[d].id \notin forgotten' => woken[conn[d].id] = 0 BY <1>0, <3>2, <4>1 DEF WokenInv
   <4>3. ASSUME NEW c \in Connection, c # d, Waking(c)'
         PROVE  Waking(c) /\ conn'[c].id = conn[c].id /\ conn[c].id # conn[d].id
    <5>1. Waking(c) /\ conn'[c].id = conn[c].id /\ conn[c].id \notin forgotten'
      BY <1>0, <2>1, <4>3 DEF Waking
    <5>2. conn[c].id \in Stored(outbound[conn[c].id].to) BY <5>1 DEF ConnInv, Waking, Busy
    <5>. QED BY <4>1, <5>1, <5>2
   <4>4. \A c \in Connection : Waking(c)' => woken'[conn'[c].id] = 0
     BY <2>2, <3>1, <4>2, <4>3 DEF WokenInv, Waking
   <4>5. ASSUME NEW c \in Connection, NEW e \in Connection, Waking(c)', Waking(e)', conn'[c].id = conn'[e].id
         PROVE  c = e
     BY <2>2, <3>1, <4>3, <4>5 DEF WokenInv
   <4>. QED BY <1>1, <3>1, <4>4, <4>5 DEF WokenInv
  <3>. QED BY <2>0, <2>4, <3>3, <3>4 DEF ConnNow
 <2>5. CASE Wake(d)
  <3>1. /\ forgotten' = forgotten /\ outbound' = outbound /\ inbound' = inbound
        /\ conn[d].at = "wake" /\ conn'[d].at = "finish"
    BY <2>0, <2>5 DEF Wake, durable, ConnNow
  <3>2. conn[d].id \in Message /\ conn[d].id \in DOMAIN outbound /\ conn[d].id \in Stored(outbound[conn[d].id].to)
    BY <3>1, Numbers DEF ConnInv, Busy
  <3>3. \/ woken' = woken
        \/ woken' = [woken EXCEPT ![conn[d].id] = @ + 1]
    BY <2>5 DEF Wake
  <3>4. conn[d].id \notin forgotten => woken[conn[d].id] = 0 BY <3>1 DEF WokenInv, Waking
  <3>5. \A i \in Message \ forgotten : /\ woken'[i] <= 1
                                       /\ woken'[i] > 0 => i \in DOMAIN outbound /\ i \in Stored(outbound[i].to)
    BY <1>0, <3>2, <3>3, <3>4 DEF WokenInv
  <3>6. \A c \in Connection : Waking(c)' => Waking(c) /\ c # d /\ conn'[c].id = conn[c].id
    BY <2>1, <3>1 DEF Waking
  <3>7. \A c \in Connection : Waking(c)' => conn[c].id # conn[d].id
    BY <3>1, <3>6 DEF WokenInv, Waking
  <3>8. \A c \in Connection : Waking(c)' => woken'[conn'[c].id] = 0
   <4>1. \A c \in Connection : Waking(c) => conn[c].id \in Message /\ woken[conn[c].id] = 0
     BY Numbers DEF WokenInv, ConnInv, Waking
   <4>. QED BY <1>0, <3>3, <3>6, <3>7, <4>1
  <3>9. \A c, e \in Connection : Waking(c)' /\ Waking(e)' /\ conn'[c].id = conn'[e].id => c = e
    BY <3>6 DEF WokenInv
  <3>. QED BY <3>1, <3>5, <3>8, <3>9 DEF WokenInv, Stored
 <2>. QED BY <1>6, <2>3, <2>4, <2>5 DEF Serve
<1>. QED BY <1>3, <1>4, <1>5, <1>6 DEF Next, Quiet

\* The part of DeliveredInv about the operation of a process.
Awaits(p) ==
    /\ op[p].at \in {"dial", "answer", "confirm"} => op[p].id \in DOMAIN outbound
    /\ op[p].at = "confirm" => op[p].id \in Stored(outbound[op[p].id].to)
    /\ op[p].at = "answer" =>
          op[p].call \in Connection /\ conn[op[p].call].at # "free" /\ conn[op[p].call].id = op[p].id

\* A sender is told of a delivery after the message is stored.
LEMMA Delivered ==
    ASSUME TypeOK, CountInv, PlaceInv, ConnInv, InflightInv, MemoryInv, DeliveredInv, ReplyInv, [Next]_vars
    PROVE  DeliveredInv'
<1>0. /\ OutboundStep
      /\ \A i \in DOMAIN outbound : i \in DOMAIN outbound' /\ outbound'[i].to = outbound[i].to /\ outbound[i].to \in Session
      /\ \A s \in Session : Stored(s) \subseteq Stored(s)'
      /\ \A p \in Process : Awaits(p)
  BY Outbound, StoredGrows, RecordFields DEF OutboundStep, DeliveredInv, Awaits
<1>1. \A i \in DOMAIN outbound, s \in Session : s = outbound[i].to /\ i \in Stored(s) => i \in (Stored(outbound[i].to))'
  BY <1>0 DEF Stored
<1>2. \A i \in DOMAIN outbound' : outbound'[i].delivered => i \in (Stored(outbound[i].to))'
 <2>1. SUFFICES ASSUME NEW i \in DOMAIN outbound', outbound'[i].delivered
       PROVE  i \in (Stored(outbound[i].to))'
   OBVIOUS
 <2>2. CASE i \in DOMAIN outbound
  <3>1. outbound[i].delivered \/ \E p \in Process : op[p].at = "confirm" /\ op[p].id = i
    BY <1>0, <2>1, <2>2 DEF OutboundStep
  <3>2. i \in Stored(outbound[i].to) BY <2>2, <3>1 DEF DeliveredInv
  <3>. QED BY <1>0, <1>1, <2>2, <3>2
 <2>3. CASE i \notin DOMAIN outbound
  <3>1. PICK p \in Process : /\ i = Len(outbound) + 1
                             /\ outbound'[Len(outbound) + 1] = [from |-> service[p].session, to |-> op[p].to,
                                                                replyTo |-> op[p].replyTo, delivered |-> FALSE]
    BY <1>0, <2>1, <2>3 DEF OutboundStep
  <3>2. outbound'[i].delivered = FALSE BY <3>1
  <3>. QED BY <2>1, <3>2
 <2>. QED BY <2>2, <2>3
<1>3. SUFFICES ASSUME NEW q \in Process
      PROVE  Awaits(q)'
  BY <1>2 DEF DeliveredInv, Awaits
<1>4. ASSUME op'[q] = op[q],
             op[q].at = "answer" => conn'[op[q].call].at # "free" /\ conn'[op[q].call].id = conn[op[q].call].id
      PROVE  Awaits(q)'
 <2>1. op[q].at = "confirm" => op[q].id \in (Stored(outbound[op[q].id].to))'
  <3>1. \A i \in DOMAIN outbound : i = op[q].id /\ op[q].at = "confirm" => i \in (Stored(outbound[i].to))'
    BY <1>0, <1>1 DEF Awaits
  <3>2. op[q].at = "confirm" => op[q].id \in DOMAIN outbound BY <1>0 DEF Awaits
  <3>. QED BY <1>4, <3>1, <3>2
 <2>. QED BY <1>0, <1>4, <2>1 DEF Awaits
<1>5. ASSUME op[q].at = "answer" \/ op[q].at = "dial", op'[q].at \in {"dial", "idle"}, op'[q].at # "idle" => op'[q].id = op[q].id
      PROVE  Awaits(q)'
  BY <1>0, <1>5 DEF Awaits
<1>6. ASSUME op'[q].at \notin {"dial", "answer", "confirm"}
      PROVE  Awaits(q)'
  BY <1>6 DEF Awaits
<1>7. CASE UNCHANGED vars BY <1>0, <1>4, <1>7 DEF vars, Awaits
<1>8. ASSUME NEW c \in Connection, Serve(c)
      PROVE  Awaits(q)'
 <2>1. \A d \in Connection \ {c} : conn[d].at # "free" => conn'[d].at # "free" /\ conn'[d].id = conn[d].id
   BY <1>8, ServeConn DEF SameConn
 <2>2. ConnNow(c) BY ConnNext
 <2>3. CASE op'[q] = op[q] /\ ~(op[q].at = "answer" /\ op[q].call = c)
   BY <1>0, <1>4, <2>1, <2>3 DEF Awaits
 <2>4. CASE op'[q] = op[q] /\ op[q].at = "answer" /\ op[q].call = c
  <3>1. Wait(c) \/ Admit(c) \/ Check(c) \/ Store(c) \/ Publish(c) \/ Wake(c) BY <1>8, <2>4, ServeOp
  <3>2. conn'[c].at # "free" BY <2>2, <3>1 DEF ConnNow
  <3>3. conn'[c].id = conn[c].id BY <1>8, <3>2, ServeConn
  <3>. QED BY <1>4, <2>4, <3>2, <3>3
 <2>5. CASE /\ op[q].at = "answer" /\ op[q].call = c
            /\ op'[q].at \in {"dial", "idle", "confirm"}
            /\ op'[q].at # "idle" => op'[q].id = op[q].id
            /\ op'[q].at = "confirm" => Duplicate(c) \/ (Finish(c) /\ conn[c].stored)
  <3>1. CASE op'[q].at \in {"dial", "idle"} BY <1>5, <2>5, <3>1
  <3>2. CASE op'[q].at = "confirm"
   <4>0. conn[c].id = op[q].id /\ op'[q].id = op[q].id /\ op[q].id \in DOMAIN outbound
     BY <1>0, <2>5, <3>2 DEF Awaits
   <4>1. conn[c].process \in Process /\ conn[c].id \in DOMAIN outbound
     BY <1>8, ServeFrame DEF ConnInv
   <4>2. CASE Duplicate(c)
    <5>1. /\ service[conn[c].process].session = outbound[conn[c].id].to
          /\ conn[c].id \in service[conn[c].process].seen
      BY <4>2 DEF Duplicate, Admitted
    <5>2. service[conn[c].process].session # None BY <1>0, <4>1, <5>1, Parameters
    <5>3. conn[c].id \in Stored(outbound[conn[c].id].to) BY <4>1, <5>1, <5>2 DEF MemoryInv
    <5>. QED BY <1>0, <1>1, <3>2, <4>0, <5>3 DEF Awaits
   <4>3. CASE Finish(c) /\ conn[c].stored
    <5>1. conn[c].at = "finish" BY <4>3 DEF Finish
    <5>2. conn[c].id \in Stored(outbound[conn[c].id].to) BY <4>3, <5>1 DEF ConnInv, Busy
    <5>. QED BY <1>0, <1>1, <3>2, <4>0, <5>2 DEF Awaits
   <4>. QED BY <2>5, <3>2, <4>2, <4>3
  <3>. QED BY <2>5, <3>1, <3>2
 <2>. QED BY <1>8, <2>3, <2>4, <2>5, ServeOp
<1>9. ASSUME NEW p \in Process, Crash(p)
      PROVE  Awaits(q)'
 <2>1. CASE q = p BY <1>6, <1>9, <2>1, CrashConn, Blank
 <2>2. CASE q # p /\ op'[q] = op[q] /\ ~(op[q].at = "answer" /\ conn[op[q].call].process = p)
   BY <1>0, <1>4, <1>9, <2>2, CrashConn DEF Awaits
 <2>3. CASE op[q].at = "answer" /\ op'[q].at \in {"dial", "idle"} /\ (op'[q].at = "dial" => op'[q].id = op[q].id)
   BY <1>5, <2>3
 <2>. QED BY <1>9, <2>1, <2>2, <2>3, CrashConn
<1>10. ASSUME NEW p \in Process, Operate(p) \/ Switch(p) \/ Restart(p)
       PROVE  Awaits(q)'
 <2>0. \A c \in Connection : conn[c].at # "free" => SameConn(c)
  <3>1. CASE Dial(p) BY <3>1, DialConn DEF SameConn
  <3>2. CASE ~Dial(p) BY <1>10, <3>2, ConnStep
  <3>. QED BY <3>1, <3>2
 <2>1. CASE op'[q] = op[q] BY <1>0, <1>4, <2>0, <2>1 DEF Awaits, SameConn
 <2>2. CASE q # p BY <1>10, <2>1, <2>2, Others
 <2>3. CASE q = p
  <3>0. OpNow(q) BY OpNext
  <3>1. CASE Switch(q) \/ Restart(q) \/ SetWake(q) BY <2>1, <3>1 DEF Switch, Restart, SetWake
  <3>2. CASE Send(q) \/ Reply(q) \/ Enable(q) \/ Disable(q) \/ StartSession(q) \/ Load(q) \/ LoadFails(q) \/ Open(q)
    BY <1>6, <3>0, <3>2 DEF OpNow
  <3>3. CASE RecordFails(q) \/ Confirm(q) \/ SaveOn(q) \/ SaveOnFails(q) \/ SaveOff(q) \/ SaveOffFails(q)
    BY <1>6, <3>0, <3>3 DEF OpNow
  <3>4. CASE Retry(q)
   <4>1. op'[q].at = "dial" /\ op'[q].id \in DOMAIN outbound BY <3>0, <3>4 DEF OpNow, ReplyInv
   <4>. QED BY <1>0, <4>1 DEF Awaits
  <3>5. CASE Record(q)
   <4>1. op'[q].at = "dial" /\ op'[q].id = Len(outbound) + 1 BY <3>0, <3>5 DEF OpNow
   <4>2. Len(outbound) + 1 \in DOMAIN outbound'
     BY <3>5, Recorded, Types DEF OutboundStep, Record, RecordTypes
   <4>. QED BY <4>1, <4>2 DEF Awaits
  <3>6. CASE TimesOut(q) BY <1>5, <3>0, <3>6 DEF OpNow
  <3>7. CASE Dial(q)
   <4>1. op[q].at = "dial" /\ op'[q].at \in {"answer", "dial", "idle"} /\ (op'[q].at # "idle" => op'[q].id = op[q].id)
     BY <3>0, <3>7 DEF OpNow
   <4>2. CASE op'[q].at # "answer" BY <1>5, <4>1, <4>2
   <4>3. CASE op'[q].at = "answer"
    <5>1. op' # [op EXCEPT ![q] = Again(@)] BY <4>3, AgainType, Types DEF OpType
    <5>2. PICK c \in Connection : /\ op' = [op EXCEPT ![q].at = "answer", ![q].call = c]
                                  /\ conn'[c].at = "gate" /\ conn'[c].id = op[q].id
      BY <3>7, <5>1, DialConn
    <5>3. op'[q].call = c BY <5>2, Types DEF OpType, OpT
    <5>. QED BY <1>0, <4>1, <4>3, <5>2, <5>3 DEF Awaits
   <4>. QED BY <4>2, <4>3
  <3>. QED BY <1>10, <2>3, <3>1, <3>2, <3>3, <3>4, <3>5, <3>6, <3>7 DEF Operate
 <2>. QED BY <2>2, <2>3
<1>. QED BY <1>7, <1>8, <1>9, <1>10 DEF Next, Quiet

\* The part of ReplyInv about the messages.
Threads ==
    /\ \A j \in DOMAIN outbound :
          outbound[j].replyTo # 0 =>
              /\ outbound[j].replyTo \in DOMAIN outbound
              /\ outbound[outbound[j].replyTo].replyTo = 0
              /\ outbound[outbound[j].replyTo].to = outbound[j].from
    /\ \A i, j \in DOMAIN outbound :
          outbound[i].replyTo # 0 /\ outbound[i].replyTo = outbound[j].replyTo =>
              i = j \/ outbound[i].replyTo \in forgotten

\* The reply a process is about to record.
Replying(p) ==
    op[p].at = "record" /\ op[p].replyTo # 0 =>
        /\ op[p].replyTo \in DOMAIN outbound
        /\ outbound[op[p].replyTo].replyTo = 0
        /\ outbound[op[p].replyTo].to = service[p].session
        /\ \A j \in DOMAIN outbound : outbound[j].replyTo = op[p].replyTo => op[p].replyTo \in forgotten

\* The replies a process knows of.
Knowing(p) ==
    /\ service[p].outbox \subseteq DOMAIN outbound
    /\ service[p].session # None /\ op[p].at # "load" =>
          \A j \in DOMAIN outbound :
              outbound[j].from = service[p].session /\ outbound[j].replyTo \notin {0} \cup forgotten =>
                  j \in service[p].outbox

\* ReplyInv from its parts.
LEMMA ReplyParts ==
    ReplyInv <=> /\ Threads
                 /\ \A p \in Process : /\ Replying(p) /\ Knowing(p)
                                       /\ op[p].at = "record" => op[p].to \in Session
  BY DEF ReplyInv, Threads, Replying, Knowing

\* A recorded reply is the only one to its message.
LEMMA RepliesRecorded ==
    ASSUME TypeOK, CountInv, PlaceInv, ConnInv, DeliveredInv, ReplyInv, NEW p \in Process, Record(p)
    PROVE  Threads' /\ \A q \in Process : Replying(q)' /\ Knowing(q)'
<1> DEFINE n == Len(outbound) + 1
<1>0. Threads /\ \A q \in Process : Replying(q) /\ Knowing(q) BY ReplyParts
<1>1. /\ \A i \in DOMAIN outbound : /\ i \in DOMAIN outbound' /\ outbound'[i].from = outbound[i].from
                                    /\ outbound'[i].to = outbound[i].to /\ outbound'[i].replyTo = outbound[i].replyTo
      /\ DOMAIN outbound' = DOMAIN outbound \cup {n} /\ n \notin DOMAIN outbound
      /\ outbound'[n].from = service[p].session /\ outbound'[n].to = op[p].to /\ outbound'[n].replyTo = op[p].replyTo
 <2> DEFINE m == [from |-> service[p].session, to |-> op[p].to, replyTo |-> op[p].replyTo, delivered |-> FALSE]
 <2>1. outbound \in Seq(TextT) /\ outbound' = Append(outbound, m) BY Types DEF Record, RecordTypes
 <2>2. outbound'[n] = m BY <2>1
 <2>3. DOMAIN outbound' = DOMAIN outbound \cup {n} /\ n \notin DOMAIN outbound
       /\ \A i \in DOMAIN outbound : outbound'[i] = outbound[i]
   BY SMTT(40), <2>1
 <2>. QED BY <2>2, <2>3
<1> HIDE DEF n
<1>2. /\ op[p].at = "record" /\ op'[p].at = "dial" /\ forgotten' = forgotten
      /\ service'[p].outbox = service[p].outbox \cup {n} /\ service'[p].session = service[p].session
      /\ service[p].session # None /\ Opens(service[p].session) = p
  BY OpNext, ServiceNext DEF OpNow, ServiceNow, Record, PlaceInv, n
<1>3. \A q \in Process \ {p} : op'[q] = op[q] /\ service'[q] = service[q] /\ service[q].session # service[p].session
 <2>1. \A q \in Process \ {p} : op'[q] = op[q] /\ service'[q] = service[q] BY Others DEF Operate
 <2>. QED BY <1>2, <2>1 DEF PlaceInv
<1>4. op[p].replyTo # 0 =>
        /\ op[p].replyTo \in DOMAIN outbound
        /\ outbound[op[p].replyTo].replyTo = 0
        /\ outbound[op[p].replyTo].to = service[p].session
        /\ \A j \in DOMAIN outbound : outbound[j].replyTo = op[p].replyTo => op[p].replyTo \in forgotten
  BY <1>0, <1>2 DEF Replying
<1>5. Threads'
 <2>1. ASSUME NEW j \in DOMAIN outbound', outbound'[j].replyTo # 0
       PROVE  /\ outbound'[j].replyTo \in DOMAIN outbound
              /\ outbound'[outbound'[j].replyTo].replyTo = 0
              /\ outbound'[outbound'[j].replyTo].to = outbound'[j].from
  <3>1. CASE j = n BY <1>1, <1>4, <2>1, <3>1
  <3>2. CASE j \in DOMAIN outbound BY <1>0, <1>1, <2>1, <3>2 DEF Threads
  <3>. QED BY <1>1, <3>1, <3>2
 <2>2. ASSUME NEW i \in DOMAIN outbound', NEW j \in DOMAIN outbound',
              outbound'[i].replyTo # 0, outbound'[i].replyTo = outbound'[j].replyTo
       PROVE  i = j \/ outbound'[i].replyTo \in forgotten
  <3>1. CASE i \in DOMAIN outbound /\ j \in DOMAIN outbound BY <1>0, <1>1, <2>2, <3>1 DEF Threads
  <3>2. CASE i = n \/ j = n BY <1>1, <1>4, <2>2, <3>2
  <3>. QED BY <1>1, <3>1, <3>2
 <2>. QED BY <1>1, <1>2, <2>1, <2>2 DEF Threads
<1>6. ASSUME NEW q \in Process
      PROVE  Replying(q)'
 <2>1. CASE q = p BY <1>2, <2>1 DEF Replying
 <2>2. CASE q # p
  <3>1. SUFFICES ASSUME op[q].at = "record", op[q].replyTo # 0
        PROVE  Replying(q)'
    BY <1>3, <2>2 DEF Replying
  <3>2. /\ op[q].replyTo \in DOMAIN outbound
        /\ outbound[op[q].replyTo].replyTo = 0
        /\ outbound[op[q].replyTo].to = service[q].session
        /\ \A j \in DOMAIN outbound : outbound[j].replyTo = op[q].replyTo => op[q].replyTo \in forgotten
    BY <1>0, <3>1 DEF Replying
  <3>3. op[q].replyTo # op[p].replyTo BY <1>3, <1>4, <2>2, <3>1, <3>2
  <3>4. \A j \in DOMAIN outbound' : outbound'[j].replyTo = op[q].replyTo => op[q].replyTo \in forgotten
    BY <1>1, <3>2, <3>3
  <3>. QED BY <1>1, <1>2, <1>3, <2>2, <3>2, <3>4 DEF Replying
 <2>. QED BY <2>1, <2>2
<1>7. ASSUME NEW q \in Process
      PROVE  Knowing(q)'
 <2>1. CASE q = p
  <3>1. \A j \in DOMAIN outbound :
            outbound[j].from = service[p].session /\ outbound[j].replyTo \notin {0} \cup forgotten =>
                j \in service[p].outbox
    BY <1>0, <1>2 DEF Knowing
  <3>2. service[p].outbox \subseteq DOMAIN outbound BY <1>0 DEF Knowing
  <3>. QED BY <1>1, <1>2, <2>1, <3>1, <3>2 DEF Knowing
 <2>2. CASE q # p
  <3>1. service'[q] = service[q] /\ op'[q] = op[q] /\ service[q].session # service[p].session
    BY <1>3, <2>2
  <3>2. Knowing(q) BY <1>0
  <3>. QED BY <1>1, <1>2, <3>1, <3>2 DEF Knowing
 <2>. QED BY <2>1, <2>2
<1>. QED BY <1>5, <1>6, <1>7

\* Every step keeps the replies unique.
LEMMA Replies ==
    ASSUME TypeOK, CountInv, PlaceInv, ConnInv, InboundInv, MemoryInv, DeliveredInv, ReplyInv, [Next]_vars
    PROVE  ReplyInv'
<1>0. Threads /\ \A q \in Process : Replying(q) /\ Knowing(q) /\ (op[q].at = "record" => op[q].to \in Session)
  BY ReplyParts
<1>1. /\ forgotten \subseteq forgotten'
      /\ \A i \in DOMAIN outbound : /\ i \in DOMAIN outbound' /\ outbound'[i].from = outbound[i].from
                                    /\ outbound'[i].to = outbound[i].to /\ outbound'[i].replyTo = outbound[i].replyTo
  BY Forgotten, Outbound DEF ForgottenStep, OutboundStep
<1>2. ASSUME NEW p \in Process, Operate(p) \/ Switch(p) \/ Restart(p), NEW q \in Process \ {p}
      PROVE  op'[q] = op[q] /\ service'[q] = service[q]
  BY <1>2, Others
<1>3. ASSUME NEW q \in Process
      PROVE  op'[q].at = "record" => op'[q].to \in Session
 <2>1. CASE op'[q] = op[q] BY <1>0, <2>1
 <2>2. CASE op'[q].at # "record" BY <2>2
 <2>3. CASE Operate(q)
  <3>1. OpNow(q) BY OpNext
  <3>2. CASE Send(q) \/ Reply(q) BY <3>1, <3>2 DEF OpNow
  <3>3. CASE SetWake(q) BY <2>1, <3>1, <3>3 DEF OpNow
  <3>4. CASE Retry(q) \/ Record(q) \/ Dial(q) \/ TimesOut(q) \/ Enable(q) \/ Disable(q) \/ StartSession(q) \/ Load(q)
    BY <2>2, <3>1, <3>4 DEF OpNow
  <3>5. CASE \/ RecordFails(q) \/ Confirm(q) \/ SaveOn(q) \/ SaveOnFails(q) \/ SaveOff(q) \/ SaveOffFails(q)
             \/ LoadFails(q) \/ Open(q)
    BY <2>2, <3>1, <3>5 DEF OpNow
  <3>. QED BY <2>3, <3>2, <3>3, <3>4, <3>5 DEF Operate
 <2>4. CASE Switch(q) \/ Restart(q) BY <2>1, <2>4 DEF Switch, Restart
 <2>5. ASSUME NEW c \in Connection, Serve(c)
       PROVE  op'[q] = op[q] \/ op'[q].at # "record"
   BY <2>5, ServeOp
 <2>6. ASSUME NEW p \in Process, Crash(p)
       PROVE  op'[q] = op[q] \/ op'[q].at # "record"
   BY <2>6, CrashConn, Blank
 <2>7. CASE UNCHANGED vars BY <2>1, <2>7 DEF vars
 <2>8. ASSUME NEW p \in Process, Operate(p) \/ Switch(p) \/ Restart(p)
       PROVE  op'[q].at = "record" => op'[q].to \in Session
   BY <1>2, <2>1, <2>3, <2>4, <2>8
 <2>. QED BY <2>1, <2>2, <2>5, <2>6, <2>7, <2>8 DEF Next, Quiet
<1>4. CASE \E p \in Process : Record(p)
  BY <1>3, <1>4, RepliesRecorded DEF ReplyInv, Threads, Replying, Knowing
<1>5. CASE ~ \E p \in Process : Record(p)
 <2>1. DOMAIN outbound' = DOMAIN outbound BY <1>5, Outbound DEF OutboundStep
 <2>2. Threads' BY <1>0, <1>1, <2>1 DEF Threads
 <2>3. ASSUME NEW q \in Process, op'[q].at = "record" => op'[q] = op[q], service'[q].session = service[q].session
       PROVE  Replying(q)'
   BY <1>0, <1>1, <2>1, <2>3 DEF Replying
 <2>4. ASSUME NEW q \in Process, service'[q].session = service[q].session, service'[q].outbox = service[q].outbox,
              op'[q].at # "load" => op[q].at # "load"
       PROVE  Knowing(q)'
   BY <1>0, <1>1, <2>1, <2>4 DEF Knowing
 <2>5. ASSUME NEW q \in Process
       PROVE  Replying(q)' /\ Knowing(q)'
  <3>1. CASE UNCHANGED vars BY <2>3, <2>4, <3>1 DEF vars
  <3>2. ASSUME NEW c \in Connection, Serve(c)
        PROVE  Replying(q)' /\ Knowing(q)'
   <4>1. service'[q].session = service[q].session /\ service'[q].outbox = service[q].outbox
     BY <3>2, ServeFrame
   <4>2. op'[q] = op[q] \/ (op[q].at = "answer" /\ op'[q].at \in {"dial", "idle", "confirm"})
     BY <3>2, ServeOp
   <4>. QED BY <2>3, <2>4, <4>1, <4>2
  <3>3. ASSUME NEW p \in Process, Crash(p)
        PROVE  Replying(q)' /\ Knowing(q)'
   <4>1. service' = [service EXCEPT ![p] = NoService] BY <3>3 DEF Crash
   <4>2. CASE q = p
    <5>1. service'[q] = NoService /\ op'[q] = NoOp
      BY <3>3, <4>1, <4>2, CrashConn, Types DEF ServiceType
    <5>. QED BY <5>1, Blank DEF Replying, Knowing, Empty
   <4>3. CASE q # p
    <5>1. service'[q] = service[q] BY <4>1, <4>3, Types DEF ServiceType
    <5>2. op'[q] = op[q] \/ (op[q].at = "answer" /\ op'[q].at \in {"dial", "idle"})
      BY <3>3, <4>3, CrashConn
    <5>. QED BY <2>3, <2>4, <5>1, <5>2
   <4>. QED BY <4>2, <4>3
  <3>4. ASSUME NEW p \in Process, Operate(p) \/ Switch(p) \/ Restart(p)
        PROVE  Replying(q)' /\ Knowing(q)'
   <4>1. CASE q # p BY <1>2, <2>3, <2>4, <3>4, <4>1
   <4>2. CASE q = p
    <5>0. OpNow(q) /\ ServiceNow(q) BY OpNext, ServiceNext
    <5>1. CASE Switch(q) \/ Restart(q) BY <2>3, <2>4, <5>1 DEF Switch, Restart
    <5>2. ASSUME service'[q].session = service[q].session, service'[q].outbox = service[q].outbox,
                 op'[q].at # "record", op[q].at # "load"
          PROVE  Replying(q)' /\ Knowing(q)'
      BY <2>3, <2>4, <5>2
    <5>3. CASE Retry(q) \/ RecordFails(q) \/ Dial(q) \/ TimesOut(q) \/ Confirm(q)
     <6>1. service' = service BY <5>0, <5>3 DEF ServiceNow
     <6>2. op'[q].at # "record" /\ op[q].at # "load" BY <5>0, <5>3 DEF OpNow
     <6>. QED BY <5>2, <6>1, <6>2
    <5>4. CASE Enable(q) \/ SaveOn(q) \/ SaveOnFails(q) \/ Disable(q) \/ SaveOff(q) \/ SaveOffFails(q) \/ SetWake(q) \/ Open(q)
     <6>1. SameTables(q) BY <5>0, <5>4 DEF ServiceNow
     <6>2. op'[q].at # "record" /\ op[q].at # "load" BY <5>0, <5>4 DEF OpNow
     <6>. QED BY <5>2, <6>1, <6>2 DEF SameTables
    <5>5. CASE StartSession(q)
     <6>1. op'[q].at = "load" /\ service'[q].outbox = {} BY <5>0, <5>5 DEF OpNow, ServiceNow, Empty
     <6>. QED BY <6>1 DEF Replying, Knowing
    <5>6. CASE Send(q) \/ Reply(q)
     <6>0. /\ service' = service /\ op[q].at = "idle" /\ op'[q].at = "record"
       BY <5>0, <5>6 DEF OpNow, ServiceNow
     <6>1. Knowing(q)' BY <2>4, <6>0
     <6>2. CASE Send(q) BY <5>0, <6>1, <6>2 DEF OpNow, Replying
     <6>3. CASE Reply(q)
      <7> DEFINE i == op'[q].replyTo
                 s == service[q].session
      <7>1. /\ service[q].listening /\ i \in service[q].inbox /\ outbound[i].replyTo = 0
            /\ \A j \in service[q].outbox : outbound[j].replyTo # i
        BY <5>0, <6>3 DEF OpNow
      <7>2. s # None /\ s \in Session BY <7>1, Types DEF PlaceInv, Empty, ServiceType, ServiceT
      <7>3. i \in Stored(s) BY <7>1, <7>2 DEF MemoryInv
      <7>4. i \in DOMAIN outbound /\ outbound[i].to = s BY <7>2, <7>3 DEF InboundInv, Stored, Range
      <7>5. i # 0 BY <7>4, Numbers, Parameters
      <7>6. ASSUME NEW j \in DOMAIN outbound, outbound[j].replyTo = i
            PROVE  i \in forgotten
       <8>1. outbound[j].from = s BY <1>0, <7>4, <7>5, <7>6 DEF Threads
       <8>2. Knowing(q) BY <1>0
       <8>. QED BY <6>0, <7>1, <7>2, <7>5, <7>6, <8>1, <8>2 DEF Knowing
      <7>7. forgotten' = forgotten /\ outbound' = outbound BY <6>3 DEF Reply, Starts, durable
      <7>8. Replying(q)' BY <6>0, <7>1, <7>4, <7>6, <7>7 DEF Replying
      <7>. QED BY <6>1, <7>8
     <6>. QED BY <5>6, <6>1, <6>2, <6>3
    <5>7. CASE Load(q) \/ LoadFails(q)
     <6>0. op[q].at = "load" /\ op'[q].at # "record" /\ service[q].outbox = {} /\ outbound' = outbound
       BY <5>0, <5>7 DEF OpNow, PlaceInv, Empty, Load, LoadFails, durable
     <6>1. CASE service' = service /\ Unread(q)
      <7>1. \A i \in DOMAIN outbound : outbound[i].to = service[q].session => i \in forgotten'
        BY <6>1 DEF Unread
      <7>2. \A j \in DOMAIN outbound :
                outbound[j].from = service[q].session => outbound[j].replyTo \in {0} \cup forgotten'
        BY <1>0, <7>1 DEF Threads
      <7>. QED BY <6>0, <6>1, <7>2 DEF Replying, Knowing
     <6>2. CASE Load(q) /\ change[q] = None
      <7>1. service'[q].session = service[q].session /\ service'[q].outbox = Sent(service[q].session)
        BY <5>0, <6>2 DEF ServiceNow
      <7>. QED BY <6>0, <7>1 DEF Replying, Knowing, Sent
     <6>. QED BY <5>0, <5>7, <6>1, <6>2 DEF ServiceNow, Load, LoadFails
    <5>. QED BY <1>5, <3>4, <4>2, <5>1, <5>3, <5>4, <5>5, <5>6, <5>7 DEF Operate
   <4>. QED BY <4>1, <4>2
  <3>. QED BY <3>1, <3>2, <3>3, <3>4 DEF Next, Quiet
 <2>. QED BY <1>3, <2>2, <2>5 DEF ReplyInv, Threads, Replying, Knowing
<1>. QED BY <1>4, <1>5

----------------------------------------
(* The invariant holds, and implies the properties.                        *)

\* The initial states have the invariant.
LEMMA InitInv == Init => IInv
<1> SUFFICES ASSUME Init
    PROVE  IInv
  OBVIOUS
<1>1. /\ active \in [Process -> Session] /\ \A p \in Process : Opens(active[p]) = p
      /\ config = [s \in Session |-> [enabled |-> TRUE, wake |-> TRUE]]
      /\ change = [p \in Process |-> None]
      /\ service = [p \in Process |-> Listening(Loaded([NoService EXCEPT !.session = active[p]]))]
      /\ op = [p \in Process |-> NoOp] /\ conn = [c \in Connection |-> NoConn]
      /\ woken = [i \in Message |-> IF i = 1 THEN 1 ELSE 0] /\ forgotten = {} /\ ops = 0 /\ trouble = 0
  BY DEF Init
<1>2. PICK from \in Session, to \in Session :
          /\ outbound = <<[from |-> from, to |-> to, replyTo |-> 0, delivered |-> TRUE]>>
          /\ inbound = [s \in Session |-> IF s = to THEN <<1>> ELSE << >>]
 <2>1. PICK from \in Range(active), to \in Range(active) :
           /\ outbound = <<[from |-> from, to |-> to, replyTo |-> 0, delivered |-> TRUE]>>
           /\ inbound = [s \in Session |-> IF s = to THEN <<1>> ELSE << >>]
   BY DEF Init
 <2>2. \A x \in Range(active) : x \in Session BY <1>1 DEF Range
 <2>3. from \in Session /\ to \in Session BY <2>2
 <2>. QED BY <2>1, <2>3
<1>3. /\ DOMAIN outbound = {1} /\ Len(outbound) = 1 /\ outbound \in Seq(TextT)
      /\ outbound[1].from = from /\ outbound[1].to = to /\ outbound[1].replyTo = 0
 <2> DEFINE m == [from |-> from, to |-> to, replyTo |-> 0, delivered |-> TRUE]
 <2>1. m \in TextT BY DEF TextT
 <2>2. outbound = <<m>> BY <1>2
 <2> HIDE DEF m
 <2>3. DOMAIN outbound = {1} /\ Len(outbound) = 1 /\ outbound \in Seq(TextT) /\ outbound[1] = m
   BY <2>1, <2>2
 <2>. QED BY <2>3 DEF m
<1>4. \A s \in Session : /\ inbound[s] \in Seq(Message) /\ Stored(s) = (IF s = to THEN {1} ELSE {})
                         /\ DOMAIN inbound[s] = (IF s = to THEN {1} ELSE {}) /\ (s = to => inbound[s][1] = 1)
 <2>1. 1 \in Message BY Parameters
 <2>2. /\ <<1>> \in Seq(Message) /\ << >> \in Seq(Message)
       /\ DOMAIN <<1>> = {1} /\ DOMAIN << >> = {} /\ <<1>>[1] = 1
   BY <2>1
 <2>. QED BY <1>2, <2>2 DEF Stored, Range
<1>5. ASSUME NEW p \in Process
      PROVE  /\ service[p] \in ServiceT /\ service[p].session = active[p]
             /\ service[p].enabled /\ service[p].wake /\ service[p].listening
             /\ service[p].inbox = Stored(active[p]) /\ service[p].seen = Stored(active[p])
             /\ service[p].outbox = Sent(active[p]) /\ service[p].inflight = {}
 <2> DEFINE n == [NoService EXCEPT !.session = active[p]]
            l == Loaded(n)
            sv == Listening(l)
 <2>1. n \in ServiceT /\ n.session = active[p] /\ n.inflight = {} BY <1>1, Blank DEF ServiceT, Empty
 <2>2. config[active[p]].enabled = TRUE /\ config[active[p]].wake = TRUE BY <1>1
 <2>3. Stored(active[p]) \subseteq Message /\ Sent(active[p]) \subseteq Message
   BY <1>1, <1>3, <1>4, Parameters DEF Sent
 <2> HIDE DEF n
 <2>4. /\ l \in ServiceT /\ l.session = active[p] /\ l.enabled /\ l.wake /\ l.inflight = {}
       /\ l.inbox = Stored(active[p]) /\ l.seen = Stored(active[p]) /\ l.outbox = Sent(active[p])
   BY <2>1, <2>2, <2>3 DEF Loaded, ServiceT, Stored
 <2> HIDE DEF l
 <2>5. /\ sv \in ServiceT /\ sv.session = active[p] /\ sv.enabled /\ sv.wake /\ sv.listening /\ sv.inflight = {}
       /\ sv.inbox = Stored(active[p]) /\ sv.seen = Stored(active[p]) /\ sv.outbox = Sent(active[p])
   BY <2>4 DEF Listening, ServiceT
 <2>6. service[p] = sv BY <1>1 DEF l, n
 <2>. QED BY <2>5, <2>6
<1>6. TypeOK
 <2>1. RecordTypes
  <3>1. config \in [Session -> Settings] BY <1>1 DEF Settings
  <3>2. inbound \in [Session -> Seq(Message)] BY <1>2, <1>4
  <3>. QED BY <1>1, <1>3, <3>1, <3>2 DEF RecordTypes
 <2>2. GhostTypes BY <1>1, Parameters DEF GhostTypes
 <2>3. ServiceType BY <1>1, <1>5 DEF ServiceType
 <2>4. OpType /\ ConnType BY <1>1, Blank DEF OpType, ConnType
 <2>. QED BY <2>1, <2>2, <2>3, <2>4, Types
<1>7. (\A p \in Process : op[p].at = "idle") /\ (\A c \in Connection : conn[c].at = "free")
  BY <1>1, Blank
<1>8. CountInv
 <2>1. Recording = {} BY <1>7 DEF Recording
 <2>. QED BY <1>1, <1>3, <2>1, FS_EmptySet DEF CountInv
<1>9. PlaceInv
 <2> SUFFICES ASSUME NEW p \in Process
     PROVE  /\ active[p] # None => Opens(active[p]) = p
            /\ change[p] # None => change[p] = active[p]
            /\ service[p].session # None => Opens(service[p].session) = p
            /\ service[p].session = None => Empty(service[p]) /\ ~service[p].wake /\ op[p].at = "idle"
            /\ active[p] = None => service[p].session = None
            /\ op[p].at = "load" => Empty(service[p])
   BY DEF PlaceInv
 <2>1. active[p] # None /\ Opens(active[p]) = p BY <1>1, Parameters
 <2>2. change[p] = None BY <1>1
 <2>. QED BY <2>1, <2>2, <1>5, <1>7
<1>10. SettingsInv
 <2> SUFFICES ASSUME NEW p \in Process
     PROVE  /\ service[p].enabled => config[service[p].session].enabled
            /\ service[p].wake => config[service[p].session].wake
            /\ service[p].listening /\ op[p].at \notin {"saveOn", "saveOff"} => service[p].enabled
            /\ op[p].at = "saveOn" /\ op[p].before => service[p].enabled
            /\ op[p].at = "open" => service[p].enabled
            /\ op[p].at = "saveOff" =>
                  /\ ~service[p].enabled
                  /\ op[p].before => config[service[p].session].enabled
                  /\ service[p].listening => op[p].before
   BY DEF SettingsInv
 <2>1. config[active[p]].enabled /\ config[active[p]].wake
  <3>1. active[p] \in Session BY <1>1
  <3>. QED BY <3>1, <1>1
 <2>. QED BY <2>1, <1>5, <1>7
<1>11. ConnInv /\ WaitsForDelivery BY <1>7 DEF ConnInv, WaitsForDelivery
<1>12. InflightInv BY <1>5 DEF InflightInv
<1>13. InboundInv BY <1>3, <1>4 DEF InboundInv
<1>14. MemoryInv BY <1>5 DEF MemoryInv
<1>15. WokenInv BY <1>1, <1>3, <1>4, <1>7 DEF WokenInv, Waking
<1>16. DeliveredInv BY <1>3, <1>4, <1>7 DEF DeliveredInv
<1>17. ReplyInv BY <1>3, <1>5, <1>7 DEF ReplyInv, Sent
<1>. QED BY <1>6, <1>8, <1>9, <1>10, <1>11, <1>12, <1>13, <1>14, <1>15, <1>16, <1>17 DEF IInv

\* Every step keeps the invariant.
LEMMA NextInv == IInv /\ [Next]_vars => IInv'
  BY TypesKept, Counted, Placed, SettingsKept, Connected, Inflight, Inbounds, Memory, Awoken, Delivered, Replies, Waits
     DEF IInv

\* The invariant holds in every reachable state.
THEOREM Invariance == Spec => []IInv
<1>1. Init => IInv BY InitInv
<1>2. IInv /\ [Next]_vars => IInv' BY NextInv
<1>. QED BY <1>1, <1>2, PTL DEF Spec

\* The invariant implies that messages are handled once.
LEMMA InvHandledOnce == IInv => HandledOnce
<1> SUFFICES ASSUME IInv
    PROVE  HandledOnce
  OBVIOUS
<1>1. ASSUME NEW i \in Message \ forgotten
      PROVE  Cardinality({e \in Session \X Message : e[2] \in DOMAIN inbound[e[1]] /\ inbound[e[1]][e[2]] = i}) <= 1
 <2> DEFINE E == {e \in Session \X Message : e[2] \in DOMAIN inbound[e[1]] /\ inbound[e[1]][e[2]] = i}
 <2>1. ASSUME NEW e \in E, NEW f \in E
       PROVE  e = f
  <3>1. /\ e[1] \in Session /\ f[1] \in Session /\ e = <<e[1], e[2]>> /\ f = <<f[1], f[2]>>
        /\ e[2] \in DOMAIN inbound[e[1]] /\ inbound[e[1]][e[2]] = i
        /\ f[2] \in DOMAIN inbound[f[1]] /\ inbound[f[1]][f[2]] = i
    OBVIOUS
  <3>2. outbound[i].to = e[1] /\ outbound[i].to = f[1] BY <3>1 DEF IInv, InboundInv
  <3>3. e[2] = f[2] BY <3>1, <3>2 DEF IInv, InboundInv
  <3>. QED BY <3>1, <3>2, <3>3
 <2> HIDE DEF E
 <2>2. E = {} \/ \E e : E = {e} BY <2>1
 <2>3. Cardinality(E) <= 1
  <3>1. CASE E = {} BY <3>1, FS_EmptySet
  <3>2. CASE \E e : E = {e}
   <4>1. PICK e : E = {e} BY <3>2
   <4>2. Cardinality({e}) = 1 BY FS_Singleton
   <4>. QED BY <4>1, <4>2
  <3>. QED BY <2>2, <3>1, <3>2
 <2>. QED BY <2>3 DEF E
<1>2. \A i \in Message \ forgotten : woken[i] <= 1 BY DEF IInv, WokenInv
<1>3. \A s \in Session : \A k \in DOMAIN inbound[s] : outbound[inbound[s][k]].to = s
  BY DEF IInv, InboundInv
<1>4. \A i \in DOMAIN outbound :
          outbound[i].delivered \/ (\E p \in Process : op[p].at = "confirm" /\ op[p].id = i) =>
              i \in Range(inbound[outbound[i].to])
  BY DEF IInv, DeliveredInv, Stored
<1>. QED BY <1>1, <1>2, <1>3, <1>4 DEF IInv, HandledOnce

\* The invariant implies that the tables are what is stored.
LEMMA InvMemoryIsStored == IInv => MemoryIsStored
<1> SUFFICES ASSUME IInv, NEW p \in Process
    PROVE  LET sv == service[p]
               storing == {conn[c].id : c \in sv.inflight}
           IN  /\ sv.enabled => config[sv.session].enabled
               /\ sv.wake => config[sv.session].wake
               /\ sv.listening /\ op[p].at = "idle" => sv.enabled
               /\ sv.session # None /\ op[p].at # "load" =>
                     Range(inbound[sv.session]) \ (storing \cup forgotten) = sv.inbox \ (storing \cup forgotten)
  BY DEF MemoryIsStored
<1> DEFINE sv == service[p]
           storing == {conn[c].id : c \in sv.inflight}
<1>1. /\ sv.enabled => config[sv.session].enabled
      /\ sv.wake => config[sv.session].wake
      /\ sv.listening /\ op[p].at = "idle" => sv.enabled
  BY DEF IInv, SettingsInv
<1>2. ASSUME sv.session # None, op[p].at # "load"
      PROVE  Range(inbound[sv.session]) \ (storing \cup forgotten) = sv.inbox \ (storing \cup forgotten)
 <2>1. sv.inbox \subseteq Range(inbound[sv.session]) BY <1>2 DEF IInv, MemoryInv, Stored
 <2>2. \A i \in Range(inbound[sv.session]) \ forgotten : i \in sv.inbox \/ \E c \in sv.inflight : conn[c].id = i
   BY <1>2 DEF IInv, MemoryInv, Stored
 <2>. QED BY <2>1, <2>2
<1>. QED BY <1>1, <1>2

\* Every message that no service has forgotten is stored once, by the session it is
\* for, and wakes its agent at most once, and who was told of a delivery can rely
\* on it (receive, finishDelivery and sendLocked in intercom.go).
THEOREM StoredOnce == Spec => []HandledOnce
  BY Invariance, InvHandledOnce, PTL

\* A request gets one reply, and a reply none (resolveReply).
THEOREM RepliedOnce == Spec => []OneReply
<1>1. IInv => OneReply BY DEF IInv, ReplyInv, OneReply
<1>. QED BY <1>1, Invariance, PTL

\* The settings and the tables of a service are those that its session has recorded
\* (persistSettings, startSession and receive).
THEOREM TablesAreStored == Spec => []MemoryIsStored
  BY Invariance, InvMemoryIsStored, PTL

\* A connection that waits for a delivery has one to wait for (receive and
\* finishDelivery).
THEOREM WaitsEnd == Spec => []WaitsForDelivery
<1>1. IInv => WaitsForDelivery BY DEF IInv
<1>. QED BY <1>1, Invariance, PTL

=============================================================================
