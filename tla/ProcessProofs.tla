---------------------------- MODULE ProcessProofs ----------------------------
(***************************************************************************)
(* Proofs about the processes that notch runs, each in a section of its    *)
(* own: the MCP servers of Mcp, for any calls; the helper of Subagent, for *)
(* any bounds; the claude process of ClaudeTurn, for any bounds, while the *)
(* tools stay registered; and the extension process of PluginCalls, for    *)
(* any calls.  The four share no state.  Subagent and ClaudeTurn need to   *)
(* count and to order the messages of a stream.                            *)
(***************************************************************************)
EXTENDS Integers, Sequences, FiniteSets, FiniteSetTheorems, TLAPS

CONSTANTS Call, HttpCall, PipeSize, MaxPings,  \* of Mcp
          MaxTurns, MaxTools, Unread,            \* of Subagent
          EventBuffer, MaxProcesses, MaxSteps, MaxCalls, MaxStale, MaxSteers,  \* of ClaudeTurn
          Calls, Initialize, HostCalls, Buffer, MaxRogue  \* of PluginCalls

VARIABLES call, done, pending, handing, channel, dead, writer, stdin, stdout, stdinOpen,
          stdoutOpen, work, ran, server, heir, pings, reader, waiter, closer, http

VARIABLES spawn, phase, child, began, ended, descendant, pipe, parsed, cause, canceled,
          term, force, waited, result

VARIABLES caller, alive, childpc, asked, hooked, called, replies, out, events, over, toolQueue,
          unanswered, results, content, executed, stale, issued, unheard, steers, processes,
          steps, spent, accounted, reported, failed

VARIABLES request, ctxDone, answer, ch, awaited, withdrawn, stopErr, fin, receiver,
          start, lease, registered, serving, hostRequests, workCanceled, toPlugin,
          toHost, rogue, lives, closed, handler, requests, handlerCanceled,
          hostCall, owner, sdkPending, sdkCh

Srv == INSTANCE Mcp

Sub == INSTANCE Subagent WITH call <- spawn, heir <- descendant, PipeSize <- Unread

Claude == INSTANCE ClaudeTurn WITH pending <- unanswered

Plug == INSTANCE PluginCalls WITH call <- request, pending <- awaited, canceled
             <- withdrawn, reader <- receiver, work <- serving, alive <- lives,
             outcome <- answer, PipeSize <- Buffer

----------------------------------------
(* The messages in a stream.                                               *)

Number(q, t) == Cardinality({i \in DOMAIN q : q[i].type = t})

\* How many messages of a kind there are.
LEMMA NumberIsNat ==
    ASSUME NEW S, NEW q \in Seq(S), NEW t
    PROVE  /\ Number(q, t) \in Nat /\ IsFiniteSet({i \in DOMAIN q : q[i].type = t})
           /\ Number(<<>>, t) = 0
<1>1. DOMAIN q = 1..Len(q) /\ IsFiniteSet(1..Len(q)) BY FS_Interval
<1>2. IsFiniteSet({i \in DOMAIN q : q[i].type = t}) BY <1>1, FS_Subset
<1>3. Number(<<>>, t) = 0
 <2>1. {i \in DOMAIN <<>> : <<>>[i].type = t} = {} OBVIOUS
 <2>. QED BY <2>1, FS_EmptySet DEF Number
<1>4. Number(q, t) \in Nat BY <1>2, FS_CardinalityType DEF Number
<1>. QED BY <1>2, <1>3, <1>4

\* A message more.
LEMMA NumberAppended ==
    ASSUME NEW S, NEW q \in Seq(S), NEW e \in S, NEW t
    PROVE  Number(Append(q, e), t) = Number(q, t) + IF e.type = t THEN 1 ELSE 0
<1> DEFINE M == {i \in DOMAIN q : q[i].type = t}
           T == {i \in DOMAIN Append(q, e) : Append(q, e)[i].type = t}
<1>0. Number(q, t) = Cardinality(M) /\ Number(Append(q, e), t) = Cardinality(T) BY DEF Number
<1>1. /\ DOMAIN Append(q, e) = DOMAIN q \union {Len(q) + 1} /\ Len(q) + 1 \notin DOMAIN q
      /\ Append(q, e)[Len(q) + 1] = e /\ \A i \in DOMAIN q : Append(q, e)[i] = q[i]
  OBVIOUS
<1>2. T = IF e.type = t THEN M \union {Len(q) + 1} ELSE M BY <1>1
<1>3. IsFiniteSet(M) /\ Len(q) + 1 \notin M /\ Cardinality(M) \in Nat
  BY <1>1, NumberIsNat, FS_CardinalityType
<1> HIDE DEF M
<1>4. Cardinality(M \union {Len(q) + 1}) = Cardinality(M) + 1 BY <1>3, FS_AddElement
<1>5. Cardinality(T) = Cardinality(M) + IF e.type = t THEN 1 ELSE 0
 <2> HIDE DEF T
 <2>1. CASE e.type = t BY <1>2, <1>4, <2>1
 <2>2. CASE e.type # t BY <1>2, <1>3, <2>2
 <2>. QED BY <2>1, <2>2
<1>. QED BY <1>0, <1>5

\* The first one read.
LEMMA NumberRead ==
    ASSUME NEW S, NEW q \in Seq(S), q # <<>>, NEW t
    PROVE  /\ Tail(q) \in Seq(S) /\ Head(q) \in S
           /\ Number(q, t) = Number(Tail(q), t) + IF Head(q).type = t THEN 1 ELSE 0
<1> DEFINE M == {i \in DOMAIN q : q[i].type = t}
           T == {i \in DOMAIN Tail(q) : Tail(q)[i].type = t}
           f == [i \in T |-> i + 1]
<1>0. Number(q, t) = Cardinality(M) /\ Number(Tail(q), t) = Cardinality(T) BY DEF Number
<1>1. /\ Tail(q) \in Seq(S) /\ Head(q) \in S /\ Head(q) = q[1]
      /\ DOMAIN q = 1..Len(q) /\ DOMAIN Tail(q) = 1..(Len(q) - 1) /\ Len(q) \in Nat /\ 1 \in DOMAIN q
      /\ \A i \in DOMAIN Tail(q) : Tail(q)[i] = q[i + 1]
  OBVIOUS
<1>2. IsFiniteSet(T) /\ IsFiniteSet(M) /\ Cardinality(T) \in Nat /\ Cardinality(M) \in Nat
 <2>1. IsFiniteSet(M) BY NumberIsNat, Zenon
 <2>2. IsFiniteSet(T)
  <3>1. Tail(q) \in Seq(S) BY <1>1
  <3> DEFINE r == Tail(q)
  <3> HIDE DEF r
  <3>2. IsFiniteSet({i \in DOMAIN r : r[i].type = t}) BY <3>1, NumberIsNat, Zenon DEF r
  <3>. QED BY <3>2, Zenon DEF r
 <2> HIDE DEF T, M
 <2>. QED BY <2>1, <2>2, FS_CardinalityType
<1>3. \A i \in T : i \in Nat /\ i + 1 \in M \ {1} BY <1>1
<1>4. \A j \in M \ {1} : j - 1 \in T /\ (j - 1) + 1 = j
 <2> TAKE j \in M \ {1}
 <2>1. j \in 2..Len(q) BY <1>1
 <2>2. j - 1 \in DOMAIN Tail(q) /\ (j - 1) + 1 = j BY <1>1, <2>1
 <2>. QED BY <1>1, <2>2
<1> HIDE DEF M, T
<1>5. f \in Bijection(T, M \ {1})
 <2>1. f \in [T -> M \ {1}] /\ \A i, j \in T : f[i] = f[j] => i = j BY <1>3
 <2>2. \A j \in M \ {1} : \E i \in T : f[i] = j BY <1>4
 <2>. QED BY <2>1, <2>2 DEF Bijection, Injection, Surjection, IsInjective
<1>6. Cardinality(M \ {1}) = Cardinality(T) BY <1>2, <1>5, FS_Bijection DEF ExistsBijection
<1>7. Cardinality(M) = Cardinality(T) + IF 1 \in M THEN 1 ELSE 0
 <2>1. Cardinality(M \ {1}) = IF 1 \in M THEN Cardinality(M) - 1 ELSE Cardinality(M)
   BY <1>2, FS_RemoveElement
 <2>. QED BY <1>2, <1>6, <2>1
<1>8. 1 \in M <=> Head(q).type = t BY <1>1 DEF M
<1>. QED BY <1>0, <1>1, <1>7, <1>8

----------------------------------------
(* The MCP servers.                                                        *)

\* The calls of the two clients are told apart, and from what a server asks.
ServerParameters == Call \cap HttpCall = {} /\ Call \cap {"ping", "pong"} = {}

Points == {"idle", "registered", "writing", "waiting"} \union Srv!Returns
Reply == {Srv!NONE, "answer", "dead"}

TableTypes ==
  /\ call \in [Call -> Points] /\ done \subseteq Call /\ pending \subseteq Call
  /\ handing \in [Call -> Reply] /\ channel \in [Call -> Reply] /\ dead \in BOOLEAN

RestTypes ==
  /\ server \in {"up", "hung", "exited"} /\ reader \in {"reading", "replying", "ended"}
  /\ waiter \in {"waiting", "failing", "ended"} /\ closer \in {"no", "stdin", "killed", "ended"}

RunTypes ==
  /\ stdin \in Seq(Call \union {"pong"}) /\ stdout \in Seq(Call \union {"ping"})
  /\ work \subseteq Call /\ ran \in [Call \union HttpCall -> {0, 1}]
  /\ http \in [HttpCall -> {"idle", "posted", "retried", "answer", "error"}]

\* A call that has not returned is in the table or has its reply, which is in
\* one place; before it registers it is in none.
TableInv ==
  /\ \A c \in Call :
       /\ call[c] = "idle" => c \notin pending /\ handing[c] = Srv!NONE /\ channel[c] = Srv!NONE
       /\ call[c] \in {"registered", "writing", "waiting"} =>
            c \in pending \/ handing[c] # Srv!NONE \/ channel[c] # Srv!NONE
       /\ handing[c] # Srv!NONE => channel[c] = Srv!NONE /\ c \notin pending
       /\ channel[c] # Srv!NONE => c \notin pending
  /\ dead => pending = {}

\* A call is written once, and the server has run what it works on or answers.
NotSent == {"idle", "registered", "writing"}

ClientRuns ==
  \A c \in Call :
    /\ call[c] \in NotSent => ran[c] = 0
    /\ handing[c] = "answer" \/ channel[c] = "answer" \/ call[c] = "answer" \/ c \in work => ran[c] = 1

PipeRuns ==
  /\ \A i \in DOMAIN stdin : stdin[i] \in Call => ran[stdin[i]] = 0 /\ call[stdin[i]] \notin NotSent
  /\ \A i, j \in DOMAIN stdin : stdin[i] = stdin[j] /\ stdin[i] \in Call => i = j
  /\ \A i \in DOMAIN stdout : stdout[i] \in Call => ran[stdout[i]] = 1

HttpRuns ==
  \A c \in HttpCall : /\ http[c] \in {"idle", "posted", "retried"} => ran[c] = 0
                      /\ http[c] = "answer" => ran[c] = 1

Runs == RunTypes /\ ClientRuns /\ PipeRuns /\ HttpRuns

ServerInv == TableTypes /\ TableInv /\ RestTypes /\ Runs

\* The initial states have the invariant.
LEMMA ServerInit == Srv!Init => ServerInv
<1> SUFFICES ASSUME Srv!Init
    PROVE  ServerInv
  OBVIOUS
<1>1. TableTypes BY DEF Srv!Init, TableTypes, Points, Reply, Srv!NONE
<1>2. RestTypes /\ RunTypes BY DEF Srv!Init, RestTypes, RunTypes
<1>3. TableInv /\ ClientRuns /\ PipeRuns /\ HttpRuns
  BY DEF Srv!Init, TableInv, ClientRuns, PipeRuns, HttpRuns, NotSent, Srv!NONE
<1>. QED BY <1>1, <1>2, <1>3 DEF ServerInv, Runs

\* The first error takes the table, whatever is handed over stays.
LEMMA FailKeeps ==
    ASSUME TableTypes, TableInv, Srv!Fail, UNCHANGED <<call, done, channel>>
    PROVE  /\ TableTypes' /\ TableInv'
           /\ \A c \in Call : handing'[c] = "answer" => handing[c] = "answer"
<1> USE DEF Srv!NONE
<1>1. CASE dead BY <1>1 DEF Srv!Fail, TableTypes, TableInv
<1>2. CASE ~dead BY <1>2 DEF Srv!Fail, TableTypes, TableInv, Reply
<1>. QED BY <1>1, <1>2

\* What a step of the client does to its table.
LEMMA TableKept ==
    ASSUME TableTypes, TableInv, [Srv!Next]_(Srv!vars)
    PROVE  TableTypes' /\ TableInv'
<1> USE DEF Srv!NONE
<1>0. CASE UNCHANGED <<call, done, pending, handing, channel, dead>>
  BY <1>0 DEF TableTypes, TableInv
<1>1. ASSUME NEW c \in Call, Srv!Register(c)
      PROVE  TableTypes' /\ TableInv'
  BY <1>1 DEF Srv!Register, TableTypes, TableInv, Points, Srv!Returns
<1>2. ASSUME NEW c \in Call, Srv!BeginWrite(c)
      PROVE  TableTypes' /\ TableInv'
  BY <1>2 DEF Srv!BeginWrite, TableTypes, TableInv, Points, Srv!Returns
<1>3. ASSUME NEW c \in Call, Srv!EndWrite(c)
      PROVE  TableTypes' /\ TableInv'
  BY <1>3 DEF Srv!EndWrite, TableTypes, TableInv, Points, Srv!Returns
<1>4. ASSUME NEW c \in Call, Srv!Receive(c)
      PROVE  TableTypes' /\ TableInv'
  BY <1>4 DEF Srv!Receive, TableTypes, TableInv, Points, Reply, Srv!Returns
<1>5. ASSUME NEW c \in Call, Srv!Cancelled(c)
      PROVE  TableTypes' /\ TableInv'
  BY <1>5 DEF Srv!Cancelled, TableTypes, TableInv, Points, Srv!Returns
<1>6. ASSUME NEW c \in Call, Srv!HandOver(c)
      PROVE  TableTypes' /\ TableInv'
  BY <1>6 DEF Srv!HandOver, TableTypes, TableInv, Reply
<1>7. ASSUME NEW c \in Call, Srv!CallerCancels(c)
      PROVE  TableTypes' /\ TableInv'
  BY <1>7 DEF Srv!CallerCancels, Srv!Client, TableTypes, TableInv
<1>8. CASE Srv!Read
 <2>1. CASE Head(stdout) = "ping" BY <1>0, <1>8, <2>1 DEF Srv!Read
 <2>2. CASE Head(stdout) # "ping" /\ Head(stdout) \notin pending
  <3>1. pending \ {Head(stdout)} = pending BY <2>2
  <3>. QED BY <1>0, <1>8, <2>2, <3>1 DEF Srv!Read
 <2>3. CASE Head(stdout) # "ping" /\ Head(stdout) \in pending
   BY <1>8, <2>3 DEF Srv!Read, TableTypes, TableInv, Reply
 <2>. QED BY <2>1, <2>2, <2>3
<1>9. CASE Srv!ReadEnds BY <1>0, <1>9, FailKeeps DEF Srv!ReadEnds, Srv!Client
<1>10. CASE Srv!WaitFails BY <1>10, FailKeeps DEF Srv!WaitFails
<1>11. CASE Srv!BeginReply \/ Srv!EndReply \/ Srv!Waited \/ Srv!Closed \/ Srv!CloseStdin \/ Srv!Kill
  BY <1>0, <1>11
     DEF Srv!BeginReply, Srv!EndReply, Srv!Waited, Srv!Closed, Srv!CloseStdin,
         Srv!Kill,
                     Srv!Client
<1>12. CASE Srv!ServerReads \/ Srv!ServerAnswers \/ Srv!ServerHangs \/ Srv!ServerExits
            \/ Srv!ServerSeesEnd \/ Srv!HeirEnds
  BY <1>0, <1>12
     DEF Srv!ServerReads, Srv!ServerAnswers, Srv!ServerHangs, Srv!ServerExits,
                     Srv!ServerSeesEnd, Srv!HeirEnds, Srv!Client
<1>13. CASE \E c \in HttpCall : Srv!Post(c) \/ Srv!HttpOutcome(c)
  BY <1>0, <1>13 DEF Srv!Post, Srv!HttpOutcome, Srv!Others, Srv!Client
<1>14. CASE Srv!Done \/ UNCHANGED Srv!vars BY <1>0, <1>14 DEF Srv!Done, Srv!vars
<1>. QED BY <1>1, <1>2, <1>3, <1>4, <1>5, <1>6, <1>7, <1>8, <1>9, <1>10, <1>11, <1>12, <1>13, <1>14
     DEF Srv!Next, Srv!Step, Srv!Routine

\* The states of the process and of the goroutines.
LEMMA RestKept ==
    ASSUME RestTypes, [Srv!Next]_(Srv!vars)
    PROVE  RestTypes'
<1>1. CASE \E c \in Call : Srv!Step(c) \/ Srv!CallerCancels(c)
  BY <1>1
     DEF RestTypes, Srv!Step, Srv!Register, Srv!BeginWrite, Srv!EndWrite,
         Srv!Receive,
              Srv!Cancelled, Srv!HandOver, Srv!CallerCancels, Srv!Process, Srv!Routines
<1>2. CASE Srv!Routine \/ Srv!CloseStdin \/ Srv!Kill
  BY <1>2
     DEF RestTypes, Srv!Routine, Srv!Read, Srv!ReadEnds, Srv!BeginReply,
         Srv!EndReply,
              Srv!Waited, Srv!WaitFails, Srv!Closed, Srv!CloseStdin, Srv!Kill, Srv!Process
<1>3. CASE Srv!ServerReads \/ Srv!ServerAnswers \/ Srv!ServerHangs \/ Srv!ServerExits
           \/ Srv!ServerSeesEnd \/ Srv!HeirEnds
  BY <1>3
     DEF RestTypes, Srv!ServerReads, Srv!ServerAnswers, Srv!ServerHangs,
         Srv!ServerExits,
              Srv!ServerSeesEnd, Srv!HeirEnds, Srv!Routines
<1>4. CASE \E c \in HttpCall : Srv!Post(c) \/ Srv!HttpOutcome(c)
  BY <1>4 DEF RestTypes, Srv!Post, Srv!HttpOutcome, Srv!Others, Srv!Routines
<1>5. CASE Srv!Done \/ UNCHANGED Srv!vars BY <1>5 DEF RestTypes, Srv!Done, Srv!vars
<1>. QED BY <1>1, <1>2, <1>3, <1>4, <1>5 DEF Srv!Next

\* A step of the client that writes nothing: no call goes back, no answer appears.
LEMMA ClientMoves ==
    ASSUME Runs, UNCHANGED <<stdin, stdout, work, ran, http>>,
           \A c \in Call : /\ call'[c] \in NotSent => call[c] \in NotSent
                           /\ handing'[c] = "answer" \/ channel'[c] = "answer" \/ call'[c] = "answer" =>
                                handing[c] = "answer" \/ channel[c] = "answer" \/ call[c] = "answer"
    PROVE  Runs'
<1>1. RunTypes' /\ HttpRuns' BY DEF Runs, RunTypes, HttpRuns
<1>2. ClientRuns' BY DEF Runs, ClientRuns
<1>3. PipeRuns' BY DEF Runs, PipeRuns
<1>. QED BY <1>1, <1>2, <1>3 DEF Runs

\* The answers in a pipe shorter by its head.
LEMMA Shorter ==
    ASSUME NEW S, NEW q \in Seq(S), q # <<>>
    PROVE  /\ Tail(q) \in Seq(S) /\ 1 \in DOMAIN q /\ Head(q) = q[1] /\ Head(q) \in S
           /\ \A i \in DOMAIN Tail(q) : i + 1 \in DOMAIN q /\ i + 1 # 1 /\ Tail(q)[i] = q[i + 1]
           /\ \A i, j \in DOMAIN Tail(q) : i + 1 = j + 1 => i = j
  OBVIOUS

\* A pipe longer by a message.
LEMMA Longer ==
    ASSUME NEW S, NEW q \in Seq(S), NEW m \in S
    PROVE  /\ Append(q, m) \in Seq(S) /\ DOMAIN Append(q, m) = DOMAIN q \union {Len(q) + 1}
           /\ Len(q) + 1 \notin DOMAIN q /\ Append(q, m)[Len(q) + 1] = m
           /\ \A i \in DOMAIN q : Append(q, m)[i] = q[i]
  OBVIOUS

\* f counts as ran does, but n for c.
SetAt(f, c, n) ==
  f \in [Call \union HttpCall -> {0, 1}] /\ f[c] = n /\ \A x \in Call \union HttpCall : x # c => f[x] = ran[x]

\* What a step does to what the server has run.
LEMMA RunsKept ==
    ASSUME ServerParameters, TableTypes, TableInv, Runs, [Srv!Next]_(Srv!vars)
    PROVE  Runs'
<1> USE DEF Srv!NONE
<1>0. CASE UNCHANGED <<call, handing, channel, stdin, stdout, work, ran, http>> BY <1>0, ClientMoves
<1>1. ASSUME NEW c \in Call, Srv!Register(c) \/ Srv!BeginWrite(c) \/ Srv!Cancelled(c) \/ Srv!Receive(c)
      PROVE  Runs'
 <2>1. UNCHANGED <<stdin, stdout, work, ran, http, handing>>
   BY <1>1
      DEF Srv!Register, Srv!BeginWrite, Srv!Cancelled, Srv!Receive, Srv!Pipes,
          Srv!Process
 <2>2. \A x \in Call : /\ call'[x] \in NotSent => call[x] \in NotSent
                       /\ channel'[x] = "answer" => channel[x] = "answer"
                       /\ call'[x] = "answer" => call[x] = "answer" \/ channel[x] = "answer"
  <3> USE DEF TableTypes, NotSent
  <3>1. CASE Srv!Register(c) BY <3>1 DEF Srv!Register
  <3>2. CASE Srv!BeginWrite(c) BY <3>2 DEF Srv!BeginWrite
  <3>3. CASE Srv!Cancelled(c) BY <3>3 DEF Srv!Cancelled
  <3>4. CASE Srv!Receive(c) BY <3>4 DEF Srv!Receive, Reply
  <3>. QED BY <1>1, <3>1, <3>2, <3>3, <3>4
 <2>. QED BY <2>1, <2>2, ClientMoves
<1>2. ASSUME NEW c \in Call, Srv!HandOver(c)
      PROVE  Runs'
 <2>1. UNCHANGED <<stdin, stdout, work, ran, http, call>>
   BY <1>2 DEF Srv!HandOver, Srv!Pipes, Srv!Process
 <2>2. \A x \in Call : handing'[x] = "answer" \/ channel'[x] = "answer" => handing[x] = "answer" \/ channel[x] = "answer"
   BY <1>2 DEF Srv!HandOver, TableTypes
 <2>. QED BY <2>1, <2>2, ClientMoves
<1>3. ASSUME NEW c \in Call, Srv!EndWrite(c)
      PROVE  Runs'
 <2>1. UNCHANGED <<stdout, work, ran, http, handing, channel>> /\ call[c] = "writing" /\ call[c] \in NotSent
   BY <1>3 DEF Srv!EndWrite, Srv!Process, NotSent
 <2>2. /\ call'[c] \in {"waiting", "write error"}
       /\ \A x \in Call : x # c => call'[x] = call[x]
   BY <1>3 DEF Srv!EndWrite, TableTypes
 <2>3. CASE UNCHANGED stdin BY <2>1, <2>2, <2>3, ClientMoves DEF NotSent
 <2>4. CASE stdin' = Append(stdin, c)
  <3>1. RunTypes' /\ HttpRuns' BY <2>1, <2>4 DEF Runs, RunTypes, HttpRuns
  <3>2. ClientRuns' BY <2>1, <2>2 DEF Runs, ClientRuns, NotSent
  <3>3. ran[c] = 0 BY <2>1 DEF Runs, ClientRuns
  <3>4. \A i \in DOMAIN stdin : stdin[i] # c BY <2>1 DEF Runs, PipeRuns
  <3>5. stdin \in Seq(Call \union {"pong"}) BY DEF Runs, RunTypes
  <3>6. /\ DOMAIN stdin' = DOMAIN stdin \union {Len(stdin) + 1} /\ stdin'[Len(stdin) + 1] = c
        /\ \A i \in DOMAIN stdin : stdin'[i] = stdin[i]
    BY <2>4, <3>5, Longer
  <3>7. PipeRuns'
   <4>1. \A i \in DOMAIN stdin' : stdin'[i] \in Call => ran'[stdin'[i]] = 0 /\ call'[stdin'[i]] \notin NotSent
     BY ZenonT(40), <2>1, <2>2, <3>3, <3>6 DEF Runs, PipeRuns, NotSent
   <4>2. \A i, j \in DOMAIN stdin' : stdin'[i] = stdin'[j] /\ stdin'[i] \in Call => i = j
     BY <3>4, <3>6 DEF Runs, PipeRuns
   <4>. QED BY <2>1, <4>1, <4>2 DEF Runs, PipeRuns
  <3>. QED BY <3>1, <3>2, <3>7 DEF Runs
 <2>. QED BY <1>3, <2>3, <2>4 DEF Srv!EndWrite
<1>4. CASE Srv!Read
 <2>1. /\ stdout # <<>> /\ stdout' = Tail(stdout)
       /\ UNCHANGED <<stdin, work, ran, http, call, channel>>
   BY <1>4 DEF Srv!Read, Srv!Process
 <2>2. stdout \in Seq(Call \union {"ping"}) BY DEF Runs, RunTypes
 <2>3. RunTypes' /\ HttpRuns' BY <2>1, <2>2, Shorter DEF Runs, RunTypes, HttpRuns
 <2>4. PipeRuns' BY <2>1, <2>2, Shorter DEF Runs, PipeRuns
 <2>5. \A x \in Call : handing'[x] = "answer" => handing[x] = "answer" \/ x = Head(stdout)
   BY <1>4 DEF Srv!Read, TableTypes
 <2>6. Head(stdout) \in Call => ran[Head(stdout)] = 1 BY <2>1, <2>2, Shorter DEF Runs, PipeRuns
 <2>7. ClientRuns' BY <2>1, <2>5, <2>6 DEF Runs, ClientRuns
 <2>. QED BY <2>3, <2>4, <2>7 DEF Runs
<1>5. CASE Srv!ReadEnds \/ Srv!WaitFails
 <2>1. UNCHANGED <<stdin, stdout, work, ran, http, call, channel>>
   BY <1>5 DEF Srv!ReadEnds, Srv!WaitFails, Srv!Pipes, Srv!Process, Srv!Client
 <2>2. \A x \in Call : handing'[x] = "answer" => handing[x] = "answer"
   BY <1>5 DEF Srv!ReadEnds, Srv!WaitFails, Srv!Client, Srv!Fail
 <2>. QED BY <2>1, <2>2, ClientMoves
<1>6. CASE Srv!Waited
 <2>1. stdout' = <<>> /\ UNCHANGED <<stdin, work, ran, http, call, channel, handing>>
   BY <1>6 DEF Srv!Waited, Srv!Process, Srv!Client
 <2>2. RunTypes' /\ HttpRuns' /\ ClientRuns' /\ PipeRuns'
   BY <2>1 DEF Runs, RunTypes, HttpRuns, ClientRuns, PipeRuns
 <2>. QED BY <2>2 DEF Runs
<1>7. CASE Srv!EndReply
 <2>1. UNCHANGED <<stdout, work, ran, http, call, channel, handing>> /\ stdin \in Seq(Call \union {"pong"})
   BY <1>7 DEF Srv!EndReply, Srv!Process, Srv!Client, Runs, RunTypes
 <2>2. CASE stdin' = Append(stdin, "pong")
  <3>1. RunTypes' /\ HttpRuns' /\ ClientRuns' BY <2>1, <2>2 DEF Runs, RunTypes, HttpRuns, ClientRuns
  <3>2. /\ DOMAIN stdin' = DOMAIN stdin \union {Len(stdin) + 1} /\ stdin'[Len(stdin) + 1] = "pong"
        /\ \A i \in DOMAIN stdin : stdin'[i] = stdin[i]
    BY <2>1, <2>2, Longer
  <3>3. "pong" \notin Call BY DEF ServerParameters
  <3>4. PipeRuns' BY <2>1, <3>2, <3>3 DEF Runs, PipeRuns
  <3>. QED BY <3>1, <3>4 DEF Runs
 <2>3. CASE UNCHANGED stdin BY <1>0, <2>1, <2>3
 <2>. QED BY <1>7, <2>2, <2>3 DEF Srv!EndReply
<1>8. CASE Srv!ServerReads
 <2> DEFINE m == Head(stdin)
 <2>1. /\ stdin # <<>> /\ stdin' = Tail(stdin) /\ stdin \in Seq(Call \union {"pong"})
       /\ UNCHANGED <<stdout, http, call, channel, handing>>
   BY <1>8 DEF Srv!ServerReads, Srv!Client, Runs, RunTypes
 <2>2. CASE m = "pong"
  <3>1. UNCHANGED <<work, ran>> BY <1>8, <2>2 DEF Srv!ServerReads
  <3>2. RunTypes' /\ HttpRuns' /\ ClientRuns'
    BY <2>1, <3>1, Shorter DEF Runs, RunTypes, HttpRuns, ClientRuns
  <3>3. PipeRuns' BY <2>1, <3>1, Shorter DEF Runs, PipeRuns
  <3>. QED BY <3>2, <3>3 DEF Runs
 <2>3. CASE m # "pong"
  <3>1. m \in Call /\ m \notin HttpCall /\ 1 \in DOMAIN stdin /\ stdin[1] = m
    BY <2>1, <2>3, Shorter DEF ServerParameters
  <3>2. ran[m] = 0 /\ call[m] \notin NotSent BY <3>1 DEF Runs, PipeRuns
  <3>3. \A i \in DOMAIN Tail(stdin) : Tail(stdin)[i] # m
   <4> SUFFICES ASSUME NEW i \in DOMAIN Tail(stdin), Tail(stdin)[i] = m
       PROVE  FALSE
     OBVIOUS
   <4>1. i + 1 \in DOMAIN stdin /\ i + 1 # 1 /\ stdin[i + 1] = m BY <2>1, Shorter
   <4>. QED BY <3>1, <4>1 DEF Runs, PipeRuns
  <3>4. work' = work \union {m} /\ ran' = [ran EXCEPT ![m] = ran[m] + 1]
    BY <1>8, <2>3 DEF Srv!ServerReads
  <3>5. ran' = [ran EXCEPT ![m] = 1] /\ ran \in [Call \union HttpCall -> {0, 1}]
    BY <3>2, <3>4 DEF Runs, RunTypes
  <3> HIDE DEF m
  <3>6. RunTypes' BY <2>1, <3>1, <3>4, <3>5, Shorter DEF Runs, RunTypes
  <3>7. HttpRuns' BY <2>1, <3>1, <3>5 DEF Runs, HttpRuns
  <3>8. ClientRuns' BY <2>1, <3>1, <3>2, <3>4, <3>5 DEF Runs, ClientRuns
  <3>9. PipeRuns'
   <4>1. \A i \in DOMAIN stdin' : stdin'[i] \in Call => ran'[stdin'[i]] = 0 /\ call'[stdin'[i]] \notin NotSent
     BY <2>1, <3>3, <3>5, Shorter DEF Runs, PipeRuns
   <4>2. \A i, j \in DOMAIN stdin' : stdin'[i] = stdin'[j] /\ stdin'[i] \in Call => i = j
     BY <2>1, Shorter DEF Runs, PipeRuns
   <4>3. \A i \in DOMAIN stdout' : stdout'[i] \in Call => ran'[stdout'[i]] = 1
     BY <2>1, <3>1, <3>5 DEF Runs, PipeRuns
   <4>. QED BY <4>1, <4>2, <4>3 DEF PipeRuns
  <3>. QED BY <3>6, <3>7, <3>8, <3>9 DEF Runs
 <2>. QED BY <2>2, <2>3
<1>9. CASE Srv!ServerAnswers
 <2>1. UNCHANGED <<stdin, ran, http, call, channel, handing>> /\ stdout \in Seq(Call \union {"ping"})
   BY <1>9 DEF Srv!ServerAnswers, Srv!Client, Runs, RunTypes
 <2>2. PICK x \in work \union {"ping"} : stdout' = Append(stdout, x) /\ work' \subseteq work
   BY <1>9 DEF Srv!ServerAnswers
 <2>3. x \in Call \union {"ping"} /\ (x \in Call => ran[x] = 1)
   BY <2>2 DEF Runs, RunTypes, ClientRuns, ServerParameters
 <2>4. /\ stdout' \in Seq(Call \union {"ping"})
       /\ DOMAIN stdout' = DOMAIN stdout \union {Len(stdout) + 1} /\ stdout'[Len(stdout) + 1] = x
       /\ \A i \in DOMAIN stdout : stdout'[i] = stdout[i]
   BY <2>1, <2>2, <2>3, Longer
 <2>5. RunTypes' /\ HttpRuns' BY <2>1, <2>2, <2>4 DEF Runs, RunTypes, HttpRuns
 <2>6. ClientRuns' BY <2>1, <2>2 DEF Runs, ClientRuns
 <2>7. PipeRuns' BY <2>1, <2>3, <2>4 DEF Runs, PipeRuns
 <2>. QED BY <2>5, <2>6, <2>7 DEF Runs
<1>10. ASSUME NEW c \in HttpCall, Srv!Post(c) \/ Srv!HttpOutcome(c)
       PROVE  Runs'
 <2>1. UNCHANGED <<stdin, stdout, work, call, channel, handing>>
   BY <1>10 DEF Srv!Post, Srv!HttpOutcome, Srv!Others, Srv!Client, Srv!Pipes
 <2>2. c \notin Call /\ http[c] \in {"idle", "posted", "retried"} /\ ran[c] = 0
   BY <1>10 DEF Srv!Post, Srv!HttpOutcome, ServerParameters, Runs, HttpRuns
 <2>3. PICK p \in {"posted", "retried", "answer", "error"}, n \in {0, 1} :
         /\ http' = [http EXCEPT ![c] = p] /\ SetAt(ran', c, n)
         /\ (p \in {"posted", "retried"} => n = 0) /\ (p = "answer" => n = 1)
  <3>1. CASE Srv!Post(c) BY <2>2, <3>1 DEF Srv!Post, Runs, RunTypes, SetAt
  <3>2. ASSUME NEW outcome,
               ran' = IF outcome \in {"unauthorized", "refused"} THEN ran ELSE [ran EXCEPT ![c] = @ + 1],
               http' = [http EXCEPT ![c] = IF Srv!Retries(c, outcome) THEN "retried"
                                           ELSE IF outcome = "answer" THEN "answer" ELSE "error"]
        PROVE  \E p \in {"posted", "retried", "answer", "error"}, n \in {0, 1} :
                 /\ http' = [http EXCEPT ![c] = p] /\ SetAt(ran', c, n)
                 /\ (p \in {"posted", "retried"} => n = 0) /\ (p = "answer" => n = 1)
   <4>0. ran \in [Call \union HttpCall -> {0, 1}] /\ ran[c] = 0 BY <2>2 DEF Runs, RunTypes
   <4>2. CASE outcome \in {"unauthorized", "refused"} BY <3>2, <4>0, <4>2 DEF SetAt
   <4>3. CASE outcome \notin {"unauthorized", "refused"}
    <5>1. ran' = [ran EXCEPT ![c] = 1] /\ 1 \in {0, 1} BY <3>2, <4>0, <4>3
    <5>2. SetAt(ran', c, 1) BY <4>0, <5>1 DEF SetAt
    <5>3. CASE outcome = "answer" BY <3>2, <5>1, <5>2, <5>3 DEF Srv!Retries
    <5>4. CASE outcome # "answer" BY <3>2, <4>3, <5>1, <5>2, <5>4 DEF Srv!Retries
    <5>. QED BY <5>3, <5>4
   <4>. QED BY <4>2, <4>3
  <3>. QED BY <1>10, <3>1, <3>2 DEF Srv!HttpOutcome
 <2>4. ran \in [Call \union HttpCall -> {0, 1}] /\ http \in [HttpCall -> {"idle", "posted", "retried", "answer", "error"}]
   BY DEF Runs, RunTypes
 <2>5. RunTypes' BY <2>1, <2>3, <2>4 DEF Runs, RunTypes, SetAt
 <2>6. \A x \in Call : ran'[x] = ran[x] BY <2>2, <2>3, <2>4 DEF SetAt
 <2>7. HttpRuns' BY <2>3, <2>4 DEF Runs, HttpRuns, SetAt
 <2>8. ClientRuns' BY <2>1, <2>6 DEF Runs, RunTypes, ClientRuns
 <2>9. PipeRuns' BY <2>1, <2>6 DEF Runs, PipeRuns
 <2>. QED BY <2>5, <2>7, <2>8, <2>9 DEF Runs
<1>11. CASE (\E c \in Call : Srv!CallerCancels(c)) \/ Srv!BeginReply \/ Srv!Closed \/ Srv!CloseStdin
            \/ Srv!Kill \/ Srv!ServerHangs \/ Srv!ServerExits \/ Srv!ServerSeesEnd \/ Srv!HeirEnds
            \/ Srv!Done \/ UNCHANGED Srv!vars
  BY <1>0, <1>11
     DEF Srv!CallerCancels, Srv!BeginReply, Srv!Closed, Srv!CloseStdin,
         Srv!Kill,
                     Srv!ServerHangs, Srv!ServerExits, Srv!ServerSeesEnd, Srv!HeirEnds, Srv!Done,
                     Srv!vars, Srv!Client, Srv!Pipes, Srv!Process
<1>. QED BY <1>1, <1>2, <1>3, <1>4, <1>5, <1>6, <1>7, <1>8, <1>9, <1>10, <1>11
     DEF Srv!Next, Srv!Step, Srv!Routine

\* Every step keeps the invariant.
LEMMA ServerNext == ServerParameters /\ ServerInv /\ [Srv!Next]_(Srv!vars) => ServerInv'
<1> SUFFICES ASSUME ServerParameters, ServerInv, [Srv!Next]_(Srv!vars)
    PROVE  ServerInv'
  OBVIOUS
<1>1. TableTypes' /\ TableInv' BY TableKept DEF ServerInv
<1>2. Runs' /\ RestTypes' BY RunsKept, RestKept DEF ServerInv
<1>. QED BY <1>1, <1>2 DEF ServerInv

\* The invariant has what is claimed of the clients.
LEMMA ServerImplies == ServerInv => Srv!McpSafe
<1> SUFFICES ASSUME ServerInv
    PROVE  Srv!McpSafe
  OBVIOUS
<1> USE DEF Srv!NONE
<1>1. Srv!TypeOK BY DEF ServerInv, TableTypes, RestTypes, Points, Reply, Srv!TypeOK
<1>2. Srv!NobodyForgotten /\ Srv!HandingNeverWaits
  BY DEF ServerInv, TableInv, Srv!NobodyForgotten, Srv!HandingNeverWaits
<1>3. Srv!RunOnce
 <2>1. DOMAIN ran = Call \union HttpCall /\ \A c \in DOMAIN ran : ran[c] <= 1
   BY DEF ServerInv, Runs, RunTypes
 <2>. QED BY <2>1 DEF ServerInv, Runs, ClientRuns, HttpRuns, Srv!RunOnce
<1>. QED BY <1>1, <1>2, <1>3 DEF Srv!McpSafe

\* For any calls and pipes: a call that waits for an MCP server is not forgotten by a
\* connection that fails, whoever hands over a reply never waits, and no call is run
\* twice, retries included (stdio.go, http.go).
THEOREM CallsOfServersAreSafe ==
    ASSUME ServerParameters
    PROVE  Srv!Spec => []Srv!McpSafe
<1>. QED BY ServerInit, ServerNext, ServerImplies, PTL DEF Srv!Spec

----------------------------------------
(* The helper process.                                                     *)

HelperParameters == MaxTurns \in Nat /\ MaxTools \in Nat

Event == [type : {"turn_start", "turn_end", "tool_start"}, priced : BOOLEAN]
ChildT == [at : {"none", "ready", "asking", "stuck", "dead"}, code : 0..2]
EndedT == [turns : Nat, priced : Nat]
PipeT == [events : Seq(Event), open : BOOLEAN]
ParsedT == [turns : Nat, priced : Nat, tools : Nat, done : BOOLEAN, err : BOOLEAN]

HelperTypes ==
  /\ phase \in {"new", "select", "drain", "wait", "reap", "reaped", "returned"}
  /\ child \in ChildT /\ began \in 0..MaxTurns /\ ended \in EndedT /\ pipe \in PipeT /\ parsed \in ParsedT
  /\ cause \in {"none", "canceled", "deadline", "idle"} /\ force \in {"none", "armed", "fired"}

\* What the child completed is what it began, but for the request it is at, and a
\* child that succeeded was at none.
TurnsInv ==
  /\ ended.priced <= ended.turns /\ ended.turns <= began
  /\ child.at = "asking" => began = ended.turns + 1
  /\ child.at \in {"none", "ready"} \/ (child.at = "dead" /\ child.code = 0) => ended.turns = began
  /\ child.at = "none" => began = 0

\* The parser has seen what the child completed, but for what is in the pipe, as
\* long as nobody closes it; nothing comes after a stream that ended well.
StreamInv ==
  /\ parsed.turns + Number(pipe.events, "turn_end") <= ended.turns
  /\ pipe.open => parsed.turns + Number(pipe.events, "turn_end") = ended.turns
  /\ parsed.tools + Number(pipe.events, "tool_start") <= MaxTools
  /\ parsed.done /\ ~parsed.err => ~Sub!Alive /\ parsed.turns = ended.turns

\* What each point of processRunner.Run has behind it.
PhaseInv ==
  /\ phase = "new" => child.at = "none" /\ ~parsed.done /\ waited.at = "no" /\ term = FALSE
  /\ phase \in {"wait", "reap", "reaped"} => parsed.done
  /\ phase = "reaped" => waited.at = "yes"
  /\ waited.at = "yes" => ~Sub!Alive /\ (waited.code = 0 => child.code = 0)
  /\ term => force # "none"
  /\ phase # "returned" => result = Sub!NoResult

HelperInv ==
  /\ HelperTypes /\ TurnsInv /\ StreamInv /\ PhaseInv
  /\ Sub!Reaped /\ Sub!SuccessIsWhole /\ Sub!UsageIsTrue

\* The initial states have the invariant.
LEMMA HelperInit == HelperParameters /\ Sub!Init => HelperInv
<1> SUFFICES ASSUME HelperParameters, Sub!Init
    PROVE  HelperInv
  OBVIOUS
<1>1. HelperTypes
 <2>1. pipe \in PipeT BY DEF Sub!Init, PipeT
 <2>2. child \in ChildT /\ ended \in EndedT /\ parsed \in ParsedT
   BY DEF Sub!Init, ChildT, EndedT, ParsedT
 <2>. QED BY <2>1, <2>2 DEF Sub!Init, HelperTypes, HelperParameters
<1>2. TurnsInv BY DEF Sub!Init, TurnsInv
<1>3. StreamInv
 <2>1. \A t : Number(<<>>, t) = 0
  <3>1. <<>> \in Seq(Event) OBVIOUS
  <3>. QED BY <3>1, NumberIsNat
 <2>. QED BY <2>1 DEF Sub!Init, StreamInv, HelperParameters
<1>4. PhaseInv BY DEF Sub!Init, PhaseInv
<1>5. Sub!Reaped /\ Sub!SuccessIsWhole /\ Sub!UsageIsTrue
  BY DEF Sub!Init, Sub!Reaped, Sub!SuccessIsWhole, Sub!UsageIsTrue, Sub!NoResult
<1>. QED BY <1>1, <1>2, <1>3, <1>4, <1>5 DEF HelperInv

\* What the child writes reaches the pipe, unless its end is closed.
LEMMA Written ==
    ASSUME HelperTypes, NEW e \in Event, Sub!Write(e)
    PROVE  /\ pipe' \in PipeT /\ pipe'.open = pipe.open /\ Number(pipe'.events, "turn_end") \in Nat
           /\ \A t : Number(pipe'.events, t) =
                       Number(pipe.events, t) + IF pipe.open /\ e.type = t THEN 1 ELSE 0
<1>1. pipe.events \in Seq(Event) /\ pipe.open \in BOOLEAN BY DEF HelperTypes, PipeT
<1>2. CASE pipe.open
 <2>1. pipe' = [pipe EXCEPT !.events = Append(@, e)] BY <1>2 DEF Sub!Write
 <2>2. Append(pipe.events, e) \in Seq(Event) BY <1>1
 <2>3. pipe'.events = Append(pipe.events, e) /\ pipe'.open = pipe.open /\ pipe' \in PipeT
   BY <2>1, <2>2 DEF HelperTypes, PipeT
 <2>4. \A t : Number(pipe'.events, t) = Number(pipe.events, t) + IF e.type = t THEN 1 ELSE 0
   BY <1>1, <2>3, NumberAppended
 <2>5. Number(pipe'.events, "turn_end") \in Nat BY <2>2, <2>3, NumberIsNat
 <2>. QED BY <1>2, <2>3, <2>4, <2>5
<1>3. CASE ~pipe.open
 <2>1. pipe' = pipe BY <1>3 DEF Sub!Write
 <2>2. \A t : Number(pipe.events, t) \in Nat BY <1>1, NumberIsNat
 <2>. QED BY <1>3, <2>1, <2>2 DEF HelperTypes
<1>. QED BY <1>2, <1>3

\* What leaves the stream and the counts of the child alone.
LEMMA StreamStays ==
    ASSUME StreamInv, UNCHANGED <<ended, pipe, parsed>>,
           Sub!Alive' => Sub!Alive \/ ~parsed.done
    PROVE  StreamInv'
  BY DEF StreamInv

\* What an end of the child leaves: it succeeded only when it was at no request.
LEMMA ChildMoves ==
    ASSUME TurnsInv, UNCHANGED <<ended, began>>, child' \in ChildT,
           \/ child' = child
           \/ child'.at = "dead" /\ (child'.code = 0 => child.at = "ready")
           \/ child'.at = "ready" /\ child.at = "none"
           \/ child'.at = "stuck"
    PROVE  TurnsInv'
  BY DEF TurnsInv

\* The result stays, and what it says of the child, which is no longer alive.
LEMMA ResultStays ==
    ASSUME Sub!Reaped, Sub!SuccessIsWhole, Sub!UsageIsTrue, HelperTypes, PhaseInv,
           phase # "returned", phase' # "returned", result' = result, ended' \in EndedT
    PROVE  (Sub!Reaped /\ Sub!SuccessIsWhole /\ Sub!UsageIsTrue)'
<1>1. result' = Sub!NoResult /\ ended'.turns \in Nat BY DEF PhaseInv, EndedT
<1>. QED BY <1>1 DEF Sub!Reaped, Sub!SuccessIsWhole, Sub!UsageIsTrue, Sub!NoResult

\* Every step keeps the invariant.
LEMMA HelperNext == HelperParameters /\ HelperInv /\ [Sub!Next]_(Sub!vars) => HelperInv'
<1> SUFFICES ASSUME HelperParameters, HelperInv, [Sub!Next]_(Sub!vars)
    PROVE  HelperInv'
  OBVIOUS
<1> DEFINE Results == Sub!Reaped /\ Sub!SuccessIsWhole /\ Sub!UsageIsTrue
<1> USE DEF HelperInv
<1>1. CASE Sub!ChildAsks
 <2>0. /\ child.at = "ready" /\ child' = [child EXCEPT !.at = "asking"] /\ began < MaxTurns /\ began' = began + 1
       /\ Sub!Write([type |-> "turn_start", priced |-> FALSE])
       /\ UNCHANGED <<spawn, phase, ended, descendant, parsed, cause, canceled, term, force, waited, result>>
   BY <1>1 DEF Sub!ChildAsks, Sub!stop
 <2>a. child' \in ChildT /\ child'.at = "asking" /\ child'.code = child.code
   BY <2>0 DEF HelperTypes, ChildT
 <2>b. began' \in 0..MaxTurns /\ began \in Nat /\ ended \in EndedT /\ ended' \in EndedT
   BY <2>0 DEF HelperTypes, HelperParameters
 <2>c. /\ pipe' \in PipeT /\ pipe'.open = pipe.open
       /\ \A t \in {"turn_end", "tool_start"} : Number(pipe'.events, t) = Number(pipe.events, t)
  <3>1. [type |-> "turn_start", priced |-> FALSE] \in Event BY DEF Event
  <3>2. Number(pipe.events, "turn_end") \in Nat /\ Number(pipe.events, "tool_start") \in Nat
    BY NumberIsNat DEF HelperTypes, PipeT
  <3>. QED BY <2>0, <3>1, <3>2, Written
 <2>1. HelperTypes' BY <2>0, <2>a, <2>b, <2>c DEF HelperTypes
 <2>2. TurnsInv' BY <2>0, <2>a, <2>b DEF TurnsInv, EndedT
 <2>3. StreamInv' BY <2>0, <2>a, <2>c DEF StreamInv, Sub!Alive
 <2>4. PhaseInv' BY <2>0, <2>a DEF PhaseInv, Sub!Alive
 <2>5. Results' BY <2>0, <2>b, ResultStays DEF Sub!Reaped, Sub!Alive
 <2>. QED BY <2>1, <2>2, <2>3, <2>4, <2>5
<1>2. CASE Sub!ChildAnswers
 <2>0. /\ child.at = "asking" /\ child' = [child EXCEPT !.at = "ready"]
       /\ UNCHANGED <<spawn, phase, began, descendant, parsed, cause, canceled, term, force, waited, result>>
   BY <1>2 DEF Sub!ChildAnswers, Sub!stop
 <2>a. child' \in ChildT /\ child'.at = "ready" /\ child'.code = child.code
   BY <2>0 DEF HelperTypes, ChildT
 <2>b. PICK priced \in BOOLEAN :
         /\ Sub!Write([type |-> "turn_end", priced |-> priced])
         /\ ended' = [turns |-> ended.turns + 1, priced |-> ended.priced + IF priced THEN 1 ELSE 0]
   BY <1>2 DEF Sub!ChildAnswers
 <2>c. /\ ended' \in EndedT /\ ended'.turns = ended.turns + 1 /\ ended'.priced <= ended.priced + 1
       /\ ended.turns \in Nat /\ ended.priced \in Nat /\ began \in Nat
   BY <2>b DEF HelperTypes, EndedT, HelperParameters
 <2>d. /\ pipe' \in PipeT /\ pipe'.open = pipe.open
       /\ Number(pipe.events, "turn_end") \in Nat /\ parsed.turns \in Nat
       /\ Number(pipe'.events, "turn_end") = Number(pipe.events, "turn_end") + IF pipe.open THEN 1 ELSE 0
       /\ Number(pipe'.events, "tool_start") = Number(pipe.events, "tool_start")
  <3>1. [type |-> "turn_end", priced |-> priced] \in Event BY DEF Event
  <3>2. Number(pipe.events, "turn_end") \in Nat /\ Number(pipe.events, "tool_start") \in Nat
    BY NumberIsNat DEF HelperTypes, PipeT
  <3>. QED BY <2>b, <3>1, <3>2, Written DEF HelperTypes, ParsedT
 <2>1. HelperTypes' BY <2>0, <2>a, <2>c, <2>d DEF HelperTypes
 <2>2. TurnsInv' BY <2>0, <2>a, <2>c DEF TurnsInv, HelperTypes, EndedT
 <2>3. StreamInv' BY <2>0, <2>a, <2>c, <2>d DEF StreamInv, Sub!Alive, HelperTypes
 <2>4. PhaseInv' BY <2>0, <2>a DEF PhaseInv, Sub!Alive
 <2>5. Results' BY <2>0, <2>c, ResultStays DEF Sub!Reaped, Sub!Alive
 <2>. QED BY <2>1, <2>2, <2>3, <2>4, <2>5
<1>3. CASE Sub!ChildCallsTool
 <2>0. /\ child.at = "ready" /\ parsed.tools + Number(pipe.events, "tool_start") < MaxTools
       /\ Sub!Write([type |-> "tool_start", priced |-> FALSE])
       /\ UNCHANGED <<spawn, phase, child, began, ended, parsed, cause, canceled, term, force, waited, result>>
   BY <1>3
      DEF Sub!ChildCallsTool, Sub!stop, Sub!Count, Sub!Cardinality, Number,
          Cardinality
 <2>d. /\ pipe' \in PipeT /\ pipe'.open = pipe.open
       /\ Number(pipe.events, "tool_start") \in Nat /\ parsed.tools \in Nat
       /\ Number(pipe'.events, "turn_end") = Number(pipe.events, "turn_end")
       /\ Number(pipe'.events, "tool_start") <= Number(pipe.events, "tool_start") + 1
       /\ Number(pipe'.events, "tool_start") \in Nat
  <3>1. [type |-> "tool_start", priced |-> FALSE] \in Event BY DEF Event
  <3>2. Number(pipe.events, "turn_end") \in Nat /\ Number(pipe.events, "tool_start") \in Nat
    BY NumberIsNat DEF HelperTypes, PipeT
  <3>. QED BY <2>0, <3>1, <3>2, Written DEF HelperTypes, ParsedT
 <2>1. HelperTypes' BY <2>0, <2>d DEF HelperTypes
 <2>2. TurnsInv' BY <2>0 DEF TurnsInv
 <2>3. StreamInv' BY <2>0, <2>d DEF StreamInv, Sub!Alive, HelperParameters
 <2>4. PhaseInv' BY <2>0 DEF PhaseInv, Sub!Alive
 <2>5. Results' BY <2>0, ResultStays DEF Sub!Reaped, Sub!Alive, HelperTypes
 <2>. QED BY <2>1, <2>2, <2>3, <2>4, <2>5
<1>4. CASE Sub!ChildHangs
 <2>0. /\ child' \in ChildT /\ child'.at = "stuck" /\ Sub!Alive
       /\ UNCHANGED <<spawn, phase, began, ended, descendant, pipe, parsed, cause, canceled, term, force, waited, result>>
   BY <1>4 DEF Sub!ChildHangs, Sub!stop, Sub!Alive, HelperTypes, ChildT
 <2>1. HelperTypes' BY <2>0 DEF HelperTypes
 <2>2. TurnsInv' BY <1>4 DEF Sub!ChildHangs, Sub!stop, TurnsInv
 <2>3. StreamInv' BY <1>4, StreamStays DEF Sub!ChildHangs, Sub!stop, Sub!Alive
 <2>4. PhaseInv' BY <1>4 DEF Sub!ChildHangs, Sub!stop, PhaseInv, Sub!Alive
 <2>5. Results' BY <2>0, ResultStays DEF Sub!Reaped, HelperTypes
 <2>. QED BY <2>1, <2>2, <2>3, <2>4, <2>5
<1>5. CASE Sub!ChildExits
 <2>0. /\ child' \in ChildT /\ child'.at = "dead" /\ Sub!Alive
       /\ UNCHANGED <<spawn, phase, began, ended, descendant, pipe, parsed, cause, canceled, term, force, waited, result>>
   BY <1>5 DEF Sub!ChildExits, Sub!stop, Sub!Alive, HelperTypes, ChildT
 <2>1. HelperTypes' BY <2>0 DEF HelperTypes
 <2>2. TurnsInv' BY <1>5 DEF Sub!ChildExits, Sub!stop, TurnsInv
 <2>3. StreamInv' BY <1>5, StreamStays DEF Sub!ChildExits, Sub!stop, Sub!Alive
 <2>4. PhaseInv' BY <1>5 DEF Sub!ChildExits, Sub!stop, PhaseInv, Sub!Alive
 <2>5. Results' BY <2>0, ResultStays DEF Sub!Reaped, HelperTypes
 <2>. QED BY <2>1, <2>2, <2>3, <2>4, <2>5
<1>6. CASE Sub!ChildTerminates
 <2>0. /\ child' \in ChildT /\ child'.at = "dead" /\ child'.code = 1 /\ Sub!Alive
       /\ UNCHANGED <<spawn, phase, began, ended, descendant, pipe, parsed, cause, canceled, term, force, waited, result>>
   BY <1>6 DEF Sub!ChildTerminates, Sub!stop, Sub!Alive, HelperTypes, ChildT
 <2>1. HelperTypes' BY <2>0 DEF HelperTypes
 <2>2. TurnsInv' BY <1>6 DEF Sub!ChildTerminates, Sub!stop, TurnsInv
 <2>3. StreamInv' BY <1>6, StreamStays DEF Sub!ChildTerminates, Sub!stop, Sub!Alive
 <2>4. PhaseInv' BY <1>6 DEF Sub!ChildTerminates, Sub!stop, PhaseInv, Sub!Alive
 <2>5. Results' BY <2>0, ResultStays DEF Sub!Reaped, HelperTypes
 <2>. QED BY <2>1, <2>2, <2>3, <2>4, <2>5
<1>7. CASE Sub!HeirExits
 <2>1. HelperTypes' BY <1>7 DEF Sub!HeirExits, Sub!stop, HelperTypes
 <2>2. TurnsInv' BY <1>7 DEF Sub!HeirExits, Sub!stop, TurnsInv
 <2>3. StreamInv' BY <1>7, StreamStays DEF Sub!HeirExits, Sub!stop, Sub!Alive
 <2>4. PhaseInv' BY <1>7 DEF Sub!HeirExits, Sub!stop, PhaseInv, Sub!Alive
 <2>5. Results'
   BY <1>7
      DEF Sub!HeirExits, Sub!stop, Sub!Reaped, Sub!SuccessIsWhole,
          Sub!UsageIsTrue, Sub!Alive
 <2>. QED BY <2>1, <2>2, <2>3, <2>4, <2>5
<1>8. CASE Sub!CallerCancels
 <2>1. HelperTypes' BY <1>8 DEF Sub!CallerCancels, Sub!Cancel, Sub!Running, Sub!process, HelperTypes
 <2>2. TurnsInv' BY <1>8 DEF Sub!CallerCancels, Sub!Cancel, Sub!Running, Sub!process, TurnsInv
 <2>3. StreamInv'
   BY <1>8, StreamStays
      DEF Sub!CallerCancels, Sub!Cancel, Sub!Running, Sub!process, Sub!Alive
 <2>4. PhaseInv'
   BY <1>8
      DEF Sub!CallerCancels, Sub!Cancel, Sub!Running, Sub!process, PhaseInv,
          Sub!Alive
 <2>5. Results'
   BY <1>8, <2>1, ResultStays
      DEF Sub!CallerCancels, Sub!Cancel, Sub!Running, Sub!process, HelperTypes,
          PhaseInv
 <2>. QED BY <2>1, <2>2, <2>3, <2>4, <2>5
<1>9. CASE Sub!TotalTimer
 <2>1. HelperTypes' BY <1>9 DEF Sub!TotalTimer, Sub!Cancel, Sub!Running, Sub!process, HelperTypes
 <2>2. TurnsInv' BY <1>9 DEF Sub!TotalTimer, Sub!Cancel, Sub!Running, Sub!process, TurnsInv
 <2>3. StreamInv'
   BY <1>9, StreamStays
      DEF Sub!TotalTimer, Sub!Cancel, Sub!Running, Sub!process, Sub!Alive
 <2>4. PhaseInv'
   BY <1>9
      DEF Sub!TotalTimer, Sub!Cancel, Sub!Running, Sub!process, PhaseInv,
          Sub!Alive
 <2>5. Results'
   BY <1>9, <2>1, ResultStays
      DEF Sub!TotalTimer, Sub!Cancel, Sub!Running, Sub!process, HelperTypes,
          PhaseInv
 <2>. QED BY <2>1, <2>2, <2>3, <2>4, <2>5
<1>10. CASE Sub!IdleTimer
 <2>1. HelperTypes' BY <1>10 DEF Sub!IdleTimer, Sub!Cancel, Sub!Running, Sub!process, HelperTypes
 <2>2. TurnsInv' BY <1>10 DEF Sub!IdleTimer, Sub!Cancel, Sub!Running, Sub!process, TurnsInv
 <2>3. StreamInv'
   BY <1>10, StreamStays
      DEF Sub!IdleTimer, Sub!Cancel, Sub!Running, Sub!process, Sub!Alive
 <2>4. PhaseInv'
   BY <1>10
      DEF Sub!IdleTimer, Sub!Cancel, Sub!Running, Sub!process, PhaseInv,
          Sub!Alive
 <2>5. Results'
   BY <1>10, <2>1, ResultStays
      DEF Sub!IdleTimer, Sub!Cancel, Sub!Running, Sub!process, HelperTypes,
          PhaseInv
 <2>. QED BY <2>1, <2>2, <2>3, <2>4, <2>5
<1>11. CASE Sub!ParseFails
 <2>0. /\ parsed' = [parsed EXCEPT !.done = TRUE, !.err = TRUE]
       /\ UNCHANGED <<spawn, phase, child, began, ended, descendant, pipe, cause, canceled, term, force, waited, result>>
   BY <1>11 DEF Sub!ParseFails, Sub!process, Sub!stop
 <2>a. /\ parsed' \in ParsedT /\ parsed'.done = TRUE /\ parsed'.err = TRUE
       /\ parsed'.turns = parsed.turns /\ parsed'.tools = parsed.tools
   BY <2>0 DEF HelperTypes, ParsedT, PipeT
 <2>1. HelperTypes' BY <2>0, <2>a DEF HelperTypes
 <2>2. TurnsInv' BY <1>11 DEF Sub!ParseFails, Sub!Running, Sub!process, Sub!stop, TurnsInv
 <2>3. StreamInv' BY <2>0, <2>a DEF StreamInv
 <2>4. PhaseInv'
   BY <1>11
      DEF Sub!ParseFails, Sub!Running, Sub!process, Sub!stop, PhaseInv,
          Sub!Alive
 <2>5. Results'
   BY <1>11, <2>1, ResultStays
      DEF Sub!ParseFails, Sub!Running, Sub!process, Sub!stop, HelperTypes,
          PhaseInv
 <2>. QED BY <2>1, <2>2, <2>3, <2>4, <2>5
<1>12. CASE Sub!Refuse
 <2>1. HelperTypes' BY <1>12 DEF Sub!Refuse, Sub!Fail, Sub!process, Sub!stop, HelperTypes
 <2>2. TurnsInv' BY <1>12 DEF Sub!Refuse, Sub!Fail, Sub!process, Sub!stop, TurnsInv
 <2>3. StreamInv'
   BY <1>12, StreamStays
      DEF Sub!Refuse, Sub!Fail, Sub!process, Sub!stop, Sub!Alive
 <2>4. PhaseInv' BY <1>12 DEF Sub!Refuse, Sub!Fail, Sub!process, Sub!stop, PhaseInv, Sub!Alive
 <2>5. Results'
  <3>1. /\ result' = [Sub!NoResult EXCEPT !.error = TRUE, !.reported = FALSE] /\ phase = "new"
        /\ UNCHANGED <<child, began, ended, descendant, parsed, term>>
    BY <1>12 DEF Sub!Refuse, Sub!Fail, Sub!process, Sub!stop
  <3>2. result'.reported = FALSE /\ result'.turns = 0 /\ result'.priced = FALSE
    BY <3>1 DEF Sub!NoResult
  <3>3. child.at = "none" /\ began = 0 /\ term = FALSE /\ ended.turns \in Nat
    BY <3>1 DEF PhaseInv, TurnsInv, HelperTypes, EndedT
  <3>. QED BY <3>1, <3>2, <3>3
       DEF Sub!Reaped, Sub!SuccessIsWhole, Sub!UsageIsTrue, Sub!Alive
 <2>. QED BY <2>1, <2>2, <2>3, <2>4, <2>5
<1>13. CASE Sub!Start
 <2>0. /\ phase = "new" /\ phase' = "select" /\ child' = [child EXCEPT !.at = "ready"]
       /\ UNCHANGED <<spawn, began, ended, descendant, pipe, parsed, cause, canceled, term, force, waited, result>>
   BY <1>13 DEF Sub!Start, Sub!stop
 <2>a. child' \in ChildT /\ child'.at = "ready" /\ child.at = "none"
   BY <2>0 DEF HelperTypes, ChildT, PhaseInv
 <2>1. HelperTypes' BY <2>0, <2>a DEF HelperTypes
 <2>2. TurnsInv' BY <2>0, <2>a, ChildMoves
 <2>3. StreamInv' BY <2>0, StreamStays DEF PhaseInv
 <2>4. PhaseInv' BY <2>0, <2>a DEF PhaseInv, Sub!Alive
 <2>5. Results' BY <2>0, ResultStays DEF HelperTypes
 <2>. QED BY <2>1, <2>2, <2>3, <2>4, <2>5
<1>14. CASE Sub!Parse
 <2>0. /\ pipe.events # <<>> /\ ~parsed.done /\ pipe' = [pipe EXCEPT !.events = Tail(@)] /\ Sub!Running
       /\ UNCHANGED <<spawn, phase, child, began, ended, descendant, cause, canceled, term, force, waited, result>>
   BY <1>14 DEF Sub!Parse, Sub!process, Sub!stop
 <2> DEFINE e == Head(pipe.events)
 <2>a. /\ pipe.events \in Seq(Event) /\ Tail(pipe.events) \in Seq(Event) /\ e \in Event
       /\ \A t : /\ Number(Tail(pipe.events), t) \in Nat
                 /\ Number(pipe.events, t) = Number(Tail(pipe.events), t) + IF e.type = t THEN 1 ELSE 0
  <3>1. pipe.events \in Seq(Event) BY DEF HelperTypes, PipeT
  <3>. QED BY ZenonT(40), <2>0, <3>1, NumberRead, NumberIsNat
 <2>b. pipe' \in PipeT /\ pipe'.open = pipe.open /\ pipe'.events = Tail(pipe.events)
   BY <2>0, <2>a DEF HelperTypes, PipeT
 <2>c. PICK i \in {0, 1}, j \in {0, 1}, k \in {0, 1} :
         /\ parsed' = [parsed EXCEPT !.tools = @ + i, !.turns = @ + j, !.priced = @ + k]
         /\ i = (IF e.type = "tool_start" THEN 1 ELSE 0) /\ j = (IF e.type = "turn_end" THEN 1 ELSE 0)
  <3>1. \A b \in BOOLEAN : (IF b THEN 1 ELSE 0) \in {0, 1} OBVIOUS
  <3>2. e.priced \in BOOLEAN BY <2>a DEF Event
  <3>3. parsed' = [parsed EXCEPT
                     !.tools = @ + IF e.type = "tool_start" THEN 1 ELSE 0,
                     !.turns = @ + IF e.type = "turn_end" THEN 1 ELSE 0,
                     !.priced = @ + IF e.priced THEN 1 ELSE 0]
    BY <1>14 DEF Sub!Parse
  <3>. QED BY <3>1, <3>2, <3>3
 <2>d. /\ parsed' \in ParsedT /\ parsed'.done = parsed.done /\ parsed'.err = parsed.err
       /\ parsed'.turns = parsed.turns + j /\ parsed'.tools = parsed.tools + i
       /\ parsed.turns \in Nat /\ parsed.tools \in Nat
  <3>1. parsed.turns \in Nat /\ parsed.tools \in Nat /\ parsed.priced \in Nat /\ parsed \in ParsedT
    BY DEF HelperTypes, ParsedT
  <3>2. PICK x \in Nat, y \in Nat, z \in Nat :
          x = parsed.tools + i /\ y = parsed.turns + j /\ z = parsed.priced + k
    BY <3>1
  <3>3. parsed' = [parsed EXCEPT !.tools = x, !.turns = y, !.priced = z] BY <2>c, <3>2
  <3>. QED BY <3>1, <3>2, <3>3 DEF ParsedT
 <2>1. HelperTypes' BY <2>0, <2>b, <2>d DEF HelperTypes
 <2>2. TurnsInv' BY <1>14 DEF Sub!Parse, Sub!Running, Sub!process, Sub!stop, TurnsInv
 <2>3. StreamInv' BY SMTT(40), <2>0, <2>a, <2>b, <2>c, <2>d DEF StreamInv
 <2>4. PhaseInv'
   BY <1>14
      DEF Sub!Parse, Sub!Running, Sub!process, Sub!stop, PhaseInv, Sub!Alive
 <2>5. Results'
   BY <1>14, <2>1, ResultStays
      DEF Sub!Parse, Sub!Running, Sub!process, Sub!stop, HelperTypes, PhaseInv
 <2>. QED BY <2>1, <2>2, <2>3, <2>4, <2>5
<1>15. CASE Sub!ParseEnds
 <2>0. /\ parsed' = [parsed EXCEPT !.done = TRUE, !.err = ~pipe.open]
       /\ UNCHANGED <<spawn, phase, child, began, ended, descendant, pipe, cause, canceled, term, force, waited, result>>
   BY <1>15 DEF Sub!ParseEnds, Sub!process, Sub!stop
 <2>a. /\ parsed' \in ParsedT /\ parsed'.done = TRUE /\ parsed'.err = ~pipe.open
       /\ parsed'.turns = parsed.turns /\ parsed'.tools = parsed.tools
   BY <2>0 DEF HelperTypes, ParsedT, PipeT
 <2>1. HelperTypes' BY <2>0, <2>a DEF HelperTypes
 <2>2. TurnsInv' BY <1>15 DEF Sub!ParseEnds, Sub!Running, Sub!process, Sub!stop, TurnsInv
 <2>3. StreamInv'
  <3>1. pipe.open => ~Sub!Alive /\ parsed.turns = ended.turns
   <4>1. pipe.events = <<>> /\ (pipe.open => ~Sub!Alive) /\ parsed.turns \in Nat
     BY <1>15 DEF Sub!ParseEnds, HelperTypes, ParsedT
   <4>2. Number(pipe.events, "turn_end") = 0 BY <4>1, NumberIsNat DEF HelperTypes, PipeT
   <4>. QED BY <4>1, <4>2 DEF StreamInv
  <3>. QED BY <2>0, <2>a, <3>1 DEF StreamInv, Sub!Alive
 <2>4. PhaseInv'
   BY <1>15
      DEF Sub!ParseEnds, Sub!Running, Sub!process, Sub!stop, PhaseInv,
          Sub!Alive
 <2>5. Results'
   BY <1>15, <2>1, ResultStays
      DEF Sub!ParseEnds, Sub!Running, Sub!process, Sub!stop, HelperTypes, PhaseInv
 <2>. QED BY <2>1, <2>2, <2>3, <2>4, <2>5
<1>16. CASE Sub!StreamDone
 <2>1. HelperTypes' BY <1>16 DEF Sub!StreamDone, Sub!process, Sub!stop, HelperTypes
 <2>2. TurnsInv' BY <1>16 DEF Sub!StreamDone, Sub!process, Sub!stop, TurnsInv
 <2>3. StreamInv' BY <1>16, StreamStays DEF Sub!StreamDone, Sub!process, Sub!stop, Sub!Alive
 <2>4. PhaseInv' BY <1>16 DEF Sub!StreamDone, Sub!process, Sub!stop, PhaseInv, Sub!Alive
 <2>5. Results'
   BY <1>16, <2>1, ResultStays
      DEF Sub!StreamDone, Sub!process, Sub!stop, HelperTypes, PhaseInv
 <2>. QED BY <2>1, <2>2, <2>3, <2>4, <2>5
<1>17. CASE Sub!ContextDone
 <2>1. HelperTypes' BY <1>17 DEF Sub!ContextDone, Sub!StopChild, Sub!process, HelperTypes
 <2>2. TurnsInv' BY <1>17 DEF Sub!ContextDone, Sub!StopChild, Sub!process, TurnsInv
 <2>3. StreamInv' BY <1>17, StreamStays DEF Sub!ContextDone, Sub!StopChild, Sub!process, Sub!Alive
 <2>4. PhaseInv' BY <1>17 DEF Sub!ContextDone, Sub!StopChild, Sub!process, PhaseInv, Sub!Alive
 <2>5. Results'
   BY <1>17, <2>1, ResultStays
      DEF Sub!ContextDone, Sub!StopChild, Sub!process, HelperTypes, PhaseInv
 <2>. QED BY <2>1, <2>2, <2>3, <2>4, <2>5
<1>18. CASE Sub!Waited
 <2>1. HelperTypes' BY <1>18 DEF Sub!Waited, Sub!process, Sub!stop, HelperTypes
 <2>2. TurnsInv' BY <1>18 DEF Sub!Waited, Sub!process, Sub!stop, TurnsInv
 <2>3. StreamInv' BY <1>18, StreamStays DEF Sub!Waited, Sub!process, Sub!stop, Sub!Alive
 <2>4. PhaseInv' BY <1>18 DEF Sub!Waited, Sub!process, Sub!stop, PhaseInv, Sub!Alive
 <2>5. Results'
   BY <1>18, <2>1, ResultStays
      DEF Sub!Waited, Sub!process, Sub!stop, HelperTypes, PhaseInv
 <2>. QED BY <2>1, <2>2, <2>3, <2>4, <2>5
<1>19. CASE Sub!Return
 <2>1. HelperTypes'
  <3>1. child' \in ChildT BY <1>19 DEF Sub!Return, Sub!KillGroup, HelperTypes, ChildT
  <3>. QED BY <1>19, <3>1 DEF Sub!Return, Sub!stop, HelperTypes
 <2>2. TurnsInv' BY <1>19 DEF Sub!Return, Sub!KillGroup, Sub!stop, TurnsInv
 <2>3. StreamInv' BY <1>19, StreamStays DEF Sub!Return, Sub!KillGroup, Sub!stop, Sub!Alive
 <2>4. PhaseInv' BY <1>19 DEF Sub!Return, Sub!KillGroup, Sub!stop, PhaseInv, Sub!Alive
 <2>5. Results'
  <3>1. /\ phase = "reaped" /\ ~Sub!Alive /\ child' = child /\ parsed.done
        /\ UNCHANGED <<spawn, began, ended, parsed, term>>
        /\ term => (descendant' => spawn.escapes)
    BY <1>19 DEF Sub!Return, Sub!KillGroup, Sub!stop, PhaseInv
  <3>2. PICK unrecorded \in {FALSE, spawn.role} :
          result' = [exit |-> Sub!ExitCode, error |-> canceled \/ unrecorded, reported |-> TRUE,
                     timedOut |-> Sub!TimedOut, turns |-> parsed.turns, tools |-> parsed.tools,
                     priced |-> parsed.turns > 0 /\ parsed.priced = parsed.turns]
    BY <1>19 DEF Sub!Return
  <3>3. /\ result'.exit = Sub!ExitCode /\ result'.reported = TRUE /\ result'.timedOut = Sub!TimedOut
        /\ result'.turns = parsed.turns /\ (result'.priced => parsed.priced = parsed.turns)
    BY <3>2
  <3>4. parsed.turns \in Nat /\ parsed.turns <= ended.turns
   <4>1. Number(pipe.events, "turn_end") \in Nat /\ parsed.turns \in Nat /\ ended.turns \in Nat
     BY NumberIsNat DEF HelperTypes, PipeT, ParsedT, EndedT
   <4>. QED BY <4>1 DEF StreamInv
  <3>5. Sub!ExitCode = 0 =>
          ~Sub!TimedOut /\ waited.code = 0 /\ ~parsed.err /\ parsed.turns # 0
    BY DEF Sub!ExitCode
  <3>6. Sub!ExitCode = 0 => child.code = 0 /\ parsed.turns = ended.turns /\ ended.turns = began
   <4>1. Sub!ExitCode = 0 => child.code = 0 /\ parsed.turns = ended.turns
     BY <3>1, <3>5 DEF PhaseInv, StreamInv
   <4>2. child.at \in {"none", "dead"} BY <3>1 DEF Sub!Alive, HelperTypes, ChildT
   <4>. QED BY <4>1, <4>2 DEF TurnsInv
  <3>7. Sub!Reaped' BY <3>1 DEF Sub!Reaped, Sub!Alive
  <3>8. Sub!SuccessIsWhole' BY <3>1, <3>3, <3>4, <3>5, <3>6 DEF Sub!SuccessIsWhole
  <3>9. Sub!UsageIsTrue' BY <3>1, <3>3, <3>4 DEF Sub!UsageIsTrue
  <3>. QED BY <3>7, <3>8, <3>9
 <2>. QED BY <2>1, <2>2, <2>3, <2>4, <2>5
<1>20. CASE Sub!ForceTimer
 <2>0. /\ child' = (IF Sub!Alive THEN [at |-> "dead", code |-> 1] ELSE child) /\ pipe' = [events |-> <<>>, open |-> FALSE]
       /\ force' = "fired" /\ force = "armed" /\ Sub!Running
       /\ UNCHANGED <<spawn, phase, began, ended, parsed, cause, canceled, term, waited, result>>
   BY <1>20 DEF Sub!ForceTimer, Sub!KillGroup
 <2>a. child' \in ChildT /\ (child' = child \/ (child'.at = "dead" /\ child'.code = 1)) /\ ~Sub!Alive'
   BY <2>0 DEF HelperTypes, ChildT, Sub!Alive
 <2>b. pipe' \in PipeT /\ pipe'.open = FALSE /\ \A t : Number(pipe'.events, t) = 0
  <3>1. <<>> \in Seq(Event) OBVIOUS
  <3>. QED BY <2>0, <3>1, NumberIsNat DEF PipeT
 <2>1. HelperTypes' BY <2>0, <2>a, <2>b DEF HelperTypes
 <2>2. TurnsInv' BY <2>0, <2>a, ChildMoves
 <2>3. StreamInv'
  <3>1. /\ Number(pipe.events, "turn_end") \in Nat /\ Number(pipe.events, "tool_start") \in Nat
        /\ parsed.turns \in Nat /\ parsed.tools \in Nat /\ ended.turns \in Nat
    BY NumberIsNat DEF HelperTypes, PipeT, ParsedT, EndedT
  <3>. QED BY <2>0, <2>a, <2>b, <3>1 DEF StreamInv, HelperParameters
 <2>4. PhaseInv' BY <2>0, <2>a DEF PhaseInv, Sub!Alive
 <2>5. Results' BY <2>0, ResultStays DEF Sub!Running, HelperTypes
 <2>. QED BY <2>1, <2>2, <2>3, <2>4, <2>5
<1>21. CASE Sub!Done \/ UNCHANGED Sub!vars
  BY <1>21
     DEF Sub!Done, Sub!vars, HelperTypes, TurnsInv, StreamInv, PhaseInv, Sub!Reaped,
         Sub!SuccessIsWhole,
              Sub!UsageIsTrue, Sub!Alive
<1>. QED BY <1>1, <1>2, <1>3, <1>4, <1>5, <1>6, <1>7, <1>8, <1>9, <1>10, <1>11, <1>12, <1>13, <1>14,
<1>15, <1>16, <1>17, <1>18, <1>19, <1>20, <1>21
DEF Sub!Next, Sub!Child, Sub!Own

\* The invariant has what is claimed of the helper.
LEMMA HelperImplies == HelperParameters /\ HelperInv => Sub!SubagentSafe
<1> SUFFICES ASSUME HelperParameters, HelperInv
    PROVE  Sub!SubagentSafe
  OBVIOUS
<1>1. /\ Number(pipe.events, "turn_end") \in Nat /\ Number(pipe.events, "tool_start") \in Nat
      /\ parsed.turns \in Nat /\ parsed.tools \in Nat /\ ended.turns \in Nat /\ ended.priced \in Nat
      /\ began \in 0..MaxTurns /\ child.at \in {"none", "ready", "asking", "stuck", "dead"}
  BY NumberIsNat DEF HelperInv, HelperTypes, PipeT, ParsedT, EndedT, ChildT
<1>2. ended.turns \in 0..MaxTurns /\ ended.priced \in 0..ended.turns /\ parsed.turns \in 0..MaxTurns
      /\ parsed.tools \in 0..MaxTools
  BY <1>1 DEF HelperInv, TurnsInv, StreamInv, HelperParameters
<1>. QED BY <1>1, <1>2 DEF HelperInv, HelperTypes, Sub!TypeOK, Sub!SubagentSafe

\* For any numbers of turns, tools and unread events: a helper that is reported as
\* successful answered every request it began and was read to its end, its usage is
\* reported and true, and a call that has returned has left no process behind
\* (processRunner.Run, parseEvents).
THEOREM HelpersAreSafe ==
    ASSUME HelperParameters
    PROVE  Sub!Spec => []Sub!SubagentSafe
<1>. QED BY HelperInit, HelperNext, HelperImplies, PTL DEF Sub!Spec

----------------------------------------
(* The claude process.                                                     *)

ClaudeParameters == EventBuffer \in Nat /\ MaxCalls \in Nat

Message == [type : {"stop", "result"}] \union [type : {"assistant"}, calls : Seq(Nat)]
           \union [type : {"hook", "call"}, call : Nat]

\* The calls that messages of type t are about.
Of(q, t) == {q[i].call : i \in {i \in DOMAIN q : q[i].type = t}}

\* Hooks come in the order of their calls, calls too, and no hook after its call.
Before(m, n) ==
  \/ m.type = n.type /\ m.type \in {"hook", "call"}
  \/ m.type = "call" /\ n.type = "hook"
Ordered(q) == \A i, j \in DOMAIN q : i < j /\ Before(q[i], q[j]) => q[i].call < q[j].call

\* Another message is said.
LEMMA Said ==
    ASSUME NEW q \in Seq(Message), NEW m \in Message
    PROVE  /\ Append(q, m) \in Seq(Message)
           /\ \A t : Of(Append(q, m), t) = Of(q, t) \union {n \in {m.call} : m.type = t}
           /\ Ordered(q) /\ (\A i \in DOMAIN q : Before(q[i], m) => q[i].call < m.call) => Ordered(Append(q, m))
<1>1. /\ Append(q, m) \in Seq(Message) /\ DOMAIN Append(q, m) = DOMAIN q \union {Len(q) + 1}
      /\ Len(q) + 1 \notin DOMAIN q /\ Append(q, m)[Len(q) + 1] = m
      /\ \A i \in DOMAIN q : Append(q, m)[i] = q[i] /\ i < Len(q) + 1 /\ i \in Nat
  OBVIOUS
<1>2. ASSUME NEW t
      PROVE  Of(Append(q, m), t) = Of(q, t) \union {n \in {m.call} : m.type = t}
  BY <1>1 DEF Of
<1>3. ASSUME Ordered(q), \A i \in DOMAIN q : Before(q[i], m) => q[i].call < m.call
      PROVE  Ordered(Append(q, m))
 <2> SUFFICES ASSUME NEW i \in DOMAIN Append(q, m), NEW j \in DOMAIN Append(q, m), i < j,
                     Before(Append(q, m)[i], Append(q, m)[j])
     PROVE  Append(q, m)[i].call < Append(q, m)[j].call
   BY DEF Ordered
 <2>1. i \in DOMAIN q BY <1>1
 <2>2. CASE j \in DOMAIN q BY <1>1, <1>3, <2>1, <2>2 DEF Ordered
 <2>3. CASE j = Len(q) + 1 BY <1>1, <1>3, <2>1, <2>3
 <2>. QED BY <1>1, <2>2, <2>3
<1>. QED BY <1>1, <1>2, <1>3

\* The first message is read.
LEMMA Heard ==
    ASSUME NEW q \in Seq(Message), q # <<>>
    PROVE  /\ Tail(q) \in Seq(Message) /\ Head(q) \in Message
           /\ \A t : Of(q, t) = Of(Tail(q), t) \union {n \in {Head(q).call} : Head(q).type = t}
           /\ Ordered(q) => /\ Ordered(Tail(q))
                            /\ \A i \in DOMAIN Tail(q) : Before(Head(q), Tail(q)[i]) => Head(q).call < Tail(q)[i].call
<1>1. /\ Tail(q) \in Seq(Message) /\ Head(q) \in Message /\ Head(q) = q[1] /\ 1 \in DOMAIN q
      /\ \A i \in DOMAIN Tail(q) : i \in Nat /\ i + 1 \in DOMAIN q /\ Tail(q)[i] = q[i + 1] /\ 1 < i + 1
      /\ \A i, j \in DOMAIN Tail(q) : i < j => i + 1 < j + 1
      /\ \A i \in DOMAIN q : i = 1 \/ (i - 1 \in DOMAIN Tail(q) /\ Tail(q)[i - 1] = q[i])
  OBVIOUS
<1>2. ASSUME NEW t
      PROVE  Of(q, t) = Of(Tail(q), t) \union {n \in {Head(q).call} : Head(q).type = t}
 <2>1. ASSUME NEW x \in Of(q, t)
       PROVE  x \in Of(Tail(q), t) \union {n \in {Head(q).call} : Head(q).type = t}
  <3>1. PICK i \in DOMAIN q : q[i].type = t /\ x = q[i].call BY <2>1 DEF Of
  <3>. QED BY <1>1, <3>1 DEF Of
 <2>2. ASSUME NEW x \in Of(Tail(q), t)
       PROVE  x \in Of(q, t)
   BY <1>1, <2>2 DEF Of
 <2>3. Head(q).type = t => Head(q).call \in Of(q, t) BY <1>1 DEF Of
 <2>. QED BY <2>1, <2>2, <2>3
<1>3. ASSUME Ordered(q)
      PROVE  /\ Ordered(Tail(q))
             /\ \A i \in DOMAIN Tail(q) : Before(Head(q), Tail(q)[i]) => Head(q).call < Tail(q)[i].call
  BY <1>1, <1>3 DEF Ordered
<1>. QED BY <1>1, <1>2, <1>3

\* The calls in the answers among messages are numbers up to n.
Known(q, n) == \A i \in DOMAIN q : q[i].type = "assistant" => Claude!Range(q[i].calls) \subseteq 1..n

\* What a message of each kind carries.
LEMMA MessageParts ==
    ASSUME NEW m \in Message
    PROVE  /\ m.type \in {"stop", "result", "assistant", "hook", "call"}
           /\ m.type = "assistant" => m.calls \in Seq(Nat)
           /\ m.type \in {"hook", "call"} => m.call \in Nat
BY DEF Message

\* Nothing is said.
LEMMA Silence ==
    ASSUME NEW t, NEW n
    PROVE  /\ <<>> \in Seq(Message) /\ Of(<<>>, t) = {} /\ Ordered(<<>>) /\ Known(<<>>, n)
           /\ Number(<<>>, t) = 0
           /\ <<>> \in Seq(Nat) /\ Len(<<>>) = 0
<1>1. <<>> \in Seq(Message) /\ DOMAIN <<>> = {} OBVIOUS
<1>3. <<>> \in Seq(Nat) /\ Len(<<>>) = 0 OBVIOUS
<1>2. Number(<<>>, t) = 0 BY <1>1, NumberIsNat
<1>. QED BY <1>1, <1>2, <1>3 DEF Of, Ordered, Known

\* An answer is said.
LEMMA KnownSaid ==
    ASSUME NEW q \in Seq(Message), NEW m \in Message, NEW n, Known(q, n),
           m.type = "assistant" => Claude!Range(m.calls) \subseteq 1..n
    PROVE  Known(Append(q, m), n)
<1>1. /\ DOMAIN Append(q, m) = DOMAIN q \union {Len(q) + 1} /\ Append(q, m)[Len(q) + 1] = m
      /\ \A i \in DOMAIN q : Append(q, m)[i] = q[i]
  OBVIOUS
<1>. QED BY <1>1 DEF Known

\* An answer is heard.
LEMMA KnownHeard ==
    ASSUME NEW q \in Seq(Message), q # <<>>, NEW n, Known(q, n)
    PROVE  /\ Known(Tail(q), n)
           /\ Head(q).type = "assistant" => Claude!Range(Head(q).calls) \subseteq 1..n
<1>1. /\ Head(q) = q[1] /\ 1 \in DOMAIN q
      /\ \A i \in DOMAIN Tail(q) : i + 1 \in DOMAIN q /\ Tail(q)[i] = q[i + 1]
  OBVIOUS
<1>. QED BY <1>1 DEF Known

\* More calls are numbered.
LEMMA KnownGrows ==
    ASSUME NEW q, NEW n \in Nat, NEW k \in Nat, n <= k, Known(q, n)
    PROVE  Known(q, k)
<1>1. 1..n \subseteq 1..k OBVIOUS
<1>. QED BY <1>1 DEF Known

\* Two messages at once, and three.
LEMMA SaidTogether ==
    ASSUME NEW q \in Seq(Message), NEW l \in Message, NEW m \in Message, NEW n \in Message
    PROVE  /\ q \o <<l, m>> = Append(Append(q, l), m)
           /\ q \o <<l, m, n>> = Append(Append(Append(q, l), m), n)
           /\ q \o <<l>> = Append(q, l)
<1>1. q \o <<l>> = Append(q, l) OBVIOUS
<1>2. q \o <<l, m>> = Append(Append(q, l), m) OBVIOUS
<1>3. q \o <<l, m, n>> = Append(Append(Append(q, l), m), n) OBVIOUS
<1>. QED BY <1>1, <1>2, <1>3

\* A message that is about no call.
LEMMA SaidAside ==
    ASSUME NEW q \in Seq(Message), NEW m \in Message, m.type \notin {"hook", "call"}
    PROVE  /\ Append(q, m) \in Seq(Message)
           /\ Of(Append(q, m), "hook") = Of(q, "hook") /\ Of(Append(q, m), "call") = Of(q, "call")
           /\ Ordered(q) => Ordered(Append(q, m))
<1>1. \A i \in DOMAIN q : ~Before(q[i], m) BY DEF Before
<1>2. \A t \in {"hook", "call"} : {n \in {m.call} : m.type = t} = {} OBVIOUS
<1>3. \A t \in {"hook", "call"} : Of(Append(q, m), t) = Of(q, t)
 <2> TAKE t \in {"hook", "call"}
 <2>1. Of(Append(q, m), t) = Of(q, t) \union {n \in {m.call} : m.type = t} BY Said
 <2>. QED BY <1>2, <2>1
<1>4. Append(q, m) \in Seq(Message) /\ (Ordered(q) => Ordered(Append(q, m))) BY <1>1, Said
<1>. QED BY <1>3, <1>4

\* One that is about no call is heard.
LEMMA HeardAside ==
    ASSUME NEW q \in Seq(Message), q # <<>>, NEW t, Head(q).type # t
    PROVE  Of(Tail(q), t) = Of(q, t)
<1>1. {n \in {Head(q).call} : Head(q).type = t} = {} OBVIOUS
<1>2. Of(q, t) = Of(Tail(q), t) \union {n \in {Head(q).call} : Head(q).type = t} BY Heard
<1>. QED BY <1>1, <1>2

\* The first of the messages that are about calls lo, lo + 1, ..., hi is about lo.
LEMMA FirstOf ==
    ASSUME NEW q \in Seq(Message), q # <<>>, Ordered(q), NEW t \in {"hook", "call"}, Head(q).type = t,
           NEW lo \in Nat, NEW hi \in Nat, Of(q, t) = lo..hi
    PROVE  Head(q).call = lo /\ lo <= hi /\ Of(Tail(q), t) = (lo + 1)..hi
<1> DEFINE h == Head(q).call
           rest == Of(Tail(q), t)
<1>1. lo..hi = rest \union {h}
 <2>1. {n \in {h} : Head(q).type = t} = {h} OBVIOUS
 <2>. QED BY <2>1, Heard
<1>2. ASSUME NEW x \in rest
      PROVE  h < x
 <2>1. PICK i \in DOMAIN Tail(q) : Tail(q)[i].type = t /\ x = Tail(q)[i].call BY <1>2 DEF Of
 <2>2. Before(Head(q), Tail(q)[i]) BY <2>1 DEF Before
 <2>. QED BY <2>1, <2>2, Heard
<1> HIDE DEF h, rest
<1>3. h \in lo..hi /\ h \in Nat /\ \A x \in lo..hi : h <= x
 <2>0. h \in rest \union {h} OBVIOUS
 <2>1. h \in lo..hi BY <1>1, <2>0
 <2>a. h \in Nat BY <2>1
 <2>2. \A x \in lo..hi : x \in rest \/ x = h BY <1>1
 <2>3. \A x \in lo..hi : h < x \/ x = h BY <1>2, <2>2
 <2>. QED BY <2>1, <2>a, <2>3
<1>4. h = lo /\ lo <= hi BY <1>3
<1>5. rest = (lo + 1)..hi
 <2>1. \A x \in rest : x \in (lo + 1)..hi BY <1>1, <1>2, <1>4
 <2>2. \A x \in (lo + 1)..hi : x \in lo..hi /\ x # h BY <1>4
 <2>. QED BY <1>1, <2>1, <2>2
<1>. QED BY <1>4, <1>5 DEF h, rest

----------------------------------------
(* The invariant of the claude process, while every tool stays registered: *)
(* the calls of the current answer are Base + 1, Base + 2, ... and at each *)
(* moment some number j of them has been served.  Those that are announced *)
(* but not served are, in order, in toolQueue and then in the hooks of the *)
(* output; those issued but not served are in the output, each behind its  *)
(* hook.  So a call that is read meets its own announcement.               *)

Base == issued - Len(asked)

TurnTypes ==
  /\ caller \in {"idle", "starting", "streaming", "tools"}
  /\ childpc \in {"off", "booting", "thinking", "calling", "finished"}
  /\ alive \in BOOLEAN /\ failed \in BOOLEAN
  /\ spent \in Nat /\ accounted \in Nat /\ reported \in Nat /\ processes \in Nat

CallTypes ==
  /\ asked \in Seq(Nat) /\ toolQueue \in Seq(Nat)
  /\ hooked \in Nat /\ called \in Nat /\ issued \in Nat
  /\ called <= hooked /\ hooked <= Len(asked) /\ Len(asked) <= issued
  /\ replies \subseteq Nat \X Nat /\ unanswered \subseteq Nat \X Nat

Lines == out \in Seq(Message) /\ events \in Seq(Message) /\ Len(events) <= EventBuffer

\* Results belong to their calls, and none is given before its tool was executed.
Answers ==
  /\ \A r \in replies : r[2] = r[1] /\ r[1] \in executed
  /\ \A p \in unanswered : p[2] = p[1] /\ p[1] \notin executed
  /\ results \subseteq executed /\ executed \subseteq 1..issued /\ content \subseteq 1..issued
  /\ Known(out, issued) /\ Known(events, issued)
  /\ caller = "idle" => ~alive /\ unanswered = {} /\ out = <<>>

\* The first j calls of the answer have been served.
Served(j) ==
  /\ \A r \in replies : r[1] <= Base + j
  /\ \A p \in unanswered : p[1] <= Base + j
  /\ \A c \in executed : c > Base + j => c \in results
  /\ childpc \in {"booting", "thinking", "finished"} => j = Len(asked)

\* The others are announced, and issued, in order.
InOrder(j) ==
  /\ j + Len(toolQueue) <= hooked
  /\ \A i \in 1..Len(toolQueue) : toolQueue[i] = Base + j + i
  /\ Of(out, "hook") = (Base + j + Len(toolQueue) + 1)..(Base + hooked)
  /\ Of(out, "call") = (Base + j + 1)..(Base + called)
  /\ Ordered(out)

Flow ==
  caller # "idle" => /\ \A i \in 1..Len(asked) : asked[i] = Base + i
                     /\ \E j \in 0..called : Served(j) /\ InOrder(j)

\* Every answer the process wrote is one whose usage is still to be accounted.
Account ==
  /\ caller # "idle" => /\ reported = accounted
                        /\ accounted + Number(events, "stop") + Number(out, "stop") <= spent
  /\ caller = "idle" /\ processes > 0 /\ ~failed => reported = spent

ClaudeInv == TurnTypes /\ CallTypes /\ Lines /\ Answers /\ Flow /\ Account

\* It holds at the beginning.
LEMMA ClaudeInit == ClaudeParameters /\ Claude!Init => ClaudeInv
<1> SUFFICES ASSUME ClaudeParameters, Claude!Init
    PROVE  ClaudeInv
  OBVIOUS
<1>0. <<>> \in Seq(Nat) /\ Len(<<>>) = 0 BY Silence
<1>1. TurnTypes BY DEF Claude!Init, TurnTypes
<1>b. CallTypes BY <1>0 DEF Claude!Init, CallTypes
<1>a. Lines BY <1>0, Silence DEF Claude!Init, Lines, ClaudeParameters
<1>2. Answers BY Silence DEF Claude!Init, Answers
<1>3. Flow /\ Account BY DEF Claude!Init, Flow, Account
<1>. QED BY <1>1, <1>a, <1>b, <1>2, <1>3 DEF ClaudeInv

\* What does not touch the order of the calls keeps it.
LEMMA FlowStays ==
    ASSUME Flow, caller' # "idle" => caller # "idle",
           UNCHANGED <<childpc, asked, hooked, called, issued, replies, out, toolQueue, unanswered,
                       results, executed>>
    PROVE  Flow'
<1> SUFFICES ASSUME caller' # "idle"
    PROVE  Flow'
  BY DEF Flow
<1>1. Base' = Base BY DEF Base
<1>2. (\A i \in 1..Len(asked) : asked[i] = Base + i) /\ \E j \in 0..called : Served(j) /\ InOrder(j)
  BY DEF Flow
<1>3. PICK j \in 0..called : Served(j) /\ InOrder(j) BY <1>2
<1>4. Served(j)' BY <1>1, <1>3 DEF Served
<1>5. InOrder(j)' BY <1>1, <1>3 DEF InOrder
<1>. QED BY <1>1, <1>2, <1>4, <1>5 DEF Flow

\* A new process is started.
LEMMA StartKeeps == ClaudeParameters /\ ClaudeInv /\ Claude!Start => ClaudeInv'
<1> SUFFICES ASSUME ClaudeParameters, ClaudeInv, Claude!Start
    PROVE  ClaudeInv'
  OBVIOUS
<1> USE DEF ClaudeInv
<1>1. /\ caller' = "starting" /\ processes' = processes + 1 /\ alive' = TRUE /\ childpc' = "booting"
      /\ asked' = <<>> /\ hooked' = 0 /\ called' = 0 /\ spent' = 0 /\ out' = <<>> /\ events' = <<>>
      /\ toolQueue' = <<>> /\ unanswered' = {} /\ results' = {} /\ content' = {}
      /\ accounted' = 0 /\ reported' = 0 /\ failed' = FALSE
      /\ UNCHANGED <<issued, replies, executed>>
  BY DEF Claude!Start
<1>2. <<>> \in Seq(Message) /\ <<>> \in Seq(Nat) /\ Len(<<>>) = 0 /\ Known(<<>>, issued) BY Silence
<1>3. TurnTypes'
 <2>1. processes' \in Nat BY <1>1 DEF TurnTypes
 <2>. QED BY <1>1, <2>1 DEF TurnTypes
<1>b. CallTypes' BY <1>1, <1>2 DEF CallTypes
<1>a. Lines' BY <1>1, <1>2 DEF Lines, ClaudeParameters
<1>4. Answers' BY <1>1, <1>2 DEF Answers
<1>5. Flow'
 <2>1. Base' = issued /\ issued \in Nat /\ Len(asked') = 0 BY <1>1, <1>2 DEF Base, CallTypes
 <2>2. Served(0)'
  <3>1. \A c \in executed : c \in 1..issued BY DEF Answers
  <3>2. \A c \in executed : c <= issued /\ ~(c > issued) BY <2>1, <3>1
  <3>3. \A r \in replies : r[1] <= issued BY <3>2 DEF Answers
  <3>. QED BY <1>1, <2>1, <3>2, <3>3 DEF Served
 <2>3. InOrder(0)'
  <3>1. Of(<<>>, "hook") = {} /\ Of(<<>>, "call") = {} /\ Ordered(<<>>) BY Silence
  <3>2. /\ Base' + 0 + Len(toolQueue') + 1 = issued + 1 /\ Base' + hooked' = issued
        /\ Base' + 0 + 1 = issued + 1 /\ Base' + called' = issued /\ 0 + Len(toolQueue') = 0
        /\ (issued + 1)..issued = {} /\ 1..Len(toolQueue') = {}
    BY <1>1, <1>2, <2>1
  <3>3. 0 + Len(toolQueue') <= hooked' BY <1>1, <3>2
  <3>4. /\ Of(out', "hook") = (Base' + 0 + Len(toolQueue') + 1)..(Base' + hooked')
        /\ Of(out', "call") = (Base' + 0 + 1)..(Base' + called')
    BY <1>1, <3>1, <3>2
  <3>. QED BY <1>1, <3>1, <3>2, <3>3, <3>4 DEF InOrder
 <2>. QED BY <1>1, <2>1, <2>2, <2>3 DEF Flow
<1>6. Account'
 <2>1. Number(<<>>, "stop") = 0 BY Silence
 <2>. QED BY <1>1, <2>1 DEF Account
<1>. QED BY <1>3, <1>a, <1>b, <1>4, <1>5, <1>6

\* The process is stopped: after an error, or because the prompt ended.
LEMMA StopKeeps ==
    ClaudeParameters /\ ClaudeInv /\ Claude!Stopped /\ caller' = "idle" /\ failed' = TRUE => ClaudeInv'
<1> SUFFICES ASSUME ClaudeParameters, ClaudeInv, Claude!Stopped, caller' = "idle", failed' = TRUE
    PROVE  ClaudeInv'
  OBVIOUS
<1> USE DEF ClaudeInv
<1>1. /\ alive' = FALSE /\ childpc' = "off" /\ asked' = <<>> /\ hooked' = 0 /\ called' = 0
      /\ out' = <<>> /\ events' = <<>> /\ toolQueue' = <<>> /\ unanswered' = {} /\ results' = {} /\ content' = {}
      /\ UNCHANGED <<issued, replies, executed, spent, accounted, reported, processes>>
  BY DEF Claude!Stopped, Claude!bookkeeping
<1>2. <<>> \in Seq(Message) /\ <<>> \in Seq(Nat) /\ Len(<<>>) = 0 /\ Known(<<>>, issued) BY Silence
<1>3. TurnTypes' BY <1>1 DEF TurnTypes
<1>b. CallTypes' BY <1>1, <1>2 DEF CallTypes
<1>a. Lines' BY <1>1, <1>2 DEF Lines, ClaudeParameters
<1>4. Answers' BY <1>1, <1>2 DEF Answers
<1>5. Flow' /\ Account' BY DEF Flow, Account
<1>. QED BY <1>3, <1>a, <1>b, <1>4, <1>5

\* The answers of the process are read by Stream.
LEMMA StreamKeeps ==
    /\ ClaudeParameters /\ ClaudeInv
    /\ Claude!Initialized \/ Claude!ReadAnswer \/ Claude!ReadStop \/ Claude!ReadResult
    => ClaudeInv'
<1> SUFFICES ASSUME ClaudeParameters, ClaudeInv,
                    Claude!Initialized \/ Claude!ReadAnswer \/ Claude!ReadStop \/ Claude!ReadResult
    PROVE  ClaudeInv'
  OBVIOUS
<1> USE DEF ClaudeInv
<1>0. /\ out \in Seq(Message) /\ events \in Seq(Message) /\ Number(out, "stop") \in Nat /\ Number(events, "stop") \in Nat
      /\ accounted \in Nat /\ spent \in Nat /\ reported \in Nat
  BY NumberIsNat DEF TurnTypes, Lines
<1>1. CASE Claude!Initialized
 <2>1. /\ caller # "idle" /\ caller' = "streaming"
       /\ UNCHANGED <<alive, childpc, asked, hooked, called, issued, replies, out, events, toolQueue, unanswered,
                      results, content, executed, spent, accounted, reported, processes, failed>>
   BY <1>1 DEF Claude!Initialized, Claude!child, Claude!bridge, Claude!bookkeeping
 <2>2. TurnTypes' /\ CallTypes' /\ Lines' BY <2>1 DEF TurnTypes, CallTypes, Lines
 <2>3. Answers' BY <2>1 DEF Answers
 <2>4. Flow' BY <2>1, FlowStays
 <2>5. Account' BY <2>1 DEF Account
 <2>. QED BY <2>2, <2>3, <2>4, <2>5
<1>2. CASE Claude!ReadAnswer
 <2>1. /\ caller = "streaming" /\ events # <<>> /\ Head(events).type = "assistant"
       /\ content' \subseteq content \union Claude!Range(Head(events).calls)
       /\ events' = Tail(events)
       /\ UNCHANGED <<caller, alive, childpc, asked, hooked, called, issued, replies, out, toolQueue, unanswered,
                      results, executed, spent, accounted, reported, processes, failed>>
   BY <1>2 DEF Claude!ReadAnswer, Claude!child, Claude!bridge, Claude!bookkeeping
 <2>a. /\ Known(events', issued) /\ Claude!Range(Head(events).calls) \subseteq 1..issued
   BY <1>0, <2>1, KnownHeard DEF Answers
 <2>b. events' \in Seq(Message) /\ Number(events, "stop") = Number(events', "stop") /\ Len(events') <= Len(events)
  <3>1. /\ Tail(events) \in Seq(Message)
        /\ Number(events, "stop") = Number(Tail(events), "stop") + IF Head(events).type = "stop" THEN 1 ELSE 0
    BY <1>0, <2>1, NumberRead
  <3>2. Number(Tail(events), "stop") \in Nat BY <3>1, NumberIsNat
  <3>3. Len(Tail(events)) <= Len(events) BY <1>0, <2>1
  <3>. QED BY <2>1, <3>1, <3>2, <3>3
 <2>2. TurnTypes' /\ CallTypes' /\ Lines'
  <3>1. Len(events') \in Nat /\ Len(events) \in Nat /\ EventBuffer \in Nat
    BY <1>0, <2>b DEF ClaudeParameters
  <3>2. Lines' BY <2>1, <2>b, <3>1 DEF Lines
  <3>3. CallTypes' BY <2>1 DEF CallTypes
  <3>4. accounted' \in Nat /\ reported' \in Nat /\ caller' \in {caller, "tools"} BY <1>0, <2>1
  <3>5. TurnTypes' BY <2>1, <3>4 DEF TurnTypes
  <3>. QED BY <3>2, <3>3, <3>5
 <2>3. Answers' BY <2>1, <2>a DEF Answers
 <2>4. Flow' BY <2>1, FlowStays
 <2>5. Account' BY <2>1, <2>b DEF Account
 <2>. QED BY <2>2, <2>3, <2>4, <2>5
<1>3. CASE Claude!ReadStop
 <2>1. /\ caller = "streaming" /\ events # <<>> /\ Head(events).type = "stop"
       /\ events' = Tail(events)
       /\ \/ UNCHANGED <<caller, accounted, reported>>
          \/ caller' = "tools" /\ accounted' = accounted + 1 /\ reported' = reported + 1
       /\ UNCHANGED <<alive, childpc, asked, hooked, called, issued, replies, out, toolQueue, unanswered,
                      results, content, executed, spent, processes, failed>>
   BY <1>3 DEF Claude!ReadStop, Claude!child, Claude!bridge, Claude!bookkeeping
 <2>a. /\ Known(events', issued) BY <1>0, <2>1, KnownHeard DEF Answers
 <2>b. /\ events' \in Seq(Message) /\ Number(events, "stop") = Number(events', "stop") + 1 /\ Number(events', "stop") \in Nat
       /\ Len(events') <= Len(events)
  <3>1. /\ Tail(events) \in Seq(Message)
        /\ Number(events, "stop") = Number(Tail(events), "stop") + IF Head(events).type = "stop" THEN 1 ELSE 0
    BY <1>0, <2>1, NumberRead
  <3>2. Number(Tail(events), "stop") \in Nat BY <3>1, NumberIsNat
  <3>3. Len(Tail(events)) <= Len(events) BY <1>0, <2>1
  <3>. QED BY <2>1, <3>1, <3>2, <3>3
 <2>2. TurnTypes' /\ CallTypes' /\ Lines'
  <3>1. Len(events') \in Nat /\ Len(events) \in Nat /\ EventBuffer \in Nat
    BY <1>0, <2>b DEF ClaudeParameters
  <3>2. Lines' BY <2>1, <2>b, <3>1 DEF Lines
  <3>3. CallTypes' BY <2>1 DEF CallTypes
  <3>4. accounted' \in Nat /\ reported' \in Nat /\ caller' \in {caller, "tools"} BY <1>0, <2>1
  <3>5. TurnTypes' BY <2>1, <3>4 DEF TurnTypes
  <3>. QED BY <3>2, <3>3, <3>5
 <2>3. Answers' BY <2>1, <2>a DEF Answers
 <2>4. Flow' BY <2>1, FlowStays
 <2>5. Account'
  <3>1. /\ accounted \in Nat /\ reported \in Nat /\ spent \in Nat /\ Number(events, "stop") \in Nat
        /\ Number(out, "stop") \in Nat
    BY <1>0, <2>b, NumberIsNat DEF TurnTypes, Lines
  <3>2. reported = accounted /\ accounted + Number(events, "stop") + Number(out, "stop") <= spent
    BY <2>1 DEF Account
  <3>3. CASE UNCHANGED <<caller, accounted, reported>> BY <2>1, <2>b, <3>1, <3>2, <3>3 DEF Account
  <3>4. CASE caller' = "tools" /\ accounted' = accounted + 1 /\ reported' = reported + 1
    BY <2>1, <2>b, <3>1, <3>2, <3>4 DEF Account
  <3>. QED BY <2>1, <3>3, <3>4
 <2>. QED BY <2>2, <2>3, <2>4, <2>5
<1>4. CASE Claude!ReadResult
 <2>1. /\ caller = "streaming" /\ caller' = "idle" /\ reported' = Claude!FinalUsage
       /\ alive' = FALSE /\ childpc' = "finished"
       /\ out' = <<>> /\ events' = <<>> /\ toolQueue' = <<>> /\ unanswered' = {} /\ results' = {} /\ content' = {}
       /\ UNCHANGED <<asked, hooked, called, issued, replies, executed, spent, accounted, processes, failed>>
   BY <1>4 DEF Claude!ReadResult, Claude!bookkeeping
 <2>2. <<>> \in Seq(Message) /\ <<>> \in Seq(Nat) /\ Len(<<>>) = 0 /\ Known(<<>>, issued) BY Silence
 <2>3. reported' = spent BY <1>0, <2>1 DEF Account, Claude!FinalUsage
 <2>4. TurnTypes' BY <1>0, <2>1, <2>3 DEF TurnTypes
 <2>b. CallTypes' BY <2>1, <2>2 DEF CallTypes
 <2>a. Lines' BY <2>1, <2>2 DEF Lines, ClaudeParameters
 <2>5. Answers' BY <2>1, <2>2 DEF Answers
 <2>6. Flow' /\ Account' BY <2>1, <2>3 DEF Flow, Account
 <2>. QED BY <2>4, <2>a, <2>b, <2>5, <2>6
<1>. QED BY <1>1, <1>2, <1>3, <1>4

\* The tools are executed and their results given.
LEMMA ToolsKeep == ClaudeParameters /\ ClaudeInv /\ Claude!NextStream => ClaudeInv'
<1> SUFFICES ASSUME ClaudeParameters, ClaudeInv, Claude!NextStream
    PROVE  ClaudeInv'
  OBVIOUS
<1> USE DEF ClaudeInv
<1> DEFINE D == executed \union content
<1>1. /\ caller = "tools" /\ caller' = "streaming" /\ executed' = D /\ content' = {}
      /\ replies' = replies \union {<<p[2], p[1]>> : p \in {q \in unanswered : q[1] \in D}}
      /\ results' = results \union (D \ {p[1] : p \in unanswered})
      /\ unanswered' = {p \in unanswered : p[1] \notin D}
      /\ UNCHANGED <<alive, childpc, asked, hooked, called, issued, spent, out, events, toolQueue, processes,
                     accounted, reported, failed>>
  BY DEF Claude!NextStream, Claude!Resolved, Claude!Conversation, Claude!child
<1>2. \A r \in replies' : r \in replies \/ \E p \in unanswered : p[1] \in D /\ r = <<p[2], p[1]>>
  BY <1>1
<1>3. unanswered' \subseteq unanswered /\ \A p \in unanswered' : p[1] \notin D BY <1>1
<1>4. \A p \in unanswered : p[1] \in Nat /\ p[2] \in Nat /\ p[2] = p[1] BY DEF CallTypes, Answers
<1>5. \A r \in replies' : /\ r[2] = r[1] /\ r[1] \in D
                          /\ r \in replies \/ \E p \in unanswered : r[1] = p[1]
 <2> TAKE r \in replies'
 <2>1. CASE r \in replies BY <2>1 DEF CallTypes, Answers
 <2>2. CASE \E p \in unanswered : p[1] \in D /\ r = <<p[2], p[1]>> BY <1>4, <2>2
 <2>. QED BY <1>2, <2>1, <2>2
<1> HIDE DEF D
<1>6. TurnTypes' BY <1>1 DEF TurnTypes
<1>7. CallTypes' /\ Lines'
 <2>1. replies' \subseteq Nat \X Nat
  <3> SUFFICES ASSUME NEW r \in replies'
      PROVE  r \in Nat \X Nat
    OBVIOUS
  <3>1. CASE r \in replies BY <3>1 DEF CallTypes
  <3>2. ASSUME NEW p \in unanswered, r = <<p[2], p[1]>>
        PROVE  r \in Nat \X Nat
    BY <1>4, <3>2
  <3>. QED BY <1>2, <3>1, <3>2
 <2>2. unanswered' \subseteq Nat \X Nat BY <1>3 DEF CallTypes
 <2>. QED BY <1>1, <2>1, <2>2 DEF CallTypes, Lines
<1>8. Answers'
 <2>1. D \subseteq 1..issued /\ results' \subseteq D BY <1>1 DEF Answers, D
 <2>. QED BY <1>1, <1>3, <1>4, <1>5, <2>1 DEF Answers
<1>9. Flow'
 <2>0. Base' = Base BY <1>1 DEF Base
 <2>1. PICK j \in 0..called : Served(j) /\ InOrder(j) BY <1>1 DEF Flow
 <2>2. InOrder(j)' BY <1>1, <2>0, <2>1 DEF InOrder
 <2>3. Served(j)'
  <3>1. \A r \in replies' : r[1] <= Base + j BY <1>5, <2>1 DEF Served
  <3>2. \A p \in unanswered' : p[1] <= Base + j BY <1>3, <2>1 DEF Served
  <3>3. ASSUME NEW c \in D, c > Base + j
        PROVE  c \in results'
   <4>1. \A p \in unanswered : p[1] # c
    <5>. SUFFICES ASSUME NEW p \in unanswered, p[1] = c
         PROVE  FALSE
      OBVIOUS
    <5>1. c <= Base + j /\ c \in Nat /\ Base + j \in Int BY <2>1, <1>4 DEF Served, CallTypes, Base
    <5>. QED BY <3>3, <5>1
   <4>. QED BY <1>1, <4>1
  <3>. QED BY <1>1, <2>0, <2>1, <3>1, <3>2, <3>3 DEF Served
 <2>. QED BY <1>1, <2>0, <2>1, <2>2, <2>3 DEF Flow
<1>10. Account' BY <1>1 DEF Account
<1>. QED BY <1>6, <1>7, <1>8, <1>9, <1>10

\* A message for readStep goes to the channel, and the output ends.
LEMMA ReaderKeeps ==
    ClaudeParameters /\ ClaudeInv /\ (Claude!ReadEvent \/ Claude!ReaderEnds) => ClaudeInv'
<1> SUFFICES ASSUME ClaudeParameters, ClaudeInv, Claude!ReadEvent \/ Claude!ReaderEnds
    PROVE  ClaudeInv'
  OBVIOUS
<1> USE DEF ClaudeInv
<1>1. CASE Claude!ReadEvent
 <2>1. /\ out # <<>> /\ Head(out).type \in {"assistant", "stop", "result"}
       /\ Len(events) < EventBuffer /\ events' = Append(events, Head(out)) /\ out' = Tail(out)
       /\ UNCHANGED <<caller, alive, childpc, asked, hooked, called, issued, replies, toolQueue, unanswered,
                      results, content, executed, spent, accounted, reported, processes, failed>>
   BY <1>1 DEF Claude!ReadEvent, Claude!child, Claude!bridge, Claude!bookkeeping
 <2>2. /\ out \in Seq(Message) /\ events \in Seq(Message) /\ Head(out) \in Message
       /\ out' \in Seq(Message) /\ events' \in Seq(Message) /\ Len(events') = Len(events) + 1
   BY <2>1, Heard DEF Lines
 <2>3. /\ Number(events', "stop") + Number(out', "stop") = Number(events, "stop") + Number(out, "stop")
       /\ Number(events', "stop") \in Nat /\ Number(events, "stop") \in Nat
       /\ Number(out', "stop") \in Nat /\ Number(out, "stop") \in Nat
  <3>1. Number(events', "stop") = Number(events, "stop") + IF Head(out).type = "stop" THEN 1 ELSE 0
    BY <2>1, <2>2, NumberAppended
  <3>2. Number(out, "stop") = Number(out', "stop") + IF Head(out).type = "stop" THEN 1 ELSE 0
    BY <2>1, <2>2, NumberRead
  <3>3. /\ Number(events', "stop") \in Nat /\ Number(events, "stop") \in Nat
        /\ Number(out', "stop") \in Nat /\ Number(out, "stop") \in Nat
    BY <2>2, NumberIsNat
  <3>. QED BY <3>1, <3>2, <3>3
 <2>4. Lines'
  <3>1. Len(events') <= EventBuffer BY <2>1, <2>2 DEF ClaudeParameters
  <3>. QED BY <2>2, <3>1 DEF Lines
 <2>5. TurnTypes' /\ CallTypes' BY <2>1 DEF TurnTypes, CallTypes
 <2>6. Answers'
  <3>1. Known(out', issued) /\ (Head(out).type = "assistant" => Claude!Range(Head(out).calls) \subseteq 1..issued)
    BY <2>1, <2>2, KnownHeard DEF Answers
  <3>2. Known(events', issued) BY <2>1, <2>2, <3>1, KnownSaid DEF Answers
  <3>. QED BY <2>1, <3>1, <3>2 DEF Answers
 <2>7. Flow'
  <3> SUFFICES ASSUME caller # "idle"
      PROVE  Flow'
    BY <2>1 DEF Flow
  <3>0. Base' = Base BY <2>1 DEF Base
  <3>1. PICK j \in 0..called : Served(j) /\ InOrder(j) BY DEF Flow
  <3>2. Served(j)' BY <2>1, <3>0, <3>1 DEF Served
  <3>3. Of(out', "hook") = Of(out, "hook") /\ Of(out', "call") = Of(out, "call") /\ Ordered(out')
   <4>1. Head(out).type # "hook" /\ Head(out).type # "call" BY <2>1
   <4>2. Of(Tail(out), "hook") = Of(out, "hook") /\ Of(Tail(out), "call") = Of(out, "call")
     BY <2>1, <2>2, <4>1, HeardAside
   <4>3. Ordered(out) BY <3>1 DEF InOrder
   <4>4. Ordered(Tail(out)) BY <2>1, <2>2, <4>3, Heard
   <4>. QED BY <2>1, <4>2, <4>4
  <3>4. InOrder(j)' BY <2>1, <3>0, <3>1, <3>3 DEF InOrder
  <3>. QED BY <2>1, <3>0, <3>1, <3>2, <3>4 DEF Flow
 <2>8. Account'
  <3>1. accounted \in Nat /\ spent \in Nat BY DEF TurnTypes
  <3>. QED BY SMTT(40), <2>1, <2>3, <3>1 DEF Account
 <2>. QED BY <2>4, <2>5, <2>6, <2>7, <2>8
<1>2. CASE Claude!ReaderEnds
 <2>1. UNCHANGED <<caller, alive, childpc, asked, hooked, called, issued, replies, toolQueue, unanswered, out, events,
                   results, content, executed, spent, accounted, reported, processes, failed>>
   BY <1>2 DEF Claude!ReaderEnds, Claude!child, Claude!bridge, Claude!bookkeeping
 <2>2. TurnTypes' /\ CallTypes' /\ Lines' BY <2>1 DEF TurnTypes, CallTypes, Lines
 <2>3. Answers' BY <2>1 DEF Answers
 <2>4. Flow' BY <2>1, FlowStays
 <2>5. Account' BY <2>1 DEF Account
 <2>. QED BY <2>2, <2>3, <2>4, <2>5
<1>. QED BY <1>1, <1>2

\* A call is announced.
LEMMA HookKeeps == ClaudeParameters /\ ClaudeInv /\ Claude!ReadHook => ClaudeInv'
<1> SUFFICES ASSUME ClaudeParameters, ClaudeInv, Claude!ReadHook
    PROVE  ClaudeInv'
  OBVIOUS
<1> USE DEF ClaudeInv
<1>1. /\ out # <<>> /\ Head(out).type = "hook" /\ toolQueue' = Append(toolQueue, Head(out).call) /\ out' = Tail(out)
      /\ UNCHANGED <<caller, alive, childpc, asked, hooked, called, issued, replies, events, unanswered,
                     results, content, executed, spent, accounted, reported, processes, failed>>
  BY DEF Claude!ReadHook, Claude!child, Claude!bookkeeping
<1>2. out \in Seq(Message) /\ Head(out) \in Message /\ out' \in Seq(Message) /\ Head(out).call \in Nat
  BY <1>1, Heard, MessageParts DEF Lines
<1>3. caller # "idle" BY <1>1 DEF Answers
<1>4. TurnTypes' /\ Lines' BY <1>1, <1>2 DEF TurnTypes, Lines
<1>5. CallTypes'
 <2>1. toolQueue' \in Seq(Nat) BY <1>1, <1>2 DEF CallTypes
 <2>. QED BY <1>1, <2>1 DEF CallTypes
<1>6. Answers'
 <2>1. Known(out', issued) BY <1>1, <1>2, KnownHeard DEF Answers
 <2>. QED BY <1>1, <2>1 DEF Answers
<1>7. Flow'
 <2>0. Base' = Base /\ Base \in Nat BY <1>1 DEF Base, CallTypes
 <2>1. PICK j \in 0..called : Served(j) /\ InOrder(j) BY <1>3 DEF Flow
 <2>2. Served(j)' BY <1>1, <2>0, <2>1 DEF Served
 <2>3. /\ j \in Nat /\ hooked \in Nat /\ called \in Nat /\ toolQueue \in Seq(Nat) /\ Len(toolQueue) \in Nat
       /\ toolQueue' \in Seq(Nat) /\ Len(toolQueue') = Len(toolQueue) + 1
       /\ toolQueue'[Len(toolQueue) + 1] = Head(out).call
       /\ \A i \in 1..Len(toolQueue) : toolQueue'[i] = toolQueue[i]
   BY <1>1, <1>2, <2>1 DEF CallTypes
 <2>4. PICK n \in Nat : n = Len(toolQueue) BY <2>3
 <2>5. PICK lo \in Nat, hi \in Nat : lo = Base + j + n + 1 /\ hi = Base + hooked BY <2>0, <2>3, <2>4
 <2>6. Head(out).call = lo /\ lo <= hi /\ Of(Tail(out), "hook") = (lo + 1)..hi
  <3>1. Ordered(out) /\ Of(out, "hook") = lo..hi BY <2>1, <2>4, <2>5 DEF InOrder
  <3>. QED BY <1>1, <1>2, <3>1, FirstOf
 <2>7. Of(out', "call") = Of(out, "call") /\ Ordered(out')
  <3>1. Head(out).type # "call" BY <1>1
  <3>2. Of(Tail(out), "call") = Of(out, "call") BY <1>1, <1>2, <3>1, HeardAside
  <3>3. Ordered(Tail(out)) BY <1>1, <1>2, <2>1, Heard DEF InOrder
  <3>. QED BY <1>1, <3>2, <3>3
 <2>8. InOrder(j)'
  <3>1. j + (n + 1) <= hooked BY SMTT(40), <2>0, <2>3, <2>5, <2>6
  <3>2. \A i \in 1..(n + 1) : toolQueue'[i] = Base + j + i
   <4> TAKE i \in 1..(n + 1)
   <4>1. CASE i \in 1..n BY <2>1, <2>3, <2>4, <4>1 DEF InOrder
   <4>2. CASE i = n + 1 BY <2>0, <2>3, <2>4, <2>5, <2>6, <4>2
   <4>. QED BY <4>1, <4>2
  <3>3. lo + 1 = Base + j + (n + 1) + 1 BY SMTT(40), <2>0, <2>3, <2>5
  <3>4. Of(out', "hook") = (Base + j + (n + 1) + 1)..(Base + hooked) BY <1>1, <2>5, <2>6, <3>3
  <3>5. Of(out, "call") = (Base + j + 1)..(Base + called) BY <2>1 DEF InOrder
  <3>6. Len(toolQueue') = n + 1 /\ hooked' = hooked /\ called' = called BY <1>1, <2>3, <2>4
  <3>. QED BY <2>0, <2>7, <3>1, <3>2, <3>4, <3>5, <3>6 DEF InOrder
 <2>9. \A i \in 1..Len(asked) : asked[i] = Base + i BY <1>3 DEF Flow
 <2>. QED BY <1>1, <2>0, <2>1, <2>2, <2>8, <2>9 DEF Flow
<1>8. Account'
 <2>1. Number(out, "stop") = Number(out', "stop") + IF Head(out).type = "stop" THEN 1 ELSE 0
   BY <1>1, <1>2, NumberRead
 <2>2. Number(out', "stop") \in Nat BY <1>2, NumberIsNat
 <2>3. Number(out, "stop") = Number(out', "stop") BY <1>1, <2>1, <2>2
 <2>. QED BY <1>1, <2>3 DEF Account
<1>. QED BY <1>4, <1>5, <1>6, <1>7, <1>8

\* A call is issued: it meets its own announcement, and gets its result or waits for it.
LEMMA CallKeeps == ClaudeParameters /\ ClaudeInv /\ stale = {} /\ Claude!ReadCall => ClaudeInv'
<1> SUFFICES ASSUME ClaudeParameters, ClaudeInv, stale = {}, Claude!ReadCall
    PROVE  ClaudeInv'
  OBVIOUS
<1> USE DEF ClaudeInv
<1> DEFINE c == Head(out).call
           tool == Head(toolQueue)
<1>1. /\ out # <<>> /\ Head(out).type = "call" /\ out' = Tail(out)
      /\ \/ toolQueue = <<>>
         \/ /\ toolQueue # <<>> /\ toolQueue' = Tail(toolQueue)
            /\ \/ tool \in results /\ replies' = replies \union {<<c, tool>>}
                  /\ results' = results \ {tool} /\ unanswered' = unanswered
               \/ tool \notin results /\ unanswered' = unanswered \union {<<tool, c>>}
                  /\ replies' = replies /\ results' = results
      /\ UNCHANGED <<caller, alive, childpc, asked, hooked, called, issued, events,
                     content, executed, spent, accounted, reported, processes, failed>>
  BY DEF Claude!ReadCall, Claude!child, Claude!bookkeeping, Claude!bridge
<1>2. out \in Seq(Message) /\ Head(out) \in Message /\ out' \in Seq(Message) /\ c \in Nat
  BY <1>1, Heard, MessageParts DEF Lines
<1>3. caller # "idle" BY <1>1 DEF Answers
<1> HIDE DEF c, tool
<1>4. PICK j \in 0..called : Served(j) /\ InOrder(j) BY <1>3 DEF Flow
<1>a. /\ j \in Nat /\ called \in Nat /\ hooked \in Nat /\ called <= hooked /\ Base \in Nat
      /\ toolQueue \in Seq(Nat) /\ Len(toolQueue) \in Nat
  BY <1>4 DEF CallTypes, Base
<1>b. Base' = Base BY <1>1 DEF Base
<1>5. c = Base + j + 1 /\ j + 1 <= called /\ Of(out', "call") = (Base + (j + 1) + 1)..(Base + called)
 <2>1. PICK lo \in Nat, hi \in Nat : lo = Base + j + 1 /\ hi = Base + called BY <1>a
 <2>2. Ordered(out) /\ Of(out, "call") = lo..hi BY <1>4, <2>1 DEF InOrder
 <2>3. c = lo /\ lo <= hi /\ Of(Tail(out), "call") = (lo + 1)..hi BY <1>1, <1>2, <2>2, FirstOf DEF c
 <2>4. lo + 1 = Base + (j + 1) + 1 /\ j + 1 <= called BY <1>a, <2>1, <2>3
 <2>. QED BY <1>1, <2>1, <2>3, <2>4
<1>6. Of(out', "hook") = Of(out, "hook") /\ Ordered(out') /\ \A x \in Of(out', "hook") : c < x
 <2>1. Head(out).type # "hook" BY <1>1
 <2>2. Of(Tail(out), "hook") = Of(out, "hook") BY <1>1, <1>2, <2>1, HeardAside
 <2>3. /\ Ordered(Tail(out))
       /\ \A i \in DOMAIN Tail(out) : Before(Head(out), Tail(out)[i]) => c < Tail(out)[i].call
   BY <1>1, <1>2, <1>4, Heard DEF InOrder, c
 <2>4. ASSUME NEW x \in Of(Tail(out), "hook")
       PROVE  c < x
  <3>1. PICK i \in DOMAIN Tail(out) : Tail(out)[i].type = "hook" /\ x = Tail(out)[i].call
    BY <2>4 DEF Of
  <3>2. Before(Head(out), Tail(out)[i]) BY <1>1, <3>1 DEF Before
  <3>. QED BY <2>3, <3>1, <3>2
 <2>. QED BY <1>1, <2>2, <2>3, <2>4
<1>7. toolQueue # <<>>
 <2> SUFFICES ASSUME toolQueue = <<>>
     PROVE  FALSE
   OBVIOUS
 <2>1. Len(toolQueue) = 0 OBVIOUS
 <2>2. Of(out, "hook") = (Base + j + 0 + 1)..(Base + hooked) BY <1>4, <2>1 DEF InOrder
 <2>3. c \in (Base + j + 0 + 1)..(Base + hooked) BY <1>a, <1>5
 <2>4. c \in Of(out', "hook") BY <1>6, <2>2, <2>3
 <2>. QED BY <1>2, <1>6, <2>4
<1>8. /\ tool = c /\ Len(toolQueue') = Len(toolQueue) - 1 /\ toolQueue' \in Seq(Nat) /\ toolQueue' = Tail(toolQueue)
      /\ \A i \in 1..Len(toolQueue') : toolQueue'[i] = Base + (j + 1) + i
 <2>1. /\ toolQueue' = Tail(toolQueue) /\ toolQueue' \in Seq(Nat) /\ Len(toolQueue') = Len(toolQueue) - 1
       /\ Len(toolQueue) > 0 /\ tool = toolQueue[1]
       /\ \A i \in 1..Len(toolQueue') : i + 1 \in 1..Len(toolQueue) /\ toolQueue'[i] = toolQueue[i + 1]
  <3>1. toolQueue' = Tail(toolQueue) BY <1>1, <1>7
  <3>2. Len(toolQueue) > 0 /\ Head(toolQueue) = toolQueue[1] BY <1>7, <1>a
  <3>3. /\ Tail(toolQueue) \in Seq(Nat) /\ Len(Tail(toolQueue)) = Len(toolQueue) - 1
        /\ \A i \in 1..Len(Tail(toolQueue)) : i + 1 \in 1..Len(toolQueue) /\ Tail(toolQueue)[i] = toolQueue[i + 1]
    BY <1>7, <1>a
  <3>. QED BY <3>1, <3>2, <3>3 DEF tool
 <2>2. \A i \in 1..Len(toolQueue) : toolQueue[i] = Base + j + i BY <1>4 DEF InOrder
 <2>3. tool = Base + j + 1 BY <1>a, <2>1, <2>2
 <2>4. ASSUME NEW i \in 1..Len(toolQueue')
       PROVE  toolQueue'[i] = Base + (j + 1) + i
  <3>1. toolQueue'[i] = Base + j + (i + 1) BY <2>1, <2>2
  <3>. QED BY <1>a, <3>1
 <2>. QED BY <1>5, <2>1, <2>3, <2>4
<1>9. \/ c \in results /\ replies' = replies \union {<<c, c>>} /\ results' = results \ {c} /\ unanswered' = unanswered
      \/ c \notin results /\ unanswered' = unanswered \union {<<c, c>>} /\ replies' = replies /\ results' = results
  BY <1>1, <1>7, <1>8
<1>c. <<c, c>> \in Nat \X Nat /\ <<c, c>>[1] = c /\ <<c, c>>[2] = c BY <1>2
<1>10. /\ \A r \in replies' : r \in replies \/ (r = <<c, c>> /\ c \in results)
       /\ \A p \in unanswered' : p \in unanswered \/ (p = <<c, c>> /\ c \notin results)
       /\ results' \subseteq results /\ \A x \in results : x # c => x \in results'
  BY <1>9
<1>11. TurnTypes' /\ Lines' BY <1>1, <1>2 DEF TurnTypes, Lines
<1>12. CallTypes'
 <2>1. \A r \in replies' : r \in Nat \X Nat BY <1>c, <1>10 DEF CallTypes
 <2>2. \A p \in unanswered' : p \in Nat \X Nat BY <1>c, <1>10 DEF CallTypes
 <2>. QED BY <1>1, <1>8, <2>1, <2>2 DEF CallTypes
<1>13. c \in executed => c \in results
 <2>1. c > Base + j BY <1>a, <1>5
 <2>. QED BY <1>4, <2>1 DEF Served
<1>14. Answers'
 <2>1. Known(out', issued) BY <1>1, <1>2, KnownHeard DEF Answers
 <2>2. \A r \in replies' : r[2] = r[1] /\ r[1] \in executed BY <1>c, <1>10 DEF Answers
 <2>3. \A p \in unanswered' : p[2] = p[1] /\ p[1] \notin executed BY <1>c, <1>10, <1>13 DEF Answers
 <2>. QED BY <1>1, <1>3, <1>10, <2>1, <2>2, <2>3 DEF Answers
<1>15. Flow'
 <2>1. Served(j + 1)'
  <3>1. ASSUME NEW r \in replies'
        PROVE  r[1] <= Base + (j + 1)
   <4>1. CASE r \in replies
    <5>1. r[1] <= Base + j /\ r[1] \in Nat BY <1>4, <4>1 DEF Served, CallTypes
    <5>. QED BY <1>a, <5>1
   <4>2. CASE r = <<c, c>> BY <1>a, <1>c, <1>5, <4>2
   <4>. QED BY <1>10, <4>1, <4>2
  <3>2. ASSUME NEW p \in unanswered'
        PROVE  p[1] <= Base + (j + 1)
   <4>1. CASE p \in unanswered
    <5>1. p[1] <= Base + j /\ p[1] \in Nat BY <1>4, <4>1 DEF Served, CallTypes
    <5>. QED BY <1>a, <5>1
   <4>2. CASE p = <<c, c>> BY <1>a, <1>c, <1>5, <4>2
   <4>. QED BY <1>10, <4>1, <4>2
  <3>3. ASSUME NEW x \in executed, x > Base + (j + 1)
        PROVE  x \in results'
   <4>1. x \in Nat /\ x > Base + j /\ x # c
    <5>1. x \in Nat BY DEF Answers, CallTypes
    <5>. QED BY <1>a, <1>5, <3>3, <5>1
   <4>2. x \in results BY <1>4, <4>1 DEF Served
   <4>. QED BY <1>10, <4>1, <4>2
  <3>4. childpc \notin {"booting", "thinking", "finished"}
   <4>1. childpc \in {"booting", "thinking", "finished"} => j = Len(asked) BY <1>4 DEF Served
   <4>2. j < Len(asked) BY <1>a, <1>5 DEF CallTypes
   <4>. QED BY <4>1, <4>2, <1>a
  <3>. QED BY <1>1, <1>b, <3>1, <3>2, <3>3, <3>4 DEF Served
 <2>2. InOrder(j + 1)'
  <3>1. j + Len(toolQueue) <= hooked /\ Of(out, "hook") = (Base + j + Len(toolQueue) + 1)..(Base + hooked)
    BY <1>4 DEF InOrder
  <3>2. (j + 1) + Len(toolQueue') = j + Len(toolQueue) /\ Base + (j + 1) + Len(toolQueue') + 1 = Base + j + Len(toolQueue) + 1
    BY <1>a, <1>8
  <3>3. Of(out', "hook") = (Base + (j + 1) + Len(toolQueue') + 1)..(Base + hooked)
    BY <1>6, <3>1, <3>2
  <3>4. (j + 1) + Len(toolQueue') <= hooked BY <3>1, <3>2
  <3>. QED BY <1>1, <1>b, <1>5, <1>6, <1>8, <3>3, <3>4 DEF InOrder
 <2>3. \A i \in 1..Len(asked) : asked[i] = Base + i BY <1>3 DEF Flow
 <2>4. j + 1 \in 0..called BY <1>a, <1>5
 <2>. QED BY <1>1, <1>b, <2>1, <2>2, <2>3, <2>4 DEF Flow
<1>16. Account'
 <2>1. Number(out, "stop") = Number(out', "stop") + IF Head(out).type = "stop" THEN 1 ELSE 0
   BY <1>1, <1>2, NumberRead
 <2>2. Number(out', "stop") \in Nat BY <1>2, NumberIsNat
 <2>3. Number(out, "stop") = Number(out', "stop") BY <1>1, <2>1, <2>2
 <2>. QED BY <1>1, <2>3 DEF Account
<1>. QED BY <1>11, <1>12, <1>14, <1>15, <1>16

\* The process starts, goes on, or dies.
LEMMA ChildKeeps ==
    /\ ClaudeParameters /\ ClaudeInv
    /\ Claude!ChildBoots \/ Claude!ChildGoesOn \/ Claude!ChildDies
    => ClaudeInv'
<1> SUFFICES ASSUME ClaudeParameters, ClaudeInv,
                    Claude!ChildBoots \/ Claude!ChildGoesOn \/ Claude!ChildDies
    PROVE  ClaudeInv'
  OBVIOUS
<1> USE DEF ClaudeInv
<1>1. /\ alive /\ alive' \in BOOLEAN
      /\ \/ childpc' = childpc
         \/ childpc = "booting" /\ childpc' = "thinking"
         \/ /\ childpc = "calling" /\ childpc' = "thinking"
            /\ \A c \in Claude!Range(asked) : \E r \in replies : r[1] = c
      /\ UNCHANGED <<caller, asked, hooked, called, issued, replies, out, events, toolQueue, unanswered,
                     results, content, executed, spent, accounted, reported, processes, failed>>
  BY DEF Claude!ChildBoots, Claude!ChildGoesOn, Claude!ChildDies, Claude!bridge,
         Claude!bookkeeping, TurnTypes
<1>2. caller # "idle" BY <1>1 DEF Answers
<1>3. TurnTypes' BY <1>1 DEF TurnTypes
<1>4. CallTypes' /\ Lines' BY <1>1 DEF CallTypes, Lines
<1>5. Answers' BY <1>1, <1>2 DEF Answers
<1>6. Account' BY <1>1 DEF Account
<1>7. Flow'
 <2>0. Base' = Base /\ Base \in Nat /\ \A i \in 1..Len(asked) : asked[i] = Base + i
   BY <1>1, <1>2 DEF Base, Flow, CallTypes
 <2>1. PICK j \in 0..called : Served(j) /\ InOrder(j) BY <1>2 DEF Flow
 <2>2. InOrder(j)' BY <1>1, <2>0, <2>1 DEF InOrder
 <2>3. childpc' \in {"booting", "thinking", "finished"} => j = Len(asked)
  <3>1. CASE childpc' = childpc \/ childpc = "booting" BY <3>1, <2>1 DEF Served
  <3>2. CASE \A c \in Claude!Range(asked) : \E r \in replies : r[1] = c
   <4>1. j \in Nat /\ Len(asked) \in Nat /\ j <= Len(asked) BY <2>1 DEF CallTypes
   <4>2. CASE Len(asked) = 0 BY <4>1, <4>2
   <4>3. CASE Len(asked) # 0
    <5>1. Len(asked) \in 1..Len(asked) /\ Len(asked) \in DOMAIN asked BY <4>1, <4>3 DEF CallTypes
    <5>2. asked[Len(asked)] = Base + Len(asked) /\ asked[Len(asked)] \in Claude!Range(asked)
      BY <2>0, <5>1 DEF Claude!Range
    <5>3. PICK r \in replies : r[1] = Base + Len(asked) BY <3>2, <5>2
    <5>4. Base + Len(asked) <= Base + j BY <2>1, <5>3 DEF Served
    <5>. QED BY <2>0, <4>1, <5>4
   <4>. QED BY <4>2, <4>3
  <3>. QED BY <1>1, <3>1, <3>2
 <2>4. Served(j)' BY <1>1, <2>0, <2>1, <2>3 DEF Served
 <2>. QED BY <1>1, <2>0, <2>1, <2>2, <2>4 DEF Flow
<1>. QED BY <1>3, <1>4, <1>5, <1>6, <1>7

\* An announcement is written, or a call that was announced.
LEMMA ChildAsksKeep ==
    ClaudeParameters /\ ClaudeInv /\ (Claude!ChildHooks \/ Claude!ChildCalls) => ClaudeInv'
<1> SUFFICES ASSUME ClaudeParameters, ClaudeInv, Claude!ChildHooks \/ Claude!ChildCalls
    PROVE  ClaudeInv'
  OBVIOUS
<1> USE DEF ClaudeInv
<1>1. PICK t \in {"hook", "call"}, k \in Nat :
        /\ alive /\ childpc = "calling"
        /\ out' = out \o <<[type |-> t, call |-> asked[k + 1]]>>
        /\ \/ t = "hook" /\ k = hooked /\ hooked < Len(asked) /\ hooked' = hooked + 1 /\ called' = called
           \/ t = "call" /\ k = called /\ called < hooked /\ called' = called + 1 /\ hooked' = hooked
        /\ UNCHANGED <<caller, alive, childpc, asked, issued, replies, events, toolQueue, unanswered,
                       results, content, executed, spent, accounted, reported, processes, failed>>
 <2>1. CASE Claude!ChildHooks
   BY <2>1 DEF Claude!ChildHooks, Claude!Says, Claude!bridge, Claude!bookkeeping, CallTypes
 <2>2. CASE Claude!ChildCalls
   BY <2>2 DEF Claude!ChildCalls, Claude!Says, Claude!bridge, Claude!bookkeeping, CallTypes
 <2>. QED BY <2>1, <2>2
<1>2. caller # "idle" BY <1>1 DEF Answers
<1>a. /\ k \in Nat /\ called \in Nat /\ hooked \in Nat /\ called <= hooked /\ hooked <= Len(asked) /\ Base \in Nat
      /\ Len(asked) \in Nat /\ Base' = Base /\ k < Len(asked) /\ called <= k /\ k <= hooked
 <2>1. called \in Nat /\ hooked \in Nat /\ called <= hooked /\ hooked <= Len(asked) /\ Len(asked) \in Nat
   BY DEF CallTypes
 <2>2. Base \in Nat /\ Base' = Base BY <1>1 DEF CallTypes, Base
 <2>. QED BY <1>1, <2>1, <2>2
<1> DEFINE m == [type |-> t, call |-> Base + (k + 1)]
<1>3. m \in Message /\ m.type = t /\ m.call = Base + (k + 1) /\ out' = Append(out, m) /\ out \in Seq(Message)
 <2>1. k + 1 \in 1..Len(asked) BY <1>a
 <2>2. asked[k + 1] = Base + (k + 1) BY <1>2, <2>1 DEF Flow
 <2>3. Base + (k + 1) \in Nat BY <1>a
 <2>4. m \in Message BY <2>3 DEF Message
 <2>. QED BY <1>1, <2>2, <2>4, SaidTogether DEF Lines
<1> HIDE DEF m
<1>4. TurnTypes' BY <1>1 DEF TurnTypes
<1>5. CallTypes'
 <2>1. called' \in Nat /\ hooked' \in Nat /\ called' <= hooked' /\ hooked' <= Len(asked)
   BY <1>1, <1>a
 <2>. QED BY <1>1, <2>1 DEF CallTypes
<1>6. Lines' BY <1>1, <1>3, Said DEF Lines
<1>7. Answers'
 <2>1. Known(out', issued) BY <1>3, KnownSaid DEF Answers
 <2>. QED BY <1>1, <1>2, <2>1 DEF Answers
<1>8. Account'
 <2>1. Number(out', "stop") = Number(out, "stop") + IF m.type = "stop" THEN 1 ELSE 0
   BY <1>3, NumberAppended
 <2>2. Number(out, "stop") \in Nat BY <1>3, NumberIsNat
 <2>3. Number(out', "stop") = Number(out, "stop") BY <1>3, <2>1, <2>2
 <2>. QED BY <1>1, <2>3 DEF Account
<1>9. Flow'
 <2>1. PICK j \in 0..called : Served(j) /\ InOrder(j) BY <1>2 DEF Flow
 <2>2. Served(j)' BY <1>1, <1>a, <2>1 DEF Served
 <2>3. Of(out, "hook") = (Base + j + Len(toolQueue) + 1)..(Base + hooked) /\ Of(out, "call") = (Base + j + 1)..(Base + called)
       /\ Ordered(out) /\ j + Len(toolQueue) <= hooked /\ Len(toolQueue) \in Nat /\ j \in Nat
   BY <2>1 DEF InOrder, CallTypes
 <2>4. Ordered(out')
  <3>1. ASSUME NEW i \in DOMAIN out, Before(out[i], m)
        PROVE  out[i].call < m.call
   <4>1. CASE t = "hook"
    <5>1. out[i].type \in {"hook", "call"} BY <1>3, <3>1, <4>1 DEF Before
    <5>2. out[i].call \in Of(out, "hook") \/ out[i].call \in Of(out, "call") BY <5>1 DEF Of
    <5>3. out[i].call <= Base + k /\ out[i].call \in Int BY SMTT(40), <1>1, <1>a, <2>3, <4>1, <5>2
    <5>. QED BY <1>3, <1>a, <5>3
   <4>2. CASE t = "call"
    <5>1. out[i].type = "call" BY <1>3, <3>1, <4>2 DEF Before
    <5>2. out[i].call \in Of(out, "call") BY <5>1 DEF Of
    <5>3. out[i].call <= Base + k /\ out[i].call \in Int BY SMTT(40), <1>1, <1>a, <2>3, <4>2, <5>2
    <5>. QED BY <1>3, <1>a, <5>3
   <4>. QED BY <4>1, <4>2
  <3>. QED BY <1>3, <2>3, <3>1, Said
 <2>5. \A s \in {"hook", "call"} : Of(out', s) = IF s = t THEN Of(out, s) \union {Base + (k + 1)} ELSE Of(out, s)
  <3> TAKE s \in {"hook", "call"}
  <3>1. Of(out', s) = Of(out, s) \union {n \in {m.call} : m.type = s} BY <1>3, Said
  <3>2. CASE s = t BY <1>3, <3>1, <3>2
  <3>3. CASE s # t BY <1>3, <3>1, <3>3
  <3>. QED BY <3>2, <3>3
 <2>6. /\ Of(out', "hook") = (Base + j + Len(toolQueue) + 1)..(Base + hooked')
       /\ Of(out', "call") = (Base + j + 1)..(Base + called')
  <3>1. PICK l \in Nat, u \in Nat : l = Base + j + Len(toolQueue) + 1 /\ u = Base + hooked
    BY <1>a, <2>3
  <3>2. PICK v \in Nat, w \in Nat : v = Base + j + 1 /\ w = Base + called BY <1>a, <2>3
  <3>3. l <= u + 1 /\ v <= w + 1 /\ l..(u + 1) = (l..u) \union {u + 1} /\ v..(w + 1) = (v..w) \union {w + 1}
   <4>1. l <= u + 1 /\ v <= w + 1 BY <1>a, <2>1, <2>3, <3>1, <3>2
   <4>. QED BY <4>1
  <3>4. CASE t = "hook"
   <4>1. Base + (k + 1) = u + 1 /\ Base + hooked' = u + 1 /\ called' = called
     BY <1>1, <1>a, <3>1, <3>4
   <4>2. Of(out', "hook") = Of(out, "hook") \union {u + 1} /\ Of(out', "call") = Of(out, "call")
     BY <2>5, <3>4, <4>1
   <4>. QED BY <2>3, <3>1, <3>3, <4>1, <4>2
  <3>5. CASE t = "call"
   <4>1. Base + (k + 1) = w + 1 /\ Base + called' = w + 1 /\ hooked' = hooked
     BY <1>1, <1>a, <3>2, <3>5
   <4>2. Of(out', "call") = Of(out, "call") \union {w + 1} /\ Of(out', "hook") = Of(out, "hook")
     BY <2>5, <3>5, <4>1
   <4>. QED BY <2>3, <3>2, <3>3, <4>1, <4>2
  <3>. QED BY <3>4, <3>5
 <2>7. InOrder(j)'
  <3>1. j + Len(toolQueue) <= hooked' BY <1>1, <1>a, <2>3
  <3>. QED BY <1>1, <1>a, <2>1, <2>4, <2>6, <3>1 DEF InOrder
 <2>8. j \in 0..called' BY <1>1, <1>a, <2>1
 <2>9. \A i \in 1..Len(asked) : asked[i] = Base + i BY <1>2 DEF Flow
 <2>. QED BY <1>1, <1>a, <2>2, <2>7, <2>8, <2>9 DEF Flow
<1>. QED BY <1>4, <1>5, <1>6, <1>7, <1>8, <1>9

\* The answers that end in what is said.
LEMMA StopSaid ==
    ASSUME NEW q \in Seq(Message), NEW m \in Message
    PROVE  Number(Append(q, m), "stop") = Number(q, "stop") + IF m.type = "stop" THEN 1 ELSE 0
BY NumberAppended

\* When the process thinks, everything it asked for has been served.
LEMMA NothingLeft ==
    ASSUME ClaudeInv, caller # "idle", childpc = "thinking"
    PROVE  /\ Of(out, "hook") = {} /\ Of(out, "call") = {} /\ Len(toolQueue) = 0 /\ Ordered(out)
           /\ Served(Len(asked)) /\ called = Len(asked) /\ hooked = Len(asked)
<1> USE DEF ClaudeInv
<1>1. PICK j \in 0..called : Served(j) /\ InOrder(j) BY DEF Flow
<1>2. j = Len(asked) BY <1>1 DEF Served
<1>3. /\ j \in Nat /\ Len(asked) \in Nat /\ called \in Nat /\ hooked \in Nat /\ called <= hooked /\ hooked <= Len(asked)
      /\ Base \in Nat /\ Len(toolQueue) \in Nat
  BY <1>1 DEF CallTypes, Base
<1>4. called = Len(asked) /\ hooked = Len(asked) BY <1>1, <1>2, <1>3
<1>5. Len(toolQueue) = 0 BY <1>1, <1>2, <1>3, <1>4 DEF InOrder
<1>6. Of(out, "hook") = {} /\ Of(out, "call") = {} /\ Ordered(out)
 <2>1. (Base + j + Len(toolQueue) + 1)..(Base + hooked) = {} /\ (Base + j + 1)..(Base + called) = {}
   BY <1>2, <1>3, <1>4, <1>5
 <2>. QED BY <1>1, <2>1 DEF InOrder
<1>. QED BY <1>1, <1>2, <1>4, <1>5, <1>6

\* An answer with calls is written.
LEMMA AnswerKeeps == ClaudeParameters /\ ClaudeInv /\ Claude!ChildAnswers => ClaudeInv'
<1> SUFFICES ASSUME ClaudeParameters, ClaudeInv, Claude!ChildAnswers
    PROVE  ClaudeInv'
  OBVIOUS
<1> USE DEF ClaudeInv
<1>1. PICK n \in 1..MaxCalls :
        /\ alive /\ childpc = "thinking" /\ childpc' = "calling" /\ spent' = spent + 1 /\ hooked' = 0 /\ called' = 0
        /\ asked' = [i \in 1..n |-> issued + i] /\ issued' = issued + n
        /\ out' = out \o <<[type |-> "assistant", calls |-> [i \in 1..n |-> issued + i]], [type |-> "stop"]>>
        /\ UNCHANGED <<caller, alive, replies, events, toolQueue, unanswered, results, content, executed,
                       accounted, reported, processes, failed>>
  BY DEF Claude!ChildAnswers, Claude!Says, Claude!bridge, Claude!bookkeeping
<1>2. caller # "idle" /\ n \in Nat /\ issued \in Nat /\ issued' \in Nat /\ issued <= issued' /\ issued + n = issued'
  BY <1>1 DEF Answers, CallTypes, ClaudeParameters
<1>3. /\ asked' \in Seq(Nat) /\ Len(asked') = n /\ Base' = issued
      /\ \A i \in 1..n : asked'[i] = issued + i
      /\ Claude!Range(asked') \subseteq 1..issued'
 <2>1. asked' \in Seq(Nat) /\ Len(asked') = n /\ DOMAIN asked' = 1..n BY <1>1, <1>2
 <2>2. \A i \in 1..n : asked'[i] = issued + i /\ asked'[i] \in 1..issued' BY <1>1, <1>2
 <2>3. Base' = issued BY <1>1, <1>2, <2>1 DEF Base
 <2>. QED BY <2>1, <2>2, <2>3 DEF Claude!Range
<1> DEFINE ans == [type |-> "assistant", calls |-> asked']
           z == [type |-> "stop"]
<1>4. /\ ans \in Message /\ z \in Message /\ ans.type = "assistant" /\ z.type = "stop" /\ ans.calls = asked'
  BY <1>3 DEF Message
<1>5. out' = Append(Append(out, ans), z) /\ out \in Seq(Message)
 <2>1. out' = out \o <<ans, z>> BY <1>1
 <2>2. out \in Seq(Message) BY DEF Lines
 <2> HIDE DEF ans, z
 <2>. QED BY <1>4, <2>1, <2>2, SaidTogether
<1> HIDE DEF ans, z
<1>6. Append(out, ans) \in Seq(Message) /\ out' \in Seq(Message) BY <1>4, <1>5, SaidAside
<1>7. Of(out', "hook") = {} /\ Of(out', "call") = {} /\ Ordered(out') /\ Len(toolQueue) = 0 /\ Served(Len(asked))
 <2>1. /\ Of(out, "hook") = {} /\ Of(out, "call") = {} /\ Len(toolQueue) = 0 /\ Ordered(out) /\ Served(Len(asked))
   BY <1>1, <1>2, NothingLeft
 <2>2. Of(Append(out, ans), "hook") = {} /\ Of(Append(out, ans), "call") = {} /\ Ordered(Append(out, ans))
   BY <1>4, <1>5, <2>1, SaidAside
 <2>3. Of(out', "hook") = {} /\ Of(out', "call") = {} /\ Ordered(out')
   BY <1>4, <1>5, <1>6, <2>2, SaidAside
 <2>. QED BY <2>1, <2>3
<1>8. TurnTypes'
 <2>1. spent' \in Nat BY <1>1 DEF TurnTypes
 <2>. QED BY <1>1, <2>1 DEF TurnTypes
<1>9. CallTypes'
 <2>1. called' <= hooked' /\ hooked' <= Len(asked') /\ Len(asked') <= issued' /\ hooked' \in Nat /\ called' \in Nat
   BY <1>1, <1>2, <1>3
 <2>. QED BY <1>1, <1>2, <1>3, <2>1 DEF CallTypes
<1>10. Lines' BY <1>1, <1>6 DEF Lines
<1>11. Answers'
 <2>1. Known(out, issued') /\ Known(events, issued') BY <1>2, KnownGrows DEF Answers
 <2>2. Known(Append(out, ans), issued') BY <1>3, <1>4, <1>5, <2>1, KnownSaid
 <2>3. Known(out', issued') BY <1>4, <1>5, <1>6, <2>2, KnownSaid
 <2>4. 1..issued \subseteq 1..issued' BY <1>2
 <2>. QED BY <1>1, <1>2, <2>1, <2>3, <2>4 DEF Answers
<1>12. Account'
 <2>1. Number(Append(out, ans), "stop") = Number(out, "stop") + IF ans.type = "stop" THEN 1 ELSE 0
   BY <1>4, <1>5, StopSaid
 <2>2. Number(out', "stop") = Number(Append(out, ans), "stop") + IF z.type = "stop" THEN 1 ELSE 0
   BY <1>4, <1>5, <1>6, StopSaid
 <2>3. Number(out, "stop") \in Nat /\ Number(events, "stop") \in Nat BY NumberIsNat DEF Lines
 <2>4. Number(out', "stop") = Number(out, "stop") + 1 BY <1>4, <2>1, <2>2, <2>3
 <2>5. accounted \in Nat /\ spent \in Nat BY DEF TurnTypes
 <2>. QED BY <1>1, <1>2, <2>3, <2>4, <2>5 DEF Account
<1>13. Flow'
 <2>0. Base + Len(asked) = issued BY <1>2 DEF Base, CallTypes
 <2>1. Served(0)'
  <3>1. \A r \in replies : r[1] <= issued BY <1>7, <2>0 DEF Served
  <3>2. \A p \in unanswered : p[1] <= issued BY <1>7, <2>0 DEF Served
  <3>3. \A c \in executed : ~(c > issued) BY <1>2 DEF Answers
  <3>4. Base' + 0 = issued BY <1>2, <1>3
  <3>. QED BY <1>1, <3>1, <3>2, <3>3, <3>4 DEF Served
 <2>2. InOrder(0)'
  <3>1. /\ Base' + 0 + Len(toolQueue') + 1 = issued + 1 /\ Base' + hooked' = issued
        /\ Base' + 0 + 1 = issued + 1 /\ Base' + called' = issued /\ 0 + Len(toolQueue') = 0
        /\ (issued + 1)..issued = {} /\ 1..Len(toolQueue') = {}
    BY <1>1, <1>2, <1>3, <1>7
  <3>3. 0 + Len(toolQueue') <= hooked' BY <1>1, <3>1
  <3>4. /\ Of(out', "hook") = (Base' + 0 + Len(toolQueue') + 1)..(Base' + hooked')
        /\ Of(out', "call") = (Base' + 0 + 1)..(Base' + called')
    BY <1>7, <3>1
  <3>. QED BY <1>7, <3>1, <3>3, <3>4 DEF InOrder
 <2>. QED BY <1>1, <1>3, <2>1, <2>2 DEF Flow
<1>. QED BY <1>8, <1>9, <1>10, <1>11, <1>12, <1>13

\* The last answer is written, and the result.
LEMMA FinishKeeps == ClaudeParameters /\ ClaudeInv /\ Claude!ChildFinishes => ClaudeInv'
<1> SUFFICES ASSUME ClaudeParameters, ClaudeInv, Claude!ChildFinishes
    PROVE  ClaudeInv'
  OBVIOUS
<1> USE DEF ClaudeInv
<1> DEFINE ans == [type |-> "assistant", calls |-> <<>>]
           y == [type |-> "stop"]
           z == [type |-> "result"]
<1>1. /\ alive /\ childpc = "thinking" /\ childpc' = "finished" /\ spent' = spent + 1
      /\ out' = out \o <<ans, y, z>>
      /\ UNCHANGED <<caller, alive, asked, hooked, called, issued, replies, events, toolQueue, unanswered,
                     results, content, executed, accounted, reported, processes, failed>>
  BY DEF Claude!ChildFinishes, Claude!Says, Claude!bridge, Claude!bookkeeping
<1>2. caller # "idle" BY <1>1 DEF Answers
<1>4. /\ ans \in Message /\ y \in Message /\ z \in Message /\ ans.type = "assistant" /\ y.type = "stop" /\ z.type = "result"
      /\ Claude!Range(ans.calls) = {}
 <2>1. <<>> \in Seq(Nat) BY Silence
 <2>2. ans \in Message /\ y \in Message /\ z \in Message BY <2>1 DEF Message
 <2>3. Claude!Range(<<>>) = {} BY DEF Claude!Range
 <2>. QED BY <2>2, <2>3
<1>5. out' = Append(Append(Append(out, ans), y), z) /\ out \in Seq(Message)
 <2>2. out \in Seq(Message) BY DEF Lines
 <2> HIDE DEF ans, y, z
 <2>. QED BY <1>1, <1>4, <2>2, SaidTogether
<1> HIDE DEF ans, y, z
<1>6. Append(out, ans) \in Seq(Message) /\ Append(Append(out, ans), y) \in Seq(Message) /\ out' \in Seq(Message)
 <2>1. Append(out, ans) \in Seq(Message) BY <1>4, <1>5, SaidAside
 <2>2. Append(Append(out, ans), y) \in Seq(Message) BY <1>4, <2>1, SaidAside
 <2>. QED BY <1>4, <1>5, <2>1, <2>2, SaidAside
<1>7. Of(out', "hook") = Of(out, "hook") /\ Of(out', "call") = Of(out, "call") /\ (Ordered(out) => Ordered(out'))
 <2>1. /\ Of(Append(out, ans), "hook") = Of(out, "hook") /\ Of(Append(out, ans), "call") = Of(out, "call")
       /\ Ordered(out) => Ordered(Append(out, ans))
   BY <1>4, <1>5, SaidAside
 <2>2. /\ Of(Append(Append(out, ans), y), "hook") = Of(out, "hook") /\ Of(Append(Append(out, ans), y), "call") = Of(out, "call")
       /\ Ordered(out) => Ordered(Append(Append(out, ans), y))
   BY <1>4, <1>6, <2>1, SaidAside
 <2>. QED BY <1>4, <1>5, <1>6, <2>2, SaidAside
<1>8. TurnTypes'
 <2>1. spent' \in Nat BY <1>1 DEF TurnTypes
 <2>. QED BY <1>1, <2>1 DEF TurnTypes
<1>9. CallTypes' /\ Lines' BY <1>1, <1>6 DEF CallTypes, Lines
<1>11. Answers'
 <2>1. Known(Append(out, ans), issued) BY <1>4, <1>5, KnownSaid DEF Answers
 <2>2. Known(Append(Append(out, ans), y), issued) BY <1>4, <1>6, <2>1, KnownSaid
 <2>3. Known(out', issued) BY <1>4, <1>5, <1>6, <2>2, KnownSaid
 <2>. QED BY <1>1, <1>2, <2>3 DEF Answers
<1>12. Account'
 <2>1. Number(Append(out, ans), "stop") = Number(out, "stop") + IF ans.type = "stop" THEN 1 ELSE 0
   BY <1>4, <1>5, StopSaid
 <2>2. Number(Append(Append(out, ans), y), "stop") = Number(Append(out, ans), "stop") + IF y.type = "stop" THEN 1 ELSE 0
   BY <1>4, <1>6, StopSaid
 <2>3. Number(out', "stop") = Number(Append(Append(out, ans), y), "stop") + IF z.type = "stop" THEN 1 ELSE 0
   BY <1>4, <1>5, <1>6, StopSaid
 <2>4. Number(out, "stop") \in Nat /\ Number(events, "stop") \in Nat BY NumberIsNat DEF Lines
 <2>5. Number(out', "stop") = Number(out, "stop") + 1 BY <1>4, <2>1, <2>2, <2>3, <2>4
 <2>6. accounted \in Nat /\ spent \in Nat BY DEF TurnTypes
 <2>. QED BY <1>1, <1>2, <2>4, <2>5, <2>6 DEF Account
<1>13. Flow'
 <2>0. Base' = Base /\ \A i \in 1..Len(asked) : asked[i] = Base + i BY <1>1, <1>2 DEF Base, Flow
 <2>1. PICK j \in 0..called : Served(j) /\ InOrder(j) BY <1>2 DEF Flow
 <2>2. Served(j)' BY <1>1, <2>0, <2>1 DEF Served
 <2>3. InOrder(j)' BY <1>1, <1>7, <2>0, <2>1 DEF InOrder
 <2>. QED BY <1>1, <2>0, <2>1, <2>2, <2>3 DEF Flow
<1>. QED BY <1>8, <1>9, <1>11, <1>12, <1>13

\* Only an answer can be to tools that are no longer registered.
LEMMA StaleStep ==
    ASSUME [Claude!Next]_Claude!vars
    PROVE  Claude!ChildAnswers \/ UNCHANGED stale
BY DEF Claude!Next, Claude!Agent, Claude!Reader, Claude!Child, Claude!Rest, Claude!vars,
       Claude!child, Claude!Start,
   Claude!Initialized, Claude!StreamFails, Claude!ProcessGone, Claude!Stopped, Claude!ReadAnswer, Claude!ReadStop,
   Claude!ReadResult, Claude!NextStream, Claude!AbortPendingTurn, Claude!ReadEvent, Claude!ReadHook,
   Claude!ReadCall, Claude!ReaderEnds, Claude!ChildBoots, Claude!ChildHooks, Claude!ChildCalls,
   Claude!ChildGoesOn, Claude!ChildFinishes, Claude!ChildDies

\* If no tool may be unregistered, none is.
LEMMA NoneStale ==
    ASSUME MaxStale = 0, stale = {}, [Claude!Next]_Claude!vars
    PROVE  stale' = {}
<1>1. CASE Claude!ChildAnswers
 <2>0. PICK n \in 1..MaxCalls :
         \E s \in SUBSET Claude!Range([i \in 1..n |-> issued + i]) :
            Claude!Cardinality(stale \union s) <= MaxStale /\ stale' = stale \union s
   BY <1>1 DEF Claude!ChildAnswers
 <2> DEFINE new == [i \in 1..n |-> issued + i]
 <2>1. PICK s \in SUBSET Claude!Range(new) : Cardinality(s) <= 0 /\ stale' = s
  <3>1. PICK s \in SUBSET Claude!Range(new) : Claude!Cardinality(stale \union s) <= MaxStale /\ stale' = stale \union s
    BY <2>0
  <3>2. stale \union s = s OBVIOUS
  <3>3. Cardinality(s) <= 0 /\ stale' = s BY <3>1, <3>2 DEF Cardinality, Claude!Cardinality
  <3>. QED BY <3>3
 <2>2. IsFiniteSet(s)
  <3>1. IsFiniteSet(1..n) BY FS_Interval
  <3>2. new \in Surjection(1..n, Claude!Range(new)) BY DEF Surjection, Claude!Range
  <3>3. IsFiniteSet(Claude!Range(new)) BY <3>1, <3>2, FS_Surjection
  <3>. QED BY <3>3, FS_Subset
 <2>3. Cardinality(s) = 0 BY <2>1, <2>2, FS_CardinalityType
 <2>. QED BY <2>1, <2>2, <2>3, FS_EmptySet
<1>. QED BY <1>1, StaleStep

\* Every step keeps the invariant; a tool that is no longer registered stays so.
LEMMA ClaudeNext ==
    ClaudeParameters /\ (stale = {} => ClaudeInv) /\ [Claude!Next]_Claude!vars => (stale' = {} => ClaudeInv')
<1> SUFFICES ASSUME ClaudeParameters, stale = {} => ClaudeInv, [Claude!Next]_Claude!vars, stale' = {}
    PROVE  ClaudeInv'
  OBVIOUS
<1>0. stale = {}
 <2>1. CASE Claude!ChildAnswers
  <3>1. PICK s : stale' = stale \union s BY <2>1 DEF Claude!ChildAnswers
  <3>. QED BY <3>1
 <2>2. CASE UNCHANGED stale BY <2>2
 <2>3. Claude!ChildAnswers \/ UNCHANGED stale BY StaleStep
 <2>. QED BY <2>1, <2>2, <2>3
<1>1. ClaudeInv BY <1>0
<1>2. CASE Claude!Start BY <1>1, <1>2, StartKeeps
<1>3. CASE Claude!StreamFails \/ Claude!ProcessGone \/ Claude!AbortPendingTurn
  BY <1>1, <1>3, StopKeeps DEF Claude!StreamFails, Claude!ProcessGone, Claude!AbortPendingTurn
<1>4. CASE Claude!Initialized \/ Claude!ReadAnswer \/ Claude!ReadStop \/ Claude!ReadResult
  BY <1>1, <1>4, StreamKeeps
<1>5. CASE Claude!NextStream BY <1>1, <1>5, ToolsKeep
<1>6. CASE Claude!ReadEvent \/ Claude!ReaderEnds BY <1>1, <1>6, ReaderKeeps
<1>7. CASE Claude!ReadHook BY <1>1, <1>7, HookKeeps
<1>8. CASE Claude!ReadCall BY <1>0, <1>1, <1>8, CallKeeps
<1>9. CASE Claude!ChildBoots \/ Claude!ChildGoesOn \/ Claude!ChildDies BY <1>1, <1>9, ChildKeeps
<1>10. CASE Claude!ChildHooks \/ Claude!ChildCalls BY <1>1, <1>10, ChildAsksKeep
<1>11. CASE Claude!ChildAnswers BY <1>1, <1>11, AnswerKeeps
<1>12. CASE Claude!ChildFinishes BY <1>1, <1>12, FinishKeeps
<1>13. CASE Claude!Rest \/ UNCHANGED Claude!vars
 <2>1. UNCHANGED <<caller, alive, childpc, asked, hooked, called, issued, replies, out, events, toolQueue, unanswered,
                   results, content, executed, spent, accounted, reported, processes, failed>>
   BY <1>13 DEF Claude!Rest, Claude!vars, Claude!child, Claude!bridge, Claude!bookkeeping
 <2>2. TurnTypes' /\ CallTypes' /\ Lines' BY <1>1, <2>1 DEF ClaudeInv, TurnTypes, CallTypes, Lines
 <2>3. Answers' BY <1>1, <2>1 DEF ClaudeInv, Answers
 <2>4. Flow' BY <1>1, <2>1, FlowStays DEF ClaudeInv
 <2>5. Account' BY <1>1, <2>1 DEF ClaudeInv, Account
 <2>. QED BY <2>2, <2>3, <2>4, <2>5 DEF ClaudeInv
<1>. QED BY <1>2, <1>3, <1>4, <1>5, <1>6, <1>7, <1>8, <1>9, <1>10, <1>11, <1>12, <1>13
     DEF Claude!Next, Claude!Agent, Claude!Reader, Claude!Child

\* The invariant has what is claimed of the claude process.
LEMMA ClaudeImplies == ClaudeInv /\ stale = {} => Claude!ClaudeSafe
<1> SUFFICES ASSUME ClaudeInv, stale = {}
    PROVE  Claude!ClaudeSafe
  OBVIOUS
<1> USE DEF ClaudeInv
<1>1. Claude!TypeOK BY DEF Claude!TypeOK, TurnTypes, CallTypes, Lines, Answers
<1>2. Claude!OwnResult
 <2>1. ASSUME NEW r \in replies, NEW s \in replies, r[1] = s[1]
       PROVE  r = s
  <3>1. r \in Nat \X Nat /\ s \in Nat \X Nat /\ r[2] = r[1] /\ s[2] = s[1] BY DEF CallTypes, Answers
  <3>. QED BY <2>1, <3>1
 <2>. QED BY <2>1 DEF Answers, Claude!OwnResult
<1>3. Claude!UsageAddsUp BY DEF Claude!UsageAddsUp, Account
<1>4. Claude!NoOrphan BY DEF Claude!NoOrphan, Answers
<1>. QED BY <1>1, <1>2, <1>3, <1>4 DEF Claude!ClaudeSafe

\* For any numbers of answers, calls and prompts, as long as the tools that are called
\* stay registered: whatever the order in which hooks, calls and results meet, each call
\* gets its own result, once, and only after its tool was executed; the usage of the
\* responses adds up to the usage of the process; an ended prompt leaves nothing behind
\* (handleMCP, resolveResults, readStep, AbortPendingTurn).
THEOREM ClaudeTurnsAreSafe ==
    ASSUME ClaudeParameters
    PROVE  Claude!Spec => [](stale = {} => Claude!ClaudeSafe)
<1>1. Claude!Init => (stale = {} => ClaudeInv) BY ClaudeInit
<1>2. (stale = {} => ClaudeInv) /\ [Claude!Next]_Claude!vars => (stale = {} => ClaudeInv)'
  BY ClaudeNext
<1>3. (stale = {} => ClaudeInv) => (stale = {} => Claude!ClaudeSafe) BY ClaudeImplies
<1>. QED BY <1>1, <1>2, <1>3, PTL DEF Claude!Spec

----------------------------------------
(* The extension processes.                                                *)

\* The host makes the first call; ids of the two sides differ, as those of the
\* code do, where each side numbers its requests in its own map.
PluginParameters ==
  /\ Initialize \in Calls
  /\ Calls \cap HostCalls = {}
  /\ Buffer \in Nat /\ MaxRogue \in Nat

----------------------------------------
(* What is in the pipes.                                                   *)

In(m, wire) == \E k \in 1..Len(wire) : wire[k] = m

Once(m, wire) == \A j, k \in 1..Len(wire) : wire[j] = m /\ wire[k] = m => j = k

\* Every m is before every n.
Precedes(m, n, wire) == \A j, k \in 1..Len(wire) : wire[j] = m /\ wire[k] = n => j < k

ForPlugin == {Plug!Request(c) : c \in Calls} \cup {Plug!Cancel(c) : c \in Calls}
             \cup {Plug!Response(r) : r \in HostCalls}
ForHost == {Plug!Request(r) : r \in HostCalls} \cup {Plug!Cancel(r) : r \in HostCalls}
           \cup {Plug!Response(c) : c \in Calls} \cup {Plug!Bad(c) : c \in Calls}

PipeInv == toPlugin \in Seq(ForPlugin) /\ toHost \in Seq(ForHost)

----------------------------------------
(* The inductive invariant.                                                *)

Active == {"run", "host", "respond"}

\* finish has been entered when the plugin has a reason to have stopped, and
\* then nothing new is pending.
FinishInv ==
  /\ stopErr = "none" <=> fin.stage = "no"
  /\ fin.stage = "no" => fin.calls = {} /\ (registered => lease)
  /\ fin.stage # "no" => awaited = {} /\ withdrawn = {}
  /\ fin.stage = "unregister" => (registered => fin.lease)
  /\ fin.stage \in {"send", "done"} => ~registered

\* Exactly one of p.pending, finish and the reader may still send to a call.
Owed(c) == c \in awaited \cup fin.calls

SendInv ==
  /\ \A c \in Calls : Owed(c) => ch[c] = <<>>
  /\ receiver.do = "send" => ch[receiver.id] = <<>> /\ ~Owed(receiver.id)
  /\ \A c \in Calls : request[c] = "idle" =>
       ch[c] = <<>> /\ ~Owed(c) /\ ~(receiver.do = "send" /\ receiver.id = c)

\* The handler of a call is the one of its only request, and waits for at most
\* one call of its own.
HandlerInv ==
  /\ \A c \in Calls :
       /\ Once(Plug!Request(c), toPlugin)
       /\ Precedes(Plug!Request(c), Plug!Cancel(c), toPlugin)
       /\ handler[c] # "none" => ~In(Plug!Request(c), toPlugin)
       /\ request[c] \in {"idle", "write"} =>
            handler[c] = "none" /\ ~In(Plug!Request(c), toPlugin) /\ ~In(Plug!Cancel(c), toPlugin)
       /\ ~closed => (c \in requests <=> handler[c] \in Active)
  /\ closed => fin.stage = "done"

HostCalling == {r \in HostCalls : hostCall[r] \in {"write", "wait", "cancel"}}

OwnerInv ==
  /\ \A r \in HostCalling : owner[r] \in Calls /\ handler[owner[r]] = "host"
  /\ \A r, q \in HostCalling : owner[r] = owner[q] => r = q

\* The plugin answers a call once and correctly, when its handler has ended.
Answered(c) ==
  /\ ~In(Plug!Bad(c), toHost)
  /\ Once(Plug!Response(c), toHost)
  /\ In(Plug!Response(c), toHost) => handler[c] = "done"

\* A handler runs for the call or will.
Live(c) == handler[c] \in Active \/ In(Plug!Request(c), toPlugin)

\* A plugin that keeps to the library answers a call once, and the host knows
\* every call that may still be answered.
ResponseInv ==
  /\ stopErr # "protocol"
  /\ receiver.do = "send" => receiver.what = "result"
  /\ \A c \in Calls :
       /\ Answered(c)
       /\ fin.stage = "no" =>
            /\ Live(c) \/ In(Plug!Response(c), toHost) => c \in awaited \cup withdrawn
            /\ request[c] = "write" => c \in awaited
            /\ request[c] = "wait" /\ c \notin awaited => handler[c] = "done"

\* The cancellation of a call that was given up is on its way, or has arrived,
\* or there is nothing to cancel.
CancelInv ==
  \A c \in Calls :
    fin.stage = "no" /\ lives /\ request[c] = "done" /\ answer[c] = "canceled" =>
      c \in handlerCanceled \/ In(Plug!Cancel(c), toPlugin) \/ ~Live(c)

\* The same for the calls of the plugin and the work of the host for them.
WorkInv ==
  \A r \in HostCalls :
    /\ Once(Plug!Request(r), toHost)
    /\ Precedes(Plug!Request(r), Plug!Cancel(r), toHost)
    /\ serving[r] # "none" => ~In(Plug!Request(r), toHost)
    /\ hostCall[r] \in {"idle", "write"} =>
         serving[r] = "none" /\ ~In(Plug!Request(r), toHost) /\ ~In(Plug!Cancel(r), toHost)
    /\ r \in hostRequests <=> serving[r] \in {"run", "answer"}
    /\ fin.stage = "done" /\ serving[r] # "none" => r \in workCanceled
    /\ In(Plug!Response(r), toPlugin) => serving[r] = "done"

AnswerInv ==
  \A r \in HostCalls :
    /\ r \in sdkCh /\ ~closed => serving[r] = "done"
    /\ hostCall[r] \in {"write", "wait"} => r \in sdkPending \cup sdkCh \/ closed
    /\ lives /\ hostCall[r] = "done" =>
         \/ fin.stage = "done"
         \/ r \in workCanceled
         \/ In(Plug!Cancel(r), toHost)
         \/ serving[r] # "run" /\ ~In(Plug!Request(r), toHost)

PluginIInv ==
  /\ Plug!TypeOK /\ PipeInv /\ FinishInv /\ SendInv
  /\ HandlerInv /\ OwnerInv /\ WorkInv /\ AnswerInv
  /\ rogue = 0 => ResponseInv /\ CancelInv

----------------------------------------
(* Lemmas about pipes and messages.                                        *)

\* A wire with one more message.
LEMMA AppendPipe ==
  ASSUME NEW T, NEW s \in Seq(T), NEW x \in T
  PROVE  /\ Append(s, x) \in Seq(T) /\ Len(Append(s, x)) = Len(s) + 1
         /\ \A m : In(m, Append(s, x)) <=> In(m, s) \/ m = x
         /\ \A m : Once(m, s) /\ (m = x => ~In(m, s)) => Once(m, Append(s, x))
         /\ \A m, n : Precedes(m, n, s) /\ m # n /\ (m = x => ~In(n, s))
                        => Precedes(m, n, Append(s, x))
<1> DEFINE t == Append(s, x)
<1>1. /\ t \in Seq(T) /\ Len(s) \in Nat /\ Len(t) = Len(s) + 1
      /\ t[Len(s) + 1] = x /\ \A k \in 1..Len(s) : t[k] = s[k]
  OBVIOUS
<1>. HIDE DEF t
<1>2. \A k \in 1..Len(t) : k \in 1..Len(s) \/ k = Len(s) + 1 BY <1>1
<1>3. 1..Len(s) \subseteq 1..Len(t) /\ Len(s) + 1 \in 1..Len(t) BY <1>1
<1>4. \A m : In(m, t) <=> In(m, s) \/ m = x BY <1>1, <1>2, <1>3 DEF In
<1>5. ASSUME NEW m, Once(m, s), m = x => ~In(m, s)
      PROVE  Once(m, t)
  BY <1>1, <1>2, <1>5 DEF In, Once
<1>6. ASSUME NEW m, NEW n, Precedes(m, n, s), m # n, m = x => ~In(n, s)
      PROVE  Precedes(m, n, t)
  BY <1>1, <1>2, <1>6 DEF In, Precedes
<1>. QED BY <1>1, <1>4, <1>5, <1>6 DEF t

\* A wire with one message less.
LEMMA TailPipe ==
  ASSUME NEW T, NEW s \in Seq(T), s # <<>>
  PROVE  /\ Tail(s) \in Seq(T) /\ Head(s) \in T /\ Len(Tail(s)) = Len(s) - 1
         /\ \A m : In(m, s) <=> In(m, Tail(s)) \/ m = Head(s)
         /\ \A m : Once(m, s) => Once(m, Tail(s)) /\ (m = Head(s) => ~In(m, Tail(s)))
         /\ \A m, n : Precedes(m, n, s) =>
              Precedes(m, n, Tail(s)) /\ (n = Head(s) => ~In(m, Tail(s)))
<1> DEFINE t == Tail(s)
<1>1. /\ t \in Seq(T) /\ Len(s) \in Nat /\ Len(s) >= 1 /\ Len(t) = Len(s) - 1
      /\ Head(s) = s[1] /\ Head(s) \in T
      /\ \A k \in 1..Len(t) : t[k] = s[k + 1]
  OBVIOUS
<1>. HIDE DEF t
<1>2. /\ \A k \in 1..Len(t) : k + 1 \in 1..Len(s) /\ k + 1 # 1
      /\ \A k \in 1..Len(s) : k # 1 => k - 1 \in 1..Len(t) /\ (k - 1) + 1 = k
      /\ 1 \in 1..Len(s)
  BY <1>1
<1>3. \A m : In(m, s) <=> In(m, t) \/ m = Head(s)
 <2>1. ASSUME NEW k \in 1..Len(s), k # 1
       PROVE  k - 1 \in 1..Len(t) /\ t[k - 1] = s[k]
   BY <1>1, <1>2, <2>1
 <2>2. ASSUME NEW k \in 1..Len(t)
       PROVE  k + 1 \in 1..Len(s) /\ t[k] = s[k + 1]
   BY <1>1, <1>2
 <2>3. \A m : In(m, s) => In(m, t) \/ m = Head(s) BY <1>1, <2>1 DEF In
 <2>4. \A m : In(m, t) => In(m, s) BY <2>2 DEF In
 <2>5. In(Head(s), s) BY <1>1, <1>2 DEF In
 <2>. QED BY <2>3, <2>4, <2>5
<1>4. ASSUME NEW m, Once(m, s)
      PROVE  Once(m, t) /\ (m = Head(s) => ~In(m, t))
 <2>1. ASSUME NEW j \in 1..Len(t), NEW k \in 1..Len(t), t[j] = m, t[k] = m
       PROVE  j = k
  <3>1. j + 1 = k + 1 BY SMTT(40), <1>1, <1>2, <1>4, <2>1 DEF Once
  <3>. QED BY <3>1
 <2>2. m = Head(s) => ~In(m, t) BY <1>1, <1>2, <1>4 DEF Once, In
 <2>. QED BY <2>1, <2>2 DEF Once
<1>5. ASSUME NEW m, NEW n, Precedes(m, n, s)
      PROVE  Precedes(m, n, t) /\ (n = Head(s) => ~In(m, t))
 <2>1. ASSUME NEW j \in 1..Len(t), NEW k \in 1..Len(t), t[j] = m, t[k] = n
       PROVE  j < k
  <3>1. j + 1 < k + 1 BY <1>1, <1>2, <1>5, <2>1 DEF Precedes
  <3>. QED BY <3>1
 <2>2. ASSUME n = Head(s), NEW j \in 1..Len(t), t[j] = m
       PROVE  FALSE
  <3>1. j + 1 < 1 BY <1>1, <1>2, <1>5, <2>2 DEF Precedes
  <3>. QED BY <3>1
 <2>. QED BY <2>1, <2>2 DEF Precedes, In
<1>. QED BY <1>1, <1>3, <1>4, <1>5 DEF t

\* A wire with nothing in it.
LEMMA EmptyPipe ==
  /\ \A T : <<>> \in Seq(T)
  /\ \A m : ~In(m, <<>>) /\ Once(m, <<>>)
  /\ \A m, n : Precedes(m, n, <<>>)
  BY DEF In, Once, Precedes

\* A message is known by its kind and its id.
LEMMA MessageFacts ==
  ASSUME NEW i, NEW j
  PROVE  /\ Plug!Request(i) = Plug!Request(j) <=> i = j
         /\ Plug!Cancel(i) = Plug!Cancel(j) <=> i = j
         /\ Plug!Response(i) = Plug!Response(j) <=> i = j
         /\ Plug!Bad(i) = Plug!Bad(j) <=> i = j
         /\ Plug!Request(i) # Plug!Cancel(j) /\ Plug!Request(i) # Plug!Response(j) /\ Plug!Request(i) # Plug!Bad(j)
         /\ Plug!Cancel(i) # Plug!Request(j) /\ Plug!Cancel(i) # Plug!Response(j) /\ Plug!Cancel(i) # Plug!Bad(j)
         /\ Plug!Response(i) # Plug!Request(j) /\ Plug!Response(i) # Plug!Cancel(j) /\ Plug!Response(i) # Plug!Bad(j)
         /\ Plug!Bad(i) # Plug!Request(j) /\ Plug!Bad(i) # Plug!Cancel(j) /\ Plug!Bad(i) # Plug!Response(j)
  BY DEF Plug!Request, Plug!Cancel, Plug!Response, Plug!Bad

\* A message the plugin writes is one the wire carries.
LEMMA PluginMessage ==
  ASSUME NEW m \in ForPlugin
  PROVE  /\ m \in Plug!Message
         /\ m.kind = "request" => m.id \in Calls /\ m = Plug!Request(m.id)
         /\ m.kind = "cancel" => m.id \in Calls /\ m = Plug!Cancel(m.id)
         /\ m.kind = "response" => m.id \in HostCalls /\ m = Plug!Response(m.id)
  BY DEF ForPlugin, Plug!Request, Plug!Cancel, Plug!Response, Plug!Message,
         Plug!Kinds

\* A message the host writes is one the wire carries.
LEMMA HostMessage ==
  ASSUME NEW m \in ForHost
  PROVE  /\ m \in Plug!Message
         /\ m.kind = "request" => m.id \in HostCalls /\ m = Plug!Request(m.id)
         /\ m.kind = "cancel" => m.id \in HostCalls /\ m = Plug!Cancel(m.id)
         /\ m.kind = "response" => m.id \in Calls /\ m = Plug!Response(m.id)
         /\ m.kind = "bad" => m.id \in Calls /\ m = Plug!Bad(m.id)
  BY DEF ForHost, Plug!Request, Plug!Cancel, Plug!Response, Plug!Bad,
         Plug!Message, Plug!Kinds

----------------------------------------
(* Types.                                                                  *)

\* What a step does to the pipes.
LEMMA PipeSteps ==
  ASSUME PluginParameters, [Plug!Next]_(Plug!vars)
  PROVE  /\ \/ UNCHANGED toPlugin
            \/ toPlugin # <<>> /\ toPlugin' = Tail(toPlugin)
            \/ Len(toPlugin) < Buffer /\ \E m \in ForPlugin : toPlugin' = Append(toPlugin, m)
         /\ \/ UNCHANGED toHost
            \/ toHost' = <<>>
            \/ toHost # <<>> /\ toHost' = Tail(toHost)
            \/ Len(toHost) < Buffer /\ \E m \in ForHost : toHost' = Append(toHost, m)
<1>1. /\ \A c \in Calls : Plug!Request(c) \in ForPlugin /\ Plug!Cancel(c) \in ForPlugin
      /\ \A r \in HostCalls : Plug!Response(r) \in ForPlugin
      /\ \A c \in Calls : Plug!Response(c) \in ForHost /\ Plug!Bad(c) \in ForHost
      /\ \A r \in HostCalls : Plug!Request(r) \in ForHost /\ Plug!Cancel(r) \in ForHost
  BY DEF ForPlugin, ForHost
<1>2. CASE UNCHANGED Plug!vars BY <1>2 DEF Plug!vars
<1>3. CASE Plug!FinishStep \/ Plug!StartStep \/ Plug!Close \/ Plug!ProcessReaped \/ Plug!ProcessEnds
  BY <1>3
     DEF Plug!FinishStep, Plug!FinishUnregister, Plug!FinishSend, Plug!FinishClose,
         Plug!StartStep, Plug!Initialized,
              Plug!Register, Plug!RegisterFails, Plug!Close, Plug!ProcessReaped, Plug!ProcessEnds
<1>4. CASE Plug!ReaderStep
  BY <1>4
     DEF Plug!ReaderStep, Plug!ReadResponse, Plug!ReadSend, Plug!ReadGoesOn,
         Plug!ReadRequest, Plug!ReadCancel, Plug!ReadEnds
<1>5. CASE Plug!SdkReaderStep
  BY <1>5
     DEF Plug!SdkReaderStep, Plug!SdkRequest, Plug!SdkCancel, Plug!SdkResponse,
         Plug!SdkShutdown
<1>6. CASE Plug!RogueWrites BY <1>1, <1>6 DEF Plug!RogueWrites
<1>7. ASSUME NEW c \in Calls, Plug!CallStep(c) \/ Plug!HandlerEnds(c) \/ Plug!HandlerResponds(c) \/ Plug!CancelContext(c)
      PROVE  /\ \/ UNCHANGED toPlugin
                \/ Len(toPlugin) < Buffer /\ \E m \in ForPlugin : toPlugin' = Append(toPlugin, m)
             /\ \/ UNCHANGED toHost
                \/ Len(toHost) < Buffer /\ \E m \in ForHost : toHost' = Append(toHost, m)
  BY <1>1, <1>7
     DEF Plug!CallStep, Plug!CallBegin, Plug!CallWrite, Plug!CallTake,
         Plug!CallStopped, Plug!CallCanceled,
                    Plug!CallWriteCancel, Plug!HandlerEnds, Plug!HandlerResponds, Plug!CancelContext
<1>8. ASSUME NEW r \in HostCalls, \/ Plug!WorkEnds(r) \/ Plug!WorkAnswers(r) \/ Plug!HostCallStep(r)
                                  \/ \E c \in Calls : Plug!HandlerCalls(c, r)
      PROVE  /\ \/ UNCHANGED toPlugin
                \/ Len(toPlugin) < Buffer /\ \E m \in ForPlugin : toPlugin' = Append(toPlugin, m)
             /\ \/ UNCHANGED toHost
                \/ Len(toHost) < Buffer /\ \E m \in ForHost : toHost' = Append(toHost, m)
  BY <1>1, <1>8
     DEF Plug!WorkEnds, Plug!WorkAnswers, Plug!HostCallStep, Plug!HostCallWrite,
         Plug!HostCallEnds,
                    Plug!HostCallCanceled, Plug!HostCallWriteCancel, Plug!HandlerCalls
<1>. QED BY <1>2, <1>3, <1>4, <1>5, <1>6, <1>7, <1>8 DEF Plug!Next

\* Every step keeps the types of the pipes.
LEMMA PipeTypes ==
  ASSUME PluginParameters, Plug!TypeOK, PipeInv, [Plug!Next]_(Plug!vars)
  PROVE  /\ PipeInv'
         /\ toPlugin' \in Seq(Plug!Message) /\ Len(toPlugin') <= Buffer
         /\ toHost' \in Seq(Plug!Message) /\ Len(toHost') <= Buffer
<1>1. /\ toPlugin \in Seq(ForPlugin) /\ Len(toPlugin) \in Nat /\ Len(toPlugin) <= Buffer
      /\ toHost \in Seq(ForHost) /\ Len(toHost) \in Nat /\ Len(toHost) <= Buffer
      /\ Buffer \in Nat
  BY DEF PipeInv, Plug!TypeOK, PluginParameters
<1>2. toPlugin' \in Seq(ForPlugin) /\ Len(toPlugin') <= Buffer
 <2>1. CASE UNCHANGED toPlugin BY <1>1, <2>1
 <2>2. CASE toPlugin # <<>> /\ toPlugin' = Tail(toPlugin)
  <3>1. Tail(toPlugin) \in Seq(ForPlugin) /\ Len(Tail(toPlugin)) = Len(toPlugin) - 1
    BY <1>1, <2>2, TailPipe
  <3>. QED BY <1>1, <2>2, <3>1
 <2>3. CASE Len(toPlugin) < Buffer /\ \E m \in ForPlugin : toPlugin' = Append(toPlugin, m)
  <3>1. PICK m \in ForPlugin : toPlugin' = Append(toPlugin, m) BY <2>3
  <3>2. Append(toPlugin, m) \in Seq(ForPlugin) /\ Len(Append(toPlugin, m)) = Len(toPlugin) + 1
    BY <1>1, AppendPipe
  <3>. QED BY <1>1, <2>3, <3>1, <3>2
 <2>. QED BY <2>1, <2>2, <2>3, PipeSteps
<1>3. toHost' \in Seq(ForHost) /\ Len(toHost') <= Buffer
 <2>1. CASE UNCHANGED toHost BY <1>1, <2>1
 <2>2. CASE toHost # <<>> /\ toHost' = Tail(toHost)
  <3>1. Tail(toHost) \in Seq(ForHost) /\ Len(Tail(toHost)) = Len(toHost) - 1 BY <1>1, <2>2, TailPipe
  <3>. QED BY <1>1, <2>2, <3>1
 <2>3. CASE Len(toHost) < Buffer /\ \E m \in ForHost : toHost' = Append(toHost, m)
  <3>1. PICK m \in ForHost : toHost' = Append(toHost, m) BY <2>3
  <3>2. Append(toHost, m) \in Seq(ForHost) /\ Len(Append(toHost, m)) = Len(toHost) + 1
    BY <1>1, AppendPipe
  <3>. QED BY <1>1, <2>3, <3>1, <3>2
 <2>4. CASE toHost' = <<>> BY <1>1, <2>4
 <2>. QED BY <2>1, <2>2, <2>3, <2>4, PipeSteps
<1>4. ForPlugin \subseteq Plug!Message /\ ForHost \subseteq Plug!Message
  BY PluginMessage, HostMessage
<1>. QED BY <1>2, <1>3, <1>4 DEF PipeInv

PluginCallTypes ==
  /\ request \in [Calls -> {"idle", "write", "wait", "cancel", "done"}]
  /\ ctxDone \subseteq Calls
  /\ answer \in [Calls -> {"none", "result", "error", "canceled", "stopped"}]
  /\ ch \in [Calls -> {<<>>, <<"result">>, <<"error">>, <<"stopped">>}]
  /\ receiver \in {Plug!Idle, [do |-> "stopping"], [do |-> "ended"]}
                \cup [do : {"send"}, id : Calls, what : {"result", "error"}]

StopTypes ==
  /\ awaited \subseteq Calls
  /\ withdrawn \subseteq Calls
  /\ stopErr \in {"none", "protocol", "eof", "exited", "closed"}
  /\ fin \in [stage : {"no", "unregister", "send", "done"}, calls : SUBSET Calls, lease : BOOLEAN]
  /\ start \in {"initialize", "register", "up", "failed"}
  /\ lease \in BOOLEAN /\ registered \in BOOLEAN

WorkTypes ==
  /\ serving \in [HostCalls -> {"none", "run", "answer", "done"}]
  /\ hostRequests \subseteq HostCalls
  /\ workCanceled \subseteq HostCalls
  /\ rogue \in 0..MaxRogue /\ lives \in BOOLEAN /\ closed \in BOOLEAN

SdkTypes ==
  /\ handler \in [Calls -> {"none", "run", "host", "respond", "done"}]
  /\ requests \subseteq Calls
  /\ handlerCanceled \subseteq Calls
  /\ hostCall \in [HostCalls -> {"idle", "write", "wait", "cancel", "done"}]
  /\ owner \in [HostCalls -> Calls \cup {Plug!Nobody}]
  /\ sdkPending \subseteq HostCalls
  /\ sdkCh \subseteq HostCalls

\* The next message of a wire.
LEMMA Heads ==
  ASSUME PipeInv
  PROVE  /\ toPlugin # <<>> => Head(toPlugin) \in ForPlugin
         /\ toHost # <<>> => Head(toHost) \in ForHost
  BY TailPipe DEF PipeInv

\* What the reader of the host does.
LEMMA ReaderFacts ==
  ASSUME PluginCallTypes
  PROVE  /\ receiver.do = "send" => receiver.id \in Calls /\ receiver.what \in {"result", "error"}
         /\ Plug!Idle.do # "send"
         /\ \A i, w : [do |-> "send", id |-> i, what |-> w].do = "send"
         /\ receiver.do = "stopping" => receiver = [do |-> "stopping"]
  BY SMTT(40) DEF PluginCallTypes, Plug!Idle

\* Every step keeps the types of the calls.
LEMMA CallTypesInv ==
  ASSUME PluginParameters, PluginCallTypes, StopTypes, PipeInv, [Plug!Next]_(Plug!vars)
  PROVE  PluginCallTypes'
<1>1. CASE UNCHANGED <<request, ctxDone, answer, ch, receiver>> BY <1>1 DEF PluginCallTypes
<1>2. CASE Plug!FinishSend
 <2>1. PICK c \in fin.calls : ch' = [ch EXCEPT ![c] = <<"stopped">>] BY <1>2 DEF Plug!FinishSend
 <2>. QED BY <1>2, <2>1 DEF Plug!FinishSend, PluginCallTypes
<1>3. CASE Plug!ReadResponse
 <2>1. Head(toHost).id \in Calls BY <1>3, Heads, HostMessage DEF Plug!ReadResponse
 <2>. QED BY <1>3, <2>1 DEF Plug!ReadResponse, PluginCallTypes, Plug!callVars
<1>4. CASE Plug!ReadSend
 <2>1. receiver.id \in Calls /\ receiver.what \in {"result", "error"}
   BY <1>4, ReaderFacts DEF Plug!ReadSend
 <2>2. ch' \in [Calls -> {<<>>, <<"result">>, <<"error">>, <<"stopped">>}]
   BY <1>4, <2>1 DEF Plug!ReadSend, PluginCallTypes
 <2>. QED BY <1>4, <2>2 DEF Plug!ReadSend, PluginCallTypes
<1>5. CASE Plug!ReadGoesOn \/ Plug!ReadEnds
  BY <1>5 DEF Plug!ReadGoesOn, Plug!ReadEnds, PluginCallTypes, Plug!callVars
<1>6. ASSUME NEW c \in Calls, Plug!CallTake(c)
      PROVE  PluginCallTypes'
 <2>1. ch[c] \in {<<"result">>, <<"error">>, <<"stopped">>}
   BY <1>6 DEF PluginCallTypes, Plug!CallTake
 <2>2. Head(ch[c]) \in {"result", "error", "stopped"} BY <2>1
 <2>. QED BY <1>6, <2>2 DEF Plug!CallTake, Plug!Return, PluginCallTypes
<1>7. ASSUME NEW c \in Calls,
             Plug!CallBegin(c) \/ Plug!CallWrite(c) \/ Plug!CallStopped(c) \/ Plug!CallCanceled(c) \/ Plug!CallWriteCancel(c)
      PROVE  PluginCallTypes'
  BY <1>7
     DEF Plug!CallBegin, Plug!CallWrite, Plug!CallStopped, Plug!CallCanceled,
         Plug!CallWriteCancel, Plug!Return, PluginCallTypes
<1>8. ASSUME NEW c \in Calls, Plug!CancelContext(c)
      PROVE  PluginCallTypes'
  BY SMTT(40), <1>8 DEF Plug!CancelContext, PluginCallTypes
<1>. QED BY <1>1, <1>2, <1>3, <1>4, <1>5, <1>6, <1>7, <1>8
  DEF Plug!Next, Plug!vars, Plug!callVars, Plug!FinishStep, Plug!FinishUnregister, Plug!FinishClose, Plug!StartStep, Plug!Initialized,
      Plug!Register, Plug!RegisterFails, Plug!Close, Plug!ProcessReaped, Plug!ProcessEnds, Plug!ReaderStep, Plug!ReadRequest,
      Plug!ReadCancel, Plug!SdkReaderStep, Plug!SdkRequest, Plug!SdkCancel, Plug!SdkResponse, Plug!SdkShutdown, Plug!RogueWrites,
      Plug!CallStep, Plug!HandlerEnds, Plug!HandlerResponds, Plug!WorkEnds, Plug!WorkAnswers, Plug!HostCallStep,
      Plug!HostCallWrite, Plug!HostCallEnds, Plug!HostCallCanceled, Plug!HostCallWriteCancel, Plug!HandlerCalls

\* Every step keeps the types of the stops.
LEMMA StopTypesInv ==
  ASSUME PluginParameters, PluginCallTypes, StopTypes, PipeInv, [Plug!Next]_(Plug!vars)
  PROVE  StopTypes'
<1>1. /\ fin.calls \subseteq Calls /\ fin.lease \in BOOLEAN
      /\ \A c : [fin EXCEPT !.calls = @ \ {c}] \in
           [stage : {"no", "unregister", "send", "done"}, calls : SUBSET Calls, lease : BOOLEAN]
  BY DEF StopTypes
<1>2. ASSUME NEW why \in {"protocol", "eof", "exited", "closed"}, Plug!Finish(why),
             start' \in {"initialize", "register", "up", "failed"}, UNCHANGED registered
      PROVE  StopTypes'
 <2>1. CASE fin.stage # "no" BY <1>2, <2>1 DEF Plug!Finish, StopTypes, Plug!stopVars
 <2>2. CASE fin.stage = "no"
  <3>1. /\ stopErr' = why /\ awaited' = {} /\ withdrawn' = {} /\ lease' = FALSE
        /\ fin' = [stage |-> "unregister", calls |-> awaited, lease |-> lease]
    BY <1>2, <2>2 DEF Plug!Finish
  <3>. QED BY <1>2, <3>1 DEF StopTypes
 <2>. QED BY <2>1, <2>2
<1>3. CASE UNCHANGED <<Plug!stopVars, Plug!startVars>>
  BY <1>3 DEF StopTypes, Plug!stopVars, Plug!startVars
<1>4. CASE Plug!FinishUnregister \/ Plug!FinishSend \/ Plug!FinishClose
  BY <1>1, <1>4
     DEF Plug!FinishUnregister, Plug!FinishSend, Plug!FinishClose, StopTypes,
         Plug!startVars
<1>5. CASE Plug!Initialized BY <1>2, <1>5 DEF Plug!Initialized, StopTypes, Plug!stopVars
<1>6. CASE Plug!Register BY <1>6 DEF Plug!Register, StopTypes
<1>7. CASE Plug!RegisterFails \/ Plug!Close \/ Plug!ProcessReaped \/ Plug!ReadEnds
  BY <1>2, <1>7
     DEF Plug!RegisterFails, Plug!Close, Plug!ProcessReaped, Plug!ReadEnds,
         Plug!startVars, StopTypes
<1>8. CASE Plug!ReadResponse \/ Plug!ReadSend
  BY <1>2, <1>3, <1>8 DEF Plug!ReadResponse, Plug!ReadSend, Plug!startVars, StopTypes
<1>9. ASSUME NEW c \in Calls, Plug!CallBegin(c) \/ Plug!CallWrite(c) \/ Plug!CallCanceled(c)
      PROVE  StopTypes'
  BY SMTT(40), <1>9
     DEF Plug!CallBegin, Plug!CallWrite, Plug!CallCanceled, StopTypes,
         Plug!startVars
<1>. QED BY <1>3, <1>4, <1>5, <1>6, <1>7, <1>8, <1>9
  DEF Plug!Next, Plug!vars, Plug!FinishStep, Plug!StartStep, Plug!ProcessEnds, Plug!ReaderStep, Plug!ReadGoesOn, Plug!ReadRequest,
      Plug!ReadCancel, Plug!SdkReaderStep, Plug!SdkRequest, Plug!SdkCancel, Plug!SdkResponse, Plug!SdkShutdown, Plug!RogueWrites,
      Plug!CallStep, Plug!CallTake, Plug!CallStopped, Plug!CallWriteCancel, Plug!CancelContext, Plug!HandlerEnds,
      Plug!HandlerResponds, Plug!WorkEnds, Plug!WorkAnswers, Plug!HostCallStep, Plug!HostCallWrite, Plug!HostCallEnds,
      Plug!HostCallCanceled, Plug!HostCallWriteCancel, Plug!HandlerCalls

\* Every step keeps the types of the workers.
LEMMA WorkTypesInv ==
  ASSUME PluginParameters, WorkTypes, PipeInv, [Plug!Next]_(Plug!vars)
  PROVE  WorkTypes'
<1>1. CASE UNCHANGED <<Plug!workVars, Plug!process, closed>>
  BY <1>1 DEF WorkTypes, Plug!workVars, Plug!process
<1>2. CASE Plug!FinishClose BY <1>2 DEF Plug!FinishClose, WorkTypes, Plug!process, Plug!sdkVars
<1>3. CASE Plug!ReadRequest
 <2>1. Head(toHost).id \in HostCalls BY <1>3, Heads, HostMessage DEF Plug!ReadRequest
 <2>. QED BY <1>3, <2>1 DEF Plug!ReadRequest, WorkTypes, Plug!process, Plug!sdkVars
<1>4. CASE Plug!ReadCancel BY <1>4 DEF Plug!ReadCancel, WorkTypes, Plug!process, Plug!sdkVars
<1>5. CASE Plug!SdkShutdown \/ Plug!ProcessEnds
  BY <1>5
     DEF Plug!SdkShutdown, Plug!ProcessEnds, WorkTypes, Plug!process,
         Plug!workVars, Plug!sdkVars
<1>6. CASE Plug!RogueWrites
  BY <1>6
     DEF Plug!RogueWrites, WorkTypes, Plug!workVars, Plug!sdkVars, PluginParameters
<1>7. ASSUME NEW r \in HostCalls, Plug!WorkEnds(r) \/ Plug!WorkAnswers(r)
      PROVE  WorkTypes'
  BY <1>7 DEF Plug!WorkEnds, Plug!WorkAnswers, WorkTypes, Plug!process, Plug!sdkVars
<1>. QED BY <1>1, <1>2, <1>3, <1>4, <1>5, <1>6, <1>7
  DEF Plug!Next, Plug!vars, Plug!sdkVars, Plug!FinishStep, Plug!FinishUnregister, Plug!FinishSend, Plug!StartStep, Plug!Initialized,
      Plug!Register, Plug!RegisterFails, Plug!Close, Plug!ProcessReaped, Plug!ReaderStep, Plug!ReadResponse, Plug!ReadSend,
      Plug!ReadGoesOn, Plug!ReadEnds, Plug!SdkReaderStep, Plug!SdkRequest, Plug!SdkCancel, Plug!SdkResponse,
      Plug!CallStep, Plug!CallBegin, Plug!CallWrite, Plug!CallTake, Plug!CallStopped, Plug!CallCanceled, Plug!CallWriteCancel,
      Plug!CancelContext, Plug!HandlerEnds, Plug!HandlerResponds, Plug!HostCallStep, Plug!HostCallWrite, Plug!HostCallEnds,
      Plug!HostCallCanceled, Plug!HostCallWriteCancel, Plug!HandlerCalls

\* Every step keeps the types of the plugin.
LEMMA SdkTypesInv ==
  ASSUME PluginParameters, SdkTypes, PipeInv, [Plug!Next]_(Plug!vars)
  PROVE  SdkTypes'
<1>1. CASE UNCHANGED <<handler, requests, handlerCanceled, hostCall, owner, sdkPending, sdkCh>>
  BY <1>1 DEF SdkTypes
<1>2. CASE Plug!SdkRequest
 <2>1. Head(toPlugin).id \in Calls BY <1>2, Heads, PluginMessage DEF Plug!SdkRequest
 <2>. QED BY <1>2, <2>1 DEF Plug!SdkRequest, SdkTypes
<1>3. CASE Plug!SdkCancel \/ Plug!SdkResponse \/ Plug!SdkShutdown
  BY <1>3 DEF Plug!SdkCancel, Plug!SdkResponse, Plug!SdkShutdown, SdkTypes
<1>4. ASSUME NEW c \in Calls, Plug!HandlerEnds(c) \/ Plug!HandlerResponds(c)
      PROVE  SdkTypes'
  BY <1>4 DEF Plug!HandlerEnds, Plug!HandlerResponds, SdkTypes
<1>5. ASSUME NEW c \in Calls, NEW r \in HostCalls, Plug!HandlerCalls(c, r)
      PROVE  SdkTypes'
  BY <1>5 DEF Plug!HandlerCalls, SdkTypes
<1>6. ASSUME NEW r \in HostCalls, Plug!HostCallStep(r)
      PROVE  SdkTypes'
  BY <1>6
     DEF Plug!HostCallStep, Plug!HostCallWrite, Plug!HostCallEnds,
         Plug!HostCallCanceled, Plug!HostCallWriteCancel,
              Plug!HostCallReturns, SdkTypes
<1>. QED BY <1>1, <1>2, <1>3, <1>4, <1>5, <1>6
  DEF Plug!Next, Plug!vars, Plug!sdkVars, Plug!FinishStep, Plug!FinishUnregister, Plug!FinishSend, Plug!FinishClose, Plug!StartStep,
      Plug!Initialized, Plug!Register, Plug!RegisterFails, Plug!Close, Plug!ProcessReaped, Plug!ProcessEnds, Plug!ReaderStep,
      Plug!ReadResponse, Plug!ReadSend, Plug!ReadGoesOn, Plug!ReadEnds, Plug!ReadRequest, Plug!ReadCancel, Plug!SdkReaderStep,
      Plug!RogueWrites, Plug!CallStep, Plug!CallBegin, Plug!CallWrite, Plug!CallTake, Plug!CallStopped, Plug!CallCanceled,
      Plug!CallWriteCancel, Plug!CancelContext, Plug!WorkEnds, Plug!WorkAnswers

\* Every step keeps the types.
LEMMA TypeInv ==
  ASSUME PluginParameters, Plug!TypeOK, PipeInv, [Plug!Next]_(Plug!vars)
  PROVE  Plug!TypeOK' /\ PipeInv'
<1>1. PluginCallTypes /\ StopTypes /\ WorkTypes /\ SdkTypes
  BY DEF Plug!TypeOK, PluginCallTypes, StopTypes, WorkTypes, SdkTypes
<1>2. PluginCallTypes' BY <1>1, CallTypesInv
<1>3. StopTypes' BY <1>1, StopTypesInv
<1>4. WorkTypes' BY <1>1, WorkTypesInv
<1>5. SdkTypes' BY SMTT(40), <1>1, SdkTypesInv
<1>. QED BY <1>2, <1>3, <1>4, <1>5, PipeTypes
     DEF Plug!TypeOK, PluginCallTypes, StopTypes, WorkTypes, SdkTypes

----------------------------------------
(* finish, and who may still send to a call.                               *)

Why == {"protocol", "eof", "exited", "closed"}

\* Every step keeps FinishInv.
LEMMA FinishInvInv ==
  ASSUME PluginCallTypes, StopTypes, FinishInv, [Plug!Next]_(Plug!vars)
  PROVE  FinishInv'
<1>1. /\ \A c : [fin EXCEPT !.calls = @ \ {c}].stage = fin.stage
      /\ \A c : [fin EXCEPT !.calls = @ \ {c}].lease = fin.lease
      /\ \A t : [fin EXCEPT !.stage = t].stage = t
      /\ \A t : [fin EXCEPT !.stage = t].lease = fin.lease
  BY DEF StopTypes
<1>2. ASSUME NEW why \in Why, Plug!Finish(why), UNCHANGED registered
      PROVE  FinishInv'
 <2>1. CASE fin.stage # "no" BY <1>2, <2>1 DEF Plug!Finish, FinishInv, Plug!stopVars
 <2>2. CASE fin.stage = "no" BY <1>2, <2>2 DEF Plug!Finish, FinishInv, Why
 <2>. QED BY <2>1, <2>2
<1>3. CASE UNCHANGED <<Plug!stopVars, registered>> BY <1>3 DEF FinishInv, Plug!stopVars
<1>4. CASE Plug!FinishUnregister BY <1>1, <1>4 DEF Plug!FinishUnregister, FinishInv
<1>5. CASE Plug!FinishSend \/ Plug!FinishClose
 <2>1. fin'.stage \in {"send", "done"} /\ fin.stage = "send"
   BY <1>1, <1>5 DEF Plug!FinishSend, Plug!FinishClose
 <2>2. UNCHANGED <<stopErr, awaited, withdrawn, registered>>
   BY <1>5 DEF Plug!FinishSend, Plug!FinishClose, Plug!startVars
 <2>. QED BY <2>1, <2>2 DEF FinishInv
<1>6. CASE Plug!Initialized BY <1>2, <1>6 DEF Plug!Initialized, FinishInv, Plug!stopVars, Why
<1>7. CASE Plug!Register BY <1>7 DEF Plug!Register, FinishInv
<1>8. CASE Plug!RegisterFails \/ Plug!Close \/ Plug!ProcessReaped \/ Plug!ReadEnds
  BY <1>2, <1>8
     DEF Plug!RegisterFails, Plug!Close, Plug!ProcessReaped, Plug!ReadEnds,
         Plug!startVars, Why
<1>9. CASE Plug!ReadResponse
 <2>1. CASE Plug!Finish("protocol") BY <1>2, <1>9, <2>1 DEF Plug!ReadResponse, Plug!startVars, Why
 <2>2. CASE UNCHANGED <<stopErr, fin, lease, registered>> /\ awaited' \subseteq awaited
            /\ withdrawn' \subseteq withdrawn
   BY <2>2 DEF FinishInv
 <2>. QED BY <1>9, <2>1, <2>2 DEF Plug!ReadResponse, Plug!startVars
<1>10. CASE Plug!ReadSend BY <1>2, <1>3, <1>10 DEF Plug!ReadSend, Plug!startVars, Why
<1>11. ASSUME NEW c \in Calls, Plug!CallBegin(c) \/ Plug!CallWrite(c) \/ Plug!CallCanceled(c)
       PROVE  FinishInv'
  BY <1>11
     DEF Plug!CallBegin, Plug!CallWrite, Plug!CallCanceled, FinishInv,
         Plug!startVars
<1>. QED BY <1>3, <1>4, <1>5, <1>6, <1>7, <1>8, <1>9, <1>10, <1>11
  DEF Plug!Next, Plug!vars, Plug!startVars, Plug!FinishStep, Plug!StartStep, Plug!ProcessEnds, Plug!ReaderStep, Plug!ReadGoesOn,
      Plug!ReadRequest, Plug!ReadCancel, Plug!SdkReaderStep, Plug!SdkRequest, Plug!SdkCancel, Plug!SdkResponse, Plug!SdkShutdown,
      Plug!RogueWrites, Plug!CallStep, Plug!CallTake, Plug!CallStopped, Plug!CallWriteCancel, Plug!CancelContext,
      Plug!HandlerEnds, Plug!HandlerResponds, Plug!WorkEnds, Plug!WorkAnswers, Plug!HostCallStep, Plug!HostCallWrite,
      Plug!HostCallEnds, Plug!HostCallCanceled, Plug!HostCallWriteCancel, Plug!HandlerCalls

\* Only those that were pending are owed something by finish.
LEMMA FinishOwes ==
  ASSUME FinishInv, StopTypes, NEW why, Plug!Finish(why)
  PROVE  \A c : Owed(c)' <=> Owed(c)
<1>1. CASE fin.stage # "no" BY <1>1 DEF Plug!Finish, Plug!stopVars, Owed
<1>2. CASE fin.stage = "no" BY SMTT(40), <1>2 DEF Plug!Finish, FinishInv, Owed
<1>. QED BY <1>1, <1>2

\* Every step keeps SendInv.
LEMMA SendInvInv ==
  ASSUME PluginCallTypes, StopTypes, FinishInv, SendInv, PipeInv, [Plug!Next]_(Plug!vars)
  PROVE  SendInv'
<1>1. CASE UNCHANGED <<request, ch, receiver>> /\ \A c : Owed(c)' <=> Owed(c) BY <1>1 DEF SendInv
<1>2. CASE UNCHANGED <<request, ch, receiver, awaited, fin>> BY <1>2 DEF SendInv, Owed
<1>3. CASE Plug!FinishUnregister \/ Plug!FinishClose
 <2>1. \A t : [fin EXCEPT !.stage = t].calls = fin.calls BY DEF StopTypes
 <2>. QED BY <1>1, <1>3, <2>1
      DEF Plug!FinishUnregister, Plug!FinishClose, Owed, Plug!callVars
<1>4. CASE Plug!FinishSend
 <2>1. PICK c \in fin.calls : ch' = [ch EXCEPT ![c] = <<"stopped">>]
                              /\ fin' = [fin EXCEPT !.calls = @ \ {c}]
   BY <1>4 DEF Plug!FinishSend
 <2>2. fin'.calls = fin.calls \ {c} /\ c \in Calls /\ awaited = {}
   BY <1>4, <2>1 DEF StopTypes, Plug!FinishSend, FinishInv
 <2>3. UNCHANGED <<request, receiver, awaited>> BY <1>4 DEF Plug!FinishSend
 <2>4. Owed(c) /\ ~Owed(c)' /\ \A d : d # c => (Owed(d)' <=> Owed(d)) BY <2>1, <2>2, <2>3 DEF Owed
 <2>5. \A d \in Calls : d # c => ch'[d] = ch[d] BY <2>1 DEF PluginCallTypes
 <2>6. receiver.do = "send" => receiver.id \in Calls /\ receiver.id # c
   BY <2>4, ReaderFacts DEF SendInv
 <2>. QED BY <2>2, <2>3, <2>4, <2>5, <2>6 DEF SendInv
<1>5. CASE Plug!Initialized \/ Plug!RegisterFails \/ Plug!Close \/ Plug!ProcessReaped
 <2>1. UNCHANGED <<request, ch, receiver>> /\ (UNCHANGED Plug!stopVars \/ \E why : Plug!Finish(why))
   BY <1>5
      DEF Plug!Initialized, Plug!RegisterFails, Plug!Close, Plug!ProcessReaped,
          Plug!callVars
 <2>. QED BY <1>1, <1>2, <2>1, FinishOwes DEF Plug!stopVars
<1>6. CASE Plug!ReadEnds \/ Plug!ReadGoesOn
 <2>1. UNCHANGED <<request, ch>> /\ (UNCHANGED Plug!stopVars \/ \E why : Plug!Finish(why))
       /\ receiver'.do # "send"
   BY <1>6 DEF Plug!ReadEnds, Plug!ReadGoesOn, Plug!callVars, Plug!Idle
 <2>2. \A c : Owed(c)' <=> Owed(c) BY <2>1, FinishOwes DEF Plug!stopVars, Owed
 <2>. QED BY <2>1, <2>2 DEF SendInv
<1>7. CASE Plug!ReadResponse
 <2>1. UNCHANGED <<request, ch>> BY <1>7 DEF Plug!ReadResponse, Plug!callVars
 <2>0. PICK c : c = Head(toHost).id OBVIOUS
 <2>2. CASE c \in awaited
  <3>1. PICK what : receiver' = [do |-> "send", id |-> c, what |-> what]
    BY <1>7, <2>0, <2>2 DEF Plug!ReadResponse
  <3>2. awaited' = awaited \ {c} /\ UNCHANGED fin /\ fin.calls = {} /\ c \in Calls
    BY <1>7, <2>0, <2>2 DEF Plug!ReadResponse, FinishInv, StopTypes
  <3>3. receiver'.id = c /\ Owed(c) /\ ~Owed(c)' /\ \A d : Owed(d)' => Owed(d)
    BY <2>2, <3>1, <3>2 DEF Owed
  <3>. QED BY <2>1, <3>2, <3>3 DEF SendInv
 <2>3. CASE c \notin awaited
  <3>1. \/ UNCHANGED <<receiver, awaited, fin>>
        \/ Plug!Finish("protocol") /\ receiver' = [do |-> "stopping"]
    BY <1>7, <2>0, <2>3 DEF Plug!ReadResponse
  <3>2. CASE Plug!Finish("protocol") /\ receiver' = [do |-> "stopping"]
   <4>1. receiver'.do # "send" BY <3>2
   <4>. QED BY <2>1, <3>2, <4>1, FinishOwes DEF SendInv
  <3>. QED BY <1>2, <2>1, <3>1, <3>2
 <2>. QED BY <2>2, <2>3
<1>8. CASE Plug!ReadSend
 <2>1. /\ receiver.do = "send" /\ receiver.id \in Calls /\ receiver'.do # "send"
       /\ ch' = [ch EXCEPT ![receiver.id] = <<receiver.what>>] /\ UNCHANGED request
       /\ UNCHANGED Plug!stopVars \/ Plug!Finish("protocol")
   BY <1>8, ReaderFacts DEF Plug!ReadSend, Plug!Idle
 <2>2. \A c : Owed(c)' <=> Owed(c) BY <2>1, FinishOwes DEF Owed, Plug!stopVars
 <2>3. ~Owed(receiver.id) /\ request[receiver.id] # "idle" BY <2>1 DEF SendInv
 <2>4. \A d \in Calls : d # receiver.id => ch'[d] = ch[d] BY <2>1 DEF PluginCallTypes
 <2>. QED BY <2>1, <2>2, <2>3, <2>4 DEF SendInv
<1>9. ASSUME NEW c \in Calls, Plug!CallTake(c)
      PROVE  SendInv'
 <2>1. /\ UNCHANGED <<receiver, awaited, fin>> /\ request'[c] = "done"
       /\ \A d \in Calls : d # c => request'[d] = request[d] /\ ch'[d] = ch[d]
       /\ ch'[c] = <<>>
   BY <1>9 DEF Plug!CallTake, Plug!Return, PluginCallTypes, Plug!stopVars
 <2>2. \A d : Owed(d)' <=> Owed(d) BY <2>1 DEF Owed
 <2>3. receiver.do = "send" => receiver.id \in Calls BY ReaderFacts
 <2>. QED BY <2>1, <2>2, <2>3 DEF SendInv
<1>10. ASSUME NEW c \in Calls, Plug!CallStopped(c) \/ Plug!CallWriteCancel(c) \/ Plug!CallWrite(c) \/ Plug!CallCanceled(c)
       PROVE  SendInv'
 <2>1. UNCHANGED <<receiver, ch, fin>> /\ awaited' \subseteq awaited
   BY <1>10
      DEF Plug!CallStopped, Plug!CallWriteCancel, Plug!CallWrite,
          Plug!CallCanceled, Plug!stopVars
 <2>2. \A d \in Calls : request'[d] = "idle" => request[d] = "idle"
   BY <1>10
      DEF Plug!CallStopped, Plug!CallWriteCancel, Plug!CallWrite,
          Plug!CallCanceled, Plug!Return, PluginCallTypes
 <2>. QED BY <2>1, <2>2 DEF SendInv, Owed
<1>11. ASSUME NEW c \in Calls, Plug!CallBegin(c)
       PROVE  SendInv'
 <2>1. /\ UNCHANGED <<receiver, ch, fin>> /\ request[c] = "idle" /\ request'[c] # "idle"
       /\ awaited' \subseteq awaited \cup {c}
       /\ \A d \in Calls : d # c => request'[d] = request[d]
   BY SMTT(40), <1>11 DEF Plug!CallBegin, Plug!Return, PluginCallTypes
 <2>. QED BY <2>1 DEF SendInv, Owed
<1>. QED BY <1>2, <1>3, <1>4, <1>5, <1>6, <1>7, <1>8, <1>9, <1>10, <1>11
  DEF Plug!Next, Plug!vars, Plug!callVars, Plug!stopVars, Plug!FinishStep, Plug!StartStep, Plug!Register, Plug!ProcessEnds, Plug!ReaderStep,
      Plug!ReadRequest, Plug!ReadCancel, Plug!SdkReaderStep, Plug!SdkRequest, Plug!SdkCancel, Plug!SdkResponse, Plug!SdkShutdown,
      Plug!RogueWrites, Plug!CallStep, Plug!CancelContext,
      Plug!HandlerEnds, Plug!HandlerResponds, Plug!WorkEnds, Plug!WorkAnswers, Plug!HostCallStep, Plug!HostCallWrite,
      Plug!HostCallEnds, Plug!HostCallCanceled, Plug!HostCallWriteCancel, Plug!HandlerCalls

----------------------------------------
(* The handlers of the plugin and the calls they make.                     *)

\* finish is executed once.
LEMMA DoneStays ==
  ASSUME fin.stage = "done", [Plug!Next]_(Plug!vars)
  PROVE  fin' = fin
BY DEF Plug!Next, Plug!vars, Plug!stopVars, Plug!Finish, Plug!FinishStep,
       Plug!FinishUnregister, Plug!FinishSend, Plug!FinishClose,
       Plug!StartStep, Plug!Initialized, Plug!Register, Plug!RegisterFails, Plug!Close, Plug!ProcessReaped, Plug!ProcessEnds,
       Plug!ReaderStep, Plug!ReadResponse, Plug!ReadSend, Plug!ReadGoesOn, Plug!ReadRequest, Plug!ReadCancel, Plug!ReadEnds,
       Plug!SdkReaderStep, Plug!SdkRequest, Plug!SdkCancel, Plug!SdkResponse, Plug!SdkShutdown, Plug!RogueWrites,
       Plug!CallStep, Plug!CallBegin, Plug!CallWrite, Plug!CallTake, Plug!CallStopped, Plug!CallCanceled, Plug!CallWriteCancel,
       Plug!CancelContext, Plug!HandlerEnds, Plug!HandlerResponds, Plug!WorkEnds, Plug!WorkAnswers, Plug!HostCallStep,
       Plug!HostCallWrite, Plug!HostCallEnds, Plug!HostCallCanceled, Plug!HostCallWriteCancel, Plug!HandlerCalls

\* A call of the plugin ends: its handler runs again, and is that of no other.
LEMMA OwnerReturns ==
  ASSUME SdkTypes, OwnerInv, NEW r \in HostCalling, Plug!HostCallReturns(r), UNCHANGED owner
  PROVE  /\ OwnerInv'
         /\ owner[r] \in Calls /\ handler[owner[r]] = "host" /\ handler'[owner[r]] = "run"
         /\ \A c \in Calls : c # owner[r] => handler'[c] = handler[c]
<1>1. owner[r] \in Calls /\ handler[owner[r]] = "host" /\ r \in HostCalls
  BY DEF OwnerInv, HostCalling
<1>2. /\ hostCall'[r] = "done" /\ \A q \in HostCalls : q # r => hostCall'[q] = hostCall[q]
      /\ handler'[owner[r]] = "run"
      /\ \A c \in Calls : c # owner[r] => handler'[c] = handler[c]
  BY <1>1 DEF Plug!HostCallReturns, SdkTypes
<1>3. HostCalling' = HostCalling \ {r} BY SMTT(40), <1>1, <1>2 DEF HostCalling
<1>. QED BY <1>1, <1>2, <1>3 DEF OwnerInv

\* Every step keeps OwnerInv.
LEMMA OwnerInvInv ==
  ASSUME SdkTypes, PipeInv, HandlerInv, OwnerInv, [Plug!Next]_(Plug!vars)
  PROVE  OwnerInv'
<1>1. CASE UNCHANGED <<handler, hostCall, owner>> BY <1>1 DEF OwnerInv, HostCalling
<1>2. ASSUME NEW c \in Calls, handler[c] # "host", UNCHANGED <<hostCall, owner>>,
             \A d \in Calls : d # c => handler'[d] = handler[d]
      PROVE  OwnerInv'
  BY <1>2 DEF OwnerInv, HostCalling
<1>3. CASE Plug!SdkRequest
 <2>1. PICK c \in Calls : c = Head(toPlugin).id /\ Head(toPlugin) = Plug!Request(c)
   BY <1>3, Heads, PluginMessage DEF Plug!SdkRequest
 <2>2. In(Plug!Request(c), toPlugin) BY <1>3, <2>1, TailPipe DEF PipeInv, Plug!SdkRequest
 <2>3. handler[c] = "none" BY <2>2 DEF HandlerInv
 <2>4. handler' = [handler EXCEPT ![c] = "run"] /\ UNCHANGED <<hostCall, owner>>
   BY <1>3, <2>1 DEF Plug!SdkRequest
 <2>. QED BY <1>2, <2>3, <2>4 DEF SdkTypes
<1>4. ASSUME NEW c \in Calls, Plug!HandlerEnds(c) \/ Plug!HandlerResponds(c)
      PROVE  OwnerInv'
  BY <1>2, <1>4 DEF Plug!HandlerEnds, Plug!HandlerResponds, SdkTypes
<1>5. ASSUME NEW c \in Calls, NEW r \in HostCalls, Plug!HandlerCalls(c, r)
      PROVE  OwnerInv'
 <2>1. /\ handler[c] = "run" /\ handler'[c] = "host" /\ owner'[r] = c
       /\ hostCall[r] = "idle" /\ hostCall'[r] = "write"
       /\ \A d \in Calls : d # c => handler'[d] = handler[d]
       /\ \A q \in HostCalls : q # r => owner'[q] = owner[q] /\ hostCall'[q] = hostCall[q]
   BY <1>5 DEF Plug!HandlerCalls, SdkTypes
 <2>2. HostCalling' = HostCalling \cup {r} /\ r \notin HostCalling BY <2>1 DEF HostCalling
 <2>3. \A q \in HostCalling : q \in HostCalls /\ q # r /\ owner[q] # c
   BY <2>1, <2>2 DEF OwnerInv, HostCalling
 <2>. QED BY <2>1, <2>2, <2>3 DEF OwnerInv
<1>6. ASSUME NEW r \in HostCalls, Plug!HostCallWrite(r)
      PROVE  OwnerInv'
 <2>1. UNCHANGED <<handler, owner>> /\ HostCalling' = HostCalling
   BY <1>6 DEF Plug!HostCallWrite, HostCalling, SdkTypes
 <2>. QED BY <2>1 DEF OwnerInv
<1>7. ASSUME NEW r \in HostCalls, Plug!HostCallEnds(r) \/ Plug!HostCallWriteCancel(r)
      PROVE  OwnerInv'
  BY <1>7, OwnerReturns DEF Plug!HostCallEnds, Plug!HostCallWriteCancel, HostCalling
<1>8. ASSUME NEW r \in HostCalls, Plug!HostCallCanceled(r)
      PROVE  OwnerInv'
 <2>1. CASE r \in sdkPending
  <3>1. UNCHANGED <<handler, owner>> /\ HostCalling' = HostCalling
    BY <1>8, <2>1 DEF Plug!HostCallCanceled, HostCalling, SdkTypes
  <3>. QED BY <3>1 DEF OwnerInv
 <2>2. CASE r \notin sdkPending BY <1>8, <2>2, OwnerReturns DEF Plug!HostCallCanceled, HostCalling
 <2>. QED BY <2>1, <2>2
<1>. QED BY <1>1, <1>3, <1>4, <1>5, <1>6, <1>7, <1>8
  DEF Plug!Next, Plug!vars, Plug!sdkVars, Plug!FinishStep, Plug!FinishUnregister, Plug!FinishSend, Plug!FinishClose, Plug!StartStep,
      Plug!Initialized, Plug!Register, Plug!RegisterFails, Plug!Close, Plug!ProcessReaped, Plug!ProcessEnds, Plug!ReaderStep,
      Plug!ReadResponse, Plug!ReadSend, Plug!ReadGoesOn, Plug!ReadEnds, Plug!ReadRequest, Plug!ReadCancel, Plug!SdkReaderStep,
      Plug!SdkCancel, Plug!SdkResponse, Plug!SdkShutdown, Plug!RogueWrites, Plug!CallStep, Plug!CallBegin, Plug!CallWrite,
      Plug!CallTake, Plug!CallStopped, Plug!CallCanceled, Plug!CallWriteCancel, Plug!CancelContext, Plug!WorkEnds,
      Plug!WorkAnswers, Plug!HostCallStep

\* Every step keeps HandlerInv.
LEMMA HandlerInvInv ==
  ASSUME Plug!TypeOK, PipeInv, HandlerInv, OwnerInv, [Plug!Next]_(Plug!vars)
  PROVE  HandlerInv'
<1>0. PluginCallTypes /\ SdkTypes /\ toPlugin \in Seq(ForPlugin)
  BY DEF Plug!TypeOK, PluginCallTypes, SdkTypes, PipeInv
<1>1. closed /\ UNCHANGED closed => closed' /\ fin'.stage = "done" BY DoneStays DEF HandlerInv
<1>2. CASE UNCHANGED <<toPlugin, request, handler, requests, closed>> BY <1>1, <1>2 DEF HandlerInv
<1>3. ASSUME UNCHANGED <<toPlugin, handler, requests, closed>>,
             \A d \in Calls : request'[d] \in {"idle", "write"} => request[d] \in {"idle", "write"}
      PROVE  HandlerInv'
  BY <1>1, <1>3 DEF HandlerInv
<1>4. ASSUME NEW c \in Calls, Plug!CallBegin(c) \/ Plug!CallTake(c) \/ Plug!CallStopped(c) \/ Plug!CallCanceled(c)
      PROVE  HandlerInv'
  BY <1>0, <1>3, <1>4
  DEF Plug!CallBegin, Plug!CallTake, Plug!CallStopped, Plug!CallCanceled, Plug!Return, PluginCallTypes, Plug!sdkVars
<1>5. ASSUME NEW c \in Calls, Plug!CallWrite(c)
      PROVE  HandlerInv'
 <2>1. CASE UNCHANGED toPlugin
   BY <1>0, <1>3, <1>5, <2>1
      DEF Plug!CallWrite, Plug!Return, PluginCallTypes, Plug!sdkVars
 <2>2. CASE toPlugin' = Append(toPlugin, Plug!Request(c))
  <3>1. /\ UNCHANGED <<handler, requests, closed>> /\ request[c] = "write"
        /\ request' = [request EXCEPT ![c] = "wait"]
   <4>1. toPlugin' # toPlugin BY <1>0, <2>2
   <4>. QED BY <1>5, <4>1 DEF Plug!CallWrite, Plug!sdkVars
  <3>2. /\ request'[c] = "wait" /\ \A d \in Calls : d # c => request'[d] = request[d]
    BY <1>0, <3>1 DEF PluginCallTypes
  <3>3. handler[c] = "none" /\ ~In(Plug!Request(c), toPlugin) /\ ~In(Plug!Cancel(c), toPlugin)
    BY <3>1 DEF HandlerInv
  <3>4. /\ \A m : In(m, toPlugin') <=> In(m, toPlugin) \/ m = Plug!Request(c)
        /\ \A m : Once(m, toPlugin) /\ (m = Plug!Request(c) => ~In(m, toPlugin)) => Once(m, toPlugin')
        /\ \A m, n : Precedes(m, n, toPlugin) /\ m # n /\ (m = Plug!Request(c) => ~In(n, toPlugin))
                      => Precedes(m, n, toPlugin')
   <4>1. Plug!Request(c) \in ForPlugin BY DEF ForPlugin
   <4>. QED BY <1>0, <2>2, <4>1, AppendPipe
  <3>. QED BY <1>1, <3>1, <3>2, <3>3, <3>4, MessageFacts DEF HandlerInv
 <2>. QED BY <1>5, <2>1, <2>2 DEF Plug!CallWrite
<1>6. ASSUME NEW x \in ForPlugin, toPlugin' = Append(toPlugin, x),
             UNCHANGED <<handler, requests, closed>>,
             \A d \in Calls : x # Plug!Request(d),
             \A d \in Calls : request'[d] \in {"idle", "write"} =>
                request[d] \in {"idle", "write"} /\ x # Plug!Cancel(d)
      PROVE  HandlerInv'
 <2>1. /\ \A m : In(m, toPlugin') <=> In(m, toPlugin) \/ m = x
       /\ \A m : Once(m, toPlugin) /\ (m = x => ~In(m, toPlugin)) => Once(m, toPlugin')
       /\ \A m, n : Precedes(m, n, toPlugin) /\ m # n /\ (m = x => ~In(n, toPlugin))
                       => Precedes(m, n, toPlugin')
   BY <1>0, <1>6, AppendPipe
 <2>. QED BY <1>1, <1>6, <2>1, MessageFacts DEF HandlerInv
<1>7. ASSUME NEW c \in Calls, Plug!CallWriteCancel(c)
      PROVE  HandlerInv'
 <2>1. Plug!Cancel(c) \in ForPlugin /\ \A d \in Calls : Plug!Cancel(c) # Plug!Request(d) /\ (Plug!Cancel(c) = Plug!Cancel(d) <=> c = d)
   BY MessageFacts DEF ForPlugin
 <2>2. \A d \in Calls : request'[d] \in {"idle", "write"} => request[d] \in {"idle", "write"} /\ d # c
   BY <1>0, <1>7 DEF Plug!CallWriteCancel, Plug!Return, PluginCallTypes
 <2>. QED BY <1>3, <1>6, <1>7, <2>1, <2>2 DEF Plug!CallWriteCancel, Plug!sdkVars
<1>8. ASSUME NEW r \in HostCalls, Plug!WorkAnswers(r)
      PROVE  HandlerInv'
 <2>1. Plug!Response(r) \in ForPlugin /\ \A d \in Calls : Plug!Response(r) # Plug!Request(d) /\ Plug!Response(r) # Plug!Cancel(d)
   BY MessageFacts DEF ForPlugin
 <2>. QED BY <1>2, <1>6, <1>8, <2>1 DEF Plug!WorkAnswers, Plug!sdkVars, Plug!callVars
<1>9. ASSUME toPlugin # <<>>, toPlugin' = Tail(toPlugin)
      PROVE  \A c \in Calls :
               /\ Once(Plug!Request(c), toPlugin') /\ Precedes(Plug!Request(c), Plug!Cancel(c), toPlugin')
               /\ In(Plug!Request(c), toPlugin') => In(Plug!Request(c), toPlugin)
               /\ In(Plug!Cancel(c), toPlugin') => In(Plug!Cancel(c), toPlugin)
               /\ Head(toPlugin) = Plug!Request(c) =>
                    In(Plug!Request(c), toPlugin) /\ ~In(Plug!Request(c), toPlugin')
  BY <1>0, <1>9, TailPipe DEF HandlerInv
<1>10. CASE Plug!SdkRequest
 <2>1. PICK c \in Calls : c = Head(toPlugin).id /\ Head(toPlugin) = Plug!Request(c)
   BY <1>10, Heads, PluginMessage DEF Plug!SdkRequest
 <2>2. /\ handler'[c] = "run" /\ \A d \in Calls : d # c => handler'[d] = handler[d]
       /\ requests' = requests \cup {c} /\ UNCHANGED <<request, closed>>
       /\ toPlugin # <<>> /\ toPlugin' = Tail(toPlugin)
   BY <1>0, <1>10, <2>1 DEF Plug!SdkRequest, SdkTypes, Plug!callVars
 <2>3. In(Plug!Request(c), toPlugin) /\ ~In(Plug!Request(c), toPlugin') BY <1>9, <2>1, <2>2
 <2>4. handler[c] = "none" /\ request[c] \notin {"idle", "write"} BY <2>3 DEF HandlerInv
 <2>. QED BY <1>1, <1>9, <2>2, <2>3, <2>4 DEF HandlerInv, Active
<1>11. CASE Plug!SdkCancel \/ Plug!SdkResponse
 <2>1. /\ UNCHANGED <<request, handler, requests, closed>>
       /\ toPlugin # <<>> /\ toPlugin' = Tail(toPlugin)
   BY <1>11 DEF Plug!SdkCancel, Plug!SdkResponse, Plug!callVars
 <2>. QED BY <1>1, <1>9, <2>1 DEF HandlerInv
<1>12. CASE Plug!SdkShutdown
 <2>1. UNCHANGED <<request, handler, toPlugin, fin>> /\ closed' = TRUE /\ fin.stage = "done"
   BY <1>12 DEF Plug!SdkShutdown, Plug!callVars, Plug!stopVars, Plug!StdinClosed
 <2>. QED BY <2>1 DEF HandlerInv
<1>13. ASSUME UNCHANGED <<toPlugin, request, closed>>, NEW c \in Calls, handler[c] \in Active,
              handler'[c] # "none",
              \A d \in Calls : d # c => handler'[d] = handler[d],
              \/ handler'[c] \in Active /\ UNCHANGED requests
              \/ handler'[c] \notin Active /\ requests' = requests \ {c}
       PROVE  HandlerInv'
  BY <1>1, <1>13 DEF HandlerInv, Active
<1>14. ASSUME NEW c \in Calls, Plug!HandlerEnds(c) \/ Plug!HandlerResponds(c) \/ \E r \in HostCalls : Plug!HandlerCalls(c, r)
       PROVE  HandlerInv'
 <2>1. /\ UNCHANGED <<toPlugin, request, closed>>
       /\ handler[c] \in Active /\ handler'[c] # "none"
       /\ \A d \in Calls : d # c => handler'[d] = handler[d]
       /\ \/ handler'[c] \in Active /\ UNCHANGED requests
          \/ handler'[c] \notin Active /\ requests' = requests \ {c}
   BY <1>0, <1>14
      DEF Plug!HandlerEnds, Plug!HandlerResponds, Plug!HandlerCalls, SdkTypes,
          Active, Plug!callVars
 <2>. QED BY <1>13, <2>1
<1>15. ASSUME NEW r \in HostCalls, Plug!HostCallStep(r)
       PROVE  HandlerInv'
 <2>1. UNCHANGED <<toPlugin, request, closed, requests, owner>>
   BY <1>15
      DEF Plug!HostCallStep, Plug!HostCallWrite, Plug!HostCallEnds,
          Plug!HostCallCanceled, Plug!HostCallWriteCancel, Plug!callVars
 <2>2. UNCHANGED handler \/ (r \in HostCalling /\ Plug!HostCallReturns(r))
   BY <1>15
      DEF Plug!HostCallStep, Plug!HostCallWrite, Plug!HostCallEnds,
          Plug!HostCallCanceled, Plug!HostCallWriteCancel, HostCalling
 <2>3. CASE r \in HostCalling /\ Plug!HostCallReturns(r)
  <3>1. /\ owner[r] \in Calls /\ handler[owner[r]] = "host" /\ handler'[owner[r]] = "run"
        /\ \A c \in Calls : c # owner[r] => handler'[c] = handler[c]
    BY <1>0, <2>1, <2>3, OwnerReturns
  <3>2. PICK c \in Calls : c = owner[r] BY SMTT(40), <3>1
  <3>. QED BY <1>13, <2>1, <3>1, <3>2 DEF Active
 <2>. QED BY <1>2, <2>1, <2>2, <2>3
<1>. QED BY <1>2, <1>4, <1>5, <1>7, <1>8, <1>10, <1>11, <1>12, <1>14, <1>15
  DEF Plug!Next, Plug!vars, Plug!callVars, Plug!sdkVars, Plug!FinishStep, Plug!FinishUnregister, Plug!FinishSend, Plug!FinishClose,
      Plug!StartStep, Plug!Initialized, Plug!Register, Plug!RegisterFails, Plug!Close, Plug!ProcessReaped, Plug!ProcessEnds,
      Plug!ReaderStep, Plug!ReadResponse, Plug!ReadSend, Plug!ReadGoesOn, Plug!ReadEnds, Plug!ReadRequest, Plug!ReadCancel,
      Plug!SdkReaderStep, Plug!RogueWrites, Plug!CallStep, Plug!CancelContext, Plug!WorkEnds

----------------------------------------
(* The calls of the plugin and the work of the host for them.              *)

\* Only FinishClose closes p.done.
LEMMA OnlyClose ==
  ASSUME StopTypes, [Plug!Next]_(Plug!vars), fin'.stage = "done"
  PROVE  fin.stage = "done" \/ Plug!FinishClose
<1>1. CASE UNCHANGED fin BY <1>1
<1>2. CASE Plug!FinishSend
 <2>1. \A c : [fin EXCEPT !.calls = @ \ {c}].stage = fin.stage BY DEF StopTypes
 <2>. QED BY <1>2, <2>1 DEF Plug!FinishSend
<1>3. CASE Plug!FinishUnregister
 <2>1. [fin EXCEPT !.stage = "send"].stage = "send" BY DEF StopTypes
 <2>. QED BY <1>3, <2>1 DEF Plug!FinishUnregister
<1>4. ASSUME NEW why, Plug!Finish(why)
      PROVE  fin.stage = "done"
  BY SMTT(40), <1>4 DEF Plug!Finish, Plug!stopVars
<1>. QED BY <1>1, <1>2, <1>3, <1>4
  DEF Plug!Next, Plug!vars, Plug!stopVars, Plug!FinishStep,
      Plug!StartStep, Plug!Initialized, Plug!Register, Plug!RegisterFails, Plug!Close, Plug!ProcessReaped, Plug!ProcessEnds,
      Plug!ReaderStep, Plug!ReadResponse, Plug!ReadSend, Plug!ReadGoesOn, Plug!ReadRequest, Plug!ReadCancel, Plug!ReadEnds,
      Plug!SdkReaderStep, Plug!SdkRequest, Plug!SdkCancel, Plug!SdkResponse, Plug!SdkShutdown, Plug!RogueWrites,
      Plug!CallStep, Plug!CallBegin, Plug!CallWrite, Plug!CallTake, Plug!CallStopped, Plug!CallCanceled, Plug!CallWriteCancel,
      Plug!CancelContext, Plug!HandlerEnds, Plug!HandlerResponds, Plug!WorkEnds, Plug!WorkAnswers, Plug!HostCallStep,
      Plug!HostCallWrite, Plug!HostCallEnds, Plug!HostCallCanceled, Plug!HostCallWriteCancel, Plug!HandlerCalls

\* A response in the wire to the plugin is that of some work of the host.
LEMMA ResponsesToPlugin ==
  ASSUME PipeInv, [Plug!Next]_(Plug!vars), NEW r \in HostCalls, In(Plug!Response(r), toPlugin')
  PROVE  In(Plug!Response(r), toPlugin) \/ Plug!WorkAnswers(r)
<1>0. toPlugin \in Seq(ForPlugin) BY DEF PipeInv
<1>1. ASSUME NEW m \in ForPlugin, toPlugin' = Append(toPlugin, m)
      PROVE  In(Plug!Response(r), toPlugin) \/ m = Plug!Response(r)
  BY <1>0, <1>1, AppendPipe
<1>2. CASE UNCHANGED toPlugin BY <1>2
<1>3. CASE Plug!SdkRequest \/ Plug!SdkCancel \/ Plug!SdkResponse
 <2>1. toPlugin # <<>> /\ toPlugin' = Tail(toPlugin)
   BY <1>3 DEF Plug!SdkRequest, Plug!SdkCancel, Plug!SdkResponse
 <2>. QED BY <1>0, <2>1, TailPipe
<1>4. ASSUME NEW c \in Calls, Plug!CallWrite(c) \/ Plug!CallWriteCancel(c)
      PROVE  In(Plug!Response(r), toPlugin)
 <2>1. /\ Plug!Request(c) \in ForPlugin /\ Plug!Request(c) # Plug!Response(r)
       /\ Plug!Cancel(c) \in ForPlugin /\ Plug!Cancel(c) # Plug!Response(r)
   BY MessageFacts DEF ForPlugin
 <2>. QED BY <1>1, <1>4, <2>1 DEF Plug!CallWrite, Plug!CallWriteCancel
<1>5. ASSUME NEW q \in HostCalls, Plug!WorkAnswers(q)
      PROVE  In(Plug!Response(r), toPlugin) \/ Plug!WorkAnswers(r)
 <2>1. Plug!Response(q) \in ForPlugin /\ (Plug!Response(q) = Plug!Response(r) => q = r)
   BY MessageFacts DEF ForPlugin
 <2>. QED BY <1>1, <1>5, <2>1 DEF Plug!WorkAnswers
<1>. QED BY <1>2, <1>3, <1>4, <1>5
  DEF Plug!Next, Plug!vars, Plug!FinishStep, Plug!FinishUnregister, Plug!FinishSend, Plug!FinishClose, Plug!StartStep, Plug!Initialized,
      Plug!Register, Plug!RegisterFails, Plug!Close, Plug!ProcessReaped, Plug!ProcessEnds, Plug!ReaderStep, Plug!ReadResponse,
      Plug!ReadSend, Plug!ReadGoesOn, Plug!ReadRequest, Plug!ReadCancel, Plug!ReadEnds, Plug!SdkReaderStep, Plug!SdkShutdown,
      Plug!RogueWrites, Plug!CallStep, Plug!CallBegin, Plug!CallTake, Plug!CallStopped, Plug!CallCanceled, Plug!CancelContext,
      Plug!HandlerEnds, Plug!HandlerResponds, Plug!WorkEnds, Plug!HostCallStep, Plug!HostCallWrite, Plug!HostCallEnds,
      Plug!HostCallCanceled, Plug!HostCallWriteCancel, Plug!HandlerCalls

\* Every step keeps WorkInv.
LEMMA WorkInvInv ==
  ASSUME Plug!TypeOK, PipeInv, WorkInv, [Plug!Next]_(Plug!vars)
  PROVE  WorkInv'
<1>0. StopTypes /\ WorkTypes /\ SdkTypes /\ toHost \in Seq(ForHost)
  BY DEF Plug!TypeOK, StopTypes, WorkTypes, SdkTypes, PipeInv
<1> DEFINE Less == \A r \in HostCalls :
             /\ Once(Plug!Request(r), toHost') /\ Precedes(Plug!Request(r), Plug!Cancel(r), toHost')
             /\ In(Plug!Request(r), toHost') => In(Plug!Request(r), toHost)
             /\ In(Plug!Cancel(r), toHost') => In(Plug!Cancel(r), toHost)
           NoLater(S) == \A r \in S : hostCall'[r] \in {"idle", "write"} => hostCall[r] \in {"idle", "write"}
<1>1. ASSUME Less, UNCHANGED <<serving, hostRequests>>, workCanceled \subseteq workCanceled',
             NoLater(HostCalls), ~Plug!FinishClose, \A r \in HostCalls : ~Plug!WorkAnswers(r)
      PROVE  WorkInv'
  BY <1>0, <1>1, OnlyClose, ResponsesToPlugin DEF WorkInv
<1>2. UNCHANGED toHost => Less BY DEF WorkInv
<1>3. toHost # <<>> /\ toHost' = Tail(toHost) => Less BY <1>0, TailPipe DEF WorkInv
<1>4. toHost' = <<>> => Less BY EmptyPipe
<1>5. ASSUME NEW m \in ForHost, toHost' = Append(toHost, m),
             \A r \in HostCalls : m # Plug!Request(r) /\ m # Plug!Cancel(r)
      PROVE  Less
  BY <1>0, <1>5, AppendPipe, MessageFacts DEF WorkInv
<1>6. CASE Plug!FinishClose
 <2>1. /\ UNCHANGED <<serving, hostRequests, hostCall, toHost, toPlugin>>
       /\ workCanceled' = workCanceled \cup {r \in HostCalls : serving[r] # "none"}
   BY <1>6 DEF Plug!FinishClose, Plug!sdkVars
 <2>. QED BY <2>1 DEF WorkInv
<1>7. ASSUME NEW r \in HostCalls, Plug!WorkAnswers(r)
      PROVE  WorkInv'
 <2>1. /\ UNCHANGED <<hostCall, toHost, workCanceled>>
       /\ serving[r] = "answer" /\ serving'[r] = "done" /\ hostRequests' = hostRequests \ {r}
       /\ \A q \in HostCalls : q # r => serving'[q] = serving[q]
   BY <1>0, <1>7 DEF Plug!WorkAnswers, WorkTypes, Plug!sdkVars
 <2>2. fin'.stage = "done" => fin.stage = "done" BY <1>7 DEF Plug!WorkAnswers, Plug!stopVars
 <2>3. \A q \in HostCalls : q # r => ~Plug!WorkAnswers(q)
   BY <1>0, <2>1 DEF Plug!WorkAnswers, WorkTypes
 <2>. QED BY <2>1, <2>2, <2>3, ResponsesToPlugin DEF WorkInv
<1>8. CASE Plug!ReadRequest
 <2>1. PICK r \in HostCalls : r = Head(toHost).id /\ Head(toHost) = Plug!Request(r)
   BY <1>8, Heads, HostMessage DEF Plug!ReadRequest
 <2>2. /\ UNCHANGED <<hostCall, toPlugin, fin>> /\ toHost # <<>> /\ toHost' = Tail(toHost)
       /\ serving'[r] = "run" /\ hostRequests' = hostRequests \cup {r}
       /\ workCanceled' = IF fin.stage = "done" THEN workCanceled \cup {r} ELSE workCanceled
       /\ \A q \in HostCalls : q # r => serving'[q] = serving[q]
   BY <1>0, <1>8, <2>1 DEF Plug!ReadRequest, WorkTypes, Plug!sdkVars, Plug!stopVars
 <2>3. Less BY <1>3, <2>2
 <2>4. In(Plug!Request(r), toHost) /\ ~In(Plug!Request(r), toHost')
   BY <1>0, <2>1, <2>2, TailPipe DEF WorkInv
 <2>5. serving[r] = "none" /\ hostCall[r] \notin {"idle", "write"} BY <2>4 DEF WorkInv
 <2>. QED BY <2>2, <2>3, <2>4, <2>5 DEF WorkInv
<1>9. ASSUME NEW r \in HostCalls, Plug!WorkEnds(r)
      PROVE  WorkInv'
 <2>1. /\ UNCHANGED <<hostCall, toHost, toPlugin, workCanceled, hostRequests, fin>>
       /\ serving[r] = "run" /\ serving'[r] = "answer"
       /\ \A q \in HostCalls : q # r => serving'[q] = serving[q]
   BY <1>0, <1>9 DEF Plug!WorkEnds, WorkTypes, Plug!sdkVars, Plug!stopVars
 <2>. QED BY <2>1 DEF WorkInv
<1>10. ASSUME NEW r \in HostCalls, Plug!HostCallWrite(r)
       PROVE  WorkInv'
 <2>1. /\ UNCHANGED <<serving, hostRequests, workCanceled, toPlugin, fin>>
       /\ hostCall[r] = "write" /\ hostCall'[r] = "wait"
       /\ \A q \in HostCalls : q # r => hostCall'[q] = hostCall[q]
       /\ toHost' = Append(toHost, Plug!Request(r)) /\ Plug!Request(r) \in ForHost
   BY <1>0, <1>10
      DEF Plug!HostCallWrite, SdkTypes, Plug!workVars, Plug!stopVars, ForHost
 <2>2. /\ \A m : In(m, toHost') <=> In(m, toHost) \/ m = Plug!Request(r)
       /\ \A m : Once(m, toHost) /\ (m = Plug!Request(r) => ~In(m, toHost)) => Once(m, toHost')
       /\ \A m, n : Precedes(m, n, toHost) /\ m # n /\ (m = Plug!Request(r) => ~In(n, toHost))
                      => Precedes(m, n, toHost')
   BY <1>0, <2>1, AppendPipe
 <2>. QED BY <2>1, <2>2, MessageFacts DEF WorkInv
<1>11. ASSUME NEW r \in HostCalls, Plug!HostCallWriteCancel(r)
       PROVE  WorkInv'
 <2>1. /\ UNCHANGED <<serving, hostRequests, workCanceled, toPlugin, fin>>
       /\ hostCall[r] = "cancel" /\ hostCall'[r] = "done"
       /\ \A q \in HostCalls : q # r => hostCall'[q] = hostCall[q]
       /\ toHost' = Append(toHost, Plug!Cancel(r)) /\ Plug!Cancel(r) \in ForHost
   BY <1>0, <1>11
      DEF Plug!HostCallWriteCancel, Plug!HostCallReturns, SdkTypes, Plug!workVars,
          Plug!stopVars, ForHost
 <2>2. /\ \A m : In(m, toHost') <=> In(m, toHost) \/ m = Plug!Cancel(r)
       /\ \A m : Once(m, toHost) /\ (m = Plug!Cancel(r) => ~In(m, toHost)) => Once(m, toHost')
       /\ \A m, n : Precedes(m, n, toHost) /\ m # n /\ (m = Plug!Cancel(r) => ~In(n, toHost))
                      => Precedes(m, n, toHost')
   BY <1>0, <2>1, AppendPipe
 <2>. QED BY <2>1, <2>2, MessageFacts DEF WorkInv
<1>12. ASSUME NEW r \in HostCalls,
              Plug!HostCallEnds(r) \/ Plug!HostCallCanceled(r) \/ \E c \in Calls : Plug!HandlerCalls(c, r)
       PROVE  WorkInv'
 <2>1. /\ UNCHANGED <<serving, hostRequests, workCanceled, toPlugin, toHost, fin>>
       /\ \A q \in HostCalls : hostCall'[q] \in {"idle", "write"} => hostCall[q] \in {"idle", "write"}
   BY <1>0, <1>12
      DEF Plug!HostCallEnds, Plug!HostCallCanceled, Plug!HandlerCalls,
          Plug!HostCallReturns, SdkTypes,
                      Plug!workVars, Plug!stopVars
 <2>. QED BY <2>1 DEF WorkInv
<1>13. ASSUME NEW c \in Calls, Plug!HandlerResponds(c)
       PROVE  WorkInv'
 <2>1. /\ UNCHANGED <<serving, hostRequests, workCanceled, toPlugin, hostCall, fin>>
       /\ toHost' = Append(toHost, Plug!Response(c)) /\ Plug!Response(c) \in ForHost
   BY <1>13 DEF Plug!HandlerResponds, Plug!workVars, Plug!stopVars, ForHost
 <2>2. Less BY <1>5, <2>1, MessageFacts
 <2>. QED BY <2>1, <2>2 DEF WorkInv
<1>14. CASE Plug!RogueWrites
 <2>1. PICK c \in Calls : \E m \in {Plug!Response(c), Plug!Bad(c)} : toHost' = Append(toHost, m)
   BY <1>14 DEF Plug!RogueWrites
 <2>2. Plug!Response(c) \in ForHost /\ Plug!Bad(c) \in ForHost BY DEF ForHost
 <2>3. UNCHANGED <<serving, hostRequests, workCanceled, toPlugin, hostCall, fin>>
   BY <1>14 DEF Plug!RogueWrites, Plug!workVars, Plug!stopVars, Plug!sdkVars
 <2>4. Less BY <1>5, <2>1, <2>2, MessageFacts
 <2>. QED BY <2>3, <2>4 DEF WorkInv
<1>15. CASE /\ UNCHANGED <<serving, hostRequests, hostCall>> /\ workCanceled \subseteq workCanceled'
            /\ \/ UNCHANGED toHost \/ toHost' = <<>>
               \/ toHost # <<>> /\ toHost' = Tail(toHost)
 <2>. HIDE DEF Less
 <2>1. Less /\ NoLater(HostCalls) BY SMTT(40), <1>2, <1>3, <1>4, <1>15
 <2>. QED BY <1>1, <1>6, <1>7, <1>15, <2>1
<1>. QED BY <1>6, <1>7, <1>8, <1>9, <1>10, <1>11, <1>12, <1>13, <1>14, <1>15
  DEF Plug!Next, Plug!vars, Plug!workVars, Plug!sdkVars, Plug!FinishStep, Plug!FinishUnregister, Plug!FinishSend, Plug!StartStep,
      Plug!Initialized, Plug!Register, Plug!RegisterFails, Plug!Close, Plug!ProcessReaped, Plug!ProcessEnds, Plug!ReaderStep,
      Plug!ReadResponse, Plug!ReadSend, Plug!ReadGoesOn, Plug!ReadCancel, Plug!ReadEnds, Plug!SdkReaderStep, Plug!SdkRequest,
      Plug!SdkCancel, Plug!SdkResponse, Plug!SdkShutdown, Plug!CallStep, Plug!CallBegin, Plug!CallWrite, Plug!CallTake,
      Plug!CallStopped, Plug!CallCanceled, Plug!CallWriteCancel, Plug!CancelContext, Plug!HandlerEnds, Plug!HostCallStep

\* Every step keeps AnswerInv.
LEMMA AnswerInvInv ==
  ASSUME Plug!TypeOK, PipeInv, HandlerInv, WorkInv, AnswerInv, [Plug!Next]_(Plug!vars)
  PROVE  AnswerInv'
<1>0. WorkTypes /\ SdkTypes /\ toHost \in Seq(ForHost) /\ toPlugin \in Seq(ForPlugin)
  BY DEF Plug!TypeOK, WorkTypes, SdkTypes, PipeInv
<1> DEFINE Kept == \A r \in HostCalls :
             /\ In(Plug!Cancel(r), toHost) => In(Plug!Cancel(r), toHost')
             /\ In(Plug!Request(r), toHost') => In(Plug!Request(r), toHost)
           GoesOn == \A r \in HostCalls :
             /\ serving[r] = "done" => serving'[r] = "done"
             /\ serving'[r] = "run" => serving[r] = "run"
<1>1. ASSUME Kept, GoesOn, UNCHANGED <<sdkCh, sdkPending, hostCall, closed>>,
             workCanceled \subseteq workCanceled', lives' => lives
      PROVE  AnswerInv'
  BY <1>1, DoneStays DEF AnswerInv
<1>2. ASSUME NEW m \in ForHost, toHost' = Append(toHost, m), \A r \in HostCalls : m # Plug!Request(r)
      PROVE  Kept
  BY <1>0, <1>2, AppendPipe
<1>3. toHost # <<>> /\ toHost' = Tail(toHost) => \A m : In(m, toHost) <=> In(m, toHost') \/ m = Head(toHost)
  BY <1>0, TailPipe
<1>4. CASE UNCHANGED <<toHost, sdkCh, sdkPending, hostCall, closed>> /\ GoesOn
           /\ workCanceled \subseteq workCanceled' /\ (lives' => lives)
  BY <1>1, <1>4
<1>5. ASSUME NEW r \in HostCalls, Plug!WorkEnds(r) \/ Plug!WorkAnswers(r)
      PROVE  AnswerInv'
 <2>1. UNCHANGED <<toHost, sdkCh, sdkPending, hostCall, closed, lives, workCanceled>>
   BY <1>5 DEF Plug!WorkEnds, Plug!WorkAnswers, Plug!sdkVars, Plug!process
 <2>2. GoesOn BY <1>0, <1>5 DEF Plug!WorkEnds, Plug!WorkAnswers, WorkTypes
 <2>. QED BY <1>4, <2>1, <2>2
<1>6. CASE Plug!ReadRequest
 <2>1. PICK r \in HostCalls : r = Head(toHost).id /\ Head(toHost) = Plug!Request(r)
   BY <1>6, Heads, HostMessage DEF Plug!ReadRequest
 <2>2. /\ UNCHANGED <<sdkCh, sdkPending, hostCall, closed, lives, fin>>
       /\ toHost # <<>> /\ toHost' = Tail(toHost) /\ workCanceled \subseteq workCanceled'
       /\ serving'[r] = "run" /\ \A q \in HostCalls : q # r => serving'[q] = serving[q]
   BY <1>0, <1>6, <2>1
      DEF Plug!ReadRequest, WorkTypes, Plug!sdkVars, Plug!stopVars, Plug!process
 <2>3. /\ \A q \in HostCalls : In(Plug!Cancel(q), toHost') <=> In(Plug!Cancel(q), toHost)
       /\ \A q \in HostCalls : In(Plug!Request(q), toHost') => In(Plug!Request(q), toHost)
       /\ In(Plug!Request(r), toHost)
   BY <1>3, <2>1, <2>2, MessageFacts
 <2>4. serving[r] = "none" BY <2>3 DEF WorkInv
 <2>. QED BY <2>2, <2>3, <2>4 DEF AnswerInv
<1>7. CASE Plug!ReadCancel
 <2>1. PICK r \in HostCalls : r = Head(toHost).id /\ Head(toHost) = Plug!Cancel(r)
   BY <1>7, Heads, HostMessage DEF Plug!ReadCancel
 <2>2. /\ UNCHANGED <<sdkCh, sdkPending, hostCall, closed, lives, fin, serving>>
       /\ toHost # <<>> /\ toHost' = Tail(toHost)
       /\ workCanceled' = workCanceled \cup ({r} \cap hostRequests)
   BY <1>7, <2>1 DEF Plug!ReadCancel, Plug!sdkVars, Plug!stopVars, Plug!process
 <2>3. /\ \A q \in HostCalls : q # r => (In(Plug!Cancel(q), toHost') <=> In(Plug!Cancel(q), toHost))
       /\ \A q \in HostCalls : In(Plug!Request(q), toHost') => In(Plug!Request(q), toHost)
   BY <1>3, <2>1, <2>2, MessageFacts
 <2>4. ~In(Plug!Request(r), toHost') BY <1>0, <2>1, <2>2, TailPipe DEF WorkInv
 <2>5. serving[r] = "run" => r \in workCanceled' BY <2>2 DEF WorkInv
 <2>. QED BY <2>2, <2>3, <2>4, <2>5 DEF AnswerInv
<1>8. CASE Plug!ReadResponse
 <2>1. \A r \in HostCalls : Head(toHost) # Plug!Request(r) /\ Head(toHost) # Plug!Cancel(r)
   BY <1>8 DEF Plug!ReadResponse, Plug!Request, Plug!Cancel
 <2>2. /\ toHost # <<>> /\ toHost' = Tail(toHost)
       /\ UNCHANGED <<sdkCh, sdkPending, hostCall, closed, lives, serving, workCanceled>>
   BY <1>8 DEF Plug!ReadResponse, Plug!sdkVars, Plug!workVars, Plug!process
 <2>3. Kept BY <1>3, <2>1, <2>2
 <2>. QED BY <1>1, <2>2, <2>3
<1>9. CASE Plug!ProcessReaped
 <2>1. ~lives' /\ UNCHANGED <<sdkCh, sdkPending, hostCall, closed, serving>>
   BY <1>9 DEF Plug!ProcessReaped, Plug!sdkVars, Plug!workVars, Plug!process
 <2>. QED BY <2>1 DEF AnswerInv
<1>10. CASE Plug!SdkResponse
 <2>1. PICK r \in HostCalls : r = Head(toPlugin).id /\ Head(toPlugin) = Plug!Response(r)
   BY <1>10, Heads, PluginMessage DEF Plug!SdkResponse
 <2>2. In(Plug!Response(r), toPlugin) BY <1>0, <1>10, <2>1, TailPipe DEF Plug!SdkResponse
 <2>3. serving[r] = "done" BY <2>2 DEF WorkInv
 <2>4. /\ UNCHANGED <<toHost, hostCall, closed, lives, serving, workCanceled, fin>>
       /\ sdkCh' = sdkCh \cup ({r} \cap sdkPending) /\ sdkPending' = sdkPending \ {r}
   BY <1>10, <2>1 DEF Plug!SdkResponse, Plug!workVars, Plug!stopVars, Plug!process
 <2>. QED BY <2>3, <2>4 DEF AnswerInv
<1>11. CASE Plug!SdkShutdown
 <2>1. UNCHANGED <<toHost, hostCall, lives, serving, workCanceled, fin>> /\ closed'
   BY <1>11 DEF Plug!SdkShutdown, Plug!workVars, Plug!stopVars, Plug!process
 <2>. QED BY <2>1 DEF AnswerInv
<1>12. ASSUME NEW c \in Calls, NEW r \in HostCalls, Plug!HandlerCalls(c, r)
       PROVE  AnswerInv'
 <2>1. /\ UNCHANGED <<toHost, sdkCh, closed, lives, serving, workCanceled, fin>>
       /\ sdkPending' = sdkPending \cup {r} /\ hostCall'[r] = "write"
       /\ \A q \in HostCalls : q # r => hostCall'[q] = hostCall[q]
   BY <1>0, <1>12
      DEF Plug!HandlerCalls, SdkTypes, Plug!workVars, Plug!stopVars, Plug!process
 <2>. QED BY <2>1 DEF AnswerInv
<1>13. ASSUME NEW r \in HostCalls, Plug!HostCallWrite(r)
       PROVE  AnswerInv'
 <2>1. /\ UNCHANGED <<sdkCh, sdkPending, closed, lives, serving, workCanceled, fin>>
       /\ hostCall[r] = "write" /\ hostCall'[r] = "wait"
       /\ \A q \in HostCalls : q # r => hostCall'[q] = hostCall[q]
       /\ toHost' = Append(toHost, Plug!Request(r)) /\ Plug!Request(r) \in ForHost
   BY <1>0, <1>13
      DEF Plug!HostCallWrite, SdkTypes, Plug!workVars, Plug!stopVars,
          Plug!process, ForHost
 <2>2. \A m : In(m, toHost') <=> In(m, toHost) \/ m = Plug!Request(r) BY <1>0, <2>1, AppendPipe
 <2>. QED BY <2>1, <2>2, MessageFacts DEF AnswerInv
\* The call returns because it is answered, or since the library has shut down.
<1>14. ASSUME NEW r \in HostCalls, r \in sdkCh \/ closed, hostCall'[r] = "done",
              \A q \in HostCalls : q # r => hostCall'[q] = hostCall[q],
              \A q \in HostCalls : q # r => (q \in sdkCh' <=> q \in sdkCh),
              sdkCh' \subseteq sdkCh,
              UNCHANGED <<toHost, sdkPending, closed, lives, serving, workCanceled, fin>>
       PROVE  AnswerInv'
 <2>1. fin.stage = "done" \/ (serving[r] = "done" /\ ~In(Plug!Request(r), toHost))
   BY <1>14 DEF AnswerInv, HandlerInv, WorkInv
 <2>. QED BY <1>14, <2>1 DEF AnswerInv
<1>15. ASSUME NEW r \in HostCalls, Plug!HostCallEnds(r)
       PROVE  AnswerInv'
 <2>1. /\ r \in sdkCh \/ closed
       /\ hostCall'[r] = "done" /\ \A q \in HostCalls : q # r => hostCall'[q] = hostCall[q]
       /\ sdkCh' = sdkCh \ {r}
       /\ UNCHANGED <<toHost, sdkPending, closed, lives, serving, workCanceled, fin>>
   BY <1>0, <1>15
      DEF Plug!HostCallEnds, Plug!HostCallReturns, SdkTypes, Plug!workVars,
          Plug!stopVars, Plug!process
 <2>. QED BY <1>14, <2>1
<1>16. ASSUME NEW r \in HostCalls, Plug!HostCallCanceled(r)
       PROVE  AnswerInv'
 <2>1. /\ hostCall[r] = "wait" /\ \A q \in HostCalls : q # r => hostCall'[q] = hostCall[q]
       /\ UNCHANGED <<toHost, sdkCh, closed, lives, serving, workCanceled, fin>>
   BY <1>0, <1>16
      DEF Plug!HostCallCanceled, Plug!HostCallReturns, SdkTypes, Plug!workVars,
          Plug!stopVars, Plug!process
 <2>2. CASE r \in sdkPending
  <3>1. sdkPending' = sdkPending \ {r} /\ hostCall'[r] = "cancel"
    BY <1>0, <1>16, <2>2 DEF Plug!HostCallCanceled, SdkTypes
  <3>. QED BY <2>1, <3>1 DEF AnswerInv
 <2>3. CASE r \notin sdkPending
  <3>1. UNCHANGED sdkPending /\ hostCall'[r] = "done"
    BY <1>0, <1>16, <2>3 DEF Plug!HostCallCanceled, Plug!HostCallReturns, SdkTypes
  <3>2. r \in sdkCh \/ closed BY <2>1, <2>3 DEF AnswerInv
  <3>. QED BY <1>14, <2>1, <3>1, <3>2
 <2>. QED BY <2>2, <2>3
<1>17. ASSUME NEW r \in HostCalls, Plug!HostCallWriteCancel(r)
       PROVE  AnswerInv'
 <2>1. /\ UNCHANGED <<sdkCh, sdkPending, closed, lives, serving, workCanceled, fin>>
       /\ hostCall'[r] = "done" /\ \A q \in HostCalls : q # r => hostCall'[q] = hostCall[q]
       /\ toHost' = Append(toHost, Plug!Cancel(r)) /\ Plug!Cancel(r) \in ForHost
   BY <1>0, <1>17
      DEF Plug!HostCallWriteCancel, Plug!HostCallReturns, SdkTypes, Plug!workVars,
          Plug!stopVars, Plug!process, ForHost
 <2>2. \A m : In(m, toHost') <=> In(m, toHost) \/ m = Plug!Cancel(r) BY <1>0, <2>1, AppendPipe
 <2>. QED BY <2>1, <2>2, MessageFacts DEF AnswerInv
<1>18. ASSUME NEW m \in ForHost, toHost' = Append(toHost, m), \A r \in HostCalls : m # Plug!Request(r),
              UNCHANGED <<sdkCh, sdkPending, hostCall, closed, lives, serving, workCanceled>>
       PROVE  AnswerInv'
 <2>1. Kept BY <1>2, <1>18
 <2>2. GoesOn BY <1>18
 <2>. HIDE DEF Kept, GoesOn
 <2>. QED BY <1>1, <1>18, <2>1, <2>2
<1>19. ASSUME NEW c \in Calls, Plug!HandlerResponds(c)
       PROVE  AnswerInv'
 <2>1. Plug!Response(c) \in ForHost /\ \A r \in HostCalls : Plug!Response(c) # Plug!Request(r)
   BY MessageFacts DEF ForHost
 <2>. QED BY <1>18, <1>19, <2>1 DEF Plug!HandlerResponds, Plug!workVars, Plug!process
<1>20. CASE Plug!RogueWrites
 <2>1. PICK c \in Calls : \E m \in {Plug!Response(c), Plug!Bad(c)} : toHost' = Append(toHost, m)
   BY <1>20 DEF Plug!RogueWrites
 <2>2. /\ Plug!Response(c) \in ForHost /\ \A r \in HostCalls : Plug!Response(c) # Plug!Request(r)
       /\ Plug!Bad(c) \in ForHost /\ \A r \in HostCalls : Plug!Bad(c) # Plug!Request(r)
   BY MessageFacts DEF ForHost
 <2>3. UNCHANGED <<sdkCh, sdkPending, hostCall, closed, lives, serving, workCanceled>>
   BY <1>20 DEF Plug!RogueWrites, Plug!workVars, Plug!sdkVars
 <2>. QED BY <1>18, <2>1, <2>2, <2>3
<1>21. CASE /\ UNCHANGED <<toHost, sdkCh, sdkPending, hostCall, closed, serving>>
            /\ workCanceled \subseteq workCanceled' /\ (lives' => lives)
  BY SMTT(40), <1>4, <1>21
<1>. HIDE DEF Kept, GoesOn
<1>. QED BY <1>5, <1>6, <1>7, <1>8, <1>9, <1>10, <1>11, <1>12, <1>13, <1>15, <1>16, <1>17, <1>19,
<1>20, <1>21
DEF Plug!Next, Plug!vars, Plug!workVars, Plug!sdkVars, Plug!process, Plug!FinishStep, Plug!FinishUnregister, Plug!FinishSend, Plug!FinishClose,
 Plug!StartStep, Plug!Initialized, Plug!Register, Plug!RegisterFails, Plug!Close, Plug!ProcessEnds, Plug!ReaderStep,
 Plug!ReadSend, Plug!ReadGoesOn, Plug!ReadEnds, Plug!SdkReaderStep, Plug!SdkRequest, Plug!SdkCancel,
 Plug!CallStep, Plug!CallBegin, Plug!CallWrite, Plug!CallTake, Plug!CallStopped, Plug!CallCanceled, Plug!CallWriteCancel,
 Plug!CancelContext, Plug!HandlerEnds, Plug!HostCallStep

----------------------------------------
(* The calls of the host and their handlers, while the plugin keeps to the *)
(* library.                                                                *)

\* finish is not undone.
LEMMA NotYet ==
  ASSUME StopTypes, [Plug!Next]_(Plug!vars), fin'.stage = "no"
  PROVE  fin.stage = "no"
<1>1. CASE UNCHANGED fin BY <1>1
<1>2. CASE Plug!FinishSend
 <2>1. \A c : [fin EXCEPT !.calls = @ \ {c}].stage = fin.stage BY DEF StopTypes
 <2>. QED BY <1>2, <2>1 DEF Plug!FinishSend
<1>3. CASE Plug!FinishUnregister \/ Plug!FinishClose
 <2>1. \A t : [fin EXCEPT !.stage = t].stage = t BY DEF StopTypes
 <2>. QED BY <1>3, <2>1 DEF Plug!FinishUnregister, Plug!FinishClose
<1>4. ASSUME NEW why, Plug!Finish(why)
      PROVE  fin.stage = "no"
  BY <1>4 DEF Plug!Finish, Plug!stopVars
<1>. QED BY <1>1, <1>2, <1>3, <1>4
  DEF Plug!Next, Plug!vars, Plug!stopVars, Plug!FinishStep,
      Plug!StartStep, Plug!Initialized, Plug!Register, Plug!RegisterFails, Plug!Close, Plug!ProcessReaped, Plug!ProcessEnds,
      Plug!ReaderStep, Plug!ReadResponse, Plug!ReadSend, Plug!ReadGoesOn, Plug!ReadRequest, Plug!ReadCancel, Plug!ReadEnds,
      Plug!SdkReaderStep, Plug!SdkRequest, Plug!SdkCancel, Plug!SdkResponse, Plug!SdkShutdown, Plug!RogueWrites,
      Plug!CallStep, Plug!CallBegin, Plug!CallWrite, Plug!CallTake, Plug!CallStopped, Plug!CallCanceled, Plug!CallWriteCancel,
      Plug!CancelContext, Plug!HandlerEnds, Plug!HandlerResponds, Plug!WorkEnds, Plug!WorkAnswers, Plug!HostCallStep,
      Plug!HostCallWrite, Plug!HostCallEnds, Plug!HostCallCanceled, Plug!HostCallWriteCancel, Plug!HandlerCalls

\* Only a call that is written gets a handler, and a handler ends once.
LEMMA PluginTraffic ==
  ASSUME Plug!TypeOK, PipeInv, HandlerInv, OwnerInv, [Plug!Next]_(Plug!vars), NEW c \in Calls
  PROVE  /\ Live(c)' => Live(c) \/ Plug!CallWrite(c)
         /\ handler[c] = "done" => handler'[c] = "done"
<1>0. SdkTypes /\ toPlugin \in Seq(ForPlugin) BY DEF Plug!TypeOK, SdkTypes, PipeInv
<1>1. ASSUME UNCHANGED <<toPlugin, handler>>
      PROVE  /\ Live(c)' => Live(c)
             /\ handler[c] = "done" => handler'[c] = "done"
  BY <1>1 DEF Live
<1>2. ASSUME NEW m \in ForPlugin, toPlugin' = Append(toPlugin, m), UNCHANGED handler
      PROVE  /\ Live(c)' => Live(c) \/ m = Plug!Request(c)
             /\ handler[c] = "done" => handler'[c] = "done"
  BY <1>0, <1>2, AppendPipe DEF Live
<1>3. ASSUME NEW d \in Calls, Plug!CallWrite(d) \/ Plug!CallWriteCancel(d)
      PROVE  /\ Live(c)' => Live(c) \/ Plug!CallWrite(c)
             /\ handler[c] = "done" => handler'[c] = "done"
 <2>1. /\ Plug!Request(d) \in ForPlugin /\ (Plug!Request(d) = Plug!Request(c) => d = c)
       /\ Plug!Cancel(d) \in ForPlugin /\ Plug!Cancel(d) # Plug!Request(c)
   BY MessageFacts DEF ForPlugin
 <2>. QED BY <1>1, <1>2, <1>3, <2>1 DEF Plug!CallWrite, Plug!CallWriteCancel, Plug!sdkVars
<1>4. ASSUME NEW r \in HostCalls, Plug!WorkAnswers(r)
      PROVE  /\ Live(c)' => Live(c)
             /\ handler[c] = "done" => handler'[c] = "done"
 <2>1. Plug!Response(r) \in ForPlugin /\ Plug!Response(r) # Plug!Request(c)
   BY MessageFacts DEF ForPlugin
 <2>. QED BY <1>1, <1>2, <1>4, <2>1 DEF Plug!WorkAnswers, Plug!sdkVars
<1>5. CASE Plug!SdkRequest
 <2>1. PICK d \in Calls : d = Head(toPlugin).id /\ Head(toPlugin) = Plug!Request(d)
   BY <1>5, Heads, PluginMessage DEF Plug!SdkRequest
 <2>2. toPlugin # <<>> /\ toPlugin' = Tail(toPlugin) /\ handler' = [handler EXCEPT ![d] = "run"]
   BY <1>5, <2>1 DEF Plug!SdkRequest
 <2>3. In(Plug!Request(d), toPlugin) /\ \A m : In(m, toPlugin') => In(m, toPlugin)
   BY <1>0, <2>1, <2>2, TailPipe
 <2>4. handler[d] = "none" BY <2>3 DEF HandlerInv
 <2>5. c # d => handler'[c] = handler[c] BY <1>0, <2>2 DEF SdkTypes
 <2>. QED BY <2>3, <2>4, <2>5 DEF Live
<1>6. CASE Plug!SdkCancel \/ Plug!SdkResponse
 <2>1. toPlugin # <<>> /\ toPlugin' = Tail(toPlugin) /\ UNCHANGED handler
   BY <1>6 DEF Plug!SdkCancel, Plug!SdkResponse
 <2>. QED BY <1>0, <2>1, TailPipe DEF Live
<1>7. ASSUME NEW d \in Calls, Plug!HandlerEnds(d) \/ Plug!HandlerResponds(d) \/ \E r \in HostCalls : Plug!HandlerCalls(d, r)
      PROVE  /\ Live(c)' => Live(c)
             /\ handler[c] = "done" => handler'[c] = "done"
 <2>1. /\ handler[d] \in Active /\ UNCHANGED toPlugin
       /\ c # d => handler'[c] = handler[c]
   BY <1>0, <1>7
      DEF Plug!HandlerEnds, Plug!HandlerResponds, Plug!HandlerCalls, SdkTypes, Active
 <2>. QED BY <2>1 DEF Live, Active
<1>8. ASSUME NEW r \in HostCalls, Plug!HostCallStep(r)
      PROVE  /\ Live(c)' => Live(c)
             /\ handler[c] = "done" => handler'[c] = "done"
 <2>1. UNCHANGED <<toPlugin, owner>>
   BY <1>8
      DEF Plug!HostCallStep, Plug!HostCallWrite, Plug!HostCallEnds,
          Plug!HostCallCanceled, Plug!HostCallWriteCancel
 <2>2. UNCHANGED handler \/ (r \in HostCalling /\ Plug!HostCallReturns(r))
   BY <1>8
      DEF Plug!HostCallStep, Plug!HostCallWrite, Plug!HostCallEnds,
          Plug!HostCallCanceled, Plug!HostCallWriteCancel, HostCalling
 <2>3. CASE r \in HostCalling /\ Plug!HostCallReturns(r)
  <3>1. handler[owner[r]] = "host" /\ (c # owner[r] => handler'[c] = handler[c])
    BY <1>0, <2>1, <2>3, OwnerReturns
  <3>2. CASE c = owner[r] BY <2>1, <3>1, <3>2 DEF Live, Active
  <3>3. CASE c # owner[r] BY SMTT(40), <2>1, <3>1, <3>3 DEF Live
  <3>. QED BY <3>2, <3>3
 <2>. QED BY <1>1, <2>1, <2>2, <2>3
<1>. QED BY <1>1, <1>3, <1>4, <1>5, <1>6, <1>7, <1>8
  DEF Plug!Next, Plug!vars, Plug!sdkVars, Plug!FinishStep, Plug!FinishUnregister, Plug!FinishSend, Plug!FinishClose, Plug!StartStep,
      Plug!Initialized, Plug!Register, Plug!RegisterFails, Plug!Close, Plug!ProcessReaped, Plug!ProcessEnds, Plug!ReaderStep,
      Plug!ReadResponse, Plug!ReadSend, Plug!ReadGoesOn, Plug!ReadEnds, Plug!ReadRequest, Plug!ReadCancel, Plug!SdkReaderStep,
      Plug!SdkShutdown, Plug!RogueWrites, Plug!CallStep, Plug!CallBegin, Plug!CallTake, Plug!CallStopped,
      Plug!CallCanceled, Plug!CancelContext, Plug!WorkEnds

\* While the plugin keeps to the library, a response comes from a handler.
LEMMA HostTraffic ==
  ASSUME Plug!TypeOK, PipeInv, HandlerInv, OwnerInv, [Plug!Next]_(Plug!vars), rogue' = 0, NEW c \in Calls, Answered(c)
  PROVE  /\ Answered(c)'
         /\ In(Plug!Response(c), toHost') => In(Plug!Response(c), toHost) \/ handler[c] = "respond"
<1>0. SdkTypes /\ toHost \in Seq(ForHost) /\ rogue \in Nat BY DEF Plug!TypeOK, SdkTypes, PipeInv
<1>1. handler[c] = "done" => handler'[c] = "done" BY PluginTraffic
<1>2. CASE UNCHANGED toHost BY <1>1, <1>2 DEF Answered
<1>3. CASE toHost' = <<>> BY <1>3, EmptyPipe DEF Answered
<1>4. CASE toHost # <<>> /\ toHost' = Tail(toHost) BY <1>0, <1>1, <1>4, TailPipe DEF Answered
<1>5. ASSUME NEW m \in ForHost, toHost' = Append(toHost, m), m # Plug!Response(c), m # Plug!Bad(c)
      PROVE  /\ Answered(c)'
             /\ In(Plug!Response(c), toHost') => In(Plug!Response(c), toHost)
  BY <1>0, <1>1, <1>5, AppendPipe DEF Answered
<1>6. ASSUME NEW d \in Calls, Plug!HandlerResponds(d)
      PROVE  /\ Answered(c)'
             /\ In(Plug!Response(c), toHost') => In(Plug!Response(c), toHost) \/ handler[c] = "respond"
 <2>1. /\ toHost' = Append(toHost, Plug!Response(d)) /\ Plug!Response(d) \in ForHost
       /\ handler[d] = "respond" /\ handler'[d] = "done"
   BY <1>0, <1>6 DEF Plug!HandlerResponds, ForHost, SdkTypes
 <2>2. CASE d # c BY SMTT(40), <1>5, <2>1, <2>2, MessageFacts
 <2>3. CASE d = c
  <3>1. ~In(Plug!Response(c), toHost) /\ Plug!Response(c) # Plug!Bad(c)
    BY <2>1, <2>3, MessageFacts DEF Answered
  <3>. QED BY <1>0, <2>1, <2>3, <3>1, AppendPipe DEF Answered
 <2>. QED BY <2>2, <2>3
<1>7. ASSUME NEW r \in HostCalls, Plug!HostCallStep(r)
      PROVE  /\ Answered(c)'
             /\ In(Plug!Response(c), toHost') => In(Plug!Response(c), toHost)
 <2>1. /\ Plug!Request(r) \in ForHost /\ Plug!Request(r) # Plug!Response(c) /\ Plug!Request(r) # Plug!Bad(c)
       /\ Plug!Cancel(r) \in ForHost /\ Plug!Cancel(r) # Plug!Response(c) /\ Plug!Cancel(r) # Plug!Bad(c)
   BY MessageFacts DEF ForHost
 <2>. QED BY <1>2, <1>5, <1>7, <2>1
   DEF Plug!HostCallStep, Plug!HostCallWrite, Plug!HostCallEnds, Plug!HostCallCanceled, Plug!HostCallWriteCancel
<1>8. ~Plug!RogueWrites BY SMTT(40), <1>0 DEF Plug!RogueWrites
<1>. QED BY <1>2, <1>3, <1>4, <1>6, <1>7, <1>8
  DEF Plug!Next, Plug!vars, Plug!FinishStep, Plug!FinishUnregister, Plug!FinishSend, Plug!FinishClose, Plug!StartStep,
      Plug!Initialized, Plug!Register, Plug!RegisterFails, Plug!Close, Plug!ProcessReaped, Plug!ProcessEnds, Plug!ReaderStep,
      Plug!ReadResponse, Plug!ReadSend, Plug!ReadGoesOn, Plug!ReadEnds, Plug!ReadRequest, Plug!ReadCancel, Plug!SdkReaderStep,
      Plug!SdkRequest, Plug!SdkCancel, Plug!SdkResponse, Plug!SdkShutdown, Plug!CallStep, Plug!CallBegin, Plug!CallWrite,
      Plug!CallTake, Plug!CallStopped, Plug!CallCanceled, Plug!CallWriteCancel, Plug!CancelContext, Plug!HandlerEnds,
      Plug!WorkEnds, Plug!WorkAnswers, Plug!HandlerCalls

\* Every step keeps ResponseInv.
LEMMA ResponseInvInv ==
  ASSUME Plug!TypeOK, PipeInv, FinishInv, HandlerInv, OwnerInv, ResponseInv, [Plug!Next]_(Plug!vars), rogue' = 0
  PROVE  ResponseInv'
<1>0. PluginCallTypes /\ StopTypes /\ SdkTypes /\ toHost \in Seq(ForHost)
  BY DEF Plug!TypeOK, PluginCallTypes, StopTypes, SdkTypes, PipeInv
<1>1. /\ \A c \in Calls : Answered(c)'
      /\ \A c \in Calls : In(Plug!Response(c), toHost') => In(Plug!Response(c), toHost) \/ handler[c] \in Active
      /\ \A c \in Calls : Live(c)' => Live(c) \/ Plug!CallWrite(c)
      /\ \A c \in Calls : handler[c] = "done" => handler'[c] = "done"
  BY HostTraffic, PluginTraffic DEF ResponseInv, Active
<1>2. fin'.stage = "no" => fin.stage = "no" BY <1>0, NotYet
<1> DEFINE KnownId(c) ==
      fin'.stage = "no" =>
        /\ Live(c)' \/ In(Plug!Response(c), toHost') => c \in awaited' \cup withdrawn'
        /\ request'[c] = "write" => c \in awaited'
        /\ request'[c] = "wait" /\ c \notin awaited' => handler'[c] = "done"
\* A call for which nothing changes on the side of the host.
<1>3. ASSUME NEW c \in Calls, ~Plug!CallWrite(c), request'[c] = request[c] \/ request'[c] \notin {"write", "wait"},
             fin'.stage = "no" => (c \in awaited <=> c \in awaited') /\ (c \in withdrawn <=> c \in withdrawn')
      PROVE  KnownId(c)
  BY <1>1, <1>2, <1>3 DEF ResponseInv, Live
<1>4. ASSUME stopErr' # "protocol", receiver'.do = "send" => receiver'.what = "result",
             \A c \in Calls : KnownId(c)
      PROVE  ResponseInv'
  BY <1>1, <1>4 DEF ResponseInv
<1>5. ASSUME NEW c \in Calls, Plug!CallBegin(c)
      PROVE  ResponseInv'
 <2>1. /\ UNCHANGED <<receiver, stopErr, withdrawn>> /\ request[c] = "idle"
       /\ \/ request'[c] = "done" /\ UNCHANGED awaited
          \/ request'[c] = "write" /\ awaited' = awaited \cup {c}
       /\ \A d \in Calls : d # c => request'[d] = request[d]
   BY <1>0, <1>5 DEF Plug!CallBegin, Plug!Return, PluginCallTypes
 <2>2. \A d \in Calls : ~Plug!CallWrite(d)
  <3>1. \A d \in Calls : Plug!CallWrite(d) => request[d] = "write" /\ request'[d] # "write"
    BY <1>0 DEF Plug!CallWrite, Plug!Return, PluginCallTypes
  <3>. QED BY <2>1, <3>1
 <2>3. \A d \in Calls : d # c => KnownId(d) BY <1>3, <2>1, <2>2
 <2>4. KnownId(c) BY <1>1, <1>2, <2>1, <2>2 DEF ResponseInv, Live
 <2>. QED BY <1>4, <2>1, <2>3, <2>4 DEF ResponseInv
<1>6. ASSUME NEW c \in Calls, Plug!CallWrite(c)
      PROVE  ResponseInv'
 <2>1. /\ UNCHANGED <<receiver, stopErr, withdrawn, handler, toHost>> /\ request[c] = "write"
       /\ \A d \in Calls : d # c => request'[d] = request[d] /\ ~Plug!CallWrite(d)
       /\ \/ awaited' = awaited \ {c} /\ request'[c] = "done" /\ UNCHANGED toPlugin
          \/ UNCHANGED awaited /\ request'[c] = "wait"
   BY <1>0, <1>6 DEF Plug!CallWrite, Plug!Return, PluginCallTypes, Plug!sdkVars
 <2>2. \A d \in Calls : d # c => KnownId(d) BY <1>3, <2>1
 <2>3. handler[c] = "none" /\ ~In(Plug!Request(c), toPlugin) BY <2>1 DEF HandlerInv
 <2>4. ~In(Plug!Response(c), toHost) /\ (fin.stage = "no" => c \in awaited)
   BY <2>1, <2>3 DEF ResponseInv, Answered
 <2>5. KnownId(c) BY <1>2, <2>1, <2>3, <2>4 DEF Live, Active
 <2>. QED BY <1>4, <2>1, <2>2, <2>5 DEF ResponseInv
<1>7. ASSUME NEW c \in Calls, Plug!CallTake(c) \/ Plug!CallStopped(c) \/ Plug!CallWriteCancel(c)
      PROVE  ResponseInv'
 <2>1. /\ UNCHANGED <<receiver, stopErr, awaited, withdrawn>> /\ request[c] \in {"wait", "cancel"}
       /\ request'[c] = "done" /\ \A d \in Calls : d # c => request'[d] = request[d]
   BY <1>0, <1>7
      DEF Plug!CallTake, Plug!CallStopped, Plug!CallWriteCancel, Plug!Return,
          PluginCallTypes, Plug!stopVars
 <2>2. \A d \in Calls : ~Plug!CallWrite(d)
  <3>1. \A d \in Calls : Plug!CallWrite(d) => request[d] = "write" /\ request'[d] # "write"
    BY <1>0 DEF Plug!CallWrite, Plug!Return, PluginCallTypes
  <3>. QED BY <2>1, <3>1
 <2>3. \A d \in Calls : KnownId(d) BY <1>3, <2>1, <2>2
 <2>. QED BY <1>4, <2>1, <2>3 DEF ResponseInv
<1>8. ASSUME NEW c \in Calls, Plug!CallCanceled(c)
      PROVE  ResponseInv'
 <2>1. /\ UNCHANGED <<receiver, stopErr>> /\ request[c] = "wait" /\ request'[c] \in {"cancel", "done"}
       /\ \A d \in Calls : d # c => request'[d] = request[d]
       /\ \/ awaited' = awaited \ {c} /\ withdrawn' = withdrawn \cup {c}
          \/ UNCHANGED <<awaited, withdrawn>>
   BY <1>0, <1>8 DEF Plug!CallCanceled, Plug!Return, PluginCallTypes
 <2>2. \A d \in Calls : ~Plug!CallWrite(d)
  <3>1. \A d \in Calls : Plug!CallWrite(d) => request[d] = "write" /\ request'[d] # "write"
    BY <1>0 DEF Plug!CallWrite, Plug!Return, PluginCallTypes
  <3>. QED BY <2>1, <3>1
 <2>3. \A d \in Calls : d # c => KnownId(d) BY <1>3, <2>1, <2>2
 <2>4. KnownId(c) BY <1>1, <1>2, <2>1, <2>2 DEF ResponseInv, Live
 <2>. QED BY <1>4, <2>1, <2>3, <2>4 DEF ResponseInv
<1>9. CASE Plug!ReadResponse
 <2>1. PICK c \in Calls : c = Head(toHost).id /\ Head(toHost) \in {Plug!Response(c), Plug!Bad(c)}
   BY <1>9, Heads, HostMessage DEF Plug!ReadResponse
 <2>2. /\ toHost # <<>> /\ toHost' = Tail(toHost) /\ UNCHANGED <<request, toPlugin, handler>>
   BY <1>9 DEF Plug!ReadResponse, Plug!callVars, Plug!sdkVars
 <2>3. Head(toHost) = Plug!Response(c)
  <3>1. In(Head(toHost), toHost) BY <1>0, <2>2, TailPipe
  <3>. QED BY <2>1, <3>1 DEF ResponseInv, Answered
 <2>4. In(Plug!Response(c), toHost) /\ ~In(Plug!Response(c), toHost')
   BY <1>0, <2>2, <2>3, TailPipe DEF ResponseInv, Answered
 <2>5. handler[c] = "done" /\ ~Live(c) BY <2>4 DEF ResponseInv, Answered, HandlerInv, Live, Active
 <2>6. request[c] \notin {"idle", "write"} BY <2>5 DEF HandlerInv
 <2>7. \A d \in Calls : ~Plug!CallWrite(d)
  <3>1. \A d \in Calls : Plug!CallWrite(d) => request[d] = "write" /\ request'[d] # "write"
    BY <1>0 DEF Plug!CallWrite, Plug!Return, PluginCallTypes
  <3>. QED BY <2>2, <3>1
 <2>8. KnownId(c) BY <2>2, <2>4, <2>5, <2>6 DEF Live
 <2>9. Head(toHost).kind = "response" BY <2>3 DEF Plug!Response
 <2>10. /\ stopErr' # "protocol" /\ (receiver'.do = "send" => receiver'.what = "result")
        /\ fin'.stage = "no" => awaited' \in {awaited, awaited \ {c}} /\ withdrawn' \in {withdrawn, withdrawn \ {c}}
  <3>1. CASE c \in awaited BY <1>9, <2>1, <2>9, <3>1 DEF Plug!ReadResponse, ResponseInv
  <3>2. CASE c \in withdrawn \ awaited BY <1>9, <2>1, <3>2 DEF Plug!ReadResponse, ResponseInv
  <3>3. CASE c \notin awaited \cup withdrawn
   <4>1. fin.stage # "no" BY <2>4, <3>3 DEF ResponseInv
   <4>2. Plug!Finish("protocol") /\ receiver' = [do |-> "stopping"]
     BY <1>9, <2>1, <3>3 DEF Plug!ReadResponse
   <4>. QED BY <4>1, <4>2 DEF Plug!Finish, Plug!stopVars, ResponseInv
  <3>. QED BY <3>1, <3>2, <3>3
 <2>11. \A d \in Calls : d # c => KnownId(d) BY <1>3, <2>2, <2>7, <2>10
 <2>. QED BY <1>4, <2>8, <2>10, <2>11
<1>10. ASSUME NEW why \in {"none", "eof", "exited", "closed"}, Plug!Finish(why) \/ UNCHANGED Plug!stopVars,
              UNCHANGED request, receiver'.do = "send" => receiver'.what = "result"
       PROVE  ResponseInv'
 <2>1. \A d \in Calls : ~Plug!CallWrite(d)
  <3>1. \A d \in Calls : Plug!CallWrite(d) => request[d] = "write" /\ request'[d] # "write"
    BY <1>0 DEF Plug!CallWrite, Plug!Return, PluginCallTypes
  <3>. QED BY <1>10, <3>1
 <2>2. /\ stopErr' # "protocol"
       /\ fin'.stage = "no" => UNCHANGED <<awaited, withdrawn>>
   BY <1>10 DEF Plug!Finish, Plug!stopVars, ResponseInv
 <2>3. \A d \in Calls : KnownId(d) BY <1>3, <1>10, <2>1, <2>2
 <2>. QED BY <1>4, <1>10, <2>2, <2>3
<1>11. CASE Plug!Initialized \/ Plug!RegisterFails \/ Plug!Close \/ Plug!ProcessReaped
 <2>1. UNCHANGED <<request, receiver>> /\ \E why \in {"exited", "closed"} : Plug!Finish(why) \/ UNCHANGED Plug!stopVars
   BY <1>11
      DEF Plug!Initialized, Plug!RegisterFails, Plug!Close, Plug!ProcessReaped,
          Plug!callVars
 <2>. QED BY <1>10, <2>1 DEF ResponseInv
<1>12. CASE Plug!ReadEnds \/ Plug!ReadGoesOn
 <2>1. UNCHANGED request /\ receiver'.do # "send" /\ \E why \in {"eof"} : Plug!Finish(why) \/ UNCHANGED Plug!stopVars
   BY <1>12 DEF Plug!ReadEnds, Plug!ReadGoesOn, Plug!callVars, Plug!Idle
 <2>. QED BY <1>10, <2>1
<1>13. CASE Plug!ReadSend
 <2>1. receiver' = Plug!Idle /\ UNCHANGED Plug!stopVars /\ UNCHANGED request
   BY <1>13 DEF Plug!ReadSend, ResponseInv
 <2>2. receiver'.do # "send" BY <2>1 DEF Plug!Idle
 <2>. QED BY <1>10, <2>1, <2>2
<1>14. CASE /\ UNCHANGED <<request, receiver, awaited, withdrawn, stopErr>>
 <2>1. \A d \in Calls : ~Plug!CallWrite(d)
  <3>1. \A d \in Calls : Plug!CallWrite(d) => request[d] = "write" /\ request'[d] # "write"
    BY <1>0 DEF Plug!CallWrite, Plug!Return, PluginCallTypes
  <3>. QED BY <1>14, <3>1
 <2>2. \A d \in Calls : KnownId(d) BY <1>3, <1>14, <2>1
 <2>. QED BY <1>4, <1>14, <2>2 DEF ResponseInv
<1>. HIDE DEF KnownId
<1>. QED BY <1>5, <1>6, <1>7, <1>8, <1>9, <1>11, <1>12, <1>13, <1>14
  DEF Plug!Next, Plug!vars, Plug!callVars, Plug!stopVars, Plug!FinishStep, Plug!FinishUnregister, Plug!FinishSend, Plug!FinishClose,
      Plug!StartStep, Plug!Register, Plug!ProcessEnds, Plug!ReaderStep, Plug!ReadRequest, Plug!ReadCancel, Plug!SdkReaderStep,
      Plug!SdkRequest, Plug!SdkCancel, Plug!SdkResponse, Plug!SdkShutdown, Plug!RogueWrites, Plug!CallStep, Plug!CancelContext,
      Plug!HandlerEnds, Plug!HandlerResponds, Plug!WorkEnds, Plug!WorkAnswers, Plug!HostCallStep, Plug!HostCallWrite,
      Plug!HostCallEnds, Plug!HostCallCanceled, Plug!HostCallWriteCancel, Plug!HandlerCalls

\* Every step keeps CancelInv.
LEMMA CancelInvInv ==
  ASSUME Plug!TypeOK, PipeInv, HandlerInv, OwnerInv, ResponseInv, CancelInv, [Plug!Next]_(Plug!vars)
  PROVE  CancelInv'
<1>0. PluginCallTypes /\ StopTypes /\ SdkTypes /\ toPlugin \in Seq(ForPlugin)
  BY DEF Plug!TypeOK, PluginCallTypes, StopTypes, SdkTypes, PipeInv
<1>1. SUFFICES ASSUME NEW c \in Calls, fin'.stage = "no", lives',
                      request'[c] = "done", answer'[c] = "canceled"
               PROVE  c \in handlerCanceled' \/ In(Plug!Cancel(c), toPlugin') \/ ~Live(c)'
  BY DEF CancelInv
<1>2. fin.stage = "no" /\ ~closed BY <1>0, <1>1, NotYet DEF HandlerInv
<1>3. lives
 <2>1. lives' \in {lives, FALSE}
   BY DEF Plug!Next, Plug!vars, Plug!process, Plug!FinishStep,
          Plug!FinishUnregister, Plug!FinishSend, Plug!FinishClose,
      Plug!StartStep, Plug!Initialized, Plug!Register, Plug!RegisterFails, Plug!Close, Plug!ProcessReaped, Plug!ProcessEnds,
      Plug!ReaderStep, Plug!ReadResponse, Plug!ReadSend, Plug!ReadGoesOn, Plug!ReadRequest, Plug!ReadCancel, Plug!ReadEnds,
      Plug!SdkReaderStep, Plug!SdkRequest, Plug!SdkCancel, Plug!SdkResponse, Plug!SdkShutdown, Plug!RogueWrites,
      Plug!CallStep, Plug!CallBegin, Plug!CallWrite, Plug!CallTake, Plug!CallStopped, Plug!CallCanceled, Plug!CallWriteCancel,
      Plug!CancelContext, Plug!HandlerEnds, Plug!HandlerResponds, Plug!WorkEnds, Plug!WorkAnswers, Plug!HostCallStep,
      Plug!HostCallWrite, Plug!HostCallEnds, Plug!HostCallCanceled, Plug!HostCallWriteCancel, Plug!HandlerCalls
 <2>. QED BY <1>1, <2>1
<1>4. Live(c)' => Live(c) \/ Plug!CallWrite(c) BY PluginTraffic
\* The call returns in this step, ...
<1>5. CASE Plug!CallBegin(c)
 <2>1. ~Live(c) /\ ~Plug!CallWrite(c)
   BY <1>5 DEF Plug!CallBegin, Plug!CallWrite, HandlerInv, Live, Active
 <2>. QED BY <1>4, <2>1
<1>6. CASE Plug!CallCanceled(c)
 <2>1. request[c] = "wait" /\ c \notin awaited
   BY <1>0, <1>1, <1>6 DEF Plug!CallCanceled, PluginCallTypes
 <2>2. handler[c] = "done" /\ ~Plug!CallWrite(c) BY <1>2, <2>1 DEF ResponseInv, Plug!CallWrite
 <2>3. ~Live(c) BY <2>2 DEF HandlerInv, Live, Active
 <2>. QED BY <1>4, <2>2, <2>3
<1>7. CASE Plug!CallWriteCancel(c)
 <2>1. toPlugin' = Append(toPlugin, Plug!Cancel(c)) /\ Plug!Cancel(c) \in ForPlugin
   BY <1>2, <1>3, <1>7
      DEF Plug!CallWriteCancel, Plug!HostWriteFails, Plug!StdinClosed, ForPlugin
 <2>. QED BY <1>0, <2>1, AppendPipe
<1>8. CASE Plug!CallWrite(c) \/ Plug!CallStopped(c)
  BY <1>0, <1>1, <1>8
     DEF Plug!CallWrite, Plug!CallStopped, Plug!Return, PluginCallTypes
<1>9. CASE Plug!CallTake(c)
 <2>1. ch[c] \in {<<"result">>, <<"error">>, <<"stopped">>}
   BY <1>0, <1>9 DEF PluginCallTypes, Plug!CallTake
 <2>2. Head(ch[c]) \in {"result", "error", "stopped"} BY <2>1
 <2>. QED BY <1>0, <1>1, <1>9, <2>2 DEF Plug!CallTake, Plug!Return, PluginCallTypes
\* ... or it had returned.
<1>10. CASE ~(Plug!CallBegin(c) \/ Plug!CallCanceled(c) \/ Plug!CallWriteCancel(c) \/ Plug!CallWrite(c) \/ Plug!CallStopped(c) \/ Plug!CallTake(c))
 <2>1. request'[c] = request[c] /\ answer'[c] = answer[c]
  <3>1. ASSUME NEW d \in Calls, Plug!CallStep(d)
        PROVE  request'[c] = request[c] /\ answer'[c] = answer[c]
   <4>1. d # c BY <1>10, <3>1 DEF Plug!CallStep
   <4>. QED BY <1>0, <3>1, <4>1
        DEF Plug!CallStep, Plug!CallBegin, Plug!CallWrite, Plug!CallTake,
            Plug!CallStopped,
        Plug!CallCanceled, Plug!CallWriteCancel, Plug!Return, PluginCallTypes
  <3>. QED BY <3>1
    DEF Plug!Next, Plug!vars, Plug!callVars, Plug!FinishStep, Plug!FinishUnregister, Plug!FinishSend, Plug!FinishClose,
     Plug!StartStep, Plug!Initialized, Plug!Register, Plug!RegisterFails, Plug!Close, Plug!ProcessReaped, Plug!ProcessEnds,
     Plug!ReaderStep, Plug!ReadResponse, Plug!ReadSend, Plug!ReadGoesOn, Plug!ReadRequest, Plug!ReadCancel, Plug!ReadEnds,
     Plug!SdkReaderStep, Plug!SdkRequest, Plug!SdkCancel, Plug!SdkResponse, Plug!SdkShutdown, Plug!RogueWrites,
     Plug!CancelContext, Plug!HandlerEnds, Plug!HandlerResponds, Plug!WorkEnds, Plug!WorkAnswers, Plug!HostCallStep,
     Plug!HostCallWrite, Plug!HostCallEnds, Plug!HostCallCanceled, Plug!HostCallWriteCancel, Plug!HandlerCalls
 <2>2. c \in handlerCanceled \/ In(Plug!Cancel(c), toPlugin) \/ ~Live(c)
   BY <1>1, <1>2, <1>3, <2>1 DEF CancelInv
 <2>3. ~Live(c) => ~Live(c)' BY SMTT(40), <1>4, <1>10
 <2>4. handlerCanceled \subseteq handlerCanceled'
   BY DEF Plug!Next, Plug!vars, Plug!sdkVars, Plug!FinishStep,
          Plug!FinishUnregister, Plug!FinishSend, Plug!FinishClose,
      Plug!StartStep, Plug!Initialized, Plug!Register, Plug!RegisterFails, Plug!Close, Plug!ProcessReaped, Plug!ProcessEnds,
      Plug!ReaderStep, Plug!ReadResponse, Plug!ReadSend, Plug!ReadGoesOn, Plug!ReadRequest, Plug!ReadCancel, Plug!ReadEnds,
      Plug!SdkReaderStep, Plug!SdkRequest, Plug!SdkCancel, Plug!SdkResponse, Plug!SdkShutdown, Plug!RogueWrites,
      Plug!CallStep, Plug!CallBegin, Plug!CallWrite, Plug!CallTake, Plug!CallStopped, Plug!CallCanceled, Plug!CallWriteCancel,
      Plug!CancelContext, Plug!HandlerEnds, Plug!HandlerResponds, Plug!WorkEnds, Plug!WorkAnswers, Plug!HostCallStep,
      Plug!HostCallWrite, Plug!HostCallEnds, Plug!HostCallCanceled, Plug!HostCallWriteCancel, Plug!HandlerCalls
 <2>5. ASSUME In(Plug!Cancel(c), toPlugin), ~In(Plug!Cancel(c), toPlugin')
       PROVE  c \in handlerCanceled' \/ ~Live(c)'
  <3>1. toPlugin' # toPlugin /\ \A m \in ForPlugin : toPlugin' # Append(toPlugin, m)
   <4>1. ASSUME NEW m \in ForPlugin, toPlugin' = Append(toPlugin, m)
         PROVE  FALSE
    <5>1. In(Plug!Cancel(c), Append(toPlugin, m)) BY <1>0, <2>5, AppendPipe
    <5>. QED BY <2>5, <4>1, <5>1
   <4>. QED BY <2>5, <4>1
  <3>2. CASE Plug!SdkRequest \/ Plug!SdkCancel \/ Plug!SdkResponse
   <4>1. toPlugin # <<>> /\ toPlugin' = Tail(toPlugin)
     BY <3>2 DEF Plug!SdkRequest, Plug!SdkCancel, Plug!SdkResponse
   <4>2. Head(toPlugin) = Plug!Cancel(c) /\ ~In(Plug!Request(c), toPlugin')
    <5>1. Head(toPlugin) = Plug!Cancel(c) BY <1>0, <2>5, <4>1, TailPipe
    <5>. QED BY <1>0, <4>1, <5>1, TailPipe DEF HandlerInv
   <4>3. Plug!SdkCancel /\ Head(toPlugin).id = c
     BY <3>2, <4>2 DEF Plug!Cancel, Plug!SdkRequest, Plug!SdkResponse
   <4>4. handlerCanceled' = handlerCanceled \cup ({c} \cap requests) /\ UNCHANGED handler
     BY SMTT(40), <4>3 DEF Plug!SdkCancel
   <4>. QED BY <1>2, <4>2, <4>4 DEF HandlerInv, Live
  <3>3. ~(Plug!SdkRequest \/ Plug!SdkCancel \/ Plug!SdkResponse) => UNCHANGED toPlugin \/ \E m \in ForPlugin : toPlugin' = Append(toPlugin, m)
   <4>1. \A d \in Calls : Plug!Request(d) \in ForPlugin /\ Plug!Cancel(d) \in ForPlugin
     BY DEF ForPlugin
   <4>2. \A r \in HostCalls : Plug!Response(r) \in ForPlugin BY DEF ForPlugin
   <4>. QED BY <4>1, <4>2
     DEF Plug!Next, Plug!vars, Plug!FinishStep, Plug!FinishUnregister, Plug!FinishSend, Plug!FinishClose,
      Plug!StartStep, Plug!Initialized, Plug!Register, Plug!RegisterFails, Plug!Close, Plug!ProcessReaped, Plug!ProcessEnds,
      Plug!ReaderStep, Plug!ReadResponse, Plug!ReadSend, Plug!ReadGoesOn, Plug!ReadRequest, Plug!ReadCancel, Plug!ReadEnds,
      Plug!SdkReaderStep, Plug!SdkShutdown, Plug!RogueWrites,
      Plug!CallStep, Plug!CallBegin, Plug!CallWrite, Plug!CallTake, Plug!CallStopped, Plug!CallCanceled, Plug!CallWriteCancel,
      Plug!CancelContext, Plug!HandlerEnds, Plug!HandlerResponds, Plug!WorkEnds, Plug!WorkAnswers, Plug!HostCallStep,
      Plug!HostCallWrite, Plug!HostCallEnds, Plug!HostCallCanceled, Plug!HostCallWriteCancel, Plug!HandlerCalls
  <3>. QED BY <3>1, <3>2, <3>3
 <2>. QED BY SMTT(40), <2>2, <2>3, <2>4, <2>5
<1>. QED BY <1>5, <1>6, <1>7, <1>8, <1>9, <1>10

----------------------------------------
(* The theorems.                                                           *)

\* The initial states have the invariant.
LEMMA PluginInitInv ==
  ASSUME PluginParameters, Plug!Init
  PROVE  PluginIInv
<1>1. Plug!TypeOK
 <2>1. PluginCallTypes BY DEF Plug!Init, PluginCallTypes
 <2>2. StopTypes BY DEF Plug!Init, StopTypes
 <2>3. WorkTypes
  <3>1. 0 \in 0..MaxRogue BY DEF PluginParameters
  <3>. QED BY <3>1 DEF Plug!Init, WorkTypes
 <2>4. SdkTypes BY DEF Plug!Init, SdkTypes
 <2>5. /\ toPlugin \in Seq(Plug!Message) /\ Len(toPlugin) <= Buffer
       /\ toHost \in Seq(Plug!Message) /\ Len(toHost) <= Buffer
   BY EmptyPipe DEF Plug!Init, PluginParameters
 <2>. QED BY <2>1, <2>2, <2>3, <2>4, <2>5
      DEF Plug!TypeOK, PluginCallTypes, StopTypes, WorkTypes, SdkTypes
<1>2. PipeInv BY EmptyPipe DEF Plug!Init, PipeInv
<1>3. FinishInv /\ SendInv /\ OwnerInv
  BY DEF Plug!Init, FinishInv, SendInv, Owed, OwnerInv, HostCalling, Plug!Idle
<1>4. HandlerInv /\ WorkInv /\ AnswerInv
  BY EmptyPipe DEF Plug!Init, HandlerInv, WorkInv, AnswerInv, Active
<1>5. ResponseInv /\ CancelInv
  BY EmptyPipe DEF Plug!Init, ResponseInv, Answered, Live, Active, CancelInv, Plug!Idle
<1>. QED BY <1>1, <1>2, <1>3, <1>4, <1>5 DEF PluginIInv

\* Every step keeps the invariant.
LEMMA PluginNextInv ==
  ASSUME PluginParameters, PluginIInv, [Plug!Next]_(Plug!vars)
  PROVE  PluginIInv'
<1>1. /\ Plug!TypeOK /\ PipeInv /\ FinishInv /\ SendInv /\ HandlerInv /\ OwnerInv /\ WorkInv /\ AnswerInv
      /\ PluginCallTypes /\ StopTypes /\ SdkTypes
  BY DEF PluginIInv, Plug!TypeOK, PluginCallTypes, StopTypes, SdkTypes
<1>2. Plug!TypeOK' /\ PipeInv' BY <1>1, TypeInv
<1>3. FinishInv' BY <1>1, FinishInvInv
<1>4. SendInv' BY <1>1, SendInvInv
<1>5. HandlerInv' BY <1>1, HandlerInvInv
<1>6. OwnerInv' BY <1>1, OwnerInvInv
<1>7. WorkInv' BY <1>1, WorkInvInv
<1>8. AnswerInv' BY <1>1, AnswerInvInv
<1>9. ASSUME rogue' = 0
      PROVE  ResponseInv' /\ CancelInv'
 <2>1. rogue = 0
  <3>1. rogue \in Nat /\ rogue' \in {rogue, rogue + 1}
   <4>1. rogue \in Nat BY SMTT(40), <1>1 DEF Plug!TypeOK
   <4>2. rogue' \in {rogue, rogue + 1}
     BY DEF Plug!Next, Plug!vars, Plug!process, Plug!FinishStep,
            Plug!FinishUnregister, Plug!FinishSend, Plug!FinishClose,
      Plug!StartStep, Plug!Initialized, Plug!Register, Plug!RegisterFails, Plug!Close, Plug!ProcessReaped, Plug!ProcessEnds,
      Plug!ReaderStep, Plug!ReadResponse, Plug!ReadSend, Plug!ReadGoesOn, Plug!ReadRequest, Plug!ReadCancel, Plug!ReadEnds,
      Plug!SdkReaderStep, Plug!SdkRequest, Plug!SdkCancel, Plug!SdkResponse, Plug!SdkShutdown, Plug!RogueWrites,
      Plug!CallStep, Plug!CallBegin, Plug!CallWrite, Plug!CallTake, Plug!CallStopped, Plug!CallCanceled, Plug!CallWriteCancel,
      Plug!CancelContext, Plug!HandlerEnds, Plug!HandlerResponds, Plug!WorkEnds, Plug!WorkAnswers, Plug!HostCallStep,
      Plug!HostCallWrite, Plug!HostCallEnds, Plug!HostCallCanceled, Plug!HostCallWriteCancel, Plug!HandlerCalls
   <4>. QED BY <4>1, <4>2
  <3>. QED BY <1>9, <3>1
 <2>2. ResponseInv /\ CancelInv BY <2>1 DEF PluginIInv
 <2>. QED BY <1>1, <1>9, <2>2, ResponseInvInv, CancelInvInv
<1>. QED BY <1>2, <1>3, <1>4, <1>5, <1>6, <1>7, <1>8, <1>9 DEF PluginIInv

\* What the pipes hold of a call, in the words of the properties.
LEMMA NothingOf ==
  ASSUME PipeInv, NEW i
  PROVE  /\ ~Plug!Mentions(toPlugin, i) => ~In(Plug!Request(i), toPlugin) /\ ~In(Plug!Cancel(i), toPlugin)
         /\ ~Plug!Mentions(toHost, i) => ~In(Plug!Request(i), toHost) /\ ~In(Plug!Cancel(i), toHost)
<1>1. DOMAIN toPlugin = 1..Len(toPlugin) /\ DOMAIN toHost = 1..Len(toHost) BY DEF PipeInv
<1>. QED BY <1>1 DEF In, Plug!Mentions, Plug!Request, Plug!Cancel

\* The invariant implies the property.
LEMMA PluginInvImplies ==
  ASSUME PluginIInv
  PROVE  Plug!PluginSafe
<1>1. Plug!SendNeverBlocks BY DEF PluginIInv, SendInv, Owed, Plug!SendNeverBlocks, Plug!TypeOK
<1>2. Plug!StoppedIsUnregistered BY DEF PluginIInv, FinishInv, Plug!StoppedIsUnregistered
<1>3. rogue = 0 => stopErr # "protocol" BY DEF PluginIInv, ResponseInv
<1>4. ASSUME rogue = 0, lives, NEW c \in Calls, fin.stage = "no", ~Plug!Mentions(toPlugin, c),
             request[c] = "done", answer[c] = "canceled"
      PROVE  handler[c] \in {"none", "done"} \/ c \in handlerCanceled
 <2>1. ~In(Plug!Cancel(c), toPlugin) BY <1>4, NothingOf DEF PluginIInv
 <2>2. handler[c] \in Active \cup {"none", "done"} BY DEF PluginIInv, Plug!TypeOK, Active
 <2>. QED BY <1>4, <2>1, <2>2 DEF PluginIInv, CancelInv, Live
<1>5. ASSUME rogue = 0, lives, NEW r \in HostCalls, hostCall[r] = "done", ~Plug!Mentions(toHost, r)
      PROVE  serving[r] # "run" \/ r \in workCanceled
 <2>1. ~In(Plug!Cancel(r), toHost) BY <1>5, NothingOf DEF PluginIInv
 <2>. QED BY <1>5, <2>1 DEF PluginIInv, AnswerInv, WorkInv
<1>6. Plug!CancelArrives BY <1>3, <1>4, <1>5 DEF Plug!CancelArrives
<1>. QED BY <1>1, <1>2, <1>6 DEF Plug!PluginSafe, PluginIInv

\* IInv is an inductive invariant.
THEOREM Invariance ==
  ASSUME PluginParameters
  PROVE  Plug!Spec => []PluginIInv
<1>1. Plug!Init => PluginIInv BY PluginInitInv
<1>2. PluginIInv /\ [Plug!Next]_(Plug!vars) => PluginIInv' BY PluginNextInv
<1>. QED BY <1>1, <1>2, PTL DEF Plug!Spec

\* Nobody on the side of the host ever waits to deliver an outcome, a plugin
\* whose stop is known offers no tools any more, and no cancellation is lost
\* on either side, nor taken for an error of the plugin.
THEOREM PluginIsSafe ==
  ASSUME PluginParameters
  PROVE  Plug!Spec => []Plug!PluginSafe
<1>1. PluginIInv => Plug!PluginSafe BY PluginInvImplies
<1>. QED BY <1>1, Invariance, PTL

=============================================================================
