--------------------------------- MODULE Mcp ---------------------------------
(* Calls of MCP servers: one stdio client (internal/mcp/stdio.go) with its  *)
(* reader, the goroutine that waits for the process and the server's pipes, *)
(* and calls of an HTTP client (internal/mcp/http.go).                      *)
EXTENDS Naturals, Sequences, FiniteSets

CONSTANTS Call,      \* calls of the stdio client
          HttpCall,  \* calls of the HTTP client
          PipeSize,  \* messages that a pipe holds
          MaxPings   \* requests of the server to the client

VARIABLES
  call,     \* "idle", "registered", "writing", "waiting", or how the call returned
  done,     \* calls whose context is done
  pending,  \* the client's table
  handing,  \* taken from the table, not yet in the channel: what is handed over
  channel,  \* what is in the call's channel
  dead,     \* deadErr is set
  writer,   \* who holds writeMu
  stdin, stdout, \* the pipes, oldest message first
  stdinOpen, stdoutOpen,
  work,     \* calls the server has read and not answered
  ran,      \* how often the server ran each call
  server,   \* the process: "up", "hung" (it no longer reads or writes) or "exited"
  heir,     \* a process of the server's keeps its stderr, and its stdout, open
  pings,
  reader,   \* readLoop: "reading", "replying" or "ended"
  waiter,   \* the goroutine of cmd.Wait: "waiting", "failing" or "ended"
  closer,   \* close: "no", "stdin", "killed" or "ended"
  http      \* the HTTP calls: "idle", "posted", "retried", or how the call returned

vars == <<call, done, pending, handing, channel, dead, writer, stdin, stdout, stdinOpen,
          stdoutOpen, work, ran, server, heir, pings, reader, waiter, closer, http>>

NONE == "none"
READER == "reader"
Returns == {"answer", "dead", "write error", "cancelled"}
Client == <<dead, pending, handing, channel>>
Process == <<work, ran, server, heir, pings>>
Pipes == <<stdin, stdout, stdinOpen, stdoutOpen>>
Routines == <<reader, waiter, closer>>

Init ==
  /\ call = [c \in Call |-> "idle"] /\ done = {}
  /\ pending = {} /\ dead = FALSE /\ writer = NONE
  /\ handing = [c \in Call |-> NONE] /\ channel = [c \in Call |-> NONE]
  /\ stdin = <<>> /\ stdout = <<>> /\ stdinOpen = TRUE /\ stdoutOpen = TRUE
  /\ work = {} /\ ran = [c \in Call \union HttpCall |-> 0]
  /\ server = "up" /\ heir = FALSE /\ pings = 0
  /\ reader = "reading" /\ waiter = "waiting" /\ closer = "no"
  /\ http = [c \in HttpCall |-> "idle"]

-----------------------------------------------------------------------------
(* stdioClient.call. *)

Register(c) ==
  /\ call[c] = "idle"
  /\ call' = [call EXCEPT ![c] = IF dead THEN "dead" ELSE "registered"]
  /\ pending' = IF dead THEN pending ELSE pending \union {c}
  /\ UNCHANGED <<done, handing, channel, dead, writer, Pipes, Process, Routines, http>>

\* write takes writeMu and looks at deadErr again.
BeginWrite(c) ==
  /\ call[c] = "registered" /\ writer = NONE
  /\ IF dead
     THEN /\ call' = [call EXCEPT ![c] = "dead"] /\ pending' = pending \ {c}
          /\ UNCHANGED writer
     ELSE call' = [call EXCEPT ![c] = "writing"] /\ writer' = c /\ UNCHANGED pending
  /\ UNCHANGED <<done, handing, channel, dead, Pipes, Process, Routines, http>>

\* The pipe takes the message, or breaks: until then writeMu stays held, and
\* no context ends the write.
BrokenPipe == ~stdinOpen \/ (server = "exited")

EndWrite(c) ==
  /\ call[c] = "writing" /\ writer = c
  /\ \/ /\ BrokenPipe
        /\ call' = [call EXCEPT ![c] = "write error"] /\ pending' = pending \ {c}
        /\ UNCHANGED stdin
     \/ /\ ~BrokenPipe /\ Len(stdin) < PipeSize
        /\ call' = [call EXCEPT ![c] = "waiting"] /\ stdin' = Append(stdin, c)
        /\ UNCHANGED pending
  /\ writer' = NONE
  /\ UNCHANGED <<done, handing, channel, dead, stdout, stdinOpen, stdoutOpen, Process, Routines,
                 http>>

\* The reply wins over the context only when the context is not done.
Receive(c) ==
  /\ call[c] = "waiting" /\ channel[c] # NONE
  /\ call' = [call EXCEPT ![c] = IF c \in done THEN "cancelled" ELSE channel[c]]
  /\ channel' = [channel EXCEPT ![c] = NONE]
  /\ UNCHANGED <<done, pending, handing, dead, writer, Pipes, Process, Routines, http>>

Cancelled(c) ==
  /\ call[c] = "waiting" /\ c \in done
  /\ call' = [call EXCEPT ![c] = "cancelled"]
  /\ pending' = pending \ {c}
  /\ UNCHANGED <<done, handing, channel, dead, writer, Pipes, Process, Routines, http>>

CallerCancels(c) ==
  /\ call[c] \in {"registered", "writing", "waiting"} /\ c \notin done
  /\ done' = done \union {c}
  /\ UNCHANGED <<call, Client, writer, Pipes, Process, Routines, http>>

-----------------------------------------------------------------------------
(* The reader, and fail. What is taken from the table is handed over after  *)
(* the client's mutex is released.                                          *)

\* Mutant: fail leaves the calls that wait to their contexts.
FailNobody == dead' = TRUE /\ UNCHANGED <<pending, handing>>

\* fail: the first error takes the whole table.
Fail ==
  /\ dead' = TRUE
  /\ pending' = IF dead THEN pending ELSE {}
  /\ handing' = IF dead THEN handing
                ELSE [c \in Call |-> IF c \in pending THEN "dead" ELSE handing[c]]

HandOver(c) ==
  /\ handing[c] # NONE /\ channel[c] = NONE
  /\ channel' = [channel EXCEPT ![c] = handing[c]]
  /\ handing' = [handing EXCEPT ![c] = NONE]
  /\ UNCHANGED <<call, done, pending, dead, writer, Pipes, Process, Routines, http>>

\* An answer, or a request of the server, which the reader itself replies to.
Read ==
  /\ reader = "reading" /\ stdout # <<>> /\ stdoutOpen
  /\ stdout' = Tail(stdout)
  /\ LET m == Head(stdout) IN
     IF m = "ping" THEN reader' = "replying" /\ UNCHANGED <<pending, handing>>
     ELSE /\ handing' = IF m \in pending THEN [handing EXCEPT ![m] = "answer"] ELSE handing
          /\ pending' = pending \ {m}
          /\ UNCHANGED reader
  /\ UNCHANGED <<call, done, channel, dead, writer, stdin, stdinOpen, stdoutOpen, Process, waiter,
                 closer, http>>

\* The end of the output ends the reader and fails nobody: that is left to the
\* end of the process. A pipe that Wait closed, or a line that is no JSON, fails
\* the client.
ReadEnds ==
  /\ reader = "reading"
  /\ \/ stdout = <<>> /\ stdoutOpen /\ server = "exited" /\ ~heir /\ UNCHANGED Client
     \/ ~stdoutOpen /\ Fail /\ UNCHANGED channel
  /\ reader' = "ended"
  /\ UNCHANGED <<call, done, writer, Pipes, Process, waiter, closer, http>>

\* replyToServerRequest
BeginReply ==
  /\ reader = "replying" /\ writer = NONE
  /\ IF dead THEN reader' = "reading" /\ UNCHANGED writer ELSE writer' = READER /\ UNCHANGED reader
  /\ UNCHANGED <<call, done, Client, Pipes, Process, waiter, closer, http>>

EndReply ==
  /\ reader = "replying" /\ writer = READER
  /\ \/ BrokenPipe /\ UNCHANGED stdin
     \/ ~BrokenPipe /\ Len(stdin) < PipeSize /\ stdin' = Append(stdin, "pong")
  /\ reader' = "reading" /\ writer' = NONE
  /\ UNCHANGED <<call, done, Client, stdout, stdinOpen, stdoutOpen, Process, waiter, closer, http>>

\* cmd.Wait returns when the process is gone and its stderr is at its end, and
\* closes the output whatever the reader has read.
Waited ==
  /\ waiter = "waiting" /\ server = "exited" /\ ~heir
  /\ waiter' = "failing"
  /\ stdoutOpen' = FALSE /\ stdout' = <<>>
  /\ UNCHANGED <<call, done, Client, writer, stdin, stdinOpen, Process, reader, closer, http>>

WaitFails ==
  /\ waiter = "failing"
  /\ Fail
  /\ waiter' = "ended"
  /\ UNCHANGED <<call, done, channel, writer, Pipes, Process, reader, closer, http>>

-----------------------------------------------------------------------------
(* close: once, by Manager.Close. *)

CloseStdin ==
  /\ closer = "no"
  /\ closer' = "stdin" /\ stdinOpen' = FALSE
  /\ UNCHANGED <<call, done, Client, writer, stdin, stdout, stdoutOpen, Process, reader, waiter,
                 http>>

\* after 500 ms
Kill ==
  /\ closer = "stdin" /\ waiter # "ended"
  /\ closer' = "killed"
  /\ server' = "exited"
  /\ UNCHANGED <<call, done, Client, writer, Pipes, work, ran, heir, pings, reader, waiter, http>>

Closed ==
  /\ closer \in {"stdin", "killed"} /\ waiter = "ended"
  /\ closer' = "ended"
  /\ UNCHANGED <<call, done, Client, writer, Pipes, Process, reader, waiter, http>>

-----------------------------------------------------------------------------
(* The server: reads, runs what it read, answers in any order, asks, hangs, *)
(* leaves a process behind, exits. A server whose stdin is closed exits when *)
(* it gets to it.                                                           *)

ServerReads ==
  /\ server = "up" /\ stdin # <<>>
  /\ stdin' = Tail(stdin)
  /\ LET m == Head(stdin) IN
     IF m = "pong" THEN UNCHANGED <<work, ran>>
     ELSE work' = work \union {m} /\ ran' = [ran EXCEPT ![m] = @ + 1]
  /\ UNCHANGED <<call, done, Client, writer, stdout, stdinOpen, stdoutOpen, server, heir, pings,
                 Routines, http>>

ServerAnswers ==
  /\ server = "up" /\ Len(stdout) < PipeSize
  /\ \/ \E c \in work : /\ stdout' = Append(stdout, c) /\ work' = work \ {c}
                        /\ UNCHANGED pings
     \/ /\ pings < MaxPings /\ pings' = pings + 1
        /\ stdout' = Append(stdout, "ping") /\ UNCHANGED work
  /\ UNCHANGED <<call, done, Client, writer, stdin, stdinOpen, stdoutOpen, ran, server, heir,
                 Routines, http>>

ServerHangs ==
  /\ server = "up"
  /\ server' = "hung"
  /\ UNCHANGED <<call, done, Client, writer, Pipes, work, ran, heir, pings, Routines, http>>

ServerExits ==
  /\ server \in {"up", "hung"}
  /\ server' = "exited"
  /\ heir' \in BOOLEAN
  /\ UNCHANGED <<call, done, Client, writer, Pipes, work, ran, pings, Routines, http>>

ServerSeesEnd ==
  /\ server = "up" /\ ~stdinOpen /\ stdin = <<>>
  /\ server' = "exited"
  /\ UNCHANGED <<call, done, Client, writer, Pipes, work, ran, heir, pings, Routines, http>>

HeirEnds ==
  /\ heir /\ heir' = FALSE
  /\ UNCHANGED <<call, done, Client, writer, Pipes, work, ran, server, pings, Routines, http>>

-----------------------------------------------------------------------------
(* httpClient.call: post, and once more with a new token when the server    *)
(* turns the first one down. Such a server has not run the call.            *)

Others == <<call, done, Client, writer, Pipes, work, server, heir, pings, Routines>>

Post(c) ==
  /\ http[c] = "idle"
  /\ http' = [http EXCEPT ![c] = "posted"]
  /\ UNCHANGED <<ran, Others>>

\* Mutant: a request that got no answer is posted again.
RetryWithoutAnswer(c, outcome) == http[c] = "posted" /\ outcome \in {"unauthorized", "lost"}

Retries(c, outcome) == http[c] = "posted" /\ outcome = "unauthorized"

\* What a post comes to: 401 or another refusal, no answer although the server
\* may have run the call, an answer that is none of this call's, or its own.
HttpOutcome(c) ==
  /\ http[c] \in {"posted", "retried"}
  /\ \E outcome \in {"unauthorized", "refused", "lost", "wrong id", "answer"} :
       /\ ran' = IF outcome \in {"unauthorized", "refused"} THEN ran ELSE [ran EXCEPT ![c] = @ + 1]
       /\ http' = [http EXCEPT ![c] = IF Retries(c, outcome) THEN "retried"
                                      ELSE IF outcome = "answer" THEN "answer" ELSE "error"]
  /\ UNCHANGED Others

Done ==
  /\ closer = "ended" /\ \A c \in Call : call[c] \in Returns
  /\ \A c \in HttpCall : http[c] \in {"answer", "error"}
  /\ UNCHANGED vars

Step(c) == Register(c) \/ BeginWrite(c) \/ EndWrite(c) \/ Receive(c) \/ Cancelled(c) \/ HandOver(c)
Routine == Read \/ ReadEnds \/ BeginReply \/ EndReply \/ Waited \/ WaitFails \/ Closed

Next ==
  \/ \E c \in Call : Step(c) \/ CallerCancels(c)
  \/ Routine \/ CloseStdin \/ Kill
  \/ ServerReads \/ ServerAnswers \/ ServerHangs \/ ServerExits \/ ServerSeesEnd \/ HeirEnds
  \/ \E c \in HttpCall : Post(c) \/ HttpOutcome(c)
  \/ Done

Spec == Init /\ [][Next]_vars

Comes(c) == Receive(c) \/ Cancelled(c)
Reading == Read \/ ReadEnds \/ EndReply
\* Notch's own routines go on, its mutexes are fair, its timer fires, and what a
\* server leaves behind ends. The server itself owes nothing.
FairSpec ==
  /\ Spec
  /\ \A c \in Call : SF_vars(BeginWrite(c)) /\ WF_vars(EndWrite(c))
                       /\ WF_vars(Comes(c)) /\ WF_vars(HandOver(c))
  /\ WF_vars(Reading) /\ SF_vars(BeginReply)
  /\ WF_vars(Waited) /\ WF_vars(WaitFails) /\ WF_vars(Kill) /\ WF_vars(Closed) /\ WF_vars(HeirEnds)

-----------------------------------------------------------------------------
\* The states of calls, of the server and of the goroutines of the client.
TypeOK ==
  /\ call \in [Call -> {"idle", "registered", "writing", "waiting"} \union Returns]
  /\ done \subseteq Call /\ pending \subseteq Call
  /\ handing \in [Call -> {NONE, "answer", "dead"}] /\ channel \in [Call -> {NONE, "answer", "dead"}]
  /\ server \in {"up", "hung", "exited"} /\ reader \in {"reading", "replying", "ended"}
  /\ waiter \in {"waiting", "failing", "ended"} /\ closer \in {"no", "stdin", "killed", "ended"}

\* The registration of a call races the failure of the connection (stdio.go:142
\* and 252): a call that waits is in the table, or its reply is on its way, and
\* the table of a dead client is empty.
NobodyForgotten ==
  /\ \A c \in Call : call[c] = "waiting" => c \in pending \/ handing[c] # NONE \/ channel[c] # NONE
  /\ dead => pending = {}

\* A channel holds one reply: whoever hands one over never waits.
HandingNeverWaits ==
  \A c \in Call : /\ handing[c] # NONE => channel[c] = NONE /\ c \notin pending
                  /\ channel[c] # NONE => c \notin pending

\* No call is run twice by its server, retries included, and one that returns
\* an answer was run.
RunOnce ==
  /\ \A c \in DOMAIN ran : ran[c] <= 1
  /\ \A c \in Call : call[c] = "answer" => ran[c] = 1
  /\ \A c \in HttpCall : http[c] = "answer" => ran[c] = 1

McpSafe == TypeOK /\ NobodyForgotten /\ HandingNeverWaits /\ RunOnce

\* Whatever the server does, close ends, and a client that is closed leaves no
\* call behind.
Settled == closer = "ended" /\ \A c \in Call : call[c] \in Returns \union {"idle"}
Closing == closer = "stdin"
McpEnds == Closing ~> Settled

\* A cancelled call returns although its server has stopped reading: it does
\* not, for the write ignores the context (stdio.go:147).
CancelReturns == \A c \in Call : c \in done ~> call[c] \in Returns

\* An answer that the server wrote before it exited reaches its caller: it may
\* not, for Wait closes the pipe that the reader still reads (stdio.go:93).
AnswerArrives ==
  [][\A c \in Call : call[c] = "waiting" /\ call'[c] = "dead" => c \in work \/ ran[c] = 0]_vars
=============================================================================
