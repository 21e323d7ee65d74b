----------------------------- MODULE AgentProofs -----------------------------
(***************************************************************************)
(* Proofs about the agent: its loop, AgentLoop, the messages it is sent    *)
(* while it runs, AgentQueue, for any number of senders, messages, prompts *)
(* and turns, and the front end that sends them for a client, Rpc, for any *)
(* wakes, questions, prompts and commands.  The three share no state.      *)
(*                                                                         *)
(* What a session replays to is defined by a recursive function over its   *)
(* records; the induction over them, which is needed once for that         *)
(* function, is over the set of the numbers for which it has a value.      *)
(* Everything else is about one record more: the replay of a session and a *)
(* record is ReplayRecord of the replay, so that the invariant has to say  *)
(* of the record about to be appended, Pending, only that it leads from a  *)
(* conversation to a conversation.                                         *)
(***************************************************************************)
EXTENDS AgentLoop, FiniteSetTheorems, SequenceTheorems, WellFoundedInduction, TLAPS

CONSTANTS Sender, MaxQueued, MaxRuns, MaxRequests,         \* of AgentQueue
          Wake, Input, MaxPrompts, MaxCommands, MaxFails   \* of Rpc

VARIABLES processing, steering, followUps, queueSequence, prompter, held, offered, calls,
          turn, prompts, sending, snapshot, shown, said, lost

VARIABLES reader, active, settling, closed, pending, stopped, command, cancel, runs,
          commands, agent, taken, dropped, questions, seen, budget

Queue == INSTANCE AgentQueue WITH at <- prompter, runs <- prompts, pending <- shown,
                                  MaxTurns <- MaxRequests

Rpcs == INSTANCE Rpc WITH MaxFailures <- MaxFails

\* What the code gives its configuration: a model to start with, and limits
\* that let a prompt take a turn and a turn make a request.
Parameters ==
  /\ DefaultModel \in Model
  /\ MaxTurns \in Nat \ {0} /\ MaxAttempts \in Nat \ {0} /\ MaxCalls \in Nat

----------------------------------------
(* The inductive invariant.                                                *)

\* What is made up stands for calls of an answer, all of them: with the answer,
\* if it has an invalid call.
Sound(x) ==
  /\ x.kind = "assistant" => x.made = <<>> \/ (x.invalid # {} /\ x.made = x.calls)
  /\ x.invalid # {} => x.kind = "assistant" /\ x.calls # <<>>
  /\ x.kind = "user" => x.calls = <<>>
  /\ x.kind = "results" => x.made = <<>>

\* Message x may come after message y: results, and what is made up before a
\* prompt, are those of the answer y.
Follows(y, x) ==
  /\ x.kind = "results" => y.kind = "assistant" /\ y.calls = x.calls /\ y.made = <<>>
  /\ x.kind = "user" /\ x.made # <<>> =>
        y.kind = "assistant" /\ y.made = <<>> /\ y.invalid # {} /\ x.made = y.calls

Begins(x) == x.kind # "results" /\ (x.kind = "user" => x.made = <<>>)

\* A conversation that has calls of the first n answers: results follow the
\* answer that asked for them, and no call is of two answers.
Conversation(m, n) ==
  /\ m \in Seq(Message)
  /\ \A i \in 1..Len(m) : Sound(m[i])
  /\ \A i \in 1..Len(m) : IF i = 1 THEN Begins(m[i]) ELSE Follows(m[i - 1], m[i])
  /\ \A i \in 1..Len(m) : \A k \in 1..Len(m[i].calls) : m[i].calls[k][1] \in 1..n
  /\ \A i, j \in 1..Len(m) : \A k \in 1..Len(m[i].calls), h \in 1..Len(m[j].calls) :
        m[i].kind = "assistant" /\ m[j].kind = "assistant" /\ m[i].calls[k] = m[j].calls[h] => i = j

Compacting == at \in {"summarize", "compactUsage", "compactSave"}

\* In a turn, the limits are not reached, and an attempt is under way.
TurnInv ==
  /\ Compacting \/ at \in {"stream", "answer", "tools", "results", "switch", "usage", "boundary"}
        => run.turn < MaxTurns
  /\ at \in {"stream", "summarize"} => run.attempt > 0
  /\ at = "switch" => pendingSwitch # NoModel
  /\ Compacting => run.split \in Splits(messages)

\* The calls are those of the last answer, and a call whose tool may still
\* start has not started.
CallsInv ==
  /\ \A i \in 1..Len(run.calls) : run.calls[i] = <<answers, i>>
  /\ \A c \in ran : c[1] <= answers
  /\ \A i \in 1..Len(run.calls) : run.tool[i] = "ready" => run.calls[i] \notin ran
  /\ Len(run.calls) > 0 => answers > 0
  /\ run.invalid # {} => Len(run.calls) > 0

\* Tools run for the answer that the conversation ends with, in memory and in
\* the session, and their results take its order.
AnswerInv ==
  /\ at = "answer" => \A i \in 1..Len(run.calls) : run.tool[i] = "ready"
  /\ at \in {"tools", "results"} =>
        /\ \A m \in {messages, Replay(log)} : m # <<>> /\ m[Len(m)] = Answer(run.calls, run.invalid)
        /\ \E k \in 1..Len(log) : Answer(run.calls, run.invalid) \in Range(log[k].messages)
  /\ at = "tools" => \A i \in 1..Len(run.calls) : run.tool[i] = "done" => run.results[i] = run.calls[i]
  /\ at = "results" => run.results = run.calls

\* Memory and both sessions hold conversations, the answer about to be appended
\* is not in that of the current session, and memory is that conversation but
\* for what was made up.
SessionsInv ==
  /\ \A m \in {messages, Replay(log), Replay(other)} : Conversation(m, answers)
  /\ at = "answer" => answers > 0 /\ \A m \in {messages, Replay(log)} : Conversation(m, answers - 1)
  /\ at # "down" => Written(messages) = Written(Replay(log))

IInv == TypeOK /\ TurnInv /\ CallsInv /\ AnswerInv /\ SessionsInv

----------------------------------------
(* Induction and recursion over the naturals.  The theorems of the library *)
(* take an operator; these take a set and a function.                      *)

\* A set that has 0 and the successor of every natural it has, has them all.
LEMMA Induction ==
    ASSUME NEW S, 0 \in S, \A n \in Nat : n \in S => n + 1 \in S
    PROVE  \A n \in Nat : n \in S
<1> DEFINE T == {n \in Nat : n \notin S}
<1>1. SUFFICES ASSUME T # {} PROVE FALSE
  OBVIOUS
<1>2. PICK x \in T : \A y \in T : ~(<<y, x>> \in OpToRel(<, Nat))
  BY <1>1, WFMin, NatLessThanWellFounded
<1>3. x # 0 /\ x \in Nat OBVIOUS
<1>4. x - 1 \in Nat /\ x - 1 < x BY <1>3
<1>5. <<x - 1, x>> \in OpToRel(<, Nat) BY <1>3, <1>4 DEF OpToRel
<1>6. x - 1 \notin T BY <1>2, <1>5
<1>7. x - 1 \in S BY <1>4, <1>6
<1>. QED BY <1>3, <1>4, <1>7

\* The values that a first one and a step for each place give.
Steps(f, N, D, first, step) ==
    f \in [0..N -> D] /\ f[0] = first /\ \A n \in 1..N : f[n] = step[n][f[n - 1]]

\* There are such values.
LEMMA Recursion ==
    ASSUME NEW N \in Nat, NEW D, NEW first \in D, NEW step \in [1..N -> [D -> D]]
    PROVE  \E f : Steps(f, N, D, first, step)
<1> DEFINE Upto(k, f) == f \in [0..k -> D] /\ f[0] = first /\ \A n \in 1..k : f[n] = step[n][f[n - 1]]
           S == {k \in Nat : k <= N => \E f : Upto(k, f)}
<1>1. 0 \in S
 <2>1. Upto(0, [n \in 0..0 |-> first]) OBVIOUS
 <2>. QED BY <2>1
<1>2. ASSUME NEW k \in Nat, k \in S PROVE k + 1 \in S
 <2>1. SUFFICES ASSUME k + 1 <= N PROVE \E f : Upto(k + 1, f)
   OBVIOUS
 <2>2. PICK f : Upto(k, f) BY <1>2, <2>1
 <2>3. k + 1 \in 1..N /\ f[k] \in D /\ step[k + 1] \in [D -> D] BY <2>1, <2>2
 <2> DEFINE g == [n \in 0..(k + 1) |-> IF n = k + 1 THEN step[k + 1][f[k]] ELSE f[n]]
 <2>4. g \in [0..(k + 1) -> D] BY <2>2, <2>3
 <2>5. ASSUME NEW n \in 1..(k + 1) PROVE g[n] = step[n][g[n - 1]]
   BY <2>2, <2>3
 <2>6. g[0] = first BY <2>2
 <2>. QED BY <2>4, <2>5, <2>6
<1>3. N \in S
 <2> HIDE DEF S
 <2>. QED BY <1>1, <1>2, Induction
<1>. QED BY <1>3 DEF Steps

----------------------------------------
(* The conversation of a session (session.go: decode).                     *)

\* A record makes a conversation of another one.
LEMMA RecordReplayed ==
    ASSUME NEW m \in Seq(Message), NEW r \in LogRecord
    PROVE  ReplayRecord(m, r) \in Seq(Message)
  BY DEF ReplayRecord, LogRecord

\* Line by line.
LEMMA Lines ==
    ASSUME NEW l \in Seq(LogRecord)
    PROVE  \E f \in [0..Len(l) -> Seq(Message)] :
              /\ f[0] = <<>> /\ \A n \in 1..Len(l) : f[n] = ReplayRecord(f[n - 1], l[n])
              /\ Replay(l) = f[Len(l)]
<1> DEFINE Is(g) == g = [n \in 0..Len(l) |-> IF n = 0 THEN <<>> ELSE ReplayRecord(g[n - 1], l[n])]
           step == [n \in 1..Len(l) |-> [m \in Seq(Message) |-> ReplayRecord(m, l[n])]]
<1>1. \A n \in 1..Len(l) : l[n] \in LogRecord OBVIOUS
<1>2. step \in [1..Len(l) -> [Seq(Message) -> Seq(Message)]] BY <1>1, RecordReplayed
<1>3. Len(l) \in Nat /\ <<>> \in Seq(Message) OBVIOUS
<1>4. PICK f : Steps(f, Len(l), Seq(Message), <<>>, step) BY <1>2, <1>3, Recursion
<1>5. ASSUME NEW n \in 1..Len(l) PROVE f[n] = ReplayRecord(f[n - 1], l[n])
 <2>0. n - 1 \in 0..Len(l) BY <1>3
 <2>a. f \in [0..Len(l) -> Seq(Message)] BY <1>4 DEF Steps
 <2>1. f[n - 1] \in Seq(Message) BY <2>0, <2>a
 <2>2. step[n] = [m \in Seq(Message) |-> ReplayRecord(m, l[n])] OBVIOUS
 <2>. QED BY <2>1, <2>2, <1>4 DEF Steps
<1>6. Is(f) BY <1>4, <1>5, <1>3 DEF Steps
<1> DEFINE g == CHOOSE h : Is(h)
<1>7. Is(g) BY <1>6
<1>8. Replay(l) = g[Len(l)] BY DEF Replay
<1> HIDE DEF g
<1>9. DOMAIN g = 0..Len(l) /\ g[0] = <<>> /\ \A n \in 1..Len(l) : g[n] = ReplayRecord(g[n - 1], l[n])
  BY <1>3, <1>7
<1> DEFINE S == {k \in Nat : k <= Len(l) => g[k] = f[k]}
<1>10. Len(l) \in S
 <2>1. 0 \in S BY <1>4, <1>9 DEF Steps
 <2>2. ASSUME NEW k \in Nat, k \in S PROVE k + 1 \in S
   BY <1>5, <1>9, <1>3, <2>2
 <2> HIDE DEF S
 <2>. QED BY <1>3, <2>1, <2>2, Induction
<1>. QED BY <1>3, <1>4, <1>5, <1>8, <1>10 DEF Steps

\* The replay of an empty session.
LEMMA EmptyReplay == Replay(<<>>) = <<>>
<1>1. <<>> \in Seq(LogRecord) /\ Len(<<>>) = 0 OBVIOUS
<1>. QED BY <1>1, Lines

\* One more record.
LEMMA ReplayAppended ==
    ASSUME NEW l \in Seq(LogRecord), NEW r \in LogRecord
    PROVE  Replay(Append(l, r)) = ReplayRecord(Replay(l), r)
<1> DEFINE k == Append(l, r)
<1>1. k \in Seq(LogRecord) /\ Len(k) = Len(l) + 1 /\ Len(l) \in Nat /\ k[Len(l) + 1] = r
      /\ \A n \in 1..Len(l) : k[n] = l[n]
  OBVIOUS
<1> HIDE DEF k
<1>2. PICK f \in [0..Len(l) -> Seq(Message)] :
         /\ f[0] = <<>> /\ \A n \in 1..Len(l) : f[n] = ReplayRecord(f[n - 1], l[n])
         /\ Replay(l) = f[Len(l)]
  BY Lines
<1>3. PICK g \in [0..Len(k) -> Seq(Message)] :
         /\ g[0] = <<>> /\ \A n \in 1..Len(k) : g[n] = ReplayRecord(g[n - 1], k[n])
         /\ Replay(k) = g[Len(k)]
  BY Lines, <1>1
<1> DEFINE S == {n \in Nat : n <= Len(l) => g[n] = f[n]}
<1>4. 0 \in S BY <1>2, <1>3
<1>5. ASSUME NEW n \in Nat, n \in S PROVE n + 1 \in S
  BY <1>1, <1>2, <1>3, <1>5
<1>6. Len(l) \in S
 <2> HIDE DEF S
 <2>. QED BY <1>1, <1>4, <1>5, Induction
<1>7. g[Len(l)] = f[Len(l)] BY <1>1, <1>6
<1>. QED BY <1>1, <1>2, <1>3, <1>7 DEF k

\* What a session amounts to is a sequence of messages.
LEMMA ReplayType ==
    ASSUME NEW l \in Seq(LogRecord)
    PROVE  Replay(l) \in Seq(Message)
  BY Lines

----------------------------------------
(* What the records do to a conversation.                                  *)

\* A message, as a conversation of its own.
LEMMA RecordOfOne ==
    ASSUME NEW m \in Seq(Message), NEW x \in Message
    PROVE  ReplayRecord(m, Rec("message", <<x>>)) = Append(m, x) /\ Rec("message", <<x>>) \in LogRecord
  BY DEF ReplayRecord, Rec, LogRecord

\* The message of a user.
LEMMA UserIsMessage ==
    User \in Message /\ User.kind = "user" /\ User.calls = <<>> /\ Len(<<>>) = 0
    /\ User.made = <<>> /\ User.invalid = {} /\ Sound(User) /\ Begins(User)
<1>1. User \in Message /\ User.kind = "user" /\ User.calls = <<>> /\ Len(<<>>) = 0
      /\ User.made = <<>> /\ User.invalid = {}
  BY DEF User, Message
<1>. QED BY <1>1 DEF Sound, Begins

\* An answer.
LEMMA AnswerIsMessage ==
    ASSUME NEW c \in Seq(Call), NEW bad \in SUBSET Call
    PROVE  Answer(c, bad) \in Message /\ Answer(c, bad).kind = "assistant" /\ Answer(c, bad).calls = c
           /\ Answer(c, bad).invalid = bad /\ Answer(c, bad).made = <<>>
  BY DEF Answer, Message

\* The results of tools.
LEMMA ResultsAreMessage ==
    ASSUME NEW c \in Seq(Call)
    PROVE  Results(c) \in Message /\ Results(c).kind = "results" /\ Results(c).calls = c
           /\ Results(c).invalid = {} /\ Results(c).made = <<>> /\ Sound(Results(c))
<1>1. Results(c) \in Message /\ Results(c).kind = "results" /\ Results(c).calls = c
      /\ Results(c).invalid = {} /\ Results(c).made = <<>>
  BY DEF Results, Message
<1>. QED BY <1>1 DEF Sound

\* The empty conversation.
LEMMA NoMessages == ASSUME NEW n \in Nat PROVE Conversation(<<>>, n)
  BY DEF Conversation

\* A message of a conversation.
LEMMA MessageCalls ==
    ASSUME NEW m \in Seq(Message), NEW i \in 1..Len(m)
    PROVE  m[i] \in Message /\ m[i].calls \in Seq(Call) /\ m[i].made \in Seq(Call)
           /\ m[i].kind \in {"user", "assistant", "results"} /\ m[i].invalid \in SUBSET Call
<1>1. m[i] \in Message OBVIOUS
<1>. QED BY <1>1 DEF Message

\* A conversation has its calls of more answers, too.
LEMMA MoreAnswers ==
    ASSUME NEW m, NEW n \in Nat, NEW k \in Nat, n <= k, Conversation(m, n)
    PROVE  Conversation(m, k)
<1>1. ASSUME NEW i \in 1..Len(m), NEW h \in 1..Len(m[i].calls) PROVE m[i].calls[h][1] \in 1..k
  BY SMTT(40), <1>1 DEF Conversation
<1>. QED BY <1>1 DEF Conversation

\* The places of a conversation with one more message.
LEMMA Places ==
    ASSUME NEW m \in Seq(Message), NEW x \in Message
    PROVE  /\ Append(m, x) \in Seq(Message) /\ Len(Append(m, x)) = Len(m) + 1 /\ Len(m) \in Nat
           /\ Append(m, x)[Len(m) + 1] = x
           /\ \A i \in 1..Len(m) : Append(m, x)[i] = m[i]
           /\ \A i \in 1..Len(Append(m, x)) : i \in 1..Len(m) \/ i = Len(m) + 1
  OBVIOUS

\* One more message: if it is an answer, later than all the conversation has.
LEMMA MessageAppended ==
    ASSUME NEW m, NEW n \in Nat, NEW p \in Nat, n <= p, Conversation(m, n),
           NEW x \in Message, Sound(x), m = <<>> => Begins(x), m # <<>> => Follows(m[Len(m)], x),
           \A k \in 1..Len(x.calls) : x.calls[k][1] \in 1..p,
           x.kind = "assistant" => \A k \in 1..Len(x.calls) : x.calls[k][1] \notin 1..n
    PROVE  Conversation(Append(m, x), p)
<1> DEFINE w == Append(m, x)
<1>1. m \in Seq(Message) BY DEF Conversation
<1>2. /\ w \in Seq(Message) /\ Len(w) = Len(m) + 1 /\ Len(m) \in Nat /\ w[Len(m) + 1] = x
      /\ \A i \in 1..Len(m) : w[i] = m[i]
      /\ \A i \in 1..Len(w) : i \in 1..Len(m) \/ i = Len(m) + 1
  BY <1>1, Places
<1> HIDE DEF w
<1>3. ASSUME NEW i \in 1..Len(w) PROVE Sound(w[i])
  BY <1>2 DEF Conversation
<1>4. ASSUME NEW i \in 1..Len(w) PROVE IF i = 1 THEN Begins(w[i]) ELSE Follows(w[i - 1], w[i])
 <2>1. CASE i \in 1..Len(m)
  <3>1. IF i = 1 THEN Begins(m[i]) ELSE Follows(m[i - 1], m[i]) BY <2>1 DEF Conversation
  <3>2. i # 1 => i - 1 \in 1..Len(m) BY <2>1
  <3>. QED BY <3>1, <3>2, <2>1, <1>2
 <2>2. CASE i = Len(m) + 1
  <3>1. CASE m = <<>>
   <4>1. Len(m) = 0 BY <3>1
   <4>. QED BY <4>1, <3>1, <2>2, <1>2
  <3>2. CASE m # <<>>
   <4>1. Len(m) \in 1..Len(m) /\ i - 1 = Len(m) /\ i # 1 BY <3>2, <2>2, <1>1
   <4>. QED BY <4>1, <3>2, <2>2, <1>2
  <3>. QED BY <3>1, <3>2
 <2>. QED BY <2>1, <2>2, <1>2
<1>5. ASSUME NEW i \in 1..Len(m), NEW k \in 1..Len(m[i].calls) PROVE m[i].calls[k][1] \in 1..n
  BY <1>5 DEF Conversation
<1>6. ASSUME NEW i \in 1..Len(w), NEW k \in 1..Len(w[i].calls) PROVE w[i].calls[k][1] \in 1..p
 <2>1. CASE i \in 1..Len(m)
  <3>1. w[i].calls[k][1] \in 1..n BY <2>1, <1>5, <1>2
  <3>. QED BY <3>1
 <2>2. CASE i = Len(m) + 1 BY <2>2, <1>2
 <2>. QED BY <2>1, <2>2, <1>2
<1>7. ASSUME NEW i \in 1..Len(w), NEW j \in 1..Len(w), NEW k \in 1..Len(w[i].calls), NEW h \in 1..Len(w[j].calls),
             w[i].kind = "assistant", w[j].kind = "assistant", w[i].calls[k] = w[j].calls[h]
      PROVE  i = j
 <2>1. CASE i \in 1..Len(m) /\ j \in 1..Len(m)
  <3>1. w[i] = m[i] /\ w[j] = m[j] BY <2>1, <1>2
  <3>2. /\ k \in 1..Len(m[i].calls) /\ h \in 1..Len(m[j].calls) /\ m[i].calls[k] = m[j].calls[h]
        /\ m[i].kind = "assistant" /\ m[j].kind = "assistant"
    BY <3>1, <1>7
  <3>. QED BY <2>1, <3>2 DEF Conversation
 <2>2. CASE i \in 1..Len(m) /\ j = Len(m) + 1
  <3>1. w[i].calls[k][1] \in 1..n /\ w[j].calls[h][1] \notin 1..n BY <2>2, <1>2, <1>5, <1>7
  <3>. QED BY <3>1, <1>7
 <2>3. CASE i = Len(m) + 1 /\ j \in 1..Len(m)
  <3>1. w[j].calls[h][1] \in 1..n /\ w[i].calls[k][1] \notin 1..n BY <2>3, <1>2, <1>5, <1>7
  <3>. QED BY <3>1, <1>7
 <2>. QED BY <2>1, <2>2, <2>3, <1>2
<1>. QED BY <1>2, <1>3, <1>4, <1>6, <1>7 DEF Conversation, w

\* What a compaction leaves: the summary, and the messages from a prompt on.
LEMMA Compacted ==
    ASSUME NEW m, NEW n \in Nat, Conversation(m, n), NEW s \in Splits(m)
    PROVE  Conversation(<<User>> \o SubSeq(m, s, Len(m)), n)
<1> DEFINE w == <<User>> \o SubSeq(m, s, Len(m))
<1>1. m \in Seq(Message) /\ s \in 2..Len(m) /\ m[s].kind = "user" /\ m[s].made = <<>> /\ Len(m) \in Nat
  BY DEF Conversation, Splits
<1>2. SubSeq(m, s, Len(m)) \in Seq(Message) /\ Len(SubSeq(m, s, Len(m))) = Len(m) - s + 1
      /\ \A i \in 1..(Len(m) - s + 1) : SubSeq(m, s, Len(m))[i] = m[s + i - 1]
  BY <1>1
<1>3. w \in Seq(Message) /\ Len(w) = Len(m) - s + 2 /\ w[1] = User BY <1>1, <1>2, UserIsMessage
<1>4. ASSUME NEW i \in 2..Len(w) PROVE w[i] = m[s + i - 2] /\ s + i - 2 \in s..Len(m)
 <2>1. i - 1 \in 1..(Len(m) - s + 1) /\ w[i] = SubSeq(m, s, Len(m))[i - 1] BY <1>1, <1>2, <1>3
 <2>2. s + (i - 1) - 1 = s + i - 2 /\ s + i - 2 \in s..Len(m) BY <1>1, <1>3
 <2>. QED BY <2>1, <2>2, <1>2
<1>5. ASSUME NEW i \in 1..Len(w), i # 1 PROVE i \in 2..Len(w)
  BY <1>1, <1>3, <1>5
<1> HIDE DEF w
<1>a. ASSUME NEW i \in 1..Len(w) PROVE Sound(w[i])
 <2>1. CASE i = 1 BY <2>1, <1>3, UserIsMessage
 <2>2. CASE i # 1
  <3>1. w[i] = m[s + i - 2] /\ s + i - 2 \in 1..Len(m) BY <2>2, <1>1, <1>4, <1>5
  <3>. QED BY <3>1 DEF Conversation
 <2>. QED BY <2>1, <2>2
<1>6. ASSUME NEW i \in 1..Len(w) PROVE IF i = 1 THEN Begins(w[i]) ELSE Follows(w[i - 1], w[i])
 <2>1. CASE i = 1 BY <2>1, <1>3, UserIsMessage
 <2>2. CASE i = 2
  <3>1. w[i] = m[s] /\ w[i - 1] = User
   <4>1. s + 2 - 2 = s /\ 2 \in 2..Len(w) BY <2>2, <1>1, <1>3
   <4>. QED BY <4>1, <2>2, <1>3, <1>4
  <3>2. Follows(w[i - 1], w[i]) BY <3>1, <1>1 DEF Follows
  <3>. QED BY <3>2, <2>2
 <2>3. CASE i # 1 /\ i # 2
  <3>1. i \in 2..Len(w) /\ i - 1 \in 2..Len(w) BY <2>3, <1>1, <1>3
  <3>2. w[i] = m[s + i - 2] /\ w[i - 1] = m[s + (i - 1) - 2] /\ s + i - 2 \in s..Len(m)
    BY <3>1, <1>4
  <3>3. s + (i - 1) - 2 = (s + i - 2) - 1 /\ s + i - 2 \in 1..Len(m) /\ s + i - 2 # 1
    BY <3>1, <3>2, <1>1
  <3>4. Follows(m[(s + i - 2) - 1], m[s + i - 2]) BY <3>3 DEF Conversation
  <3>. QED BY <3>2, <3>3, <3>4, <2>3
 <2>. QED BY <2>1, <2>2, <2>3
<1>7. ASSUME NEW i \in 1..Len(w), NEW k \in 1..Len(w[i].calls)
      PROVE  s + i - 2 \in 1..Len(m) /\ k \in 1..Len(m[s + i - 2].calls) /\ w[i] = m[s + i - 2] /\ i \in Int
 <2>1. i # 1 BY <1>3, UserIsMessage
 <2>2. w[i] = m[s + i - 2] /\ s + i - 2 \in s..Len(m) BY <2>1, <1>4, <1>5
 <2>. QED BY <2>2, <1>1
<1>8. ASSUME NEW i \in 1..Len(w), NEW k \in 1..Len(w[i].calls) PROVE w[i].calls[k][1] \in 1..n
  BY <1>7 DEF Conversation
<1>9. ASSUME NEW i \in 1..Len(w), NEW j \in 1..Len(w), NEW k \in 1..Len(w[i].calls), NEW h \in 1..Len(w[j].calls),
             w[i].kind = "assistant", w[j].kind = "assistant", w[i].calls[k] = w[j].calls[h]
      PROVE  i = j
 <2> DEFINE x == s + i - 2
            y == s + j - 2
 <2>1. x \in 1..Len(m) /\ k \in 1..Len(m[x].calls) /\ w[i] = m[x] /\ i \in Int BY <1>7
 <2>2. y \in 1..Len(m) /\ h \in 1..Len(m[y].calls) /\ w[j] = m[y] /\ j \in Int BY <1>7
 <2>3. x = y
  <3> HIDE DEF x, y
  <3>. QED BY <2>1, <2>2, <1>9 DEF Conversation
 <2>. QED BY <2>1, <2>2, <2>3, <1>1
<1>. QED BY <1>3, <1>a, <1>6, <1>8, <1>9 DEF Conversation, w

\* One more message in memory and in the session.
LEMMA WrittenAppended ==
    ASSUME NEW m \in Seq(Message), NEW w \in Seq(Message), NEW x \in Message, Written(m) = Written(w)
    PROVE  Written(Append(m, x)) = Written(Append(w, x))
<1>1. Len(m) = Len(w) /\ \A i \in 1..Len(m) : [m[i] EXCEPT !.made = <<>>] = [w[i] EXCEPT !.made = <<>>]
 <2>1. Len(Written(m)) = Len(m) /\ Len(Written(w)) = Len(w) BY DEF Written
 <2>2. \A i \in 1..Len(m) : Written(m)[i] = [m[i] EXCEPT !.made = <<>>] BY DEF Written
 <2>3. \A i \in 1..Len(w) : Written(w)[i] = [w[i] EXCEPT !.made = <<>>] BY DEF Written
 <2>. QED BY <2>1, <2>2, <2>3
<1> DEFINE u == Append(m, x)
           v == Append(w, x)
<1>2. /\ Len(u) = Len(m) + 1 /\ Len(m) \in Nat /\ u[Len(m) + 1] = x /\ \A i \in 1..Len(m) : u[i] = m[i]
      /\ \A i \in 1..Len(u) : i \in 1..Len(m) \/ i = Len(m) + 1
  BY Places
<1>3. Len(v) = Len(w) + 1 /\ v[Len(w) + 1] = x /\ \A i \in 1..Len(w) : v[i] = w[i] BY Places
<1> HIDE DEF u, v
<1>4. Len(u) = Len(v) /\ \A i \in 1..Len(u) : [u[i] EXCEPT !.made = <<>>] = [v[i] EXCEPT !.made = <<>>]
  BY <1>1, <1>2, <1>3
<1>. QED BY <1>4 DEF Written, u, v

----------------------------------------
(* Calls without results (model/types.go: RepairToolCallResults;           *)
(* context.go: contextMessages).                                           *)

\* A sequence of sequences, one after another.
LEMMA Flattened ==
    ASSUME NEW T, NEW s \in Seq(Seq(T))
    PROVE  \E f \in [0..Len(s) -> Seq(T)] :
              /\ f[0] = <<>> /\ \A n \in 1..Len(s) : f[n] = f[n - 1] \o s[n]
              /\ FlattenSeq(s) = f[Len(s)]
<1> DEFINE Is(g) == g = [i \in 1..Len(s) |-> IF i = 1 THEN s[i] ELSE g[i - 1] \o s[i]]
           step == [n \in 1..Len(s) |-> [m \in Seq(T) |-> m \o s[n]]]
<1>1. \A n \in 1..Len(s) : s[n] \in Seq(T) OBVIOUS
<1>2. step \in [1..Len(s) -> [Seq(T) -> Seq(T)]] BY <1>1
<1>3. Len(s) \in Nat /\ <<>> \in Seq(T) OBVIOUS
<1>4. PICK f : Steps(f, Len(s), Seq(T), <<>>, step) BY <1>2, <1>3, Recursion
<1>5. f \in [0..Len(s) -> Seq(T)] /\ f[0] = <<>> BY <1>4 DEF Steps
<1>6. ASSUME NEW n \in 1..Len(s) PROVE f[n] = f[n - 1] \o s[n]
 <2>1. n - 1 \in 0..Len(s) BY <1>3
 <2>2. f[n - 1] \in Seq(T) BY <1>5, <2>1
 <2>3. step[n] = [m \in Seq(T) |-> m \o s[n]] OBVIOUS
 <2>. QED BY <2>2, <2>3, <1>4 DEF Steps
<1>7. CASE s = <<>>
 <2>1. FlattenSeq(s) = <<>> /\ Len(s) = 0 BY <1>7 DEF FlattenSeq
 <2>. QED BY <1>5, <1>6, <2>1
<1>8. CASE s # <<>>
 <2>1. Len(s) # 0 /\ Len(s) \in 1..Len(s) BY <1>8
 <2> DEFINE h == [i \in 1..Len(s) |-> f[i]]
 <2>2. \A i \in 1..Len(s) : h[i] = IF i = 1 THEN s[i] ELSE h[i - 1] \o s[i]
  <3> SUFFICES ASSUME NEW i \in 1..Len(s) PROVE h[i] = IF i = 1 THEN s[i] ELSE h[i - 1] \o s[i]
    OBVIOUS
  <3>1. h[i] = f[i - 1] \o s[i] BY <1>6
  <3>2. CASE i = 1
   <4>1. i - 1 = 0 /\ f[i - 1] = <<>> BY <3>2, <1>5
   <4>2. s[i] \in Seq(T) BY <1>1
   <4>. QED BY <3>1, <3>2, <4>1, <4>2
  <3>3. CASE i # 1
   <4>1. i - 1 \in 1..Len(s) BY <3>3, <1>3
   <4>. QED BY <3>1, <3>3, <4>1
  <3>. QED BY <3>2, <3>3
 <2>3. Is(h) BY SMTT(40), <2>2
 <2> DEFINE g == CHOOSE e : Is(e)
 <2>4. Is(g) BY Zenon, <2>3
 <2>5. FlattenSeq(s) = g[Len(s)] BY <2>1 DEF FlattenSeq
 <2> HIDE DEF g, h
 <2>6. \A i \in 1..Len(s) : g[i] = IF i = 1 THEN s[i] ELSE g[i - 1] \o s[i] BY <2>4
 <2> DEFINE S == {k \in Nat : k + 1 <= Len(s) => g[k + 1] = f[k + 1]}
 <2>7. 0 \in S
  <3>1. 1 \in 1..Len(s) /\ 1 - 1 = 0 /\ 0 + 1 = 1 BY <2>1, <1>3
  <3>2. g[1] = s[1] BY <2>6, <3>1
  <3>3. f[1] = s[1] BY SMTT(40), <1>6, <1>5, <1>1, <3>1
  <3>. QED BY <3>1, <3>2, <3>3
 <2>8. ASSUME NEW k \in Nat, k \in S PROVE k + 1 \in S
  <3>1. SUFFICES ASSUME k + 2 <= Len(s) PROVE g[k + 2] = f[k + 2]
    BY <1>3
  <3>2. g[k + 1] = f[k + 1] /\ k + 2 \in 1..Len(s) /\ k + 2 # 1 /\ (k + 2) - 1 = k + 1
    BY <2>8, <3>1, <1>3
  <3>3. g[k + 2] = g[k + 1] \o s[k + 2] BY <3>2, <2>6
  <3>4. f[k + 2] = f[k + 1] \o s[k + 2] BY <3>2, <1>6
  <3>. QED BY <3>2, <3>3, <3>4
 <2>9. Len(s) - 1 \in S /\ Len(s) - 1 \in Nat
  <3>1. Len(s) - 1 \in Nat BY <2>1, <1>3
  <3> HIDE DEF S
  <3>. QED BY <3>1, <2>7, <2>8, Induction
 <2>10. g[Len(s)] = f[Len(s)] BY <2>9, <1>3
 <2>. QED BY <1>5, <1>6, <2>5, <2>10
<1>. QED BY <1>7, <1>8

\* Of a sequence, all or none is kept.
LEMMA KeptAllOrNone ==
    ASSUME NEW T, NEW c \in Seq(T), NEW b \in BOOLEAN
    PROVE  FlattenSeq([k \in 1..Len(c) |-> IF b THEN <<>> ELSE <<c[k]>>]) = IF b THEN <<>> ELSE c
<1> DEFINE s == [k \in 1..Len(c) |-> IF b THEN <<>> ELSE <<c[k]>>]
<1>1. s \in Seq(Seq(T)) /\ Len(s) = Len(c) /\ Len(c) \in Nat
      /\ \A k \in 1..Len(c) : s[k] = IF b THEN <<>> ELSE <<c[k]>>
  OBVIOUS
<1> HIDE DEF s
<1>2. PICK f \in [0..Len(s) -> Seq(T)] :
         /\ f[0] = <<>> /\ \A n \in 1..Len(s) : f[n] = f[n - 1] \o s[n]
         /\ FlattenSeq(s) = f[Len(s)]
  BY <1>1, Flattened
<1> DEFINE S == {k \in Nat : k <= Len(c) => f[k] = IF b THEN <<>> ELSE SubSeq(c, 1, k)}
<1>3. 0 \in S
 <2>1. SubSeq(c, 1, 0) = <<>> OBVIOUS
 <2>. QED BY <1>2, <2>1
<1>4. ASSUME NEW k \in Nat, k \in S PROVE k + 1 \in S
 <2>1. SUFFICES ASSUME k + 1 <= Len(c) PROVE f[k + 1] = IF b THEN <<>> ELSE SubSeq(c, 1, k + 1)
   OBVIOUS
 <2>0. k + 1 \in 1..Len(c) /\ k + 1 \in 1..Len(s) /\ (k + 1) - 1 = k BY <1>1, <2>1
 <2>5. f[k + 1] = f[k] \o s[k + 1] BY <1>2, <2>0
 <2>6. s[k + 1] = IF b THEN <<>> ELSE <<c[k + 1]>> BY <1>1, <2>0
 <2>2. f[k + 1] = f[k] \o s[k + 1] /\ s[k + 1] = IF b THEN <<>> ELSE <<c[k + 1]>> BY <2>5, <2>6
 <2>3. f[k] = IF b THEN <<>> ELSE SubSeq(c, 1, k) BY <1>4, <2>1
 <2>4. SubSeq(c, 1, k + 1) = SubSeq(c, 1, k) \o <<c[k + 1]>> BY <1>1, <2>1
 <2>. QED BY <2>2, <2>3, <2>4
<1>5. Len(c) \in S
 <2> HIDE DEF S
 <2>. QED BY <1>1, <1>3, <1>4, Induction
<1>6. SubSeq(c, 1, Len(c)) = c OBVIOUS
<1>. QED BY <1>1, <1>2, <1>5, <1>6 DEF s

\* Results of all the calls of a sequence, or of none.
LEMMA WithoutAll ==
    ASSUME NEW c \in Seq(Call), NEW s
    PROVE  /\ Range(c) \subseteq s => Without(c, s) = <<>>
           /\ Range(c) \cap s = {} => Without(c, s) = c
<1>0. \A k \in 1..Len(c) : c[k] \in Range(c) BY DEF Range
<1>1. ASSUME Range(c) \subseteq s PROVE Without(c, s) = <<>>
 <2>1. [k \in 1..Len(c) |-> IF c[k] \in s THEN <<>> ELSE <<c[k]>>]
       = [k \in 1..Len(c) |-> IF TRUE THEN <<>> ELSE <<c[k]>>]
   BY <1>0, <1>1
 <2>2. FlattenSeq([k \in 1..Len(c) |-> IF TRUE THEN <<>> ELSE <<c[k]>>]) = IF TRUE THEN <<>> ELSE c
   BY KeptAllOrNone
 <2>. QED BY <2>1, <2>2 DEF Without
<1>2. ASSUME Range(c) \cap s = {} PROVE Without(c, s) = c
 <2>1. [k \in 1..Len(c) |-> IF c[k] \in s THEN <<>> ELSE <<c[k]>>]
       = [k \in 1..Len(c) |-> IF FALSE THEN <<>> ELSE <<c[k]>>]
   BY <1>0, <1>2
 <2>2. FlattenSeq([k \in 1..Len(c) |-> IF FALSE THEN <<>> ELSE <<c[k]>>]) = IF FALSE THEN <<>> ELSE c
   BY KeptAllOrNone
 <2>. QED BY <2>1, <2>2 DEF Without
<1>. QED BY <1>1, <1>2

\* An answer with an invalid call and no results: none were appended, none made up.
Bare(m, i) ==
  /\ m[i].invalid # {} /\ m[i].made = <<>>
  /\ i = Len(m) \/ m[i + 1].kind = "assistant" \/ (m[i + 1].kind = "user" /\ m[i + 1].made = <<>>)

\* Results belong to the answer before them, so all calls of an answer have
\* theirs, or none.
LEMMA LackingCalls ==
    ASSUME NEW m, NEW n \in Nat, Conversation(m, n), NEW i \in 1..Len(m)
    PROVE  Lacking(m, i) = IF Bare(m, i) THEN m[i].calls ELSE <<>>
<1>1. m \in Seq(Message) /\ Len(m) \in Nat /\ m[i].calls \in Seq(Call) /\ Sound(m[i])
  BY MessageCalls DEF Conversation
<1>2. CASE m[i].invalid = {} BY <1>2 DEF Lacking, Bare
<1>3. CASE m[i].invalid # {}
 <2> DEFINE c == m[i].calls
            s == NextResults(m, i)
 <2>0. m[i].kind = "assistant" /\ (m[i].made = <<>> \/ m[i].made = c) /\ Lacking(m, i) = Without(c, s)
   BY <1>1, <1>3 DEF Sound, Lacking
 <2>a. Range(<<>>) = {} /\ Range(<<>>) \cap Range(c) = {} BY DEF Range
 <2>1. CASE m[i].made # <<>>
  <3>1. s = Range(c) BY <2>0, <2>1 DEF NextResults, Alone
  <3>. QED BY <3>1, <2>0, <2>1, <1>1, WithoutAll DEF Bare
 <2>2. CASE m[i].made = <<>> /\ (i = Len(m) \/ m[i + 1].kind = "assistant")
  <3>1. s = {} BY <2>2, <2>a DEF NextResults, Alone
  <3>2. Bare(m, i) BY <2>2, <1>3 DEF Bare
  <3>. QED BY <3>1, <3>2, <2>0, <1>1, WithoutAll
 <2>3. CASE m[i].made = <<>> /\ i # Len(m) /\ m[i + 1].kind # "assistant"
  <3> DEFINE x == m[i + 1]
  <3>1. i + 1 \in 1..Len(m) /\ i + 1 # 1 /\ (i + 1) - 1 = i BY <2>3, <1>1
  <3>2. Sound(x) /\ Follows(m[i], x) /\ x.kind \in {"user", "results"}
   <4>1. Sound(m[i + 1]) BY <3>1 DEF Conversation
   <4>2. Follows(m[(i + 1) - 1], m[i + 1]) BY <3>1 DEF Conversation
   <4>3. m[i + 1].kind \in {"user", "assistant", "results"} BY <3>1, <1>1, MessageCalls
   <4>. QED BY <4>1, <4>2, <4>3, <3>1, <2>3
  <3>3. s = ResultsOf(x) BY <2>3 DEF NextResults, Alone
  <3>4. Bare(m, i) <=> x.kind = "user" /\ x.made = <<>> BY <2>3, <1>3 DEF Bare
  <3> HIDE DEF x, s
  <3>5. CASE x.kind = "results"
   <4>1. s = Range(c) BY <3>2, <3>3, <3>5, <2>a DEF ResultsOf, Sound, Follows
   <4>. QED BY <4>1, <3>4, <3>5, <2>0, <1>1, WithoutAll
  <3>6. CASE x.kind = "user" /\ x.made # <<>>
   <4>1. s = Range(c) BY <3>2, <3>3, <3>6 DEF ResultsOf, Follows
   <4>. QED BY <4>1, <3>4, <3>6, <2>0, <1>1, WithoutAll
  <3>7. CASE x.kind = "user" /\ x.made = <<>>
   <4>1. s = {} BY <3>3, <3>7, <2>a DEF ResultsOf
   <4>. QED BY <4>1, <3>4, <3>7, <2>0, <1>1, WithoutAll
  <3>. QED BY <3>2, <3>5, <3>6, <3>7
 <2>. QED BY <2>1, <2>2, <2>3
<1>. QED BY <1>2, <1>3

\* The results made up after a load: those of an answer that needs them go with
\* it, or with the prompt after it.
Made(m, i) ==
  IF m[i].kind = "assistant"
  THEN IF Bare(m, i) /\ (i = Len(m) \/ m[i + 1].kind = "assistant") THEN m[i].calls ELSE m[i].made
  ELSE IF i > 1 /\ Bare(m, i - 1) THEN m[i - 1].calls ELSE m[i].made

\* What a load does to each message.
LEMMA Repaired ==
    ASSUME NEW m, NEW n \in Nat, Conversation(m, n), NEW i \in 1..Len(m)
    PROVE  Repair(m)[i] = [m[i] EXCEPT !.made = Made(m, i)] /\ Made(m, i) \in Seq(Call)
<1>1. m \in Seq(Message) /\ Len(m) \in Nat /\ m[i].calls \in Seq(Call) /\ m[i].made \in Seq(Call)
      /\ m[i].kind \in {"user", "assistant", "results"} /\ Sound(m[i])
  BY MessageCalls DEF Conversation
<1> DEFINE u == IF Alone(m, i) THEN Lacking(m, i) ELSE <<>>
           v == IF i > 1 /\ ~Alone(m, i - 1) THEN Lacking(m, i - 1) ELSE <<>>
<1>2. Repair(m)[i] = [m[i] EXCEPT !.made = u \o v \o m[i].made] BY DEF Repair
<1>3. Lacking(m, i) = IF Bare(m, i) THEN m[i].calls ELSE <<>> BY LackingCalls
<1>4. i > 1 => i - 1 \in 1..Len(m) /\ (i - 1) + 1 = i /\ i - 1 # Len(m) BY <1>1
<1>5. i > 1 => Lacking(m, i - 1) = IF Bare(m, i - 1) THEN m[i - 1].calls ELSE <<>>
  BY <1>4, LackingCalls
<1>6. i > 1 => m[i - 1].calls \in Seq(Call) BY <1>1, <1>4, MessageCalls
<1>7. u \o v \o m[i].made = Made(m, i) /\ Made(m, i) \in Seq(Call)
 <2>1. CASE m[i].kind = "assistant"
  <3>1. v = <<>> BY <2>1, <1>4 DEF Alone
  <3>2. u = IF Bare(m, i) /\ (i = Len(m) \/ m[i + 1].kind = "assistant") THEN m[i].calls ELSE <<>>
    BY <1>3 DEF Alone, Bare
  <3>3. Bare(m, i) => m[i].made = <<>> BY DEF Bare
  <3> HIDE DEF u, v
  <3>4. CASE Bare(m, i) /\ (i = Len(m) \/ m[i + 1].kind = "assistant")
   <4>1. u = m[i].calls /\ m[i].made = <<>> /\ Made(m, i) = m[i].calls
     BY <3>2, <3>3, <3>4, <2>1 DEF Made
   <4>2. u \o <<>> \o <<>> = u BY <4>1, <1>1
   <4>. QED BY <4>1, <4>2, <3>1, <1>1
  <3>5. CASE ~(Bare(m, i) /\ (i = Len(m) \/ m[i + 1].kind = "assistant"))
   <4>1. u = <<>> /\ Made(m, i) = m[i].made BY <3>2, <3>5, <2>1 DEF Made
   <4>2. <<>> \o <<>> \o m[i].made = m[i].made BY <1>1
   <4>. QED BY <4>1, <4>2, <3>1, <1>1
  <3>. QED BY <3>4, <3>5
 <2>2. CASE m[i].kind # "assistant"
  <3>1. u = <<>> BY <2>2, <1>1, <1>3 DEF Sound, Bare
  <3>2. v = IF i > 1 /\ Bare(m, i - 1) THEN m[i - 1].calls ELSE <<>>
   <4>1. CASE i > 1 /\ Bare(m, i - 1)
    <5>1. ~Alone(m, i - 1) BY <4>1, <2>2, <1>4 DEF Alone, Bare
    <5>. QED BY <5>1, <4>1, <1>5
   <4>2. CASE ~(i > 1 /\ Bare(m, i - 1)) BY <4>2, <1>5
   <4>. QED BY <4>1, <4>2
  <3> HIDE DEF u, v
  <3>3. CASE i > 1 /\ Bare(m, i - 1)
   <4>1. m[i].kind = "user" /\ m[i].made = <<>> BY <3>3, <2>2, <1>4 DEF Bare
   <4>2. v = m[i - 1].calls /\ Made(m, i) = m[i - 1].calls BY <3>2, <3>3, <2>2 DEF Made
   <4>3. <<>> \o v \o <<>> = v BY <4>2, <3>3, <1>6
   <4>. QED BY <4>1, <4>2, <4>3, <3>1, <3>3, <1>6
  <3>4. CASE ~(i > 1 /\ Bare(m, i - 1))
   <4>1. v = <<>> /\ Made(m, i) = m[i].made BY <3>2, <3>4, <2>2 DEF Made
   <4>2. <<>> \o <<>> \o m[i].made = m[i].made BY <1>1
   <4>. QED BY <4>1, <4>2, <3>1, <1>1
  <3>. QED BY <3>3, <3>4
 <2>. QED BY <2>1, <2>2
<1> HIDE DEF u, v
<1>. QED BY <1>2, <1>7

\* With the fields that a load leaves alone.
LEMMA RepairedFields ==
    ASSUME NEW m, NEW n \in Nat, Conversation(m, n)
    PROVE  /\ Repair(m) \in Seq(Message) /\ Len(Repair(m)) = Len(m) /\ Len(m) \in Nat
           /\ \A i \in 1..Len(m) :
                 /\ Repair(m)[i].kind = m[i].kind /\ Repair(m)[i].calls = m[i].calls
                 /\ Repair(m)[i].invalid = m[i].invalid /\ Repair(m)[i].made = Made(m, i)
<1>1. m \in Seq(Message) /\ Len(m) \in Nat BY DEF Conversation
<1>2. DOMAIN Repair(m) = 1..Len(m) /\ Repair(m) = [i \in 1..Len(m) |-> Repair(m)[i]] BY DEF Repair
<1>3. ASSUME NEW i \in 1..Len(m)
      PROVE  /\ Repair(m)[i] \in Message
             /\ Repair(m)[i].kind = m[i].kind /\ Repair(m)[i].calls = m[i].calls
             /\ Repair(m)[i].invalid = m[i].invalid /\ Repair(m)[i].made = Made(m, i)
 <2>1. m[i] \in Message BY <1>1
 <2>2. Repair(m)[i] = [m[i] EXCEPT !.made = Made(m, i)] /\ Made(m, i) \in Seq(Call) BY Repaired
 <2>. QED BY <2>1, <2>2 DEF Message
<1>4. Repair(m) \in [1..Len(m) -> Message] BY <1>2, <1>3
<1>. QED BY <1>1, <1>3, <1>4

\* A load leaves a conversation, with the messages that were written, and no answer
\* with an invalid call without results.
LEMMA RepairKeeps ==
    ASSUME NEW m, NEW n \in Nat, Conversation(m, n)
    PROVE  /\ Conversation(Repair(m), n) /\ Written(Repair(m)) = Written(m)
           /\ \A i \in 1..Len(Repair(m)) : Lacking(Repair(m), i) = <<>>
<1> DEFINE w == Repair(m)
<1>1. /\ w \in Seq(Message) /\ Len(w) = Len(m) /\ Len(m) \in Nat /\ m \in Seq(Message)
      /\ \A i \in 1..Len(m) :
            /\ w[i].kind = m[i].kind /\ w[i].calls = m[i].calls
            /\ w[i].invalid = m[i].invalid /\ w[i].made = Made(m, i)
  BY RepairedFields DEF Conversation
<1>2. \A i \in 1..Len(m) : w[i] = [m[i] EXCEPT !.made = Made(m, i)] BY Repaired
<1> HIDE DEF w
<1>3. \A i \in 1..Len(m) : Sound(m[i]) /\ m[i].kind \in {"user", "assistant", "results"}
  BY <1>1, MessageCalls DEF Conversation
<1>4. ASSUME NEW i \in 1..Len(m), i > 1
      PROVE  i - 1 \in 1..Len(m) /\ (i - 1) + 1 = i /\ i - 1 # Len(m) /\ Follows(m[i - 1], m[i])
 <2>1. i - 1 \in 1..Len(m) /\ (i - 1) + 1 = i /\ i - 1 # Len(m) /\ i # 1 BY <1>1, <1>4
 <2>2. Follows(m[i - 1], m[i]) BY <2>1 DEF Conversation
 <2>. QED BY <2>1, <2>2
<1>5. ASSUME NEW i \in 1..Len(m) PROVE Sound(w[i])
 <2>1. CASE m[i].kind = "assistant" BY <2>1, <1>1, <1>3 DEF Sound, Made, Bare
 <2>2. CASE m[i].kind = "user" BY <2>2, <1>1, <1>3 DEF Sound
 <2>3. CASE m[i].kind = "results"
  <3>1. ~(i > 1 /\ Bare(m, i - 1)) BY <2>3, <1>4 DEF Bare
  <3>2. w[i].made = m[i].made BY <3>1, <2>3, <1>1 DEF Made
  <3>. QED BY <3>2, <2>3, <1>1, <1>3 DEF Sound
 <2>. QED BY <2>1, <2>2, <2>3, <1>3
<1>6. ASSUME NEW i \in 1..Len(m), i > 1 PROVE Follows(w[i - 1], w[i])
 <2>1. i - 1 \in 1..Len(m) /\ (i - 1) + 1 = i /\ i - 1 # Len(m) /\ Follows(m[i - 1], m[i])
   BY <1>4, <1>6
 <2>2. m[i].kind # "assistant" /\ m[i - 1].kind = "assistant" => w[i - 1].made = m[i - 1].made
   BY <2>1, <1>1 DEF Made
 <2>3. CASE m[i].kind = "results" BY <2>1, <2>2, <2>3, <1>1 DEF Follows
 <2>4. CASE m[i].kind = "user" /\ Bare(m, i - 1)
  <3>1. m[i - 1].kind = "assistant" /\ m[i - 1].made = <<>> /\ m[i - 1].invalid # {}
    BY <2>1, <2>4, <1>3 DEF Bare, Sound
  <3>2. w[i].made = m[i - 1].calls BY <2>1, <2>4, <1>1, <1>6 DEF Made
  <3>. QED BY <3>1, <3>2, <2>1, <2>2, <2>4, <1>1 DEF Follows
 <2>5. CASE m[i].kind = "user" /\ ~Bare(m, i - 1)
  <3>1. w[i].made = m[i].made BY <2>5, <1>1 DEF Made
  <3>. QED BY <3>1, <2>1, <2>2, <2>5, <1>1 DEF Follows
 <2>6. CASE m[i].kind = "assistant" BY <2>6, <1>1 DEF Follows
 <2>. QED BY <2>3, <2>4, <2>5, <2>6, <1>3
<1>7. ASSUME NEW i \in 1..Len(m), i = 1 PROVE Begins(w[i])
 <2>1. Begins(m[i]) BY <1>7 DEF Conversation
 <2>2. m[i].kind # "assistant" => w[i].made = m[i].made BY <1>1, <1>7 DEF Made
 <2>. QED BY <2>1, <2>2, <1>1 DEF Begins
<1>8. Conversation(w, n)
 <2>1. \A i \in 1..Len(w) : IF i = 1 THEN Begins(w[i]) ELSE Follows(w[i - 1], w[i])
   BY <1>1, <1>6, <1>7
 <2>2. \A i \in 1..Len(w) : \A k \in 1..Len(w[i].calls) : w[i].calls[k][1] \in 1..n
   BY <1>1 DEF Conversation
 <2>3. ASSUME NEW i \in 1..Len(w), NEW j \in 1..Len(w), NEW k \in 1..Len(w[i].calls), NEW h \in 1..Len(w[j].calls),
              w[i].kind = "assistant", w[j].kind = "assistant", w[i].calls[k] = w[j].calls[h]
       PROVE  i = j
   BY ZenonT(40), <1>1, <2>3 DEF Conversation
 <2>. QED BY <2>1, <2>2, <2>3, <1>1, <1>5 DEF Conversation
<1>9. Written(w) = Written(m)
 <2>1. \A i \in 1..Len(m) : [w[i] EXCEPT !.made = <<>>] = [m[i] EXCEPT !.made = <<>>]
  <3> SUFFICES ASSUME NEW i \in 1..Len(m)
      PROVE  [w[i] EXCEPT !.made = <<>>] = [m[i] EXCEPT !.made = <<>>]
    OBVIOUS
  <3>1. m[i] \in Message BY <1>1
  <3>2. w[i] = [m[i] EXCEPT !.made = Made(m, i)] BY <1>2
  <3>. QED BY <3>1, <3>2 DEF Message
 <2>. QED BY <2>1, <1>1 DEF Written
<1>10. ASSUME NEW i \in 1..Len(w), Bare(w, i) PROVE FALSE
 <2>1. i \in 1..Len(m) /\ m[i].kind = "assistant" /\ m[i].invalid # {} /\ m[i].calls # <<>>
   BY <1>1, <1>3, <1>10 DEF Bare, Sound
 <2>2. w[i].made = <<>> /\ w[i].made = Made(m, i) BY <2>1, <1>1, <1>10 DEF Bare
 <2>3. i # Len(m) => i + 1 \in 1..Len(m) /\ i + 1 > 1 /\ (i + 1) - 1 = i BY <2>1, <1>1
 <2>4. CASE i = Len(m) \/ m[i + 1].kind = "assistant"
  <3>1. m[i].made = <<>> BY <2>1, <2>2 DEF Made
  <3>2. Bare(m, i) BY <3>1, <2>1, <2>4 DEF Bare
  <3>. QED BY <3>2, <2>1, <2>2, <2>4 DEF Made
 <2>5. CASE i # Len(m) /\ m[i + 1].kind # "assistant"
  <3>1. m[i].made = <<>> BY <2>1, <2>2, <2>5 DEF Made
  <3>2. m[i + 1].kind = "user" /\ w[i + 1].made = <<>> /\ w[i + 1].made = Made(m, i + 1)
    BY <2>3, <2>5, <1>1, <1>10 DEF Bare
  <3>3. CASE m[i + 1].made = <<>>
   <4>1. Bare(m, i) BY <3>1, <3>2, <3>3, <2>1 DEF Bare
   <4>2. Made(m, i + 1) = m[i].calls BY <4>1, <3>2, <2>3, <2>5 DEF Made
   <4>. QED BY <4>2, <3>2, <2>1
  <3>4. CASE m[i + 1].made # <<>>
   <4>1. ~Bare(m, i) BY <3>2, <3>4, <2>5 DEF Bare
   <4>2. Made(m, i + 1) = m[i + 1].made BY <4>1, <3>2, <2>3, <2>5 DEF Made
   <4>. QED BY <4>2, <3>2, <3>4
  <3>. QED BY <3>3, <3>4
 <2>. QED BY <2>4, <2>5
<1>11. \A i \in 1..Len(w) : Lacking(w, i) = <<>> BY <1>8, <1>10, LackingCalls
<1>. QED BY <1>8, <1>9, <1>11 DEF w

\* An answer whose tools have not run, or were interrupted, and which no load
\* has given results.
Interrupted(m, i) ==
  /\ m[i].kind = "assistant" /\ m[i].calls # <<>> /\ m[i].made = <<>>
  /\ i = Len(m) \/ m[i + 1].kind = "assistant" \/ (m[i + 1].kind = "user" /\ m[i + 1].made = <<>>)

\* The answer that a result of a conversation is for.
LEMMA ResultsAreOf ==
    ASSUME NEW m, NEW n \in Nat, Conversation(m, n), NEW i \in 1..Len(m), m[i].kind = "assistant",
           NEW k \in 1..Len(m[i].calls), NEW j \in i..Len(m), m[i].calls[k] \in ResultsOf(m[j])
    PROVE  \/ j = i /\ m[i].made # <<>>
           \/ j = i + 1 /\ (m[j].kind = "results" \/ (m[j].kind = "user" /\ m[j].made # <<>>))
<1>1. m \in Seq(Message) /\ Len(m) \in Nat /\ j \in 1..Len(m) /\ i \in Int /\ j \in Int
  BY DEF Conversation
<1>2. /\ m[j].kind \in {"user", "assistant", "results"} /\ Sound(m[j]) /\ m[j].made \in Seq(Call)
      /\ m[j].calls \in Seq(Call)
  BY <1>1, MessageCalls DEF Conversation
<1>3. ASSUME NEW p \in 1..Len(m), m[p].kind = "assistant", m[i].calls[k] \in Range(m[p].calls)
      PROVE  p = i
 <2>1. m[p].calls \in Seq(Call) BY <1>1, MessageCalls
 <2> DEFINE d == m[p].calls
            x == m[i].calls[k]
 <2>2. d \in Seq(Call) /\ x \in Range(d) BY <2>1, <1>3
 <2> HIDE DEF d, x
 <2>3. PICK h \in 1..Len(d) : x = d[h] BY SMTT(40), <2>2 DEF Range
 <2>4. h \in 1..Len(m[p].calls) /\ m[i].calls[k] = m[p].calls[h] BY <2>3 DEF d, x
 <2>. QED BY <2>4, <1>3 DEF Conversation
<1>4. CASE m[j].kind = "assistant"
 <2>1. m[j].made # <<>> /\ m[j].made = m[j].calls
  <3>1. m[i].calls[k] \in Range(m[j].made) BY <1>4 DEF ResultsOf
  <3>2. m[j].made # <<>> BY <3>1 DEF Range
  <3>. QED BY <3>2, <1>2, <1>4 DEF Sound
 <2>2. j = i BY <2>1, <1>1, <1>3, <1>4 DEF ResultsOf
 <2>. QED BY <2>1, <2>2
<1>5. CASE m[j].kind # "assistant"
 <2>1. m[j].kind = "results" \/ (m[j].kind = "user" /\ m[j].made # <<>>)
  <3>1. CASE m[j].kind = "user"
   <4>1. m[i].calls[k] \in Range(m[j].made) BY <3>1 DEF ResultsOf
   <4>2. m[j].made # <<>> BY <4>1 DEF Range
   <4>. QED BY <4>2, <3>1
  <3>. QED BY <3>1, <1>2, <1>5
 <2>2. j # 1 BY <2>1 DEF Conversation, Begins
 <2>3. j - 1 \in 1..Len(m) /\ Follows(m[j - 1], m[j])
  <3>1. j - 1 \in 1..Len(m) BY <2>2, <1>1
  <3>2. Follows(m[j - 1], m[j]) BY <2>2, <1>1 DEF Conversation
  <3>. QED BY <3>1, <3>2
 <2>4. m[j - 1].kind = "assistant" /\ m[i].calls[k] \in Range(m[j - 1].calls)
  <3>1. CASE m[j].kind = "results"
   <4>1. m[j].made = <<>> /\ Range(<<>>) = {} BY <3>1, <1>2 DEF Sound, Range
   <4>2. m[i].calls[k] \in Range(m[j].calls) BY <4>1, <3>1 DEF ResultsOf
   <4>. QED BY <4>2, <3>1, <2>3 DEF Follows
  <3>2. CASE m[j].kind = "user" /\ m[j].made # <<>>
   <4>1. m[i].calls[k] \in Range(m[j].made) BY <3>2 DEF ResultsOf
   <4>. QED BY <4>1, <3>2, <2>3 DEF Follows
  <3>. QED BY <3>1, <3>2, <2>1
 <2>5. j - 1 = i BY <2>3, <2>4, <1>3
 <2>. QED BY <2>1, <2>5, <1>1
<1>. QED BY <1>4, <1>5

\* All calls of an answer are missing results, or none.
LEMMA MissingCalls ==
    ASSUME NEW m, NEW n \in Nat, Conversation(m, n), NEW i \in 1..Len(m)
    PROVE  Missing(m, i) = IF Interrupted(m, i) THEN m[i].calls ELSE <<>>
<1>1. m \in Seq(Message) /\ m[i].calls \in Seq(Call) /\ Len(m) \in Nat /\ Sound(m[i]) /\ m[i].made \in Seq(Call)
  BY MessageCalls DEF Conversation
<1>2. CASE m[i].kind # "assistant" BY <1>2 DEF Missing, Interrupted
<1>3. CASE m[i].kind = "assistant"
 <2> DEFINE c == m[i].calls
            s == UNION {ResultsOf(m[j]) : j \in i..Len(m)}
 <2>0. Missing(m, i) = Without(c, s) BY <1>3 DEF Missing
 <2>1. CASE Interrupted(m, i)
  <3>1. ASSUME NEW x \in Range(c), NEW j \in i..Len(m), x \in ResultsOf(m[j]) PROVE FALSE
   <4>1. PICK k \in 1..Len(c) : x = c[k]
    <5> HIDE DEF c
    <5>. QED BY SMTT(40), <1>1, <3>1 DEF Range, c
   <4>2. \/ j = i /\ m[i].made # <<>>
         \/ j = i + 1 /\ (m[j].kind = "results" \/ (m[j].kind = "user" /\ m[j].made # <<>>))
    <5>1. m[i].calls[k] \in ResultsOf(m[j]) BY <4>1, <3>1
    <5>. QED BY <5>1, <4>1, <1>3, ResultsAreOf
   <4>3. i # Len(m) + 1 /\ j <= Len(m) /\ j \in Int /\ i \in Int BY <1>1
   <4>. QED BY <4>2, <4>3, <2>1, <1>1 DEF Interrupted
  <3>2. Range(c) \cap s = {} BY <3>1
  <3> HIDE DEF c, s
  <3>. QED BY <3>2, <2>0, <2>1, <1>1, WithoutAll DEF c
 <2>2. CASE ~Interrupted(m, i)
  <3>1. CASE c = <<>>
   <4>1. Range(c) \subseteq s BY <3>1 DEF Range
   <4> HIDE DEF c, s
   <4>. QED BY <4>1, <2>0, <2>2, <1>1, WithoutAll DEF c
  <3>2. CASE c # <<>>
   <4>1. PICK j \in i..Len(m) : Range(c) \subseteq ResultsOf(m[j])
    <5>1. CASE m[i].made # <<>>
     <6>1. i \in i..Len(m) /\ Range(c) \subseteq ResultsOf(m[i])
       BY <5>1, <1>1, <1>3 DEF Sound, ResultsOf
     <6>. QED BY <6>1
    <5>2. CASE m[i].made = <<>>
     <6>1. i + 1 \in i..Len(m) /\ i + 1 \in 1..Len(m) /\ i + 1 # 1 /\ (i + 1) - 1 = i
       BY <5>2, <3>2, <2>2, <1>1, <1>3 DEF Interrupted
     <6>2. Follows(m[i], m[i + 1])
      <7>1. Follows(m[(i + 1) - 1], m[i + 1]) BY <6>1 DEF Conversation
      <7>. QED BY <7>1, <6>1
     <6>3. m[i + 1].kind \in {"user", "assistant", "results"} BY <6>1, <1>1, MessageCalls
     <6>4. m[i + 1].kind = "results" \/ (m[i + 1].kind = "user" /\ m[i + 1].made # <<>>)
       BY <6>3, <5>2, <3>2, <2>2, <1>3 DEF Interrupted
     <6>5. Range(c) \subseteq ResultsOf(m[i + 1]) BY <6>2, <6>4 DEF Follows, ResultsOf
     <6>. QED BY <6>1, <6>5
    <5>. QED BY <5>1, <5>2
   <4>2. Range(c) \subseteq s BY <4>1
   <4> HIDE DEF c, s
   <4>. QED BY <4>2, <2>0, <2>2, <1>1, WithoutAll DEF c
  <3>. QED BY <3>1, <3>2
 <2>. QED BY <2>1, <2>2
<1>. QED BY <1>2, <1>3

\* Whatever was interrupted, the messages of a request are accepted.
LEMMA ContextWellFormed ==
    ASSUME NEW m, NEW n \in Nat, Conversation(m, n)
    PROVE  WellFormed(Context(m))
<1> DEFINE v == [i \in 1..Len(m) |-> [m[i] EXCEPT !.made = Missing(m, i) \o @]]
           Given(i) == IF Interrupted(m, i) THEN m[i].calls ELSE m[i].made
<1>0. Context(m) = Repair(v) BY DEF Context
<1>1. m \in Seq(Message) /\ Len(m) \in Nat BY DEF Conversation
<1>2. ASSUME NEW i \in 1..Len(m)
      PROVE  /\ m[i] \in Message /\ m[i].calls \in Seq(Call) /\ m[i].made \in Seq(Call)
             /\ m[i].kind \in {"user", "assistant", "results"} /\ Sound(m[i])
             /\ IF i = 1 THEN Begins(m[i]) ELSE Follows(m[i - 1], m[i])
  BY <1>1, MessageCalls DEF Conversation
<1>3. ASSUME NEW i \in 1..Len(m)
      PROVE  v[i] \in Message /\ v[i].kind = m[i].kind /\ v[i].calls = m[i].calls /\ v[i].invalid = m[i].invalid
             /\ v[i].made = Given(i)
 <2>1. Missing(m, i) = IF Interrupted(m, i) THEN m[i].calls ELSE <<>> BY MissingCalls
 <2>2. Missing(m, i) \o m[i].made = Given(i) /\ Given(i) \in Seq(Call)
  <3>1. CASE Interrupted(m, i)
   <4>1. m[i].calls \o <<>> = m[i].calls BY <1>2
   <4>. QED BY <4>1, <3>1, <2>1, <1>2 DEF Interrupted
  <3>2. CASE ~Interrupted(m, i)
   <4>1. <<>> \o m[i].made = m[i].made BY <1>2
   <4>. QED BY <4>1, <3>2, <2>1, <1>2
  <3>. QED BY <3>1, <3>2
 <2>3. v[i] = [m[i] EXCEPT !.made = Given(i)] BY <2>2
 <2> HIDE DEF v, Given
 <2>. QED BY <2>2, <2>3, <1>2 DEF Message
<1>4. Len(v) = Len(m) /\ DOMAIN v = 1..Len(m) BY <1>1
<1> HIDE DEF v
<1>5. ASSUME NEW i \in 1..Len(m), m[i].kind = "assistant" PROVE NextResults(v, i) = Range(m[i].calls)
 <2>0. v[i].made = Given(i) /\ Range(<<>>) = {} BY <1>3 DEF Range
 <2>1. CASE Given(i) # <<>>
  <3>1. Given(i) = m[i].calls BY <2>1, <1>2, <1>5 DEF Sound
  <3>. QED BY <3>1, <2>0, <2>1 DEF NextResults, Alone
 <2>2. CASE Given(i) = <<>> /\ (i = Len(m) \/ m[i + 1].kind = "assistant")
  <3>1. m[i].calls = <<>> BY <2>2, <1>5 DEF Interrupted
  <3>2. i # Len(m) => i + 1 \in 1..Len(m) BY <1>1
  <3>3. Alone(v, i) BY <3>2, <2>2, <1>3, <1>4 DEF Alone
  <3>. QED BY <3>1, <3>3, <2>0, <2>2 DEF NextResults
 <2>3. CASE Given(i) = <<>> /\ i # Len(m) /\ m[i + 1].kind # "assistant"
  <3>1. i + 1 \in 1..Len(m) /\ i + 1 # 1 /\ (i + 1) - 1 = i BY <2>3, <1>1
  <3>2. Follows(m[i], m[i + 1]) /\ Sound(m[i + 1]) /\ m[i + 1].kind \in {"user", "results"}
   <4>1. IF i + 1 = 1 THEN Begins(m[i + 1]) ELSE Follows(m[(i + 1) - 1], m[i + 1]) BY <3>1, <1>2
   <4>. QED BY <4>1, <3>1, <2>3, <1>2
  <3>3. v[i + 1].kind = m[i + 1].kind /\ v[i + 1].calls = m[i + 1].calls /\ v[i + 1].made = m[i + 1].made
    BY <3>1, <3>2, <1>3 DEF Interrupted
  <3>4. ~Alone(v, i) BY <3>3, <2>0, <2>3, <1>4 DEF Alone
  <3>5. NextResults(v, i) = ResultsOf(m[i + 1]) BY <3>3, <3>4 DEF NextResults, ResultsOf
  <3>a. m[i].made = <<>> BY <2>3 DEF Interrupted
  <3>6. CASE m[i + 1].kind = "results" BY <3>2, <3>5, <3>6, <2>0 DEF ResultsOf, Sound, Follows
  <3>7. CASE m[i + 1].kind = "user" /\ m[i + 1].made # <<>>
    BY <3>2, <3>5, <3>7 DEF ResultsOf, Follows
  <3>8. CASE m[i + 1].kind = "user" /\ m[i + 1].made = <<>>
   <4>1. m[i].calls = <<>> BY <3>8, <3>a, <2>3, <1>5 DEF Interrupted
   <4>. QED BY <4>1, <3>5, <3>8, <2>0 DEF ResultsOf
  <3>. QED BY <3>2, <3>6, <3>7, <3>8
 <2>. QED BY <2>1, <2>2, <2>3
<1>6. \A i \in 1..Len(m) : Lacking(v, i) = <<>>
 <2> SUFFICES ASSUME NEW i \in 1..Len(m) PROVE Lacking(v, i) = <<>>
   OBVIOUS
 <2>1. CASE m[i].invalid = {} BY <2>1, <1>3 DEF Lacking
 <2>2. CASE m[i].invalid # {}
  <3>1. m[i].kind = "assistant" /\ m[i].calls \in Seq(Call) BY <2>2, <1>2 DEF Sound
  <3>2. NextResults(v, i) = Range(m[i].calls) BY <3>1, <1>5
  <3>3. Without(m[i].calls, Range(m[i].calls)) = <<>> BY <3>1, WithoutAll
  <3>. QED BY <3>2, <3>3, <2>2, <1>3 DEF Lacking
 <2>. QED BY <2>1, <2>2
<1>7. Repair(v) = v
 <2>1. ASSUME NEW i \in 1..Len(m)
       PROVE  [v[i] EXCEPT !.made = (IF Alone(v, i) THEN Lacking(v, i) ELSE <<>>)
                                    \o (IF i > 1 /\ ~Alone(v, i - 1) THEN Lacking(v, i - 1) ELSE <<>>)
                                    \o @] = v[i]
  <3>1. (IF Alone(v, i) THEN Lacking(v, i) ELSE <<>>) = <<>> BY <1>6
  <3>2. (IF i > 1 /\ ~Alone(v, i - 1) THEN Lacking(v, i - 1) ELSE <<>>) = <<>>
   <4>1. i > 1 => i - 1 \in 1..Len(m) BY <1>1
   <4>. QED BY <4>1, <1>6
  <3>3. v[i].made \in Seq(Call) /\ v[i] \in Message
   <4>1. v[i] \in Message BY <1>3
   <4>. QED BY <4>1 DEF Message
  <3>4. <<>> \o <<>> \o v[i].made = v[i].made BY <3>3
  <3>5. [v[i] EXCEPT !.made = v[i].made] = v[i] BY <3>3 DEF Message
  <3>. QED BY <3>1, <3>2, <3>4, <3>5
 <2>2. v = [i \in 1..Len(m) |-> v[i]] BY DEF v
 <2>3. Repair(v) = [i \in 1..Len(m) |-> v[i]] BY <2>1, <1>4 DEF Repair
 <2>. QED BY <2>2, <2>3
<1>8. \A i \in 1..Len(v) : v[i].kind = "assistant" => NextResults(v, i) = Range(v[i].calls)
  BY <1>3, <1>4, <1>5
<1>9. ASSUME NEW i \in 1..Len(v), v[i].kind = "results" \/ (v[i].kind = "user" /\ v[i].made # <<>>)
      PROVE  i > 1 /\ v[i - 1].kind = "assistant" /\ v[i - 1].made = <<>>
 <2>0. i \in 1..Len(m) /\ v[i].kind = m[i].kind /\ v[i].made = Given(i) BY <1>3, <1>4
 <2>1. m[i].kind = "results" \/ (m[i].kind = "user" /\ m[i].made # <<>>)
   BY <2>0, <1>9 DEF Interrupted
 <2>2. i # 1 BY <2>0, <2>1, <1>2 DEF Begins
 <2>3. i - 1 \in 1..Len(m) /\ i > 1 /\ (i - 1) + 1 = i /\ i - 1 # Len(m) BY <2>0, <2>2, <1>1
 <2>4. Follows(m[i - 1], m[i]) BY <2>0, <2>2, <1>2
 <2>5. m[i - 1].kind = "assistant" /\ m[i - 1].made = <<>> BY <2>1, <2>4 DEF Follows
 <2>6. ~Interrupted(m, i - 1) BY <2>1, <2>3 DEF Interrupted
 <2>. QED BY <2>3, <2>5, <2>6, <1>3
<1>. QED BY <1>0, <1>7, <1>8, <1>9 DEF WellFormed

----------------------------------------
(* What the steps do to the sessions.                                      *)

\* The types of the local variables, and of what is neither local nor a
\* session.
LocalTypes ==
  /\ run \in Run
  /\ Len(run.tool) = Len(run.calls) /\ Len(run.results) = Len(run.calls)

OtherTypes ==
  /\ at \in Appending \cup AppendingOther \cup
            {"idle", "top", "summarize", "stream", "tools", "boundary", "settle",
             "ending", "down"}
  /\ model \in Model /\ pendingSwitch \in Model \cup {NoModel}
  /\ ran \subseteq Call
  /\ answers \in Nat /\ ops \in Nat /\ failures \in Nat /\ crashes \in Nat

\* All that the invariant says of the sessions.
Sessions ==
  /\ log \in Seq(LogRecord) /\ other \in Seq(LogRecord) /\ messages \in Seq(Message)
  /\ SessionsInv

\* The invariant in the parts that the steps keep separately.
LEMMA InvParts == IInv <=> LocalTypes /\ OtherTypes /\ Sessions /\ TurnInv /\ CallsInv /\ AnswerInv
  BY DEF IInv, TypeOK, LocalTypes, OtherTypes, Sessions

\* Nothing is appended.
LEMMA SessionsStay ==
    ASSUME Sessions, UNCHANGED <<conversation, answers>>, at # "down", at' # "answer"
    PROVE  Sessions'
  BY DEF Sessions, SessionsInv, conversation

\* The record about to be appended leads to a conversation, in memory and in the
\* session, the same but for what was made up.
LEMMA PendingIsRecord ==
    ASSUME IInv, at \in Appending
    PROVE  /\ Pending \in LogRecord /\ log \in Seq(LogRecord)
           /\ \A m \in {messages, Replay(log)} : Conversation(ReplayRecord(m, Pending), answers)
           /\ Written(ReplayRecord(messages, Pending)) = Written(ReplayRecord(Replay(log), Pending))
<1>1. LocalTypes /\ OtherTypes /\ Sessions /\ TurnInv /\ CallsInv /\ AnswerInv BY InvParts
<1>2. /\ log \in Seq(LogRecord) /\ messages \in Seq(Message) /\ answers \in Nat
      /\ \A m \in {messages, Replay(log)} : Conversation(m, answers) /\ m \in Seq(Message)
      /\ Written(messages) = Written(Replay(log))
  BY <1>1, ReplayType DEF Sessions, SessionsInv, Appending, OtherTypes
<1> DEFINE Good == /\ Pending \in LogRecord
                   /\ \A m \in {messages, Replay(log)} : Conversation(ReplayRecord(m, Pending), answers)
                   /\ Written(ReplayRecord(messages, Pending)) = Written(ReplayRecord(Replay(log), Pending))
<1>3. ASSUME NEW x \in Message, Pending = Rec("message", <<x>>),
             \A m \in {messages, Replay(log)} : Conversation(Append(m, x), answers)
      PROVE  Good
 <2>1. \A m \in {messages, Replay(log)} : ReplayRecord(m, Pending) = Append(m, x)
   BY <1>2, <1>3, RecordOfOne
 <2>2. Written(Append(messages, x)) = Written(Append(Replay(log), x)) BY <1>2, WrittenAppended
 <2>3. Pending \in LogRecord BY <1>2, <1>3, RecordOfOne
 <2>. QED BY <2>1, <2>2, <2>3, <1>3
<1>a. SUFFICES Good BY <1>2
<1> HIDE DEF Good
<1>4. CASE at \in {"prompt", "queued"}
 <2>1. Pending = Rec("message", <<User>>) BY <1>4 DEF Pending
 <2>2. ASSUME NEW m \in {messages, Replay(log)} PROVE Conversation(Append(m, User), answers)
  <3>1. m # <<>> => Follows(m[Len(m)], User) BY UserIsMessage DEF Follows
  <3>2. User \in Message /\ Sound(User) /\ Begins(User) /\ Len(User.calls) = 0 /\ User.kind # "assistant"
    BY UserIsMessage
  <3>. QED BY <3>1, <3>2, <1>2, MessageAppended
 <2>. QED BY <2>1, <2>2, <1>3, UserIsMessage
<1>5. CASE at = "answer"
 <2> DEFINE x == Answer(run.calls, run.invalid)
 <2>1. Pending = Rec("message", <<x>>) BY <1>5 DEF Pending
 <2>2. /\ run.calls \in Seq(Call) /\ run.invalid \in SUBSET Call
       /\ \A i \in 1..Len(run.calls) : run.calls[i] = <<answers, i>>
       /\ run.invalid # {} => Len(run.calls) > 0
   BY <1>1 DEF LocalTypes, Run, CallsInv
 <2>3. x \in Message /\ x.kind = "assistant" /\ x.calls = run.calls /\ x.invalid = run.invalid /\ x.made = <<>>
   BY <2>2, AnswerIsMessage
 <2>4. Sound(x) /\ Begins(x) /\ \A y : Follows(y, x) BY <2>2, <2>3 DEF Sound, Begins, Follows
 <2> HIDE DEF x
 <2>5. ASSUME NEW m \in {messages, Replay(log)} PROVE Conversation(Append(m, x), answers)
  <3>1. answers \in Nat \ {0} /\ Conversation(m, answers - 1)
    BY <1>1, <1>2, <1>5 DEF Sessions, SessionsInv
  <3>2. answers - 1 \in Nat /\ answers - 1 <= answers BY <3>1
  <3>3. ASSUME NEW k \in 1..Len(x.calls)
        PROVE  x.calls[k][1] \in 1..answers /\ x.calls[k][1] \notin 1..(answers - 1)
   <4>1. x.calls[k][1] = answers BY <2>2, <2>3
   <4>. QED BY <4>1, <3>1
  <3>4. Begins(x) /\ Follows(m[Len(m)], x) BY <2>4
  <3>. QED BY <3>1, <3>2, <3>3, <3>4, <2>3, <2>4, <1>2, MessageAppended
 <2>. QED BY <2>1, <2>3, <2>5, <1>3
<1>6. CASE at = "results"
 <2> DEFINE x == Results(run.calls)
 <2>1. Pending = Rec("message", <<x>>) BY <1>6, <1>1 DEF Pending, AnswerInv
 <2>2. run.calls \in Seq(Call) /\ run.invalid \in SUBSET Call BY <1>1 DEF LocalTypes, Run
 <2>3. x \in Message /\ x.kind = "results" /\ x.calls = run.calls /\ Sound(x)
   BY <2>2, ResultsAreMessage
 <2> HIDE DEF x
 <2>4. ASSUME NEW m \in {messages, Replay(log)} PROVE Conversation(Append(m, x), answers)
  <3>1. m # <<>> /\ m[Len(m)] = Answer(run.calls, run.invalid) /\ Conversation(m, answers) /\ m \in Seq(Message)
    BY <1>1, <1>2, <1>6 DEF AnswerInv
  <3>2. m[Len(m)].kind = "assistant" /\ m[Len(m)].calls = run.calls /\ m[Len(m)].made = <<>>
    BY <3>1, <2>2, AnswerIsMessage
  <3>3. Follows(m[Len(m)], x) BY <3>2, <2>3 DEF Follows
  <3>4. ASSUME NEW k \in 1..Len(x.calls) PROVE x.calls[k][1] \in 1..answers
   <4>1. Len(m) \in 1..Len(m) /\ k \in 1..Len(m[Len(m)].calls) /\ x.calls[k] = m[Len(m)].calls[k]
     BY <3>1, <3>2, <2>3
   <4>. QED BY <4>1, <3>1 DEF Conversation
  <3>5. x.kind # "assistant" /\ answers <= answers /\ (m = <<>> => Begins(x)) BY <2>3, <3>1, <1>2
  <3>. QED BY <3>1, <3>3, <3>4, <3>5, <2>3, <1>2, MessageAppended
 <2>. QED BY <2>1, <2>3, <2>4, <1>3
<1>7. CASE at = "compactSave"
 <2> DEFINE w == <<User>> \o SubSeq(messages, run.split, Len(messages))
 <2>1. Pending = Rec("compaction", w) BY <1>7 DEF Pending
 <2>2. run.split \in Splits(messages) BY <1>1, <1>7 DEF TurnInv, Compacting
 <2>3. Conversation(w, answers) BY <2>2, <1>2, Compacted
 <2> HIDE DEF w
 <2>4. w \in Seq(Message) BY <2>3 DEF Conversation
 <2>5. \A m : ReplayRecord(m, Pending) = w BY <2>1 DEF Rec, ReplayRecord
 <2>6. Pending \in LogRecord BY <2>1, <2>4 DEF Rec, LogRecord
 <2>. QED BY <2>3, <2>5, <2>6 DEF Good
<1>8. CASE at = "reset"
 <2>1. Pending = Rec("reset", <<>>) BY <1>8 DEF Pending
 <2>2. \A m : ReplayRecord(m, Pending) = <<>> BY <2>1 DEF Rec, ReplayRecord
 <2>3. Pending \in LogRecord BY <2>1 DEF Rec, LogRecord
 <2>. QED BY <2>2, <2>3, <1>2, NoMessages DEF Good
<1>. QED BY <1>4, <1>5, <1>6, <1>7, <1>8 DEF Appending

\* It is appended to the session.
LEMMA RecordAppended ==
    ASSUME IInv, at \in Appending, log' = Append(log, Pending), UNCHANGED <<other, answers>>
    PROVE  /\ log' \in Seq(LogRecord) /\ other' \in Seq(LogRecord)
           /\ Replay(log') = ReplayRecord(Replay(log), Pending)
           /\ \A m \in {Replay(log'), Replay(other')} : Conversation(m, answers')
<1>1. log' \in Seq(LogRecord) BY PendingIsRecord
<1>2. Replay(log') = ReplayRecord(Replay(log), Pending) BY PendingIsRecord, ReplayAppended
<1>3. other' \in Seq(LogRecord) /\ Conversation(Replay(other'), answers')
  BY DEF IInv, TypeOK, SessionsInv
<1>. QED BY <1>1, <1>2, <1>3, PendingIsRecord

\* And then memory changes.
LEMMA SessionsSaved ==
    ASSUME IInv, at \in Appending, Save, UNCHANGED answers, at' # "answer"
    PROVE  Sessions'
<1>1. log' = Append(log, Pending) /\ messages' = ReplayRecord(messages, Pending) /\ UNCHANGED other
  BY DEF Save
<1>2. /\ log' \in Seq(LogRecord) /\ other' \in Seq(LogRecord)
      /\ Replay(log') = ReplayRecord(Replay(log), Pending)
      /\ \A m \in {Replay(log'), Replay(other')} : Conversation(m, answers')
  BY <1>1, RecordAppended
<1>3. Conversation(messages', answers') /\ Written(messages') = Written(Replay(log'))
  BY <1>1, <1>2, PendingIsRecord
<1>4. messages' \in Seq(Message) BY <1>3 DEF Conversation
<1>. QED BY <1>2, <1>3, <1>4 DEF Sessions, SessionsInv

----------------------------------------
(* What the steps do to the local variables.                               *)

\* The same of the next state.
LEMMA InvPartsNext == IInv' <=> LocalTypes' /\ OtherTypes' /\ Sessions' /\ TurnInv' /\ CallsInv' /\ AnswerInv'
  BY DEF IInv, TypeOK, LocalTypes, OtherTypes, Sessions

\* They stay, or those of the calls do.
LEMMA RunStays ==
    ASSUME LocalTypes, CallsInv, UNCHANGED <<run, history>>
    PROVE  LocalTypes' /\ CallsInv'
  BY DEF LocalTypes, CallsInv, history

\* What holds of the calls stays as long as they and their results do.
LEMMA CallsStay ==
    ASSUME CallsInv, UNCHANGED history, run'.calls = run.calls, run'.tool = run.tool, run'.invalid = run.invalid
    PROVE  CallsInv'
  BY DEF CallsInv, history

\* The fields that a turn sets before its answer arrives.
LEMMA RunEdited ==
    ASSUME Parameters, LocalTypes, NEW s \in Nat, NEW b \in BOOLEAN, NEW k \in 0..MaxAttempts,
           NEW t \in SUBSET (1..MaxAttempts),
           run' = [run EXCEPT !.split = s, !.auto = b, !.attempt = k, !.shown = t]
    PROVE  /\ LocalTypes' /\ run'.turn = run.turn /\ run'.attempt = k /\ run'.split = s
           /\ run'.calls = run.calls /\ run'.invalid = run.invalid
           /\ run'.tool = run.tool /\ run'.results = run.results
<1>1. run' \in Run BY DEF LocalTypes, Run, Parameters
<1>2. /\ run'.turn = run.turn /\ run'.attempt = k /\ run'.split = s
      /\ run'.calls = run.calls /\ run'.invalid = run.invalid
      /\ run'.tool = run.tool /\ run'.results = run.results
  BY DEF LocalTypes, Run
<1>. QED BY <1>1, <1>2 DEF LocalTypes

\* They are reset, but for the turn and what a compaction needs.
LEMMA RunReset ==
    ASSUME Parameters, CallsInv, UNCHANGED history, NEW t \in 0..MaxTurns, NEW k \in 0..MaxAttempts,
           NEW s \in Nat, run' = [NoRun EXCEPT !.turn = t, !.attempt = k, !.split = s]
    PROVE  LocalTypes' /\ CallsInv' /\ run'.turn = t /\ run'.attempt = k /\ run'.split = s
<1>1. NoRun \in Run /\ NoRun.calls = <<>> /\ NoRun.invalid = {} /\ NoRun.tool = <<>> /\ NoRun.results = <<>>
  BY DEF NoRun, Run, Parameters
<1>2. run' \in Run BY <1>1 DEF Run, Parameters
<1>3. /\ run'.calls = <<>> /\ run'.invalid = {} /\ run'.tool = <<>> /\ run'.results = <<>>
      /\ run'.turn = t /\ run'.attempt = k /\ run'.split = s
  BY <1>1 DEF Run
<1>4. Len(run'.calls) = 0 /\ run'.invalid = {} BY <1>3
<1>5. CallsInv' BY <1>4 DEF CallsInv, history
<1>. QED BY <1>2, <1>3, <1>5 DEF LocalTypes

\* NoRun resets all.
LEMMA RunGone ==
    ASSUME Parameters, CallsInv, UNCHANGED history, run' = NoRun
    PROVE  LocalTypes' /\ CallsInv' /\ run'.turn = 0
<1>1. NoRun \in Run /\ NoRun.turn = 0 /\ NoRun.attempt = 0 /\ NoRun.split = 0
  BY DEF NoRun, Run, Parameters
<1>2. run' = [NoRun EXCEPT !.turn = 0, !.attempt = 0, !.split = 0] BY <1>1 DEF Run
<1>3. 0 \in 0..MaxTurns /\ 0 \in 0..MaxAttempts /\ 0 \in Nat BY DEF Parameters
<1>. QED BY <1>2, <1>3, RunReset

----------------------------------------
(* The steps of a prompt.                                                  *)

\* A goroutine that only moves on.
LEMMA Moves ==
    ASSUME IInv, UNCHANGED <<run, history, conversation>>, at # "down", at' # "answer",
           OtherTypes', TurnInv', AnswerInv'
    PROVE  IInv'
<1>1. LocalTypes' /\ CallsInv' BY InvParts, RunStays
<1>2. Sessions' BY InvParts, SessionsStay DEF history
<1>. QED BY <1>1, <1>2, InvPartsNext

\* The steps of runPrompt, from the message of the user to the end of a turn.
LEMMA PromptStepKeeps ==
    ASSUME Parameters, IInv, PromptStep
    PROVE  IInv'
<1> USE DEF Goto, Appending, AppendingOther, Local
<1>0. LocalTypes /\ OtherTypes /\ Sessions /\ TurnInv /\ CallsInv /\ AnswerInv BY InvParts
<1>1. CASE AppendPrompt \/ AppendQueued
 <2>1. UNCHANGED <<run, models, history, bounds>> /\ at' \in {"queued", "top"} /\ Save /\ at \in {"prompt", "queued"}
   BY <1>1 DEF AppendPrompt, AppendQueued, Save
 <2>2. Sessions' BY <2>1, SessionsSaved DEF history
 <2>3. OtherTypes' /\ TurnInv' /\ AnswerInv'
   BY <2>1, <1>0 DEF OtherTypes, TurnInv, AnswerInv, Compacting, models, history, bounds
 <2>. QED BY <1>0, <2>1, <2>2, <2>3, RunStays, InvPartsNext
<1>2. CASE PromptFails \/ AnswerFails \/ UsageFails
 <2>1. UNCHANGED <<run, models, history, conversation>> /\ at' = "ending" /\ at # "down"
       /\ failures' = failures + 1 /\ UNCHANGED <<ops, crashes>>
   BY <1>2 DEF PromptFails, AnswerFails, UsageFails, SaveFails
 <2>2. OtherTypes' /\ TurnInv' /\ AnswerInv'
   BY <2>1, <1>0 DEF OtherTypes, TurnInv, AnswerInv, Compacting, models, history
 <2>. QED BY <2>1, <2>2, Moves
<1>3. CASE TurnLimit \/ HookStops \/ Settle \/ ToolsDone
 <2>1. UNCHANGED <<run, models, history, conversation, bounds>> /\ at # "down"
       /\ at' \in {"queued", "ending", "results"} /\ (at' = "results" => ToolsDone)
   BY <1>3 DEF TurnLimit, HookStops, Settle, ToolsDone
 <2>2. OtherTypes' /\ TurnInv'
   BY <2>1, <1>0 DEF OtherTypes, TurnInv, Compacting, models, history, bounds, ToolsDone
 <2>3. CASE at' = "results"
  <3>1. at = "tools" /\ \A i \in 1..Len(run.calls) : run.results[i] = run.calls[i]
    BY <2>1, <2>3, <1>0 DEF ToolsDone, AnswerInv
  <3>2. run.results = run.calls BY <3>1, <1>0 DEF LocalTypes, Run
  <3>3. AnswerInv' BY <2>1, <2>3, <3>1, <3>2, <1>0 DEF AnswerInv, conversation
  <3>. QED BY <2>1, <2>2, <3>3, Moves
 <2>4. CASE at' # "results"
  <3>1. AnswerInv' BY <2>1, <2>4 DEF AnswerInv
  <3>. QED BY <2>1, <2>2, <3>1, Moves
 <2>. QED BY <2>3, <2>4
<1>4. CASE AutoCompact
 <2>1. PICK i \in Splits(messages) : run' = [run EXCEPT !.split = i, !.auto = TRUE, !.attempt = 1]
   BY <1>4 DEF AutoCompact
 <2>2. at = "top" /\ run.turn < MaxTurns /\ at' \in {"summarize", "compactSave"}
       /\ UNCHANGED <<conversation, models, history, bounds>>
   BY <1>4 DEF AutoCompact
 <2>3. i \in Nat BY <1>0 DEF Splits, Sessions
 <2>b. run \in Run /\ run.shown \in SUBSET (1..MaxAttempts) /\ 1 \in 0..MaxAttempts
   BY <1>0 DEF LocalTypes, Run, Parameters
 <2>c. PICK k \in 0..MaxAttempts : k = 1 BY <2>b
 <2>a. run' = [run EXCEPT !.split = i, !.auto = TRUE, !.attempt = k, !.shown = run.shown]
   BY <2>1, <2>b, <2>c DEF Run
 <2>4. LocalTypes' /\ run'.turn = run.turn /\ run'.attempt = 1 /\ run'.split = i
       /\ run'.calls = run.calls /\ run'.invalid = run.invalid /\ run'.tool = run.tool /\ run'.results = run.results
   BY <2>a, <2>b, <2>c, <2>3, <1>0, RunEdited
 <2>5. OtherTypes' /\ TurnInv' /\ AnswerInv'
   BY <2>1, <2>2, <2>4, <1>0 DEF OtherTypes, TurnInv, AnswerInv, Compacting, models, history, bounds, conversation
 <2>. QED BY <1>0, <2>2, <2>4, <2>5, CallsStay, SessionsStay, InvPartsNext DEF history
<1>5. CASE SendRequest \/ StreamDelta \/ StreamRetry
 <2>1. /\ UNCHANGED <<conversation, models, history, bounds>>
       /\ at \in {"top", "stream", "summarize"} /\ at' \in {"stream", "summarize"}
       /\ at' = "summarize" => at = "summarize"
       /\ at = "top" => run.turn < MaxTurns
   BY <1>5 DEF SendRequest, StreamDelta, StreamRetry
 <2>2. run \in Run /\ run.shown \in SUBSET (1..MaxAttempts) /\ run.attempt \in 0..MaxAttempts
       /\ run.split \in Nat /\ run.auto \in BOOLEAN /\ 1 \in 0..MaxAttempts /\ MaxAttempts \in Nat
   BY <1>0 DEF LocalTypes, Run, Parameters
 <2>3. LocalTypes' /\ run'.turn = run.turn /\ run'.attempt > 0 /\ run'.split = run.split
       /\ run'.calls = run.calls /\ run'.invalid = run.invalid /\ run'.tool = run.tool /\ run'.results = run.results
  <3>1. CASE SendRequest
   <4>0. PICK k \in 0..MaxAttempts : k = 1 BY <2>2
   <4>1. run' = [run EXCEPT !.split = run.split, !.auto = run.auto, !.attempt = k, !.shown = run.shown]
     BY <3>1, <4>0, <2>2 DEF SendRequest, Run
   <4>2. k > 0 BY <4>0
   <4>. QED BY ZenonT(40), <4>1, <4>2, <2>2, <1>0, RunEdited
  <3>2. CASE StreamDelta
   <4> DEFINE t == run.shown \cup {run.attempt}
   <4>1. run' = [run EXCEPT !.split = run.split, !.auto = run.auto, !.attempt = run.attempt, !.shown = t]
     BY <3>2, <2>2 DEF StreamDelta, Run
   <4>2. run.attempt > 0 BY <3>2, <1>0 DEF StreamDelta, TurnInv
   <4>3. t \in SUBSET (1..MaxAttempts) BY <4>2, <2>2
   <4> HIDE DEF t
   <4>. QED BY ZenonT(40), <4>1, <4>2, <4>3, <2>2, <1>0, RunEdited
  <3>3. CASE StreamRetry
   <4>0. PICK k \in Nat : k = run.attempt + 1 BY <2>2
   <4>1. run' = [run EXCEPT !.split = run.split, !.auto = run.auto, !.attempt = k, !.shown = run.shown]
     BY <3>3, <4>0, <2>2 DEF StreamRetry, Run
   <4>2. k \in 0..MaxAttempts /\ k > 0 BY <3>3, <4>0, <2>2 DEF StreamRetry
   <4>. QED BY ZenonT(40), <4>1, <4>2, <2>2, <1>0, RunEdited
  <3>. QED BY <1>5, <3>1, <3>2, <3>3
 <2>4. OtherTypes' BY <2>1, <1>0 DEF OtherTypes, models, history, bounds
 <2>5. AnswerInv' BY <2>1 DEF AnswerInv
 <2>6. run'.turn < MaxTurns BY <2>1, <2>3, <1>0 DEF TurnInv, Compacting
 <2>8. at' = "summarize" => run'.split \in Splits(messages')
   BY <2>1, <2>3, <1>0 DEF TurnInv, Compacting, conversation
 <2>7. TurnInv' BY <2>1, <2>3, <2>6, <2>8 DEF TurnInv, Compacting
 <2>. QED BY <1>0, <2>1, <2>3, <2>4, <2>5, <2>7, CallsStay, SessionsStay, InvPartsNext DEF history
<1>6. CASE StreamFails
 <2>1. /\ UNCHANGED <<conversation, models, history, bounds>> /\ at # "down" /\ at' \in {"ending", "idle"}
       /\ run' = run \/ run' = NoRun
   BY <1>6 DEF StreamFails
 <2>2. OtherTypes' /\ TurnInv' /\ AnswerInv'
   BY <2>1, <1>0 DEF OtherTypes, TurnInv, AnswerInv, Compacting, models, history, bounds, conversation
 <2>3. LocalTypes' /\ CallsInv' BY <2>1, <1>0, RunStays, RunGone
 <2>. QED BY <1>0, <2>1, <2>2, <2>3, SessionsStay, InvPartsNext DEF history
<1>7. CASE StreamDone
 <2>0. answers \in Nat /\ ran \subseteq Call /\ run \in Run /\ MaxCalls \in Nat /\ 0 \in 0..MaxAttempts
   BY <1>0 DEF OtherTypes, LocalTypes, Parameters
 <2>1. at = "stream" /\ at' = "answer" /\ answers' = answers + 1
       /\ UNCHANGED <<conversation, models, ran, bounds>>
   BY SMTT(40), <1>7 DEF StreamDone
 <2>b. PICK n \in 0..MaxCalls : \E bad \in SUBSET (1..n) :
         run' = [run EXCEPT !.attempt = 0, !.shown = {},
                            !.calls = [i \in 1..n |-> <<answers + 1, i>>],
                            !.invalid = {<<answers + 1, i>> : i \in bad},
                            !.tool = [i \in 1..n |-> "ready"],
                            !.results = [i \in 1..n |-> NoCall]]
   BY <1>7 DEF StreamDone
 <2>2. PICK bad \in SUBSET (1..n) :
         run' = [run EXCEPT !.attempt = 0, !.shown = {},
                            !.calls = [i \in 1..n |-> <<answers + 1, i>>],
                            !.invalid = {<<answers + 1, i>> : i \in bad},
                            !.tool = [i \in 1..n |-> "ready"],
                            !.results = [i \in 1..n |-> NoCall]]
   BY <2>b
 <2> DEFINE c == [i \in 1..n |-> <<answers + 1, i>>]
            v == {<<answers + 1, i>> : i \in bad}
            t == [i \in 1..n |-> "ready"]
            r == [i \in 1..n |-> NoCall]
 <2>3. n \in Nat /\ c \in Seq(Call) /\ Len(c) = n /\ t \in Seq({"ready", "running", "done"}) /\ Len(t) = n
       /\ r \in Seq(Call) /\ Len(r) = n /\ \A i \in 1..n : c[i] = <<answers + 1, i>> /\ c[i][1] = answers + 1
   BY <2>0 DEF Call, NoCall
 <2>a. v \in SUBSET Call /\ (v # {} => n > 0) BY <2>0, <2>3 DEF Call
 <2> HIDE DEF c, t, r, v
 <2>4. run' = [run EXCEPT !.attempt = 0, !.shown = {}, !.calls = c, !.invalid = v, !.tool = t, !.results = r]
   BY <2>2 DEF c, t, r, v
 <2>5. run' \in Run BY <2>0, <2>3, <2>a, <2>4 DEF Run
 <2>6. run'.calls = c /\ run'.invalid = v /\ run'.tool = t /\ run'.results = r /\ run'.turn = run.turn
   BY <2>0, <2>4 DEF Run
 <2>7. LocalTypes' /\ OtherTypes'
   BY <1>0, <2>1, <2>3, <2>5, <2>6 DEF LocalTypes, OtherTypes, models, bounds
 <2>8. TurnInv' /\ AnswerInv' BY <1>0, <2>1, <2>3, <2>6 DEF TurnInv, AnswerInv, Compacting, t
 <2>9. CallsInv'
  <3>1. \A d \in ran : d[1] \in Nat /\ d[1] <= answers BY <1>0, <2>0 DEF CallsInv, Call
  <3>2. \A i \in 1..n : c[i] \notin ran BY <2>0, <2>3, <3>1
  <3>. QED BY <2>0, <2>1, <2>3, <2>a, <2>6, <3>1, <3>2 DEF CallsInv
 <2>10. Sessions'
  <3>1. \A m \in {messages, Replay(log), Replay(other)} : Conversation(m, answers)
    BY <1>0 DEF Sessions, SessionsInv
  <3>2. answers' - 1 = answers /\ answers' > 0 /\ answers' \in Nat /\ answers <= answers'
    BY <2>0, <2>1
  <3>3. \A m \in {messages, Replay(log), Replay(other)} : Conversation(m, answers')
    BY <3>1, <3>2, <2>0, MoreAnswers
  <3>. QED BY <1>0, <2>1, <3>1, <3>2, <3>3 DEF Sessions, SessionsInv, conversation
 <2>. QED BY <2>7, <2>8, <2>9, <2>10, InvPartsNext
<1>8. CASE AppendAnswer
 <2>1. at = "answer" /\ Save /\ UNCHANGED <<run, models, history, bounds>> /\ at' \in {"usage", "tools"}
   BY <1>8 DEF AppendAnswer, Save
 <2>2. Sessions' BY <2>1, SessionsSaved DEF history
 <2>3. OtherTypes' /\ TurnInv'
   BY <2>1, <1>0 DEF OtherTypes, TurnInv, Compacting, models, history, bounds
 <2>4. AnswerInv'
  <3>1. CASE at' = "tools"
   <4> DEFINE x == Answer(run.calls, run.invalid)
   <4>1. Pending = Rec("message", <<x>>) BY <2>1 DEF Pending
   <4>2. x \in Message BY <1>0, AnswerIsMessage DEF LocalTypes, Run
   <4>3. log' = Append(log, Pending) /\ messages' = ReplayRecord(messages, Pending) BY <2>1 DEF Save
   <4>a. Replay(log') = ReplayRecord(Replay(log), Pending) /\ log \in Seq(LogRecord) /\ Pending \in LogRecord
     BY <2>1, <4>3, PendingIsRecord, RecordAppended DEF Save, history
   <4> HIDE DEF x
   <4>4. messages \in Seq(Message) /\ Replay(log) \in Seq(Message) BY <1>0, ReplayType DEF Sessions
   <4>5. messages' = Append(messages, x) /\ Replay(log') = Append(Replay(log), x)
     BY <4>1, <4>2, <4>3, <4>a, <4>4, RecordOfOne
   <4>6. \A m \in {messages', Replay(log')} : m # <<>> /\ m[Len(m)] = x BY <4>2, <4>4, <4>5
   <4>7. Len(log') \in 1..Len(log') /\ log'[Len(log')] = Pending BY <4>3, <4>a
   <4>8. x \in Range(Pending.messages) BY <4>1 DEF Rec, Range
   <4>9. \A i \in 1..Len(run.calls) : run.tool[i] # "done" BY <2>1, <1>0 DEF AnswerInv
   <4>. QED BY <2>1, <3>1, <4>6, <4>7, <4>8, <4>9 DEF AnswerInv, x
  <3>2. CASE at' = "usage" BY <3>2 DEF AnswerInv
  <3>. QED BY <2>1, <3>1, <3>2
 <2>. QED BY <1>0, <2>1, <2>2, <2>3, <2>4, RunStays, InvPartsNext
<1>9. CASE AppendResults
 <2>1. at = "results" /\ Save /\ UNCHANGED <<run, models, history, bounds>> /\ at' \in {"usage", "switch"}
       /\ (at' = "switch" => pendingSwitch # NoModel)
   BY <1>9 DEF AppendResults, Save
 <2>2. Sessions' BY <2>1, SessionsSaved DEF history
 <2>3. OtherTypes' /\ TurnInv' /\ AnswerInv'
   BY <2>1, <1>0 DEF OtherTypes, TurnInv, AnswerInv, Compacting, models, history, bounds
 <2>. QED BY <1>0, <2>1, <2>2, <2>3, RunStays, InvPartsNext
<1>10. CASE ResultsFail \/ SwitchFails
 <2>1. /\ UNCHANGED <<conversation, history, model, ops, crashes>> /\ failures' = failures + 1 /\ at' = "usage"
       /\ at \in {"results", "switch"} /\ run' = [run EXCEPT !.failed = TRUE]
       /\ pendingSwitch' \in {pendingSwitch, NoModel}
   BY <1>10 DEF ResultsFail, SwitchFails, SaveFails, models
 <2>2. run' \in Run /\ run'.calls = run.calls /\ run'.invalid = run.invalid /\ run'.tool = run.tool /\ run'.results = run.results /\ run'.turn = run.turn
   BY <2>1, <1>0 DEF LocalTypes, Run
 <2>3. LocalTypes' /\ OtherTypes' BY <2>1, <2>2, <1>0 DEF LocalTypes, OtherTypes, history
 <2>4. TurnInv' /\ AnswerInv' BY <2>1, <2>2, <1>0 DEF TurnInv, AnswerInv, Compacting
 <2>. QED BY <1>0, <2>1, <2>2, <2>3, <2>4, CallsStay, SessionsStay, InvPartsNext DEF history
<1>11. CASE ApplySwitch \/ AppendTurnUsage
 <2>1. UNCHANGED <<run, history, bounds, conversation>> /\ at \in {"switch", "usage"}
       /\ at' \in {"usage", "boundary", "ending"}
   BY <1>11 DEF ApplySwitch, AppendTurnUsage, SaveOther
 <2>2. model' \in Model /\ pendingSwitch' \in Model \cup {NoModel}
   BY <1>11, <1>0 DEF ApplySwitch, AppendTurnUsage, OtherTypes, TurnInv, models
 <2>3. OtherTypes' /\ TurnInv' /\ AnswerInv'
   BY <2>1, <2>2, <1>0 DEF OtherTypes, TurnInv, AnswerInv, Compacting, history, bounds
 <2>. QED BY <2>1, <2>3, Moves
<1>12. CASE TurnBoundary
 <2>1. /\ UNCHANGED <<conversation, models, history, bounds>> /\ at = "boundary" /\ at' \in {"queued", "top", "settle"}
       /\ run' = [NoRun EXCEPT !.turn = run.turn + 1]
   BY <1>12 DEF TurnBoundary
 <2>2. PICK t \in 0..MaxTurns : t = run.turn + 1
   BY <2>1, <1>0 DEF TurnInv, LocalTypes, Run, Parameters
 <2>3. NoRun \in Run /\ NoRun.attempt = 0 /\ NoRun.split = 0 /\ 0 \in 0..MaxAttempts /\ 0 \in Nat
   BY DEF NoRun, Run, Parameters
 <2>4. run' = [NoRun EXCEPT !.turn = t, !.attempt = 0, !.split = 0] BY <2>1, <2>2, <2>3 DEF Run
 <2>5. LocalTypes' /\ CallsInv' BY <2>1, <2>3, <2>4, <1>0, RunReset
 <2>6. OtherTypes' /\ TurnInv' /\ AnswerInv'
   BY <2>1, <1>0 DEF OtherTypes, TurnInv, AnswerInv, Compacting, models, history, bounds
 <2>. QED BY <1>0, <2>1, <2>5, <2>6, SessionsStay, InvPartsNext DEF history
<1>13. CASE EndRun
 <2>1. UNCHANGED <<conversation, models, history, bounds>> /\ at # "down" /\ at' = "idle" /\ run' = NoRun
   BY <1>13 DEF EndRun
 <2>2. OtherTypes' /\ TurnInv' /\ AnswerInv'
   BY <2>1, <1>0 DEF OtherTypes, TurnInv, AnswerInv, Compacting, models, history, bounds
 <2>. QED BY <1>0, <2>1, <2>2, RunGone, SessionsStay, InvPartsNext DEF history
<1>. QED
  BY <1>1, <1>2, <1>3, <1>4, <1>5, <1>6, <1>7, <1>8, <1>9, <1>10, <1>11, <1>12, <1>13 DEF PromptStep

----------------------------------------
(* The tools of an answer.                                                 *)

\* A tool of an answer starts or returns (runTools).
LEMMA ToolStepKeeps ==
    ASSUME Parameters, IInv, NEW i \in 1..Len(run.calls), ToolStep(i)
    PROVE  IInv'
<1>0. LocalTypes /\ OtherTypes /\ Sessions /\ TurnInv /\ CallsInv /\ AnswerInv BY InvParts
<1>1. run \in Run /\ i \in 1..Len(run.tool) /\ i \in 1..Len(run.results) /\ run.tool \in Seq({"ready", "running", "done"})
      /\ run.results \in Seq(Call) /\ run.calls[i] \in Call /\ run.calls[i] = <<answers, i>>
  BY <1>0 DEF LocalTypes, Run, CallsInv
<1>2. at = "tools" /\ UNCHANGED <<at, conversation, answers, bounds>>
  BY DEF ToolStep, ToolRuns, ToolReturns, QueueProviderSwitch, Local, history
<1>3. CASE ToolRuns(i)
 <2> DEFINE t == [run.tool EXCEPT ![i] = "running"]
 <2>1. run' = [run EXCEPT !.tool = t] /\ UNCHANGED models
       /\ ran' = {c \in ran : c[1] = run.calls[i][1]} \cup {run.calls[i]}
   BY <1>3, <1>1 DEF ToolRuns, Run
 <2>2. t \in Seq({"ready", "running", "done"}) /\ Len(t) = Len(run.tool) /\ t[i] = "running"
       /\ \A k \in 1..Len(run.tool) : k # i => t[k] = run.tool[k]
   BY <1>1
 <2> HIDE DEF t
 <2>3. run' \in Run /\ run'.calls = run.calls /\ run'.invalid = run.invalid /\ run'.tool = t /\ run'.results = run.results /\ run'.turn = run.turn
   BY <2>1, <2>2, <1>1 DEF Run
 <2>4. LocalTypes' /\ OtherTypes'
   BY <1>0, <1>1, <1>2, <2>1, <2>2, <2>3 DEF LocalTypes, OtherTypes, models, bounds
 <2>5. TurnInv' /\ AnswerInv'
   BY ZenonT(40), <1>0, <1>2, <2>2, <2>3 DEF TurnInv, AnswerInv, Compacting, conversation, LocalTypes
 <2>6. CallsInv'
  <3>1. \A c \in ran' : c[1] <= answers' BY <1>0, <1>1, <1>2, <2>1 DEF CallsInv, OtherTypes
  <3>2. \A k \in 1..Len(run.calls) : run.calls[k] = <<answers, k>> BY <1>0 DEF CallsInv
  <3>3. ASSUME NEW k \in 1..Len(run.calls), t[k] = "ready" PROVE run.calls[k] \notin ran'
   <4>1. k # i /\ run.tool[k] = "ready" BY <2>2, <3>3, <1>0 DEF LocalTypes
   <4>2. run.calls[k] \notin ran BY <1>0, <4>1 DEF CallsInv
   <4>. QED BY <2>1, <3>2, <4>1, <4>2
  <3>. QED BY <1>0, <1>2, <2>3, <3>1, <3>2, <3>3 DEF CallsInv
 <2>. QED BY <1>0, <1>2, <2>4, <2>5, <2>6, SessionsStay, InvPartsNext
<1>4. CASE ToolReturns(i)
 <2> DEFINE t == [run.tool EXCEPT ![i] = "done"]
            r == [run.results EXCEPT ![i] = run.calls[i]]
 <2>1. run' = [run EXCEPT !.tool = t, !.results = r] /\ UNCHANGED <<models, history>>
   BY <1>4, <1>1 DEF ToolReturns, Run, Store, Local
 <2>2. t \in Seq({"ready", "running", "done"}) /\ Len(t) = Len(run.tool) /\ t[i] = "done"
       /\ \A k \in 1..Len(run.tool) : k # i => t[k] = run.tool[k]
   BY <1>1
 <2>3. r \in Seq(Call) /\ Len(r) = Len(run.results) /\ r[i] = run.calls[i]
       /\ \A k \in 1..Len(run.results) : k # i => r[k] = run.results[k]
   BY <1>1
 <2> HIDE DEF t, r
 <2>4. run' \in Run /\ run'.calls = run.calls /\ run'.invalid = run.invalid /\ run'.tool = t /\ run'.results = r /\ run'.turn = run.turn
   BY <2>1, <2>2, <2>3, <1>1 DEF Run
 <2>5. LocalTypes' /\ OtherTypes'
   BY <1>0, <1>1, <1>2, <2>1, <2>2, <2>3, <2>4 DEF LocalTypes, OtherTypes, models, bounds, history
 <2>6. \A k \in 1..Len(run.calls) : t[k] = "done" => r[k] = run.calls[k]
   BY <1>0, <1>2, <2>2, <2>3 DEF AnswerInv, LocalTypes
 <2>7. TurnInv' /\ AnswerInv'
   BY <1>0, <1>2, <2>4, <2>6 DEF TurnInv, AnswerInv, Compacting, conversation
 <2>8. CallsInv' BY SMTT(40), <1>0, <2>1, <2>2, <2>4 DEF CallsInv, history, LocalTypes
 <2>. QED BY <1>0, <1>2, <2>5, <2>7, <2>8, SessionsStay, InvPartsNext
<1>5. CASE QueueProviderSwitch(i)
 <2>1. UNCHANGED <<at, run, model, conversation, history, bounds>> /\ pendingSwitch' \in Model
   BY <1>5 DEF QueueProviderSwitch
 <2>2. OtherTypes' /\ TurnInv' /\ AnswerInv'
   BY <1>0, <1>2, <2>1 DEF OtherTypes, TurnInv, AnswerInv, Compacting, conversation, history, bounds
 <2>. QED BY <1>2, <2>1, <2>2, Moves
<1>. QED BY <1>3, <1>4, <1>5 DEF ToolStep

----------------------------------------
(* Compactions and resets.                                                 *)

\* The steps of a compaction (context.go: compactIfNeeded, compact).
LEMMA CompactStepKeeps ==
    ASSUME Parameters, IInv, CompactStep
    PROVE  IInv'
<1>0. LocalTypes /\ OtherTypes /\ Sessions /\ TurnInv /\ CallsInv /\ AnswerInv BY InvParts
<1>1. CASE SummaryDone
 <2>1. UNCHANGED <<run, conversation, models, history, bounds>> /\ at = "summarize" /\ at' = "compactUsage"
   BY <1>1 DEF SummaryDone, Goto, Local
 <2>2. OtherTypes' /\ TurnInv' /\ AnswerInv'
   BY <1>0, <2>1 DEF OtherTypes, TurnInv, AnswerInv, Compacting, conversation, models, history, bounds, AppendingOther
 <2>. QED BY <2>1, <2>2, Moves
<1>2. CASE AppendSummaryUsage \/ CompactionFails
 <2>1. /\ UNCHANGED <<conversation, models, history, ops, crashes>> /\ failures' \in {failures, failures + 1}
       /\ at \in {"compactUsage", "compactSave"}
       /\ \/ at' = "compactSave" /\ run' = run
          \/ at' = "ending" /\ run' = run
          \/ at' = "idle" /\ run' = NoRun
   BY <1>2 DEF AppendSummaryUsage, CompactionFails, CompactionEnds, SaveOther, SaveFails, Goto, bounds
 <2>2. OtherTypes' BY <1>0, <2>1 DEF OtherTypes, models, history, Appending
 <2>3. TurnInv' /\ AnswerInv' BY <1>0, <2>1 DEF TurnInv, AnswerInv, Compacting, conversation
 <2>4. LocalTypes' /\ CallsInv' BY <1>0, <2>1, RunStays, RunGone
 <2>. QED BY <1>0, <2>1, <2>2, <2>3, <2>4, SessionsStay, InvPartsNext DEF history
<1>3. CASE AppendCompaction
 <2>1. /\ UNCHANGED <<models, history, bounds>> /\ Save /\ at = "compactSave"
       /\ \/ at' = "stream" /\ run' = [NoRun EXCEPT !.turn = run.turn, !.attempt = 1]
          \/ at' = "idle" /\ run' = NoRun
   BY <1>3 DEF AppendCompaction, Save, Goto
 <2>2. Sessions' BY <2>1, SessionsSaved DEF history, Appending
 <2>3. OtherTypes' /\ AnswerInv' BY <1>0, <2>1 DEF OtherTypes, AnswerInv, models, history, bounds
 <2>4. CASE at' = "idle"
  <3>1. LocalTypes' /\ CallsInv' BY <1>0, <2>1, <2>4, RunGone
  <3>2. TurnInv' BY <2>4 DEF TurnInv, Compacting
  <3>. QED BY <2>2, <2>3, <3>1, <3>2, InvPartsNext
 <2>5. CASE at' = "stream"
  <3>1. run.turn \in 0..MaxTurns /\ run.turn < MaxTurns
    BY <1>0, <2>1 DEF LocalTypes, Run, TurnInv, Compacting
  <3>2. PICK k \in 0..MaxAttempts : k = 1 BY DEF Parameters
  <3>3. NoRun \in Run /\ NoRun.split = 0 BY DEF NoRun, Run, Parameters
  <3>4. run' = [NoRun EXCEPT !.turn = run.turn, !.attempt = k, !.split = 0]
    BY <2>1, <2>5, <3>2, <3>3 DEF Run
  <3>5. LocalTypes' /\ CallsInv' /\ run'.turn = run.turn /\ run'.attempt = k
    BY <1>0, <2>1, <3>1, <3>4, RunReset
  <3>6. TurnInv' BY <2>5, <3>1, <3>2, <3>5 DEF TurnInv, Compacting
  <3>. QED BY <2>2, <2>3, <3>5, <3>6, InvPartsNext
 <2>. QED BY <2>1, <2>4, <2>5
<1>. QED BY <1>1, <1>2, <1>3 DEF CompactStep

\* The record of a reset is appended, or not.
LEMMA ResetStepKeeps ==
    ASSUME Parameters, IInv, ResetStep
    PROVE  IInv'
<1>0. LocalTypes /\ OtherTypes /\ Sessions /\ TurnInv /\ CallsInv /\ AnswerInv BY InvParts
<1>1. /\ UNCHANGED <<run, models, history, ops, crashes>> /\ failures' \in {failures, failures + 1}
      /\ at = "reset" /\ at' = "idle" /\ (Save \/ UNCHANGED conversation)
  BY DEF ResetStep, AppendReset, ResetFails, Save, SaveFails, Goto, bounds
<1>2. OtherTypes' /\ TurnInv' /\ AnswerInv'
  BY <1>0, <1>1 DEF OtherTypes, TurnInv, AnswerInv, Compacting, models, history
<1>3. Sessions' BY <1>0, <1>1, SessionsSaved, SessionsStay DEF history, Appending
<1>. QED BY <1>0, <1>1, <1>2, <1>3, RunStays, InvPartsNext

----------------------------------------
(* Operations without a prompt, deaths and restarts.                       *)

\* Another session is swapped in, or an empty one.
LEMMA SessionSwapped ==
    ASSUME IInv, at = "idle", at' = "idle", UNCHANGED answers, other' = log,
           \/ log' = <<>> /\ messages' = <<>>
           \/ log' = other /\ messages' = Load(other)
    PROVE  Sessions'
<1>0. log \in Seq(LogRecord) /\ other \in Seq(LogRecord) /\ answers \in Nat
      /\ Conversation(Replay(log), answers) /\ Conversation(Replay(other), answers)
  BY DEF IInv, TypeOK, SessionsInv
<1>1. log' \in Seq(LogRecord) /\ other' \in Seq(LogRecord)
 <2>1. <<>> \in Seq(LogRecord) OBVIOUS
 <2>. QED BY <1>0, <2>1
<1>2. Conversation(Replay(log'), answers') /\ Conversation(messages', answers')
      /\ Written(messages') = Written(Replay(log'))
  BY <1>0, EmptyReplay, NoMessages, RepairKeeps DEF Load
<1>3. messages' \in Seq(Message) BY <1>2 DEF Conversation
<1>. QED BY <1>0, <1>1, <1>2, <1>3 DEF Sessions, SessionsInv

\* What begins between prompts: a prompt, a compaction, a reset, a switch, another session.
LEMMA IdleStepKeeps ==
    ASSUME Parameters, IInv, IdleStep
    PROVE  IInv'
<1>0. LocalTypes /\ OtherTypes /\ Sessions /\ TurnInv /\ CallsInv /\ AnswerInv BY InvParts
<1>1. CASE Prompt \/ ResetConversation \/ SwitchProvider \/ Quiet
 <2>1. /\ UNCHANGED <<run, conversation, history, failures, crashes>> /\ ops' \in {ops, ops + 1}
       /\ at = "idle" /\ at' \in {"idle", "prompt", "ending", "reset"}
       /\ pendingSwitch' = pendingSwitch /\ model' \in Model
   BY <1>0, <1>1 DEF Prompt, ResetConversation, SwitchProvider, Quiet, Operation, Goto, models, vars, bounds, OtherTypes
 <2>2. OtherTypes' /\ TurnInv' /\ AnswerInv'
   BY <1>0, <2>1 DEF OtherTypes, TurnInv, AnswerInv, Compacting, history, Appending
 <2>. QED BY <2>1, <2>2, Moves
<1>2. CASE Compact
 <2>1. PICK i \in Splits(messages) : run' = [NoRun EXCEPT !.split = i, !.attempt = 1]
   BY <1>2 DEF Compact
 <2>2. /\ UNCHANGED <<conversation, models, history, failures, crashes>> /\ ops' = ops + 1
       /\ at = "idle" /\ at' \in {"summarize", "compactSave"}
   BY <1>2 DEF Compact, Operation
 <2>3. i \in Nat /\ 0 \in 0..MaxTurns BY <1>0 DEF Splits, Sessions, Parameters
 <2>4. PICK k \in 0..MaxAttempts : k = 1 BY DEF Parameters
 <2>5. NoRun \in Run /\ NoRun.turn = 0 BY DEF NoRun, Run, Parameters
 <2>6. run' = [NoRun EXCEPT !.turn = 0, !.attempt = k, !.split = i] BY <2>1, <2>4, <2>5 DEF Run
 <2>7. LocalTypes' /\ CallsInv' /\ run'.turn = 0 /\ run'.attempt = k /\ run'.split = i
   BY <1>0, <2>2, <2>3, <2>6, RunReset
 <2>8. OtherTypes' /\ AnswerInv' BY <1>0, <2>2 DEF OtherTypes, AnswerInv, models, history, Appending
 <2>9. TurnInv' BY <2>2, <2>4, <2>7 DEF TurnInv, Compacting, Parameters, conversation
 <2>. QED BY <1>0, <2>2, <2>7, <2>8, <2>9, SessionsStay, InvPartsNext DEF history
<1>3. CASE NewConversation \/ ResumeSession
 <2>1. /\ UNCHANGED <<at, run, models, history, failures, crashes>> /\ ops' = ops + 1 /\ at = "idle"
       /\ other' = log
       /\ \/ log' = <<>> /\ messages' = <<>>
          \/ log' = other /\ messages' = Load(other)
   BY <1>3 DEF NewConversation, ResumeSession, Operation
 <2>2. Sessions' BY <2>1, SessionSwapped DEF history
 <2>3. OtherTypes' /\ TurnInv' /\ AnswerInv'
   BY <1>0, <2>1 DEF OtherTypes, TurnInv, AnswerInv, Compacting, models, history
 <2>. QED BY <1>0, <2>1, <2>2, <2>3, RunStays, InvPartsNext
<1>. QED BY <1>1, <1>2, <1>3 DEF IdleStep

\* The process dies, with the record under way appended or not, and starts again.
LEMMA CrashKeeps ==
    ASSUME Parameters, IInv, Crash \/ Start
    PROVE  IInv'
<1>0. LocalTypes /\ OtherTypes /\ Sessions /\ TurnInv /\ CallsInv /\ AnswerInv BY InvParts
<1>1. CASE Crash
 <2>1. /\ UNCHANGED <<other, history, ops, failures>> /\ crashes' = crashes + 1 /\ at' = "down"
       /\ run' = NoRun /\ messages' = <<>> /\ model' = DefaultModel /\ pendingSwitch' = NoModel
       /\ log' = log \/ (at \in Appending /\ log' = Append(log, Pending))
   BY <1>1 DEF Crash, Goto
 <2>2. log' \in Seq(LogRecord) /\ other' \in Seq(LogRecord)
       /\ \A m \in {Replay(log'), Replay(other')} : Conversation(m, answers')
  <3>1. CASE log' = log BY <1>0, <2>1, <3>1 DEF Sessions, SessionsInv, history
  <3>2. CASE at \in Appending /\ log' = Append(log, Pending)
    BY <2>1, <3>2, RecordAppended DEF history
  <3>. QED BY <2>1, <3>1, <3>2
 <2>3. Sessions'
  <3>1. Conversation(messages', answers') /\ messages' \in Seq(Message)
    BY <1>0, <2>1, NoMessages DEF OtherTypes, history, Conversation
  <3>. QED BY <2>1, <2>2, <3>1 DEF Sessions, SessionsInv
 <2>4. OtherTypes' /\ TurnInv' /\ AnswerInv'
   BY <1>0, <2>1 DEF OtherTypes, TurnInv, AnswerInv, Compacting, history, Parameters
 <2>. QED BY <1>0, <2>1, <2>3, <2>4, RunGone, InvPartsNext
<1>2. CASE Start
 <2>1. /\ UNCHANGED <<run, log, other, models, history, bounds>> /\ at = "down" /\ at' = "idle"
       /\ messages' = Load(log)
   BY <1>2 DEF Start, Goto
 <2>2. Sessions'
  <3>1. Conversation(Replay(log), answers) /\ answers \in Nat
    BY <1>0 DEF Sessions, SessionsInv, OtherTypes
  <3>2. Conversation(messages', answers) /\ Written(messages') = Written(Replay(log))
    BY <2>1, <3>1, RepairKeeps DEF Load
  <3>3. messages' \in Seq(Message) BY <3>2 DEF Conversation
  <3>. QED BY <1>0, <2>1, <3>2, <3>3 DEF Sessions, SessionsInv, history
 <2>3. OtherTypes' /\ TurnInv' /\ AnswerInv'
   BY <1>0, <2>1 DEF OtherTypes, TurnInv, AnswerInv, Compacting, models, history, bounds
 <2>. QED BY <1>0, <2>1, <2>2, <2>3, RunStays, InvPartsNext
<1>. QED BY <1>1, <1>2

----------------------------------------
(* Every step, and what the invariant implies.                             *)

\* The invariant holds at the beginning.
LEMMA InitInv == Parameters /\ Init => IInv
<1> SUFFICES ASSUME Parameters, Init PROVE IInv
  OBVIOUS
<1>1. LocalTypes /\ run.calls = <<>> /\ run.invalid = {} /\ Len(run.calls) = 0
  BY DEF Init, NoRun, LocalTypes, Run, Parameters
<1>2. OtherTypes BY DEF Init, OtherTypes, Parameters
<1>3. Sessions BY EmptyReplay, NoMessages DEF Init, Sessions, SessionsInv
<1>4. TurnInv /\ AnswerInv BY DEF Init, TurnInv, AnswerInv, Compacting
<1>5. CallsInv BY <1>1 DEF Init, CallsInv
<1>. QED BY <1>1, <1>2, <1>3, <1>4, <1>5, InvParts

\* Every step keeps the invariant.
LEMMA NextInv == Parameters /\ IInv /\ [Next]_vars => IInv'
<1> SUFFICES ASSUME Parameters, IInv, [Next]_vars PROVE IInv'
  OBVIOUS
<1>1. CASE UNCHANGED vars
 <2>1. LocalTypes /\ OtherTypes /\ Sessions /\ TurnInv /\ CallsInv /\ AnswerInv BY InvParts
 <2>2. UNCHANGED <<at, run, conversation, models, history, bounds>> BY <1>1 DEF vars
 <2>3. OtherTypes' /\ TurnInv' /\ AnswerInv'
   BY <2>1, <2>2 DEF OtherTypes, TurnInv, AnswerInv, Compacting, conversation, models, history, bounds
 <2>4. Sessions' BY <2>1, <2>2 DEF Sessions, SessionsInv, conversation, history
 <2>. QED BY <2>1, <2>2, <2>3, <2>4, RunStays, InvPartsNext
<1>2. CASE Next
  BY <1>2, PromptStepKeeps, ToolStepKeeps, CompactStepKeeps, ResetStepKeeps, IdleStepKeeps, CrashKeeps DEF Next
<1>. QED BY <1>1, <1>2

\* The invariant says what each conversation is, and a call that starts has not
\* started before and is of an answer of the session.
LEMMA InvImplies ==
    IInv => TypeOK /\ MemoryIsDurable /\ ResultsInCallOrder /\ RequestIsValid /\ RunsOnceFromDurableAnswer
<1> SUFFICES ASSUME IInv
    PROVE  TypeOK /\ MemoryIsDurable /\ ResultsInCallOrder /\ RequestIsValid /\ RunsOnceFromDurableAnswer
  OBVIOUS
<1>0. TypeOK /\ Conversation(Replay(log), answers) /\ Conversation(Replay(other), answers) /\ answers \in Nat
  BY DEF IInv, TypeOK, SessionsInv
<1>1. MemoryIsDurable
 <2>1. Written(Load(log)) = Written(Replay(log)) /\ \A i \in 1..Len(Load(log)) : Lacking(Load(log), i) = <<>>
   BY <1>0, RepairKeeps DEF Load
 <2>. QED BY <2>1 DEF IInv, SessionsInv, MemoryIsDurable
<1>2. ResultsInCallOrder
 <2> SUFFICES ASSUME NEW l \in {log, other}, NEW i \in 1..Len(Replay(l)), Replay(l)[i].kind = "results"
     PROVE  i > 1 /\ Replay(l)[i - 1] = Answer(Replay(l)[i].calls, Replay(l)[i - 1].invalid)
   BY DEF ResultsInCallOrder
 <2> DEFINE m == Replay(l)
 <2>1. Conversation(m, answers) BY <1>0
 <2> HIDE DEF m
 <2>2. m[i].kind = "results" /\ i \in 1..Len(m) BY DEF m
 <2>3. m \in Seq(Message) /\ i # 1 /\ i > 1 /\ i - 1 \in 1..Len(m)
   BY <2>1, <2>2 DEF Conversation, Begins
 <2>4. Follows(m[i - 1], m[i]) /\ m[i - 1] \in Message BY <2>1, <2>2, <2>3 DEF Conversation
 <2>5. m[i - 1] = Answer(m[i].calls, m[i - 1].invalid) BY <2>2, <2>4 DEF Follows, Message, Answer
 <2>. QED BY <2>3, <2>5 DEF m
<1>3. RunsOnceFromDurableAnswer
 <2> SUFFICES ASSUME NEW i \in 1..Len(run.calls), ToolRuns(i)
     PROVE  /\ run.calls[i] \notin ran /\ \A c \in ran : c[1] <= run.calls[i][1]
            /\ \E k \in 1..Len(log) : Answer(run.calls, run.invalid) \in Range(log[k].messages)
   BY DEF RunsOnceFromDurableAnswer
 <2>1. at = "tools" /\ run.tool[i] = "ready" BY DEF ToolRuns
 <2>2. run.calls[i] = <<answers, i>> /\ run.calls[i] \notin ran /\ \A c \in ran : c[1] <= answers
   BY <2>1 DEF IInv, CallsInv
 <2>3. run.calls[i][1] = answers BY <2>2
 <2>. QED BY <2>1, <2>2, <2>3 DEF IInv, AnswerInv
<1>4. RequestIsValid
 <2>1. Conversation(messages, answers) BY DEF IInv, SessionsInv
 <2>. QED BY <2>1, <1>0, ContextWellFormed DEF RequestIsValid
<1>. QED BY <1>0, <1>1, <1>2, <1>3, <1>4

----------------------------------------
(* Theorems.                                                               *)

\* While the process lives its messages are those a restart would load, but for
\* the results that loads make up, and a load leaves no answer with an invalid call
\* without results; in every session results follow their answer in the order of
\* its calls (agent.go: append, executeTools; session.go: decode; model/types.go:
\* RepairToolCallResults).
THEOREM ConversationIsDurable ==
    ASSUME Parameters
    PROVE  Spec => [](TypeOK /\ MemoryIsDurable /\ ResultsInCallOrder)
<1>1. Init => IInv BY InitInv
<1>2. IInv /\ [Next]_vars => IInv' BY NextInv
<1>3. IInv => TypeOK /\ MemoryIsDurable /\ ResultsInCallOrder BY InvImplies
<1>. QED BY <1>1, <1>2, <1>3, PTL DEF Spec

\* Providers accept the messages of every request (context.go: contextMessages).
THEOREM RequestsAreValid ==
    ASSUME Parameters
    PROVE  Spec => []RequestIsValid
<1>1. Init => IInv BY InitInv
<1>2. IInv /\ [Next]_vars => IInv' BY NextInv
<1>3. IInv => RequestIsValid BY InvImplies
<1>. QED BY <1>1, <1>2, <1>3, PTL DEF Spec

\* A tool starts once for a call, of a durable answer (agent.go: executeTool).
THEOREM ToolsRunOnce ==
    ASSUME Parameters
    PROVE  Spec => ToolsRunOnceFromDurableAnswers
<1>1. Init => IInv BY InitInv
<1>2. IInv /\ [Next]_vars => IInv' BY NextInv
<1>3. IInv /\ [Next]_vars => [RunsOnceFromDurableAnswer]_vars BY InvImplies
<1>. QED BY <1>1, <1>2, <1>3, PTL DEF Spec, ToolsRunOnceFromDurableAnswers

----------------------------------------
(* The message queue of the agent.                                         *)

----------------------------------------
(* The inductive invariant.                                                *)

\* x is in the sequence s.
In(x, s) == \E k \in 1..Len(s) : s[k] = x

\* Message x is queued, taken, appended or lost.
Somewhere(x) ==
    \/ In(x, steering) \/ In(x, followUps) \/ In(x, said)
    \/ held = x /\ x \in Queue!Message
    \/ x \in lost

\* A prompt runs wherever its goroutine is not idle or settled, which it is
\* with empty queues, and it holds a message only between taking and appending
\* it.
PromptInv ==
    /\ processing <=> prompter \notin {"idle", "settled"}
    /\ prompter = "settled" => steering = <<>> /\ followUps = <<>>
    /\ held # Queue!None <=> prompter \in {"delivered", "append"}
    /\ \A k \in 1..Len(steering) : steering[k].mode = "steer"
    /\ \A k \in 1..Len(followUps) : followUps[k].mode = "follow_up"

\* A number belongs to one message, and those given out are still somewhere.
NumberInv ==
    /\ \A x \in Queue!Message : Somewhere(x) => x.id <= queueSequence
    /\ \A x, y \in Queue!Message : Somewhere(x) /\ Somewhere(y) /\ x.id = y.id => x = y
    /\ \A i \in 1..queueSequence : \E x \in Queue!Message : Somewhere(x) /\ x.id = i

\* The numbers of a sequence of messages increase.
Increasing(s) == \A i, j \in 1..Len(s) : i < j => s[i].id < s[j].id

\* Message x is older than all that are queued in its mode.
Older(x) ==
    /\ x.mode = "steer" => \A k \in 1..Len(steering) : x.id < steering[k].id
    /\ x.mode = "follow_up" => \A k \in 1..Len(followUps) : x.id < followUps[k].id

\* Messages of one mode are queued, taken and appended in the order of their
\* numbers: one that is over is older than those that are not, and is over in
\* one way.
OrderInv ==
    /\ Increasing(steering) /\ Increasing(followUps)
    /\ Queue!DeliveredInOrder
    /\ \A x \in lost : ~In(x, said)
    /\ \A x \in Queue!Message : x \in lost \/ In(x, said) =>
          Older(x) /\ (held.mode = x.mode => x.id < held.id)
    /\ held \in Queue!Message => Older(held)

QueueIInv == Queue!TypeOK /\ PromptInv /\ NumberInv /\ OrderInv

----------------------------------------
(* What a step does to the messages.                                       *)

Keeps ==
    /\ UNCHANGED <<Queue!queues, said, lost>>
    /\ held' = held \/ {held, held'} \subseteq {Queue!None, Queue!Automatic}

AcceptsSteer ==
    LET m == [id |-> queueSequence + 1, mode |-> "steer"]
    IN  /\ queueSequence' = queueSequence + 1 /\ steering' = Append(steering, m)
        /\ UNCHANGED <<followUps, held, said, lost>>

AcceptsFollowUp ==
    LET m == [id |-> queueSequence + 1, mode |-> "follow_up"]
    IN  /\ queueSequence' = queueSequence + 1 /\ followUps' = Append(followUps, m)
        /\ UNCHANGED <<steering, held, said, lost>>

TakesSteer ==
    /\ held = Queue!None /\ steering # <<>> /\ held' = Head(steering) /\ steering' = Tail(steering)
    /\ UNCHANGED <<followUps, queueSequence, said, lost>>

TakesFollowUp ==
    /\ held = Queue!None /\ followUps # <<>> /\ held' = Head(followUps) /\ followUps' = Tail(followUps)
    /\ UNCHANGED <<steering, queueSequence, said, lost>>

Says ==
    /\ held \in Queue!Message /\ held' = Queue!None /\ said' = Append(said, held)
    /\ UNCHANGED <<Queue!queues, lost>>

Loses ==
    /\ held \in Queue!Message /\ held' = Queue!None /\ lost' = lost \cup {held}
    /\ UNCHANGED <<Queue!queues, said>>

\* What each action does to the variables it changes.
LEMMA Effects ==
    ASSUME Queue!TypeOK, PromptInv, [Queue!Next]_(Queue!vars)
    PROVE  Keeps \/ AcceptsSteer \/ AcceptsFollowUp \/ TakesSteer \/ TakesFollowUp \/ Says \/ Loses
<1>. USE DEF Queue!queues, Queue!prompt, Queue!frontend, Queue!outcome
<1>1. ASSUME NEW s \in Sender, NEW mode \in Queue!Mode, Queue!Enqueue(s, mode)
      PROVE  AcceptsSteer \/ AcceptsFollowUp
  BY <1>1 DEF Queue!Enqueue, AcceptsSteer, AcceptsFollowUp, Queue!Mode
<1>2. ASSUME NEW s \in Sender, Queue!EmitEnqueued(s) PROVE Keeps
  BY <1>2 DEF Queue!EmitEnqueued, Keeps
<1>3. CASE Queue!BeginProcessing BY <1>3 DEF Queue!BeginProcessing, Keeps
<1>4. CASE Queue!PromptStep
 <2>1. CASE Queue!TakeQueuedSteer
   BY <2>1 DEF Queue!TakeQueuedSteer, Queue!TakeSteering, TakesSteer, PromptInv
 <2>2. CASE Queue!SettleTakes
   BY <2>2 DEF Queue!SettleTakes, Queue!TakeSteering, Queue!TakeFollowUp, TakesSteer, TakesFollowUp, PromptInv
 <2>3. CASE Queue!AppendHeld
   BY <2>3 DEF Queue!AppendHeld, Says, Loses, Keeps, PromptInv, Queue!TypeOK
 <2>4. CASE Queue!SettleContinues BY <2>4 DEF Queue!SettleContinues, Keeps, PromptInv
 <2>5. CASE Queue!EmitBegin \/ Queue!NoSteer \/ Queue!EmitDelivered \/ Queue!Turn \/ Queue!TurnFails \/ Queue!AgentEnd \/ Queue!Settle \/ Queue!EndProcessing
   BY <2>5 DEF Queue!EmitBegin, Queue!NoSteer, Queue!EmitDelivered, Queue!Turn, Queue!TurnFails, Queue!AgentEnd, Queue!Settle, Queue!EndProcessing, Keeps
 <2>. QED BY <1>4, <2>1, <2>2, <2>3, <2>4, <2>5 DEF Queue!PromptStep
<1>5. CASE Queue!Quiet \/ UNCHANGED Queue!vars BY <1>5 DEF Queue!Quiet, Queue!vars, Keeps
<1>. QED BY <1>1, <1>2, <1>3, <1>4, <1>5 DEF Queue!Next

----------------------------------------
(* Types and the prompt.                                                   *)

\* The members and the length of an extended sequence.
LEMMA AppendFacts ==
    ASSUME NEW S, NEW s \in Seq(S), NEW e \in S
    PROVE  /\ Append(s, e) \in Seq(S)
           /\ Len(Append(s, e)) = Len(s) + 1
           /\ \A i \in 1..Len(s) : Append(s, e)[i] = s[i]
           /\ Append(s, e)[Len(s) + 1] = e
  OBVIOUS

\* The members and the length of a tail.
LEMMA TailFacts ==
    ASSUME NEW S, NEW s \in Seq(S), s # <<>>
    PROVE  /\ Head(s) \in S /\ Tail(s) \in Seq(S)
           /\ Len(s) \in Nat \ {0} /\ Len(Tail(s)) = Len(s) - 1
           /\ Head(s) = s[1]
           /\ \A i \in 1..Len(Tail(s)) : Tail(s)[i] = s[i + 1]
  OBVIOUS

\* An extended sequence has the type of its elements.
LEMMA AppendIn ==
    ASSUME NEW S, NEW s \in Seq(S), NEW e \in S, NEW x
    PROVE  In(x, Append(s, e)) <=> In(x, s) \/ x = e
<1>. DEFINE t == Append(s, e)
<1>1. /\ Len(s) \in Nat /\ Len(t) = Len(s) + 1 /\ t[Len(s) + 1] = e
      /\ \A i \in 1..Len(s) : t[i] = s[i]
  BY AppendFacts
<1>. HIDE DEF t
<1>2. \A k \in 1..Len(t) : k \in 1..Len(s) \/ k = Len(s) + 1 BY <1>1
<1>3. In(x, t) => In(x, s) \/ x = e BY <1>1, <1>2 DEF In
<1>4. In(x, s) => In(x, t) BY <1>1 DEF In
<1>5. In(e, t) BY <1>1 DEF In
<1>. QED BY <1>3, <1>4, <1>5 DEF t

\* So has a tail.
LEMMA TailIn ==
    ASSUME NEW S, NEW s \in Seq(S), s # <<>>, NEW x
    PROVE  In(x, s) <=> In(x, Tail(s)) \/ x = Head(s)
<1>. DEFINE t == Tail(s)
<1>1. /\ Len(s) \in Nat \ {0} /\ Len(t) = Len(s) - 1 /\ Head(s) = s[1]
      /\ \A i \in 1..Len(t) : t[i] = s[i + 1]
  BY TailFacts
<1>. HIDE DEF t
<1>2. ASSUME NEW k \in 1..Len(s), k # 1
      PROVE  k - 1 \in 1..Len(t) /\ t[k - 1] = s[k]
 <2>1. k - 1 \in 1..Len(t) /\ (k - 1) + 1 = k BY <1>1, <1>2
 <2>2. t[k - 1] = s[(k - 1) + 1] BY <1>1, <2>1
 <2>. QED BY <2>1, <2>2
<1>3. In(x, s) => In(x, t) \/ x = Head(s) BY <1>1, <1>2 DEF In
<1>4. ASSUME NEW k \in 1..Len(t) PROVE k + 1 \in 1..Len(s) /\ s[k + 1] = t[k]
  BY <1>1
<1>5. In(x, t) => In(x, s) BY <1>4 DEF In
<1>6. In(Head(s), s) BY <1>1 DEF In
<1>. QED BY <1>3, <1>5, <1>6 DEF t

\* The two marks are no messages.
LEMMA NoMessage == Queue!None \notin Queue!Message /\ Queue!Automatic \notin Queue!Message
  BY DEF Queue!None, Queue!Automatic, Queue!Message

MessageTypes ==
    /\ steering \in Seq(Queue!Message) /\ followUps \in Seq(Queue!Message)
    /\ queueSequence \in Nat
    /\ held \in Queue!Message \cup {Queue!None, Queue!Automatic}
    /\ said \in Seq(Queue!Message) /\ lost \subseteq Queue!Message

\* Every step keeps the types of the variables that hold messages.
LEMMA MessageTypesInv == Queue!TypeOK /\ PromptInv /\ [Queue!Next]_(Queue!vars) => MessageTypes'
<1>. SUFFICES ASSUME Queue!TypeOK, PromptInv, [Queue!Next]_(Queue!vars) PROVE MessageTypes'
  OBVIOUS
<1>. USE DEF MessageTypes
<1>0. MessageTypes BY DEF Queue!TypeOK
<1>1. [id |-> queueSequence + 1, mode |-> "steer"] \in Queue!Message
      /\ [id |-> queueSequence + 1, mode |-> "follow_up"] \in Queue!Message
  BY <1>0 DEF Queue!Message, Queue!Mode
<1>2. CASE AcceptsSteer BY <1>0, <1>1, <1>2, AppendFacts DEF AcceptsSteer
<1>3. CASE AcceptsFollowUp BY <1>0, <1>1, <1>3, AppendFacts DEF AcceptsFollowUp
<1>4. CASE TakesSteer BY <1>0, <1>4, TailFacts DEF TakesSteer
<1>5. CASE TakesFollowUp BY <1>0, <1>5, TailFacts DEF TakesFollowUp
<1>6. CASE Says BY <1>0, <1>6, AppendFacts DEF Says, Queue!queues
<1>7. CASE Loses BY <1>0, <1>7 DEF Loses, Queue!queues
<1>8. CASE Keeps BY <1>0, <1>8 DEF Keeps, Queue!queues
<1>. QED BY <1>2, <1>3, <1>4, <1>5, <1>6, <1>7, <1>8, Effects

ControlTypes ==
    /\ processing \in BOOLEAN
    /\ prompter \in {"idle", "begin", "prompt", "delivered", "append", "turn", "boundary",
               "end", "settle", "settled", "ending"}
    /\ offered \in BOOLEAN /\ calls \in BOOLEAN
    /\ turn \in Nat /\ prompts \in Nat
    /\ sending \subseteq Sender

EventTypes ==
    /\ snapshot \in [Sender \cup {Queue!Prompter} -> Seq(Queue!Message)]
    /\ shown \in Seq(Queue!Message)

\* Every step keeps the types of the control.
LEMMA ControlTypesInv == ControlTypes /\ [Queue!Next]_(Queue!vars) => ControlTypes'
<1>. USE DEF Queue!queues, Queue!prompt, Queue!frontend, Queue!outcome, Queue!Goto, ControlTypes
<1>. SUFFICES ASSUME ControlTypes, [Queue!Next]_(Queue!vars) PROVE ControlTypes'
  OBVIOUS
<1>1. ASSUME NEW s \in Sender, NEW mode \in Queue!Mode, Queue!Enqueue(s, mode)
      PROVE  ControlTypes'
  BY <1>1 DEF Queue!Enqueue
<1>2. ASSUME NEW s \in Sender, Queue!EmitEnqueued(s) PROVE ControlTypes'
  BY <1>2 DEF Queue!EmitEnqueued
<1>3. CASE Queue!BeginProcessing BY <1>3 DEF Queue!BeginProcessing
<1>4. CASE Queue!EmitBegin BY <1>4 DEF Queue!EmitBegin
<1>5. CASE Queue!TakeQueuedSteer \/ Queue!NoSteer BY <1>5 DEF Queue!TakeQueuedSteer, Queue!NoSteer
<1>6. CASE Queue!EmitDelivered \/ Queue!AppendHeld BY <1>6 DEF Queue!EmitDelivered, Queue!AppendHeld
<1>7. CASE Queue!Turn \/ Queue!TurnFails BY <1>7 DEF Queue!Turn, Queue!TurnFails
<1>8. CASE Queue!AgentEnd \/ Queue!SettleTakes \/ Queue!SettleContinues
  BY <1>8 DEF Queue!AgentEnd, Queue!SettleTakes, Queue!SettleContinues
<1>9. CASE Queue!Settle BY <1>9 DEF Queue!Settle
<1>10. CASE Queue!EndProcessing BY <1>10 DEF Queue!EndProcessing
<1>11. CASE Queue!Quiet \/ UNCHANGED Queue!vars BY <1>11 DEF Queue!Quiet, Queue!vars
<1>. QED
  BY <1>1, <1>2, <1>3, <1>4, <1>5, <1>6, <1>7, <1>8, <1>9, <1>10, <1>11 DEF Queue!Next, Queue!PromptStep

\* Every step keeps the types of the events.
LEMMA EventTypesInv ==
    ASSUME MessageTypes, MessageTypes', EventTypes, [Queue!Next]_(Queue!vars)
    PROVE  EventTypes'
<1>. USE DEF Queue!queues, Queue!prompt, Queue!frontend, Queue!outcome, EventTypes
<1>0. <<>> \in Seq(Queue!Message) /\ steering' \o followUps' \in Seq(Queue!Message)
  BY DEF MessageTypes
<1>1. ASSUME NEW g \in Sender \cup {Queue!Prompter}, Queue!Snapshot(g) PROVE snapshot' \in [Sender \cup {Queue!Prompter} -> Seq(Queue!Message)]
  BY <1>0, <1>1 DEF Queue!Snapshot
<1>2. ASSUME NEW g \in Sender \cup {Queue!Prompter}, Queue!Emitted(g) PROVE snapshot' \in [Sender \cup {Queue!Prompter} -> Seq(Queue!Message)]
  BY <1>0, <1>2 DEF Queue!Emitted
<1>3. ASSUME NEW s \in Sender, NEW mode \in Queue!Mode, Queue!Enqueue(s, mode)
      PROVE  EventTypes'
  BY <1>1, <1>3 DEF Queue!Enqueue
<1>4. ASSUME NEW s \in Sender, Queue!EmitEnqueued(s) PROVE EventTypes'
  BY <1>2, <1>4 DEF Queue!EmitEnqueued
<1>5. CASE Queue!BeginProcessing \/ Queue!TakeQueuedSteer \/ Queue!SettleTakes
  BY <1>1, <1>5 DEF Queue!BeginProcessing, Queue!TakeQueuedSteer, Queue!SettleTakes
<1>6. CASE Queue!EmitBegin \/ Queue!EmitDelivered
  BY <1>2, <1>6 DEF Queue!EmitBegin, Queue!EmitDelivered
<1>7. CASE \/ Queue!NoSteer \/ Queue!AppendHeld \/ Queue!Turn \/ Queue!TurnFails \/ Queue!AgentEnd
           \/ Queue!SettleContinues \/ Queue!Settle \/ Queue!EndProcessing
  BY <1>7 DEF Queue!NoSteer, Queue!AppendHeld, Queue!Turn, Queue!TurnFails, Queue!AgentEnd, Queue!SettleContinues, Queue!Settle, Queue!EndProcessing
<1>8. CASE Queue!Quiet \/ UNCHANGED Queue!vars BY <1>8 DEF Queue!Quiet, Queue!vars
<1>. QED BY <1>3, <1>4, <1>5, <1>6, <1>7, <1>8 DEF Queue!Next, Queue!PromptStep

\* Every step keeps the types.
LEMMA TypeInv == Queue!TypeOK /\ PromptInv /\ [Queue!Next]_(Queue!vars) => Queue!TypeOK'
<1>1. Queue!TypeOK <=> MessageTypes /\ ControlTypes /\ EventTypes
  BY DEF Queue!TypeOK, MessageTypes, ControlTypes, EventTypes
<1>2. Queue!TypeOK' <=> MessageTypes' /\ ControlTypes' /\ EventTypes'
  BY DEF Queue!TypeOK, MessageTypes, ControlTypes, EventTypes
<1>. QED BY <1>1, <1>2, MessageTypesInv, ControlTypesInv, EventTypesInv

\* Every step keeps what a prompt holds.
LEMMA PromptInvInv == Queue!TypeOK /\ PromptInv /\ [Queue!Next]_(Queue!vars) => PromptInv'
<1>. SUFFICES ASSUME Queue!TypeOK, PromptInv, [Queue!Next]_(Queue!vars) PROVE PromptInv'
  OBVIOUS
<1>1. /\ \A k \in 1..Len(steering)' : steering'[k].mode = "steer"
      /\ \A k \in 1..Len(followUps)' : followUps'[k].mode = "follow_up"
 <2>0. MessageTypes /\ MessageTypes' BY MessageTypesInv DEF Queue!TypeOK, MessageTypes
 <2>. USE <2>0 DEF PromptInv, MessageTypes
 <2>1. CASE AcceptsSteer
  <3>. DEFINE m == [id |-> queueSequence + 1, mode |-> "steer"]
  <3>1. m \in Queue!Message /\ m.mode = "steer" BY DEF Queue!Message, Queue!Mode
  <3>2. \A k \in 1..Len(steering)' : k \in 1..Len(steering) \/ k = Len(steering) + 1
    BY <2>1, <3>1, AppendFacts DEF AcceptsSteer
  <3>. HIDE DEF m
  <3>. QED BY <2>1, <3>1, <3>2, AppendFacts DEF AcceptsSteer, m
 <2>2. CASE AcceptsFollowUp
  <3>. DEFINE m == [id |-> queueSequence + 1, mode |-> "follow_up"]
  <3>1. m \in Queue!Message /\ m.mode = "follow_up" BY DEF Queue!Message, Queue!Mode
  <3>2. \A k \in 1..Len(followUps)' : k \in 1..Len(followUps) \/ k = Len(followUps) + 1
    BY <2>2, <3>1, AppendFacts DEF AcceptsFollowUp
  <3>. HIDE DEF m
  <3>. QED BY <2>2, <3>1, <3>2, AppendFacts DEF AcceptsFollowUp, m
 <2>3. CASE TakesSteer BY <2>3, TailFacts DEF TakesSteer
 <2>4. CASE TakesFollowUp BY <2>4, TailFacts DEF TakesFollowUp
 <2>5. CASE Says \/ Loses \/ Keeps BY <2>5 DEF Says, Loses, Keeps, Queue!queues
 <2>. QED BY <2>1, <2>2, <2>3, <2>4, <2>5, Effects
<1>2. /\ (processing <=> prompter \notin {"idle", "settled"})'
      /\ (prompter = "settled" => steering = <<>> /\ followUps = <<>>)'
      /\ (held # Queue!None <=> prompter \in {"delivered", "append"})'
 <2>. USE DEF Queue!queues, Queue!prompt, Queue!frontend, Queue!outcome, Queue!Goto, PromptInv
 <2>1. ASSUME NEW s \in Sender, NEW mode \in Queue!Mode, Queue!Enqueue(s, mode)
       PROVE  prompter' = prompter /\ processing' = processing /\ held' = held /\ prompter # "settled"
   BY <2>1 DEF Queue!Enqueue
 <2>2. ASSUME NEW s \in Sender, Queue!EmitEnqueued(s)
       PROVE  UNCHANGED <<processing, Queue!queues, Queue!prompt>>
   BY <2>2 DEF Queue!EmitEnqueued
 <2>3. CASE Queue!BeginProcessing BY <2>3 DEF Queue!BeginProcessing
 <2>4. CASE Queue!EmitBegin \/ Queue!NoSteer \/ Queue!EmitDelivered \/ Queue!Turn \/ Queue!TurnFails \/ Queue!AgentEnd
   BY <2>4 DEF Queue!EmitBegin, Queue!NoSteer, Queue!EmitDelivered, Queue!Turn, Queue!TurnFails, Queue!AgentEnd
 <2>5. CASE Queue!TakeQueuedSteer \/ Queue!SettleTakes
  <3>1. held' # Queue!None
    BY <2>5, NoMessage, TailFacts DEF Queue!TakeQueuedSteer, Queue!SettleTakes, Queue!TakeSteering, Queue!TakeFollowUp, Queue!TypeOK
  <3>. QED BY <2>5, <3>1 DEF Queue!TakeQueuedSteer, Queue!SettleTakes
 <2>6. CASE Queue!AppendHeld BY <2>6 DEF Queue!AppendHeld
 <2>7. CASE Queue!SettleContinues BY <2>7 DEF Queue!SettleContinues, Queue!Automatic, Queue!None
 <2>8. CASE Queue!Settle BY <2>8 DEF Queue!Settle
 <2>9. CASE Queue!EndProcessing BY <2>9 DEF Queue!EndProcessing
 <2>10. CASE Queue!Quiet \/ UNCHANGED Queue!vars BY <2>10 DEF Queue!Quiet, Queue!vars
 <2>. QED
   BY <2>1, <2>2, <2>3, <2>4, <2>5, <2>6, <2>7, <2>8, <2>9, <2>10 DEF Queue!Next, Queue!PromptStep
<1>. QED BY <1>1, <1>2 DEF PromptInv

----------------------------------------
(* The messages.                                                           *)

\* The message that a step accepts.
QueueAccepted(mode) == [id |-> queueSequence + 1, mode |-> mode]

\* A step accepts a message, or leaves every message somewhere and adds none.
LEMMA SomewhereStep ==
    ASSUME Queue!TypeOK, PromptInv, [Queue!Next]_(Queue!vars)
    PROVE  \/ /\ queueSequence' = queueSequence
              /\ \A x \in Queue!Message : Somewhere(x)' <=> Somewhere(x)
           \/ \E mode \in Queue!Mode :
                /\ queueSequence' = queueSequence + 1
                /\ \A x \in Queue!Message : Somewhere(x)' <=> Somewhere(x) \/ x = QueueAccepted(mode)
<1>0. MessageTypes BY DEF Queue!TypeOK, MessageTypes
<1>. USE <1>0 DEF MessageTypes
<1>1. CASE AcceptsSteer
 <2>. DEFINE m == QueueAccepted("steer")
 <2>1. m \in Queue!Message BY DEF Queue!Message, Queue!Mode, QueueAccepted
 <2>2. steering' = Append(steering, m) /\ UNCHANGED <<followUps, held, said, lost>>
   BY <1>1 DEF AcceptsSteer, QueueAccepted
 <2>. HIDE DEF m
 <2>3. \A x : In(x, steering') <=> In(x, steering) \/ x = m BY <2>1, <2>2, AppendIn
 <2>4. \A x \in Queue!Message : Somewhere(x)' <=> Somewhere(x) \/ x = m BY <2>2, <2>3 DEF Somewhere
 <2>. QED BY <1>1, <2>4 DEF AcceptsSteer, m, Queue!Mode
<1>2. CASE AcceptsFollowUp
 <2>. DEFINE m == QueueAccepted("follow_up")
 <2>1. m \in Queue!Message BY DEF Queue!Message, Queue!Mode, QueueAccepted
 <2>2. followUps' = Append(followUps, m) /\ UNCHANGED <<steering, held, said, lost>>
   BY <1>2 DEF AcceptsFollowUp, QueueAccepted
 <2>. HIDE DEF m
 <2>3. \A x : In(x, followUps') <=> In(x, followUps) \/ x = m BY <2>1, <2>2, AppendIn
 <2>4. \A x \in Queue!Message : Somewhere(x)' <=> Somewhere(x) \/ x = m BY <2>2, <2>3 DEF Somewhere
 <2>. QED BY <1>2, <2>4 DEF AcceptsFollowUp, m, Queue!Mode
<1>3. CASE TakesSteer
 <2>1. \A x : In(x, steering) <=> In(x, steering') \/ x = held' BY <1>3, TailIn DEF TakesSteer
 <2>2. held' \in Queue!Message /\ held \notin Queue!Message
   BY <1>3, TailFacts, NoMessage DEF TakesSteer
 <2>. QED BY <1>3, <2>1, <2>2 DEF TakesSteer, Somewhere
<1>4. CASE TakesFollowUp
 <2>1. \A x : In(x, followUps) <=> In(x, followUps') \/ x = held' BY <1>4, TailIn DEF TakesFollowUp
 <2>2. held' \in Queue!Message /\ held \notin Queue!Message
   BY <1>4, TailFacts, NoMessage DEF TakesFollowUp
 <2>. QED BY <1>4, <2>1, <2>2 DEF TakesFollowUp, Somewhere
<1>5. CASE Says
 <2>1. \A x : In(x, said') <=> In(x, said) \/ x = held BY <1>5, AppendIn DEF Says
 <2>2. held' \notin Queue!Message BY <1>5, NoMessage DEF Says
 <2>. QED BY <1>5, <2>1, <2>2 DEF Says, Somewhere, Queue!queues
<1>6. CASE Loses
 <2>1. held' \notin Queue!Message BY <1>6, NoMessage DEF Loses
 <2>. QED BY <1>6, <2>1 DEF Loses, Somewhere, Queue!queues
<1>7. CASE Keeps BY <1>7, NoMessage DEF Keeps, Somewhere, Queue!queues
<1>. QED BY <1>1, <1>2, <1>3, <1>4, <1>5, <1>6, <1>7, Effects

\* Every step keeps every accepted message in one place.
LEMMA NumberInvInv == Queue!TypeOK /\ PromptInv /\ NumberInv /\ [Queue!Next]_(Queue!vars) => NumberInv'
<1>. SUFFICES ASSUME Queue!TypeOK, PromptInv, NumberInv, [Queue!Next]_(Queue!vars) PROVE NumberInv'
  OBVIOUS
<1>0. queueSequence \in Nat BY DEF Queue!TypeOK
<1>1. CASE /\ queueSequence' = queueSequence
           /\ \A x \in Queue!Message : Somewhere(x)' <=> Somewhere(x)
  BY <1>1 DEF NumberInv
<1>2. ASSUME NEW mode \in Queue!Mode,
             queueSequence' = queueSequence + 1,
             \A x \in Queue!Message : Somewhere(x)' <=> Somewhere(x) \/ x = QueueAccepted(mode)
      PROVE  NumberInv'
 <2>1. QueueAccepted(mode) \in Queue!Message /\ QueueAccepted(mode).id = queueSequence + 1
   BY <1>0 DEF QueueAccepted, Queue!Message
 <2>2. \A x \in Queue!Message : x.id \in Nat BY DEF Queue!Message
 <2>3. ASSUME NEW x \in Queue!Message, Somewhere(x)'
       PROVE  x.id <= queueSequence'
   BY <1>0, <1>2, <2>1, <2>2, <2>3 DEF NumberInv
 <2>4. ASSUME NEW x \in Queue!Message, NEW y \in Queue!Message, Somewhere(x)', Somewhere(y)', x.id = y.id
       PROVE  x = y
   BY <1>0, <1>2, <2>1, <2>2, <2>4 DEF NumberInv
 <2>5. ASSUME NEW i \in 1..queueSequence'
       PROVE  \E x \in Queue!Message : Somewhere(x)' /\ x.id = i
  <3>1. CASE i = queueSequence + 1 BY <1>2, <2>1, <3>1
  <3>2. CASE i \in 1..queueSequence BY <1>2, <3>2 DEF NumberInv
  <3>. QED BY <1>0, <1>2, <2>5, <3>1, <3>2
 <2>. QED BY <2>3, <2>4, <2>5 DEF NumberInv
<1>. QED BY <1>1, <1>2, SomewhereStep

\* A later message at the end keeps a queue in order.
LEMMA AppendIncreasing ==
    ASSUME NEW s \in Seq(Queue!Message), NEW m \in Queue!Message, Increasing(s),
           \A k \in 1..Len(s) : s[k].id < m.id
    PROVE  Increasing(Append(s, m))
<1>. DEFINE t == Append(s, m)
<1>1. /\ Len(s) \in Nat /\ Len(t) = Len(s) + 1 /\ t[Len(s) + 1] = m
      /\ \A i \in 1..Len(s) : t[i] = s[i]
  BY AppendFacts
<1>. HIDE DEF t
<1>2. ASSUME NEW i \in 1..Len(t), NEW j \in 1..Len(t), i < j
      PROVE  t[i].id < t[j].id
 <2>1. i \in 1..Len(s) /\ (j \in 1..Len(s) \/ j = Len(s) + 1) BY <1>1, <1>2
 <2>. QED BY <1>1, <1>2, <2>1 DEF Increasing
<1>. QED BY <1>2 DEF Increasing, t

\* A tail of an ordered queue is in order.
LEMMA TailIncreasing ==
    ASSUME NEW s \in Seq(Queue!Message), s # <<>>, Increasing(s)
    PROVE  Increasing(Tail(s)) /\ \A k \in 1..Len(Tail(s)) : Head(s).id < Tail(s)[k].id
<1>. DEFINE t == Tail(s)
<1>1. /\ Len(s) \in Nat \ {0} /\ Len(t) = Len(s) - 1 /\ Head(s) = s[1]
      /\ \A i \in 1..Len(t) : t[i] = s[i + 1]
  BY TailFacts
<1>. HIDE DEF t
<1>2. \A i \in 1..Len(t) : i + 1 \in 1..Len(s) /\ 1 < i + 1 BY <1>1
<1>3. \A k \in 1..Len(t) : Head(s).id < t[k].id BY <1>1, <1>2 DEF Increasing
<1>4. ASSUME NEW i \in 1..Len(t), NEW j \in 1..Len(t), i < j
      PROVE  t[i].id < t[j].id
 <2>1. i + 1 < j + 1 BY <1>4
 <2>. QED BY <1>1, <1>2, <2>1 DEF Increasing
<1>. QED BY <1>3, <1>4 DEF Increasing, t

\* Accepting a message keeps the order.
LEMMA OrderOfAccepted ==
    ASSUME MessageTypes, PromptInv, NumberInv, OrderInv, AcceptsSteer \/ AcceptsFollowUp
    PROVE  OrderInv'
<1>. USE DEF MessageTypes
<1>1. \A mode \in Queue!Mode : QueueAccepted(mode) \in Queue!Message /\ QueueAccepted(mode).id = queueSequence + 1 /\ QueueAccepted(mode).mode = mode
  BY DEF QueueAccepted, Queue!Message, Queue!Mode
<1>2. ASSUME NEW x \in Queue!Message, Somewhere(x), NEW mode \in Queue!Mode
      PROVE  x.id < QueueAccepted(mode).id
  BY <1>1, <1>2 DEF NumberInv, Queue!Message
<1>3. CASE AcceptsSteer
 <2>. DEFINE m == QueueAccepted("steer")
 <2>1. steering' = Append(steering, m) /\ UNCHANGED <<followUps, held, said, lost>> /\ m \in Queue!Message
   BY <1>1, <1>3 DEF AcceptsSteer, QueueAccepted, Queue!Mode
 <2>2. \A x \in Queue!Message : Somewhere(x) => x.id < m.id BY <1>2 DEF Queue!Mode
 <2>. HIDE DEF m
 <2>3. Increasing(steering')
  <3>1. \A k \in 1..Len(steering) : steering[k] \in Queue!Message /\ Somewhere(steering[k])
    BY DEF Somewhere, In
  <3>. QED BY <2>1, <2>2, <3>1, AppendIncreasing DEF OrderInv
 <2>4. ASSUME NEW x \in Queue!Message, Somewhere(x), Older(x) PROVE Older(x)'
  <3>1. \A k \in 1..Len(steering') : k \in 1..Len(steering) \/ k = Len(steering) + 1
    BY <2>1, AppendFacts
  <3>. QED BY <2>1, <2>2, <2>4, <3>1, AppendFacts DEF Older
 <2>5. \A x \in Queue!Message : x \in lost \/ In(x, said) \/ held = x => Somewhere(x)
   BY DEF Somewhere
 <2>. QED BY <2>1, <2>3, <2>4, <2>5 DEF OrderInv, Queue!DeliveredInOrder
<1>4. CASE AcceptsFollowUp
 <2>. DEFINE m == QueueAccepted("follow_up")
 <2>1. followUps' = Append(followUps, m) /\ UNCHANGED <<steering, held, said, lost>> /\ m \in Queue!Message
   BY <1>1, <1>4 DEF AcceptsFollowUp, QueueAccepted, Queue!Mode
 <2>2. \A x \in Queue!Message : Somewhere(x) => x.id < m.id BY <1>2 DEF Queue!Mode
 <2>. HIDE DEF m
 <2>3. Increasing(followUps')
  <3>1. \A k \in 1..Len(followUps) : followUps[k] \in Queue!Message /\ Somewhere(followUps[k])
    BY DEF Somewhere, In
  <3>. QED BY <2>1, <2>2, <3>1, AppendIncreasing DEF OrderInv
 <2>4. ASSUME NEW x \in Queue!Message, Somewhere(x), Older(x) PROVE Older(x)'
  <3>1. \A k \in 1..Len(followUps') : k \in 1..Len(followUps) \/ k = Len(followUps) + 1
    BY <2>1, AppendFacts
  <3>. QED BY <2>1, <2>2, <2>4, <3>1, AppendFacts DEF Older
 <2>5. \A x \in Queue!Message : x \in lost \/ In(x, said) \/ held = x => Somewhere(x)
   BY DEF Somewhere
 <2>. QED BY <2>1, <2>3, <2>4, <2>5 DEF OrderInv, Queue!DeliveredInOrder
<1>. QED BY <1>3, <1>4

\* Taking a message keeps the order.
LEMMA OrderOfTaken ==
    ASSUME MessageTypes, PromptInv, OrderInv, TakesSteer \/ TakesFollowUp
    PROVE  OrderInv'
<1>. USE DEF MessageTypes
<1>1. CASE TakesSteer
 <2>1. /\ held' = Head(steering) /\ steering' = Tail(steering) /\ steering # <<>>
       /\ UNCHANGED <<followUps, said, lost>>
       /\ Increasing(steering)
   BY <1>1 DEF TakesSteer, OrderInv
 <2>2. /\ held' = steering[1] /\ 1 \in 1..Len(steering) /\ held' \in Queue!Message
       /\ \A k \in 1..Len(steering') : k + 1 \in 1..Len(steering) /\ steering'[k] = steering[k + 1]
   BY <2>1, TailFacts
 <2>3. Increasing(steering') /\ \A k \in 1..Len(steering') : held'.id < steering'[k].id
   BY <2>1, TailIncreasing
 <2>4. held'.mode = "steer" BY <2>2 DEF PromptInv
 <2>5. Older(held)' BY <2>3, <2>4 DEF Older
 <2>6. ASSUME NEW x \in Queue!Message, Older(x)
       PROVE  Older(x)' /\ (held'.mode = x.mode => x.id < held'.id)
   BY <2>1, <2>2, <2>4, <2>6 DEF Older
 <2>. QED BY <2>1, <2>3, <2>5, <2>6 DEF OrderInv, Queue!DeliveredInOrder
<1>2. CASE TakesFollowUp
 <2>1. /\ held' = Head(followUps) /\ followUps' = Tail(followUps) /\ followUps # <<>>
       /\ UNCHANGED <<steering, said, lost>>
       /\ Increasing(followUps)
   BY <1>2 DEF TakesFollowUp, OrderInv
 <2>2. /\ held' = followUps[1] /\ 1 \in 1..Len(followUps) /\ held' \in Queue!Message
       /\ \A k \in 1..Len(followUps') : k + 1 \in 1..Len(followUps) /\ followUps'[k] = followUps[k + 1]
   BY <2>1, TailFacts
 <2>3. Increasing(followUps') /\ \A k \in 1..Len(followUps') : held'.id < followUps'[k].id
   BY <2>1, TailIncreasing
 <2>4. held'.mode = "follow_up" BY <2>2 DEF PromptInv
 <2>5. Older(held)' BY <2>3, <2>4 DEF Older
 <2>6. ASSUME NEW x \in Queue!Message, Older(x)
       PROVE  Older(x)' /\ (held'.mode = x.mode => x.id < held'.id)
   BY <2>1, <2>2, <2>4, <2>6 DEF Older
 <2>. QED BY <2>1, <2>3, <2>5, <2>6 DEF OrderInv, Queue!DeliveredInOrder
<1>. QED BY <1>1, <1>2

\* Appending a message keeps the order.
LEMMA OrderOfAppended ==
    ASSUME MessageTypes, OrderInv, Says \/ Loses \/ Keeps
    PROVE  OrderInv'
<1>. USE DEF MessageTypes
<1>0. \A x \in Queue!Message : x.id \in Nat /\ x.mode \in Queue!Mode BY DEF Queue!Message
<1>1. Queue!None.mode \notin Queue!Mode /\ Queue!Automatic.mode \notin Queue!Mode
  BY DEF Queue!None, Queue!Automatic, Queue!Mode
<1>2. CASE Says
 <2>1. held \in Queue!Message /\ held' = Queue!None /\ said' = Append(said, held) /\ UNCHANGED <<steering, followUps, lost>>
   BY <1>2 DEF Says, Queue!queues
 <2>2. \A x : In(x, said') <=> In(x, said) \/ x = held BY <2>1, AppendIn
 <2>3. held \notin lost BY SMTT(40), <1>0, <2>1 DEF OrderInv
 <2>4. Queue!DeliveredInOrder'
  <3>1. /\ Len(said) \in Nat /\ Len(said') = Len(said) + 1 /\ said'[Len(said) + 1] = held
        /\ \A i \in 1..Len(said) : said'[i] = said[i] /\ said[i] \in Queue!Message /\ In(said[i], said)
    BY <2>1, AppendFacts DEF In
  <3>2. SUFFICES ASSUME NEW i \in 1..Len(said'), NEW j \in 1..Len(said'), i < j,
                        said'[i].mode = said'[j].mode
                 PROVE  said'[i].id < said'[j].id
    BY DEF Queue!DeliveredInOrder
  <3>3. i \in 1..Len(said) /\ (j \in 1..Len(said) \/ j = Len(said) + 1) BY <3>1, <3>2
  <3>. QED BY <3>1, <3>2, <3>3 DEF OrderInv, Queue!DeliveredInOrder
 <2>. QED BY <1>0, <1>1, <2>1, <2>2, <2>3, <2>4, NoMessage DEF OrderInv, Older
<1>3. CASE Loses
 <2>1. held \in Queue!Message /\ held' = Queue!None /\ lost' = lost \cup {held} /\ UNCHANGED <<steering, followUps, said>>
   BY <1>3 DEF Loses, Queue!queues
 <2>2. ~In(held, said) BY <1>0, <2>1 DEF OrderInv
 <2>. QED BY <1>0, <1>1, <2>1, <2>2, NoMessage DEF OrderInv, Older, Queue!DeliveredInOrder
<1>4. CASE Keeps
 <2>1. UNCHANGED <<steering, followUps, said, lost>> /\ (held' = held \/ held' \in {Queue!None, Queue!Automatic})
   BY <1>4 DEF Keeps, Queue!queues
 <2>. QED BY <1>0, <1>1, <2>1, NoMessage DEF OrderInv, Older, Queue!DeliveredInOrder
<1>. QED BY <1>2, <1>3, <1>4

\* The initial states have the invariant.
LEMMA QueueInitInv == Queue!Init => QueueIInv
<1>. SUFFICES ASSUME Queue!Init PROVE QueueIInv
  OBVIOUS
<1>. USE DEF Queue!Init
<1>1. Queue!TypeOK
 <2>1. <<>> \in Seq(Queue!Message) OBVIOUS
 <2>2. MessageTypes BY <2>1 DEF MessageTypes
 <2>3. ControlTypes BY DEF ControlTypes
 <2>4. EventTypes BY <2>1 DEF EventTypes
 <2>. QED BY <2>2, <2>3, <2>4 DEF Queue!TypeOK, MessageTypes, ControlTypes, EventTypes
<1>2. \A x \in Queue!Message : ~Somewhere(x) BY NoMessage DEF Somewhere, In
<1>3. PromptInv BY DEF PromptInv
<1>4. NumberInv BY <1>2 DEF NumberInv
<1>5. OrderInv BY NoMessage DEF OrderInv, Increasing, Queue!DeliveredInOrder, In
<1>. QED BY <1>1, <1>3, <1>4, <1>5 DEF QueueIInv

\* Every step keeps the invariant.
LEMMA QueueNextInv == QueueIInv /\ [Queue!Next]_(Queue!vars) => QueueIInv'
<1>. SUFFICES ASSUME QueueIInv, [Queue!Next]_(Queue!vars) PROVE QueueIInv'
  OBVIOUS
<1>1. Queue!TypeOK' /\ PromptInv' /\ NumberInv' BY TypeInv, PromptInvInv, NumberInvInv DEF QueueIInv
<1>2. MessageTypes BY DEF QueueIInv, Queue!TypeOK, MessageTypes
<1>3. OrderInv' BY <1>2, Effects, OrderOfAccepted, OrderOfTaken, OrderOfAppended DEF QueueIInv
<1>. QED BY <1>1, <1>3 DEF QueueIInv

----------------------------------------
(* What the invariant implies.                                             *)

\* A message is at most once in a sequence of increasing numbers.
LEMMA IncreasingOnce ==
    ASSUME NEW s \in Seq(Queue!Message), Increasing(s),
           NEW k \in 1..Len(s), NEW l \in 1..Len(s), s[k] = s[l]
    PROVE  k = l
<1>0. s[k] \in Queue!Message OBVIOUS
<1>1. s[k].id \in Nat /\ ~(s[k].id < s[k].id) BY <1>0 DEF Queue!Message
<1>2. ~(k < l) /\ ~(l < k) BY <1>1 DEF Increasing
<1>. QED BY <1>2

\* Message i is in exactly one place: its number belongs to one message, which
\* is in one position of one sequence, or is held, or lost.
LEMMA PlacesOfOne ==
    ASSUME Queue!TypeOK, PromptInv, NumberInv, OrderInv, NEW i \in 1..queueSequence
    PROVE  Cardinality(Queue!Places(i)) = 1
<1>. DEFINE At(s) == {k \in 1..Len(s) : s[k].id = i}
<1>0. MessageTypes BY DEF Queue!TypeOK, MessageTypes
<1>. USE <1>0 DEF MessageTypes
<1>1. PICK x \in Queue!Message : Somewhere(x) /\ x.id = i BY DEF NumberInv
<1>2. \A y \in Queue!Message : Somewhere(y) /\ y.id = i => y = x BY <1>1 DEF NumberInv
<1>3. ASSUME NEW s \in Seq(Queue!Message), NEW k \in 1..Len(s), \A y \in Queue!Message : In(y, s) => Somewhere(y)
      PROVE  k \in At(s) <=> s[k] = x
 <2>1. s[k] \in Queue!Message /\ In(s[k], s) BY DEF In
 <2>. QED BY <1>1, <1>2, <1>3, <2>1
<1>4. /\ \A k \in 1..Len(steering) : k \in At(steering) <=> steering[k] = x
      /\ \A k \in 1..Len(followUps) : k \in At(followUps) <=> followUps[k] = x
      /\ \A k \in 1..Len(said) : k \in At(said) <=> said[k] = x
  BY <1>3 DEF Somewhere
<1>5. held.id = i <=> held = x
 <2>1. Queue!None.id = 0 /\ Queue!Automatic.id = 0 /\ x.id # 0
   BY <1>1 DEF Queue!None, Queue!Automatic, Queue!Message
 <2>. QED BY <1>1, <1>2, <2>1 DEF Somewhere
<1>6. \A y \in lost : y.id = i <=> y = x BY <1>1, <1>2 DEF Somewhere
<1>7. \A k, l \in 1..Len(steering) : steering[k] = x /\ steering[l] = x => k = l
  BY IncreasingOnce DEF OrderInv
<1>8. \A k, l \in 1..Len(followUps) : followUps[k] = x /\ followUps[l] = x => k = l
  BY IncreasingOnce DEF OrderInv
<1>9. \A k, l \in 1..Len(said) : said[k] = x /\ said[l] = x => k = l
 <2>1. x.id \in Nat /\ ~(x.id < x.id) BY DEF Queue!Message
 <2>2. SUFFICES ASSUME NEW k \in 1..Len(said), NEW l \in 1..Len(said), said[k] = x, said[l] = x, k # l
                PROVE  FALSE
   OBVIOUS
 <2>3. k < l \/ l < k BY <2>2
 <2>. QED BY <2>1, <2>2, <2>3 DEF OrderInv, Queue!DeliveredInOrder
<1>10. x.mode = "steer" \/ x.mode = "follow_up" BY DEF Queue!Message, Queue!Mode
<1>11. ~(In(x, steering) /\ In(x, followUps)) BY DEF PromptInv, In
<1>12. ~((In(x, said) \/ x \in lost \/ held = x) /\ (In(x, steering) \/ In(x, followUps)))
 <2>1. x.id \in Nat /\ ~(x.id < x.id) BY DEF Queue!Message
 <2>2. In(x, said) \/ x \in lost \/ held = x => Older(x) BY DEF OrderInv
 <2>3. Older(x) => ~In(x, steering) /\ ~In(x, followUps) BY <2>1 DEF Older, In, PromptInv
 <2>. QED BY <2>2, <2>3
<1>13. ~((In(x, said) \/ x \in lost) /\ held = x) /\ ~(In(x, said) /\ x \in lost)
  BY SMTT(40) DEF OrderInv, Queue!Message
<1>14. Queue!Places(i) = {<<"steering", k>> : k \in At(steering)} \cup {<<"followUps", k>> : k \in At(followUps)}
                    \cup {<<"held", 0>> : m \in {y \in {held} : y = x}}
                    \cup {<<"said", k>> : k \in At(said)} \cup {<<"lost", 0>> : m \in {y \in lost : y = x}}
 <2>1. {held} \cap {y \in {held} : y.id = i} = {y \in {held} : y = x} BY <1>5
 <2>2. {y \in lost : y.id = i} = {y \in lost : y = x} BY <1>6
 <2>. QED BY <2>1, <2>2 DEF Queue!Places
<1>15. /\ ~In(x, steering) => At(steering) = {}
       /\ ~In(x, followUps) => At(followUps) = {}
       /\ ~In(x, said) => At(said) = {}
  BY <1>4 DEF In
<1>. HIDE DEF At
<1>16. \E p : Queue!Places(i) = {p}
 <2>1. CASE In(x, steering)
  <3>1. PICK k \in 1..Len(steering) : steering[k] = x BY <2>1 DEF In
  <3>2. At(steering) = {k} BY <1>4, <1>7, <3>1 DEF At
  <3>3. Queue!Places(i) = {<<"steering", k>>} BY <1>11, <1>12, <1>14, <1>15, <2>1, <3>2
  <3>. QED BY <3>3
 <2>2. CASE In(x, followUps)
  <3>1. PICK k \in 1..Len(followUps) : followUps[k] = x BY <2>2 DEF In
  <3>2. At(followUps) = {k} BY <1>4, <1>8, <3>1 DEF At
  <3>3. Queue!Places(i) = {<<"followUps", k>>} BY <1>11, <1>12, <1>14, <1>15, <2>2, <3>2
  <3>. QED BY <3>3
 <2>3. CASE In(x, said)
  <3>1. PICK k \in 1..Len(said) : said[k] = x BY <2>3 DEF In
  <3>2. At(said) = {k} BY <1>4, <1>9, <3>1 DEF At
  <3>3. Queue!Places(i) = {<<"said", k>>} BY <1>12, <1>13, <1>14, <1>15, <2>3, <3>2
  <3>. QED BY <3>3
 <2>4. CASE held = x
  <3>1. Queue!Places(i) = {<<"held", 0>>} BY <1>12, <1>13, <1>14, <1>15, <2>4
  <3>. QED BY <3>1
 <2>5. CASE x \in lost
  <3>1. Queue!Places(i) = {<<"lost", 0>>} BY <1>12, <1>13, <1>14, <1>15, <2>5
  <3>. QED BY <3>1
 <2>. QED BY <1>1, <2>1, <2>2, <2>3, <2>4, <2>5 DEF Somewhere
<1>. QED BY <1>16, FS_Singleton

\* The invariant implies the property.
LEMMA QueueInvImplies == QueueIInv => Queue!QueueSafe
<1>. SUFFICES ASSUME QueueIInv PROVE Queue!QueueSafe
  OBVIOUS
<1>1. Queue!EachMessageOnce
 <2>1. \A S : Queue!Cardinality(S) = Cardinality(S) BY DEF Queue!Cardinality, Cardinality
 <2>. QED BY <2>1, PlacesOfOne DEF QueueIInv, Queue!EachMessageOnce
<1>2. Queue!SettledLeavesNothing BY DEF QueueIInv, PromptInv, Queue!SettledLeavesNothing
<1>. QED BY <1>1, <1>2 DEF QueueIInv, OrderInv, Queue!QueueSafe

----------------------------------------
(* The theorems.                                                           *)

\* The inductive invariant holds in every reachable state.
THEOREM Invariance == Queue!Spec => []QueueIInv
  BY QueueInitInv, QueueNextInv, PTL DEF Queue!Spec

\* Whatever the interleaving of the prompt with any number of senders: every
\* message Steer or FollowUp accepted is in one place, a prompt that settles
\* (settleOrTakeQueuedOr) leaves none behind, and the messages of each mode are
\* appended in the order they were accepted in.
THEOREM QueueIsSafe == Queue!Spec => []Queue!QueueSafe
  BY Invariance, QueueInvImplies, PTL

----------------------------------------
(* The RPC front end.                                                      *)

----------------------------------------
(* The inductive invariant.                                                *)

\* The messages of the client are not told apart, but from wakes.
RpcParameters == "message" \notin Wake

RunT == [at : Rpcs!RunPoints, ok : BOOLEAN, canceled : BOOLEAN, wake : BOOLEAN, release : BOOLEAN]
CommandT == [at : {"running", "answering", "answered", "done"}, exclusive : BOOLEAN, canceled : BOOLEAN]
QuestionT == [by : {"none", "run", "command"} \X Nat, open : BOOLEAN, sent : Nat,
              at : {"unasked", "waiting", "returned"}]
ReaderT == [at : {"ready", "started", "queue", "aborting", "ends", "shutdown", "waiting", "exited"},
            run : Nat, command : Nat]

BudgetT == [prompts : Nat, failures : Nat, broken : BOOLEAN]

ServerTypes ==
  /\ active \in BOOLEAN /\ settling \in BOOLEAN /\ closed \in BOOLEAN /\ stopped \in BOOLEAN
  /\ command \in 0..Len(commands) /\ cancel \in 0..Len(runs)
  /\ runs \in Seq(RunT) /\ commands \in Seq(CommandT)

RpcOtherTypes ==
  /\ reader \in ReaderT /\ seen \in {"settled", "agent_start", "agent_end"}
  /\ questions \in [Input -> QuestionT]
  /\ budget \in BudgetT
  /\ pending \in Seq(Wake) /\ agent \in [processing : BOOLEAN, queue : Seq(Wake \cup {"message"})]
  /\ taken \subseteq Wake /\ dropped \subseteq Wake

\* Where the last run is; a server without one is like one whose run is done.
Current == IF runs = <<>> THEN "done" ELSE runs[Len(runs)].at

\* The last run is the one that may be live, and the fields of the server, the
\* agent and the client know where it is.
RunsInv ==
  /\ \A r \in DOMAIN runs : Rpcs!Live(r) => r = Len(runs)
  /\ active <=> Current # "done"
  /\ active => cancel = Len(runs)
  /\ agent.processing => Current \in {"held", "running"}
  /\ settling => Current \in {"settling", "settled"}
  /\ seen = CASE Current \in {"running", "continued"} -> "agent_start"
              [] Current \in {"ended", "settling"} -> "agent_end"
              [] OTHER -> "settled"

\* A question is in the table while it waits and has no reply; the end of the
\* input closes the server, and then empties the table.
QuestionsInv ==
  /\ \A i \in Input :
       /\ questions[i].sent <= 1
       /\ questions[i].open => questions[i].at = "waiting"
       /\ questions[i].at = "waiting" => (questions[i].open <=> questions[i].sent = 0)
       /\ questions[i].at = "unasked" => questions[i].sent = 0
  /\ closed <=> reader.at \in {"shutdown", "waiting", "exited"}
  /\ reader.at \in {"waiting", "exited"} => \A i \in Input : ~questions[i].open
  /\ reader.at = "started" => reader.run \in DOMAIN runs

RpcIInv == ServerTypes /\ RpcOtherTypes /\ RunsInv /\ Rpcs!CommandIsExclusive /\ QuestionsInv /\ Rpcs!WakeOnce

----------------------------------------
(* Sequences.                                                              *)

\* A sequence with another element at one place.
LEMMA Replaced ==
  ASSUME NEW S, NEW q \in Seq(S), NEW r \in DOMAIN q, NEW x \in S
  PROVE  /\ [q EXCEPT ![r] = x] \in Seq(S) /\ Len([q EXCEPT ![r] = x]) = Len(q)
         /\ DOMAIN [q EXCEPT ![r] = x] = DOMAIN q
         /\ [q EXCEPT ![r] = x][r] = x
         /\ \A s \in DOMAIN q : s # r => [q EXCEPT ![r] = x][s] = q[s]
  BY ExceptSeq

\* A sequence with one more element.
LEMMA Extended ==
  ASSUME NEW S, NEW q \in Seq(S), NEW x \in S
  PROVE  /\ Append(q, x) \in Seq(S) /\ Len(Append(q, x)) = Len(q) + 1 /\ Append(q, x) # <<>>
         /\ DOMAIN Append(q, x) = DOMAIN q \cup {Len(q) + 1} /\ Len(q) \in Nat /\ DOMAIN q = 1..Len(q)
         /\ Append(q, x)[Len(q) + 1] = x
         /\ \A s \in DOMAIN q : Append(q, x)[s] = q[s]
  OBVIOUS

\* A sequence that is not empty: its head, and what is left.
LEMMA Split ==
  ASSUME NEW S, NEW q \in Seq(S), q # <<>>
  PROVE  /\ Tail(q) \in Seq(S) /\ Head(q) \in S /\ Head(q) = q[1] /\ Len(q) \in Nat \ {0}
         /\ DOMAIN q = 1..Len(q) /\ DOMAIN Tail(q) = 1..(Len(q) - 1)
         /\ \A s \in DOMAIN Tail(q) : Tail(q)[s] = q[s + 1]
  OBVIOUS

\* Another wake at the end of a queue that has it not.
LEMMA Pushed ==
  ASSUME NEW S, NEW q \in Seq(S), NEW w \in S, Rpcs!Once(q), w \in Wake => w \notin Rpcs!ToSet(q)
  PROVE  Append(q, w) \in Seq(S) /\ Rpcs!Once(Append(q, w)) /\ Rpcs!ToSet(Append(q, w)) = Rpcs!ToSet(q) \cup {w}
<1>1. Rpcs!ToSet(Append(q, w)) = Rpcs!ToSet(q) \cup {w} BY Extended DEF Rpcs!ToSet
<1>2. ASSUME NEW i \in DOMAIN Append(q, w), NEW j \in DOMAIN Append(q, w),
             Append(q, w)[i] \in Wake, Append(q, w)[i] = Append(q, w)[j]
      PROVE  i = j
 <2>1. (i \in DOMAIN q \/ i = Len(q) + 1) /\ (j \in DOMAIN q \/ j = Len(q) + 1) BY Extended
 <2>2. CASE i \in DOMAIN q /\ j \in DOMAIN q BY <1>2, <2>2, Extended DEF Rpcs!Once
 <2>3. CASE i \in DOMAIN q /\ j = Len(q) + 1 BY <1>2, <2>3, Extended DEF Rpcs!ToSet
 <2>4. CASE i = Len(q) + 1 /\ j \in DOMAIN q BY <1>2, <2>4, Extended DEF Rpcs!ToSet
 <2>. QED BY <2>1, <2>2, <2>3, <2>4
<1>. QED BY <1>1, <1>2, Extended DEF Rpcs!Once

\* The first of a queue leaves it.
LEMMA Popped ==
  ASSUME NEW S, NEW q \in Seq(S), q # <<>>, Rpcs!Once(q)
  PROVE  /\ Tail(q) \in Seq(S) /\ Head(q) \in S /\ Head(q) \in Rpcs!ToSet(q) /\ Rpcs!Once(Tail(q))
         /\ Rpcs!ToSet(Tail(q)) \subseteq Rpcs!ToSet(q)
         /\ Head(q) \in Wake => Head(q) \notin Rpcs!ToSet(Tail(q))
<1>1. \A s \in DOMAIN Tail(q) : s + 1 \in DOMAIN q /\ s + 1 # 1 /\ Tail(q)[s] = q[s + 1] BY Split
<1>2. Head(q) \in Rpcs!ToSet(q) /\ 1 \in DOMAIN q /\ Head(q) = q[1] BY Split DEF Rpcs!ToSet
<1>3. Rpcs!ToSet(Tail(q)) \subseteq Rpcs!ToSet(q) BY <1>1 DEF Rpcs!ToSet
<1>4. Rpcs!Once(Tail(q))
 <2> SUFFICES ASSUME NEW i \in DOMAIN Tail(q), NEW j \in DOMAIN Tail(q), Tail(q)[i] \in Wake,
                     Tail(q)[i] = Tail(q)[j]
     PROVE  i = j
   BY DEF Rpcs!Once
 <2>1. i + 1 = j + 1 BY <1>1 DEF Rpcs!Once
 <2>. QED BY <2>1, Split
<1>5. Head(q) \in Wake => Head(q) \notin Rpcs!ToSet(Tail(q)) BY <1>1, <1>2 DEF Rpcs!ToSet, Rpcs!Once
<1>. QED BY <1>2, <1>3, <1>4, <1>5, Split

----------------------------------------
(* What the steps do to the runs.                                          *)

\* The runs stay where they are.
Stays ==
  /\ runs' \in Seq(RunT) /\ Len(runs') = Len(runs) /\ \A r \in DOMAIN runs : runs'[r].at = runs[r].at
  /\ UNCHANGED <<active, cancel, settling, seen>> /\ agent'.processing = agent.processing

\* A run starts.
Starts ==
  /\ ~active /\ active' = TRUE /\ cancel' = Len(runs) + 1
  /\ \E x \in RunT : x.at = "begun" /\ runs' = Append(runs, x)
  /\ UNCHANGED <<settling, seen>> /\ agent'.processing = agent.processing

\* What startPromptLocked does to them.
LEMMA RpcStart ==
  ASSUME ServerTypes, NEW release \in BOOLEAN, NEW wake \in BOOLEAN, ~active,
         Rpcs!StartPromptLocked(release, wake), UNCHANGED <<settling, seen>>, agent'.processing = agent.processing
  PROVE  Starts
<1> DEFINE x == [at |-> "begun", ok |-> TRUE, canceled |-> FALSE, wake |-> wake, release |-> release]
<1>1. x \in RunT /\ x.at = "begun" BY DEF RunT, Rpcs!RunPoints
<1>2. runs' = Append(runs, x) /\ active' = TRUE /\ cancel' = Len(runs) + 1
  BY DEF Rpcs!StartPromptLocked, Rpcs!StartPromptWith
<1>. QED BY <1>1, <1>2 DEF Starts

\* What leaves them alone.
LEMMA Still ==
  ASSUME ServerTypes, UNCHANGED <<runs, active, cancel, settling, seen>>, agent'.processing = agent.processing
  PROVE  Stays
  BY DEF Stays, ServerTypes

\* An abort or the end of the input cancels a run and leaves it where it is.
LEMMA Canceling ==
  ASSUME ServerTypes, NEW point, Rpcs!CancelTaken(point), UNCHANGED <<active, cancel, settling, seen, agent>>
  PROVE  /\ Stays
         /\ commands' \in Seq(CommandT) /\ Len(commands') = Len(commands)
         /\ \A c \in DOMAIN commands : commands'[c].exclusive = commands[c].exclusive
<1>1. runs \in Seq(RunT) /\ DOMAIN runs = 1..Len(runs) /\ Len(runs) \in Nat BY DEF ServerTypes
<1>2. runs' = [r \in 1..Len(runs) |-> [runs[r] EXCEPT !.canceled = @ \/ (r = reader.run /\ Rpcs!Live(r))]]
  BY <1>1 DEF Rpcs!CancelTaken
<1>3. \A r \in 1..Len(runs) : runs[r] \in RunT BY <1>1
<1>4. \A r \in 1..Len(runs) : runs'[r] \in RunT /\ runs'[r].at = runs[r].at BY <1>2, <1>3 DEF RunT
<1>5. runs' \in Seq(RunT) /\ Len(runs') = Len(runs)
 <2>1. runs' \in [1..Len(runs) -> RunT] BY <1>2, <1>4
 <2>. QED BY <2>1, <1>1
<1>6. commands \in Seq(CommandT) /\ DOMAIN commands = 1..Len(commands) /\ Len(commands) \in Nat
  BY DEF ServerTypes
<1>7. commands' = [c \in 1..Len(commands) |->
                     [commands[c] EXCEPT !.canceled = @ \/ (c = reader.command /\ commands[c].at # "done")]]
  BY <1>6 DEF Rpcs!CancelTaken
<1>8. \A c \in 1..Len(commands) : commands[c] \in CommandT BY <1>6
<1>9. \A c \in 1..Len(commands) : commands'[c] \in CommandT /\ commands'[c].exclusive = commands[c].exclusive
  BY <1>7, <1>8 DEF CommandT
<1>10. commands' \in Seq(CommandT) /\ Len(commands') = Len(commands)
 <2>1. commands' \in [1..Len(commands) -> CommandT] BY <1>7, <1>9
 <2>. QED BY <2>1, <1>6
<1>. QED BY <1>1, <1>4, <1>5, <1>6, <1>9, <1>10 DEF Stays

\* Every step leaves the runs where they are, starts one, or is one of a run.
LEMMA RunsNext ==
  ASSUME ServerTypes, RpcOtherTypes, QuestionsInv, [Rpcs!Next]_(Rpcs!vars)
  PROVE  Stays \/ Starts \/ \E r \in DOMAIN runs : Rpcs!RunStep(r)
<1>1. CASE UNCHANGED Rpcs!vars BY <1>1, Still DEF Rpcs!vars, Rpcs!server
<1>2. CASE \E r \in DOMAIN runs : Rpcs!RunStep(r) BY <1>2
<1>3. ASSUME NEW w \in Wake, Rpcs!FollowUp(w)
      PROVE  Stays \/ Starts
 <2>1. CASE closed BY <1>3, <2>1, Still DEF Rpcs!FollowUp, Rpcs!server
 <2>2. CASE ~closed /\ (settling \/ Rpcs!Exclusive \/ (~active /\ pending # <<>>))
  <3>1. CASE Rpcs!MayStartPending(Append(pending, w), active, Rpcs!Exclusive)
    BY <1>3, <2>2, <3>1, RpcStart DEF Rpcs!FollowUp, Rpcs!MayStartPending
  <3>2. CASE ~Rpcs!MayStartPending(Append(pending, w), active, Rpcs!Exclusive)
    BY <1>3, <2>2, <3>2, Still DEF Rpcs!FollowUp
  <3>. QED BY <3>1, <3>2
 <2>3. CASE ~closed /\ ~(settling \/ Rpcs!Exclusive \/ (~active /\ pending # <<>>)) /\ ~active
  <3>1. CASE stopped BY <1>3, <2>3, <3>1, Still DEF Rpcs!FollowUp
  <3>2. CASE ~stopped BY <1>3, <2>3, <3>2, RpcStart DEF Rpcs!FollowUp
  <3>. QED BY <3>1, <3>2
 <2>4. CASE ~closed /\ ~(settling \/ Rpcs!Exclusive \/ (~active /\ pending # <<>>)) /\ active
  <3>1. UNCHANGED <<runs, active, cancel, settling, seen>> BY <1>3, <2>4 DEF Rpcs!FollowUp
  <3>2. agent' = [agent EXCEPT !.queue = Append(@, w)] \/ agent' = agent
    BY <1>3, <2>4 DEF Rpcs!FollowUp
  <3>3. agent'.processing = agent.processing BY <3>2 DEF RpcOtherTypes
  <3>. QED BY <3>1, <3>3, Still
 <2>. QED BY <2>1, <2>2, <2>3, <2>4 DEF ServerTypes
<1>4. ASSUME NEW c \in DOMAIN commands, Rpcs!CommandStep(c)
      PROVE  Stays \/ Starts
 <2>1. CASE Rpcs!CommandReturns(c) \/ Rpcs!CommandAnswers(c)
   BY <2>1, Still DEF Rpcs!CommandReturns, Rpcs!CommandAnswers
 <2>2. CASE Rpcs!CommandEnds(c) /\ Rpcs!MayStartPending(pending, active, Rpcs!Exclusive)
   BY <2>2, RpcStart DEF Rpcs!CommandEnds, Rpcs!MayStartPending
 <2>3. CASE Rpcs!CommandEnds(c) /\ ~Rpcs!MayStartPending(pending, active, Rpcs!Exclusive)
   BY <2>3, Still DEF Rpcs!CommandEnds
 <2>. QED BY <1>4, <2>1, <2>2, <2>3 DEF Rpcs!CommandStep
<1>5. CASE Rpcs!Prompt
 <2>1. CASE ~Rpcs!Exclusive /\ Rpcs!MayStartPending(pending, active, FALSE)
   BY <1>5, <2>1, RpcStart DEF Rpcs!Prompt, Rpcs!MayStartPending
 <2>2. CASE ~Rpcs!Exclusive /\ ~Rpcs!MayStartPending(pending, active, FALSE) /\ ~active
   BY <1>5, <2>2, RpcStart DEF Rpcs!Prompt
 <2>3. CASE Rpcs!Exclusive \/ (~Rpcs!MayStartPending(pending, active, FALSE) /\ active)
   BY <1>5, <2>3, Still DEF Rpcs!Prompt
 <2>. QED BY <2>1, <2>2, <2>3
<1>6. CASE Rpcs!Queue \/ (\E e \in BOOLEAN : Rpcs!ExtensionCommand(e)) \/ Rpcs!Abort \/ Rpcs!EndOfInput \/ Rpcs!InputClosed \/ Rpcs!Shutdown
           \/ Rpcs!Exit \/ Rpcs!OutputBreaks \/ Rpcs!Quiet
  BY <1>6, Still DEF Rpcs!Queue, Rpcs!ExtensionCommand, Rpcs!Abort, Rpcs!EndOfInput, Rpcs!InputClosed, Rpcs!Shutdown, Rpcs!Exit, Rpcs!OutputBreaks, Rpcs!Quiet,
                     Rpcs!server, Rpcs!vars
<1>7. CASE \E i \in Input : \/ \E who \in Rpcs!Owners : Rpcs!Ask(i, who)
                            \/ Rpcs!InputResponse(i) \/ Rpcs!InputCanceled(i) \/ Rpcs!InputReturns(i)
  BY <1>7, Still DEF Rpcs!Ask, Rpcs!InputResponse, Rpcs!InputCanceled, Rpcs!InputReturns, Rpcs!server
<1>8. CASE Rpcs!QueueAtAgent
 <2>1. agent'.processing = agent.processing BY <1>8 DEF Rpcs!QueueAtAgent, RpcOtherTypes
 <2>. QED BY <1>8, <2>1, Still DEF Rpcs!QueueAtAgent, Rpcs!server
<1>9. CASE Rpcs!PromptStarted
 <2>1. reader.run \in DOMAIN runs /\ runs[reader.run] \in RunT
   BY <1>9 DEF Rpcs!PromptStarted, QuestionsInv, ServerTypes
 <2> DEFINE x == [runs[reader.run] EXCEPT !.release = TRUE]
 <2>2. x \in RunT /\ x.at = runs[reader.run].at BY <2>1 DEF RunT
 <2>3. runs' = [runs EXCEPT ![reader.run] = x] /\ UNCHANGED <<active, cancel, settling, seen, agent>>
   BY <1>9 DEF Rpcs!PromptStarted, Rpcs!server
 <2> HIDE DEF x
 <2>. QED BY <2>1, <2>2, <2>3, Replaced DEF Stays, ServerTypes
<1>10. CASE Rpcs!Aborts \/ Rpcs!ShutdownCancels
  BY <1>10, Canceling DEF Rpcs!Aborts, Rpcs!ShutdownCancels, Rpcs!server
<1>. QED
  BY <1>1, <1>2, <1>3, <1>4, <1>5, <1>6, <1>7, <1>8, <1>9, <1>10 DEF Rpcs!Next, Rpcs!ReaderStep

\* A live run is the last one, and moves alone.
LEMMA RunMoved ==
  ASSUME ServerTypes, RunsInv, NEW r \in DOMAIN runs, Rpcs!Live(r), NEW y \in RunT, NEW new, new = [runs EXCEPT ![r] = y]
  PROVE  /\ r = Len(runs) /\ Current = runs[r].at /\ runs # <<>> /\ Len(runs) \in Nat
         /\ new \in Seq(RunT) /\ new # <<>> /\ Len(new) = Len(runs) /\ DOMAIN new = DOMAIN runs
         /\ new[Len(new)].at = y.at
         /\ \A s \in DOMAIN new : new[s].at # "done" => s = Len(new)
<1>1. r = Len(runs) BY DEF RunsInv
<1>2. runs # <<>> /\ Len(runs) \in Nat BY DEF ServerTypes
<1>3. /\ new \in Seq(RunT) /\ Len(new) = Len(runs) /\ DOMAIN new = DOMAIN runs /\ new[r] = y
      /\ \A s \in DOMAIN runs : s # r => new[s] = runs[s]
  BY Replaced DEF ServerTypes
<1>4. \A s \in DOMAIN runs : s # r => runs[s].at = "done" BY <1>1 DEF RunsInv, Rpcs!Live
<1>5. new # <<>> BY <1>3
<1>. QED BY <1>1, <1>2, <1>3, <1>4, <1>5 DEF Current

\* What a step of a run does to the runs.
RpcMoves(r, y) ==
  /\ Rpcs!Live(r) /\ y.at # "done" /\ runs' = [runs EXCEPT ![r] = y] /\ UNCHANGED <<active, cancel>>

Finishes(r) ==
  /\ runs[r].at = "settled" /\ settling' = FALSE /\ UNCHANGED <<agent, seen>>
  /\ \/ runs' = [runs EXCEPT ![r] = Rpcs!Ended] /\ active' = FALSE /\ cancel' = 0
     \/ /\ active' = TRUE /\ cancel' = Len(runs) + 1
        /\ \E x \in RunT : x.at = "begun" /\ runs' = Append([runs EXCEPT ![r] = Rpcs!Ended], x)

\* The steps of a run, one by one.
LEMMA RunStepNext ==
  ASSUME ServerTypes, RpcOtherTypes, NEW r \in DOMAIN runs, Rpcs!RunStep(r)
  PROVE  \/ Finishes(r)
         \/ \E y \in RunT :
              /\ RpcMoves(r, y)
              /\ \/ /\ <<runs[r].at, y.at>> \in {<<"begun", "held">>, <<"continued", "running">>}
                    /\ agent'.processing /\ UNCHANGED <<settling, seen>>
                 \/ /\ runs[r].at = "held" /\ y.at = "running"
                    /\ UNCHANGED <<settling, agent>> /\ seen' = "agent_start"
                 \/ /\ runs[r].at = "running" /\ y.at = "running"
                    /\ UNCHANGED <<settling, seen>> /\ agent'.processing = agent.processing
                 \/ /\ runs[r].at = "running" /\ y.at = "ended"
                    /\ UNCHANGED settling /\ ~agent'.processing /\ seen' = "agent_end"
                 \/ /\ runs[r].at = "ended" /\ y.at = "settling"
                    /\ settling' = TRUE /\ UNCHANGED <<agent, seen>>
                 \/ /\ runs[r].at = "ended" /\ y.at = "continued"
                    /\ UNCHANGED <<settling, agent>> /\ seen' = "agent_start"
                 \/ /\ runs[r].at = "settling" /\ y.at = "settled"
                    /\ UNCHANGED <<settling, agent>> /\ seen' = "settled"
<1>0. runs[r] \in RunT /\ agent \in [processing : BOOLEAN, queue : Seq(Wake \cup {"message"})]
  BY DEF ServerTypes, RpcOtherTypes
<1>1. ASSUME NEW p \in Rpcs!RunPoints
      PROVE  [runs[r] EXCEPT !.at = p] \in RunT /\ [runs[r] EXCEPT !.at = p].at = p
  BY <1>0 DEF RunT
<1>2. CASE Rpcs!RunBegins(r)
 <2>1. PICK p \in {"held", "running"} :
          runs' = [runs EXCEPT ![r] = [runs[r] EXCEPT !.at = p]] /\ (p = "held" <=> runs[r].at = "begun")
   BY <1>2 DEF Rpcs!RunBegins
 <2>2. agent'.processing /\ UNCHANGED <<active, cancel, settling, seen>> /\ runs[r].at \in {"begun", "continued"}
   BY <1>0, <1>2 DEF Rpcs!RunBegins, Rpcs!server
 <2>. QED BY <1>1, <2>1, <2>2 DEF RpcMoves, Rpcs!Live, Rpcs!RunPoints
<1>3. CASE Rpcs!RunReleased(r)
 <2>1. runs' = [runs EXCEPT ![r] = [runs[r] EXCEPT !.at = "running"]] BY <1>3 DEF Rpcs!RunReleased
 <2>2. UNCHANGED <<active, cancel, settling, agent>> /\ seen' = "agent_start" /\ runs[r].at = "held"
   BY <1>3 DEF Rpcs!RunReleased, Rpcs!server
 <2>. QED BY <1>1, <2>1, <2>2 DEF RpcMoves, Rpcs!Live, Rpcs!RunPoints
<1>4. CASE Rpcs!RunSettles(r) /\ agent.queue # <<>>
 <2>1. runs' = [runs EXCEPT ![r] = runs[r]] BY <1>0, <1>4 DEF Rpcs!RunSettles, ServerTypes
 <2>2. /\ UNCHANGED <<active, cancel, settling, seen>> /\ runs[r].at = "running"
       /\ agent'.processing = agent.processing
   BY <1>0, <1>4 DEF Rpcs!RunSettles, Rpcs!server
 <2>. QED BY <1>0, <2>1, <2>2 DEF RpcMoves, Rpcs!Live
<1>5. CASE Rpcs!RunSettles(r) /\ agent.queue = <<>>
 <2>1. runs' = [runs EXCEPT ![r] = [runs[r] EXCEPT !.at = "ended"]] BY <1>5 DEF Rpcs!RunSettles
 <2>2. /\ UNCHANGED <<active, cancel, settling>> /\ runs[r].at = "running" /\ seen' = "agent_end"
       /\ ~agent'.processing
   BY <1>0, <1>5 DEF Rpcs!RunSettles, Rpcs!server
 <2>. QED BY <1>1, <2>1, <2>2 DEF RpcMoves, Rpcs!Live, Rpcs!RunPoints
<1>6. CASE Rpcs!RunFails(r)
 <2> DEFINE y == [runs[r] EXCEPT !.at = "ended", !.ok = FALSE]
 <2>1. runs' = [runs EXCEPT ![r] = y] BY <1>0, <1>6 DEF Rpcs!RunFails, ServerTypes
 <2>2. y \in RunT /\ y.at = "ended" BY <1>0 DEF RunT, Rpcs!RunPoints
 <2>3. /\ UNCHANGED <<active, cancel, settling>> /\ runs[r].at = "running" /\ seen' = "agent_end"
       /\ ~agent'.processing
   BY <1>0, <1>6 DEF Rpcs!RunFails, Rpcs!server
 <2> HIDE DEF y
 <2>. QED BY <2>1, <2>2, <2>3 DEF RpcMoves, Rpcs!Live
<1>7. CASE Rpcs!RunDecides(r)
 <2>1. /\ UNCHANGED <<active, cancel, agent>> /\ runs[r].at = "ended"
       /\ \/ /\ runs' = [runs EXCEPT ![r] = [runs[r] EXCEPT !.at = "settling"]]
             /\ settling' = TRUE /\ UNCHANGED seen
          \/ /\ runs' = [runs EXCEPT ![r] = [runs[r] EXCEPT !.at = "continued"]]
             /\ UNCHANGED settling /\ seen' = "agent_start"
   BY <1>7 DEF Rpcs!RunDecides
 <2>. QED BY <1>1, <2>1 DEF RpcMoves, Rpcs!Live, Rpcs!RunPoints
<1>8. CASE Rpcs!RunReportsSettled(r)
 <2>1. runs' = [runs EXCEPT ![r] = [runs[r] EXCEPT !.at = "settled"]]
   BY <1>8 DEF Rpcs!RunReportsSettled
 <2>2. UNCHANGED <<active, cancel, settling, agent>> /\ runs[r].at = "settling" /\ seen' = "settled"
   BY <1>8 DEF Rpcs!RunReportsSettled, Rpcs!server
 <2>. QED BY <1>1, <2>1, <2>2 DEF RpcMoves, Rpcs!Live, Rpcs!RunPoints
<1>9. CASE Rpcs!RunRetires(r)
 <2> DEFINE ended == [runs EXCEPT ![r] = Rpcs!Ended]
            x == [at |-> "begun", ok |-> TRUE, canceled |-> FALSE, wake |-> TRUE, release |-> TRUE]
 <2>1. x \in RunT /\ x.at = "begun" /\ Rpcs!Ended \in RunT BY DEF RunT, Rpcs!RunPoints, Rpcs!Ended
 <2>2. Len(ended) = Len(runs) BY <2>1, Replaced DEF ServerTypes
 <2>3. /\ runs[r].at = "settled" /\ settling' = FALSE /\ UNCHANGED <<agent, seen>>
       /\ \/ runs' = ended /\ active' = FALSE /\ cancel' = 0
          \/ active' = TRUE /\ cancel' = Len(ended) + 1 /\ runs' = Append(ended, x)
  <3>1. CASE Rpcs!MayStartPending(pending, FALSE, Rpcs!Exclusive)
    BY <1>9, <3>1 DEF Rpcs!RunRetires, Rpcs!StartPromptWith
  <3>2. CASE ~Rpcs!MayStartPending(pending, FALSE, Rpcs!Exclusive) BY <1>9, <3>2 DEF Rpcs!RunRetires
  <3>. QED BY <3>1, <3>2
 <2> HIDE DEF x
 <2>. QED BY <2>1, <2>2, <2>3 DEF Finishes
<1>. QED BY <1>2, <1>3, <1>4, <1>5, <1>6, <1>7, <1>8, <1>9 DEF Rpcs!RunStep

\* The server, the agent and the client keep track of the one run.
LEMMA RunsKept ==
  ASSUME ServerTypes, RpcOtherTypes, RunsInv, QuestionsInv, [Rpcs!Next]_(Rpcs!vars)
  PROVE  RunsInv' /\ runs' \in Seq(RunT) /\ cancel' \in 0..Len(runs') /\ Len(runs) <= Len(runs')
<1>0. runs \in Seq(RunT) /\ Len(runs) \in Nat /\ DOMAIN runs = 1..Len(runs) /\ cancel \in 0..Len(runs)
  BY DEF ServerTypes
<1>1. CASE Stays
 <2>1. Current' = Current BY <1>0, <1>1 DEF Stays, Current
 <2>2. DOMAIN runs' = DOMAIN runs /\ \A r \in DOMAIN runs : Rpcs!Live(r)' = Rpcs!Live(r)
   BY <1>0, <1>1 DEF Stays, Rpcs!Live
 <2>3. \A r \in DOMAIN runs' : Rpcs!Live(r)' => r = Len(runs') BY <1>1, <2>2 DEF Stays, RunsInv
 <2>4. /\ active' <=> Current' # "done"
       /\ active' => cancel' = Len(runs')
       /\ agent'.processing => Current' \in {"held", "running"}
       /\ settling' => Current' \in {"settling", "settled"}
   BY <1>1, <2>1 DEF Stays, RunsInv
 <2>5. seen' = CASE Current' \in {"running", "continued"} -> "agent_start"
                 [] Current' \in {"ended", "settling"} -> "agent_end"
                 [] OTHER -> "settled"
   BY <1>1, <2>1 DEF Stays, RunsInv
 <2>. QED BY <1>0, <1>1, <2>3, <2>4, <2>5 DEF Stays, RunsInv
<1>2. CASE Starts
 <2>1. PICK x \in RunT : x.at = "begun" /\ runs' = Append(runs, x) BY <1>2 DEF Starts
 <2>2. /\ runs' \in Seq(RunT) /\ Len(runs') = Len(runs) + 1 /\ runs' # <<>> /\ runs'[Len(runs')] = x
       /\ DOMAIN runs' = DOMAIN runs \cup {Len(runs')} /\ \A s \in DOMAIN runs : runs'[s] = runs[s]
   BY <1>0, <2>1, Extended
 <2>3. Current = "done" /\ Current' = "begun" BY <1>2, <2>1, <2>2 DEF Starts, RunsInv, Current
 <2>4. \A r \in DOMAIN runs : runs[r].at = "done" BY <1>0, <2>3 DEF RunsInv, Rpcs!Live, Current
 <2>5. \A r \in DOMAIN runs' : Rpcs!Live(r)' => r = Len(runs') BY <2>2, <2>4 DEF Rpcs!Live
 <2>6. ~agent'.processing /\ ~settling' /\ seen' = "settled"
   BY <1>2, <2>3 DEF Starts, RunsInv, RpcOtherTypes, ServerTypes
 <2>. QED BY <1>0, <1>2, <2>2, <2>3, <2>5, <2>6 DEF Starts, RunsInv
<1>3. ASSUME NEW r \in DOMAIN runs, Rpcs!RunStep(r), Finishes(r)
      PROVE  RunsInv' /\ runs' \in Seq(RunT) /\ cancel' \in 0..Len(runs') /\ Len(runs) <= Len(runs')
 <2> DEFINE ended == [runs EXCEPT ![r] = Rpcs!Ended]
 <2>1. Rpcs!Ended \in RunT /\ Rpcs!Ended.at = "done" /\ Rpcs!Live(r)
   BY <1>3 DEF Finishes, Rpcs!Ended, RunT, Rpcs!RunPoints, Rpcs!Live
 <2>2. /\ Current = "settled" /\ ended \in Seq(RunT) /\ Len(ended) = Len(runs) /\ DOMAIN ended = DOMAIN runs
       /\ ended # <<>> /\ \A s \in DOMAIN ended : ended[s].at = "done"
   BY <1>0, <1>3, <2>1, RunMoved DEF Finishes
 <2>3. ~agent'.processing /\ settling' = FALSE /\ seen' = "settled"
   BY <1>3, <2>2 DEF Finishes, RunsInv, RpcOtherTypes
 <2> HIDE DEF ended
 <2>4. CASE runs' = ended /\ active' = FALSE /\ cancel' = 0
  <3>1. Current' = "done" /\ \A s \in DOMAIN runs' : ~Rpcs!Live(s)'
    BY <1>0, <2>2, <2>4 DEF Current, Rpcs!Live
  <3>. QED BY <1>0, <2>2, <2>3, <2>4, <3>1 DEF RunsInv
 <2>5. ASSUME active' = TRUE, cancel' = Len(runs) + 1, NEW x \in RunT, x.at = "begun", runs' = Append(ended, x)
       PROVE  RunsInv' /\ runs' \in Seq(RunT) /\ cancel' \in 0..Len(runs') /\ Len(runs) <= Len(runs')
  <3>1. /\ runs' \in Seq(RunT) /\ Len(runs') = Len(runs) + 1 /\ runs' # <<>> /\ runs'[Len(runs')] = x
        /\ DOMAIN runs' = DOMAIN ended \cup {Len(runs')} /\ \A s \in DOMAIN ended : runs'[s] = ended[s]
    BY <1>0, <2>2, <2>5, Extended
  <3>2. Current' = "begun" /\ \A s \in DOMAIN runs' : Rpcs!Live(s)' => s = Len(runs')
    BY <2>2, <2>5, <3>1 DEF Current, Rpcs!Live
  <3>. QED BY <1>0, <2>3, <2>5, <3>1, <3>2 DEF RunsInv
 <2>. QED BY <1>3, <2>4, <2>5 DEF Finishes, ended
<1>4. ASSUME NEW r \in DOMAIN runs, Rpcs!RunStep(r), ~Finishes(r)
      PROVE  RunsInv' /\ runs' \in Seq(RunT) /\ cancel' \in 0..Len(runs') /\ Len(runs) <= Len(runs')
 <2>1. PICK y \in RunT :
         /\ RpcMoves(r, y)
         /\ \/ /\ <<runs[r].at, y.at>> \in {<<"begun", "held">>, <<"continued", "running">>}
               /\ agent'.processing /\ UNCHANGED <<settling, seen>>
            \/ /\ runs[r].at = "held" /\ y.at = "running"
               /\ UNCHANGED <<settling, agent>> /\ seen' = "agent_start"
            \/ /\ runs[r].at = "running" /\ y.at = "running"
               /\ UNCHANGED <<settling, seen>> /\ agent'.processing = agent.processing
            \/ /\ runs[r].at = "running" /\ y.at = "ended"
               /\ UNCHANGED settling /\ ~agent'.processing /\ seen' = "agent_end"
            \/ /\ runs[r].at = "ended" /\ y.at = "settling"
               /\ settling' = TRUE /\ UNCHANGED <<agent, seen>>
            \/ /\ runs[r].at = "ended" /\ y.at = "continued"
               /\ UNCHANGED <<settling, agent>> /\ seen' = "agent_start"
            \/ /\ runs[r].at = "settling" /\ y.at = "settled"
               /\ UNCHANGED <<settling, agent>> /\ seen' = "settled"
   BY <1>4, RunStepNext
 <2>2. /\ Current = runs[r].at /\ runs' \in Seq(RunT) /\ runs' # <<>> /\ Len(runs') = Len(runs)
       /\ DOMAIN runs' = DOMAIN runs /\ runs'[Len(runs')].at = y.at
       /\ \A s \in DOMAIN runs' : runs'[s].at # "done" => s = Len(runs')
  <3>1. Rpcs!Live(r) /\ runs' = [runs EXCEPT ![r] = y] BY <2>1 DEF RpcMoves
  <3>2. PICK new : new = [runs EXCEPT ![r] = y] OBVIOUS
  <3>3. /\ Current = runs[r].at /\ new \in Seq(RunT) /\ new # <<>> /\ Len(new) = Len(runs)
    BY <3>1, <3>2, RunMoved
  <3>4. /\ DOMAIN new = DOMAIN runs /\ new[Len(new)].at = y.at
        /\ \A s \in DOMAIN new : new[s].at # "done" => s = Len(new)
    BY <3>1, <3>2, RunMoved
  <3>. QED BY <3>1, <3>2, <3>3, <3>4
 <2>3. Current' = y.at /\ \A s \in DOMAIN runs' : Rpcs!Live(s)' => s = Len(runs')
   BY <2>2 DEF Current, Rpcs!Live
 <2>4. /\ active' <=> Current' # "done"
       /\ active' => cancel' = Len(runs')
   BY <2>1, <2>2, <2>3 DEF RpcMoves, RunsInv, Rpcs!Live
 <2>5. /\ agent'.processing => Current' \in {"held", "running"}
       /\ settling' => Current' \in {"settling", "settled"}
   BY <2>1, <2>2, <2>3 DEF RunsInv, RpcOtherTypes
 <2>6. seen' = CASE Current' \in {"running", "continued"} -> "agent_start"
                 [] Current' \in {"ended", "settling"} -> "agent_end"
                 [] OTHER -> "settled"
   BY <2>1, <2>2, <2>3 DEF RunsInv
 <2>7. cancel' = cancel BY <2>1 DEF RpcMoves
 <2>. QED BY <1>0, <2>2, <2>3, <2>4, <2>5, <2>6, <2>7 DEF RunsInv
<1>. QED BY <1>1, <1>2, <1>3, <1>4, RunsNext

----------------------------------------
(* Commands.                                                               *)

\* The commands of extensions are kept in order, and one that is exclusive runs
\* beside no prompt.
LEMMA CommandsKept ==
  ASSUME ServerTypes, RpcOtherTypes, Rpcs!CommandIsExclusive, [Rpcs!Next]_(Rpcs!vars)
  PROVE  commands' \in Seq(CommandT) /\ command' \in 0..Len(commands') /\ Rpcs!CommandIsExclusive'
<1>0. /\ commands \in Seq(CommandT) /\ Len(commands) \in Nat /\ DOMAIN commands = 1..Len(commands)
      /\ command \in 0..Len(commands) /\ active \in BOOLEAN
  BY DEF ServerTypes
<1>1. CASE commands' = commands /\ command' = command /\ (active' => active \/ ~Rpcs!Exclusive)
  BY <1>0, <1>1 DEF Rpcs!CommandIsExclusive, Rpcs!Exclusive
<1>2. CASE UNCHANGED Rpcs!vars BY <1>1, <1>2 DEF Rpcs!vars, Rpcs!server
<1>3. ASSUME NEW w \in Wake, Rpcs!FollowUp(w)
      PROVE  commands' = commands /\ command' = command /\ (active' => active \/ ~Rpcs!Exclusive)
 <2>1. commands' = commands /\ command' = command BY <1>3 DEF Rpcs!FollowUp, Rpcs!server
 <2>2. active' => active \/ ~Rpcs!Exclusive
  <3>1. CASE Rpcs!Exclusive BY <1>3, <3>1 DEF Rpcs!FollowUp, Rpcs!server, Rpcs!MayStartPending
  <3>. QED BY <3>1
 <2>. QED BY <2>1, <2>2
<1>4. ASSUME NEW r \in DOMAIN runs, Rpcs!RunStep(r)
      PROVE  commands' = commands /\ command' = command /\ (active' => active \/ ~Rpcs!Exclusive)
 <2>1. CASE Rpcs!RunBegins(r) \/ Rpcs!RunReleased(r) \/ Rpcs!RunSettles(r) \/ Rpcs!RunFails(r) \/ Rpcs!RunReportsSettled(r)
   BY <2>1 DEF Rpcs!RunBegins, Rpcs!RunReleased, Rpcs!RunSettles, Rpcs!RunFails, Rpcs!RunReportsSettled, Rpcs!server
 <2>2. CASE Rpcs!RunDecides(r) BY <2>2 DEF Rpcs!RunDecides
 <2>3. CASE Rpcs!RunRetires(r) BY <2>3 DEF Rpcs!RunRetires, Rpcs!MayStartPending
 <2>. QED BY <1>4, <2>1, <2>2, <2>3 DEF Rpcs!RunStep
<1>5. ASSUME NEW c \in DOMAIN commands, Rpcs!CommandStep(c)
      PROVE  commands' \in Seq(CommandT) /\ command' \in 0..Len(commands') /\ Rpcs!CommandIsExclusive'
 <2>0. commands[c] \in CommandT BY <1>0
 <2>1. \A p \in {"running", "answering", "answered", "done"} :
          [commands[c] EXCEPT !.at = p] \in CommandT /\ [commands[c] EXCEPT !.at = p].exclusive = commands[c].exclusive
   BY <2>0 DEF CommandT
 <2>2. ASSUME NEW y \in CommandT, commands' = [commands EXCEPT ![c] = y]
       PROVE  /\ commands' \in Seq(CommandT) /\ Len(commands') = Len(commands) /\ commands'[c] = y
              /\ \A d \in DOMAIN commands : d # c => commands'[d] = commands[d]
   BY <1>0, <2>2, Replaced
 <2>3. CASE Rpcs!CommandReturns(c)
  <3>1. commands' = [commands EXCEPT ![c] = [commands[c] EXCEPT !.at = "answering"]] /\ command' = 0
    BY <2>3 DEF Rpcs!CommandReturns
  <3>. QED BY <1>0, <2>1, <2>2, <3>1 DEF Rpcs!CommandIsExclusive, Rpcs!Exclusive
 <2>4. CASE Rpcs!CommandAnswers(c)
  <3>1. /\ commands' = [commands EXCEPT ![c] = [commands[c] EXCEPT !.at = "answered"]]
        /\ command' = command /\ active' = active
    BY <2>4 DEF Rpcs!CommandAnswers
  <3>. QED BY <1>0, <2>1, <2>2, <3>1 DEF Rpcs!CommandIsExclusive, Rpcs!Exclusive
 <2>5. CASE Rpcs!CommandEnds(c)
  <3> DEFINE y == [at |-> "done", exclusive |-> FALSE, canceled |-> FALSE]
  <3>1. y \in CommandT /\ ~y.exclusive BY DEF CommandT
  <3>2. commands' = [commands EXCEPT ![c] = y] /\ command' = command BY <2>5 DEF Rpcs!CommandEnds
  <3>3. active' => active \/ ~Rpcs!Exclusive BY <2>5 DEF Rpcs!CommandEnds, Rpcs!MayStartPending
  <3> HIDE DEF y
  <3>4. Rpcs!Exclusive' => Rpcs!Exclusive BY <1>0, <2>2, <3>1, <3>2 DEF Rpcs!Exclusive
  <3>. QED BY <1>0, <2>2, <3>1, <3>2, <3>3, <3>4 DEF Rpcs!CommandIsExclusive
 <2>. QED BY <1>5, <2>3, <2>4, <2>5 DEF Rpcs!CommandStep
<1>6. ASSUME NEW e \in BOOLEAN, Rpcs!ExtensionCommand(e)
      PROVE  commands' \in Seq(CommandT) /\ command' \in 0..Len(commands') /\ Rpcs!CommandIsExclusive'
 <2>1. CASE (active /\ e) \/ command # 0 BY <1>0, <1>1, <1>6, <2>1 DEF Rpcs!ExtensionCommand
 <2>2. CASE ~((active /\ e) \/ command # 0)
  <3> DEFINE y == [at |-> "running", exclusive |-> e, canceled |-> FALSE]
  <3>1. y \in CommandT /\ y.exclusive = e BY DEF CommandT
  <3>2. commands' = Append(commands, y) /\ command' = Len(commands) + 1 /\ active' = active
    BY <1>6, <2>2 DEF Rpcs!ExtensionCommand
  <3> HIDE DEF y
  <3>3. commands' \in Seq(CommandT) /\ Len(commands') = Len(commands) + 1 /\ commands'[Len(commands) + 1] = y
    BY <1>0, <3>1, <3>2, Extended
  <3>. QED BY <1>0, <2>2, <3>1, <3>2, <3>3 DEF Rpcs!CommandIsExclusive, Rpcs!Exclusive
 <2>. QED BY <2>1, <2>2
<1>7. CASE Rpcs!Prompt
 <2>1. commands' = commands /\ command' = command BY <1>7 DEF Rpcs!Prompt
 <2>2. active' => active \/ ~Rpcs!Exclusive BY <1>7 DEF Rpcs!Prompt
 <2>. QED BY <1>1, <2>1, <2>2
<1>8. CASE Rpcs!Queue \/ Rpcs!Abort \/ Rpcs!EndOfInput \/ Rpcs!InputClosed \/ Rpcs!Shutdown \/ Rpcs!Exit \/ Rpcs!OutputBreaks \/ Rpcs!Quiet \/ Rpcs!QueueAtAgent
           \/ Rpcs!PromptStarted
  BY <1>1, <1>8 DEF Rpcs!Queue, Rpcs!Abort, Rpcs!EndOfInput, Rpcs!InputClosed, Rpcs!Shutdown, Rpcs!Exit, Rpcs!OutputBreaks, Rpcs!Quiet, Rpcs!QueueAtAgent,
                    Rpcs!PromptStarted, Rpcs!server, Rpcs!vars
<1>9. CASE \E i \in Input : \/ \E who \in Rpcs!Owners : Rpcs!Ask(i, who)
                            \/ Rpcs!InputResponse(i) \/ Rpcs!InputCanceled(i) \/ Rpcs!InputReturns(i)
  BY <1>1, <1>9 DEF Rpcs!Ask, Rpcs!InputResponse, Rpcs!InputCanceled, Rpcs!InputReturns, Rpcs!server
<1>10. CASE Rpcs!Aborts \/ Rpcs!ShutdownCancels
 <2>1. \E point : Rpcs!CancelTaken(point) /\ UNCHANGED <<active, cancel, settling, seen, agent>>
   BY <1>10 DEF Rpcs!Aborts, Rpcs!ShutdownCancels, Rpcs!server
 <2>2. /\ commands' \in Seq(CommandT) /\ Len(commands') = Len(commands)
       /\ \A c \in DOMAIN commands : commands'[c].exclusive = commands[c].exclusive
   BY <2>1, Canceling
 <2>3. command' = command /\ active' = active
   BY <1>10 DEF Rpcs!Aborts, Rpcs!ShutdownCancels, Rpcs!server
 <2>. QED BY <1>0, <2>2, <2>3 DEF Rpcs!CommandIsExclusive, Rpcs!Exclusive
<1>. QED
  BY <1>1, <1>2, <1>3, <1>4, <1>5, <1>6, <1>7, <1>8, <1>9, <1>10 DEF Rpcs!Next, Rpcs!ReaderStep

----------------------------------------
(* Questions.                                                              *)

\* The questions that are taken out of the table have a reply.
\* A reply keeps the type of a question.
LEMMA ReplyType ==
  ASSUME NEW q \in QuestionT
  PROVE  LET n == [q EXCEPT !.open = FALSE, !.sent = @ + 1]
         IN  n \in QuestionT /\ n.at = q.at /\ ~n.open /\ n.sent = q.sent + 1
<1> DEFINE n == [q EXCEPT !.open = FALSE, !.sent = @ + 1]
<1>1. n.at = q.at /\ n.by = q.by BY DEF QuestionT
<1>2. n.open = FALSE BY DEF QuestionT
<1>3. n.sent = q.sent + 1 BY DEF QuestionT
<1>4. n \in QuestionT
 <2>1. PICK x \in Nat : x = q.sent + 1 BY DEF QuestionT
 <2>2. [q EXCEPT !.open = FALSE, !.sent = x] \in QuestionT BY DEF QuestionT
 <2>. QED BY <2>1, <2>2 DEF QuestionT
<1> HIDE DEF n
<1>5. n \in QuestionT /\ n.at = q.at /\ ~n.open /\ n.sent = q.sent + 1 BY <1>1, <1>2, <1>3, <1>4
<1>. QED BY <1>5 DEF n

\* Replying to open questions closes them, each with its one reply.
LEMMA RepliedOnce ==
  ASSUME RpcOtherTypes, QuestionsInv, NEW Is \in SUBSET Input, \A i \in Is : questions[i].open,
         questions' = Rpcs!Replied(questions, Is)
  PROVE  /\ questions' \in [Input -> QuestionT]
         /\ \A i \in Input :
              /\ questions'[i].sent <= 1
              /\ questions'[i].open => questions'[i].at = "waiting"
              /\ questions'[i].at = "waiting" => (questions'[i].open <=> questions'[i].sent = 0)
              /\ questions'[i].at = "unasked" => questions'[i].sent = 0
              /\ questions'[i].open => questions[i].open /\ i \notin Is
<1>0. questions \in [Input -> QuestionT] BY DEF RpcOtherTypes
<1>1. ASSUME NEW i \in Input
      PROVE  /\ questions'[i] \in QuestionT
             /\ questions'[i].sent <= 1
             /\ questions'[i].open => questions'[i].at = "waiting"
             /\ questions'[i].at = "waiting" => (questions'[i].open <=> questions'[i].sent = 0)
             /\ questions'[i].at = "unasked" => questions'[i].sent = 0
             /\ questions'[i].open => questions[i].open /\ i \notin Is
 <2>0. questions[i] \in QuestionT BY <1>0
 <2>1. CASE i \in Is
  <3>1. questions'[i] = [questions[i] EXCEPT !.open = FALSE, !.sent = @ + 1]
    BY <2>1 DEF Rpcs!Replied
  <3>2. questions[i].open /\ questions[i].at = "waiting" /\ questions[i].sent = 0
    BY <2>0, <2>1 DEF QuestionsInv
  <3>3. questions'[i] \in QuestionT BY <2>0, <3>1, ReplyType
  <3>4. questions'[i].at = "waiting" /\ ~questions'[i].open /\ questions'[i].sent = 1
   <4>1. questions'[i].at = questions[i].at /\ questions'[i].sent = questions[i].sent + 1
     BY <2>0, <3>1, ReplyType
   <4>2. ~questions'[i].open BY <2>0, <3>1, ReplyType
   <4>. QED BY <3>2, <4>1, <4>2
  <3>. QED BY <2>1, <3>3, <3>4
 <2>2. CASE i \notin Is BY <2>0, <2>2 DEF Rpcs!Replied, QuestionsInv
 <2>. QED BY <2>1, <2>2
<1>2. questions' \in [Input -> QuestionT]
 <2>1. questions' = [i \in Input |-> questions'[i]] BY DEF Rpcs!Replied
 <2>. QED BY <1>1, <2>1
<1>. QED BY <1>1, <1>2

\* A question that comes into the table or leaves it.
LEMMA TableChanged ==
  ASSUME RpcOtherTypes, QuestionsInv, closed' = closed, reader' = reader, DOMAIN runs \subseteq DOMAIN runs',
         NEW i \in Input, NEW q \in QuestionT, questions' = [questions EXCEPT ![i] = q],
         q.sent <= 1,
         q.open => q.at = "waiting",
         q.open => ~closed,
         q.at = "waiting" => (q.open <=> q.sent = 0),
         q.at = "unasked" => q.sent = 0
  PROVE  QuestionsInv' /\ reader' \in ReaderT /\ questions' \in [Input -> QuestionT]
  BY DEF RpcOtherTypes, QuestionsInv

\* A question gets one reply, and nobody waits for one that cannot come.
LEMMA QuestionsKept ==
  ASSUME ServerTypes, RpcOtherTypes, QuestionsInv, [Rpcs!Next]_(Rpcs!vars), Len(runs) <= Len(runs'), runs' \in Seq(RunT)
  PROVE  QuestionsInv' /\ reader' \in ReaderT /\ questions' \in [Input -> QuestionT]
<1>0. /\ questions \in [Input -> QuestionT] /\ reader \in ReaderT /\ runs \in Seq(RunT)
      /\ cancel \in Nat /\ command \in Nat /\ Len(runs) \in Nat
  BY DEF ServerTypes, RpcOtherTypes
<1>1. DOMAIN runs \subseteq DOMAIN runs' /\ DOMAIN runs' = 1..Len(runs') BY <1>0
<1>2. /\ Rpcs!Ready \in ReaderT /\ Rpcs!Ready.at = "ready"
      /\ \A p \in {"queue", "started", "ends", "waiting", "exited"} :
            [Rpcs!Ready EXCEPT !.at = p] \in ReaderT /\ [Rpcs!Ready EXCEPT !.at = p].at = p
      /\ \A p \in {"aborting", "shutdown"} : LET n == [at |-> p, run |-> cancel, command |-> command]
                                             IN  n \in ReaderT /\ n.at = p
  BY <1>0 DEF Rpcs!Ready, ReaderT
\* The table stays as it is.
<1>3. ASSUME questions' = questions, closed' = closed, reader' \in ReaderT,
             reader'.at \in {"shutdown", "waiting", "exited"} <=> reader.at \in {"shutdown", "waiting", "exited"},
             reader'.at \in {"waiting", "exited"} => reader.at \in {"waiting", "exited"},
             reader'.at = "started" => reader'.run \in DOMAIN runs'
      PROVE  QuestionsInv' /\ reader' \in ReaderT /\ questions' \in [Input -> QuestionT]
  BY <1>0, <1>3 DEF QuestionsInv
<1>4. CASE questions' = questions /\ closed' = closed /\ reader' = reader
  BY <1>0, <1>1, <1>3, <1>4 DEF QuestionsInv
<1>5. CASE questions' = questions /\ closed' = closed /\ reader.at \in {"ready", "queue", "started"}
           /\ reader' \in ReaderT /\ reader'.at \in {"ready", "queue", "aborting", "ends"}
  BY <1>3, <1>5
<1>6. CASE UNCHANGED Rpcs!vars BY <1>4, <1>6 DEF Rpcs!vars, Rpcs!server
<1>7. CASE \E w \in Wake : Rpcs!FollowUp(w) BY <1>4, <1>7 DEF Rpcs!FollowUp, Rpcs!server
<1>8. ASSUME NEW r \in DOMAIN runs, Rpcs!RunStep(r)
      PROVE  questions' = questions /\ closed' = closed /\ reader' = reader
 <2>1. CASE Rpcs!RunBegins(r) \/ Rpcs!RunReleased(r) \/ Rpcs!RunSettles(r) \/ Rpcs!RunFails(r) \/ Rpcs!RunReportsSettled(r)
   BY <2>1 DEF Rpcs!RunBegins, Rpcs!RunReleased, Rpcs!RunSettles, Rpcs!RunFails, Rpcs!RunReportsSettled, Rpcs!server
 <2>2. CASE Rpcs!RunDecides(r) \/ Rpcs!RunRetires(r) BY <2>2 DEF Rpcs!RunDecides, Rpcs!RunRetires
 <2>. QED BY <1>8, <2>1, <2>2 DEF Rpcs!RunStep
<1>9. CASE \E c \in DOMAIN commands : Rpcs!CommandStep(c)
  BY <1>4, <1>9 DEF Rpcs!CommandStep, Rpcs!CommandReturns, Rpcs!CommandAnswers, Rpcs!CommandEnds
<1>10. CASE Rpcs!Queue \/ Rpcs!Abort \/ Rpcs!EndOfInput \/ Rpcs!QueueAtAgent \/ Rpcs!InputClosed
 <2>1. reader.at \in {"ready", "queue"} /\ questions' = questions /\ closed' = closed
   BY <1>2, <1>10 DEF Rpcs!Queue, Rpcs!Abort, Rpcs!EndOfInput, Rpcs!QueueAtAgent, Rpcs!InputClosed, Rpcs!Accepts, Rpcs!server
 <2>2. reader' \in ReaderT /\ reader'.at \in {"ready", "queue", "aborting", "ends"}
   BY <1>2, <1>10 DEF Rpcs!Queue, Rpcs!Abort, Rpcs!EndOfInput, Rpcs!QueueAtAgent, Rpcs!InputClosed
 <2>. QED BY <1>5, <2>1, <2>2
<1>11. CASE Rpcs!PromptStarted
 <2>1. reader.at = "started" /\ questions' = questions /\ closed' = closed
   BY <1>11 DEF Rpcs!PromptStarted, Rpcs!server
 <2>2. reader' \in ReaderT /\ reader'.at \in {"ready", "ends"} BY <1>2, <1>11 DEF Rpcs!PromptStarted
 <2>. QED BY <1>5, <2>1, <2>2
<1>12. CASE Rpcs!Prompt
 <2>1. reader.at = "ready" /\ questions' = questions /\ closed' = closed
   BY <1>2, <1>12 DEF Rpcs!Prompt, Rpcs!Accepts
 <2>2. CASE reader' = reader \/ reader' \in {Rpcs!Ready, [Rpcs!Ready EXCEPT !.at = "queue"]}
  <3>1. reader' \in ReaderT /\ reader'.at \in {"ready", "queue"} BY <1>0, <1>2, <2>1, <2>2
  <3>. QED BY <1>5, <2>1, <3>1
 <2>3. CASE Rpcs!StartPromptLocked(FALSE, FALSE) /\ reader' = [Rpcs!Ready EXCEPT !.at = "started", !.run = Len(runs) + 1]
  <3>1. reader' \in ReaderT /\ reader'.at = "started" /\ reader'.run = Len(runs) + 1
   <4>1. PICK n \in Nat : n = Len(runs) + 1 BY <1>0
   <4>2. reader' = [at |-> "started", run |-> n, command |-> 0] BY <2>3, <4>1 DEF Rpcs!Ready
   <4>. QED BY <4>1, <4>2 DEF ReaderT
  <3>2. Len(runs') = Len(runs) + 1
   <4>1. \E x : runs' = Append(runs, x) BY <2>3 DEF Rpcs!StartPromptLocked, Rpcs!StartPromptWith
   <4>. QED BY <1>0, <4>1
  <3>. QED BY <1>0, <1>1, <1>3, <2>1, <3>1, <3>2
 <2>. QED BY <1>12, <2>2, <2>3 DEF Rpcs!Prompt
<1>13. CASE (\E e \in BOOLEAN : Rpcs!ExtensionCommand(e)) \/ Rpcs!OutputBreaks \/ Rpcs!Quiet
  BY <1>4, <1>13 DEF Rpcs!ExtensionCommand, Rpcs!OutputBreaks, Rpcs!Quiet, Rpcs!server, Rpcs!vars
<1>14. CASE Rpcs!Aborts
 <2> DEFINE Is == {i \in Input : questions[i].open}
 <2>1. questions' = Rpcs!Replied(questions, Is) /\ closed' = closed /\ reader.at = "aborting" /\ reader' = [Rpcs!Ready EXCEPT !.at = "ready"]
   BY <1>14 DEF Rpcs!Aborts, Rpcs!CancelInputs, Rpcs!CancelTaken, Rpcs!server
 <2>2. reader' \in ReaderT /\ reader'.at = "ready" BY <2>1 DEF Rpcs!Ready, ReaderT
 <2>. QED BY <2>1, <2>2, RepliedOnce DEF QuestionsInv
<1>15. CASE Rpcs!Shutdown
 <2>1. questions' = questions /\ closed' = TRUE /\ reader' \in ReaderT /\ reader'.at = "shutdown"
   BY <1>2, <1>15 DEF Rpcs!Shutdown
 <2>. QED BY <1>0, <2>1 DEF QuestionsInv
<1>16. CASE Rpcs!ShutdownCancels
 <2> DEFINE Is == {i \in Input : questions[i].open}
 <2>1. /\ questions' = Rpcs!Replied(questions, Is) /\ closed' = closed /\ reader.at = "shutdown"
       /\ reader' = [Rpcs!Ready EXCEPT !.at = "waiting"]
   BY <1>16 DEF Rpcs!ShutdownCancels, Rpcs!CancelInputs, Rpcs!CancelTaken, Rpcs!server
 <2>2. reader' \in ReaderT /\ reader'.at = "waiting" BY <1>2, <2>1
 <2>3. \A i \in Input : ~questions'[i].open BY <2>1, RepliedOnce
 <2>. QED BY <2>1, <2>2, <2>3, RepliedOnce DEF QuestionsInv
<1>17. CASE Rpcs!Exit
 <2>1. /\ questions' = questions /\ closed' = closed /\ reader.at = "waiting"
       /\ reader' \in ReaderT /\ reader'.at = "exited"
   BY <1>2, <1>17 DEF Rpcs!Exit, Rpcs!server
 <2>. QED BY <1>3, <2>1
<1>19. ASSUME NEW i \in Input, NEW who \in Rpcs!Owners, Rpcs!Ask(i, who)
       PROVE  QuestionsInv' /\ reader' \in ReaderT /\ questions' \in [Input -> QuestionT]
 <2>0. questions[i] \in QuestionT /\ questions[i].at = "unasked" /\ closed' = closed /\ reader' = reader
   BY <1>0, <1>19 DEF Rpcs!Ask, Rpcs!server
 <2>1. questions[i].sent = 0 /\ ~questions[i].open BY <2>0 DEF QuestionsInv
 <2>2. CASE closed \/ Rpcs!OwnerCanceled(who) \/ budget.broken
  <3> DEFINE q == [questions[i] EXCEPT !.at = "returned"]
  <3>1. q \in QuestionT /\ q.sent = 0 /\ ~q.open /\ q.at = "returned" BY <2>0, <2>1 DEF QuestionT
  <3>2. questions' = [questions EXCEPT ![i] = q] BY <1>19, <2>2 DEF Rpcs!Ask
  <3> HIDE DEF q
  <3>6. q.open => q.at = "waiting" BY <3>1
  <3>7. q.open => ~closed BY <2>0, <3>1
  <3>8. q.at = "waiting" => (q.open <=> q.sent = 0) BY <3>1
  <3>9. q.sent <= 1 /\ (q.at = "unasked" => q.sent = 0) BY <3>1
  <3>10. q \in QuestionT /\ questions' = [questions EXCEPT ![i] = q] BY <3>1, <3>2
  <3>4. QuestionsInv' BY <1>1, <2>0, <3>6, <3>7, <3>8, <3>9, <3>10, TableChanged
  <3>5. questions' \in [Input -> QuestionT]
    BY <1>1, <2>0, <3>6, <3>7, <3>8, <3>9, <3>10, TableChanged
  <3>. QED BY <1>0, <2>0, <3>4, <3>5
 <2>3. CASE ~(closed \/ Rpcs!OwnerCanceled(who) \/ budget.broken)
  <3> DEFINE q == [by |-> who, open |-> TRUE, sent |-> 0, at |-> "waiting"]
  <3>1. who \in {"none", "run", "command"} \X Nat
   <4>1. DOMAIN runs \subseteq Nat /\ DOMAIN commands \subseteq Nat BY DEF ServerTypes
   <4>. QED BY <4>1 DEF Rpcs!Owners
  <3>2. q \in QuestionT /\ q.sent = 0 /\ q.open /\ q.at = "waiting" BY <3>1 DEF QuestionT
  <3>3. questions' = [questions EXCEPT ![i] = q] BY <1>19, <2>3 DEF Rpcs!Ask
  <3> HIDE DEF q
  <3>6. q.open => q.at = "waiting" BY <3>2
  <3>7. q.open => ~closed BY <2>3, <3>2
  <3>8. q.at = "waiting" => (q.open <=> q.sent = 0) BY <3>2
  <3>9. q.sent <= 1 /\ (q.at = "unasked" => q.sent = 0) BY <3>2
  <3>10. q \in QuestionT /\ questions' = [questions EXCEPT ![i] = q] BY <3>1, <3>2, <3>3
  <3>4. QuestionsInv' BY <1>1, <2>0, <3>6, <3>7, <3>8, <3>9, <3>10, TableChanged
  <3>5. questions' \in [Input -> QuestionT]
    BY <1>1, <2>0, <3>6, <3>7, <3>8, <3>9, <3>10, TableChanged
  <3>. QED BY <1>0, <2>0, <3>4, <3>5
 <2>. QED BY <2>2, <2>3
<1>20. ASSUME NEW i \in Input, Rpcs!InputResponse(i) \/ Rpcs!InputCanceled(i)
       PROVE  QuestionsInv' /\ reader' \in ReaderT /\ questions' \in [Input -> QuestionT]
 <2>1. questions' = Rpcs!Replied(questions, {i}) /\ questions[i].open /\ closed' = closed /\ reader' = reader
   BY <1>20 DEF Rpcs!InputResponse, Rpcs!InputCanceled, Rpcs!server
 <2>2. /\ reader'.at \in {"waiting", "exited"} => \A j \in Input : ~questions'[j].open
       /\ reader'.at = "started" => reader'.run \in DOMAIN runs'
       /\ closed' <=> reader'.at \in {"shutdown", "waiting", "exited"}
   BY <1>1, <2>1, RepliedOnce DEF QuestionsInv
 <2>3. {i} \in SUBSET Input /\ \A j \in {i} : questions[j].open BY <2>1
 <2>4. /\ questions' \in [Input -> QuestionT]
       /\ \A j \in Input :
            /\ questions'[j].sent <= 1
            /\ questions'[j].open => questions'[j].at = "waiting"
            /\ questions'[j].at = "waiting" => (questions'[j].open <=> questions'[j].sent = 0)
            /\ questions'[j].at = "unasked" => questions'[j].sent = 0
   BY <2>1, <2>3, RepliedOnce
 <2>. QED BY <1>0, <2>1, <2>2, <2>4 DEF QuestionsInv
<1>21. ASSUME NEW i \in Input, Rpcs!InputReturns(i)
       PROVE  QuestionsInv' /\ reader' \in ReaderT /\ questions' \in [Input -> QuestionT]
 <2> DEFINE q == [questions[i] EXCEPT !.at = "returned", !.by = Rpcs!Nobody]
 <2>1. /\ questions[i] \in QuestionT /\ questions[i].at = "waiting" /\ questions[i].sent > 0
       /\ closed' = closed /\ reader' = reader
   BY <1>0, <1>21 DEF Rpcs!InputReturns, Rpcs!server
 <2>2. ~questions[i].open /\ questions[i].sent <= 1 BY <2>1 DEF QuestionsInv, QuestionT
 <2>3. q \in QuestionT /\ q.sent <= 1 /\ ~q.open /\ q.at = "returned"
   BY <2>1, <2>2 DEF QuestionT, Rpcs!Nobody
 <2>4. questions' = [questions EXCEPT ![i] = q] BY <1>0, <1>21 DEF Rpcs!InputReturns
 <2> HIDE DEF q
 <2>. QED BY <1>1, <2>1, <2>3, <2>4, TableChanged
<1>. QED
  BY <1>4, <1>6, <1>7, <1>8, <1>9, <1>10, <1>11, <1>12, <1>13, <1>14, <1>15, <1>16, <1>17, <1>19, <1>20, <1>21
     DEF Rpcs!Next, Rpcs!ReaderStep

----------------------------------------
(* Wakes.                                                                  *)

AgentT == [processing : BOOLEAN, queue : Seq(Wake \cup {"message"})]
WakeTypes == pending \in Seq(Wake) /\ agent \in AgentT /\ taken \subseteq Wake /\ dropped \subseteq Wake

\* The first of the waiting wakes starts a run.
LEMMA Taking ==
  ASSUME WakeTypes, Rpcs!WakeOnce, NEW q \in Seq(Wake), q # <<>>, Rpcs!Once(q),
         Rpcs!ToSet(q) \cap (Rpcs!ToSet(agent.queue) \cup taken \cup dropped) = {},
         pending' = Tail(q), taken' = taken \cup {Head(q)}, agent' = agent, dropped' = dropped
  PROVE  WakeTypes' /\ Rpcs!WakeOnce'
<1>1. /\ Tail(q) \in Seq(Wake) /\ Head(q) \in Wake /\ Head(q) \in Rpcs!ToSet(q) /\ Rpcs!Once(Tail(q))
      /\ Rpcs!ToSet(Tail(q)) \subseteq Rpcs!ToSet(q) /\ Head(q) \notin Rpcs!ToSet(Tail(q))
  BY Popped
<1>. QED BY <1>1 DEF WakeTypes, Rpcs!WakeOnce

\* The agent takes messages, or no more, with the same queue.
LEMMA SameQueue ==
  ASSUME WakeTypes, Rpcs!WakeOnce, UNCHANGED <<pending, taken, dropped>>, agent' \in AgentT, agent'.queue = agent.queue
  PROVE  WakeTypes' /\ Rpcs!WakeOnce'
  BY DEF WakeTypes, Rpcs!WakeOnce

\* Nothing happens to the wakes.
LEMMA NoWakes ==
  ASSUME WakeTypes, Rpcs!WakeOnce, UNCHANGED <<pending, taken, dropped, agent>>
  PROVE  WakeTypes' /\ Rpcs!WakeOnce'
  BY DEF WakeTypes, Rpcs!WakeOnce

\* The wakes that are waiting are in no other place.
LEMMA PendingApart ==
  ASSUME Rpcs!WakeOnce
  PROVE  Rpcs!Once(pending) /\ Rpcs!ToSet(pending) \cap (Rpcs!ToSet(agent.queue) \cup taken \cup dropped) = {}
  BY DEF Rpcs!WakeOnce

\* A wake is in one place.
LEMMA WakesKept ==
  ASSUME RpcParameters, WakeTypes, Rpcs!WakeOnce, [Rpcs!Next]_(Rpcs!vars)
  PROVE  WakeTypes' /\ Rpcs!WakeOnce'
<1>0. pending \in Seq(Wake) /\ agent \in AgentT /\ agent.queue \in Seq(Wake \cup {"message"})
  BY DEF WakeTypes, AgentT
<1>1. CASE UNCHANGED <<pending, agent, taken, dropped>> BY <1>1, NoWakes
<1>2. CASE pending # <<>> /\ pending' = Tail(pending) /\ taken' = taken \cup {Head(pending)}
           /\ agent' = agent /\ dropped' = dropped
  BY <1>0, <1>2, PendingApart, Taking
<1>3. CASE UNCHANGED Rpcs!vars BY <1>1, <1>3 DEF Rpcs!vars, Rpcs!server, Rpcs!wakes
<1>4. ASSUME NEW w \in Wake, Rpcs!FollowUp(w)
      PROVE  WakeTypes' /\ Rpcs!WakeOnce'
 <2>0. w \notin taken \cup dropped \cup Rpcs!ToSet(pending) \cup Rpcs!ToSet(agent.queue) /\ dropped' = dropped
   BY <1>4 DEF Rpcs!FollowUp
 <2> DEFINE q == Append(pending, w)
 <2>1. q \in Seq(Wake) /\ q # <<>> /\ Rpcs!Once(q) /\ Rpcs!ToSet(q) = Rpcs!ToSet(pending) \cup {w}
  <3>1. Rpcs!Once(pending) BY DEF Rpcs!WakeOnce
  <3>. QED BY <1>0, <2>0, <3>1, Pushed, Extended
 <2>2. Rpcs!ToSet(q) \cap (Rpcs!ToSet(agent.queue) \cup taken \cup dropped) = {}
   BY <2>0, <2>1, PendingApart
 <2>3. CASE agent' = agent /\ pending' = q /\ taken' = taken
   BY <2>0, <2>1, <2>2, <2>3 DEF WakeTypes, Rpcs!WakeOnce
 <2>4. CASE agent' = agent /\ pending' = Tail(q) /\ taken' = taken \cup {Head(q)}
   BY <2>0, <2>1, <2>2, <2>4, Taking
 <2>5. CASE agent' = agent /\ pending' = pending /\ taken' = taken \cup {w}
   BY <2>0, <2>5 DEF WakeTypes, Rpcs!WakeOnce
 <2>6. CASE agent' = [agent EXCEPT !.queue = Append(@, w)] /\ pending' = pending /\ taken' = taken
  <3>1. /\ Append(agent.queue, w) \in Seq(Wake \cup {"message"}) /\ Rpcs!Once(Append(agent.queue, w))
        /\ Rpcs!ToSet(Append(agent.queue, w)) = Rpcs!ToSet(agent.queue) \cup {w}
   <4>1. Rpcs!Once(agent.queue) BY DEF Rpcs!WakeOnce
   <4>. QED BY <1>0, <2>0, <4>1, Pushed
  <3>2. agent' \in AgentT /\ agent'.queue = Append(agent.queue, w) BY <1>0, <2>6, <3>1 DEF AgentT
  <3>. QED BY <2>0, <2>6, <3>1, <3>2 DEF WakeTypes, Rpcs!WakeOnce
 <2>. HIDE DEF q
 <2>7. \/ agent' = agent /\ pending' = q /\ taken' = taken
       \/ agent' = agent /\ pending' = Tail(q) /\ taken' = taken \cup {Head(q)}
       \/ agent' = agent /\ pending' = pending /\ taken' = taken \cup {w}
       \/ agent' = [agent EXCEPT !.queue = Append(@, w)] /\ pending' = pending /\ taken' = taken
   BY <1>4 DEF Rpcs!FollowUp, Rpcs!server, q
 <2>. QED BY <2>3, <2>4, <2>5, <2>6, <2>7
<1>5. ASSUME NEW r \in DOMAIN runs, Rpcs!RunBegins(r) \/ Rpcs!RunFails(r)
      PROVE  WakeTypes' /\ Rpcs!WakeOnce'
 <2>1. agent' = [agent EXCEPT !.processing = TRUE] \/ agent' = [agent EXCEPT !.processing = FALSE]
   BY <1>5 DEF Rpcs!RunBegins, Rpcs!RunFails
 <2>2. agent' \in AgentT /\ agent'.queue = agent.queue BY <1>0, <2>1 DEF AgentT
 <2>3. UNCHANGED <<pending, taken, dropped>>
   BY <1>5 DEF Rpcs!RunBegins, Rpcs!RunFails, Rpcs!server, Rpcs!wakes
 <2>. QED BY <2>2, <2>3, SameQueue
<1>6. ASSUME NEW r \in DOMAIN runs, Rpcs!RunSettles(r)
      PROVE  WakeTypes' /\ Rpcs!WakeOnce'
 <2>1. CASE agent.queue # <<>>
  <3>1. /\ agent' = [agent EXCEPT !.queue = Tail(@)] /\ taken' = taken \cup ({Head(agent.queue)} \cap Wake)
        /\ UNCHANGED <<pending, dropped>>
    BY <1>6, <2>1 DEF Rpcs!RunSettles, Rpcs!server
  <3>2. LET q == agent.queue
        IN  /\ Tail(q) \in Seq(Wake \cup {"message"}) /\ Head(q) \in Rpcs!ToSet(q) /\ Rpcs!Once(Tail(q))
            /\ Rpcs!ToSet(Tail(q)) \subseteq Rpcs!ToSet(q) /\ (Head(q) \in Wake => Head(q) \notin Rpcs!ToSet(Tail(q)))
   <4>1. Rpcs!Once(agent.queue) BY DEF Rpcs!WakeOnce
   <4>. QED BY <1>0, <2>1, <4>1, Popped
  <3>3. agent' \in AgentT /\ agent'.queue = Tail(agent.queue) BY <1>0, <3>1, <3>2 DEF AgentT
  <3>. QED BY <3>1, <3>2, <3>3 DEF WakeTypes, Rpcs!WakeOnce
 <2>2. CASE agent.queue = <<>>
  <3>1. agent' = [agent EXCEPT !.processing = FALSE] /\ UNCHANGED <<pending, taken, dropped>>
    BY <1>6, <2>2 DEF Rpcs!RunSettles, Rpcs!server
  <3>2. agent' \in AgentT /\ agent'.queue = agent.queue BY <1>0, <3>1 DEF AgentT
  <3>. QED BY <3>1, <3>2, SameQueue
 <2>. QED BY <2>1, <2>2
<1>7. ASSUME NEW r \in DOMAIN runs, Rpcs!RunDecides(r)
      PROVE  WakeTypes' /\ Rpcs!WakeOnce'
 <2>1. agent' = agent BY <1>7 DEF Rpcs!RunDecides
 <2>2. Rpcs!ToSet(<<>>) = {} BY DEF Rpcs!ToSet
 <2>3. CASE runs[r].ok /\ ~(pending = <<>> \/ closed) BY <1>2, <1>7, <2>1, <2>3 DEF Rpcs!RunDecides
 <2>4. CASE runs[r].ok /\ (pending = <<>> \/ closed) BY <1>1, <1>7, <2>1, <2>4 DEF Rpcs!RunDecides
 <2>5. CASE ~runs[r].ok
  <3>1. dropped' = dropped \cup Rpcs!ToSet(pending) /\ pending' = <<>> /\ taken' = taken
    BY <1>7, <2>2, <2>5 DEF Rpcs!RunDecides
  <3>2. Rpcs!ToSet(pending) \subseteq Wake /\ Rpcs!Once(<<>>) /\ <<>> \in Seq(Wake)
    BY <1>0 DEF Rpcs!ToSet, Rpcs!Once
  <3>. QED BY <2>1, <2>2, <3>1, <3>2 DEF WakeTypes, Rpcs!WakeOnce
 <2>. QED BY <2>3, <2>4, <2>5
<1>8. ASSUME NEW r \in DOMAIN runs, Rpcs!RunReleased(r) \/ Rpcs!RunReportsSettled(r) \/ Rpcs!RunRetires(r)
      PROVE  WakeTypes' /\ Rpcs!WakeOnce'
 <2>1. CASE Rpcs!RunReleased(r) \/ Rpcs!RunReportsSettled(r)
   BY <1>1, <2>1 DEF Rpcs!RunReleased, Rpcs!RunReportsSettled, Rpcs!server, Rpcs!wakes
 <2>2. CASE Rpcs!RunRetires(r) BY <1>1, <1>2, <2>2 DEF Rpcs!RunRetires, Rpcs!MayStartPending
 <2>. QED BY <1>8, <2>1, <2>2
<1>9. ASSUME NEW c \in DOMAIN commands, Rpcs!CommandStep(c)
      PROVE  WakeTypes' /\ Rpcs!WakeOnce'
 <2>1. CASE Rpcs!CommandReturns(c) \/ Rpcs!CommandAnswers(c)
   BY <1>1, <2>1 DEF Rpcs!CommandReturns, Rpcs!CommandAnswers, Rpcs!wakes
 <2>2. CASE Rpcs!CommandEnds(c) BY <1>1, <1>2, <2>2 DEF Rpcs!CommandEnds, Rpcs!MayStartPending
 <2>. QED BY <1>9, <2>1, <2>2 DEF Rpcs!CommandStep
<1>10. CASE Rpcs!Prompt BY <1>1, <1>2, <1>10 DEF Rpcs!Prompt, Rpcs!MayStartPending
<1>11. CASE Rpcs!QueueAtAgent
 <2>1. CASE agent.processing
  <3>1. agent' = [agent EXCEPT !.queue = Append(@, "message")] /\ UNCHANGED <<pending, taken, dropped>>
    BY <1>11, <2>1 DEF Rpcs!QueueAtAgent, Rpcs!server, Rpcs!wakes
  <3>2. /\ Append(agent.queue, "message") \in Seq(Wake \cup {"message"}) /\ Rpcs!Once(Append(agent.queue, "message"))
        /\ Rpcs!ToSet(Append(agent.queue, "message")) = Rpcs!ToSet(agent.queue) \cup {"message"}
   <4>1. Rpcs!Once(agent.queue) BY DEF Rpcs!WakeOnce
   <4>2. "message" \in Wake => "message" \notin Rpcs!ToSet(agent.queue) BY DEF RpcParameters
   <4>. QED BY <1>0, <4>1, <4>2, Pushed
  <3>3. agent' \in AgentT /\ agent'.queue = Append(agent.queue, "message")
    BY <1>0, <3>1, <3>2 DEF AgentT
  <3>4. "message" \notin Rpcs!ToSet(pending) \cup taken \cup dropped
    BY <1>0 DEF Rpcs!ToSet, WakeTypes, RpcParameters
  <3>. QED BY <3>1, <3>2, <3>3, <3>4 DEF WakeTypes, Rpcs!WakeOnce
 <2>2. CASE ~agent.processing BY <1>1, <1>11, <2>2 DEF Rpcs!QueueAtAgent, Rpcs!server, Rpcs!wakes
 <2>. QED BY <2>1, <2>2
<1>12. CASE Rpcs!Queue \/ (\E e \in BOOLEAN : Rpcs!ExtensionCommand(e)) \/ Rpcs!Abort \/ Rpcs!EndOfInput \/ Rpcs!InputClosed \/ Rpcs!Shutdown
            \/ Rpcs!Exit \/ Rpcs!OutputBreaks \/ Rpcs!Quiet \/ Rpcs!PromptStarted \/ Rpcs!Aborts \/ Rpcs!ShutdownCancels
  BY <1>1, <1>12 DEF Rpcs!Queue, Rpcs!ExtensionCommand, Rpcs!Abort, Rpcs!EndOfInput, Rpcs!InputClosed, Rpcs!Shutdown, Rpcs!Exit, Rpcs!OutputBreaks, Rpcs!Quiet,
                     Rpcs!PromptStarted, Rpcs!Aborts, Rpcs!ShutdownCancels, Rpcs!server, Rpcs!wakes, Rpcs!vars
<1>13. CASE \E i \in Input : \/ \E who \in Rpcs!Owners : Rpcs!Ask(i, who)
                             \/ Rpcs!InputResponse(i) \/ Rpcs!InputCanceled(i) \/ Rpcs!InputReturns(i)
  BY <1>1, <1>13 DEF Rpcs!Ask, Rpcs!InputResponse, Rpcs!InputCanceled, Rpcs!InputReturns, Rpcs!server, Rpcs!wakes
<1>. QED
  BY <1>3, <1>4, <1>5, <1>6, <1>7, <1>8, <1>9, <1>10, <1>11, <1>12, <1>13 DEF Rpcs!Next, Rpcs!RunStep, Rpcs!ReaderStep

----------------------------------------
(* The invariant.                                                          *)

\* The switches of the server and the counts of the bounds keep their types.
LEMMA RestKept ==
  ASSUME ServerTypes, RpcOtherTypes, [Rpcs!Next]_(Rpcs!vars)
  PROVE  /\ active' \in BOOLEAN /\ settling' \in BOOLEAN /\ closed' \in BOOLEAN /\ stopped' \in BOOLEAN
         /\ budget' \in BudgetT
<1>0. /\ active \in BOOLEAN /\ settling \in BOOLEAN /\ closed \in BOOLEAN /\ stopped \in BOOLEAN
      /\ budget \in BudgetT /\ budget.broken \in BOOLEAN
  BY DEF ServerTypes, RpcOtherTypes, BudgetT
<1>1. ASSUME NEW b \in BudgetT
      PROVE  /\ [b EXCEPT !.prompts = @ + 1] \in BudgetT
             /\ [b EXCEPT !.failures = @ + 1] \in BudgetT
             /\ [b EXCEPT !.broken = TRUE, !.failures = @ + 1] \in BudgetT
 <2> DEFINE n == [b EXCEPT !.broken = TRUE, !.failures = @ + 1]
 <2>1. [b EXCEPT !.prompts = @ + 1] \in BudgetT BY DEF BudgetT
 <2>2. [b EXCEPT !.failures = @ + 1] \in BudgetT BY DEF BudgetT
 <2>3. n \in BudgetT
  <3>1. PICK x \in Nat : x = b.failures + 1 BY DEF BudgetT
  <3>2. [b EXCEPT !.broken = TRUE, !.failures = x] \in BudgetT BY DEF BudgetT
  <3>. QED BY <3>1, <3>2 DEF BudgetT
 <2>. QED BY <2>1, <2>2, <2>3
<1>2. CASE UNCHANGED <<active, settling, closed, stopped, budget>> BY <1>0, <1>2
<1>3. CASE UNCHANGED Rpcs!vars BY <1>2, <1>3 DEF Rpcs!vars, Rpcs!server
<1>4. CASE \E w \in Wake : Rpcs!FollowUp(w)
  BY <1>0, <1>4 DEF Rpcs!FollowUp, Rpcs!StartPromptLocked, Rpcs!StartPromptWith, Rpcs!server
<1>5. ASSUME NEW r \in DOMAIN runs, Rpcs!RunStep(r)
      PROVE  /\ active' \in BOOLEAN /\ settling' \in BOOLEAN /\ closed' \in BOOLEAN /\ stopped' \in BOOLEAN
             /\ budget' \in BudgetT
 <2>1. CASE Rpcs!RunBegins(r) \/ Rpcs!RunReleased(r) \/ Rpcs!RunSettles(r) \/ Rpcs!RunReportsSettled(r)
   BY <1>2, <2>1 DEF Rpcs!RunBegins, Rpcs!RunReleased, Rpcs!RunSettles, Rpcs!RunReportsSettled, Rpcs!server
 <2>2. CASE Rpcs!RunFails(r) BY <1>0, <1>1, <2>2 DEF Rpcs!RunFails, Rpcs!server
 <2>3. CASE Rpcs!RunDecides(r) BY <1>0, <2>3 DEF Rpcs!RunDecides
 <2>4. CASE Rpcs!RunRetires(r) BY <1>0, <2>4 DEF Rpcs!RunRetires, Rpcs!StartPromptWith
 <2>. QED BY <1>5, <2>1, <2>2, <2>3, <2>4 DEF Rpcs!RunStep
<1>6. CASE \E c \in DOMAIN commands : Rpcs!CommandStep(c)
  BY <1>0, <1>6 DEF Rpcs!CommandStep, Rpcs!CommandReturns, Rpcs!CommandAnswers, Rpcs!CommandEnds, Rpcs!StartPromptLocked, Rpcs!StartPromptWith
<1>7. CASE Rpcs!Prompt
  BY <1>0, <1>1, <1>7 DEF Rpcs!Prompt, Rpcs!UsesPrompt, Rpcs!StartPromptLocked, Rpcs!StartPromptWith
<1>8. CASE Rpcs!Queue \/ Rpcs!OutputBreaks \/ Rpcs!Shutdown
  BY <1>0, <1>1, <1>8 DEF Rpcs!Queue, Rpcs!UsesPrompt, Rpcs!OutputBreaks, Rpcs!Shutdown, Rpcs!server
<1>9. CASE (\E e \in BOOLEAN : Rpcs!ExtensionCommand(e)) \/ Rpcs!Abort \/ Rpcs!EndOfInput \/ Rpcs!InputClosed \/ Rpcs!Exit \/ Rpcs!Quiet
           \/ Rpcs!PromptStarted \/ Rpcs!QueueAtAgent \/ Rpcs!Aborts \/ Rpcs!ShutdownCancels
  BY <1>2, <1>9 DEF Rpcs!ExtensionCommand, Rpcs!Abort, Rpcs!EndOfInput, Rpcs!InputClosed, Rpcs!Exit, Rpcs!Quiet, Rpcs!PromptStarted, Rpcs!QueueAtAgent,
                    Rpcs!Aborts, Rpcs!ShutdownCancels, Rpcs!server, Rpcs!vars
<1>10. CASE \E i \in Input : \/ \E who \in Rpcs!Owners : Rpcs!Ask(i, who)
                             \/ Rpcs!InputResponse(i) \/ Rpcs!InputCanceled(i) \/ Rpcs!InputReturns(i)
  BY <1>2, <1>10 DEF Rpcs!Ask, Rpcs!InputResponse, Rpcs!InputCanceled, Rpcs!InputReturns, Rpcs!server
<1>. QED BY <1>3, <1>4, <1>5, <1>6, <1>7, <1>8, <1>9, <1>10 DEF Rpcs!Next, Rpcs!ReaderStep

\* The initial states have the invariant.
LEMMA RpcInitInv == Rpcs!Init => RpcIInv
<1> SUFFICES ASSUME Rpcs!Init
    PROVE  RpcIInv
  OBVIOUS
<1>1. ServerTypes
 <2>1. <<>> \in Seq(RunT) /\ <<>> \in Seq(CommandT) /\ Len(<<>>) = 0 OBVIOUS
 <2>. QED
  <3>1. active \in BOOLEAN /\ settling \in BOOLEAN /\ closed \in BOOLEAN /\ stopped \in BOOLEAN
    BY DEF Rpcs!Init
  <3>2. runs \in Seq(RunT) /\ commands \in Seq(CommandT) /\ command \in 0..Len(commands) /\ cancel \in 0..Len(runs)
    BY <2>1 DEF Rpcs!Init
  <3>. QED BY <3>1, <3>2 DEF ServerTypes
<1>2. RpcOtherTypes
 <2>1. reader \in ReaderT BY DEF Rpcs!Init, Rpcs!Ready, ReaderT
 <2>2. questions \in [Input -> QuestionT]
  <3>1. [by |-> Rpcs!Nobody, open |-> FALSE, sent |-> 0, at |-> "unasked"] \in QuestionT
    BY DEF Rpcs!Nobody, QuestionT
  <3>. QED BY <3>1 DEF Rpcs!Init
 <2>. QED
  <3>1. <<>> \in Seq(Wake) /\ [processing |-> FALSE, queue |-> <<>>] \in [processing : BOOLEAN, queue : Seq(Wake \cup {"message"})]
    OBVIOUS
  <3>2. [prompts |-> 0, failures |-> 0, broken |-> FALSE] \in BudgetT BY DEF BudgetT
  <3>. QED BY <2>1, <2>2, <3>1, <3>2 DEF Rpcs!Init, RpcOtherTypes
<1>3. RunsInv
 <2>1. runs = <<>> /\ Current = "done" BY DEF Rpcs!Init, Current
 <2>. QED BY <2>1 DEF Rpcs!Init, RunsInv
<1>4. Rpcs!CommandIsExclusive BY DEF Rpcs!Init, Rpcs!CommandIsExclusive, Rpcs!Exclusive
<1>5. QuestionsInv BY DEF Rpcs!Init, QuestionsInv, Rpcs!Ready
<1>6. Rpcs!WakeOnce BY DEF Rpcs!Init, Rpcs!WakeOnce, Rpcs!Once, Rpcs!ToSet
<1>. QED BY <1>1, <1>2, <1>3, <1>4, <1>5, <1>6 DEF RpcIInv

\* Every step keeps the invariant.
LEMMA RpcNextInv ==
  ASSUME RpcParameters, RpcIInv, [Rpcs!Next]_(Rpcs!vars)
  PROVE  RpcIInv'
<1>0. WakeTypes /\ Rpcs!WakeOnce BY DEF RpcIInv, RpcOtherTypes, WakeTypes, AgentT
<1>1. RunsInv' /\ runs' \in Seq(RunT) /\ cancel' \in 0..Len(runs') /\ Len(runs) <= Len(runs')
  BY RunsKept DEF RpcIInv
<1>2. commands' \in Seq(CommandT) /\ command' \in 0..Len(commands') /\ Rpcs!CommandIsExclusive'
  BY CommandsKept DEF RpcIInv
<1>3. QuestionsInv' /\ reader' \in ReaderT /\ questions' \in [Input -> QuestionT]
  BY <1>1, QuestionsKept DEF RpcIInv
<1>4. WakeTypes' /\ Rpcs!WakeOnce' BY <1>0, WakesKept
<1>5. /\ active' \in BOOLEAN /\ settling' \in BOOLEAN /\ closed' \in BOOLEAN /\ stopped' \in BOOLEAN
      /\ budget' \in BudgetT
  BY RestKept DEF RpcIInv
<1>6. seen' \in {"settled", "agent_start", "agent_end"} BY <1>1 DEF RunsInv
<1>. QED
  BY <1>1, <1>2, <1>3, <1>4, <1>5, <1>6 DEF RpcIInv, ServerTypes, RpcOtherTypes, WakeTypes, AgentT

\* The invariant implies the properties of the front end.
LEMMA RpcInvImplies == RpcIInv => Rpcs!RpcSafe
<1> SUFFICES ASSUME RpcIInv
    PROVE  Rpcs!RpcSafe
  OBVIOUS
<1>1. Rpcs!TypeOK
 <2>1. \A r \in DOMAIN runs : runs[r].at \in Rpcs!RunPoints
  <3>1. \A r \in DOMAIN runs : runs[r] \in RunT BY DEF RpcIInv, ServerTypes
  <3>. QED BY <3>1 DEF RunT
 <2>2. \A c \in DOMAIN commands : commands[c].at \in {"running", "answering", "answered", "done"}
  <3>1. \A c \in DOMAIN commands : commands[c] \in CommandT BY DEF RpcIInv, ServerTypes
  <3>. QED BY <3>1 DEF CommandT
 <2>3. reader.at \in {"ready", "started", "queue", "aborting", "ends", "shutdown", "waiting", "exited"}
   BY DEF RpcIInv, RpcOtherTypes, ReaderT
 <2>. QED BY <2>1, <2>2, <2>3 DEF RpcIInv, ServerTypes, RpcOtherTypes, Rpcs!TypeOK
<1>2. Rpcs!OneRun
 <2>1. runs # <<>> => Len(runs) \in DOMAIN runs BY DEF RpcIInv, ServerTypes
 <2>2. Current # "done" => Len(runs) \in DOMAIN runs /\ runs[Len(runs)].at = Current
   BY <2>1 DEF Current
 <2>3. \A r \in DOMAIN runs : Rpcs!Live(r) => r = Len(runs) /\ Current = runs[r].at
   BY DEF RpcIInv, RunsInv, Current, ServerTypes
 <2>4. active <=> \E r \in DOMAIN runs : Rpcs!Live(r) BY <2>2, <2>3 DEF RpcIInv, RunsInv, Rpcs!Live
 <2>5. /\ agent.processing => \E r \in DOMAIN runs : runs[r].at \in {"held", "running"}
       /\ settling => \E r \in DOMAIN runs : runs[r].at \in {"settling", "settled"}
   BY <2>2 DEF RpcIInv, RunsInv
 <2>. QED BY <2>3, <2>4, <2>5 DEF RpcIInv, RunsInv, Rpcs!OneRun
<1>3. Rpcs!OneReplyEach
 <2>1. \A i \in Input : questions[i].sent \in {0, 1} /\ questions[i].open \in BOOLEAN
   BY DEF RpcIInv, QuestionsInv, RpcOtherTypes, QuestionT
 <2>. QED BY <2>1 DEF RpcIInv, QuestionsInv, Rpcs!OneReplyEach
<1>. QED BY <1>1, <1>2, <1>3 DEF RpcIInv, Rpcs!RpcSafe

\* In a state of the invariant, what the client is told is in order.
LEMMA StepInOrder ==
  ASSUME RpcIInv, [Rpcs!Next]_(Rpcs!vars)
  PROVE  Rpcs!InOrder
<1>0. runs \in Seq(RunT) /\ reader \in ReaderT /\ active \in BOOLEAN
  BY DEF RpcIInv, ServerTypes, RpcOtherTypes
<1>1. \/ seen' = seen
      \/ <<seen, seen'>> \in {<<"settled", "agent_start">>, <<"agent_start", "agent_end">>,
                              <<"agent_end", "agent_start">>, <<"agent_end", "settled">>}
 <2>1. CASE Stays \/ Starts BY <2>1 DEF Stays, Starts
 <2>2. ASSUME NEW r \in DOMAIN runs, Rpcs!RunStep(r), seen' # seen
       PROVE  <<seen, seen'>> \in {<<"settled", "agent_start">>, <<"agent_start", "agent_end">>,
                                   <<"agent_end", "agent_start">>, <<"agent_end", "settled">>}
  <3>1. \/ runs[r].at = "held" /\ seen' = "agent_start"
        \/ runs[r].at = "running" /\ seen' = "agent_end"
        \/ runs[r].at = "ended" /\ seen' = "agent_start"
        \/ runs[r].at = "settling" /\ seen' = "settled"
    BY <2>2, RunStepNext DEF RpcIInv, Finishes
  <3>2. Current = runs[r].at BY <1>0, <3>1 DEF RpcIInv, RunsInv, Rpcs!Live, Current
  <3>. QED BY <3>1, <3>2 DEF RpcIInv, RunsInv
 <2>. QED BY <2>1, <2>2, RunsNext DEF RpcIInv
<1>2. ASSUME reader'.at = "started", reader.at # "started"
      PROVE  pending = <<>>
 <2>1. \A p \in {"ready", "queue", "ends", "waiting", "exited"} : [Rpcs!Ready EXCEPT !.at = p].at = p
   BY DEF Rpcs!Ready
 <2>2. Rpcs!Prompt
  <3>1. reader' # reader BY <1>2
  <3>2. ~\E w \in Wake : Rpcs!FollowUp(w) BY <3>1 DEF Rpcs!FollowUp
  <3>3. ~\E r \in DOMAIN runs : Rpcs!RunStep(r)
    BY <3>1 DEF Rpcs!RunStep, Rpcs!RunBegins, Rpcs!RunReleased, Rpcs!RunSettles, Rpcs!RunFails, Rpcs!RunReportsSettled, Rpcs!RunDecides, Rpcs!RunRetires
  <3>4. ~\E c \in DOMAIN commands : Rpcs!CommandStep(c)
    BY <3>1 DEF Rpcs!CommandStep, Rpcs!CommandReturns, Rpcs!CommandAnswers, Rpcs!CommandEnds
  <3>5. ~((\E e \in BOOLEAN : Rpcs!ExtensionCommand(e)) \/ Rpcs!OutputBreaks \/ Rpcs!Quiet)
    BY <3>1 DEF Rpcs!ExtensionCommand, Rpcs!OutputBreaks, Rpcs!Quiet, Rpcs!vars
  <3>6. ~\E i \in Input : \/ \E who \in Rpcs!Owners : Rpcs!Ask(i, who)
                          \/ Rpcs!InputResponse(i) \/ Rpcs!InputCanceled(i) \/ Rpcs!InputReturns(i)
    BY <3>1 DEF Rpcs!Ask, Rpcs!InputResponse, Rpcs!InputCanceled, Rpcs!InputReturns
  <3>7. ~Rpcs!Queue /\ ~Rpcs!EndOfInput
   <4>1. [Rpcs!Ready EXCEPT !.at = "queue"].at = "queue" /\ [Rpcs!Ready EXCEPT !.at = "ends"].at = "ends"
     BY <2>1
   <4>2. ~Rpcs!Queue BY <1>2, <4>1 DEF Rpcs!Queue
   <4>. QED BY <1>2, <4>1, <4>2 DEF Rpcs!EndOfInput
  <3>9. ~Rpcs!Abort BY <1>2 DEF Rpcs!Abort
  <3>8. ~Rpcs!ReaderStep
    BY <1>2, <2>1 DEF Rpcs!ReaderStep, Rpcs!PromptStarted, Rpcs!QueueAtAgent, Rpcs!Aborts, Rpcs!InputClosed, Rpcs!Shutdown, Rpcs!ShutdownCancels, Rpcs!Exit,
                      Rpcs!CancelTaken, Rpcs!Ready
  <3>. QED BY <3>1, <3>2, <3>3, <3>4, <3>5, <3>6, <3>7, <3>8, <3>9 DEF Rpcs!Next, Rpcs!vars
 <2>3. reader.at = "ready" /\ ~stopped /\ Rpcs!Ready.at = "ready"
   BY <2>2 DEF Rpcs!Prompt, Rpcs!Accepts, Rpcs!Ready
 <2>4. ~closed BY <2>3 DEF RpcIInv, QuestionsInv
 <2>5. ~Rpcs!Exclusive /\ ~active /\ ~Rpcs!MayStartPending(pending, active, FALSE)
   BY <1>2, <2>1, <2>2, <2>3 DEF Rpcs!Prompt
 <2>. QED BY <2>3, <2>4, <2>5 DEF Rpcs!MayStartPending
<1>. QED BY <1>1, <1>2 DEF Rpcs!InOrder

\* For any prompts, commands, wakes and questions: one prompt runs at a time, alone
\* when a command asks for it, a question gets one reply, and a wake is in one
\* place (server.go).
THEOREM RpcIsSafe ==
  ASSUME RpcParameters
  PROVE  Rpcs!Spec => []Rpcs!RpcSafe
<1>1. Rpcs!Init => RpcIInv BY RpcInitInv
<1>2. RpcIInv /\ [Rpcs!Next]_(Rpcs!vars) => RpcIInv' BY RpcNextInv
<1>3. RpcIInv => Rpcs!RpcSafe BY RpcInvImplies
<1>. QED BY <1>1, <1>2, <1>3, PTL DEF Rpcs!Spec

\* The client sees the events of a run in order, and its own prompt does not pass a
\* wake that was accepted before (startPromptLocked and handlePrompt).
THEOREM RpcIsInOrder ==
  ASSUME RpcParameters
  PROVE  Rpcs!Spec => Rpcs!RpcOrder
<1>1. Rpcs!Init => RpcIInv BY RpcInitInv
<1>2. RpcIInv /\ [Rpcs!Next]_(Rpcs!vars) => RpcIInv' BY RpcNextInv
<1>3. RpcIInv /\ [Rpcs!Next]_(Rpcs!vars) => [Rpcs!InOrder]_(Rpcs!vars) BY StepInOrder
<1>. QED BY <1>1, <1>2, <1>3, PTL DEF Rpcs!Spec, Rpcs!RpcOrder
=============================================================================
