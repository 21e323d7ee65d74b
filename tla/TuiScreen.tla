------------------------------ MODULE TuiScreen ------------------------------
(* What the fullscreen front end keeps of a conversation, internal/tui/app.go: *)
(* the transcript, the indexes into it that the events of the agent move, and  *)
(* the questions of extensions, each asked by a goroutine of its own, shown    *)
(* one at a time and answered with keys.  The events of one prompt arrive in   *)
(* the order agent.go emits them; module TuiLoop has the channel they cross.   *)
EXTENDS Naturals, Sequences, FiniteSets, SequencesExt

CONSTANTS Call,       \* tool calls, each made once
          Question,   \* questions, each asked once
          NONE,
          MaxPrompts, MaxTurns, MaxDeltas, MaxNotices, MaxKeys

VARIABLES phase,      \* of App.Run
          screen,     \* the transcript and the indexes of appState
          delta,      \* the text the loop gathers before it shows it
          modal,      \* the question shown and its entry
          modalQueue, \* the questions behind it
          mail,       \* events of questions in the channel of the loop
          asker,      \* the goroutines that ask
          done,       \* questions whose context is done
          reply,      \* the channels of the answers
          agent,      \* the agent, and which call is where; lossy: an event may have been lost
          bounds      \* prompts, turns, deltas, notices and keys, for the bounds of this model

vars == <<phase, screen, delta, modal, modalQueue, mail, asker, done, reply, agent, bounds>>
questions == <<modal, modalQueue, mail, asker, done, reply>>

Entry(kind, pending, of) == [kind |-> kind, pending |-> pending, of |-> of, text |-> kind \notin {"thinking", "assistant"}]
Empty == [rows |-> <<>>, assistant |-> 0, thinking |-> 0, compaction |-> 0,
          tools |-> [c \in Call |-> 0], pendingTools |-> 0, errored |-> FALSE]
NoDelta == [type |-> "none", entry |-> 0, full |-> FALSE]
NoModal == [q |-> NONE, entry |-> 0]

Init ==
  /\ phase = "before" /\ screen = Empty /\ delta = NoDelta
  /\ modal = NoModal /\ modalQueue = <<>> /\ mail = <<>>
  /\ asker = [q \in Question |-> "new"] /\ done = {} /\ reply = [q \in Question |-> "none"]
  /\ agent = [stage |-> "idle", calls |-> [c \in Call |-> "none"], canceled |-> FALSE, lossy |-> FALSE]
  /\ bounds = [prompts |-> 0, turns |-> 0, deltas |-> 0, notices |-> 0, keys |-> 0]

-----------------------------------------------------------------------------
(* The transcript and its indexes; 0 where the code has -1. *)

Holds(S, i, kind) == i \in DOMAIN S.rows /\ S.rows[i].kind = kind
Added(S, row) == [S EXCEPT !.rows = Append(@, row)]

Notice(S, kind) == Added(S, Entry(kind, FALSE, NONE))

(* removeTranscriptEntry; the entry of the question that is shown is not among *)
(* the indexes it adjusts.                                                     *)
Removed(S, i) ==
  LET Adjust(n) == IF n = i THEN 0 ELSE IF n > i THEN n - 1 ELSE n
  IN [S EXCEPT !.rows = RemoveAt(@, i), !.assistant = Adjust(@), !.thinking = Adjust(@),
               !.compaction = Adjust(@), !.tools = [c \in Call |-> Adjust(@[c])]]

FinishThinking(S) ==
  LET i == S.thinking
      T == [S EXCEPT !.rows[i].pending = FALSE]
  IN IF ~Holds(S, i, "thinking") THEN [S EXCEPT !.thinking = 0]
     ELSE [(IF S.rows[i].text THEN T ELSE Removed(T, i)) EXCEPT !.thinking = 0]

EnsureThinking(S) ==
  IF Holds(S, S.thinking, "thinking") THEN S
  ELSE [Added(S, Entry("thinking", TRUE, NONE)) EXCEPT !.thinking = Len(S.rows) + 1]

EnsureAssistant(S) ==
  IF Holds(S, S.assistant, "assistant") THEN S
  ELSE [Added(S, Entry("assistant", TRUE, NONE)) EXCEPT !.assistant = Len(S.rows) + 1]

(* appendDelta, for text that is not empty. *)
AppendDelta(S, i) ==
  LET T == IF i \in DOMAIN S.rows THEN S ELSE EnsureAssistant(S)
      n == IF i \in DOMAIN S.rows THEN i ELSE T.assistant
  IN [T EXCEPT !.rows[n].text = TRUE, !.rows[n].pending = TRUE]

(* flushDelta, before every other event. *)
Flushed == IF delta.full THEN AppendDelta(screen, delta.entry) ELSE screen

ToolEntry(S, c) ==
  IF S.tools[c] \in DOMAIN S.rows THEN S
  ELSE [Added(S, Entry("tool", TRUE, c)) EXCEPT
         !.tools[c] = Len(S.rows) + 1, !.pendingTools = @ + 1]

(* finishPendingTools *)
FinishTools(S) ==
  [S EXCEPT !.rows = [i \in DOMAIN @ |-> IF @[i].kind = "tool" THEN [@[i] EXCEPT !.pending = FALSE] ELSE @[i]],
            !.pendingTools = 0, !.tools = [c \in Call |-> 0]]

-----------------------------------------------------------------------------
(* The events of a prompt.  Once its context is done an event may be lost on   *)
(* the way, except the end of a compaction and that of the prompt.             *)

Shows(S) == screen' = S /\ delta' = NoDelta
MayShow(S) == Shows(S) \/ (agent.canceled /\ UNCHANGED <<screen, delta>>)
Stage(s) == agent' = [agent EXCEPT !.stage = s]
Running == phase = "running"

(* What is typed, or a follow-up, starts a prompt. *)
Submit ==
  /\ Running /\ agent.stage = "idle" /\ bounds.prompts < MaxPrompts
  /\ bounds' = [bounds EXCEPT !.prompts = @ + 1]
  /\ agent' = [agent EXCEPT !.stage = "ready", !.canceled = FALSE]
  /\ Shows([Added(Flushed, Entry("user", FALSE, NONE)) EXCEPT
             !.errored = FALSE, !.assistant = 0, !.thinking = 0])
  /\ UNCHANGED <<phase, questions>>

(* /clear, /new, and the end of /resume: the transcript is that of another     *)
(* conversation, or empty.  The session of a /resume is loaded in the          *)
(* background, and a question may be shown meanwhile.                          *)
Replaced ==
  /\ Running /\ agent.stage = "idle"
  /\ \E rows \in {<<>>, <<Entry("user", FALSE, NONE)>>} : Shows([Empty EXCEPT !.rows = rows])
  /\ UNCHANGED <<phase, questions, agent, bounds>>

CompactionStart ==
  /\ Running /\ agent.stage = "ready" /\ bounds.notices < MaxNotices
  /\ Stage("compacting") /\ bounds' = [bounds EXCEPT !.notices = @ + 1]
  /\ MayShow([Added(Flushed, Entry("notice", TRUE, NONE)) EXCEPT !.compaction = Len(Flushed.rows) + 1])
  /\ UNCHANGED <<phase, questions>>

CompactionEnd ==
  /\ Running /\ agent.stage = "compacting"
  /\ LET S == IF Flushed.compaction \in DOMAIN Flushed.rows THEN Flushed
              ELSE [Added(Flushed, Entry("notice", FALSE, NONE)) EXCEPT !.compaction = Len(Flushed.rows) + 1]
     IN \E kind \in {"notice", "error"} :
          /\ Shows([S EXCEPT !.rows[S.compaction].pending = FALSE, !.rows[S.compaction].kind = kind,
                             !.compaction = 0])
          /\ Stage(IF kind = "notice" THEN "model" ELSE "failed")
  /\ UNCHANGED <<phase, questions, bounds>>

(* An entry that says the model thinks, unless thinking is off.  The provider  *)
(* refuses a request whose context is done.                                    *)
TurnStart ==
  /\ Running /\ agent.stage \in {"ready", "model"} /\ bounds.turns < MaxTurns
  /\ Stage(IF agent.canceled THEN "refused" ELSE "streaming")
  /\ bounds' = [bounds EXCEPT !.turns = @ + 1, !.deltas = 0]
  /\ LET S == [Flushed EXCEPT !.assistant = 0, !.thinking = 0] IN
     \E off \in BOOLEAN :
       MayShow(IF off THEN S ELSE [Added(S, Entry("thinking", TRUE, NONE)) EXCEPT !.thinking = Len(S.rows) + 1])
  /\ UNCHANGED <<phase, questions>>

(* Pieces of one type are gathered; the first finds the entry.  One without    *)
(* text finds it, too.                                                         *)
Delta ==
  /\ Running /\ agent.stage = "streaming" /\ bounds.deltas < MaxDeltas
  /\ bounds' = [bounds EXCEPT !.deltas = @ + 1]
  /\ \E type \in {"text", "thinking"}, full \in BOOLEAN :
       LET fresh == ~delta.full \/ delta.type # type
           base == IF delta.type # type THEN Flushed ELSE screen
           S == IF ~fresh THEN screen
                ELSE IF type = "thinking" THEN EnsureThinking(base) ELSE EnsureAssistant(FinishThinking(base))
       IN \/ /\ screen' = S
             /\ delta' = [type |-> type, full |-> full \/ ~fresh,
                          entry |-> IF ~fresh THEN delta.entry
                                    ELSE IF type = "thinking" THEN S.thinking ELSE S.assistant]
          \/ agent.canceled /\ UNCHANGED <<screen, delta>>
  /\ UNCHANGED <<phase, questions, agent>>

(* The timer shows what was gathered. *)
FlushDelta ==
  /\ Running /\ delta.full /\ Shows(Flushed)
  /\ UNCHANGED <<phase, questions, agent, bounds>>

(* Retries of the provider, and the warning about calls with invalid input,    *)
(* which is told as an error of the prompt.                                    *)
Warn ==
  /\ Running /\ agent.stage = "streaming" /\ bounds.notices < MaxNotices
  /\ bounds' = [bounds EXCEPT !.notices = @ + 1]
  /\ \/ MayShow(Notice(FinishThinking(Flushed), "notice"))
     \/ MayShow([Notice(Flushed, "error") EXCEPT !.errored = TRUE])
  /\ UNCHANGED <<phase, questions, agent>>

(* Mutant: the index of an answer without text stays. *)
EndOfTurnKeepsIndex(S) ==
  LET T == FinishThinking(S) i == T.assistant IN
  IF i \notin DOMAIN T.rows THEN T
  ELSE IF ~T.rows[i].text THEN [T EXCEPT !.rows = RemoveAt(@, i)]
  ELSE [T EXCEPT !.rows[i].pending = FALSE]

(* The entry of an answer without text is taken out where it is. *)
EndOfTurn(S) ==
  LET T == FinishThinking(S) i == T.assistant IN
  IF i \notin DOMAIN T.rows THEN T
  ELSE IF ~T.rows[i].text THEN [T EXCEPT !.rows = RemoveAt(@, i), !.assistant = 0]
  ELSE [T EXCEPT !.rows[i].pending = FALSE]

TurnEnd ==
  /\ Running /\ agent.stage = "streaming"
  /\ \E C \in SUBSET {c \in Call : agent.calls[c] = "none"} :
       agent' = [agent EXCEPT !.stage = IF C = {} THEN "over" ELSE "tools",
                              !.calls = [c \in Call |-> IF c \in C THEN "made" ELSE @[c]]]
  /\ MayShow(EndOfTurn(Flushed))
  /\ UNCHANGED <<phase, questions, bounds>>

StreamFails ==
  /\ Running /\ agent.stage \in {"streaming", "refused"} /\ Stage("failed")
  /\ MayShow([Notice(Flushed, "error") EXCEPT !.errored = TRUE])
  /\ UNCHANGED <<phase, questions, bounds>>

ToolStart(c) ==
  /\ Running /\ agent.stage = "tools" /\ agent.calls[c] = "made"
  /\ agent' = [agent EXCEPT !.calls[c] = "runs"]
  /\ MayShow([Added(Flushed, Entry("tool", TRUE, c)) EXCEPT
               !.tools[c] = Len(Flushed.rows) + 1, !.pendingTools = @ + 1])
  /\ UNCHANGED <<phase, questions, bounds>>

ToolUpdate(c) ==
  /\ Running /\ agent.stage = "tools" /\ agent.calls[c] = "runs"
  /\ MayShow(ToolEntry(Flushed, c))
  /\ UNCHANGED <<phase, questions, agent, bounds>>

(* Also without a start: a call that was denied, or of a tool nobody has; and  *)
(* a hook that fails ends the call without a word.                             *)
ToolEnd(c) ==
  /\ Running /\ agent.stage = "tools" /\ agent.calls[c] \in {"made", "runs"}
  /\ LET S == ToolEntry(Flushed, c) i == S.tools[c] IN
       \/ MayShow([S EXCEPT !.pendingTools = IF S.rows[i].pending /\ @ > 0 THEN @ - 1 ELSE @,
                            !.rows[i].pending = FALSE])
       \/ agent.calls[c] = "made" /\ UNCHANGED <<screen, delta>>
  /\ LET calls == [agent.calls EXCEPT ![c] = "ended"] IN
       agent' = [agent EXCEPT !.calls = calls,
                              !.stage = IF \E d \in Call : calls[d] \in {"made", "runs"} THEN "tools" ELSE "ready"]
  /\ UNCHANGED <<phase, questions, bounds>>

(* A limit, a hook, an append that fails, a context that is done, or a last    *)
(* turn; a message that was queued is shown where it joins.                    *)
Stops ==
  /\ Running /\ agent.stage \in {"ready", "model"} /\ Stage("failed")
  /\ UNCHANGED <<phase, screen, delta, questions, bounds>>

Joins ==
  /\ Running /\ agent.stage \in {"ready", "over"} /\ bounds.notices < MaxNotices
  /\ Stage("ready") /\ bounds' = [bounds EXCEPT !.notices = @ + 1]
  /\ MayShow(Added(Flushed, Entry("user", FALSE, NONE)))
  /\ UNCHANGED <<phase, questions>>

Cancel ==
  /\ Running /\ agent.stage # "idle" /\ ~agent.canceled
  /\ agent' = [agent EXCEPT !.canceled = TRUE, !.lossy = TRUE]
  /\ UNCHANGED <<phase, screen, delta, questions, bounds>>

(* finishPrompt *)
PromptDone ==
  /\ Running /\ agent.stage \in {"over", "failed"}
  /\ LET T == FinishTools(Flushed)
         A == IF T.assistant \in DOMAIN T.rows THEN [T EXCEPT !.rows[T.assistant].pending = FALSE] ELSE T
         F == [FinishThinking(A) EXCEPT !.assistant = 0]
         open == agent.stage = "failed" /\ F.compaction \in DOMAIN F.rows /\ F.rows[F.compaction].pending
         C == IF open THEN [F EXCEPT !.rows[F.compaction].pending = FALSE] ELSE F
     IN Shows(IF agent.stage = "over" \/ open \/ (C.errored /\ ~agent.canceled) THEN C ELSE Notice(C, "error"))
  /\ Stage("idle")
  /\ UNCHANGED <<phase, questions, bounds>>

-----------------------------------------------------------------------------
(* The goroutines that ask. *)

(* Before Run the request is retained; after it nobody reads the channel. *)
Ask(q) ==
  /\ asker[q] = "new" /\ q \notin done
  /\ IF phase = "exited" THEN mail' = mail ELSE mail' = Append(mail, [type |-> "ask", q |-> q])
  /\ asker' = [asker EXCEPT ![q] = "waits"]
  /\ UNCHANGED <<phase, screen, delta, modal, modalQueue, done, reply, agent, bounds>>

ContextDone(q) ==
  /\ q \notin done /\ done' = done \cup {q}
  /\ UNCHANGED <<phase, screen, delta, modal, modalQueue, mail, asker, reply, agent, bounds>>

Answered(q) ==
  /\ asker[q] = "waits" /\ reply[q] # "none"
  /\ asker' = [asker EXCEPT ![q] = IF reply[q] = "answer" THEN "heard" ELSE "refused"]
  /\ UNCHANGED <<phase, screen, delta, modal, modalQueue, mail, done, reply, agent, bounds>>

(* The loop is told to close the question; not before Run nor after it. *)
GivesUp(q) ==
  /\ asker[q] = "waits" /\ q \in done
  /\ asker' = [asker EXCEPT ![q] = "gone"]
  /\ mail' = IF Running THEN Append(mail, [type |-> "cancel", q |-> q]) ELSE mail
  /\ UNCHANGED <<phase, screen, delta, modal, modalQueue, done, reply, agent, bounds>>

-----------------------------------------------------------------------------
(* The loop and the questions.  An answer is dropped where one waits. *)

Replied(r, q, answer) == IF r[q] = "none" THEN [r EXCEPT ![q] = answer] ELSE r

Begun(S, q) == Added(S, Entry("prompt", TRUE, q))

(* resolveHostRequest, and startNextHostRequest: those whose context is done   *)
(* are answered on the way to the next.                                        *)
Resolve(answer) ==
  LET S == Flushed
      i == modal.entry
      marked == IF i \in DOMAIN S.rows THEN [S EXCEPT !.rows[i].pending = FALSE] ELSE S
      T == IF answer = "answer" THEN Added(marked, Entry("user", FALSE, NONE)) ELSE marked
      live == {n \in DOMAIN modalQueue : modalQueue[n] \notin done}
      next == IF live = {} THEN Len(modalQueue) + 1 ELSE CHOOSE n \in live : \A k \in live : n <= k
      r == Replied(reply, modal.q, answer)
  IN /\ reply' = [q \in Question |-> IF \E n \in 1..(next - 1) : modalQueue[n] = q
                                     THEN Replied(r, q, "refusal")[q] ELSE r[q]]
     /\ modalQueue' = SubSeq(modalQueue, next + 1, Len(modalQueue))
     /\ IF live = {} THEN Shows(T) /\ modal' = NoModal
        ELSE Shows(Begun(T, modalQueue[next])) /\ modal' = [q |-> modalQueue[next], entry |-> Len(T.rows) + 1]

(* enqueueHostRequest *)
TakeAsk ==
  /\ Running /\ mail # <<>> /\ Head(mail).type = "ask" /\ mail' = Tail(mail)
  /\ LET q == Head(mail).q IN
     IF q \in done THEN reply' = Replied(reply, q, "refusal") /\ Shows(Flushed) /\ UNCHANGED <<modal, modalQueue>>
     ELSE IF modal.q # NONE THEN modalQueue' = Append(modalQueue, q) /\ Shows(Flushed) /\ UNCHANGED <<modal, reply>>
     ELSE /\ Shows(Begun(Flushed, q)) /\ modal' = [q |-> q, entry |-> Len(Flushed.rows) + 1]
          /\ UNCHANGED <<modalQueue, reply>>
  /\ UNCHANGED <<phase, asker, done, agent, bounds>>

(* Mutant: only the question that is shown is closed. *)
TakeCancelOfModal ==
  /\ Running /\ mail # <<>> /\ Head(mail).type = "cancel" /\ mail' = Tail(mail)
  /\ IF Head(mail).q = modal.q THEN Resolve("refusal")
     ELSE Shows(Flushed) /\ UNCHANGED <<modal, modalQueue, reply>>
  /\ UNCHANGED <<phase, asker, done, agent, bounds>>

(* cancelHostRequest *)
TakeCancel ==
  /\ Running /\ mail # <<>> /\ Head(mail).type = "cancel" /\ mail' = Tail(mail)
  /\ LET q == Head(mail).q IN
     IF q = modal.q THEN Resolve("refusal")
     ELSE /\ modalQueue' = SelectSeq(modalQueue, LAMBDA r : r # q)
          /\ reply' = IF \E n \in DOMAIN modalQueue : modalQueue[n] = q THEN Replied(reply, q, "refusal") ELSE reply
          /\ Shows(Flushed) /\ UNCHANGED modal
  /\ UNCHANGED <<phase, asker, done, agent, bounds>>

(* Enter, and Escape or Ctrl-C, which cancels the prompt, too. *)
KeyAnswers ==
  /\ Running /\ modal.q # NONE /\ Resolve("answer")
  /\ UNCHANGED <<phase, mail, asker, done, agent, bounds>>

KeyRefuses ==
  /\ Running /\ modal.q # NONE /\ Resolve("refusal")
  /\ agent' \in {agent, IF agent.stage = "idle" THEN agent
               ELSE [agent EXCEPT !.canceled = TRUE, !.lossy = TRUE]}
  /\ UNCHANGED <<phase, mail, asker, done, bounds>>

(* The other keys of a selection write the question anew into its entry. *)
KeyChooses ==
  /\ Running /\ modal.q # NONE /\ bounds.keys < MaxKeys
  /\ bounds' = [bounds EXCEPT !.keys = @ + 1]
  /\ LET S == Flushed IN
       Shows(IF modal.entry \in DOMAIN S.rows THEN [S EXCEPT !.rows[modal.entry].text = TRUE] ELSE S)
  /\ UNCHANGED <<phase, questions, agent>>

Start ==
  /\ phase = "before" /\ phase' = "running"
  /\ UNCHANGED <<screen, delta, questions, agent, bounds>>

(* The loop ends with a key or its context and refuses what it has, or with an *)
(* error of the terminal.                                                      *)
Exit ==
  /\ Running
  /\ \/ /\ phase' = "exited"
        /\ modal' = NoModal /\ modalQueue' = <<>>
        /\ reply' = [q \in Question |-> IF q = modal.q \/ \E n \in DOMAIN modalQueue : modalQueue[n] = q
                                        THEN Replied(reply, q, "refusal")[q] ELSE reply[q]]
     \/ phase' = "broken" /\ UNCHANGED <<modal, modalQueue, reply>>
  /\ UNCHANGED <<screen, delta, mail, asker, done, agent, bounds>>

Prompt ==
  \/ Submit \/ Replaced \/ CompactionStart \/ CompactionEnd \/ TurnStart \/ Delta \/ FlushDelta \/ Warn
  \/ TurnEnd \/ StreamFails \/ Stops \/ Joins \/ Cancel \/ PromptDone
  \/ \E c \in Call : ToolStart(c) \/ ToolUpdate(c) \/ ToolEnd(c)
Asking == \E q \in Question : Ask(q) \/ ContextDone(q) \/ Answered(q) \/ GivesUp(q)
Loop == Start \/ Exit \/ TakeAsk \/ TakeCancel \/ KeyAnswers \/ KeyRefuses \/ KeyChooses
Next == Prompt \/ Asking \/ Loop

Spec == Init /\ [][Next]_vars

-----------------------------------------------------------------------------
\* Entries have one of the kinds of the transcript, and deltas one of theirs.
TypeOK ==
  /\ phase \in {"before", "running", "exited", "broken"}
  /\ \A i \in DOMAIN screen.rows : screen.rows[i].kind \in
       {"user", "thinking", "assistant", "tool", "notice", "error", "prompt"}
  /\ delta.type \in {"none", "text", "thinking"}

(* Every index is 0 or leads to the entry it was made for, however entries    *)
(* were added and taken out between.                                          *)
IndexesLead ==
  /\ screen.assistant # 0 => Holds(screen, screen.assistant, "assistant")
  /\ screen.thinking # 0 => Holds(screen, screen.thinking, "thinking")
  /\ screen.compaction # 0 => Holds(screen, screen.compaction, "notice")
  /\ delta.full => \/ delta.type = "text" /\ Holds(screen, delta.entry, "assistant")
                   \/ delta.type = "thinking" /\ Holds(screen, delta.entry, "thinking")
  /\ \A c \in Call : screen.tools[c] # 0 =>
       Holds(screen, screen.tools[c], "tool") /\ screen.rows[screen.tools[c]].of = c

(* Between prompts no call and no compaction seems to be at work, whichever    *)
(* events were lost, and without a loss nothing does; and while calls are, the *)
(* animation knows.                                                            *)
SettledIsDone ==
  /\ agent.stage = "idle" => \A i \in DOMAIN screen.rows :
       screen.rows[i].pending => \/ screen.rows[i].kind = "prompt"
                                 \/ screen.rows[i].kind \in {"thinking", "assistant"} /\ agent.lossy
  /\ screen.pendingTools >= Cardinality({i \in DOMAIN screen.rows : screen.rows[i].kind = "tool" /\ screen.rows[i].pending})

InQueue(q) == \E n \in DOMAIN modalQueue : modalQueue[n] = q
InMail(type, q) == \E n \in DOMAIN mail : mail[n] = [type |-> type, q |-> q]

(* A question that waits is on its way, behind others or shown, and one is    *)
(* shown when any waits behind it; a question whose asker has left is about to *)
(* be closed.                                                                  *)
NobodyForgotten ==
  Running =>
    /\ \A q \in Question : asker[q] = "waits" /\ reply[q] = "none" =>
         InMail("ask", q) \/ modal.q = q \/ InQueue(q)
    /\ modalQueue # <<>> => modal.q # NONE
    /\ \A q \in Question : asker[q] = "gone" /\ (modal.q = q \/ InQueue(q)) => InMail("cancel", q)

ScreenSafe == TypeOK /\ IndexesLead /\ SettledIsDone /\ NobodyForgotten

(* The question that is shown is in the transcript, in the entry its keys     *)
(* change.                                                                     *)
QuestionIsShown ==
  modal.q # NONE => Holds(screen, modal.entry, "prompt") /\ screen.rows[modal.entry].of = modal.q

=============================================================================
