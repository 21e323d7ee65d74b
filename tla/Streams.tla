------------------------------ MODULE Streams ------------------------------
(***************************************************************************)
(* One request of a provider adapter: the conversation is put into the     *)
(* service's wire form, sent with at most one renewed token, and the       *)
(* server-sent events of the answer are folded into content blocks.        *)
(* Source: src/internal/provider/openai, anthropic, openrouter.            *)
(*                                                                         *)
(* The dialects tell a text in several redundant ways: piece by piece, and *)
(* again as a whole when the part, the item or the response is finished.   *)
(* A text is the sequence of its pieces 1, 2, ...; a server may leave the  *)
(* pieces out or leave the repetitions out, and may stop at any point.     *)
(*                                                                         *)
(* Not modelled: token counts, prompt-cache fields, tool names, separators *)
(* between reasoning summaries, several content parts in one item, and the *)
(* server-side tool outputs of the Responses API.                          *)
(***************************************************************************)
EXTENDS Integers, SequencesExt

CONSTANTS Dialect,    \* adapters: a subset of {"openai", "anthropic", "openrouter"}
          Histories,  \* conversations a request may carry
          MaxItems,   \* items the server may answer with
          MaxPieces   \* pieces of one item

VARIABLES dialect,    \* the adapter
          authorizes, \* the adapter can renew its own token
          history,    \* messages of the request, after CleanAndRepairMessages
          wire,       \* messages of the request in the service's form
          pc,         \* where Stream stands
          tried,      \* tokens sent, in order
          items,      \* the server's side: what it means to answer
          slots,      \* blocks being assembled, one per item of the server
          shown,      \* pieces reported through onEvent: <<item, piece>>
          answer      \* the response returned

vars == <<dialect, authorizes, history, wire, pc, tried, items, slots, shown, answer>>

Kinds == {"reasoning", "message", "call"}
Pieces(n) == [p \in 1..n |-> p]
NoAnswer == [content |-> <<>>, stop |-> "none"]

----------------------------------------------------------------------------
(* Putting a conversation into wire form. A block is                       *)
(* [type, id, by]: the id pairs a call with its result, "by" names the     *)
(* dialect whose signature a thinking block carries.                       *)

\* Responses API: one flat list; texts of one message that follow one
\* another become one entry; only reasoning signed by this API is replayed.
FlatMessage(m) ==
  FoldLeft(LAMBDA out, b :
      CASE b.type = "thinking" -> IF b.by = "openai" THEN Append(out, b) ELSE out
        [] b.type = "text" -> IF out # <<>> /\ Last(out).type = "text"
                              THEN out ELSE Append(out, b)
        [] OTHER -> Append(out, b),
    <<>>, m.content)

WireOpenAI(h) == FlattenSeq([i \in DOMAIN h |-> FlatMessage(h[i])])

\* Messages API: message by message, without the reasoning of others.
Replayable(b) == b.type = "thinking" => b.by \notin {"none", "openai"}

WireAnthropic(h) ==
  [i \in DOMAIN h |-> [h[i] EXCEPT !.content = SelectSeq(@, Replayable)]]

\* Chat Completions: an assistant message holds one text and its calls; each
\* result is a message of its own, and nothing else may stand between them.
ChatMessage(m) ==
  LET Out(b) == IF b.type = "result" THEN [role |-> "tool", content |-> <<b>>]
                ELSE [role |-> m.role, content |-> <<b>>]
      open(out) == out # <<>> /\ Last(out).role # "tool"
  IN IF m.content = <<>> THEN <<m>>
     ELSE FoldLeft(LAMBDA out, b :
            CASE b.type = "thinking" \/ (b.type = "call" /\ m.role # "assistant") -> out
              [] b.type \in {"text", "call"} /\ open(out) ->
                   [out EXCEPT ![Len(out)].content = Append(@, b)]
              [] OTHER -> Append(out, Out(b)),
          <<>>, m.content)

WireOpenRouter(h) == FlattenSeq([i \in DOMAIN h |-> ChatMessage(h[i])])

Wire == CASE dialect = "openai"     -> WireOpenAI(history)
          [] dialect = "anthropic"  -> WireAnthropic(history)
          [] dialect = "openrouter" -> WireOpenRouter(history)

----------------------------------------------------------------------------
Init ==
  /\ dialect \in Dialect
  /\ authorizes \in (IF dialect = "openrouter" THEN {FALSE} ELSE BOOLEAN)
  /\ history \in Histories
  /\ wire = <<>> /\ pc = "build" /\ tried = <<>>
  /\ items = <<>> /\ slots = <<>> /\ shown = <<>> /\ answer = NoAnswer

Build ==
  /\ pc = "build"
  /\ wire' = Wire
  /\ pc' = "send"
  /\ UNCHANGED <<dialect, authorizes, history, tried, items, slots, shown, answer>>

\* send: the first request, with the key or the token that is stored.
SendRequest ==
  /\ pc = "send"
  /\ \E status \in {"ok", "unauthorized", "error"} :
       pc' = CASE status = "ok" -> "stream"
               [] status = "unauthorized" /\ authorizes -> "refresh"
               [] OTHER -> "failed"
  /\ tried' = <<1>>
  /\ UNCHANGED <<dialect, authorizes, history, wire, items, slots, shown, answer>>

\* The token that was rejected is renewed; the renewal may fail, or return
\* the same token because nothing newer exists.
Renewed(token) == token # tried[1]

Refresh ==
  /\ pc = "refresh"
  /\ \/ pc' = "failed" /\ UNCHANGED tried
     \/ \E token \in 1..2 :
          IF Renewed(token)
            THEN tried' = Append(tried, token) /\ pc' = "resend"
            ELSE pc' = "failed" /\ UNCHANGED tried
  /\ UNCHANGED <<dialect, authorizes, history, wire, items, slots, shown, answer>>

Resend ==
  /\ pc = "resend"
  /\ pc' \in {"stream", "failed"}
  /\ UNCHANGED <<dialect, authorizes, history, wire, tried, items, slots, shown, answer>>

----------------------------------------------------------------------------
(* The server. An item is [kind, size, sent, told, closed]: its text has   *)
(* size pieces, sent of them went out as deltas, told says that the whole  *)
(* text went out at least once.                                            *)

OpenItem(kind) == \E i \in DOMAIN items : ~items[i].closed /\ items[i].kind = kind

NewSlot(kind, text) == [kind |-> kind, text |-> text, deltas |-> FALSE]

MayOpen(kind) ==
  /\ pc = "stream"
  /\ Len(items) < MaxItems
  /\ dialect = "anthropic" => \A i \in DOMAIN items : items[i].closed
  /\ dialect = "openrouter" /\ kind # "call" => \A i \in DOMAIN items : items[i].kind # kind

Opened(kind, size, first, sent) ==
  items' = Append(items, [kind |-> kind, size |-> size, sent |-> sent,
                          told |-> first = size, closed |-> FALSE])

\* response.output_item.added and response.content_part.added, which may
\* hold the first piece of a message; the first delta of a choice.
ItemAdded(kind) ==
  /\ dialect # "anthropic"
  /\ MayOpen(kind)
  /\ \E size \in 0..MaxPieces, first \in 0..1 :
       /\ first <= size
       /\ first = 1 => dialect = "openai" /\ kind = "message"
       /\ kind = "call" => size > 0
       /\ Opened(kind, size, first, first)
       /\ slots' = Append(slots, NewSlot(
            IF dialect = "openai" /\ kind = "message" /\ first = 0 THEN "none" ELSE kind,
            Pieces(first)))
       /\ shown' = IF first = 0 THEN shown ELSE Append(shown, <<Len(items) + 1, 1>>)
  /\ UNCHANGED <<dialect, authorizes, history, wire, pc, tried, answer>>

\* content_block_start: texts may start with a piece; a call may come with
\* its whole input, which is shown to nobody.
BlockStart(kind) ==
  /\ dialect = "anthropic"
  /\ MayOpen(kind)
  /\ \E size \in 0..MaxPieces, first \in 0..MaxPieces :
       /\ first <= size
       /\ IF kind = "call" THEN size > 0 /\ first \in {0, size} ELSE first <= 1
       /\ Opened(kind, size, first, IF kind = "call" THEN 0 ELSE first)
       /\ slots' = Append(slots, NewSlot(kind, Pieces(first)))
       /\ shown' = IF kind = "call" \/ first = 0 THEN shown
                   ELSE Append(shown, <<Len(items) + 1, 1>>)
  /\ UNCHANGED <<dialect, authorizes, history, wire, pc, tried, answer>>

\* A delta is appended; the first delta of a call of the Messages API
\* replaces the input its start carried.
Folded(i, piece) ==
  [slots EXCEPT ![i] =
     [kind |-> items[i].kind, deltas |-> TRUE,
      text |-> IF dialect = "anthropic" /\ items[i].kind = "call" /\ ~slots[i].deltas
               THEN <<piece>> ELSE Append(slots[i].text, piece)]]

Delta(i) ==
  /\ pc = "stream"
  /\ ~items[i].closed /\ items[i].sent < items[i].size
  /\ LET piece == items[i].sent + 1
         again == dialect = "anthropic" /\ items[i].kind = "call"
     IN /\ items' = [items EXCEPT ![i].sent = piece,
                                  ![i].told = (@ /\ ~again) \/ piece = items[i].size]
        /\ slots' = Folded(i, piece)
        /\ shown' = Append(shown, <<i, piece>>)
  /\ UNCHANGED <<dialect, authorizes, history, wire, pc, tried, answer>>

\* Mutant: a text that is repeated as a whole is appended to the pieces.
AppendWhole(text, whole) == text \o whole

\* A whole text counts only where no piece arrived.
Filled(text, whole) == IF text = <<>> THEN whole ELSE text

\* The final form of a call or of reasoning replaces what was assembled.
Final(slot, kind, whole) ==
  [slot EXCEPT !.kind = kind,
               !.text = IF kind = "message" THEN Filled(@, whole)
                        ELSE IF whole # <<>> THEN whole ELSE @]

\* response.output_text.done, reasoning_summary_text.done and
\* function_call_arguments.done.
TextDone(i) ==
  /\ dialect = "openai" /\ pc = "stream"
  /\ ~items[i].closed /\ items[i].sent \in {0, items[i].size}
  /\ items' = [items EXCEPT ![i].told = TRUE, ![i].sent = items[i].size]
  /\ slots' = [slots EXCEPT ![i] =
        [@ EXCEPT !.kind = items[i].kind, !.text = Filled(@, Pieces(items[i].size))]]
  /\ UNCHANGED <<dialect, authorizes, history, wire, pc, tried, shown, answer>>

\* response.output_item.done, with or without the content; content_block_stop
\* and the end of a choice's deltas change nothing.
ItemDone(i) ==
  /\ pc = "stream"
  /\ ~items[i].closed /\ items[i].sent \in {0, items[i].size}
  /\ \/ /\ dialect = "openai"
        /\ items' = [items EXCEPT ![i].told = TRUE, ![i].closed = TRUE]
        /\ slots' = [slots EXCEPT ![i] = Final(@, items[i].kind, Pieces(items[i].size))]
     \/ /\ dialect # "openai" => slots[i].text = Pieces(items[i].size)
        /\ items' = [items EXCEPT ![i].closed = TRUE]
        /\ UNCHANGED slots
  /\ UNCHANGED <<dialect, authorizes, history, wire, pc, tried, shown, answer>>

----------------------------------------------------------------------------
(* The end of the stream.                                                  *)

\* NormalizeToolCallArguments: input that is not one whole JSON object is
\* replaced and the call marked; no input at all is the empty object.
Block(slot, item) ==
  [kind |-> slot.kind, text |-> slot.text,
   bad |-> slot.kind = "call" /\ slot.text \notin {<<>>, Pieces(item.size)}]

Keeps(block) ==
  /\ block.kind # "none"
  /\ block.text # <<>> \/ block.kind = "call" \/ dialect = "anthropic"
                       \/ (dialect = "openai" /\ block.kind = "message")

\* Blocks in the order of their index; Chat Completions has no order
\* between the kinds.
Content(finals) ==
  LET kept == SelectSeq([i \in DOMAIN finals |-> Block(finals[i], items[i])], Keeps)
      Of(kind) == SelectSeq(kept, LAMBDA b : b.kind = kind)
  IN IF dialect = "openrouter" THEN Of("reasoning") \o Of("message") \o Of("call")
     ELSE kept

Return(finals, stop) ==
  /\ pc' = "done"
  /\ answer' = [content |-> Content(finals), stop |-> stop]
  /\ UNCHANGED <<dialect, authorizes, history, wire, tried, items, slots, shown>>

HasCall(finals) == \E i \in DOMAIN finals : finals[i].kind = "call"

\* response.completed, whose output may repeat every item; message_delta with
\* message_stop; a finish reason with [DONE].
Completed ==
  /\ pc = "stream"
  /\ \A i \in DOMAIN items : items[i].closed
  /\ \E carries \in BOOLEAN :
       LET finals == IF carries
                     THEN [i \in DOMAIN slots |->
                             Final(slots[i], items[i].kind, Pieces(items[i].size))]
                     ELSE slots
       IN /\ carries => dialect = "openai"
          /\ dialect = "openai" /\ ~carries => \A i \in DOMAIN items : items[i].told
          /\ Return(finals, IF HasCall(finals) THEN "tool_use" ELSE "end_turn")

\* response.incomplete, stop reason max_tokens, finish reason length; a
\* content filter ends the answer the same way under another name.
Incomplete ==
  /\ pc = "stream"
  /\ \E stop \in {"max_tokens", "content_filter"} :
       \/ Return(slots, stop)
       \/ /\ dialect = "openai"    \* its output repeats the items as far as they went
          /\ Return([i \in DOMAIN slots |->
                       Final(slots[i], items[i].kind,
                             Pieces(IF items[i].told THEN items[i].size ELSE items[i].sent))],
                    stop)

\* The connection ends, the server reports an error, an event is malformed
\* or the caller cancels.
Broken ==
  /\ pc = "stream"
  /\ pc' = "failed"
  /\ UNCHANGED <<dialect, authorizes, history, wire, tried, items, slots, shown, answer>>

Finish == Completed \/ Incomplete \/ Broken

Next ==
  \/ Build \/ SendRequest \/ Refresh \/ Resend
  \/ \E kind \in Kinds : ItemAdded(kind) \/ BlockStart(kind)
  \/ \E i \in DOMAIN items : Delta(i) \/ TextDone(i) \/ ItemDone(i)
  \/ Finish

Spec == Init /\ [][Next]_vars

----------------------------------------------------------------------------
(* Properties                                                              *)

\* The stages of a request; the answer is there only when it is done.
TypeOK ==
  /\ pc \in {"build", "send", "refresh", "resend", "stream", "done", "failed"}
  /\ tried \in Seq(1..2)
  /\ Len(slots) = Len(items)
  /\ \A i \in DOMAIN items : items[i].sent <= items[i].size
  /\ answer # NoAnswer => pc = "done"

\* What the server said of an item: all of it when the answer is complete or
\* the whole was told, else the pieces that were sent.
Said(i) == Pieces(IF items[i].told \/ answer.stop \in {"tool_use", "end_turn"}
                  THEN items[i].size ELSE items[i].sent)

\* An answer holds every text the server told exactly once and in order,
\* whichever of the redundant events told it, and one that was cut short holds
\* what was told up to there: a repeated text is not doubled, one sent only in
\* a final event is not lost (the Stream functions and their merge helpers).
AnswerIsWhole ==
  pc = "done" =>
    LET said == [i \in DOMAIN items |-> [kind |-> items[i].kind, text |-> Said(i)]]
        got == [b \in DOMAIN answer.content |->
                  [kind |-> answer.content[b].kind, text |-> answer.content[b].text]]
        Of(s, kind) == SelectSeq(s, LAMBDA b : b.kind = kind /\ (b.text # <<>> \/ kind = "call"))
        Texts(s) == SelectSeq(s, LAMBDA b : b.text # <<>>)
    IN IF dialect = "openrouter" THEN \A kind \in Kinds : Of(got, kind) = Of(said, kind)
       ELSE Texts(got) = Texts(said)

\* What was shown while the answer streamed is a beginning of what is kept:
\* pieces of an item are shown once, in order, and only pieces the server sent
\* (onEvent in the three Stream functions).
ShownIsKept ==
  \A i \in DOMAIN items :
    LET mine == SelectSeq(shown, LAMBDA s : s[1] = i)
    IN /\ Len(mine) <= items[i].sent
       /\ \A n \in DOMAIN mine : mine[n] = <<i, n>>

IsTool(b) == b.type \in {"call", "result"}
Blocks(messages) == FlattenSeq([i \in DOMAIN messages |-> messages[i].content])

\* The wire form keeps every call and every result in their order, carries no
\* reasoning another service signed, and a Chat Completions result follows
\* the assistant message with its call directly (the makeRequest functions).
WireIsPaired ==
  wire # <<>> =>
    LET sent == IF dialect = "openai" THEN wire ELSE Blocks(wire)
        Asks(m, id) == \E b \in Range(m.content) : b.type = "call" /\ b.id = id
    IN /\ SelectSeq(sent, IsTool) = SelectSeq(Blocks(history), IsTool)
       /\ \A b \in Range(sent) : b.type = "thinking" => b.by = dialect
       /\ dialect = "openrouter" =>
            \A i \in DOMAIN wire : wire[i].role = "tool" =>
              \E j \in 1..(i - 1) :
                /\ wire[j].role = "assistant" /\ Asks(wire[j], wire[i].content[1].id)
                /\ \A k \in (j + 1)..i : wire[k].role = "tool"

StreamsSafe == TypeOK /\ AnswerIsWhole /\ ShownIsKept /\ WireIsPaired

=============================================================================
