----------------------------- MODULE TermInput -----------------------------
(* Keys of the terminal, internal/tui/input.go and readInput of app.go: the   *)
(* bytes of the terminal arrive in pieces of any size, the parser keeps what  *)
(* is not complete, and a timer resolves an Escape or a paste that does not   *)
(* end.  Bytes and code points are numbers; a rune has one or two bytes.      *)
EXTENDS Integers, Sequences, SequencesExt

CONSTANTS
  Item,       \* what a terminal may send: [bytes, keys, clean], where the bytes of
              \* a clean item mean its keys whatever follows them
  MaxItems,   \* bound on the items
  MaxFlushes  \* bound on how often what is pending is resolved

VARIABLES
  sent,     \* the items the terminal sends
  taken,    \* how many of their bytes have been read
  parser,   \* Parser: buf, pasting for inPaste, and the keys sent to the loop
  timer,    \* pendingTimer: "off", "escape" or "paste"
  flushes,  \* how often what was pending has been resolved
  over      \* the reader has returned

vars == <<sent, taken, parser, timer, flushes, over>>

-----------------------------------------------------------------------------
(* Events. Text is a sequence of code points, a paste one of bytes; a mouse   *)
(* event is its button, row, column and modifiers.                            *)

Key(name) == [kind |-> "key", name |-> name, data |-> <<>>]
Text(runes) == [kind |-> "text", name |-> "", data |-> runes]
Paste(bytes) == [kind |-> "paste", name |-> "", data |-> bytes]
Mouse(action, data) == [kind |-> "mouse", name |-> action, data |-> data]

Letters == [n \in {1, 2, 3, 4, 5, 6, 11, 21, 23, 25} |->
  CASE n = 1 -> "ctrl+a" [] n = 2 -> "ctrl+b" [] n = 3 -> "ctrl+c" [] n = 4 -> "ctrl+d"
    [] n = 5 -> "ctrl+e" [] n = 6 -> "ctrl+f" [] n = 11 -> "ctrl+k" [] n = 21 -> "ctrl+u"
    [] n = 23 -> "ctrl+w" [] n = 25 -> "ctrl+y"]

Controls == [n \in DOMAIN Letters \cup {8, 9, 10, 13, 127} |->
  CASE n = 13 -> "enter" [] n = 10 -> "newline" [] n = 9 -> "tab"
    [] n \in {8, 127} -> "backspace" [] OTHER -> Letters[n]]

Finals == [n \in {65, 66, 67, 68, 70, 72} |->
  CASE n = 65 -> "up" [] n = 66 -> "down" [] n = 67 -> "right" [] n = 68 -> "left"
    [] n = 70 -> "end" [] n = 72 -> "home"]

SS3Finals == [n \in DOMAIN Finals \cup 80..83 |->
  CASE n = 80 -> "f1" [] n = 81 -> "f2" [] n = 82 -> "f3" [] n = 83 -> "f4" [] OTHER -> Finals[n]]

Numbered == [n \in {1, 3, 4, 5, 6, 7, 8} \cup 11..15 \cup 17..20 |->
  CASE n \in {1, 7} -> "home" [] n \in {4, 8} -> "end" [] n = 3 -> "delete"
    [] n = 5 -> "pageup" [] n = 6 -> "pagedown" [] n = 11 -> "f1" [] n = 12 -> "f2"
    [] n = 13 -> "f3" [] n = 14 -> "f4" [] n = 15 -> "f5" [] n = 17 -> "f6"
    [] n = 18 -> "f7" [] n = 19 -> "f8" [] n = 20 -> "f9"]

-----------------------------------------------------------------------------
(* Escape sequences. What parseEscape returns: the bytes used, none while the *)
(* sequence is not complete, the events, and whether a paste starts.          *)

Used(n, events) == [used |-> n, events |-> events, paste |-> FALSE]
Incomplete == Used(0, <<>>)
Literal == Used(1, <<Key("escape")>>)

Split(s, separator) ==
  FoldLeft(LAMBDA parts, x : IF x = separator THEN Append(parts, <<>>)
                             ELSE [parts EXCEPT ![Len(parts)] = Append(@, x)], << <<>> >>, s)

(* strconv.Atoi of digits, -1 where it fails.                                 *)
Number(s) ==
  IF s = <<>> \/ \E i \in DOMAIN s : s[i] \notin 48..57 THEN -1
  ELSE FoldLeft(LAMBDA n, x : 10 * n + x - 48, 0, s)

NumberOr(parts, i, default) ==
  IF i <= Len(parts) /\ Number(parts[i]) # -1 THEN Number(parts[i]) ELSE default

First(S) == CHOOSE i \in S : \A j \in S : i <= j

Bit(n, b) == (n \div b) % 2 = 1

MouseWheel(button, pressed, n) ==
  Used(n, IF ~pressed \/ button % 4 \notin {0, 1} THEN <<>>
          ELSE IF button % 4 = 0 THEN <<Key("scroll+up")>> ELSE <<Key("scroll+down")>>)

MouseEvent(button, pressed, row, col, n) ==
  IF Bit(button, 64) THEN MouseWheel(button, pressed, n)
  ELSE LET motion == Bit(button, 32)
           action == IF ~pressed \/ (motion /\ button % 4 = 3) THEN "release"
                     ELSE IF motion THEN "drag" ELSE "press"
       IN Used(n, <<Mouse(action, <<button % 4, row, col, (button \div 4) % 8>>)>>)

(* Mutant: a mouse event of which not all bytes have come is no mouse event.  *)
IsX10Whole(b) == Len(b) >= 6 /\ b[3] = 77 /\ \A i \in 4..6 : b[i] >= 32

IsX10(b) == Len(b) >= 3 /\ b[3] = 77 /\ (Len(b) < 6 \/ \A i \in 4..6 : b[i] >= 32)

MouseX10(b) ==
  IF Len(b) < 6 THEN Incomplete
  ELSE MouseEvent(b[4] - 32, (b[4] - 32) % 4 # 3, b[6] - 33, b[5] - 33, 6)

SgrEnds(b) == {i \in 4..Len(b) : b[i] \in {77, 109}}

IsSgr(b) ==
  /\ Len(b) >= 3 /\ b[3] = 60
  /\ \A i \in 4..Len(b) : \/ b[i] \in {77, 109, 59} \cup 48..57
                          \/ \E j \in SgrEnds(b) : j < i

MouseSgr(b) ==
  IF SgrEnds(b) = {} THEN Incomplete
  ELSE LET end == First(SgrEnds(b))
           parts == Split(SubSeq(b, 4, end - 1), 59)
       IN IF Len(parts) # 3 \/ Number(parts[1]) = -1 \/ Number(parts[2]) < 1 \/ Number(parts[3]) < 1
          THEN Used(end, <<>>)
          ELSE MouseEvent(Number(parts[1]), b[end] = 77, Number(parts[3]) - 1, Number(parts[2]) - 1, end)

KittyText(field) ==
  LET runes == [i \in DOMAIN Split(field, 58) |-> Number(Split(field, 58)[i])]
  IN IF \E i \in DOMAIN runes : runes[i] = -1 THEN <<>> ELSE runes

Upper(code) == IF code \in 97..122 THEN code - 32 ELSE code

CtrlKey(code) ==
  LET n == IF code \in 97..122 THEN code - 96 ELSE IF code \in 65..90 THEN code - 64 ELSE 0
  IN CASE n \in {8, 9, 10} -> <<Key(Controls[n])>>
       [] n \in DOMAIN Letters -> <<Key(Letters[n])>>
       [] OTHER -> <<>>

EnhancedCode(code, modifier, text) ==
  LET bits == IF modifier > 0 THEN modifier - 1 ELSE 0
      shift == Bit(bits, 1)  alt == Bit(bits, 2)  ctrl == Bit(bits, 4)
      rune == IF shift THEN Upper(code) ELSE code
  IN CASE alt /\ code \in {10, 13} -> <<Key("alt+enter")>>
       [] shift /\ ~alt /\ code = 13 -> <<Key("newline")>>
       [] shift /\ code = 9 -> <<Key("shift+tab")>>
       [] ~ctrl /\ ~alt /\ ~(shift /\ code \in {9, 13}) /\ code \in {8, 9, 10, 13, 127} -> <<Key(Controls[code])>>
       [] ~ctrl /\ ~alt /\ code = 27 -> <<Key("escape")>>
       [] ~ctrl /\ ~alt /\ code \notin {8, 9, 10, 13, 27, 127} ->
            IF text # <<>> THEN <<Text(text)>>
            ELSE IF rune >= 32 /\ rune \notin 127..159 THEN <<Text(<<rune>>)>> ELSE <<>>
       [] ctrl /\ ~(alt /\ code \in {10, 13}) /\ ~(shift /\ code \in {9, 13}) -> CtrlKey(code)
       [] OTHER -> <<>>

(* Kitty's keyboard protocol. Number -1 is no code: not handled.              *)
Kitty(params) ==
  LET parts == Split(params, 59)
      code == Split(parts[1], 58)
      modifiers == IF Len(parts) > 1 THEN Split(parts[2], 58) ELSE <<>>
      modifier == NumberOr(modifiers, 1, 1)
      text == IF Len(parts) > 2 THEN KittyText(parts[3])
              ELSE IF modifier % 2 = 0 /\ Len(code) > 1 THEN KittyText(code[2]) ELSE <<>>
  IN IF NumberOr(modifiers, 2, 1) = 3 THEN <<>>
     ELSE EnhancedCode(Number(code[1]), modifier, text)

IsKitty(seq) ==
  /\ Last(seq) = 117
  /\ Number(Split(Split(Front(seq), 59)[1], 58)[1]) # -1 \/ (Len(seq) > 1 /\ seq[1] = 63)

IsOtherKey(seq) ==
  LET parts == Split(Front(seq), 59)
  IN Last(seq) = 126 /\ Len(parts) = 3 /\ parts[1] = <<50, 55>> /\ Number(parts[2]) # -1 /\ Number(parts[3]) # -1

HasAlt(params) ==
  \/ params = <<51>>
  \/ \E i \in 2..Len(Split(params, 59)) : Split(params, 59)[i] \in {<<51>>, <<57>>}

Csi(seq, n) ==
  LET params == Front(seq)
      final == Last(seq)
      parts == Split(params, 59)
  IN CASE seq = <<50, 48, 48, 126>> -> [Used(n, <<>>) EXCEPT !.paste = TRUE]
       [] seq = <<50, 48, 49, 126>> -> Used(n, <<>>)
       [] seq = <<90>> -> Used(n, <<Key("shift+tab")>>)
       [] final = 126 /\ Number(params) \in DOMAIN Numbered -> Used(n, <<Key(Numbered[Number(params)])>>)
       [] final = 126 /\ parts \in {<< <<57>>, <<50>> >>, << <<49, 51>>, <<50>> >>} ->
            Used(n, EnhancedCode(Number(parts[1]), 2, <<>>))
       [] IsKitty(seq) -> Used(n, IF seq[1] = 63 THEN <<>> ELSE Kitty(params))
       [] IsOtherKey(seq) -> Used(n, EnhancedCode(Number(parts[3]), Number(parts[2]), <<>>))
       [] final \in {67, 68} ->
            Used(n, <<Key(IF HasAlt(params) THEN (IF final = 67 THEN "alt+right" ELSE "alt+left") ELSE Finals[final])>>)
       [] final \in DOMAIN Finals \ {67, 68} /\ (params = <<>> \/ Len(parts) > 1) -> Used(n, <<Key(Finals[final])>>)
       [] OTHER -> Literal

CsiEnds(b) == {i \in 3..Len(b) : b[i] \in 64..126}

ParseEscape(b) ==
  CASE Len(b) = 1 -> Incomplete
    [] Len(b) > 1 /\ b[2] \in {10, 13} -> Used(2, <<Key("alt+enter")>>)
    [] Len(b) > 1 /\ b[2] = 98 -> Used(2, <<Key("alt+left")>>)
    [] Len(b) > 1 /\ b[2] = 102 -> Used(2, <<Key("alt+right")>>)
    [] Len(b) = 2 /\ b[2] = 79 -> Incomplete
    [] Len(b) > 2 /\ b[2] = 79 /\ b[3] \in DOMAIN SS3Finals -> Used(3, <<Key(SS3Finals[b[3]])>>)
    [] Len(b) > 1 /\ b[2] = 91 ->
         IF IsX10(b) THEN MouseX10(b)
         ELSE IF IsSgr(b) THEN MouseSgr(b)
         ELSE IF CsiEnds(b) = {} THEN Incomplete
         ELSE Csi(SubSeq(b, 3, First(CsiEnds(b))), First(CsiEnds(b)))
    [] OTHER -> Literal

-----------------------------------------------------------------------------
(* The parser. *)

PasteEnd == <<27, 91, 50, 48, 49, 126>>

EndsOfPaste(b) == {i \in 1..(Len(b) - 5) : SubSeq(b, i, i + 5) = PasteEnd}

Parsed(b, paste, events) == [buf |-> b, pasting |-> paste, keys |-> events]

Drop(b, n) == SubSeq(b, n + 1, Len(b))

(* utf8.DecodeRune, for runes of two bytes: a byte that starts none of them is *)
(* the replacement character.                                                  *)
IsLead(x) == x \in 194..223

RuneOf(b) ==
  CASE b[1] < 128 -> [rune |-> b[1], size |-> 1]
    [] IsLead(b[1]) /\ b[2] \in 128..191 -> [rune |-> (b[1] - 192) * 64 + b[2] - 128, size |-> 2]
    [] OTHER -> [rune |-> 65533, size |-> 1]

After(b, e, events) ==
  IF e.used = 0 THEN Parsed(b, FALSE, events)
  ELSE Parsed(Drop(b, e.used), e.paste, events \o e.events)

(* One round of the loop: it takes the next key, unless that is incomplete.   *)
ParseOne(P) ==
  LET buf == P.buf
  IN CASE buf = <<>> \/ (P.pasting /\ EndsOfPaste(buf) = {}) -> P
       [] P.pasting /\ EndsOfPaste(buf) # {} ->
            LET i == First(EndsOfPaste(buf))
            IN Parsed(Drop(buf, i + 5), FALSE, Append(P.keys, Paste(SubSeq(buf, 1, i - 1))))
       [] OTHER ->
            IF buf[1] = 27 THEN After(buf, ParseEscape(buf), P.keys)
            ELSE IF buf[1] \in DOMAIN Controls THEN Parsed(Tail(buf), FALSE, Append(P.keys, Key(Controls[buf[1]])))
            ELSE IF IsLead(buf[1]) /\ Len(buf) = 1 THEN P
            ELSE Parsed(Drop(buf, RuneOf(buf).size), FALSE, Append(P.keys, Text(<<RuneOf(buf).rune>>)))

(* Every round but the last takes a byte.                                      *)
Parse(b, paste, events) ==
  LET round[n \in 0..Len(b)] ==
        IF n = 0 THEN Parsed(b, paste, events) ELSE ParseOne(round[n - 1])
  IN round[Len(b)]

(* Parser.Feed.                                                               *)
Feed(P, bytes) == Parse(P.buf \o bytes, P.pasting, P.keys)

HasPendingEscape(P) == ~P.pasting /\ P.buf # <<>> /\ P.buf[1] = 27

(* FlushPaste and FlushEscape, as flushPending calls them.                    *)
Flush(P) ==
  IF P.pasting
  THEN Parsed(<<>>, FALSE, IF P.buf = <<>> THEN P.keys ELSE Append(P.keys, Paste(P.buf)))
  ELSE IF HasPendingEscape(P)
  THEN Parse(Tail(P.buf), FALSE, Append(P.keys, Key("escape")))
  ELSE P

-----------------------------------------------------------------------------
(* The reader. *)

Bytes(items) == FlattenSeq([i \in DOMAIN items |-> items[i].bytes])

Init ==
  /\ sent \in UNION {[1..n -> Item] : n \in 1..MaxItems}
  /\ taken = 0 /\ parser = Parsed(<<>>, FALSE, <<>>)
  /\ timer = "off" /\ flushes = 0 /\ over = FALSE

(* A read of n bytes. The timer starts anew, or stops.                        *)
Read(n) ==
  /\ ~over /\ taken + n <= Len(Bytes(sent))
  /\ taken' = taken + n
  /\ parser' = Feed(parser, SubSeq(Bytes(sent), taken + 1, taken + n))
  /\ timer' = IF parser'.pasting THEN "paste" ELSE IF HasPendingEscape(parser') THEN "escape" ELSE "off"
  /\ UNCHANGED <<sent, flushes, over>>

TimerFires ==
  /\ ~over /\ timer # "off" /\ flushes < MaxFlushes
  /\ parser' = Flush(parser) /\ timer' = "off" /\ flushes' = flushes + 1
  /\ UNCHANGED <<sent, taken, over>>

(* The terminal can no longer be read.                                        *)
ReadFails ==
  /\ ~over /\ over' = TRUE /\ timer' = "off"
  /\ parser' = Flush(parser)
  /\ flushes' = IF parser' = parser THEN flushes ELSE flushes + 1
  /\ UNCHANGED <<sent, taken>>

Next == (\E n \in 1..Len(Bytes(sent)) : Read(n)) \/ TimerFires \/ ReadFails

Spec == Init /\ [][Next]_vars

-----------------------------------------------------------------------------
(* The parser's state is one that its fields can have, and the buffer the end *)
(* of what was read.                                                          *)
TypeOK ==
  /\ taken \in 0..Len(Bytes(sent)) /\ flushes \in Nat /\ over \in BOOLEAN /\ parser.pasting \in BOOLEAN
  /\ timer \in {"off", "escape", "paste"}
  /\ IsSuffix(parser.buf, SubSeq(Bytes(sent), 1, taken))

(* In what pieces the bytes arrive makes no difference, as long as no timer   *)
(* fires (input.go: Feed keeps incomplete sequences).                         *)
SplitsDoNotMatter ==
  flushes = 0 => parser = Feed(Parsed(<<>>, FALSE, <<>>), SubSeq(Bytes(sent), 1, taken))

(* The loop is told the keys that were pressed and no others: an encoding is   *)
(* neither torn nor mixed with the next, and what is pasted presses no key.    *)
KeysAreMeant ==
  flushes = 0 /\ (\A i \in DOMAIN sent : sent[i].clean) =>
    LET meant == FlattenSeq([i \in DOMAIN sent |-> sent[i].keys])
    IN IsPrefix(parser.keys, meant) /\ (taken = Len(Bytes(sent)) => parser.keys = meant)

(* A paste that does not end does not hold the keyboard for ever, and an      *)
(* Escape is told in the end, unless resolving one has left another.          *)
PendingIsTimed ==
  ~over => /\ parser.pasting => timer = "paste"
           /\ HasPendingEscape(parser) /\ flushes = 0 => timer = "escape"
           /\ timer # "off" => parser.pasting \/ HasPendingEscape(parser)

TermInputSafe == TypeOK /\ SplitsDoNotMatter /\ KeysAreMeant /\ PendingIsTimed
=============================================================================
