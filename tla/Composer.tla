------------------------------ MODULE Composer ------------------------------
(* The composer of the terminal, internal/tui/editor.go and handleKey of      *)
(* app.go: the text with its cursor, the history of prompts, and the menu of  *)
(* commands above it.  Extensions replace the text, sessions the history.     *)
EXTENDS Integers, Sequences, SequencesExt

CONSTANTS
  Rune,         \* what can be typed, "/", " " and "nl" among it
  Wide,         \* the runes of two columns; the others have one
  WordRune,     \* letters, digits and underscores
  Names,        \* the names of the commands, in their order
  Help,         \* the name that shows them all
  Texts,        \* texts that extensions and sessions bring
  MaxText,      \* bound on the length of the text that is typed
  MaxKeys       \* bound on the keys

VARIABLES
  ed,       \* the editor: text, cursor, historyIndex as index (0: not in the history), draft, preferredCol
  history,  \* the prompts that were sent
  menu,     \* layout.CommandSuggestions
  selected, \* layout.CommandSelection, from 1
  help,     \* commandHelp
  dismissed,\* completionDismissed
  active,   \* a prompt runs
  foreign,  \* the text is not the one the menu was made for: an extension has set it
  pressed   \* how many keys have been pressed

vars == <<ed, history, menu, selected, help, dismissed, active, foreign, pressed>>

NewLine == "nl"

-----------------------------------------------------------------------------
(* The editor. Every edit leaves vertical movement: column -1.                *)

At(E, text, cursor) == [E EXCEPT !.text = text, !.cursor = cursor, !.column = -1]

SetText(E, text) == At(E, text, Len(text))

Insert(E, s) == At(E, SubSeq(E.text, 1, E.cursor) \o s \o SubSeq(E.text, E.cursor + 1, Len(E.text)), E.cursor + Len(s))

(* The text from one place to another goes, the cursor to where it was.       *)
Kill(E, start, end) ==
  IF start >= end THEN E
  ELSE At(E, SubSeq(E.text, 1, start) \o SubSeq(E.text, end + 1, Len(E.text)), start)

Backspace(E) == IF E.cursor = 0 THEN E ELSE Kill(E, E.cursor - 1, E.cursor)
Delete(E) == Kill(E, E.cursor, IF E.cursor < Len(E.text) THEN E.cursor + 1 ELSE E.cursor)

MoveTo(E, cursor) == At(E, E.text, cursor)
MoveLeft(E) == IF E.cursor = 0 THEN E ELSE MoveTo(E, E.cursor - 1)
MoveRight(E) == IF E.cursor = Len(E.text) THEN E ELSE MoveTo(E, E.cursor + 1)

Largest(S) == CHOOSE i \in S : \A j \in S : j <= i
Smallest(S) == CHOOSE i \in S : \A j \in S : i <= j

(* Where the rune before p is not of S, going left; the same going right.     *)
Back(E, p, S) == Largest({0} \cup {i \in 1..p : E.text[i] \notin S})
Forth(E, p, S) == Smallest({Len(E.text)} \cup {i \in p..(Len(E.text) - 1) : E.text[i + 1] \notin S})

MoveWordLeft(E) == MoveTo(E, Back(E, Back(E, E.cursor, Rune \ WordRune), WordRune))
MoveWordRight(E) == MoveTo(E, Forth(E, Forth(E, E.cursor, Rune \ WordRune), WordRune))

LineStart(E, p) == Back(E, p, Rune \ {NewLine})
LineEnd(E, p) == Forth(E, p, Rune \ {NewLine})

Width(s) == FoldLeft(LAMBDA n, r : n + IF r \in Wide THEN 2 ELSE 1, 0, s)

CursorAtColumn(E, start, end, column) ==
  Largest({p \in start..end : Width(SubSeq(E.text, start + 1, p)) <= column})

Preferred(E) ==
  IF E.column >= 0 THEN E.column ELSE Width(SubSeq(E.text, LineStart(E, E.cursor) + 1, E.cursor))

(* Mutant: the column is not remembered on the way up.                        *)
MoveUpForgets(E) ==
  LET start == LineStart(E, E.cursor)
  IN IF start = 0 THEN E
     ELSE [E EXCEPT !.cursor = CursorAtColumn(E, LineStart(E, start - 1), start - 1, Preferred(E)), !.column = -1]

MoveUp(E) ==
  LET start == LineStart(E, E.cursor)
  IN IF start = 0 THEN E
     ELSE [E EXCEPT !.cursor = CursorAtColumn(E, LineStart(E, start - 1), start - 1, Preferred(E)),
                    !.column = Preferred(E)]

MoveDown(E) ==
  LET end == LineEnd(E, E.cursor)
  IN IF end = Len(E.text) THEN E
     ELSE [E EXCEPT !.cursor = CursorAtColumn(E, end + 1, LineEnd(E, end + 1), Preferred(E)),
                    !.column = Preferred(E)]

KillToEnd(E) ==
  LET end == LineEnd(E, E.cursor)
  IN Kill(E, E.cursor, IF end = E.cursor /\ end < Len(E.text) THEN end + 1 ELSE end)

KillToStart(E) == Kill(E, LineStart(E, E.cursor), E.cursor)

KillWordBackward(E) ==
  Kill(E, Back(E, Back(E, E.cursor, Rune \ (WordRune \cup {NewLine})), WordRune), E.cursor)

Clear == [text |-> <<>>, cursor |-> 0, index |-> 0, draft |-> <<>>, column |-> -1]

HistoryPrevious(E) ==
  LET i == IF E.index = 0 THEN Len(history) ELSE E.index - 1
  IN IF i = 0 THEN E
     ELSE SetText([E EXCEPT !.index = i, !.draft = IF E.index = 0 THEN E.text ELSE @], history[i])

HistoryNext(E) ==
  IF E.index = 0 THEN E
  ELSE IF E.index < Len(history) THEN SetText([E EXCEPT !.index = @ + 1], history[E.index + 1])
  ELSE SetText([E EXCEPT !.index = 0], E.draft)

-----------------------------------------------------------------------------
(* The menu. *)

IsCommand(text) == text # <<>> /\ text[1] = "/"
Spaces == {" ", NewLine}
Named(text, i) == IsPrefix(Tail(text), Names[i])
Command(i) == <<"/">> \o Names[i]

Filtered(text) == SelectSeq([i \in DOMAIN Names |-> i], LAMBDA i : Named(text, i))

(* Mutant: the selection stays where it was in a longer menu.                 *)
ShownUnclamped(items, n) == menu' = items /\ selected' = n

Shown(items, n) ==
  menu' = items /\ selected' = IF n <= Len(items) THEN n ELSE IF items = <<>> THEN 1 ELSE Len(items)

(* refreshCommandCompletion for a text, with commandHelp h, dismissed text d  *)
(* and selection n.                                                           *)
Refresh(text, h, d, n) ==
  /\ foreign' = FALSE /\ help' = (h /\ text = <<>>) /\ dismissed' = d
  /\ IF h /\ text = <<>> THEN Shown([i \in DOMAIN Names |-> i], n)
     ELSE IF text = d \/ ~IsCommand(text) \/ (\E i \in DOMAIN text : text[i] \in Spaces)
     THEN menu' = <<>> /\ selected' = 1
     ELSE Shown(Filtered(text), n)

Refreshed(E) == ed' = E /\ Refresh(E.text, help, dismissed, selected)

-----------------------------------------------------------------------------
(* Keys. The menu is refreshed if handleKey says that anything changed.       *)

Press == pressed < MaxKeys /\ pressed' = pressed + 1

TypeText(r) ==
  /\ Len(ed.text) < MaxText
  /\ ed' = Insert(ed, <<r>>) /\ Refresh(Insert(ed, <<r>>).text, FALSE, <<>>, selected)
  /\ UNCHANGED <<history, active>>

Edits ==
  {Backspace(ed), Delete(ed), MoveLeft(ed), MoveRight(ed), MoveWordLeft(ed), MoveWordRight(ed),
   MoveTo(ed, LineStart(ed, ed.cursor)), MoveTo(ed, LineEnd(ed, ed.cursor)),
   KillToEnd(ed), KillToStart(ed), KillWordBackward(ed)}

Moved(E) ==
  IF E.text # ed.text \/ E.cursor # ed.cursor THEN Refreshed(E)
  ELSE ed' = E /\ UNCHANGED <<menu, selected, help, dismissed, foreign>>

Edit == (\E E \in Edits : Moved(E)) /\ UNCHANGED <<history, active>>

(* Shift-Enter, and Tab without a menu.                                       *)
InsertSpace(r) ==
  /\ Len(ed.text) < MaxText /\ (r = " " => menu = <<>>)
  /\ Refreshed(Insert(ed, <<r>>)) /\ UNCHANGED <<history, active>>

Up ==
  /\ IF menu # <<>>
     THEN ed' = ed /\ Refresh(ed.text, help, dismissed, IF selected = 1 THEN Len(menu) ELSE selected - 1)
     ELSE Moved(IF LineStart(ed, ed.cursor) # 0 THEN MoveUp(ed) ELSE HistoryPrevious(ed))
  /\ UNCHANGED <<history, active>>

Down ==
  /\ IF menu # <<>>
     THEN ed' = ed /\ Refresh(ed.text, help, dismissed, IF selected = Len(menu) THEN 1 ELSE selected + 1)
     ELSE Moved(IF LineEnd(ed, ed.cursor) # Len(ed.text) THEN MoveDown(ed) ELSE HistoryNext(ed))
  /\ UNCHANGED <<history, active>>

Accept ==
  LET text == Command(menu[IF selected > Len(menu) THEN Len(menu) ELSE selected]) \o <<" ">>
  IN /\ ed' = SetText(ed, text) /\ Refresh(text, FALSE, <<>>, selected)
     /\ UNCHANGED <<history, active>>

Tab == menu # <<>> /\ Accept

Argument(text) == IF IsCommand(text) THEN Tail(text) ELSE text

Trimmed(text) == SelectSeq(text, LAMBDA r : r \notin Spaces)

IsExact ==
  LET inside == {i \in DOMAIN Argument(ed.text) : Argument(ed.text)[i] \notin Spaces}
  IN \/ inside # {} /\ \E i \in Smallest(inside)..Largest(inside) : Argument(ed.text)[i] \in Spaces
     \/ \E i \in DOMAIN menu : Names[menu[i]] = Trimmed(Argument(ed.text))

Blank == \A i \in DOMAIN ed.text : ed.text[i] \in Spaces

(* What is sent goes into the history; /help shows all commands. A message is *)
(* queued while a prompt runs, unless it is a command or the queue refuses.   *)
Send ==
  /\ history' = Append(history, ed.text)
  /\ IF active = "idle" /\ Trimmed(ed.text) = <<"/">> \o Help
     THEN /\ ed' = Clear /\ Refresh(<<>>, TRUE, <<>>, 1)
          /\ UNCHANGED active
     ELSE /\ Refreshed(Clear)
          /\ IF active = "idle"
             THEN active' \in IF IsCommand(ed.text) THEN {"idle", "command"} ELSE {"prompt"}
             ELSE UNCHANGED active

Refused == active = "prompt" /\ Refreshed(ed) /\ UNCHANGED <<history, active>>

Enter ==
  IF menu # <<>> /\ (help \/ ~IsExact) THEN Accept
  ELSE ~Blank /\ active # "command" /\ (Send \/ Refused)

Escape ==
  /\ menu # <<>> /\ ed' = ed /\ Refresh(ed.text, FALSE, ed.text, selected)
  /\ UNCHANGED <<history, active>>

(* Ctrl-C clears the text when nothing runs that it would cancel.             *)
CtrlC ==
  /\ IF active = "idle" THEN ed.text # <<>> /\ Refreshed(Clear) ELSE Refreshed(ed)
  /\ UNCHANGED <<history, active>>

Keys ==
  /\ Press
  /\ \/ \E r \in Rune \ {NewLine} : TypeText(r)
     \/ \E r \in Spaces : InsertSpace(r)
     \/ Edit \/ Up \/ Down \/ Tab \/ Enter \/ Escape \/ CtrlC

-----------------------------------------------------------------------------
(* The others. *)

(* An extension replaces the text (SetEditorText); the menu stays.            *)
ExtensionSets(text) ==
  /\ ed' = SetText(ed, text) /\ foreign' = (menu # <<>>)
  /\ UNCHANGED <<history, menu, selected, help, dismissed, active, pressed>>

(* resetConversationState, and the prompts of the session that was loaded.    *)
SessionChanges(prompts) ==
  /\ active = "idle"
  /\ ed' = Clear /\ history' = prompts
  /\ menu' = <<>> /\ selected' = 1 /\ help' = FALSE /\ dismissed' = <<>> /\ foreign' = FALSE
  /\ UNCHANGED <<active, pressed>>

WorkEnds ==
  /\ active # "idle" /\ active' = "idle"
  /\ UNCHANGED <<ed, history, menu, selected, help, dismissed, foreign, pressed>>

Init ==
  /\ ed = Clear /\ history = <<>> /\ menu = <<>> /\ selected = 1
  /\ help = FALSE /\ dismissed = <<>> /\ active = "idle" /\ foreign = FALSE /\ pressed = 0

Next ==
  \/ Keys
  \/ \E text \in Texts : ExtensionSets(text)
  \/ \E text \in Texts : SessionChanges(<<text>>)
  \/ WorkEnds

Spec == Init /\ [][Next]_vars

-----------------------------------------------------------------------------
(* The cursor and the place in the history are where there is something: a    *)
(* key that reads at them must not go beyond the end.                         *)
TypeOK ==
  /\ ed.text \in Seq(Rune) /\ ed.cursor \in 0..Len(ed.text)
  /\ ed.index \in 0..Len(history) /\ ed.column \in -1..(2 * Len(ed.text))

(* Keys undo one another: typing and Backspace, Left with Delete and          *)
(* Backspace, and Up with Down, over lines of any length and wide runes       *)
(* (editor.go: preferredCol).                                                 *)
Same(E, F) == E.text = F.text /\ E.cursor = F.cursor

KeysUndo ==
  /\ \A r \in Rune : Same(Backspace(Insert(ed, <<r>>)), ed)
  /\ Same(Delete(MoveLeft(ed)), IF ed.cursor = 0 THEN Delete(ed) ELSE Backspace(ed))
  /\ LineStart(ed, ed.cursor) # 0 => Same(MoveDown(MoveUp(ed)), ed)
  /\ LineEnd(ed, ed.cursor) # Len(ed.text) => Same(MoveUp(MoveDown(ed)), ed)

(* The menu shows the commands that what was typed begins, and what Enter and *)
(* Tab take is one of them.                                                   *)
MenuMatches ==
  menu # <<>> => /\ selected \in DOMAIN menu
                 /\ foreign \/ (help /\ ed.text = <<>>)
                            \/ \A i \in DOMAIN menu : IsPrefix(ed.text, Command(menu[i]))

ComposerSafe == TypeOK /\ KeysUndo /\ MenuMatches
=============================================================================
