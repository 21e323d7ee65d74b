----------------------------- MODULE ReadPages -----------------------------
(* The read tool, internal/tools/tools.go: what a call shows of a file, and a *)
(* model that reads on at the offset each result tells it.  A line is its     *)
(* size in bytes and whether it is text.                                      *)
EXTENDS Integers, Sequences, SequencesExt, FiniteSetsExt

CONSTANTS
  Line,          \* the lines a file may have: [size, text]
  MaxLines,      \* bound on the lines of a file
  ContentLimit,  \* contentLimit: the bytes of a result
  MaxLineBytes   \* maxLineBytes: the bytes of a line the scanner takes

VARIABLES
  file,    \* the lines of the file
  next,    \* the offset of the next call
  shown,   \* the lines that have been shown whole, in their order
  cut,     \* the lines that were told to be cut
  last     \* the last result, NoPage before the first

vars == <<file, next, shown, cut, last>>

NoPage == [error |-> FALSE, lines |-> 0, partial |-> FALSE, truncated |-> FALSE, next |-> 1, size |-> 0]

-----------------------------------------------------------------------------
(* The bytes of k lines from an offset on, with the line feeds between them.  *)
Bytes(offset, k) ==
  LET Upto[n \in 0..k] ==
        IF n = 0 THEN 0 ELSE Upto[n - 1] + file[offset + n - 1].size + (IF n = 1 THEN 0 ELSE 1)
  IN Upto[k]

Ahead(offset) == IF offset > Len(file) THEN 0 ELSE Len(file) - offset + 1

(* How many lines a call with this offset and limit selects.                  *)
Selected(offset, limit) ==
  Max({k \in 0..Ahead(offset) : k <= limit /\ Bytes(offset, k) <= ContentLimit})

(* The call looks at the line after those: it is told if there is one, but    *)
(* fails if that line, or one before, cannot be scanned or is not text.       *)
Scanned(offset, k) == 1..(IF offset + k <= Len(file) THEN offset + k ELSE Len(file))

Fails(offset, limit, k) ==
  \/ \E i \in Scanned(offset, k) : file[i].size >= MaxLineBytes
  \/ \E i \in Scanned(offset, k) : ~file[i].text /\ i >= offset /\ (i < offset + k \/ k < limit)

(* Mutant: a line that does not fit is cut wherever it stands.                *)
PageCutsAnywhere(offset, limit) ==
  LET k == Selected(offset, limit)
      truncated == k < Ahead(offset)
      partial == truncated /\ k < limit
  IN IF Fails(offset, limit, k) THEN [NoPage EXCEPT !.error = TRUE, !.next = offset]
     ELSE [error |-> FALSE, lines |-> k, partial |-> partial, truncated |-> truncated,
           next |-> offset + k, size |-> IF partial THEN ContentLimit ELSE Bytes(offset, k)]

(* What a call returns. A line that does not fit at all is cut; one that does *)
(* not fit after others is left to the next call.                             *)
Page(offset, limit) ==
  LET k == Selected(offset, limit)
      truncated == k < Ahead(offset)
      partial == truncated /\ k = 0
  IN IF Fails(offset, limit, k) THEN [NoPage EXCEPT !.error = TRUE, !.next = offset]
     ELSE [error |-> FALSE, lines |-> k, partial |-> partial, truncated |-> truncated,
           next |-> offset + k, size |-> IF partial THEN ContentLimit ELSE Bytes(offset, k)]

-----------------------------------------------------------------------------
Init ==
  /\ file \in UNION {[1..n -> Line] : n \in 0..MaxLines}
  /\ next = 1 /\ shown = <<>> /\ cut = {} /\ last = NoPage

(* The next call, at the offset the last one has told, or behind the line     *)
(* that it could not show.                                                    *)
Read(limit) ==
  /\ last = NoPage \/ last.truncated
  /\ LET page == Page(next, limit) IN
       /\ last' = page
       /\ shown' = shown \o [i \in 1..page.lines |-> next + i - 1]
       /\ cut' = IF page.partial THEN cut \cup {page.next} ELSE cut
       /\ next' = IF page.partial THEN page.next + 1 ELSE page.next
  /\ UNCHANGED file

Next == \E limit \in 1..MaxLines : Read(limit)

Spec == Init /\ [][Next]_vars

-----------------------------------------------------------------------------
(* The bytes of a result stay within the limit, the notice's share left out.  *)
TypeOK == next \in 1..(Len(file) + 1) /\ cut \subseteq DOMAIN file /\ last.size \in 0..ContentLimit

(* A model that follows the offsets sees every line once and in order, or is  *)
(* told that it was cut; only a line that no result can hold is cut           *)
(* (tools.go: "Stop at a line boundary so the next read cannot skip data").   *)
PagesCover ==
  /\ \A i, j \in DOMAIN shown : i < j => shown[i] < shown[j]
  /\ Range(shown) \cap cut = {} /\ Range(shown) \cup cut = 1..(next - 1)
  /\ \A i \in cut : file[i].size > ContentLimit

(* A result without a notice was the last, and one with it brings the reader  *)
(* on: it does not ask for the same offset again (NewRead: the notices).      *)
NoticeIsTrue ==
  /\ last # NoPage /\ ~last.error /\ ~last.truncated => next = Len(file) + 1
  /\ last.truncated => last.lines > 0 \/ last.partial

ReadSafe == TypeOK /\ PagesCover /\ NoticeIsTrue
=============================================================================
