----------------------------- MODULE FileEdits -----------------------------
(* The edit and write tools, internal/tools/tools.go, called at once on one   *)
(* file: the agent runs the calls of an answer concurrently (executeTools),   *)
(* and os.WriteFile empties the file before it writes.                        *)
EXTENDS Integers, Sequences, Functions, FiniteSets

CONSTANTS
  Call,       \* the calls of one answer
  Operation,  \* what a call may do: [old, new], with old empty for a write
  Content,    \* what the file may hold at first, sequences of letters
  Absent,     \* there is no file
  MaxFailures \* bound on writes that fail, and on cancellations

VARIABLES
  file,     \* what the file holds
  call,     \* call -> [stage, op, saw]
  crossed,  \* the calls into whose way from read to write another one has opened or written
  done,     \* what the calls that succeeded, in their order, make of the file at first
  failures  \* how many writes have failed

vars == <<file, call, crossed, done, failures>>

-----------------------------------------------------------------------------
Places(content, old) == {i \in 1..(Len(content) - Len(old) + 1) : SubSeq(content, i, i + Len(old) - 1) = old}

(* bytes.Count is 1: it counts occurrences that do not overlap from the left, *)
(* and behind the end of the first there is none.                             *)
CountIsOne(content, old) ==
  \E i \in Places(content, old) : \A j \in Places(content, old) : i <= j /\ j < i + Len(old)

(* bytes.Replace of the first occurrence.                                     *)
Replaced(content, op) ==
  LET i == CHOOSE i \in Places(content, op.old) : \A j \in Places(content, op.old) : i <= j
  IN SubSeq(content, 1, i - 1) \o op.new \o SubSeq(content, i + Len(op.old), Len(content))

(* Mutant: text that occurs several times is replaced where it occurs first.  *)
RefusedOnlyIfAbsent(content, op) == content = Absent \/ Places(content, op.old) = {}

Refused(content, op) == content = Absent \/ ~CountIsOne(content, op.old)

(* What a call is to make of the file: one occurrence, wherever it is.        *)
Applied(content, op) ==
  IF op.old = <<>> THEN op.new
  ELSE IF content # Absent /\ Cardinality(Places(content, op.old)) = 1 THEN Replaced(content, op)
  ELSE content

-----------------------------------------------------------------------------
IsWrite(c) == call[c].op.old = <<>>

Goes(c, stage) == call' = [call EXCEPT ![c].stage = stage]

(* The calls on their way from read to write; a call that reads what another   *)
(* has opened is crossed by it, and what a call opens or writes crosses those. *)
Midway(stages) == {d \in Call : call[d].stage \in stages}

Crosses(c) == crossed' = crossed \cup (Midway({"stat", "open", "write"}) \ {c})

(* checkContext, and for a write the parent directories.                      *)
Begin(c) ==
  /\ call[c].stage = "idle" /\ Goes(c, IF IsWrite(c) THEN "open" ELSE "read")
  /\ UNCHANGED <<file, crossed, done, failures>>

Canceled(c) ==
  /\ call[c].stage = "idle" /\ failures < MaxFailures /\ failures' = failures + 1
  /\ Goes(c, "failed") /\ UNCHANGED <<file, crossed, done>>

ReadFile(c) ==
  /\ call[c].stage = "read"
  /\ call' = [call EXCEPT ![c].stage = IF Refused(file, call[c].op) THEN "failed" ELSE "stat", ![c].saw = file]
  /\ crossed' = IF Midway({"write"}) # {} THEN crossed \cup {c} ELSE crossed
  /\ UNCHANGED <<file, done, failures>>

Stat(c) ==
  /\ call[c].stage = "stat" /\ Goes(c, IF file = Absent THEN "failed" ELSE "open")
  /\ UNCHANGED <<file, crossed, done, failures>>

(* os.WriteFile opens the file, which creates or empties it, and writes from  *)
(* the start, over what another call has written meanwhile.                   *)
Open(c) ==
  /\ call[c].stage = "open" /\ file' = <<>> /\ Goes(c, "write") /\ Crosses(c)
  /\ UNCHANGED <<done, failures>>

New(c) == IF IsWrite(c) THEN call[c].op.new ELSE Replaced(call[c].saw, call[c].op)

Over(new) == new \o SubSeq(file, Len(new) + 1, Len(file))

Write(c) ==
  /\ call[c].stage = "write" /\ file' = Over(New(c)) /\ Goes(c, "done")
  /\ done' = Applied(done, call[c].op)
  /\ Crosses(c) /\ UNCHANGED failures

WriteFails(c) ==
  /\ call[c].stage = "write" /\ failures < MaxFailures /\ failures' = failures + 1
  /\ \E n \in 0..Len(New(c)) : file' = Over(SubSeq(New(c), 1, n))
  /\ Goes(c, "torn") /\ Crosses(c) /\ UNCHANGED done

Init ==
  /\ file \in Content \cup {Absent}
  /\ call \in [Call -> {[stage |-> "idle", op |-> op, saw |-> <<>>] : op \in Operation}]
  /\ crossed = {} /\ done = file /\ failures = 0

Next ==
  \E c \in Call : \/ Begin(c) \/ Canceled(c) \/ ReadFile(c) \/ Stat(c)
                  \/ Open(c) \/ Write(c) \/ WriteFails(c)

Spec == Init /\ [][Next]_vars

-----------------------------------------------------------------------------
(* The file has letters of what it held and of what the calls write, or is not *)
(* there (tools.go: NewWrite, NewEdit).                                       *)
TypeOK == file = Absent \/ file \in Seq(UNION {Range(s) : s \in Content \cup {op.new : op \in Operation}})

(* Calls that nobody crossed are as if each were one step: at rest the file   *)
(* holds what those that succeeded make of it in their order, and those that  *)
(* were refused leave no trace (tools.go: NewEdit, NewWrite).                 *)
Sequential ==
  crossed = {} /\ Midway({"read", "stat", "open", "write", "torn"}) = {} => file = done

EditsSafe == TypeOK /\ Sequential
=============================================================================
