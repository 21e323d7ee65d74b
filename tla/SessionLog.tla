----------------------------- MODULE SessionLog -----------------------------
(***************************************************************************)
(* One session file of internal/session: an append-only JSONL log, the     *)
(* handles (Session values) that have it open, and the stop and restart of *)
(* the processes that own them.                                            *)
(*                                                                         *)
(* The file is a sequence of fragments, one per write.  A fragment is a    *)
(* record and how much of its line reached the file:                       *)
(*    part = 1   the JSON text is incomplete                               *)
(*    part = 2   the JSON text is complete, its newline is missing         *)
(*    part = 3   the whole line                                            *)
(* `disk` holds every content a power loss may leave behind; a successful  *)
(* fsync makes it the singleton of what the file holds.                    *)
(*                                                                         *)
(* The text of a record is abstracted to its kind, its number in the order *)
(* of the appends, and for a compaction the messages it retains.  Sizes in *)
(* bytes are abstracted to numbers of fragments.                           *)
(*                                                                         *)
(* A load ends with a repair: it makes up error results for the invalid    *)
(* tool calls of an answer that nobody answered.  They are kept with the   *)
(* message they are next to: `made` says of an answer that a message of    *)
(* made-up results follows it, and of another message that it begins with  *)
(* such results; they are made up by a load, or a compaction wrote them.   *)
(***************************************************************************)
EXTENDS Integers, Sequences, FiniteSets

CONSTANTS Handle,     \* the handles that may have the file open
          MaxRecord   \* bound: the number of records appended in a behaviour

ASSUME MaxRecordAssumption == MaxRecord \in Nat

VARIABLES file,    \* the content every process reads and writes
          disk,    \* the contents that may survive a power loss
          st,      \* what each handle is doing
          orig,    \* the size a handle will truncate the file to, or reads up to
          pos,     \* the lines a loading handle has decoded
          tail,    \* the recovery a loading handle has decided on
          req,     \* the record a handle is appending
          mem,     \* the replayed state in a handle's memory
          next,    \* the number of the next record
          acked    \* the records whose append returned nil

vars == <<file, disk, st, orig, pos, tail, req, mem, next, acked>>

-----------------------------------------------------------------------------
(* Records and what they do to the state in memory.                        *)

\* A message of a user, the results of the answer before it, an answer whose
\* tool calls are all valid, and one with an invalid call.
MessageKind == {"user", "results", "answer", "invalid"}

Kind == MessageKind \cup {"compaction", "reset", "usage", "entry"}

Message == [id : Nat, kind : MessageKind, made : {"none", "loaded", "written"}]

Plain(id, kind) == [id |-> id, kind |-> kind, made |-> "none"]

\* A compaction writes all that it retains.
WrittenMessage == [id : Nat, kind : MessageKind, made : {"none", "written"}]

Record == [id : Nat, kind : Kind \cup {"metadata"}, kept : Seq(WrittenMessage)]

Header == [id |-> 0, kind |-> "metadata", kept |-> <<>>]

\* Bytes a truncation to a larger size leaves in the file.
Hole == [id |-> 0, kind |-> "hole", kept |-> <<>>]

Fragment == [rec : Record \cup {Hole}, part : 1..3]

EmptyMem == [messages |-> <<>>, entries |-> <<>>, usage |-> <<>>]

\* A compaction: its summary, and the messages it retains.
Compacted(r) == <<Plain(r.id, "user")>> \o r.kept

\* The `committed` callbacks of AppendMessage, AppendCompaction,
\* AppendReset, AppendUsage and AppendEntry.
Commit(m, r) ==
    CASE r.kind \in MessageKind -> [m EXCEPT !.messages = Append(@, Plain(r.id, r.kind))]
      [] r.kind = "compaction"  -> [m EXCEPT !.messages = Compacted(r)]
      [] r.kind = "reset"       -> [m EXCEPT !.messages = <<>>, !.entries = <<>>]
      [] r.kind = "usage"       -> [m EXCEPT !.usage = Append(@, r.id)]
      [] r.kind = "entry"       -> [m EXCEPT !.entries = Append(@, r.id)]

\* One line of Session.decode: what the record does to the loaded state.
DecodeRecord(m, r) ==
    CASE r.kind \in MessageKind -> [m EXCEPT !.messages = Append(@, Plain(r.id, r.kind))]
      [] r.kind = "compaction"  -> [m EXCEPT !.messages = Compacted(r)]
      [] r.kind = "reset"       -> [EmptyMem EXCEPT !.usage = m.usage]
      [] r.kind = "usage"       -> [m EXCEPT !.usage = Append(@, r.id)]
      [] OTHER                  -> [m EXCEPT !.entries = Append(@, r.id)]

\* The messages, those of made-up results among them.
MessageCount(m) == Len(m) + Cardinality({i \in 1..Len(m) : m[i].kind = "invalid" /\ m[i].made # "none"})

-----------------------------------------------------------------------------
(* RepairToolCallResults, the end of a load.                               *)

\* The next message is of role user: results can be put in front of it.
UserNext(m, i) == i < Len(m) /\ m[i + 1].kind \in {"user", "results"}

\* An answer with an invalid call and no results in the message after it.
Lacking(m, i) ==
    /\ m[i].kind = "invalid" /\ m[i].made = "none"
    /\ UserNext(m, i) => m[i + 1].kind = "user" /\ m[i + 1].made = "none"

\* It gets them in the next message, or in one of their own.
Repaired(m) ==
    [i \in 1..Len(m) |->
        IF \/ Lacking(m, i) /\ ~UserNext(m, i)
           \/ i > 1 /\ Lacking(m, i - 1) /\ UserNext(m, i - 1)
        THEN [m[i] EXCEPT !.made = "loaded"]
        ELSE m[i]]

Repair(m) == [m EXCEPT !.messages = Repaired(@)]

-----------------------------------------------------------------------------
(* Reading a file: readRecoverableSession and decode.                      *)

\* The last newline: everything after it is the tail.
TailStart(f) ==
    CHOOSE n \in 0..Len(f) :
        /\ n = 0 \/ f[n].part = 3
        /\ \A i \in (n + 1)..Len(f) : f[i].part # 3

\* The tail is one complete JSON value: only its newline is missing.
TailIsRecord(f) ==
    /\ Len(f) = TailStart(f) + 1
    /\ f[Len(f)].part = 2

TornTail(f) == TailStart(f) < Len(f) /\ ~TailIsRecord(f)

\* How many fragments a load keeps.
Kept(f) == IF TornTail(f) THEN TailStart(f) ELSE Len(f)

\* A line made of two fragments is not one JSON value, and the first line
\* must be the header: anything else is an error and nothing is repaired.
Recoverable(f) ==
    /\ Kept(f) > 0
    /\ f[1].rec = Header
    /\ \A i \in 1..TailStart(f) : f[i].part = 3 /\ f[i].rec # Hole

Recovery(f) ==
    CASE TornTail(f)                     -> "truncate"
      [] ~TornTail(f) /\ TailIsRecord(f) -> "newline"
      [] OTHER                           -> "none"

Recovered(f) == [i \in 1..Kept(f) |-> f[i].rec]

Ids(f) == {f[i].rec.id : i \in 1..Kept(f)}

\* The state after n lines: decode replays every record after the header.
Replayed(f, n) ==
    LET state[i \in 0..n] == IF i <= 1 THEN EmptyMem ELSE DecodeRecord(state[i - 1], f[i].rec)
    IN state[n]

Decode(f) == Repair(Replayed(f, Kept(f)))

CountedAcrossResets(n, r) ==       \* a defect: a reset does not clear the count
    CASE r.kind \in MessageKind -> n + 1
      [] r.kind = "compaction"  -> MessageCount(Compacted(r))
      [] OTHER                  -> n

\* One line of the lightweight replay of List: it only counts the messages,
\* and it repairs nothing.
Counted(n, r) ==
    CASE r.kind \in MessageKind -> n + 1
      [] r.kind = "compaction"  -> MessageCount(Compacted(r))
      [] r.kind = "reset"       -> 0
      [] OTHER                  -> n

\* The count after n lines.
CountTo(f, n) ==
    LET count[i \in 0..n] == IF i <= 1 THEN 0 ELSE Counted(count[i - 1], f[i].rec)
    IN count[n]

LightCount(f) == CountTo(f, Kept(f))

-----------------------------------------------------------------------------
(* Writing a file.                                                         *)

\* What a power loss may leave of a write of r that got as far as part p.
Partial(f, r, p) == {Append(f, [rec |-> r, part |-> q]) : q \in 1..p}

ResizeOneShort(f, n) ==            \* a defect: off by one
    IF n <= Len(f)
    THEN SubSeq(f, 1, n - 1)
    ELSE [i \in 1..n |-> IF i <= Len(f) THEN f[i] ELSE [rec |-> Hole, part |-> 1]]

\* ftruncate(2): beyond the end it extends the file with zero bytes.
Resize(f, n) ==
    IF n <= Len(f)
    THEN SubSeq(f, 1, n)
    ELSE [i \in 1..n |-> IF i <= Len(f) THEN f[i] ELSE [rec |-> Hole, part |-> 1]]

WriteFile(r, p) ==
    /\ file' = Append(file, [rec |-> r, part |-> p])
    /\ disk' = disk \cup Partial(file, r, p)

Truncate(n) ==
    /\ file' = Resize(file, n)
    /\ disk' = disk \cup {Resize(file, n)}

Fsync == disk' = {file} /\ UNCHANGED file

Goto(h, s) == st' = [st EXCEPT ![h] = s]

\* The handle, or the process that owns it, is gone.
Gone(h) ==
    /\ st' = [st EXCEPT ![h] = "down"]
    /\ orig' = [orig EXCEPT ![h] = 0]
    /\ pos' = [pos EXCEPT ![h] = 0]
    /\ tail' = [tail EXCEPT ![h] = "none"]
    /\ req' = [req EXCEPT ![h] = Header]
    /\ mem' = [mem EXCEPT ![h] = EmptyMem]
    /\ UNCHANGED <<next, acked>>

-----------------------------------------------------------------------------
(* NewWithRouting: the header is written and synced, or the file removed.  *)

Create(h) ==
    /\ \A g \in Handle : st[g] = "down"
    /\ acked = {}
    /\ file' = <<>> /\ disk' = {<<>>}
    /\ Goto(h, "createWrite")
    /\ UNCHANGED <<orig, pos, tail, req, mem, next, acked>>

CreateWrite(h) ==
    /\ st[h] = "createWrite"
    /\ WriteFile(Header, 3)
    /\ Goto(h, "createSync")
    /\ UNCHANGED <<orig, pos, tail, req, mem, next, acked>>

CreateSync(h) ==
    /\ st[h] = "createSync"
    /\ Fsync
    /\ Goto(h, "idle")
    /\ mem' = [mem EXCEPT ![h] = EmptyMem]
    /\ acked' = acked \cup {0}
    /\ UNCHANGED <<orig, pos, tail, req, next>>

\* A failed write or sync of the header: os.Remove(path).
CreateFails(h) ==
    /\ st[h] \in {"createWrite", "createSync"}
    /\ file' = <<>>
    /\ disk' = disk \cup Partial(<<>>, Header, 2) \cup {<<>>}
    /\ Gone(h)

-----------------------------------------------------------------------------
(* appendLine and rollbackAppend, under the handle's mutex.                *)

\* The agent appends an answer after a message of role user, and results right after
\* their answer; those of valid calls are to a load like any other message of a user.
MayFollow(k, m) ==
    LET last == m[Len(m)]
    IN  CASE k \in {"answer", "invalid"} -> m # <<>> /\ last.kind \in {"user", "results"}
          [] k = "results" -> m # <<>> /\ last.kind = "invalid" /\ last.made = "none"
          [] OTHER         -> TRUE

\* A compaction retains the messages from a prompt on (compactionSplitLocked).
Splits(m) == {i \in 2..Len(m) : m[i].kind = "user" /\ m[i].made = "none"}

\* The messages as a compaction writes them: what was made up is so no longer.
AsWritten(m) ==
    [i \in 1..Len(m) |-> IF m[i].made = "loaded" THEN [m[i] EXCEPT !.made = "written"] ELSE m[i]]

\* What a handle with messages m may be asked to append.
Requests(m) ==
    {[id |-> next, kind |-> k, kept |-> <<>>] :
        k \in {x \in Kind \ {"compaction"} : MayFollow(x, m)}}
    \cup {[id |-> next, kind |-> "compaction", kept |-> AsWritten(SubSeq(m, i, Len(m)))] :
              i \in Splits(m)}

\* AppendMessage, AppendCompaction, AppendReset, AppendUsage, AppendEntry up
\* to the Stat of appendLine.
AppendStart(h) ==
    /\ st[h] = "idle"
    /\ next <= MaxRecord
    /\ \E r \in Requests(mem[h].messages) : req' = [req EXCEPT ![h] = r]
    /\ orig' = [orig EXCEPT ![h] = Len(file)]
    /\ next' = next + 1
    /\ Goto(h, "write")
    /\ UNCHANGED <<file, disk, pos, tail, mem, acked>>

AppendWrite(h) ==
    /\ st[h] = "write"
    /\ WriteFile(req[h], 3)
    /\ Goto(h, "sync")
    /\ UNCHANGED <<orig, pos, tail, req, mem, next, acked>>

\* writeAll returns an error after writing none or some of the line.
AppendWriteFails(h) ==
    /\ st[h] = "write"
    /\ \/ UNCHANGED <<file, disk>>
       \/ \E p \in 1..2 : WriteFile(req[h], p)
    /\ Goto(h, "truncate")
    /\ UNCHANGED <<orig, pos, tail, req, mem, next, acked>>

\* Sync succeeds, committed() runs, nil is returned.
AppendSync(h) ==
    /\ st[h] = "sync"
    /\ Fsync
    /\ mem' = [mem EXCEPT ![h] = Commit(@, req[h])]
    /\ acked' = acked \cup {req[h].id}
    /\ Goto(h, "idle")
    /\ UNCHANGED <<orig, pos, tail, req, next>>

AppendSyncIgnored(h) ==            \* a defect: the error of Sync is dropped
    /\ st[h] = "sync"
    /\ mem' = [mem EXCEPT ![h] = Commit(@, req[h])]
    /\ acked' = acked \cup {req[h].id}
    /\ Goto(h, "idle")
    /\ UNCHANGED <<file, disk, orig, pos, tail, req, next>>

AppendSyncFails(h) ==
    /\ st[h] = "sync"
    /\ Goto(h, "truncate")
    /\ UNCHANGED <<file, disk, orig, pos, tail, req, mem, next, acked>>

RollbackTruncate(h) ==
    /\ st[h] = "truncate"
    /\ Truncate(orig[h])
    /\ Goto(h, "resync")
    /\ UNCHANGED <<orig, pos, tail, req, mem, next, acked>>

RollbackSync(h) ==
    /\ st[h] = "resync"
    /\ Fsync
    /\ Goto(h, "idle")
    /\ UNCHANGED <<orig, pos, tail, req, mem, next, acked>>

RollbackStaysOpen(h) ==            \* a defect: the handle is not disabled
    /\ st[h] \in {"truncate", "resync"}
    /\ Goto(h, "idle")
    /\ UNCHANGED <<file, disk, orig, pos, tail, req, mem, next, acked>>

\* disableAfterRollbackFailure: the handle is closed for good.
RollbackFails(h) ==
    /\ st[h] \in {"truncate", "resync"}
    /\ Gone(h)
    /\ UNCHANGED <<file, disk>>

\* Close: the handle is closed whether or not the last Sync succeeds.
Close(h) ==
    /\ st[h] = "idle"
    /\ Gone(h)
    /\ Fsync \/ UNCHANGED <<file, disk>>

-----------------------------------------------------------------------------
(* Load.                                                                   *)

LoadOpenBeforeFirst(h) ==          \* a defect: off by one
    /\ st[h] = "down"
    /\ \A g \in Handle : st[g] \notin {"createWrite", "createSync"}
    /\ tail' = [tail EXCEPT ![h] = Recovery(file)]
    /\ orig' = [orig EXCEPT ![h] = Kept(file)]
    /\ pos' = [pos EXCEPT ![h] = -1]
    /\ mem' = [mem EXCEPT ![h] = EmptyMem]
    /\ Goto(h, "decode")
    /\ UNCHANGED <<file, disk, req, next, acked>>

\* Open, Stat, and the look at the tail.  Nobody opens a file whose creation
\* has not returned: its name is still unknown.
LoadOpen(h) ==
    /\ st[h] = "down"
    /\ \A g \in Handle : st[g] \notin {"createWrite", "createSync"}
    /\ tail' = [tail EXCEPT ![h] = Recovery(file)]
    /\ orig' = [orig EXCEPT ![h] = Kept(file)]
    /\ pos' = [pos EXCEPT ![h] = 0]
    /\ mem' = [mem EXCEPT ![h] = EmptyMem]
    /\ Goto(h, "decode")
    /\ UNCHANGED <<file, disk, req, next, acked>>

\* decode takes the next line; a line that is not one is an error (LoadFails).
LoadLine(h) ==
    LET i == pos[h] + 1
    IN /\ st[h] = "decode"
       /\ i <= orig[h] /\ i <= Len(file)
       /\ file[i].part = 3 \/ (tail[h] = "newline" /\ i = orig[h])
       /\ file[i].rec # Hole
       /\ (i = 1) <=> (file[i].rec = Header)
       /\ i > 1 => mem' = [mem EXCEPT ![h] = DecodeRecord(@, file[i].rec)]
       /\ i = 1 => UNCHANGED mem
       /\ pos' = [pos EXCEPT ![h] = i]
       /\ UNCHANGED <<file, disk, st, orig, tail, req, next, acked>>

\* End of the input, and the repair; an input without a header is an error.
LoadDone(h) ==
    /\ st[h] = "decode"
    /\ pos[h] > 0
    /\ pos[h] = orig[h] \/ pos[h] >= Len(file)
    /\ Goto(h, CASE tail[h] = "truncate" -> "loadTruncate"
                 [] tail[h] = "newline"  -> "loadNewline"
                 [] tail[h] = "none"     -> "idle")
    /\ mem' = [mem EXCEPT ![h] = Repair(@)]
    /\ UNCHANGED <<file, disk, orig, pos, tail, req, next, acked>>

LoadTruncate(h) ==
    /\ st[h] = "loadTruncate"
    /\ Truncate(orig[h])
    /\ Goto(h, "loadSync")
    /\ UNCHANGED <<orig, pos, tail, req, mem, next, acked>>

\* The appended newline completes the last fragment of the file; if another
\* handle has written since the tail was read, it makes a broken line.
LoadNewline(h) ==
    /\ st[h] = "loadNewline"
    /\ LET f == IF file # <<>> /\ file[Len(file)].part = 2
                THEN [file EXCEPT ![Len(file)].part = 3]
                ELSE Append(file, [rec |-> Hole, part |-> 3])
       IN file' = f /\ disk' = disk \cup {f}
    /\ Goto(h, "loadSync")
    /\ UNCHANGED <<orig, pos, tail, req, mem, next, acked>>

LoadSync(h) ==
    /\ st[h] = "loadSync"
    /\ Fsync
    /\ Goto(h, "idle")
    /\ UNCHANGED <<orig, pos, tail, req, mem, next, acked>>

LoadFails(h) ==
    /\ st[h] \in {"decode", "loadTruncate", "loadNewline", "loadSync"}
    /\ Gone(h)
    /\ UNCHANGED <<file, disk>>

-----------------------------------------------------------------------------
(* The machine.                                                            *)

\* The process that owns h is killed, at worst in the middle of a write.
Kill(h) ==
    /\ st[h] # "down"
    /\ \/ UNCHANGED <<file, disk>>
       \/ /\ st[h] = "write"
          /\ \E p \in 1..3 : WriteFile(req[h], p)
       \/ /\ st[h] = "createWrite"
          /\ \E p \in 1..3 : WriteFile(Header, p)
    /\ Gone(h)

PowerLoss ==
    /\ \E f \in disk : file' = f /\ disk' = {f}
    /\ st' = [h \in Handle |-> "down"]
    /\ orig' = [h \in Handle |-> 0]
    /\ pos' = [h \in Handle |-> 0]
    /\ tail' = [h \in Handle |-> "none"]
    /\ req' = [h \in Handle |-> Header]
    /\ mem' = [h \in Handle |-> EmptyMem]
    /\ UNCHANGED <<next, acked>>


-----------------------------------------------------------------------------
Init ==
    /\ file = <<>>
    /\ disk = {<<>>}
    /\ st = [h \in Handle |-> "down"]
    /\ orig = [h \in Handle |-> 0]
    /\ pos = [h \in Handle |-> 0]
    /\ tail = [h \in Handle |-> "none"]
    /\ req = [h \in Handle |-> Header]
    /\ mem = [h \in Handle |-> EmptyMem]
    /\ next = 1
    /\ acked = {}

CreateStep(h) == Create(h) \/ CreateWrite(h) \/ CreateSync(h) \/ CreateFails(h)

AppendStep(h) ==
    \/ AppendStart(h) \/ AppendWrite(h) \/ AppendWriteFails(h)
    \/ AppendSync(h) \/ AppendSyncFails(h)
    \/ RollbackTruncate(h) \/ RollbackSync(h) \/ RollbackFails(h)

LoadStep(h) ==
    \/ LoadOpen(h) \/ LoadLine(h) \/ LoadDone(h)
    \/ LoadTruncate(h) \/ LoadNewline(h) \/ LoadSync(h) \/ LoadFails(h)

Next ==
    \/ \E h \in Handle :
          CreateStep(h) \/ AppendStep(h) \/ Close(h) \/ LoadStep(h) \/ Kill(h)
    \/ PowerLoss

Spec == Init /\ [][Next]_vars

-----------------------------------------------------------------------------
(* Properties.                                                             *)

State == {"down", "createWrite", "createSync", "idle", "write", "sync",
          "truncate", "resync", "decode", "loadTruncate", "loadNewline", "loadSync"}

\* The types of the variables.
TypeOK ==
    /\ file \in Seq(Fragment)
    /\ disk \subseteq Seq(Fragment) /\ disk # {}
    /\ st \in [Handle -> State]
    /\ orig \in [Handle -> Nat]
    /\ pos \in [Handle -> Nat]
    /\ tail \in [Handle -> {"none", "truncate", "newline"}]
    /\ req \in [Handle -> Record]
    /\ next \in 1..(MaxRecord + 1)
    /\ acked \subseteq 0..MaxRecord
    /\ mem \in [Handle -> [messages : Seq(Message), entries : Seq(Nat), usage : Seq(Nat)]]

\* A record whose append (or whose header's creation) was reported as
\* successful is recovered from every content a kill or a power loss can leave,
\* whatever writes, syncs and rollbacks failed before or after it.
AckedSurvive == \A f \in disk \cup {file} : acked \subseteq Ids(f)

\* Once anything was acknowledged the file loads, now and after any crash: a
\* torn write never ends up in the interior of the log.
NeverDamaged == acked # {} => \A f \in disk \cup {file} : Recoverable(f)

\* The state in memory without the results that loads made up.
Unrepaired(m) ==
    [m EXCEPT !.messages =
        [i \in 1..Len(@) |-> IF @[i].made = "loaded" THEN Plain(@[i].id, @[i].kind) ELSE @[i]]]

\* Whoever reads the session sees the same conversation: between two appends a
\* handle's memory is what a restart would load (no failed append is visible in
\* it and no committed one is missing from it), but for error results that a
\* load made up; a load leaves no invalid call without a result right after it;
\* and List counts the messages that a load yields, but for those it makes up.
ReadersAgree ==
    /\ \A h \in Handle : st[h] = "idle" => Unrepaired(mem[h]) = Unrepaired(Decode(file))
    /\ \A f \in disk \cup {file} :
          Recoverable(f) =>
             LET m == Decode(f).messages
             IN /\ \A i \in 1..Len(m) : ~Lacking(m, i)
                /\ LightCount(f) = MessageCount(Unrepaired(Decode(f)).messages)

\* The file is an append-only log (see DurableLog).
DL == INSTANCE DurableLog WITH log <- Recovered(file)

IsDurableLog == DL!Spec

\* "rollbackAppend restores the last durable record boundary": a truncation
\* removes no record whose append was acknowledged.
RollbackKeepsDurable ==
    [][\A h \in Handle :
         RollbackTruncate(h) => (acked \cap Ids(file)) \subseteq Ids(file')]_vars
=============================================================================
