-------------------------- MODULE SessionLogProofs --------------------------
(***************************************************************************)
(* Proofs about SessionLog for one process at a time: Handle = {h}, where  *)
(* h stands for the sequence of handles that successive processes open.    *)
(* The number of records, of crashes and of failed writes is unbounded.    *)
(***************************************************************************)
EXTENDS SessionLog, FiniteSetTheorems, WellFoundedInduction, TLAPS

----------------------------------------
(* The shape of every content a file can have.                             *)

Terminated(f) == \A i \in 1..Len(f) : f[i].part = 3

\* Only the last fragment can be torn, the numbers of the records increase
\* and are below n, and the first record is the header.
Shape(f, n) ==
    /\ f \in Seq(Fragment)
    /\ \A i \in 1..Len(f) : i < Len(f) => f[i].part = 3
    /\ \A i \in 1..Len(f) : f[i].rec \in Record /\ f[i].rec.id < n
    /\ \A i, j \in 1..Len(f) : i < j => f[i].rec.id < f[j].rec.id
    /\ f # <<>> => f[1].rec = Header

\* The numbers of the first m records.
IdsTo(f, m) == {f[i].rec.id : i \in 1..m}

\* A load of f recovers every record of a.
Good(f, a, n) == Shape(f, n) /\ a \subseteq Ids(f)

----------------------------------------
(* The inductive invariant.                                                *)

DiskInv == \A f \in disk \cup {file} : Good(f, acked, next)

CreateInv(h) ==
    /\ st[h] = "createWrite" => file = <<>> /\ acked = {}
    /\ st[h] = "createSync"  => file = <<[rec |-> Header, part |-> 3]>> /\ acked = {}

\* Nothing is appended after a torn fragment.
CleanInv(h) ==
    st[h] \in {"idle", "write", "sync", "resync", "loadSync"} =>
        file # <<>> /\ Terminated(file)

\* The record being appended is newer than every record of the file.
RequestInv(h) ==
    /\ st[h] \in {"write", "sync"} => req[h].kind \in Kind
    /\ st[h] = "write" =>
        /\ orig[h] = Len(file)
        /\ req[h].id < next
        /\ \A i \in 1..Len(file) : file[i].rec.id < req[h].id

\* The size a rollback returns to keeps every acknowledged record.
RollbackInv(h) ==
    st[h] \in {"sync", "truncate"} =>
        /\ orig[h] \in 1..Len(file)
        /\ Len(file) <= orig[h] + 1
        /\ acked \subseteq IdsTo(file, orig[h])
        /\ \A i \in 1..orig[h] : file[i].part = 3

\* The record whose sync is awaited is the last one.
SyncInv(h) ==
    st[h] = "sync" => file[Len(file)].rec = req[h]

LoadInv(h) ==
    /\ st[h] = "decode" =>
          orig[h] = Kept(file) /\ tail[h] = Recovery(file) /\ pos[h] <= orig[h]
    /\ st[h] = "loadTruncate" =>
          Recovery(file) = "truncate" /\ orig[h] = Kept(file) /\ orig[h] > 0
    /\ st[h] = "loadNewline" => Recovery(file) = "newline"

HandleInv(h) ==
    /\ CreateInv(h) /\ CleanInv(h) /\ RequestInv(h)
    /\ RollbackInv(h) /\ SyncInv(h) /\ LoadInv(h)

IInv == TypeOK /\ DiskInv /\ \A h \in Handle : HandleInv(h)

----------------------------------------
(* Lemmas about the contents of a file.                                    *)

\* The tail of a well-shaped content is at most its last fragment.
LEMMA TailStartOfShape ==
    ASSUME NEW f, NEW n, Shape(f, n)
    PROVE  TailStart(f) = IF f = <<>> \/ f[Len(f)].part = 3
                          THEN Len(f) ELSE Len(f) - 1
<1> DEFINE P(m) == /\ m = 0 \/ f[m].part = 3
                   /\ \A i \in (m + 1)..Len(f) : f[i].part # 3
           t == IF f = <<>> \/ f[Len(f)].part = 3 THEN Len(f) ELSE Len(f) - 1
<1>0. f \in Seq(Fragment) /\ Len(f) \in Nat /\ (f = <<>> <=> Len(f) = 0) BY DEF Shape
<1>1. t \in 0..Len(f) /\ P(t)
 <2>1. CASE f = <<>> \/ f[Len(f)].part = 3 BY <1>0, <2>1
 <2>2. CASE f # <<>> /\ f[Len(f)].part # 3
  <3>1. t = Len(f) - 1 /\ t \in 0..Len(f) BY <1>0, <2>2
  <3>2. t = 0 \/ f[t].part = 3
   <4>1. \A i \in 1..Len(f) : i = Len(f) - 1 => f[i].part = 3 BY <1>0 DEF Shape
   <4>. HIDE DEF t
   <4>. QED BY <1>0, <3>1, <4>1
  <3>3. \A i \in (t + 1)..Len(f) : i = Len(f) BY <1>0, <3>1
  <3>. QED BY <2>2, <3>1, <3>2, <3>3
 <2>. QED BY <2>1, <2>2
<1>2. ASSUME NEW m \in 0..Len(f), P(m)
      PROVE  m = t
  BY <1>0, <1>2 DEF Shape
<1>. HIDE DEF P, t
<1>3. (CHOOSE m \in 0..Len(f) : P(m)) = t BY <1>1, <1>2
<1>. QED BY <1>3 DEF TailStart, P, t

\* What a load decides about a well-shaped content: a torn last fragment is
\* dropped, a complete one that lacks its newline is kept and terminated.
LEMMA LoadOfShape ==
    ASSUME NEW f, NEW n, Shape(f, n)
    PROVE  /\ Kept(f) = IF f # <<>> /\ f[Len(f)].part = 1
                        THEN Len(f) - 1 ELSE Len(f)
           /\ Recovery(f) = "truncate" <=> f # <<>> /\ f[Len(f)].part = 1
           /\ Recovery(f) = "newline" <=> f # <<>> /\ f[Len(f)].part = 2
           /\ Recovery(f) = "none" <=> Terminated(f)
           /\ Recovery(f) \in {"none", "truncate", "newline"}
           /\ Kept(f) \in 0..Len(f)
<1>1. f \in Seq(Fragment) /\ Len(f) \in Nat /\ (f = <<>> <=> Len(f) = 0) BY DEF Shape
<1>2. f # <<>> => f[Len(f)].part \in 1..3
 <2>1. f # <<>> => f[Len(f)] \in Fragment BY <1>1
 <2>. QED BY <2>1 DEF Fragment
<1>3. Terminated(f) <=> f = <<>> \/ f[Len(f)].part = 3 BY <1>1 DEF Shape, Terminated
<1>4. TornTail(f) <=> f # <<>> /\ f[Len(f)].part = 1
  BY <1>1, <1>2, TailStartOfShape DEF TornTail, TailIsRecord
<1>5. TailIsRecord(f) <=> f # <<>> /\ f[Len(f)].part = 2
  BY <1>1, <1>2, TailStartOfShape DEF TailIsRecord
<1>6. TailStart(f) = IF f = <<>> \/ f[Len(f)].part = 3 THEN Len(f) ELSE Len(f) - 1
  BY TailStartOfShape
<1>7. Kept(f) = IF f # <<>> /\ f[Len(f)].part = 1 THEN Len(f) - 1 ELSE Len(f)
  BY <1>1, <1>4, <1>6 DEF Kept
<1>8. Recovery(f) = IF TornTail(f) THEN "truncate"
                    ELSE IF TailIsRecord(f) THEN "newline" ELSE "none"
  BY DEF Recovery
<1>. QED BY <1>1, <1>2, <1>3, <1>4, <1>5, <1>7, <1>8

\* A later append only raises the bound of the numbers.
LEMMA ShapeMono ==
    ASSUME NEW f, NEW a, NEW n \in Nat, Good(f, a, n)
    PROVE  Good(f, a, n + 1)
  BY DEF Good, Shape, Record

\* An empty file loads.
LEMMA EmptyGood ==
    ASSUME NEW n
    PROVE  Good(<<>>, {}, n)
  BY DEF Good, Shape

\* Writing a part of a newer record keeps what was there.
LEMMA AppendGood ==
    ASSUME NEW f, NEW a, NEW n \in Nat, Good(f, a, n), Terminated(f),
           NEW r \in Record, r.id < n, f = <<>> => r = Header,
           \A i \in 1..Len(f) : f[i].rec.id < r.id,
           NEW p \in 1..3
    PROVE  /\ Good(Append(f, [rec |-> r, part |-> p]), a, n)
           /\ p = 3 => Terminated(Append(f, [rec |-> r, part |-> p]))
           /\ p = 3 => r.id \in Ids(Append(f, [rec |-> r, part |-> p]))
<1> DEFINE x == [rec |-> r, part |-> p]
           g == Append(f, x)
<1>1. f \in Seq(Fragment) /\ Len(f) \in Nat BY DEF Good, Shape
<1>2. x \in Fragment /\ x.rec = r /\ x.part = p BY DEF Fragment
<1>. HIDE DEF x
<1>3. /\ g \in Seq(Fragment) /\ Len(g) = Len(f) + 1 /\ g # <<>>
      /\ g[Len(g)] = x
      /\ \A i \in 1..Len(f) : g[i] = f[i]
  BY <1>1, <1>2
<1>. HIDE DEF g
<1>4. \A i \in 1..Len(g) : i \in 1..Len(f) \/ i = Len(g) BY <1>1, <1>3
<1>5. Shape(g, n)
 <2>1. \A i \in 1..Len(g) : i < Len(g) => g[i].part = 3 BY <1>1, <1>3, <1>4 DEF Terminated
 <2>2. \A i \in 1..Len(g) : g[i].rec \in Record /\ g[i].rec.id < n
   BY <1>1, <1>2, <1>3, <1>4 DEF Good, Shape
 <2>3. \A i, j \in 1..Len(g) : i < j => g[i].rec.id < g[j].rec.id
   BY SMTT(40), <1>1, <1>2, <1>3, <1>4 DEF Good, Shape
 <2>4. g[1].rec = Header BY <1>1, <1>2, <1>3, <1>4 DEF Good, Shape
 <2>. QED BY <1>3, <2>1, <2>2, <2>3, <2>4 DEF Shape
<1>6. Kept(f) = Len(f) /\ Kept(g) \in {Len(f), Len(g)} /\ (p = 3 => Kept(g) = Len(g))
 <2>1. Kept(f) = Len(f) BY <1>1, LoadOfShape DEF Good, Terminated
 <2>2. Kept(g) = IF g[Len(g)].part = 1 THEN Len(g) - 1 ELSE Len(g) BY <1>3, <1>5, LoadOfShape
 <2>. QED BY <1>1, <1>2, <1>3, <2>1, <2>2
<1>7. Ids(f) \subseteq Ids(g) BY <1>1, <1>3, <1>6 DEF Ids
<1>8. p = 3 => r.id \in Ids(g) BY <1>1, <1>2, <1>3, <1>6 DEF Ids
<1>9. p = 3 => Terminated(g) BY <1>1, <1>2, <1>3, <1>4 DEF Terminated
<1>. QED BY <1>5, <1>7, <1>8, <1>9 DEF Good, g, x

\* The header alone, whole or torn.
LEMMA HeaderGood ==
    ASSUME NEW n \in Nat, 0 < n, NEW p \in 1..3
    PROVE  /\ Good(Append(<<>>, [rec |-> Header, part |-> p]), {}, n)
           /\ p = 3 => 0 \in Ids(Append(<<>>, [rec |-> Header, part |-> p]))
<1>1. PICK f : f = <<>> OBVIOUS
<1>2. Good(f, {}, n) /\ Terminated(f) /\ \A i \in 1..Len(f) : FALSE
  BY <1>1, EmptyGood DEF Terminated
<1>3. Header \in Record /\ Header.id = 0 BY DEF Header, Record
<1>4. /\ Good(Append(f, [rec |-> Header, part |-> p]), {}, n)
      /\ p = 3 => Header.id \in Ids(Append(f, [rec |-> Header, part |-> p]))
  BY <1>2, <1>3, AppendGood
<1>. QED BY <1>1, <1>3, <1>4

\* A rollback to a size whose fragments hold the acknowledged records.
LEMMA PrefixGood ==
    ASSUME NEW f, NEW a, NEW n, Shape(f, n),
           NEW m \in 0..Len(f), a \subseteq IdsTo(f, m),
           \A i \in 1..m : f[i].part = 3
    PROVE  /\ Good(SubSeq(f, 1, m), a, n)
           /\ Terminated(SubSeq(f, 1, m))
           /\ Len(SubSeq(f, 1, m)) = m
<1> DEFINE g == SubSeq(f, 1, m)
<1>1. f \in Seq(Fragment) /\ Len(f) \in Nat /\ m \in Nat /\ m <= Len(f) BY DEF Shape
<1>2. g \in Seq(Fragment) /\ Len(g) = m /\ \A i \in 1..m : g[i] = f[i] BY <1>1
<1>. HIDE DEF g
<1>3. Terminated(g) BY <1>2 DEF Terminated
<1>4. Shape(g, n) BY SMTT(40), <1>1, <1>2, <1>3 DEF Shape, Terminated
<1>5. Kept(g) = m BY <1>1, <1>2, <1>3, <1>4, LoadOfShape DEF Terminated
<1>6. a \subseteq Ids(g) BY <1>1, <1>2, <1>5 DEF Ids, IdsTo
<1>. QED BY <1>2, <1>3, <1>4, <1>6 DEF Good, g

\* The newline that a load appends completes the last fragment.
LEMMA NewlineGood ==
    ASSUME NEW f, NEW a, NEW n, Good(f, a, n), f # <<>>, f[Len(f)].part = 2
    PROVE  /\ Good([f EXCEPT ![Len(f)].part = 3], a, n)
           /\ Terminated([f EXCEPT ![Len(f)].part = 3])
           /\ [f EXCEPT ![Len(f)].part = 3] # <<>>
<1> DEFINE g == [f EXCEPT ![Len(f)].part = 3]
           l == Len(f)
<1>1. f \in Seq(Fragment) /\ l \in Nat /\ l >= 1 BY DEF Good, Shape
<1>2. f[l] \in Fragment BY <1>1
<1>3. [f[l] EXCEPT !.part = 3] \in Fragment /\ [f[l] EXCEPT !.part = 3].part = 3
      /\ [f[l] EXCEPT !.part = 3].rec = f[l].rec
  BY <1>2 DEF Fragment
<1>4. /\ g \in Seq(Fragment) /\ Len(g) = l
      /\ \A i \in 1..l : g[i].rec = f[i].rec
      /\ \A i \in 1..l : i # l => g[i].part = f[i].part
      /\ g[l].part = 3
  BY <1>1, <1>2, <1>3
<1>. HIDE DEF g
<1>5. Terminated(g) /\ g # <<>> BY <1>1, <1>4 DEF Good, Shape, Terminated
<1>6. Shape(g, n) BY SMTT(40), <1>1, <1>4, <1>5 DEF Good, Shape, Terminated
<1>7. Kept(g) = l /\ Kept(f) = l BY <1>1, <1>4, <1>6, LoadOfShape DEF Good
<1>8. Ids(g) = Ids(f) BY <1>4, <1>7 DEF Ids
<1>. QED BY <1>5, <1>6, <1>8 DEF Good, g

----------------------------------------
(* Lemmas about the state in memory.                                       *)

MemoryOf(M) == [messages : Seq(M), entries : Seq(Nat), usage : Seq(Nat)]

\* The state in memory, and what the records of a file replay to.
Memory == MemoryOf(Message)
RawMemory == MemoryOf(WrittenMessage)

\* A function on the first naturals is a sequence.
LEMMA FunctionIsSeq ==
    ASSUME NEW S, NEW n \in Nat, NEW f \in [1..n -> S]
    PROVE  f \in Seq(S) /\ Len(f) = n
  OBVIOUS

\* What a record appends or writes is never made up by a load.
LEMMA Written ==
    /\ \A id \in Nat, k \in MessageKind : Plain(id, k) \in WrittenMessage
    /\ WrittenMessage \subseteq Message
    /\ \A r \in Record : Compacted(r) \in Seq(WrittenMessage)
<1>1. \A id \in Nat, k \in MessageKind : Plain(id, k) \in WrittenMessage
  BY DEF Plain, WrittenMessage
<1>2. WrittenMessage \subseteq Message BY DEF WrittenMessage, Message
<1>3. ASSUME NEW r \in Record PROVE Compacted(r) \in Seq(WrittenMessage)
 <2>1. Plain(r.id, "user") \in WrittenMessage /\ r.kept \in Seq(WrittenMessage)
   BY <1>1 DEF Record, MessageKind
 <2>. QED BY <2>1 DEF Compacted
<1>. QED BY <1>1, <1>2, <1>3

\* What the commits make of a state has its type.
LEMMA CommitType ==
    ASSUME NEW m \in Memory, NEW r \in Record, r.kind \in Kind
    PROVE  Commit(m, r) \in Memory
<1>1. r.id \in Nat /\ Compacted(r) \in Seq(Message)
 <2>1. Seq(WrittenMessage) \subseteq Seq(Message) BY Written
 <2>. QED BY <2>1, Written DEF Record
<1>2. /\ m.messages \in Seq(Message) /\ m.entries \in Seq(Nat) /\ m.usage \in Seq(Nat)
      /\ Append(m.entries, r.id) \in Seq(Nat) /\ Append(m.usage, r.id) \in Seq(Nat)
      /\ <<>> \in Seq(Nat) /\ <<>> \in Seq(Message)
  BY <1>1 DEF Memory, MemoryOf
<1>3. CASE r.kind \in MessageKind
 <2>1. Plain(r.id, r.kind) \in Message BY <1>1, <1>3, Written
 <2>2. Append(m.messages, Plain(r.id, r.kind)) \in Seq(Message) BY <1>2, <2>1
 <2>. QED BY <1>2, <1>3, <2>2 DEF Commit, Memory, MemoryOf, MessageKind
<1>4. CASE r.kind = "compaction" BY <1>1, <1>2, <1>4 DEF Commit, Memory, MemoryOf, MessageKind
<1>5. CASE r.kind = "reset" BY <1>2, <1>5 DEF Commit, Memory, MemoryOf, MessageKind
<1>6. CASE r.kind = "usage" BY <1>2, <1>6 DEF Commit, Memory, MemoryOf, MessageKind
<1>7. CASE r.kind = "entry" BY <1>2, <1>7 DEF Commit, Memory, MemoryOf, MessageKind
<1>. QED BY <1>3, <1>4, <1>5, <1>6, <1>7 DEF Kind

\* What a load makes of a content has its type.
LEMMA DecodeType ==
    ASSUME NEW M, WrittenMessage \subseteq M, NEW m \in MemoryOf(M), NEW r \in Record
    PROVE  DecodeRecord(m, r) \in MemoryOf(M)
<1>1. r.id \in Nat /\ Compacted(r) \in Seq(M)
 <2>1. Seq(WrittenMessage) \subseteq Seq(M) OBVIOUS
 <2>. QED BY <2>1, Written DEF Record
<1>2. /\ m.messages \in Seq(M) /\ m.entries \in Seq(Nat) /\ m.usage \in Seq(Nat)
      /\ Append(m.entries, r.id) \in Seq(Nat) /\ Append(m.usage, r.id) \in Seq(Nat)
      /\ <<>> \in Seq(Nat) /\ <<>> \in Seq(M)
  BY <1>1 DEF MemoryOf
<1>3. CASE r.kind \in MessageKind
 <2>1. Plain(r.id, r.kind) \in M BY <1>1, <1>3, Written
 <2>2. Append(m.messages, Plain(r.id, r.kind)) \in Seq(M) BY <1>2, <2>1
 <2>. QED BY <1>2, <1>3, <2>2 DEF DecodeRecord, MemoryOf, MessageKind
<1>4. CASE r.kind = "compaction" BY <1>1, <1>2, <1>4 DEF DecodeRecord, MemoryOf, MessageKind
<1>5. CASE r.kind = "reset" BY <1>2, <1>5 DEF DecodeRecord, MemoryOf, MessageKind, EmptyMem
<1>6. CASE r.kind = "usage" BY <1>2, <1>6 DEF DecodeRecord, MemoryOf, MessageKind
<1>7. CASE r.kind \notin MessageKind \cup {"compaction", "reset", "usage"}
  BY <1>1, <1>2, <1>7 DEF DecodeRecord, MemoryOf
<1>. QED BY <1>3, <1>4, <1>5, <1>6, <1>7

\* The types of a fresh process.
LEMMA StartTypes ==
    /\ Header \in Record
    /\ EmptyMem \in Memory
    /\ EmptyMem \in RawMemory
  BY DEF Header, Record, EmptyMem, Memory, RawMemory, MemoryOf

----------------------------------------
(* Induction and recursion over the naturals.  The theorems of the library *)
(* take an operator; these take a set and a function.                      *)

\* A set that has 0 and the successor of every natural it has, has them all.
LEMMA Induction ==
    ASSUME NEW S, 0 \in S, \A n \in Nat : n \in S => n + 1 \in S
    PROVE  \A n \in Nat : n \in S
<1> DEFINE T == {n \in Nat : n \notin S}
<1>1. SUFFICES ASSUME T # {} PROVE FALSE
  OBVIOUS
<1>2. PICK x \in T : \A y \in T : ~(<<y, x>> \in OpToRel(<, Nat))
  BY <1>1, WFMin, NatLessThanWellFounded
<1>3. x # 0 /\ x \in Nat OBVIOUS
<1>4. x - 1 \in Nat /\ x - 1 < x BY <1>3
<1>5. <<x - 1, x>> \in OpToRel(<, Nat) BY <1>3, <1>4 DEF OpToRel
<1>6. x - 1 \notin T BY <1>2, <1>5
<1>7. x - 1 \in S BY <1>4, <1>6
<1>. QED BY <1>3, <1>4, <1>7

\* The values after each line of a file whose header leaves the first one.
Lines(g, n, first, step) ==
    g = [i \in 0..n |-> IF i <= 1 THEN first ELSE step[i][g[i - 1]]]

\* There are such values.
LEMMA LinesExist ==
    ASSUME NEW D, NEW first \in D, NEW N \in Nat, NEW step \in [2..N -> [D -> D]]
    PROVE  \E g \in [0..N -> D] : Lines(g, N, first, step)
<1> DEFINE S == {n \in Nat : n <= N => \E g \in [0..n -> D] : Lines(g, n, first, step)}
<1>1. 0 \in S
 <2>1. Lines([i \in 0..0 |-> first], 0, first, step) /\ [i \in 0..0 |-> first] \in [0..0 -> D]
   BY DEF Lines
 <2>. QED BY <2>1
<1>2. ASSUME NEW n \in Nat, n \in S PROVE n + 1 \in S
 <2>1. SUFFICES ASSUME n + 1 <= N PROVE \E g \in [0..(n + 1) -> D] : Lines(g, n + 1, first, step)
   OBVIOUS
 <2>2. PICK g \in [0..n -> D] : Lines(g, n, first, step) BY <1>2, <2>1
 <2> DEFINE x == IF n = 0 THEN first ELSE step[n + 1][g[n]]
            h == [i \in 0..(n + 1) |-> IF i = n + 1 THEN x ELSE g[i]]
 <2>3. x \in D BY <2>1
 <2>4. h \in [0..(n + 1) -> D] BY <2>3
 <2>5. \A i \in 0..(n + 1) : h[i] = IF i <= 1 THEN first ELSE step[i][h[i - 1]]
  <3>1. SUFFICES ASSUME NEW i \in 0..(n + 1)
        PROVE h[i] = IF i <= 1 THEN first ELSE step[i][h[i - 1]]
    OBVIOUS
  <3>2. CASE i = n + 1 BY <3>2
  <3>3. CASE i # n + 1
   <4>1. i \in 0..n /\ g[i] = IF i <= 1 THEN first ELSE step[i][g[i - 1]] BY <2>2, <3>3 DEF Lines
   <4>2. i > 1 => i - 1 \in 0..n BY <4>1
   <4>. QED BY <4>1, <4>2
  <3>. QED BY <3>2, <3>3
 <2>6. Lines(h, n + 1, first, step)
  <3> HIDE DEF x
  <3>1. h = [i \in 0..(n + 1) |-> h[i]] OBVIOUS
  <3> HIDE DEF h
  <3>. QED BY <2>5, <3>1 DEF Lines
 <2>. QED BY <2>4, <2>6
<1>3. N \in S
 <2> HIDE DEF S
 <2>. QED BY <1>1, <1>2, Induction
<1>. QED BY <1>3

----------------------------------------
(* What a load replays, and what List counts.                              *)

\* The records of the first n lines.
Records(f, n) == \A i \in 1..n : f[i].rec \in Record

\* Line by line.
LEMMA ReplayedLines ==
    ASSUME NEW f, NEW N \in Nat, Records(f, N)
    PROVE  /\ \A n \in 0..N : Replayed(f, n) \in RawMemory
           /\ Replayed(f, 0) = EmptyMem
           /\ \A n \in 1..N : Replayed(f, n) =
                IF n = 1 THEN EmptyMem ELSE DecodeRecord(Replayed(f, n - 1), f[n].rec)
<1> DEFINE step == [i \in 2..N |-> [m \in RawMemory |-> DecodeRecord(m, f[i].rec)]]
<1>1. step \in [2..N -> [RawMemory -> RawMemory]]
 <2>1. ASSUME NEW i \in 2..N, NEW m \in RawMemory PROVE DecodeRecord(m, f[i].rec) \in RawMemory
  <3>1. f[i].rec \in Record /\ WrittenMessage \subseteq WrittenMessage BY DEF Records
  <3>. QED BY <3>1, DecodeType DEF RawMemory
 <2>. QED BY <2>1
<1>2. PICK g \in [0..N -> RawMemory] : Lines(g, N, EmptyMem, step)
 <2> HIDE DEF step
 <2>. QED BY <1>1, StartTypes, LinesExist
<1>3. \A i \in 0..N : g[i] = IF i <= 1 THEN EmptyMem ELSE DecodeRecord(g[i - 1], f[i].rec)
 <2>1. SUFFICES ASSUME NEW i \in 0..N
       PROVE g[i] = IF i <= 1 THEN EmptyMem ELSE DecodeRecord(g[i - 1], f[i].rec)
   OBVIOUS
 <2>2. g[i] = IF i <= 1 THEN EmptyMem ELSE step[i][g[i - 1]]
  <3> HIDE DEF step
  <3>. QED BY <1>2 DEF Lines
 <2>3. i > 1 => i - 1 \in 0..N /\ i \in 2..N OBVIOUS
 <2>4. i > 1 => step[i][g[i - 1]] = DecodeRecord(g[i - 1], f[i].rec) BY <1>2, <2>3
 <2>. QED BY <2>2, <2>4
<1>4. ASSUME NEW n \in 0..N PROVE Replayed(f, n) = g[n]
 <2> DEFINE Is(h) == h = [i \in 0..n |-> IF i <= 1 THEN EmptyMem ELSE DecodeRecord(h[i - 1], f[i].rec)]
            r == [i \in 0..n |-> g[i]]
            h == CHOOSE h : Is(h)
 <2>1. Is(r)
  <3>1. \A i \in 0..n : i \in 0..N /\ (i > 1 => i - 1 \in 0..n) OBVIOUS
  <3>. QED BY <1>3, <3>1
 <2>2. Is(h) BY <2>1
 <2>3. Replayed(f, n) = h[n] BY DEF Replayed
 <2> HIDE DEF h
 <2>4. DOMAIN h = 0..n /\ \A i \in 0..n : h[i] = IF i <= 1 THEN EmptyMem ELSE DecodeRecord(h[i - 1], f[i].rec)
   BY <2>2
 <2> DEFINE T == {i \in Nat : i <= n => h[i] = g[i]}
 <2>5. 0 \in T BY <1>3, <2>4
 <2>6. ASSUME NEW i \in Nat, i \in T PROVE i + 1 \in T
  <3>1. SUFFICES ASSUME i + 1 <= n PROVE h[i + 1] = g[i + 1]
    OBVIOUS
  <3>2. i + 1 \in 0..n /\ i + 1 \in 0..N /\ (i + 1) - 1 = i BY <3>1
  <3>3. h[i] = g[i] BY <2>6, <3>1
  <3>. QED BY <1>3, <2>4, <3>2, <3>3
 <2>7. n \in T
  <3> HIDE DEF T
  <3>. QED BY <2>5, <2>6, Induction
 <2>. QED BY <2>3, <2>7
<1>5. \A n \in 1..N : n \in 0..N /\ n - 1 \in 0..N OBVIOUS
<1>. QED BY <1>2, <1>3, <1>4, <1>5

\* An appended message counts for one.
LEMMA CountAppended ==
    ASSUME NEW s \in Seq(WrittenMessage), NEW id \in Nat, NEW k \in MessageKind
    PROVE  /\ MessageCount(s) \in Nat
           /\ MessageCount(Append(s, Plain(id, k))) = MessageCount(s) + 1
<1> DEFINE A(t) == {i \in 1..Len(t) : t[i].kind = "invalid" /\ t[i].made # "none"}
           x == Plain(id, k)
           t == Append(s, x)
<1>1. x.made = "none" /\ x \in WrittenMessage BY Written DEF Plain
<1>2. Len(t) = Len(s) + 1 /\ t[Len(t)] = x /\ \A i \in 1..Len(s) : t[i] = s[i] BY <1>1
<1>3. A(t) = A(s)
 <2> HIDE DEF t, x
 <2>1. Len(s) \in Nat OBVIOUS
 <2>. QED BY <1>1, <1>2, <2>1
<1>4. Cardinality(A(s)) \in Nat
 <2>1. IsFiniteSet(1..Len(s)) BY FS_Interval
 <2>2. IsFiniteSet(A(s)) BY <2>1, FS_Subset
 <2>. QED BY <2>2, FS_CardinalityType
<1>5. MessageCount(s) = Len(s) + Cardinality(A(s)) /\ MessageCount(t) = Len(t) + Cardinality(A(t))
  BY DEF MessageCount
<1> HIDE DEF t, A
<1>. QED BY <1>2, <1>3, <1>4, <1>5 DEF t

\* No messages, no count.
LEMMA CountEmpty == MessageCount(<<>>) = 0
<1>1. {i \in 1..Len(<<>>) : <<>>[i].kind = "invalid" /\ <<>>[i].made # "none"} = {} OBVIOUS
<1>. QED BY <1>1, FS_EmptySet DEF MessageCount

\* List counts the messages that the records of a file replay to.
LEMMA CountOfReplay ==
    ASSUME NEW f, NEW n \in Nat, Records(f, n)
    PROVE  CountTo(f, n) = MessageCount(Replayed(f, n).messages)
<1> DEFINE r == [i \in 0..n |-> MessageCount(Replayed(f, i).messages)]
           Is(h) == h = [i \in 0..n |-> IF i <= 1 THEN 0 ELSE Counted(h[i - 1], f[i].rec)]
           h == CHOOSE h : Is(h)
<1>1. ASSUME NEW i \in 0..n
      PROVE  r[i] = IF i <= 1 THEN 0 ELSE Counted(r[i - 1], f[i].rec)
 <2>1. CASE i <= 1
  <3>1. n = 0 \/ n >= 1 OBVIOUS
  <3>2. Replayed(f, i) = EmptyMem BY <2>1, ReplayedLines
  <3>. QED BY <2>1, <3>2, CountEmpty DEF EmptyMem
 <2>2. CASE i > 1
  <3>1. i \in 1..n /\ i - 1 \in 0..n /\ f[i].rec \in Record BY <2>2 DEF Records
  <3> DEFINE m == Replayed(f, i - 1)
             x == f[i].rec
  <3>2. m \in RawMemory /\ Replayed(f, i) = DecodeRecord(m, x) BY <2>2, <3>1, ReplayedLines
  <3> HIDE DEF m, x
  <3>3. MessageCount(DecodeRecord(m, x).messages) = Counted(MessageCount(m.messages), x)
   <4>1. x.id \in Nat /\ m.messages \in Seq(WrittenMessage) /\ DOMAIN m = {"messages", "entries", "usage"}
     BY <3>1, <3>2 DEF x, Record, RawMemory, MemoryOf
   <4>2. CASE x.kind \in MessageKind
    <5>1. DecodeRecord(m, x).messages = Append(m.messages, Plain(x.id, x.kind))
      BY <4>1, <4>2 DEF DecodeRecord, MessageKind
    <5>. QED BY <4>1, <4>2, <5>1, CountAppended DEF Counted, MessageKind
   <4>3. CASE x.kind = "compaction" BY <4>1, <4>3 DEF DecodeRecord, Counted, MessageKind
   <4>4. CASE x.kind = "reset" BY <4>4, CountEmpty DEF DecodeRecord, Counted, EmptyMem, MessageKind
   <4>5. CASE x.kind \notin MessageKind \cup {"compaction", "reset"}
    <5>1. DecodeRecord(m, x).messages = m.messages BY <4>1, <4>5 DEF DecodeRecord
    <5>. QED BY <4>5, <5>1 DEF Counted
   <4>. QED BY <4>2, <4>3, <4>4, <4>5
  <3>. QED BY <2>2, <3>1, <3>2, <3>3 DEF m, x
 <2>. QED BY <2>1, <2>2
<1>2. Is(r)
 <2>1. \A i \in 0..n : i > 1 => i - 1 \in 0..n OBVIOUS
 <2> HIDE DEF r
 <2>2. r = [i \in 0..n |-> r[i]] BY DEF r
 <2>. QED BY <1>1, <2>2
<1>3. Is(h) BY <1>2
<1>4. CountTo(f, n) = h[n] BY DEF CountTo
<1> HIDE DEF h
<1>5. \A i \in 0..n : h[i] = IF i <= 1 THEN 0 ELSE Counted(h[i - 1], f[i].rec) BY <1>3
<1> DEFINE T == {i \in Nat : i <= n => h[i] = r[i]}
<1>6. 0 \in T
 <2> HIDE DEF r
 <2>. QED BY <1>1, <1>5
<1>7. ASSUME NEW i \in Nat, i \in T PROVE i + 1 \in T
 <2> HIDE DEF r
 <2>1. SUFFICES ASSUME i + 1 <= n PROVE h[i + 1] = r[i + 1]
   OBVIOUS
 <2>2. i + 1 \in 0..n /\ (i + 1) - 1 = i BY <2>1
 <2>3. h[i] = r[i] BY <1>7, <2>1
 <2>4. h[i + 1] = IF i + 1 <= 1 THEN 0 ELSE Counted(h[i], f[i + 1].rec) BY <1>5, <2>2
 <2>5. r[i + 1] = IF i + 1 <= 1 THEN 0 ELSE Counted(r[i], f[i + 1].rec) BY <1>1, <2>2
 <2>. QED BY <2>3, <2>4, <2>5
<1>8. n \in T
 <2> HIDE DEF T
 <2>. QED BY <1>6, <1>7, Induction
<1>9. h[n] = r[n] BY <1>8
<1>. QED BY <1>4, <1>9

\* Lines with the same records replay to the same.
LEMMA ReplayedSame ==
    ASSUME NEW f, NEW g, NEW n \in Nat, Records(f, n),
           \A i \in 1..n : g[i].rec = f[i].rec
    PROVE  Replayed(g, n) = Replayed(f, n)
<1>1. Records(g, n) BY DEF Records
<1> DEFINE T == {i \in Nat : i <= n => Replayed(g, i) = Replayed(f, i)}
<1>2. 0 \in T BY <1>1, ReplayedLines
<1>3. ASSUME NEW i \in Nat, i \in T PROVE i + 1 \in T
 <2>1. SUFFICES ASSUME i + 1 <= n PROVE Replayed(g, i + 1) = Replayed(f, i + 1)
   OBVIOUS
 <2>2. i + 1 \in 1..n /\ (i + 1) - 1 = i /\ Replayed(g, i) = Replayed(f, i) BY <1>3, <2>1
 <2>3. Replayed(f, i + 1) = IF i + 1 = 1 THEN EmptyMem ELSE DecodeRecord(Replayed(f, i), f[i + 1].rec)
   BY <2>2, ReplayedLines
 <2>4. Replayed(g, i + 1) = IF i + 1 = 1 THEN EmptyMem ELSE DecodeRecord(Replayed(g, i), g[i + 1].rec)
   BY <1>1, <2>2, ReplayedLines
 <2>. QED BY <2>2, <2>3, <2>4
<1>4. n \in T
 <2> HIDE DEF T
 <2>. QED BY <1>2, <1>3, Induction
<1>. QED BY <1>4

\* What a load made up can be told from the rest.
LEMMA UnrepairedType ==
    ASSUME NEW m \in Memory
    PROVE  /\ Unrepaired(m) \in RawMemory
           /\ Unrepaired(m).entries = m.entries /\ Unrepaired(m).usage = m.usage
           /\ Len(Unrepaired(m).messages) = Len(m.messages)
           /\ \A i \in 1..Len(m.messages) :
                 Unrepaired(m).messages[i] =
                    IF m.messages[i].made = "loaded"
                    THEN Plain(m.messages[i].id, m.messages[i].kind) ELSE m.messages[i]
<1> DEFINE s == m.messages
           t == [i \in 1..Len(s) |-> IF s[i].made = "loaded" THEN Plain(s[i].id, s[i].kind) ELSE s[i]]
<1>1. s \in Seq(Message) /\ Len(s) \in Nat /\ \A i \in 1..Len(s) : s[i] \in Message
  BY DEF Memory, MemoryOf
<1>2. \A i \in 1..Len(s) : t[i] \in WrittenMessage BY <1>1 DEF Message, WrittenMessage, Plain
<1>3. t \in Seq(WrittenMessage) /\ Len(t) = Len(s)
 <2>1. t \in [1..Len(s) -> WrittenMessage] BY <1>2, Zenon
 <2> HIDE DEF t
 <2>. QED BY <1>1, <2>1, FunctionIsSeq
<1>4. Unrepaired(m) = [m EXCEPT !.messages = t] BY DEF Unrepaired
<1> HIDE DEF t
<1>5. Unrepaired(m) \in RawMemory /\ Unrepaired(m).messages = t
      /\ Unrepaired(m).entries = m.entries /\ Unrepaired(m).usage = m.usage
  BY <1>3, <1>4 DEF Memory, RawMemory, MemoryOf
<1>. QED BY <1>3, <1>5 DEF t

\* States in memory with the same parts are the same.
LEMMA SameMemory ==
    ASSUME NEW a \in RawMemory, NEW b \in RawMemory,
           a.entries = b.entries, a.usage = b.usage,
           Len(a.messages) = Len(b.messages),
           \A i \in 1..Len(a.messages) : a.messages[i] = b.messages[i]
    PROVE  a = b
<1>1. a.messages = b.messages BY DEF RawMemory, MemoryOf
<1>. QED BY <1>1 DEF RawMemory, MemoryOf

\* The records of a file replay to nothing made up by a load.
LEMMA RawIsUnrepaired ==
    ASSUME NEW m \in RawMemory
    PROVE  m \in Memory /\ Unrepaired(m) = m
<1>1. m \in Memory
 <2>1. Seq(WrittenMessage) \subseteq Seq(Message) BY Written
 <2>. QED BY <2>1 DEF RawMemory, Memory, MemoryOf
<1>2. \A i \in 1..Len(m.messages) : m.messages[i].made # "loaded"
 <2>1. m.messages \in Seq(WrittenMessage) BY DEF RawMemory, MemoryOf
 <2>2. \A i \in 1..Len(m.messages) : m.messages[i] \in WrittenMessage BY <2>1
 <2>. QED BY <2>2 DEF WrittenMessage
<1>. QED BY <1>1, <1>2, UnrepairedType, SameMemory

\* The repair at the end of a load touches only what is made up.
LEMMA RepairType ==
    ASSUME NEW m \in Memory
    PROVE  /\ Repair(m) \in Memory
           /\ Repair(m).messages = Repaired(m.messages)
           /\ Repair(m).entries = m.entries /\ Repair(m).usage = m.usage
           /\ Len(Repaired(m.messages)) = Len(m.messages)
<1> DEFINE s == m.messages
           New(i) == \/ Lacking(s, i) /\ ~UserNext(s, i)
                     \/ i > 1 /\ Lacking(s, i - 1) /\ UserNext(s, i - 1)
           t == Repaired(s)
<1>1. s \in Seq(Message) /\ Len(s) \in Nat /\ \A i \in 1..Len(s) : s[i] \in Message
  BY DEF Memory, MemoryOf
<1>2. t = [i \in 1..Len(s) |-> IF New(i) THEN [s[i] EXCEPT !.made = "loaded"] ELSE s[i]]
  BY DEF Repaired
<1>3. t \in Seq(Message) /\ Len(t) = Len(s)
 <2>1. \A x \in Message : [x EXCEPT !.made = "loaded"] \in Message BY DEF Message
 <2> HIDE DEF New, s, t
 <2>2. \A i \in 1..Len(s) : t[i] \in Message BY <1>1, <1>2, <2>1
 <2>3. t \in [1..Len(s) -> Message] BY <1>2, <2>2
 <2>. QED BY <1>1, <2>3, FunctionIsSeq
<1>4. Repair(m) = [m EXCEPT !.messages = t] BY DEF Repair
<1> HIDE DEF New, t
<1>. QED BY <1>3, <1>4 DEF t, Memory, MemoryOf

\* It leaves no invalid call of a file without results, and changes nothing else.
LEMMA RepairKeeps ==
    ASSUME NEW m \in RawMemory
    PROVE  /\ Unrepaired(Repair(m)) = m
           /\ \A i \in 1..Len(Repair(m).messages) : ~Lacking(Repair(m).messages, i)
<1> DEFINE s == m.messages
           New(i) == \/ Lacking(s, i) /\ ~UserNext(s, i)
                     \/ i > 1 /\ Lacking(s, i - 1) /\ UserNext(s, i - 1)
           t == Repaired(s)
<1>1. s \in Seq(WrittenMessage) /\ Len(s) \in Nat /\ \A i \in 1..Len(s) : s[i] \in WrittenMessage
  BY DEF RawMemory, MemoryOf
<1>2. /\ m \in Memory /\ Repair(m) \in Memory /\ Repair(m).messages = t /\ Len(t) = Len(s)
      /\ Repair(m).entries = m.entries /\ Repair(m).usage = m.usage
  BY RawIsUnrepaired, RepairType
<1>3. \A i \in 1..Len(s) : t[i] = IF New(i) THEN [s[i] EXCEPT !.made = "loaded"] ELSE s[i]
  BY DEF Repaired
<1>4. /\ \A i \in 1..Len(s) : New(i) => s[i].made = "none"
      /\ \A i \in 1..Len(s) : t[i].kind = s[i].kind /\ t[i].made = IF New(i) THEN "loaded" ELSE s[i].made
 <2>1. ASSUME NEW i \in 1..Len(s), New(i) PROVE s[i].made = "none"
   BY <1>1, <2>1 DEF Lacking, UserNext
 <2> HIDE DEF New, t
 <2>2. \A i \in 1..Len(s) : t[i].kind = s[i].kind /\ t[i].made = IF New(i) THEN "loaded" ELSE s[i].made
   BY <1>1, <1>3 DEF WrittenMessage
 <2>. QED BY <2>1, <2>2
<1>5. ASSUME NEW i \in 1..Len(s) PROVE ~Lacking(t, i)
 <2> HIDE DEF t
 <2>1. i < Len(s) => i + 1 \in 1..Len(s) /\ (i + 1) - 1 = i /\ i + 1 > 1 BY <1>1
 <2>2. UserNext(t, i) <=> UserNext(s, i) BY <1>2, <1>4, <2>1 DEF UserNext
 <2>3. SUFFICES ASSUME Lacking(t, i) PROVE FALSE
   OBVIOUS
 <2>4. s[i].kind = "invalid" /\ s[i].made = "none" /\ ~New(i)
  <3> HIDE DEF New
  <3>. QED BY <1>4, <2>3 DEF Lacking
 <2>5. UserNext(s, i) => s[i + 1].kind = "user" /\ s[i + 1].made = "none" /\ ~New(i + 1)
  <3>1. UserNext(s, i) => i < Len(s) BY DEF UserNext
  <3> HIDE DEF New
  <3>. QED BY <1>4, <2>1, <2>2, <2>3, <3>1 DEF Lacking
 <2>6. Lacking(s, i) BY <2>4, <2>5 DEF Lacking
 <2>7. UserNext(s, i) BY <2>4, <2>6
 <2>8. New(i + 1) BY <2>1, <2>6, <2>7 DEF UserNext
 <2>. QED BY <2>5, <2>7, <2>8
<1> HIDE DEF New, t
<1>6. Unrepaired(Repair(m)) = m
 <2>1. \A i \in 1..Len(s) : New(i) => t[i].id = s[i].id /\ Plain(s[i].id, s[i].kind) = s[i]
   BY <1>1, <1>3, <1>4 DEF Plain, WrittenMessage
 <2>2. \A i \in 1..Len(s) : s[i].made # "loaded" BY <1>1 DEF WrittenMessage
 <2>3. \A i \in 1..Len(s) :
          s[i] = IF t[i].made = "loaded" THEN Plain(t[i].id, t[i].kind) ELSE t[i]
   BY <1>3, <1>4, <2>1, <2>2
 <2>. QED BY <1>2, <2>3, UnrepairedType, SameMemory
<1>. QED BY <1>2, <1>5, <1>6

\* A commit does to the memory what a load of the record would, but for what an
\* earlier load has made up.
LEMMA CommitIsDecode ==
    ASSUME NEW m \in Memory, NEW r \in Record, r.kind \in Kind
    PROVE  Unrepaired(Commit(m, r)) = DecodeRecord(Unrepaired(m), r)
<1> DEFINE u == Unrepaired(m)
           c == Commit(m, r)
           d == DecodeRecord(u, r)
<1>1. u \in RawMemory /\ c \in Memory BY UnrepairedType, CommitType
<1>2. d \in RawMemory
 <2>1. WrittenMessage \subseteq WrittenMessage OBVIOUS
 <2>. QED BY <1>1, <2>1, DecodeType DEF RawMemory
<1>3. /\ m.messages \in Seq(Message) /\ Len(u.messages) = Len(m.messages)
      /\ u.messages \in Seq(WrittenMessage) /\ u.entries = m.entries /\ u.usage = m.usage
      /\ DOMAIN m = {"messages", "entries", "usage"} /\ DOMAIN u = {"messages", "entries", "usage"}
  BY <1>1, UnrepairedType DEF Memory, RawMemory, MemoryOf
<1> DEFINE Same == /\ c.entries = d.entries /\ c.usage = d.usage
                   /\ Len(c.messages) = Len(d.messages)
                   /\ \A i \in 1..Len(c.messages) :
                         d.messages[i] = IF c.messages[i].made = "loaded"
                                         THEN Plain(c.messages[i].id, c.messages[i].kind)
                                         ELSE c.messages[i]
<1>4. SUFFICES Same
 <2> HIDE DEF u, c, d
 <2>1. Unrepaired(c) = d BY <1>1, <1>2, <1>4, UnrepairedType, SameMemory
 <2>. QED BY <2>1 DEF u, c, d
<1>5. \A i \in 1..Len(m.messages) :
         u.messages[i] = IF m.messages[i].made = "loaded"
                         THEN Plain(m.messages[i].id, m.messages[i].kind) ELSE m.messages[i]
  BY UnrepairedType
<1> HIDE DEF u
<1>6. CASE r.kind \in MessageKind
 <2> DEFINE x == Plain(r.id, r.kind)
 <2>1. x \in WrittenMessage /\ x \in Message /\ x.made = "none" BY <1>6, Written DEF Record, Plain
 <2>2. c = [m EXCEPT !.messages = Append(m.messages, x)] /\ d = [u EXCEPT !.messages = Append(u.messages, x)]
   BY <1>6 DEF Commit, DecodeRecord, MessageKind
 <2> HIDE DEF x, c, d
 <2>3. /\ c.messages = Append(m.messages, x) /\ c.entries = m.entries /\ c.usage = m.usage
       /\ d.messages = Append(u.messages, x) /\ d.entries = u.entries /\ d.usage = u.usage
   BY <1>3, <2>2
 <2>4. /\ Len(c.messages) = Len(m.messages) + 1 /\ c.messages[Len(m.messages) + 1] = x
       /\ \A i \in 1..Len(m.messages) : c.messages[i] = m.messages[i]
   BY <1>3, <2>1, <2>3
 <2>5. /\ Len(d.messages) = Len(m.messages) + 1 /\ d.messages[Len(m.messages) + 1] = x
       /\ \A i \in 1..Len(m.messages) : d.messages[i] = u.messages[i]
   BY <1>3, <2>1, <2>3
 <2>6. \A i \in 1..Len(c.messages) : i \in 1..Len(m.messages) \/ i = Len(m.messages) + 1
   BY <1>3, <2>4
 <2>. QED BY <1>3, <1>5, <2>1, <2>3, <2>4, <2>5, <2>6
<1>7. CASE r.kind = "compaction"
 <2>1. c = [m EXCEPT !.messages = Compacted(r)] /\ d = [u EXCEPT !.messages = Compacted(r)]
   BY <1>7 DEF Commit, DecodeRecord, MessageKind
 <2>2. \A i \in 1..Len(Compacted(r)) : Compacted(r)[i].made # "loaded"
  <3>1. Compacted(r) \in Seq(WrittenMessage) BY Written
  <3>2. \A i \in 1..Len(Compacted(r)) : Compacted(r)[i] \in WrittenMessage BY <3>1
  <3>. QED BY <3>2 DEF WrittenMessage
 <2> HIDE DEF c, d
 <2>. QED BY <1>3, <2>1, <2>2
<1>8. CASE r.kind = "reset"
 <2>1. c = [m EXCEPT !.messages = <<>>, !.entries = <<>>] /\ d = [EmptyMem EXCEPT !.usage = u.usage]
   BY <1>8 DEF Commit, DecodeRecord, MessageKind
 <2> HIDE DEF c, d
 <2>2. c.messages = <<>> /\ c.entries = <<>> /\ c.usage = m.usage BY <1>3, <2>1
 <2>3. d.messages = <<>> /\ d.entries = <<>> /\ d.usage = m.usage BY <1>3, <2>1 DEF EmptyMem
 <2>. QED BY <2>2, <2>3
<1>9. CASE r.kind = "usage"
 <2>1. c = [m EXCEPT !.usage = Append(m.usage, r.id)] /\ d = [u EXCEPT !.usage = Append(u.usage, r.id)]
   BY <1>9 DEF Commit, DecodeRecord, MessageKind
 <2> HIDE DEF c, d
 <2>. QED BY <1>3, <1>5, <2>1
<1>10. CASE r.kind = "entry"
 <2>1. c = [m EXCEPT !.entries = Append(m.entries, r.id)] /\ d = [u EXCEPT !.entries = Append(u.entries, r.id)]
   BY <1>10 DEF Commit, DecodeRecord, MessageKind
 <2> HIDE DEF c, d
 <2>. QED BY <1>3, <1>5, <2>1
<1>. QED BY <1>6, <1>7, <1>8, <1>9, <1>10 DEF Kind

----------------------------------------
(* Lemmas about the steps of a process.                                    *)

\* A write to a terminated file keeps every content well-shaped.
LEMMA WriteKeepsDisk ==
    ASSUME DiskInv, next \in Nat, Terminated(file),
           NEW r \in Record, r.id < next, file = <<>> => r = Header,
           \A i \in 1..Len(file) : file[i].rec.id < r.id,
           NEW p \in 1..3, WriteFile(r, p), UNCHANGED <<next, acked>>
    PROVE  /\ DiskInv'
           /\ file' \in Seq(Fragment) /\ file' # <<>>
           /\ Len(file') = Len(file) + 1
           /\ \A i \in 1..Len(file) : file'[i] = file[i]
           /\ file'[Len(file')].rec = r
           /\ p = 3 => Terminated(file')
<1> DEFINE W(q) == Append(file, [rec |-> r, part |-> q])
<1>0. Good(file, acked, next) BY DEF DiskInv
<1>1. \A q \in 1..3 : Good(W(q), acked, next) /\ (q = 3 => Terminated(W(q))) BY <1>0, AppendGood
<1>2. file' = W(p) /\ disk' = disk \cup {W(q) : q \in 1..p} BY DEF WriteFile, Partial
<1>3. file \in Seq(Fragment) BY <1>0 DEF Good, Shape
<1>4. [rec |-> r, part |-> p] \in Fragment BY DEF Fragment
<1>5. /\ file' \in Seq(Fragment) /\ file' # <<>>
      /\ Len(file') = Len(file) + 1
      /\ \A i \in 1..Len(file) : file'[i] = file[i]
      /\ file'[Len(file')].rec = r
  BY <1>2, <1>3, <1>4
<1>. HIDE DEF W
<1>6. \A q \in 1..p : q \in 1..3 OBVIOUS
<1>7. DiskInv' BY <1>1, <1>2, <1>6 DEF DiskInv
<1>. QED BY <1>1, <1>2, <1>5, <1>7

\* A truncation that keeps the acknowledged records leaves a clean file.
LEMMA TruncateKeepsDisk ==
    ASSUME DiskInv, NEW m \in 1..Len(file), acked \subseteq IdsTo(file, m),
           \A i \in 1..m : file[i].part = 3,
           Truncate(m), UNCHANGED <<next, acked>>
    PROVE  DiskInv' /\ Terminated(file') /\ file' # <<>>
<1>1. Good(file, acked, next) /\ file \in Seq(Fragment) /\ Len(file) \in Nat
  BY DEF DiskInv, Good, Shape
<1>2. file' = SubSeq(file, 1, m) /\ disk' = disk \cup {SubSeq(file, 1, m)}
  BY <1>1 DEF Truncate, Resize
<1>3. /\ Good(SubSeq(file, 1, m), acked, next)
      /\ Terminated(SubSeq(file, 1, m)) /\ Len(SubSeq(file, 1, m)) = m
 <2>1. m \in 0..Len(file) /\ Shape(file, next) BY <1>1 DEF Good
 <2>. QED BY <2>1, PrefixGood
<1>4. SubSeq(file, 1, m) # <<>> BY <1>1, <1>3
<1>. QED BY <1>2, <1>3, <1>4 DEF DiskInv

\* The types of the file and of the disk follow from their shape.
LEMMA DiskType ==
    ASSUME DiskInv'
    PROVE  file' \in Seq(Fragment) /\ disk' \subseteq Seq(Fragment)
  BY DEF DiskInv, Good, Shape

----------------------------------------
(* The invariant is inductive.                                             *)

\* The initial states have the invariant.
LEMMA InitInv ==
    ASSUME NEW h, Handle = {h}
    PROVE  Init => IInv
<1>. SUFFICES ASSUME Init PROVE IInv
  OBVIOUS
<1>1. TypeOK BY StartTypes, MaxRecordAssumption DEF Init, TypeOK, State, Memory, MemoryOf
<1>2. DiskInv BY EmptyGood DEF Init, DiskInv
<1>3. st[h] = "down" BY DEF Init
<1>4. HandleInv(h)
  BY <1>3 DEF HandleInv, CreateInv, CleanInv, RequestInv, RollbackInv, SyncInv, LoadInv
<1>. QED BY <1>1, <1>2, <1>4 DEF IInv

\* Once the handle is gone only the contents of the file matter.
LEMMA GoneInv ==
    ASSUME NEW h, Handle = {h}, TypeOK, Gone(h), DiskInv', disk' # {}
    PROVE  IInv'
<1>1. TypeOK'
 <2>1. /\ st' \in [Handle -> State] /\ orig' \in [Handle -> Nat]
       /\ pos' \in [Handle -> Nat] /\ next' \in 1..(MaxRecord + 1)
       /\ tail' \in [Handle -> {"none", "truncate", "newline"}]
       /\ acked' \subseteq 0..MaxRecord
   BY DEF Gone, TypeOK, State
 <2>2. req' \in [Handle -> Record] /\ mem' \in [Handle -> Memory]
   BY StartTypes DEF Gone, TypeOK, Memory, MemoryOf
 <2>. QED BY <2>1, <2>2, DiskType DEF TypeOK, Memory, MemoryOf
<1>2. st'[h] = "down" BY DEF Gone, TypeOK
<1>3. HandleInv(h)'
  BY <1>2 DEF HandleInv, CreateInv, CleanInv, RequestInv, RollbackInv, SyncInv, LoadInv
<1>. QED BY <1>1, <1>3 DEF IInv

\* The steps of a creation keep the invariant.
LEMMA CreateStepInv ==
    ASSUME NEW h, Handle = {h}, IInv, CreateStep(h)
    PROVE  IInv'
<1> USE DEF IInv, HandleInv
<1>1. TypeOK /\ DiskInv /\ HandleInv(h) /\ next \in Nat /\ 0 < next
  BY MaxRecordAssumption DEF TypeOK
<1>2. Header \in Record /\ Header.id = 0 BY StartTypes DEF Header
<1>3. \A q \in 1..3 : Good(Append(<<>>, [rec |-> Header, part |-> q]), {}, next) BY <1>1, HeaderGood
<1>4. CASE Create(h)
 <2>1. file' = <<>> /\ disk' = {<<>>} /\ acked' = {} /\ next' = next /\ acked = {}
   BY <1>4 DEF Create
 <2>2. DiskInv' BY <2>1, EmptyGood DEF DiskInv
 <2>3. st' = [st EXCEPT ![h] = "createWrite"] /\ st'[h] = "createWrite"
   BY <1>1, <1>4 DEF Create, Goto, TypeOK
 <2>4. TypeOK' BY <1>1, <1>4, <2>1, <2>2, <2>3, DiskType DEF Create, TypeOK, State
 <2>5. HandleInv(h)'
   BY <2>1, <2>3 DEF CreateInv, CleanInv, RequestInv, RollbackInv, SyncInv, LoadInv
 <2>. QED BY <2>2, <2>4, <2>5
<1>5. CASE CreateWrite(h)
 <2>1. st[h] = "createWrite" /\ file = <<>> /\ acked = {} /\ WriteFile(Header, 3)
   BY <1>1, <1>5 DEF CreateWrite, CreateInv
 <2>2. UNCHANGED <<acked, next>> BY <1>5 DEF CreateWrite
 <2>3. DiskInv' /\ Terminated(file) BY <1>1, <1>2, <2>1, <2>2, WriteKeepsDisk DEF Terminated
 <2>4. file' = <<[rec |-> Header, part |-> 3]>> /\ disk' # {} BY <1>1, <2>1 DEF WriteFile, TypeOK
 <2>5. st' = [st EXCEPT ![h] = "createSync"] /\ st'[h] = "createSync"
   BY <1>1, <1>5 DEF CreateWrite, Goto, TypeOK
 <2>6. TypeOK' BY <1>1, <1>5, <2>3, <2>4, <2>5, DiskType DEF CreateWrite, TypeOK, State
 <2>7. HandleInv(h)'
   BY <2>1, <2>2, <2>4, <2>5
   DEF CreateInv, CleanInv, RequestInv, RollbackInv, SyncInv, LoadInv
 <2>. QED BY <2>3, <2>6, <2>7
<1>6. CASE CreateSync(h)
 <2>1. st[h] = "createSync" /\ file = Append(<<>>, [rec |-> Header, part |-> 3])
   BY <1>1, <1>6 DEF CreateSync, CreateInv
 <2>2. file' = file /\ disk' = {file} /\ next' = next /\ acked' = {0}
   BY <1>1, <1>6, <2>1 DEF CreateSync, Fsync, CreateInv
 <2>3. Terminated(file) /\ file # <<>> BY <2>1 DEF Terminated
 <2>4. 0 \in Ids(file) BY <1>1, <2>1, HeaderGood
 <2>5. DiskInv' BY <1>3, <2>1, <2>2, <2>4 DEF DiskInv, Good
 <2>6. st' = [st EXCEPT ![h] = "idle"] /\ st'[h] = "idle" BY <1>1, <1>6 DEF CreateSync, Goto, TypeOK
 <2>7. TypeOK'
  <3>1. mem' \in [Handle -> Memory]
    BY <1>1, <1>6, StartTypes DEF CreateSync, TypeOK, Memory, MemoryOf
  <3>. QED BY <1>1, <1>6, <2>2, <2>5, <2>6, <3>1, DiskType, MaxRecordAssumption
    DEF CreateSync, TypeOK, State, Memory, MemoryOf
 <2>8. HandleInv(h)'
   BY <2>2, <2>3, <2>6
   DEF CreateInv, CleanInv, RequestInv, RollbackInv, SyncInv, LoadInv, Terminated
 <2>. QED BY <2>5, <2>7, <2>8
<1>7. CASE CreateFails(h)
 <2>1. acked = {} /\ UNCHANGED <<acked, next>> /\ Gone(h)
   BY <1>1, <1>7 DEF CreateFails, CreateInv, Gone
 <2>2. /\ file' = <<>>
       /\ disk' = disk \cup Partial(<<>>, Header, 2) \cup {<<>>}
   BY <1>7 DEF CreateFails
 <2>3. DiskInv' BY <1>1, <1>3, <2>1, <2>2, EmptyGood DEF DiskInv, Partial
 <2>. QED BY <1>1, <2>1, <2>2, <2>3, GoneInv
<1>. QED BY <1>4, <1>5, <1>6, <1>7 DEF CreateStep

\* A step of h that changes neither the file nor the promises.
LEMMA SameDisk ==
    ASSUME DiskInv, UNCHANGED <<file, disk, acked, next>>
    PROVE  DiskInv'
  BY DEF DiskInv

\* A request is a record with the next number.
LEMMA RequestType ==
    ASSUME NEW m \in Seq(Message), NEW r \in Requests(m), next \in Nat
    PROVE  r \in Record /\ r.id = next /\ r.kind \in Kind
<1>1. CASE \E k \in Kind : r = [id |-> next, kind |-> k, kept |-> <<>>] BY <1>1 DEF Record
<1>2. CASE \E i \in Splits(m) :
              r = [id |-> next, kind |-> "compaction", kept |-> AsWritten(SubSeq(m, i, Len(m)))]
 <2>1. PICK i \in Splits(m) :
             r = [id |-> next, kind |-> "compaction", kept |-> AsWritten(SubSeq(m, i, Len(m)))]
   BY <1>2
 <2>2. i \in 2..Len(m) /\ Len(m) \in Nat BY DEF Splits
 <2> DEFINE s == SubSeq(m, i, Len(m))
 <2>3. s \in Seq(Message) BY <2>2
 <2> HIDE DEF s
 <2>4. Len(s) \in Nat /\ \A j \in 1..Len(s) : s[j] \in Message BY <2>3
 <2>5. \A j \in 1..Len(s) :
          (IF s[j].made = "loaded" THEN [s[j] EXCEPT !.made = "written"] ELSE s[j]) \in WrittenMessage
   BY <2>4 DEF Message, WrittenMessage
 <2>6. AsWritten(s) \in Seq(WrittenMessage) BY <2>4, <2>5 DEF AsWritten
 <2>. QED BY <2>1, <2>6 DEF s, Record, Kind
<1>. QED BY <1>1, <1>2 DEF Requests

\* The start of an append keeps the invariant.
LEMMA AppendStartInv ==
    ASSUME NEW h, Handle = {h}, IInv, AppendStart(h)
    PROVE  IInv'
<1>1. TypeOK /\ DiskInv /\ HandleInv(h) /\ next \in Nat /\ next <= MaxRecord
  BY SMTT(40), MaxRecordAssumption DEF IInv, TypeOK, AppendStart
<1>2. st[h] = "idle" /\ file # <<>> /\ Terminated(file) BY <1>1 DEF AppendStart, HandleInv, CleanInv
<1>3. UNCHANGED <<file, disk, acked, pos, tail, mem>> /\ next' = next + 1 BY DEF AppendStart
<1>4. \A f \in disk \cup {file} : Good(f, acked, next + 1) BY <1>1, ShapeMono DEF DiskInv
<1>5. DiskInv' BY <1>3, <1>4 DEF DiskInv
<1>6. st' = [st EXCEPT ![h] = "write"] /\ orig' = [orig EXCEPT ![h] = Len(file)]
  BY DEF AppendStart, Goto
<1>7. st'[h] = "write" /\ orig'[h] = Len(file) BY <1>1, <1>6 DEF TypeOK
<1>8. PICK r \in Requests(mem[h].messages) : req' = [req EXCEPT ![h] = r] BY DEF AppendStart
<1>9. mem[h].messages \in Seq(Message) BY <1>1 DEF TypeOK
<1>10. r \in Record /\ r.id = next /\ r.kind \in Kind BY <1>1, <1>9, RequestType
<1>11. /\ req' \in [Handle -> Record]
       /\ req'[h].id = next /\ req'[h].kind \in Kind
  BY <1>1, <1>8, <1>10 DEF TypeOK
<1>12. Len(file) \in Nat BY <1>1 DEF TypeOK
<1>13. TypeOK'
 <2>1. next' \in 1..(MaxRecord + 1) BY <1>1, <1>3, MaxRecordAssumption DEF TypeOK
 <2>2. st' \in [Handle -> State] /\ orig' \in [Handle -> Nat] BY <1>1, <1>6, <1>12 DEF TypeOK, State
 <2>. QED BY <1>1, <1>3, <1>11, <2>1, <2>2 DEF TypeOK
<1>14. \A i \in 1..Len(file) : file[i].rec.id < next BY <1>1 DEF DiskInv, Good, Shape
<1>15. HandleInv(h)'
  BY <1>2, <1>3, <1>1, <1>7, <1>11, <1>14
  DEF HandleInv, CreateInv, CleanInv, RequestInv, RollbackInv, SyncInv, LoadInv, Terminated
<1>. QED BY <1>5, <1>13, <1>15 DEF IInv

\* What a whole or partial write of the request leaves.
LEMMA RequestWritten ==
    ASSUME NEW h, Handle = {h}, IInv, st[h] = "write",
           NEW p \in 1..3, WriteFile(req[h], p), UNCHANGED <<acked, next>>
    PROVE  /\ DiskInv' /\ disk' # {}
           /\ file' # <<>> /\ Len(file') = orig[h] + 1
           /\ file'[Len(file')].rec = req[h]
           /\ orig[h] \in 1..Len(file')
           /\ acked \subseteq IdsTo(file', orig[h])
           /\ \A i \in 1..orig[h] : file'[i].part = 3
           /\ p = 3 => Terminated(file')
<1>1. TypeOK /\ DiskInv /\ HandleInv(h) /\ next \in Nat BY MaxRecordAssumption DEF IInv, TypeOK
<1>2. /\ file # <<>> /\ Terminated(file) /\ orig[h] = Len(file)
      /\ req[h] \in Record /\ req[h].id < next
      /\ \A i \in 1..Len(file) : file[i].rec.id < req[h].id
  BY <1>1 DEF HandleInv, CleanInv, RequestInv, TypeOK
<1>3. /\ DiskInv' /\ file' \in Seq(Fragment) /\ file' # <<>>
      /\ Len(file') = Len(file) + 1
      /\ \A i \in 1..Len(file) : file'[i] = file[i]
      /\ file'[Len(file')].rec = req[h]
      /\ p = 3 => Terminated(file')
  BY <1>1, <1>2, WriteKeepsDisk
<1>4. file \in Seq(Fragment) /\ Len(file) \in Nat /\ Len(file) >= 1 BY <1>1, <1>2 DEF TypeOK
<1>5. Kept(file) = Len(file) /\ acked \subseteq Ids(file)
  BY <1>1, <1>2, <1>4, LoadOfShape DEF DiskInv, Good, Terminated
<1>6. acked \subseteq IdsTo(file', orig[h]) BY <1>2, <1>3, <1>5 DEF Ids, IdsTo
<1>7. disk' # {} BY <1>1 DEF TypeOK, WriteFile
<1>. QED BY <1>2, <1>3, <1>4, <1>6, <1>7 DEF Terminated

\* The steps of an append keep the invariant.
LEMMA AppendStepInv ==
    ASSUME NEW h, Handle = {h}, IInv, AppendStep(h)
    PROVE  IInv'
<1>1. TypeOK /\ DiskInv /\ HandleInv(h) /\ next \in Nat BY MaxRecordAssumption DEF IInv, TypeOK
<1>2. Good(file, acked, next) /\ file \in Seq(Fragment) /\ Len(file) \in Nat
  BY <1>1 DEF DiskInv, TypeOK
<1>3. CASE AppendWrite(h)
 <2>1. st[h] = "write" /\ WriteFile(req[h], 3) /\ UNCHANGED <<orig, req, acked, next>>
   BY <1>3 DEF AppendWrite
 <2>2. /\ DiskInv' /\ disk' # {}
       /\ file' # <<>> /\ Len(file') = orig[h] + 1
       /\ file'[Len(file')].rec = req[h]
       /\ orig[h] \in 1..Len(file')
       /\ acked \subseteq IdsTo(file', orig[h])
       /\ \A i \in 1..orig[h] : file'[i].part = 3
       /\ Terminated(file')
   BY <2>1, RequestWritten
 <2>3. st' = [st EXCEPT ![h] = "sync"] /\ st'[h] = "sync"
   BY <1>1, <1>3 DEF AppendWrite, Goto, TypeOK
 <2>4. TypeOK' BY <1>1, <1>3, <2>2, <2>3, DiskType DEF AppendWrite, TypeOK, State
 <2>5. HandleInv(h)'
   BY <1>1, <2>1, <2>2, <2>3
   DEF HandleInv, CreateInv, CleanInv, RequestInv, RollbackInv, SyncInv, LoadInv
 <2>. QED BY <2>2, <2>4, <2>5 DEF IInv
<1>4. CASE AppendWriteFails(h)
 <2>1. st[h] = "write" /\ UNCHANGED <<orig, req, acked, next>> BY <1>4 DEF AppendWriteFails
 <2>2. /\ DiskInv' /\ disk' # {}
       /\ orig[h] \in 1..Len(file') /\ Len(file') <= orig[h] + 1
       /\ acked \subseteq IdsTo(file', orig[h])
       /\ \A i \in 1..orig[h] : file'[i].part = 3
  <3>1. CASE UNCHANGED <<file, disk>>
   <4>1. file # <<>> /\ Terminated(file) /\ orig[h] = Len(file)
     BY <1>1, <2>1 DEF HandleInv, CleanInv, RequestInv
   <4>2. Kept(file) = Len(file) BY <1>2, <4>1, LoadOfShape DEF Good, Terminated
   <4>3. acked \subseteq IdsTo(file, orig[h]) BY <1>2, <4>1, <4>2 DEF Good, Ids, IdsTo
   <4>4. DiskInv' BY <1>1, <2>1, <3>1, SameDisk
   <4>5. disk' # {} /\ file' = file BY <1>1, <3>1 DEF TypeOK
   <4>. QED BY <1>1, <1>2, <2>1, <3>1, <4>1, <4>3, <4>4, <4>5 DEF Terminated
  <3>2. CASE \E p \in 1..2 : WriteFile(req[h], p)
   <4>1. PICK p \in 1..2 : WriteFile(req[h], p) BY <3>2
   <4>2. p \in 1..3 OBVIOUS
   <4>3. /\ DiskInv' /\ disk' # {} /\ Len(file') = orig[h] + 1
         /\ orig[h] \in 1..Len(file')
         /\ acked \subseteq IdsTo(file', orig[h])
         /\ \A i \in 1..orig[h] : file'[i].part = 3
     BY <2>1, <4>1, <4>2, RequestWritten
   <4>. QED BY <4>3
  <3>. QED BY <1>4, <3>1, <3>2 DEF AppendWriteFails
 <2>3. st' = [st EXCEPT ![h] = "truncate"] /\ st'[h] = "truncate"
   BY <1>1, <1>4 DEF AppendWriteFails, Goto, TypeOK
 <2>4. TypeOK' BY <1>1, <1>4, <2>2, <2>3, DiskType DEF AppendWriteFails, TypeOK, State
 <2>5. HandleInv(h)'
   BY <2>1, <2>2, <2>3
   DEF HandleInv, CreateInv, CleanInv, RequestInv, RollbackInv, SyncInv, LoadInv
 <2>. QED BY <2>2, <2>4, <2>5 DEF IInv
<1>5. CASE AppendSync(h)
 <2>1. /\ st[h] = "sync" /\ file' = file /\ disk' = {file} /\ next' = next
       /\ acked' = acked \cup {req[h].id}
   BY <1>5 DEF AppendSync, Fsync
 <2>2. /\ Terminated(file) /\ file # <<>> /\ file[Len(file)].rec = req[h]
       /\ req[h].kind \in Kind
   BY <1>1, <2>1 DEF HandleInv, CleanInv, SyncInv, RequestInv
 <2>3. Kept(file) = Len(file) BY <1>2, <2>2, LoadOfShape DEF Good, Terminated
 <2>4. req[h].id \in Ids(file) BY <1>2, <2>2, <2>3 DEF Ids
 <2>5. DiskInv' BY <1>2, <2>1, <2>4 DEF DiskInv, Good
 <2>6. st' = [st EXCEPT ![h] = "idle"] /\ st'[h] = "idle" BY <1>1, <1>5 DEF AppendSync, Goto, TypeOK
 <2>7. req[h].id \in 0..MaxRecord
  <3>1. req[h].id < next /\ req[h] \in Record BY <1>2, <2>2 DEF Good, Shape
  <3>. QED BY <1>1, <3>1, MaxRecordAssumption DEF TypeOK, Record
 <2>8. TypeOK'
  <3>1. mem' \in [Handle -> Memory]
   <4>1. mem[h] \in Memory /\ req[h] \in Record BY <1>1 DEF TypeOK, Memory, MemoryOf
   <4>2. Commit(mem[h], req[h]) \in Memory BY <2>2, <4>1, CommitType
   <4>3. mem' = [mem EXCEPT ![h] = Commit(mem[h], req[h])] BY <1>5 DEF AppendSync
   <4>. QED BY <1>1, <4>2, <4>3 DEF TypeOK, Memory, MemoryOf
  <3>. QED BY <1>1, <1>5, <2>1, <2>5, <2>6, <2>7, <3>1, DiskType
    DEF AppendSync, TypeOK, State, Memory, MemoryOf
 <2>9. HandleInv(h)'
   BY <2>1, <2>2, <2>6
   DEF HandleInv, CreateInv, CleanInv, RequestInv, RollbackInv, SyncInv, LoadInv, Terminated
 <2>. QED BY <2>5, <2>8, <2>9 DEF IInv
<1>6. CASE AppendSyncFails(h)
 <2>1. st[h] = "sync" /\ UNCHANGED <<file, disk, orig, req, acked, next>>
   BY <1>6 DEF AppendSyncFails
 <2>2. st' = [st EXCEPT ![h] = "truncate"] /\ st'[h] = "truncate"
   BY <1>1, <1>6 DEF AppendSyncFails, Goto, TypeOK
 <2>3. DiskInv' BY <1>1, <2>1, SameDisk
 <2>4. TypeOK' BY <1>1, <1>6, <2>2 DEF AppendSyncFails, TypeOK, State
 <2>5. HandleInv(h)'
   BY <1>1, <2>1, <2>2
   DEF HandleInv, CreateInv, CleanInv, RequestInv, RollbackInv, SyncInv, LoadInv
 <2>. QED BY <2>3, <2>4, <2>5 DEF IInv
<1>7. CASE RollbackTruncate(h)
 <2>1. st[h] = "truncate" /\ Truncate(orig[h]) /\ UNCHANGED <<orig, req, acked, next>>
   BY <1>7 DEF RollbackTruncate
 <2>2. /\ orig[h] \in 1..Len(file) /\ acked \subseteq IdsTo(file, orig[h])
       /\ \A i \in 1..orig[h] : file[i].part = 3
   BY <1>1, <2>1 DEF HandleInv, RollbackInv
 <2>3. DiskInv' /\ Terminated(file') /\ file' # <<>> /\ disk' # {}
   BY <1>1, <2>1, <2>2, TruncateKeepsDisk DEF Truncate
 <2>4. st' = [st EXCEPT ![h] = "resync"] /\ st'[h] = "resync"
   BY <1>1, <1>7 DEF RollbackTruncate, Goto, TypeOK
 <2>5. TypeOK' BY <1>1, <1>7, <2>3, <2>4, DiskType DEF RollbackTruncate, TypeOK, State
 <2>6. HandleInv(h)'
   BY <2>3, <2>4
   DEF HandleInv, CreateInv, CleanInv, RequestInv, RollbackInv, SyncInv, LoadInv, Terminated
 <2>. QED BY <2>3, <2>5, <2>6 DEF IInv
<1>8. CASE RollbackSync(h)
 <2>1. st[h] = "resync" /\ file' = file /\ disk' = {file} /\ UNCHANGED <<acked, next>>
   BY <1>8 DEF RollbackSync, Fsync
 <2>2. st' = [st EXCEPT ![h] = "idle"] /\ st'[h] = "idle"
   BY <1>1, <1>8 DEF RollbackSync, Goto, TypeOK
 <2>3. DiskInv' BY <1>2, <2>1 DEF DiskInv
 <2>4. TypeOK' BY <1>1, <1>8, <2>1, <2>2, <2>3, DiskType DEF RollbackSync, TypeOK, State
 <2>5. HandleInv(h)'
   BY <1>1, <2>1, <2>2
   DEF HandleInv, CreateInv, CleanInv, RequestInv, RollbackInv, SyncInv, LoadInv, Terminated
 <2>. QED BY <2>3, <2>4, <2>5 DEF IInv
<1>9. CASE RollbackFails(h)
 <2>1. Gone(h) /\ UNCHANGED <<file, disk, acked, next>> BY <1>9 DEF RollbackFails, Gone
 <2>2. disk' # {} /\ DiskInv' BY <1>1, <2>1, SameDisk DEF TypeOK
 <2>. QED BY <1>1, <2>1, <2>2, GoneInv
<1>. QED BY <1>3, <1>4, <1>5, <1>6, <1>7, <1>8, <1>9, AppendStartInv DEF AppendStep

\* The steps of a load keep the invariant.
LEMMA LoadStepInv ==
    ASSUME NEW h, Handle = {h}, IInv, LoadStep(h)
    PROVE  IInv'
<1>1. TypeOK /\ DiskInv /\ HandleInv(h) /\ next \in Nat BY MaxRecordAssumption DEF IInv, TypeOK
<1>2. Shape(file, next) /\ acked \subseteq Ids(file)
      /\ file \in Seq(Fragment) /\ Len(file) \in Nat /\ (file = <<>> <=> Len(file) = 0)
  BY <1>1 DEF DiskInv, TypeOK, Good
<1>3. /\ Kept(file) = IF file # <<>> /\ file[Len(file)].part = 1
                      THEN Len(file) - 1 ELSE Len(file)
      /\ Recovery(file) = "truncate" <=> file # <<>> /\ file[Len(file)].part = 1
      /\ Recovery(file) = "newline" <=> file # <<>> /\ file[Len(file)].part = 2
      /\ Recovery(file) = "none" <=> Terminated(file)
      /\ Recovery(file) \in {"none", "truncate", "newline"}
      /\ Kept(file) \in 0..Len(file)
  BY <1>2, LoadOfShape
<1>4. CASE LoadOpen(h)
 <2>1. UNCHANGED <<file, disk, acked, next, req>> BY <1>4 DEF LoadOpen
 <2>2. /\ st' = [st EXCEPT ![h] = "decode"] /\ st'[h] = "decode"
       /\ tail' = [tail EXCEPT ![h] = Recovery(file)] /\ tail'[h] = Recovery(file)
       /\ orig' = [orig EXCEPT ![h] = Kept(file)] /\ orig'[h] = Kept(file)
       /\ pos' = [pos EXCEPT ![h] = 0] /\ pos'[h] = 0
       /\ mem' = [mem EXCEPT ![h] = EmptyMem]
   BY <1>1, <1>4 DEF LoadOpen, Goto, TypeOK
 <2>3. DiskInv' BY <1>1, <2>1, SameDisk
 <2>4. TypeOK'
  <3>1. mem' \in [Handle -> Memory] BY <1>1, <2>2, StartTypes DEF TypeOK, Memory, MemoryOf
  <3>. QED BY SMTT(40), <1>1, <1>3, <2>1, <2>2, <3>1 DEF TypeOK, State, Memory, MemoryOf
 <2>5. HandleInv(h)'
   BY <1>3, <2>1, <2>2
   DEF HandleInv, CreateInv, CleanInv, RequestInv, RollbackInv, SyncInv, LoadInv
 <2>. QED BY <2>3, <2>4, <2>5 DEF IInv
<1>5. CASE LoadLine(h)
 <2>1. /\ UNCHANGED <<file, disk, acked, next, req, st, orig, tail>>
       /\ st[h] = "decode" /\ pos' = [pos EXCEPT ![h] = pos[h] + 1]
       /\ pos[h] + 1 <= orig[h] /\ pos[h] + 1 <= Len(file)
   BY <1>5 DEF LoadLine
 <2>2. DiskInv' BY <1>1, <2>1, SameDisk
 <2>3. pos[h] \in Nat /\ pos' \in [Handle -> Nat] /\ pos'[h] = pos[h] + 1 BY <1>1, <2>1 DEF TypeOK
 <2>4. mem' \in [Handle -> Memory]
  <3>1. CASE pos[h] + 1 > 1
   <4>1. mem' = [mem EXCEPT ![h] = DecodeRecord(mem[h], file[pos[h] + 1].rec)]
     BY <1>5, <3>1 DEF LoadLine
   <4>2. mem[h] \in Memory /\ file[pos[h] + 1].rec \in Record
     BY <1>1, <1>2, <2>1, <2>3 DEF TypeOK, Memory, MemoryOf, Shape
   <4>3. DecodeRecord(mem[h], file[pos[h] + 1].rec) \in Memory
     BY <4>2, Written, DecodeType DEF Memory
   <4>. QED BY <1>1, <4>1, <4>3 DEF TypeOK, Memory, MemoryOf
  <3>2. CASE pos[h] + 1 = 1 BY <1>1, <1>5, <3>2 DEF LoadLine, TypeOK, Memory, MemoryOf
  <3>. QED BY <2>3, <3>1, <3>2
 <2>5. TypeOK' BY <1>1, <2>1, <2>3, <2>4 DEF TypeOK, Memory, MemoryOf
 <2>6. HandleInv(h)'
   BY <1>1, <2>1, <2>3
   DEF HandleInv, CreateInv, CleanInv, RequestInv, RollbackInv, SyncInv, LoadInv
 <2>. QED BY <2>2, <2>5, <2>6 DEF IInv
<1>6. CASE LoadDone(h)
 <2>1. /\ UNCHANGED <<file, disk, orig, pos, tail, req, next, acked>>
       /\ mem' = [mem EXCEPT ![h] = Repair(mem[h])]
       /\ st[h] = "decode" /\ pos[h] > 0
       /\ pos[h] = orig[h] \/ pos[h] >= Len(file)
   BY <1>6 DEF LoadDone
 <2>2. orig[h] = Kept(file) /\ tail[h] = Recovery(file) /\ pos[h] <= orig[h]
       /\ pos[h] \in Nat
   BY <1>1, <2>1 DEF HandleInv, LoadInv, TypeOK
 <2>3. Kept(file) > 0 /\ file # <<>> BY <1>2, <1>3, <2>1, <2>2
 <2>4. DiskInv' BY <1>1, <2>1, SameDisk
 <2>5. mem' \in [Handle -> Memory]
  <3>1. Repair(mem[h]) \in Memory BY <1>1, RepairType DEF TypeOK, Memory, MemoryOf
  <3>. QED BY <1>1, <2>1, <3>1 DEF TypeOK, Memory, MemoryOf
 <2>6. CASE tail[h] = "truncate"
  <3>1. st' = [st EXCEPT ![h] = "loadTruncate"] /\ st'[h] = "loadTruncate"
    BY <1>1, <1>6, <2>6 DEF LoadDone, Goto, TypeOK
  <3>2. HandleInv(h)'
    BY <2>1, <2>2, <2>3, <2>6, <3>1
    DEF HandleInv, CreateInv, CleanInv, RequestInv, RollbackInv, SyncInv, LoadInv
  <3>. QED BY <1>1, <2>1, <2>4, <2>5, <3>1, <3>2 DEF IInv, TypeOK, State, Memory, MemoryOf
 <2>7. CASE tail[h] = "newline"
  <3>1. st' = [st EXCEPT ![h] = "loadNewline"] /\ st'[h] = "loadNewline"
    BY <1>1, <1>6, <2>7 DEF LoadDone, Goto, TypeOK
  <3>2. HandleInv(h)'
    BY <2>1, <2>2, <2>7, <3>1
    DEF HandleInv, CreateInv, CleanInv, RequestInv, RollbackInv, SyncInv, LoadInv
  <3>. QED BY <1>1, <2>1, <2>4, <2>5, <3>1, <3>2 DEF IInv, TypeOK, State, Memory, MemoryOf
 <2>8. CASE tail[h] = "none"
  <3>1. st' = [st EXCEPT ![h] = "idle"] /\ st'[h] = "idle"
    BY <1>1, <1>6, <2>8 DEF LoadDone, Goto, TypeOK
  <3>2. Terminated(file) BY <1>3, <2>2, <2>8
  <3>3. HandleInv(h)'
    BY <2>1, <2>3, <3>1, <3>2
    DEF HandleInv, CreateInv, CleanInv, RequestInv, RollbackInv, SyncInv, LoadInv, Terminated
  <3>. QED BY <1>1, <2>1, <2>4, <2>5, <3>1, <3>3 DEF IInv, TypeOK, State, Memory, MemoryOf
 <2>. QED BY <1>1, <2>6, <2>7, <2>8 DEF TypeOK
<1>7. CASE LoadTruncate(h)
 <2>1. st[h] = "loadTruncate" /\ Truncate(orig[h]) /\ UNCHANGED <<acked, next>>
   BY <1>7 DEF LoadTruncate
 <2>2. Recovery(file) = "truncate" /\ orig[h] = Kept(file) /\ orig[h] > 0
   BY <1>1, <2>1 DEF HandleInv, LoadInv
 <2>3. /\ orig[h] \in 1..Len(file) /\ acked \subseteq IdsTo(file, orig[h])
       /\ \A i \in 1..orig[h] : file[i].part = 3
   BY <1>2, <1>3, <2>2 DEF Shape, Ids, IdsTo
 <2>4. DiskInv' /\ Terminated(file') /\ file' # <<>> /\ disk' # {}
   BY <1>1, <2>1, <2>3, TruncateKeepsDisk DEF Truncate
 <2>5. st' = [st EXCEPT ![h] = "loadSync"] /\ st'[h] = "loadSync"
   BY <1>1, <1>7 DEF LoadTruncate, Goto, TypeOK
 <2>6. TypeOK' BY <1>1, <1>7, <2>4, <2>5, DiskType DEF LoadTruncate, TypeOK, State
 <2>7. HandleInv(h)'
   BY <2>4, <2>5
   DEF HandleInv, CreateInv, CleanInv, RequestInv, RollbackInv, SyncInv, LoadInv, Terminated
 <2>. QED BY <2>4, <2>6, <2>7 DEF IInv
<1>8. CASE LoadNewline(h)
 <2>1. st[h] = "loadNewline" /\ UNCHANGED <<acked, next>> BY <1>8 DEF LoadNewline
 <2>2. file # <<>> /\ file[Len(file)].part = 2 BY <1>1, <1>3, <2>1 DEF HandleInv, LoadInv
 <2>3. /\ file' = [file EXCEPT ![Len(file)].part = 3]
       /\ disk' = disk \cup {[file EXCEPT ![Len(file)].part = 3]}
   BY <1>8, <2>2 DEF LoadNewline
 <2>4. /\ Good([file EXCEPT ![Len(file)].part = 3], acked, next)
       /\ Terminated([file EXCEPT ![Len(file)].part = 3])
       /\ [file EXCEPT ![Len(file)].part = 3] # <<>>
   BY <1>2, <2>2, NewlineGood DEF Good
 <2>5. DiskInv' /\ Terminated(file') /\ file' # <<>> /\ disk' # {}
   BY <1>1, <2>1, <2>3, <2>4 DEF DiskInv
 <2>6. st' = [st EXCEPT ![h] = "loadSync"] /\ st'[h] = "loadSync"
   BY <1>1, <1>8 DEF LoadNewline, Goto, TypeOK
 <2>7. TypeOK' BY <1>1, <1>8, <2>5, <2>6, DiskType DEF LoadNewline, TypeOK, State
 <2>8. HandleInv(h)'
   BY <2>5, <2>6
   DEF HandleInv, CreateInv, CleanInv, RequestInv, RollbackInv, SyncInv, LoadInv, Terminated
 <2>. QED BY <2>5, <2>7, <2>8 DEF IInv
<1>9. CASE LoadSync(h)
 <2>1. st[h] = "loadSync" /\ file' = file /\ disk' = {file} /\ UNCHANGED <<acked, next>>
   BY <1>9 DEF LoadSync, Fsync
 <2>2. st' = [st EXCEPT ![h] = "idle"] /\ st'[h] = "idle" BY <1>1, <1>9 DEF LoadSync, Goto, TypeOK
 <2>3. DiskInv' BY <1>2, <2>1 DEF DiskInv, Good
 <2>4. TypeOK' BY <1>1, <1>9, <2>1, <2>2, <2>3, DiskType DEF LoadSync, TypeOK, State
 <2>5. HandleInv(h)'
   BY <1>1, <2>1, <2>2
   DEF HandleInv, CreateInv, CleanInv, RequestInv, RollbackInv, SyncInv, LoadInv, Terminated
 <2>. QED BY <2>3, <2>4, <2>5 DEF IInv
<1>10. CASE LoadFails(h)
 <2>1. Gone(h) /\ UNCHANGED <<file, disk, acked, next>> BY <1>10 DEF LoadFails, Gone
 <2>2. disk' # {} /\ DiskInv' BY <1>1, <2>1, SameDisk DEF TypeOK
 <2>. QED BY <1>1, <2>1, <2>2, GoneInv
<1>. QED BY <1>4, <1>5, <1>6, <1>7, <1>8, <1>9, <1>10 DEF LoadStep

\* A kill keeps the invariant.
LEMMA KillInv ==
    ASSUME NEW h, Handle = {h}, IInv, Kill(h)
    PROVE  IInv'
<1>1. TypeOK /\ DiskInv /\ HandleInv(h) /\ next \in Nat /\ 0 < next
  BY MaxRecordAssumption DEF IInv, TypeOK
<1>2. Gone(h) /\ UNCHANGED <<acked, next>> BY DEF Kill, Gone
<1>3. CASE UNCHANGED <<file, disk>>
 <2>1. disk' # {} /\ DiskInv' BY <1>1, <1>2, <1>3, SameDisk DEF TypeOK
 <2>. QED BY <1>1, <1>2, <2>1, GoneInv
<1>4. CASE st[h] = "write" /\ \E p \in 1..3 : WriteFile(req[h], p)
 <2>1. disk' # {} /\ DiskInv' BY <1>2, <1>4, RequestWritten
 <2>. QED BY <1>1, <1>2, <2>1, GoneInv
<1>5. CASE st[h] = "createWrite" /\ \E p \in 1..3 : WriteFile(Header, p)
 <2>1. PICK p \in 1..3 : WriteFile(Header, p) BY <1>5
 <2>2. file = <<>> /\ Terminated(file) BY <1>1, <1>5 DEF HandleInv, CreateInv, Terminated
 <2>3. Header \in Record /\ Header.id < next BY <1>1, StartTypes DEF Header
 <2>4. \A i \in 1..Len(file) : file[i].rec.id < Header.id BY <2>2
 <2>5. DiskInv' BY <1>1, <1>2, <2>1, <2>2, <2>3, <2>4, WriteKeepsDisk
 <2>6. disk' # {} BY <1>1, <2>1 DEF WriteFile, TypeOK
 <2>. QED BY <1>1, <1>2, <2>5, <2>6, GoneInv
<1>. QED BY <1>3, <1>4, <1>5 DEF Kill

\* A close keeps the invariant.
LEMMA CloseInv ==
    ASSUME NEW h, Handle = {h}, IInv, Close(h)
    PROVE  IInv'
<1>1. TypeOK /\ DiskInv BY DEF IInv
<1>2. Gone(h) /\ UNCHANGED <<acked, next>> BY DEF Close, Gone
<1>3. disk' # {} /\ DiskInv'
 <2>1. CASE Fsync BY <1>1, <1>2, <2>1 DEF Fsync, DiskInv
 <2>2. CASE UNCHANGED <<file, disk>> BY <1>1, <1>2, <2>2, SameDisk DEF TypeOK
 <2>. QED BY <2>1, <2>2 DEF Close
<1>. QED BY <1>1, <1>2, <1>3, GoneInv

\* A power loss keeps the invariant.
LEMMA PowerLossInv ==
    ASSUME NEW h, Handle = {h}, IInv, PowerLoss
    PROVE  IInv'
<1>1. TypeOK /\ DiskInv BY DEF IInv
<1>2. UNCHANGED <<acked, next>> /\ file' \in disk /\ disk' = {file'} BY DEF PowerLoss
<1>3. disk' # {} /\ DiskInv' BY <1>1, <1>2 DEF DiskInv
<1>4. Gone(h) BY <1>1, <1>2 DEF PowerLoss, Gone, TypeOK
<1>. QED BY <1>1, <1>3, <1>4, GoneInv

\* Every step keeps the invariant.
LEMMA NextInv ==
    ASSUME NEW h, Handle = {h}, IInv, [Next]_vars
    PROVE  IInv'
<1>1. CASE CreateStep(h) BY <1>1, CreateStepInv
<1>2. CASE AppendStep(h) BY <1>2, AppendStepInv
<1>3. CASE Close(h) BY <1>3, CloseInv
<1>4. CASE LoadStep(h) BY <1>4, LoadStepInv
<1>5. CASE Kill(h) BY <1>5, KillInv
<1>6. CASE PowerLoss BY <1>6, PowerLossInv
<1>7. CASE UNCHANGED vars
 <2>1. TypeOK' /\ DiskInv' BY <1>7 DEF vars, IInv, TypeOK, DiskInv
 <2>2. HandleInv(h)'
   BY <1>7 DEF vars, IInv, HandleInv, CreateInv, CleanInv, RequestInv,
               RollbackInv, SyncInv, LoadInv, Terminated
 <2>. QED BY <2>1, <2>2 DEF IInv
<1>. QED BY <1>1, <1>2, <1>3, <1>4, <1>5, <1>6, <1>7 DEF Next

\* The invariant implies the properties.
LEMMA InvImplies ==
    ASSUME NEW h, Handle = {h}, IInv
    PROVE  TypeOK /\ AckedSurvive /\ NeverDamaged
<1>1. TypeOK /\ DiskInv BY DEF IInv
<1>2. AckedSurvive BY <1>1 DEF DiskInv, Good, AckedSurvive
<1>3. ASSUME acked # {}, NEW f \in disk \cup {file}
      PROVE  Recoverable(f)
 <2>1. Shape(f, next) /\ acked \subseteq Ids(f) /\ f \in Seq(Fragment) /\ Len(f) \in Nat
   BY <1>1 DEF DiskInv, Good, Shape
 <2>2. Kept(f) \in 0..Len(f) /\ Kept(f) > 0
  <3>1. Ids(f) # {} BY <1>3, <2>1
  <3>. QED BY <2>1, <3>1, LoadOfShape DEF Ids
 <2>3. f # <<>> /\ f[1].rec = Header BY <2>1, <2>2 DEF Shape
 <2>4. TailStart(f) \in 0..Len(f) /\ \A i \in 1..TailStart(f) : f[i].part = 3
  <3>1. TailStart(f) = IF f = <<>> \/ f[Len(f)].part = 3 THEN Len(f) ELSE Len(f) - 1
    BY <2>1, TailStartOfShape
  <3>2. CASE f[Len(f)].part = 3 BY <2>1, <2>3, <3>1, <3>2 DEF Shape
  <3>3. CASE f[Len(f)].part # 3 BY <2>1, <2>2, <2>3, <3>1, <3>3 DEF Shape
  <3>. QED BY <3>2, <3>3
 <2>5. \A i \in 1..TailStart(f) : f[i].rec # Hole
  <3>1. Hole \notin Record BY DEF Hole, Record, Kind, MessageKind
  <3>. QED BY <2>1, <2>4, <3>1 DEF Shape
 <2>. QED BY <2>2, <2>3, <2>4, <2>5 DEF Recoverable
<1>. QED BY <1>1, <1>2, <1>3 DEF NeverDamaged

----------------------------------------
(* What the process has in memory is what a load of the file would replay, *)
(* but for what its own load made up: all of it between two appends, and   *)
(* the lines before the record that is being appended, or those already    *)
(* decoded, in the middle of one.                                          *)

MemoryInv(h) ==
    /\ st[h] \in {"idle", "write", "resync", "loadTruncate", "loadNewline", "loadSync"} =>
          Unrepaired(mem[h]) = Replayed(file, Kept(file))
    /\ st[h] \in {"sync", "truncate"} => Unrepaired(mem[h]) = Replayed(file, orig[h])
    /\ st[h] = "sync" => Len(file) = orig[h] + 1
    /\ st[h] = "decode" => mem[h] = Replayed(file, pos[h])

\* What the shape of a file says of its records.
LEMMA LoadOfContent ==
    ASSUME NEW f, NEW n, Shape(f, n)
    PROVE  /\ f \in Seq(Fragment) /\ Len(f) \in Nat /\ (f # <<>> <=> Len(f) > 0)
           /\ \A k \in 0..Len(f) : Records(f, k)
           /\ Kept(f) \in 0..Len(f) /\ (Terminated(f) => Kept(f) = Len(f))
<1>1. f \in Seq(Fragment) /\ Len(f) \in Nat /\ (f # <<>> <=> Len(f) > 0) BY DEF Shape
<1>2. \A k \in 0..Len(f) : Records(f, k) BY <1>1 DEF Shape, Records
<1>3. Kept(f) \in 0..Len(f) /\ (Terminated(f) => Kept(f) = Len(f))
  BY <1>1, LoadOfShape DEF Terminated
<1>. QED BY <1>1, <1>2, <1>3

\* A handle that is in no step with the file has nothing to agree on.
LEMMA NoMemory ==
    ASSUME NEW h, st'[h] \in {"down", "createWrite", "createSync"}
    PROVE  MemoryInv(h)'
  BY DEF MemoryInv

\* The steps of an append keep the memory that of a load.
LEMMA AppendMemory ==
    ASSUME NEW h, Handle = {h}, IInv, IInv', MemoryInv(h), AppendStep(h)
    PROVE  MemoryInv(h)'
<1>0. TypeOK /\ TypeOK' /\ Shape(file, next) /\ Shape(file', next') /\ HandleInv(h) /\ HandleInv(h)'
  BY DEF IInv, DiskInv, Good
<1>1. /\ file \in Seq(Fragment) /\ Len(file) \in Nat /\ \A k \in 0..Len(file) : Records(file, k)
      /\ Kept(file) \in 0..Len(file) /\ (Terminated(file) => Kept(file) = Len(file))
      /\ Terminated(file') => Kept(file') = Len(file')
  BY <1>0, LoadOfContent
<1>2. CASE AppendStart(h)
 <2>1. st[h] = "idle" /\ UNCHANGED <<file, mem>> /\ st'[h] = "write"
   BY <1>0, <1>2 DEF AppendStart, Goto, TypeOK
 <2>2. Replayed(file', Kept(file')) = Replayed(file, Kept(file)) BY <2>1
 <2>. QED BY <2>1, <2>2 DEF MemoryInv
<1>3. CASE AppendWrite(h) \/ AppendWriteFails(h)
 <2>1. /\ st[h] = "write" /\ UNCHANGED <<orig, mem>> /\ st'[h] \in {"sync", "truncate"}
       /\ \/ file' = file /\ st'[h] = "truncate"
          \/ \E p \in 1..3 : file' = Append(file, [rec |-> req[h], part |-> p])
  <3>1. st'[h] \in {"sync", "truncate"} /\ st[h] = "write" /\ UNCHANGED <<orig, mem>>
    BY <1>0, <1>3 DEF AppendWrite, AppendWriteFails, Goto, TypeOK
  <3>2. CASE AppendWrite(h) BY <3>1, <3>2 DEF AppendWrite, WriteFile
  <3>3. CASE AppendWriteFails(h)
   <4>1. st'[h] = "truncate" BY <1>0, <3>3 DEF AppendWriteFails, Goto, TypeOK
   <4>2. file' = file \/ \E p \in 1..2 : WriteFile(req[h], p) BY <3>3 DEF AppendWriteFails
   <4>3. ASSUME NEW p \in 1..2, WriteFile(req[h], p)
         PROVE  \E q \in 1..3 : file' = Append(file, [rec |-> req[h], part |-> q])
     BY <4>3 DEF WriteFile
   <4>. QED BY <3>1, <4>1, <4>2, <4>3
  <3>. QED BY <1>3, <3>1, <3>2, <3>3
 <2>2. orig[h] = Len(file) /\ Terminated(file) /\ Unrepaired(mem[h]) = Replayed(file, Len(file))
   BY <1>0, <1>1, <2>1 DEF HandleInv, RequestInv, CleanInv, MemoryInv
 <2>3. /\ \A i \in 1..Len(file) : file'[i].rec = file[i].rec
       /\ st'[h] = "sync" => Len(file') = Len(file) + 1
   BY <1>1, <2>1
 <2>4. Replayed(file', Len(file)) = Replayed(file, Len(file)) BY <1>1, <2>3, ReplayedSame
 <2>. QED BY <2>1, <2>2, <2>3, <2>4 DEF MemoryInv
<1>4. CASE AppendSync(h)
 <2>1. /\ st[h] = "sync" /\ file' = file /\ st'[h] = "idle"
       /\ mem'[h] = Commit(mem[h], req[h])
   BY <1>0, <1>4 DEF AppendSync, Fsync, Goto, TypeOK
 <2>2. /\ Unrepaired(mem[h]) = Replayed(file, orig[h]) /\ Len(file) = orig[h] + 1
       /\ orig[h] \in 1..Len(file) /\ file[Len(file)].rec = req[h] /\ req[h].kind \in Kind
       /\ Terminated(file)
   BY <1>0, <1>1, <2>1 DEF HandleInv, RollbackInv, SyncInv, CleanInv, RequestInv, MemoryInv
 <2>3. mem[h] \in Memory /\ req[h] \in Record BY <1>0 DEF TypeOK, Memory, MemoryOf
 <2>4. Unrepaired(mem'[h]) = DecodeRecord(Replayed(file, orig[h]), file[Len(file)].rec)
   BY <2>1, <2>2, <2>3, CommitIsDecode
 <2>5. Len(file) \in 1..Len(file) /\ Len(file) # 1 /\ Len(file) - 1 = orig[h] BY <1>1, <2>2
 <2>6. Replayed(file, Len(file)) = DecodeRecord(Replayed(file, orig[h]), file[Len(file)].rec)
  <3>1. Records(file, Len(file)) BY <1>1
  <3>. QED BY <1>1, <2>5, <3>1, ReplayedLines
 <2>7. Unrepaired(mem'[h]) = Replayed(file', Kept(file')) BY <1>1, <2>1, <2>2, <2>4, <2>6
 <2>. QED BY <2>1, <2>7 DEF MemoryInv
<1>5. CASE AppendSyncFails(h)
 <2>1. st[h] = "sync" /\ UNCHANGED <<file, mem, orig>> /\ st'[h] = "truncate"
   BY <1>0, <1>5 DEF AppendSyncFails, Goto, TypeOK
 <2>2. Replayed(file', orig'[h]) = Replayed(file, orig[h]) BY <2>1
 <2>. QED BY <2>1, <2>2 DEF MemoryInv
<1>6. CASE RollbackTruncate(h)
 <2>1. st[h] = "truncate" /\ UNCHANGED mem /\ st'[h] = "resync" /\ file' = Resize(file, orig[h])
   BY <1>0, <1>6 DEF RollbackTruncate, Goto, TypeOK, Truncate
 <2>2. orig[h] \in 1..Len(file) /\ Unrepaired(mem[h]) = Replayed(file, orig[h])
   BY <1>0, <2>1 DEF HandleInv, RollbackInv, MemoryInv
 <2>3. file' = SubSeq(file, 1, orig[h]) BY <1>1, <2>1, <2>2 DEF Resize
 <2>4. Len(file') = orig[h] /\ \A i \in 1..orig[h] : file'[i].rec = file[i].rec BY <1>1, <2>2, <2>3
 <2>5. Replayed(file', orig[h]) = Replayed(file, orig[h]) BY <1>1, <2>2, <2>4, ReplayedSame
 <2>6. Terminated(file') BY <1>0, <2>1 DEF HandleInv, CleanInv
 <2>7. Unrepaired(mem'[h]) = Replayed(file', Kept(file')) BY <1>1, <2>1, <2>2, <2>4, <2>5, <2>6
 <2>. QED BY <2>1, <2>7 DEF MemoryInv
<1>7. CASE RollbackSync(h)
 <2>1. st[h] = "resync" /\ UNCHANGED <<file, mem>> /\ st'[h] = "idle"
   BY <1>0, <1>7 DEF RollbackSync, Fsync, Goto, TypeOK
 <2>2. Replayed(file', Kept(file')) = Replayed(file, Kept(file)) BY <2>1
 <2>. QED BY <2>1, <2>2 DEF MemoryInv
<1>8. CASE RollbackFails(h) BY <1>0, <1>8, NoMemory DEF RollbackFails, Gone, TypeOK
<1>. QED BY <1>2, <1>3, <1>4, <1>5, <1>6, <1>7, <1>8 DEF AppendStep

\* Those of a load make it that of a load.
LEMMA LoadMemory ==
    ASSUME NEW h, Handle = {h}, IInv, IInv', MemoryInv(h), LoadStep(h)
    PROVE  MemoryInv(h)'
<1>0. TypeOK /\ TypeOK' /\ Shape(file, next) /\ Shape(file', next') /\ HandleInv(h) /\ HandleInv(h)'
  BY DEF IInv, DiskInv, Good
<1>1. /\ file \in Seq(Fragment) /\ Len(file) \in Nat /\ \A k \in 0..Len(file) : Records(file, k)
      /\ Kept(file) \in 0..Len(file) /\ (Terminated(file) => Kept(file) = Len(file))
      /\ Terminated(file') => Kept(file') = Len(file')
  BY <1>0, LoadOfContent
<1>2. CASE LoadOpen(h)
 <2>1. st'[h] = "decode" /\ pos'[h] = 0 /\ mem'[h] = EmptyMem
   BY <1>0, <1>2 DEF LoadOpen, Goto, TypeOK
 <2>2. Replayed(file', 0) = EmptyMem
  <3>1. Records(file', 0) BY DEF Records
  <3>. QED BY <3>1, ReplayedLines
 <2>. QED BY <2>1, <2>2 DEF MemoryInv
<1>3. CASE LoadLine(h)
 <2> DEFINE i == pos[h] + 1
 <2>1. /\ st[h] = "decode" /\ st'[h] = "decode" /\ file' = file /\ pos'[h] = i
       /\ i <= Len(file) /\ pos[h] \in Nat
       /\ mem'[h] = IF i = 1 THEN mem[h] ELSE DecodeRecord(mem[h], file[i].rec)
  <3>1. pos[h] \in Nat BY <1>0 DEF TypeOK
  <3>2. st[h] = "decode" /\ UNCHANGED <<st, file>> /\ i <= Len(file) /\ pos'[h] = i
    BY <1>0, <1>3 DEF LoadLine, TypeOK
  <3>3. i = 1 => mem' = mem BY <1>3 DEF LoadLine
  <3>4. i > 1 => mem' = [mem EXCEPT ![h] = DecodeRecord(mem[h], file[i].rec)] BY <1>3 DEF LoadLine
  <3>5. i > 1 => mem'[h] = DecodeRecord(mem[h], file[i].rec) BY <1>0, <3>4 DEF TypeOK
  <3>. QED BY <3>1, <3>2, <3>3, <3>5
 <2>2. mem[h] = Replayed(file, pos[h]) BY <2>1 DEF MemoryInv
 <2>3. i \in 1..Len(file) /\ i - 1 = pos[h] /\ Records(file, Len(file)) /\ 0 \in 0..Len(file)
   BY <1>1, <2>1
 <2>4. Replayed(file, 0) = EmptyMem BY <1>1, <2>3, ReplayedLines
 <2>5. Replayed(file, i) = IF i = 1 THEN EmptyMem ELSE DecodeRecord(Replayed(file, i - 1), file[i].rec)
   BY <1>1, <2>3, ReplayedLines
 <2>6. mem'[h] = Replayed(file, i) BY <2>1, <2>2, <2>3, <2>4, <2>5
 <2>. QED BY <2>1, <2>6 DEF MemoryInv
<1>4. CASE LoadDone(h)
 <2>1. /\ st[h] = "decode" /\ UNCHANGED file /\ mem'[h] = Repair(mem[h])
       /\ st'[h] \in {"loadTruncate", "loadNewline", "idle"}
       /\ pos[h] = orig[h] \/ pos[h] >= Len(file)
   BY <1>0, <1>4 DEF LoadDone, Goto, TypeOK
 <2>2. orig[h] = Kept(file) /\ pos[h] <= orig[h] /\ pos[h] \in Nat /\ mem[h] = Replayed(file, pos[h])
   BY <1>0, <2>1 DEF HandleInv, LoadInv, TypeOK, MemoryInv
 <2>3. pos[h] = Kept(file) BY <1>1, <2>1, <2>2
 <2>4. Replayed(file, Kept(file)) \in RawMemory
  <3>1. Kept(file) \in 0..Kept(file) /\ Records(file, Kept(file)) BY <1>1
  <3>. QED BY <1>1, <3>1, ReplayedLines
 <2>5. Unrepaired(mem'[h]) = Replayed(file', Kept(file')) BY <2>1, <2>2, <2>3, <2>4, RepairKeeps
 <2>. QED BY <2>1, <2>5 DEF MemoryInv
<1>5. CASE LoadTruncate(h)
 <2>1. st[h] = "loadTruncate" /\ UNCHANGED mem /\ st'[h] = "loadSync" /\ file' = Resize(file, orig[h])
   BY <1>0, <1>5 DEF LoadTruncate, Goto, TypeOK, Truncate
 <2>2. orig[h] = Kept(file) /\ Unrepaired(mem[h]) = Replayed(file, Kept(file))
   BY <1>0, <2>1 DEF HandleInv, LoadInv, MemoryInv
 <2>3. file' = SubSeq(file, 1, Kept(file)) BY <1>1, <2>1, <2>2 DEF Resize
 <2>4. Len(file') = Kept(file) /\ \A i \in 1..Kept(file) : file'[i].rec = file[i].rec BY <1>1, <2>3
 <2>5. Replayed(file', Kept(file)) = Replayed(file, Kept(file)) BY <1>1, <2>4, ReplayedSame
 <2>6. Terminated(file') BY <1>0, <2>1 DEF HandleInv, CleanInv
 <2>7. Unrepaired(mem'[h]) = Replayed(file', Kept(file')) BY <1>1, <2>1, <2>2, <2>4, <2>5, <2>6
 <2>. QED BY <2>1, <2>7 DEF MemoryInv
<1>6. CASE LoadNewline(h)
 <2>1. st[h] = "loadNewline" /\ UNCHANGED mem /\ st'[h] = "loadSync"
   BY <1>0, <1>6 DEF LoadNewline, Goto, TypeOK
 <2>2. Recovery(file) = "newline" /\ Unrepaired(mem[h]) = Replayed(file, Kept(file))
   BY <1>0, <2>1 DEF HandleInv, LoadInv, MemoryInv
 <2>3. file # <<>> /\ file[Len(file)].part = 2 /\ Kept(file) = Len(file) BY <1>0, <2>2, LoadOfShape
 <2>4. file' = [file EXCEPT ![Len(file)].part = 3] BY <1>6, <2>3 DEF LoadNewline
 <2>5. Len(file') = Len(file) /\ \A i \in 1..Len(file) : file'[i].rec = file[i].rec
  <3>1. \A i \in 1..Len(file) : file[i] \in Fragment BY <1>1
  <3>2. \A x \in Fragment : [x EXCEPT !.part = 3].rec = x.rec BY DEF Fragment
  <3>3. Len(file) \in 1..Len(file) BY <1>1, <2>3
  <3>. QED BY <1>1, <2>4, <3>1, <3>2, <3>3
 <2>6. Replayed(file', Len(file)) = Replayed(file, Len(file)) BY <1>1, <2>5, ReplayedSame
 <2>7. Terminated(file') BY <1>0, <2>1 DEF HandleInv, CleanInv
 <2>8. Unrepaired(mem'[h]) = Replayed(file', Kept(file'))
   BY <1>1, <2>1, <2>2, <2>3, <2>5, <2>6, <2>7
 <2>. QED BY <2>1, <2>8 DEF MemoryInv
<1>7. CASE LoadSync(h)
 <2>1. st[h] = "loadSync" /\ UNCHANGED <<file, mem>> /\ st'[h] = "idle"
   BY <1>0, <1>7 DEF LoadSync, Fsync, Goto, TypeOK
 <2>2. Replayed(file', Kept(file')) = Replayed(file, Kept(file)) BY <2>1
 <2>. QED BY <2>1, <2>2 DEF MemoryInv
<1>8. CASE LoadFails(h) BY <1>0, <1>8, NoMemory DEF LoadFails, Gone, TypeOK
<1>. QED BY <1>2, <1>3, <1>4, <1>5, <1>6, <1>7, <1>8 DEF LoadStep

\* Every step keeps the memory that of a load.
LEMMA MemoryStep ==
    ASSUME NEW h, Handle = {h}, IInv, IInv', MemoryInv(h), [Next]_vars
    PROVE  MemoryInv(h)'
<1>0. TypeOK BY DEF IInv
<1>1. CASE CreateStep(h)
 <2>1. CASE CreateSync(h)
  <3>1. /\ st[h] = "createSync" /\ st'[h] = "idle" /\ mem'[h] = EmptyMem
        /\ file' = file
    BY <1>0, <2>1 DEF CreateSync, Fsync, Goto, TypeOK
  <3>2. file = <<[rec |-> Header, part |-> 3]>> BY <3>1 DEF IInv, HandleInv, CreateInv
  <3>3. Len(file) = 1 /\ Shape(file, next) /\ Terminated(file)
    BY <3>2 DEF IInv, DiskInv, Good, Terminated
  <3>4. Kept(file) = 1 /\ Records(file, 1) BY <3>3, LoadOfContent
  <3>5. Replayed(file, 1) = EmptyMem BY <3>4, ReplayedLines
  <3>6. Unrepaired(EmptyMem) = EmptyMem BY StartTypes, RawIsUnrepaired
  <3>. QED BY <3>1, <3>4, <3>5, <3>6 DEF MemoryInv
 <2>2. CASE Create(h) \/ CreateWrite(h) \/ CreateFails(h)
   BY <1>0, <2>2, NoMemory DEF Create, CreateWrite, CreateFails, Gone, Goto, TypeOK
 <2>. QED BY <1>1, <2>1, <2>2 DEF CreateStep
<1>2. CASE AppendStep(h) BY <1>2, AppendMemory
<1>3. CASE LoadStep(h) BY <1>3, LoadMemory
<1>4. CASE Close(h) \/ Kill(h) \/ PowerLoss
  BY <1>0, <1>4, NoMemory DEF Close, Kill, PowerLoss, Gone, TypeOK
<1>5. CASE UNCHANGED vars BY <1>5 DEF vars, MemoryInv
<1>. QED BY <1>1, <1>2, <1>3, <1>4, <1>5 DEF Next

\* The invariants say that all readers agree.
LEMMA MemoryImplies ==
    ASSUME NEW h, Handle = {h}, IInv, MemoryInv(h)
    PROVE  ReadersAgree
<1>1. ASSUME NEW f \in disk \cup {file}
      PROVE  /\ Unrepaired(Decode(f)) = Replayed(f, Kept(f))
             /\ \A i \in 1..Len(Decode(f).messages) : ~Lacking(Decode(f).messages, i)
             /\ LightCount(f) = MessageCount(Replayed(f, Kept(f)).messages)
 <2>1. Shape(f, next) BY DEF IInv, DiskInv, Good
 <2>2. Kept(f) \in Nat /\ Records(f, Kept(f)) /\ Kept(f) \in 0..Kept(f) BY <2>1, LoadOfContent
 <2>3. Replayed(f, Kept(f)) \in RawMemory BY <2>2, ReplayedLines
 <2>. QED BY <2>2, <2>3, RepairKeeps, CountOfReplay DEF LightCount, Decode
<1>2. st[h] = "idle" => Unrepaired(mem[h]) = Unrepaired(Decode(file)) BY <1>1 DEF MemoryInv
<1>. QED BY <1>1, <1>2 DEF ReadersAgree

----------------------------------------
(* The refinement of DurableLog: what a load recovers is an append-only    *)
(* log.  The invariant above bounds each content a crash may leave; for the *)
(* refinement they must also agree with each other on what was promised.   *)

\* Up to the last acknowledged record, g has the records of f.
Agree(f, g) ==
    \A i \in 1..Len(f) :
        (\E a \in acked : f[i].rec.id <= a) => i \in 1..Len(g) /\ g[i].rec = f[i].rec

AllAgree(D) == \A f, g \in D : Agree(f, g)

LogInv ==
    /\ AllAgree(disk \cup {file})
    /\ acked # {} => \E last \in acked : \A a \in acked : a <= last

\* A content that agrees with one of them agrees with all.
LEMMA AgreeWithOne ==
    ASSUME NEW D, AllAgree(D), NEW f \in D, NEW N,
           \A g \in N : Agree(f, g) /\ Agree(g, f)
    PROVE  AllAgree(D \cup N)
<1>1. ASSUME NEW x, NEW y, Agree(x, f), Agree(f, y)
      PROVE  Agree(x, y)
  BY <1>1 DEF Agree
<1>2. \A x \in D \cup N : Agree(x, f) /\ Agree(f, x) BY DEF AllAgree
<1>. QED BY <1>1, <1>2 DEF AllAgree

\* A newer record after those of f promises nothing.
LEMMA AgreeAppend ==
    ASSUME NEW f, NEW n, Good(f, acked, n), NEW r \in Record,
           \A i \in 1..Len(f) : f[i].rec.id < r.id, NEW p \in 1..3
    PROVE  /\ Agree(f, Append(f, [rec |-> r, part |-> p]))
           /\ Agree(Append(f, [rec |-> r, part |-> p]), f)
<1> DEFINE g == Append(f, [rec |-> r, part |-> p])
<1>1. f \in Seq(Fragment) /\ Len(f) \in Nat /\ [rec |-> r, part |-> p] \in Fragment
  BY DEF Good, Shape, Fragment
<1>2. /\ Len(g) = Len(f) + 1 /\ g[Len(f) + 1].rec = r
      /\ \A i \in 1..Len(f) : g[i] = f[i]
  BY <1>1
<1>. HIDE DEF g
<1>3. \A i \in 1..Len(g) : i \in 1..Len(f) \/ i = Len(f) + 1 BY <1>1, <1>2
<1>4. ASSUME NEW a \in acked PROVE ~(r.id <= a)
 <2>1. PICK i \in 1..Len(f) : a = f[i].rec.id
  <3>1. a \in Ids(f) /\ Kept(f) \in 0..Len(f) BY <1>4, LoadOfShape DEF Good
  <3>. QED BY <1>1, <3>1 DEF Ids
 <2>2. a \in Nat /\ r.id \in Nat BY <2>1 DEF Good, Shape, Record
 <2>. QED BY <2>1, <2>2
<1>5. Agree(f, g) BY <1>1, <1>2 DEF Agree
<1>6. Agree(g, f) BY <1>2, <1>3, <1>4 DEF Agree
<1>. QED BY <1>5, <1>6 DEF g

\* A truncation keeps what was promised.
LEMMA AgreePrefix ==
    ASSUME NEW f, NEW n, Good(f, acked, n), NEW m \in 0..Len(f),
           acked \subseteq IdsTo(f, m)
    PROVE  Agree(f, SubSeq(f, 1, m)) /\ Agree(SubSeq(f, 1, m), f)
<1> DEFINE g == SubSeq(f, 1, m)
<1>1. f \in Seq(Fragment) /\ Len(f) \in Nat /\ m \in Nat /\ m <= Len(f) BY DEF Good, Shape
<1>2. Len(g) = m /\ \A i \in 1..m : g[i] = f[i] BY <1>1
<1>. HIDE DEF g
<1>3. Agree(g, f) BY <1>1, <1>2 DEF Agree
<1>4. ASSUME NEW i \in 1..Len(f), NEW a \in acked, f[i].rec.id <= a
      PROVE  i <= m
 <2>1. PICK j \in 1..m : a = f[j].rec.id BY DEF IdsTo
 <2>2. j \in 1..Len(f) /\ f[i].rec.id \in Nat /\ f[j].rec.id \in Nat BY <1>1 DEF Good, Shape, Record
 <2>3. ~(j < i) BY <1>4, <2>1, <2>2 DEF Good, Shape
 <2>. QED BY <1>1, <2>2, <2>3
<1>5. Agree(f, g) BY <1>1, <1>2, <1>4 DEF Agree
<1>. QED BY <1>3, <1>5 DEF g

\* The newline of a load changes no record.
LEMMA AgreeNewline ==
    ASSUME NEW f, NEW n, Shape(f, n), f # <<>>
    PROVE  /\ Agree(f, [f EXCEPT ![Len(f)].part = 3])
           /\ Agree([f EXCEPT ![Len(f)].part = 3], f)
<1> DEFINE g == [f EXCEPT ![Len(f)].part = 3]
<1>1. f \in Seq(Fragment) /\ Len(f) \in Nat /\ Len(f) >= 1 BY DEF Shape
<1>2. \A i \in 1..Len(f) : f[i] \in Fragment BY <1>1
<1>3. Len(g) = Len(f) /\ \A i \in 1..Len(f) : g[i].rec = f[i].rec BY <1>1, <1>2 DEF Fragment
<1>. HIDE DEF g
<1>. QED BY <1>3 DEF Agree, g

\* What a step does to the contents of the file and the disk.
Contents == disk \cup {file}

Keeping == disk' \cup {file'} \subseteq Contents

Writing(h) ==
    /\ st[h] = "write"
    /\ \E p \in 1..3 : WriteFile(req[h], p)

Truncating(h) ==
    /\ orig[h] \in 1..Len(file) /\ acked \subseteq IdsTo(file, orig[h])
    /\ Truncate(orig[h])

Terminating ==
    LET f == [file EXCEPT ![Len(file)].part = 3]
    IN file # <<>> /\ file' = f /\ disk' = disk \cup {f}

\* What a step does to the contents a crash may leave.
LEMMA ContentsStep ==
    ASSUME NEW h, Handle = {h}, IInv, Next
    PROVE  acked = {} \/ Keeping \/ Writing(h) \/ Truncating(h) \/ Terminating
<1>1. TypeOK /\ DiskInv /\ HandleInv(h) BY DEF IInv
<1>2. Good(file, acked, next) /\ Shape(file, next) /\ file \in Seq(Fragment)
  BY <1>1 DEF DiskInv, Good, Shape
<1>3. CASE CreateStep(h)
  BY <1>1, <1>3 DEF CreateStep, Create, CreateWrite, CreateSync, CreateFails,
                    Fsync, Keeping, Contents, HandleInv, CreateInv
<1>4. CASE AppendStep(h)
 <2>1. CASE AppendWrite(h) \/ AppendWriteFails(h)
   BY <2>1 DEF AppendWrite, AppendWriteFails, Writing, Keeping, Contents
 <2>2. CASE RollbackTruncate(h)
   BY <1>1, <2>2 DEF RollbackTruncate, Truncating, HandleInv, RollbackInv
 <2>3. CASE AppendStart(h) \/ AppendSync(h) \/ AppendSyncFails(h) \/ RollbackSync(h) \/ RollbackFails(h)
   BY <2>3 DEF AppendStart, AppendSync, AppendSyncFails, RollbackSync, RollbackFails,
               Fsync, Keeping, Contents
 <2>. QED BY <1>4, <2>1, <2>2, <2>3 DEF AppendStep
<1>5. CASE Close(h) BY <1>5 DEF Close, Fsync, Keeping, Contents
<1>6. CASE LoadStep(h)
 <2>1. CASE LoadTruncate(h)
  <3>1. Recovery(file) = "truncate" /\ orig[h] = Kept(file) /\ orig[h] > 0
    BY <1>1, <2>1 DEF LoadTruncate, HandleInv, LoadInv
  <3>2. orig[h] \in 1..Len(file) /\ acked \subseteq IdsTo(file, orig[h])
    BY <1>2, <3>1, LoadOfShape DEF Good, Ids, IdsTo
  <3>. QED BY <2>1, <3>2 DEF LoadTruncate, Truncating
 <2>2. CASE LoadNewline(h)
  <3>1. Recovery(file) = "newline" BY <1>1, <2>2 DEF LoadNewline, HandleInv, LoadInv
  <3>2. file # <<>> /\ file[Len(file)].part = 2 BY <1>2, <3>1, LoadOfShape
  <3>. QED BY <2>2, <3>2 DEF LoadNewline, Terminating
 <2>3. CASE LoadOpen(h) \/ LoadLine(h) \/ LoadDone(h) \/ LoadSync(h) \/ LoadFails(h)
   BY <2>3 DEF LoadOpen, LoadLine, LoadDone, LoadSync, LoadFails, Fsync, Keeping, Contents
 <2>. QED BY <1>6, <2>1, <2>2, <2>3 DEF LoadStep
<1>7. CASE Kill(h) BY <1>1, <1>7 DEF Kill, Writing, Keeping, Contents, HandleInv, CreateInv
<1>8. CASE PowerLoss BY <1>8 DEF PowerLoss, Keeping, Contents
<1>. QED BY <1>3, <1>4, <1>5, <1>6, <1>7, <1>8 DEF Next

\* The contents after a step agree with those before it, on what was promised
\* before it.
LEMMA StepAgrees ==
    ASSUME NEW h, Handle = {h}, IInv, AllAgree(Contents), Next
    PROVE  AllAgree(Contents \cup (disk' \cup {file'}))
<1>1. DiskInv /\ HandleInv(h) /\ file \in Contents /\ req[h] \in Record
  BY DEF IInv, Contents, TypeOK
<1>2. Good(file, acked, next) /\ Shape(file, next) /\ Len(file) \in Nat
  BY <1>1 DEF DiskInv, Good, Shape
<1>3. ASSUME NEW N, \A g \in N : Agree(file, g) /\ Agree(g, file),
             disk' \cup {file'} \subseteq Contents \cup N
      PROVE  AllAgree(Contents \cup (disk' \cup {file'}))
 <2>1. AllAgree(Contents \cup N) BY <1>1, <1>3, AgreeWithOne
 <2>. QED BY <1>3, <2>1 DEF AllAgree
<1>4. CASE acked = {} BY <1>4 DEF AllAgree, Agree
<1>5. CASE Keeping BY <1>5 DEF Keeping, AllAgree
<1>6. CASE Writing(h)
 <2>1. PICK p \in 1..3 : WriteFile(req[h], p) BY <1>6 DEF Writing
 <2>2. \A i \in 1..Len(file) : file[i].rec.id < req[h].id
   BY <1>1, <1>6 DEF Writing, HandleInv, RequestInv
 <2> DEFINE W(q) == Append(file, [rec |-> req[h], part |-> q])
            N == {W(q) : q \in 1..3}
 <2>3. \A g \in N : Agree(file, g) /\ Agree(g, file) BY <1>1, <1>2, <2>2, AgreeAppend
 <2>4. disk' = disk \cup {W(q) : q \in 1..p} /\ file' = W(p) BY <2>1 DEF WriteFile, Partial
 <2>. HIDE DEF W
 <2>5. disk' \cup {file'} \subseteq Contents \cup N BY <2>4 DEF Contents
 <2>. HIDE DEF N
 <2>. QED BY <1>3, <2>3, <2>5
<1>7. CASE Truncating(h)
 <2> DEFINE N == {SubSeq(file, 1, orig[h])}
 <2>1. orig[h] \in 0..Len(file) BY <1>2, <1>7 DEF Truncating
 <2>2. \A g \in N : Agree(file, g) /\ Agree(g, file) BY <1>2, <1>7, <2>1, AgreePrefix DEF Truncating
 <2>3. disk' \cup {file'} \subseteq Contents \cup N
   BY <1>2, <1>7 DEF Truncating, Truncate, Resize, Contents
 <2>. HIDE DEF N
 <2>. QED BY <1>3, <2>2, <2>3
<1>8. CASE Terminating
 <2> DEFINE N == {[file EXCEPT ![Len(file)].part = 3]}
 <2>1. \A g \in N : Agree(file, g) /\ Agree(g, file) BY <1>2, <1>8, AgreeNewline DEF Terminating
 <2>2. disk' \cup {file'} \subseteq Contents \cup N BY <1>8 DEF Terminating, Contents
 <2>. HIDE DEF N
 <2>. QED BY <1>3, <2>1, <2>2
<1>. QED BY <1>4, <1>5, <1>6, <1>7, <1>8, ContentsStep

\* A step acknowledges nothing, or the record whose sync has succeeded, which
\* is the last one of the only content left.
LEMMA AckStep ==
    ASSUME NEW h, Handle = {h}, IInv, Next
    PROVE  \/ UNCHANGED acked
           \/ /\ UNCHANGED file /\ disk' = {file}
              /\ Kept(file) \in 1..Len(file)
              /\ acked' = acked \cup {file[Kept(file)].rec.id}
<1>1. TypeOK /\ DiskInv /\ HandleInv(h) BY DEF IInv
<1>2. Shape(file, next) /\ file \in Seq(Fragment) /\ Len(file) \in Nat
  BY <1>1 DEF DiskInv, Good, Shape
<1>3. CASE CreateSync(h)
 <2>1. file = <<[rec |-> Header, part |-> 3]>> BY <1>1, <1>3 DEF CreateSync, HandleInv, CreateInv
 <2>2. Len(file) = 1 /\ file[1].rec = Header /\ file[1].part = 3 BY <2>1
 <2>3. Terminated(file) BY <2>2 DEF Terminated
 <2>4. Kept(file) = Len(file) BY <1>2, <2>3, LoadOfShape DEF Terminated
 <2>5. Header.id = 0 BY DEF Header
 <2>. QED BY <1>3, <2>2, <2>4, <2>5 DEF CreateSync, Fsync
<1>4. CASE AppendSync(h)
 <2>1. file # <<>> /\ Terminated(file) /\ file[Len(file)].rec = req[h]
   BY <1>1, <1>4 DEF AppendSync, HandleInv, CleanInv, SyncInv
 <2>2. Kept(file) = Len(file) /\ Len(file) >= 1 BY <1>2, <2>1, LoadOfShape DEF Terminated
 <2>. QED BY <1>2, <1>4, <2>1, <2>2 DEF AppendSync, Fsync
<1>. QED BY <1>3, <1>4
  DEF Next, CreateStep, Create, CreateWrite, CreateFails, AppendStep, AppendStart,
      AppendWrite, AppendWriteFails, AppendSyncFails, RollbackTruncate, RollbackSync,
      RollbackFails, Close, LoadStep, LoadOpen, LoadLine, LoadDone, LoadTruncate,
      LoadNewline, LoadSync, LoadFails, Kill, PowerLoss, Gone

\* Every step keeps the agreement of what the file, the disk and the handles hold.
LEMMA LogInvStep ==
    ASSUME NEW h, Handle = {h}, IInv, LogInv, [Next]_vars
    PROVE  LogInv'
<1>1. CASE UNCHANGED vars BY <1>1 DEF vars, LogInv, AllAgree, Agree
<1>2. CASE Next /\ UNCHANGED acked
 <2>1. AllAgree(Contents \cup (disk' \cup {file'})) BY <1>2, StepAgrees DEF LogInv, Contents
 <2>. QED BY <1>2, <2>1 DEF LogInv, AllAgree, Agree
<1>3. CASE /\ UNCHANGED file /\ disk' = {file}
           /\ Kept(file) \in 1..Len(file)
           /\ acked' = acked \cup {file[Kept(file)].rec.id}
 <2>1. (AllAgree(disk \cup {file}))' BY <1>3 DEF AllAgree, Agree
 <2>2. acked \subseteq Int /\ file[Kept(file)].rec.id \in Int
  <3>1. acked \subseteq Int /\ Shape(file, next)
    BY MaxRecordAssumption DEF IInv, TypeOK, DiskInv, Good
  <3>. QED BY <1>3, <3>1 DEF Shape, Record
 <2>3. \E last \in acked' : \A a \in acked' : a <= last
  <3>1. CASE acked = {} BY <1>3, <2>2, <3>1
  <3>2. CASE acked # {}
   <4>1. PICK last \in acked : \A a \in acked : a <= last BY <3>2 DEF LogInv
   <4>2. CASE file[Kept(file)].rec.id <= last BY <1>3, <4>1, <4>2
   <4>3. CASE ~(file[Kept(file)].rec.id <= last) BY <1>3, <2>2, <4>1, <4>3
   <4>. QED BY <4>2, <4>3
  <3>. QED BY <3>1, <3>2
 <2>. QED BY <2>1, <2>3 DEF LogInv
<1>. QED BY <1>1, <1>2, <1>3, AckStep

\* The records a load recovers.
LEMMA RecoveredFacts ==
    ASSUME NEW f, NEW n, Shape(f, n)
    PROVE  /\ Len(Recovered(f)) = Kept(f) /\ Kept(f) \in Nat /\ Kept(f) <= Len(f)
           /\ \A i \in 1..Kept(f) : Recovered(f)[i] = f[i].rec
           /\ Recovered(f) \in Seq(Record)
<1>1. Kept(f) \in 0..Len(f) /\ Len(f) \in Nat BY LoadOfShape DEF Shape
<1>2. \A i \in 1..Kept(f) : f[i].rec \in Record BY <1>1 DEF Shape
<1>3. Recovered(f) \in [1..Kept(f) -> Record] BY <1>2 DEF Recovered
<1>. QED BY <1>1, <1>2, <1>3 DEF Recovered

\* The refinement mapping: a step that changes what a load recovers is a
\* step of the abstract log.
LEMMA WriteRefines ==
    ASSUME NEW h, Handle = {h}, IInv, IInv', LogInv, Next, UNCHANGED acked
    PROVE  DL!Write
<1>1. Good(file, acked, next) /\ Good(file', acked, next') BY DEF IInv, DiskInv
<1>2. Agree(file, file') BY StepAgrees DEF LogInv, AllAgree, Contents
<1>3. Shape(file, next) /\ Shape(file', next') BY <1>1 DEF Good
<1> DEFINE log == Recovered(file)
           new == Recovered(file')
<1>4. /\ Len(log) = Kept(file) /\ Kept(file) \in Nat /\ Kept(file) <= Len(file)
      /\ \A i \in 1..Kept(file) : log[i] = file[i].rec
  BY <1>3, RecoveredFacts
<1>5. /\ Len(new) = Kept(file') /\ Kept(file') \in Nat /\ Kept(file') <= Len(file')
      /\ \A i \in 1..Kept(file') : new[i] = file'[i].rec
  BY <1>3, RecoveredFacts
<1>6. Len(file) \in Nat /\ Len(file') \in Nat BY <1>3 DEF Shape
<1>. HIDE DEF log, new
<1>7. \A i, j \in 1..Len(new) : i < j => new[i].id < new[j].id BY <1>3, <1>5, <1>6 DEF Shape
<1>8. \E n \in 0..Len(log) :
          /\ \A i \in (n + 1)..Len(log) : log[i].id \notin acked
          /\ n <= Len(new)
          /\ \A i \in 1..n : new[i] = log[i]
 <2>1. CASE acked = {} BY <1>4, <1>5, <2>1
 <2>2. CASE acked # {}
  <3>1. PICK last \in acked : \A a \in acked : a <= last BY <2>2 DEF LogInv
  <3>2. PICK n \in 1..Kept(file) : file[n].rec.id = last BY <1>1, <3>1 DEF Good, Ids
  <3>3. PICK m \in 1..Kept(file') : file'[m].rec.id = last BY <1>1, <3>1 DEF Good, Ids
  <3>4. ASSUME NEW i \in 1..n
        PROVE  i \in 1..Len(file') /\ file'[i].rec = file[i].rec
   <4>1. i \in 1..Len(file) /\ n \in 1..Len(file) BY <1>4, <1>6, <3>2
   <4>2. file[i].rec.id \in Nat /\ file[n].rec.id \in Nat BY <1>3, <4>1 DEF Shape, Record
   <4>3. file[i].rec.id <= last BY SMTT(40), <1>3, <3>2, <4>1, <4>2 DEF Shape
   <4>. QED BY <1>2, <3>1, <4>1, <4>3 DEF Agree
  <3>5. n = m
   <4>1. n \in 1..Len(file') /\ m \in 1..Len(file') /\ file'[n].rec.id = file'[m].rec.id
     BY SMTT(40), <1>5, <1>6, <3>2, <3>3, <3>4
   <4>2. file'[n].rec.id \in Nat /\ ~(n < m) /\ ~(m < n) BY <1>3, <4>1 DEF Shape, Record
   <4>. QED BY <4>1, <4>2
  <3>6. \A i \in (n + 1)..Kept(file) : file[i].rec.id \notin acked
   <4>1. SUFFICES ASSUME NEW i \in (n + 1)..Kept(file) PROVE ~(file[i].rec.id <= last)
     BY <3>1
   <4>2. i \in 1..Len(file) /\ n \in 1..Len(file) /\ n < i BY <1>4, <1>6, <3>2
   <4>3. file[n].rec.id < file[i].rec.id /\ file[n].rec.id \in Nat /\ file[i].rec.id \in Nat
     BY <1>3, <4>2 DEF Shape, Record
   <4>. QED BY <3>2, <4>3
  <3>7. n \in 0..Len(log) /\ n <= Len(new) BY <1>4, <1>5, <3>2, <3>3, <3>5
  <3>8. \A i \in (n + 1)..Len(log) : log[i].id \notin acked
   <4>1. \A i \in (n + 1)..Len(log) : i \in 1..Kept(file) BY <1>4, <3>2
   <4>. QED BY <1>4, <3>6, <4>1
  <3>9. \A i \in 1..n : new[i] = log[i]
   <4>1. \A i \in 1..n : i \in 1..Kept(file) /\ i \in 1..Kept(file') BY <1>4, <1>5, <3>2, <3>3, <3>5
   <4>. QED BY <1>4, <1>5, <3>4, <4>1
  <3>. QED BY <3>7, <3>8, <3>9
 <2>. QED BY <2>1, <2>2
<1>. QED BY <1>7, <1>8 DEF DL!Write, DL!Promised, log, new

\* Every step is a step of the log or a stutter.
LEMMA StepRefines ==
    ASSUME NEW h, Handle = {h}, IInv, IInv', LogInv, [Next]_vars
    PROVE  [DL!Next]_(DL!dlVars)
<1>1. CASE UNCHANGED vars
  BY <1>1 DEF vars, DL!dlVars, Recovered, Kept, TornTail, TailStart, TailIsRecord
<1>2. CASE Next /\ UNCHANGED acked BY <1>2, WriteRefines DEF DL!Next
<1>3. CASE /\ UNCHANGED file /\ disk' = {file}
           /\ Kept(file) \in 1..Len(file)
           /\ acked' = acked \cup {file[Kept(file)].rec.id}
 <2>1. UNCHANGED Recovered(file) BY <1>3 DEF Recovered, Kept, TornTail, TailStart, TailIsRecord
 <2>2. /\ Kept(file) \in 1..Len(Recovered(file))
       /\ Recovered(file)[Kept(file)] = file[Kept(file)].rec
  <3>1. Shape(file, next) BY DEF IInv, DiskInv, Good
  <3>. QED BY <1>3, <3>1, RecoveredFacts
 <2>3. DL!Acknowledge BY <1>3, <2>1, <2>2 DEF DL!Acknowledge
 <2>. QED BY SMTT(40), <2>3 DEF DL!Next
<1>. QED BY <1>1, <1>2, <1>3, AckStep

\* The initial states are initial states of the log.
LEMMA InitRefines ==
    ASSUME NEW h, Handle = {h}, Init
    PROVE  LogInv /\ DL!Init
<1>1. LogInv BY DEF Init, LogInv, AllAgree, Agree
<1>2. Shape(file, next) BY InitInv DEF IInv, DiskInv, Good
<1>3. Kept(file) = 0 BY <1>2, LoadOfShape DEF Init
<1>4. Len(Recovered(file)) = 0 /\ Recovered(file) \in Seq(Record) BY <1>2, <1>3, RecoveredFacts
<1>5. Recovered(file) = <<>> BY <1>4
<1>. QED BY <1>1, <1>5 DEF DL!Init, Init

----------------------------------------
(* The theorems.                                                           *)

\* The inductive invariant holds in every reachable state.
THEOREM Invariance ==
    ASSUME NEW CONSTANT h, Handle = {h}
    PROVE  Spec => []IInv
<1>1. Init => IInv BY InitInv
<1>2. IInv /\ [Next]_vars => IInv' BY NextInv
<1>. QED BY <1>1, <1>2, PTL DEF Spec

\* The variables keep their types, for any number of records and restarts of
\* session.go's append, rollback and load.
THEOREM TypeCorrect ==
    ASSUME NEW CONSTANT h, Handle = {h}
    PROVE  Spec => []TypeOK
<1>1. IInv => TypeOK BY DEF IInv
<1>. QED BY <1>1, Invariance, PTL

\* An append that returned nil is found by every later load: no failed write,
\* sync or rollback (appendLine, rollbackAppend), kill, power loss or repair
\* of a torn tail (Load) ever removes it.
THEOREM AckedRecordsSurvive ==
    ASSUME NEW CONSTANT h, Handle = {h}
    PROVE  Spec => []AckedSurvive
<1>1. IInv => AckedSurvive BY InvImplies
<1>. QED BY <1>1, Invariance, PTL

\* A session that acknowledged anything can be loaded after every crash: what
\* is broken in its file is at most the last, unacknowledged line.
THEOREM SessionNeverDamaged ==
    ASSUME NEW CONSTANT h, Handle = {h}
    PROVE  Spec => []NeverDamaged
<1>1. IInv => NeverDamaged BY InvImplies
<1>. QED BY <1>1, Invariance, PTL

\* Whatever fails, the memory of a process between two appends is what a restart
\* would load, but for the error results that loads make up; a load leaves no
\* invalid call without a result; and List counts the messages that a load yields,
\* but for those it makes up (Load, List and the committed callbacks of appendLine).
THEOREM EverybodyAgrees ==
    ASSUME NEW CONSTANT h, Handle = {h}
    PROVE  Spec => []ReadersAgree
<1>1. Init => IInv /\ MemoryInv(h) BY InitInv DEF Init, MemoryInv
<1>2. IInv /\ MemoryInv(h) /\ [Next]_vars => IInv' /\ MemoryInv(h)' BY NextInv, MemoryStep
<1>3. IInv /\ MemoryInv(h) => ReadersAgree BY MemoryImplies
<1>. QED BY <1>1, <1>2, <1>3, PTL DEF Spec

\* What a load recovers from the file of session.go is an append-only log:
\* a prefix that holds every acknowledged record never changes, whatever
\* writes fail, wherever a process is killed or the power is lost.
THEOREM RefinesDurableLog ==
    ASSUME NEW CONSTANT h, Handle = {h}
    PROVE  Spec => IsDurableLog
<1>1. Init => IInv /\ LogInv /\ DL!Init BY InitInv, InitRefines
<1>2. IInv /\ LogInv /\ [Next]_vars => IInv' /\ LogInv' BY NextInv, LogInvStep
<1>3. IInv /\ IInv' /\ LogInv /\ [Next]_vars => [DL!Next]_(DL!dlVars) BY StepRefines
<1>. QED BY <1>1, <1>2, <1>3, PTL DEF Spec, IsDurableLog, DL!Spec

\* With one process at a time the comment of rollbackAppend is true: the
\* truncation removes no acknowledged record.  (With two the run
\* SessionLogShared refutes it.)
THEOREM RollbackIsDurable ==
    ASSUME NEW CONSTANT p, Handle = {p}
    PROVE  Spec => RollbackKeepsDurable
<1>1. IInv /\ IInv' /\ [Next]_vars =>
         [\A h \in Handle : RollbackTruncate(h) =>
             (acked \cap Ids(file)) \subseteq Ids(file')]_vars
  BY DEF IInv, DiskInv, Good, RollbackTruncate
<1>2. Spec => []IInv BY Invariance
<1>3. Spec => [][Next]_vars BY PTL DEF Spec
<1>. QED BY <1>1, <1>2, <1>3, PTL DEF RollbackKeepsDurable

=============================================================================
