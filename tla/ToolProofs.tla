----------------------------- MODULE ToolProofs ------------------------------
(***************************************************************************)
(* Proofs about what works for the agent, each in a section of its own:    *)
(* the store of extension packages, teams of helpers, edits of files, the  *)
(* pages of the read tool, commands, and the extension registry.  They     *)
(* share no state.                                                         *)
(***************************************************************************)
EXTENDS Integers, Sequences, FiniteSets, Functions, FiniteSetTheorems, SequenceTheorems,
        WellFoundedInduction, TLAPS

CONSTANTS Process, Base, Overlap, MaxOps, MaxFailures, MaxCrashes, MaxChanges,  \* of PackageStore
          Task, Tree, MaxConcurrency, TurnLimit, CostLimit, Turns, MaxMoves,  \* of Helpers
          Call, Operation, Content, Absent, MaxWriteFailures,  \* of FileEdits
          Line, MaxLines, ContentLimit, MaxLineBytes,  \* of ReadPages
          Limit, PipeSize, MaxOutput,  \* of Command
          Tool, Command, Remote, Direct, LoadOrder, Caller, Policy, Batch,
          MaxReloads, NONE, BUILTIN  \* of Extensions

\* Of PackageStore.
VARIABLES files, state, lock, pc, work, changed, ops, failures, crashes, changes

\* Of Helpers.
VARIABLES batch, request, lead, tree, leadHead, phase, task, limit, spent, result,
          canceled, usage

\* Of FileEdits.
VARIABLES file, call, crossed, done, writeFailures

\* Of ReadPages.
VARIABLES text, next, shown, cut, page

\* Of Command.
VARIABLES ctx, shell, reaped, child, grouped, holds, pipe, written, kept, dropped,
          waiting, error, inTime, watcher, caller, status

\* Of Extensions.
VARIABLES registry, owned, lua, loader, closing, policy, stage, manager, conns,
          server, reload, running, calls

Pkg == INSTANCE PackageStore WITH op <- work

Teams == INSTANCE Helpers

Edits == INSTANCE FileEdits WITH failures <- writeFailures, MaxFailures <-
             MaxWriteFailures

Paging == INSTANCE ReadPages WITH file <- text, last <- page

Shell == INSTANCE Command WITH cut <- dropped, result <- status

Ext == INSTANCE Extensions WITH batch <- owned, call <- calls, Call <- Caller

----------------------------------------
(* The instances mean by their operators what the theorems about them do.  *)

\* Numbers of elements.
LEMMA SameCardinality ==
    \A S : /\ Pkg!Cardinality(S) = Cardinality(S)
           /\ Teams!Cardinality(S) = Cardinality(S)
           /\ Edits!Cardinality(S) = Cardinality(S)
  BY DEF Cardinality, Pkg!Cardinality, Teams!Cardinality, Edits!Cardinality

----------------------------------------
(* The packages of store.go: the inductive invariant.                      *)

\* Two processes, and none overlaps with another once one has died.
PackParameters ==
  /\ ~Overlap /\ "nobody" \notin Process
  /\ \A p, q, r \in Process : p = q \/ q = r \/ p = r

OpT == [kind : {"none", "sync", "update", "remove", "list"}, todo : SUBSET Pkg!Name,
        tries : 0..2, entries : SUBSET Pkg!Entry, name : Pkg!Name \cup {<<>>},
        version : Pkg!Version \cup {Pkg!Absent}, moved : BOOLEAN, left : BOOLEAN,
        state : [Pkg!Name -> Pkg!Version \cup {Pkg!Absent}]]

LockT == [owner : Process \cup {"nobody"}, written : BOOLEAN, dead : BOOLEAN]

\* Where a process works on one package.
Working == {"install", "installRename", "installSave", "installUndo",
            "update", "updateBackup", "updateRename", "updateSave", "updateClean",
            "updateUndo", "updateRestore", "remove", "removeSave", "removeClean", "removeUndo"}

Inner == {"lockWrite", "load", "recover", "restore", "ready", "release"} \cup Working

PackTypes ==
  /\ files \in [Pkg!Entry -> Pkg!Content] /\ state \in [Pkg!Name -> Pkg!Version \cup {Pkg!Absent}]
  /\ lock \in LockT /\ pc \in [Process -> Pkg!Outside \cup Inner] /\ work \in [Process -> OpT]
  /\ \A p \in Process : work[p].todo # {} => work[p].kind \in {"sync", "update", "remove"}
  /\ changed \in SUBSET Pkg!Name /\ crashes \in Nat

\* Who is inside has the lock; whoever takes a lock over is alone.
Locking ==
  /\ \A p \in Process : pc[p] \in Inner => lock.owner = p /\ ~lock.dead
  /\ \A p \in Process : lock.owner = p /\ ~lock.dead => pc[p] \in Inner
  /\ \A p \in Process : pc[p] = "lockRemove" => lock.dead
  /\ lock.dead => crashes > 0
  /\ crashes > 0 => \A p, q \in Process : pc[p] # "idle" /\ pc[q] # "idle" => p = q

\* A package with its backup and its removal, from which a recovery gets what the
\* state says: never both markers, none that is needed beside another content.
RestOf(x, y, z, s, unchanged) ==
  /\ y = Pkg!Absent \/ z = Pkg!Absent
  /\ z # Pkg!Absent => x = Pkg!Absent
  /\ unchanged /\ s # Pkg!Absent => x = s \/ y = s \/ (x = Pkg!Absent /\ z = s)

RestAt(n) == RestOf(files[n], files[Pkg!Backup(n)], files[Pkg!Removal(n)], state[n], n \notin changed)

\* Files and state of the package agree.
WholeOf(x, y, z, s, unchanged) ==
  /\ unchanged => x = s
  /\ s = Pkg!Absent => x = Pkg!Absent
  /\ y = Pkg!Absent /\ z = Pkg!Absent

WholeAt(n) == WholeOf(files[n], files[Pkg!Backup(n)], files[Pkg!Removal(n)], state[n], n \notin changed)

\* What a recovery has not looked at yet is in entries.
RecoveringAt(s, o, n) ==
  /\ Pkg!Backup(n) \in o.entries => files[Pkg!Backup(n)] # Pkg!Absent
  /\ Pkg!Removal(n) \in o.entries => files[Pkg!Removal(n)] # Pkg!Absent
  /\ files[n] # Pkg!Absent /\ n \notin o.entries => state[n] # Pkg!Absent
  /\ files[Pkg!Backup(n)] # Pkg!Absent => Pkg!Backup(n) \in o.entries \/ (s = "restore" /\ o.name = n)
  /\ files[Pkg!Removal(n)] # Pkg!Absent => Pkg!Removal(n) \in o.entries

\* Between the two steps of a roll-back the backup is what the state says.
Restoring(o) ==
  /\ o.name \in Pkg!Name /\ o.entries \cap Pkg!Name = {} /\ Pkg!Backup(o.name) \notin o.entries
  /\ state[o.name] # Pkg!Absent /\ files[o.name] = Pkg!Absent /\ files[Pkg!Backup(o.name)] = state[o.name]

Recovering(s, o) ==
  /\ \A n \in Pkg!Name : RecoveringAt(s, o, n)
  /\ s = "restore" => Restoring(o)

\* What holds of a package that is worked on, with the contents x, y and z.
StageOf(s, o, x, y, z, tracked, unchanged) ==
  /\ s \in {"install", "installRename"} => WholeOf(x, y, z, tracked, unchanged) /\ tracked = Pkg!Absent
  /\ s \in {"update", "updateBackup", "remove"} => WholeOf(x, y, z, tracked, unchanged) /\ tracked # Pkg!Absent
  /\ s = "installSave" => tracked = Pkg!Absent /\ x = o.version /\ y = Pkg!Absent /\ z = Pkg!Absent
  /\ s = "installUndo" => tracked = Pkg!Absent /\ y = Pkg!Absent /\ z = Pkg!Absent
  /\ s \in {"updateRename", "updateSave", "updateUndo", "updateRestore"} =>
       /\ tracked # Pkg!Absent /\ z = Pkg!Absent
       /\ o.moved => y # Pkg!Absent
       /\ y # Pkg!Absent => o.moved
       /\ unchanged => y = tracked
  /\ s \in {"updateRename", "updateRestore"} => x = Pkg!Absent
  /\ s = "updateSave" => x = o.version
  /\ s \in {"updateRestore", "removeUndo"} => o.moved
  /\ s = "updateClean" => tracked # Pkg!Absent /\ x = tracked /\ z = Pkg!Absent
  /\ s \in {"removeSave", "removeUndo"} =>
       /\ tracked # Pkg!Absent /\ x = Pkg!Absent /\ y = Pkg!Absent
       /\ o.moved => z # Pkg!Absent
       /\ z # Pkg!Absent => o.moved
       /\ unchanged => z = tracked
  /\ s = "removeClean" => tracked = Pkg!Absent /\ x = Pkg!Absent /\ y = Pkg!Absent
  /\ s \in {"installRename", "installSave", "updateBackup", "updateRename", "updateSave"} => o.version \in Pkg!Version

StageAt(s, o, n) == StageOf(s, o, files[n], files[Pkg!Backup(n)], files[Pkg!Removal(n)], state[n], n \notin changed)

\* What a process at s with operation o knows.
Knows(s, o) ==
  /\ s \in Inner \ {"lockWrite", "load"} => o.state = state
  /\ s \in {"recover", "restore"} => Recovering(s, o)
  /\ s \in Working \cup {"ready"} => o.entries = {}
  /\ s = "ready" => \A n \in Pkg!Name : WholeAt(n)
  /\ s = "release" /\ o.entries = {} => \A n \in Pkg!Name : WholeAt(n) \/ (o.left /\ n = o.name)
  /\ s \in Working => /\ o.name \in Pkg!Name /\ StageAt(s, o, o.name)
                      /\ \A m \in Pkg!Name : m # o.name => WholeAt(m)

Holding == \A p \in Process : Knows(pc[p], work[p])

PackInv == PackTypes /\ Locking /\ (\A n \in Pkg!Name : RestAt(n)) /\ Holding

----------------------------------------
(* The entries of packages/.                                               *)

\* What is appended to a name can be taken away again.
LEMMA Marked ==
  ASSUME NEW w, NEW m
  PROVE  /\ Len(Append(<<w>>, m)) = 2 /\ Append(<<w>>, m)[1] = w /\ Append(<<w>>, m)[2] = m
         /\ Pkg!Front(Append(<<w>>, m)) = <<w>>
<1>1. <<w>> \in Seq({w, m}) /\ Len(<<w>>) = 1 /\ <<w>>[1] = w OBVIOUS
<1> DEFINE s == Append(<<w>>, m)
<1>2. s \in Seq({w, m}) /\ Len(s) = 2 /\ s[1] = w /\ s[2] = m BY <1>1
<1> HIDE DEF s
<1>3. SubSeq(s, 1, 1) \in Seq({w, m}) /\ Len(SubSeq(s, 1, 1)) = 1 /\ SubSeq(s, 1, 1)[1] = w BY <1>2
<1>4. \A i \in 1..Len(<<w>>) : SubSeq(s, 1, 1)[i] = <<w>>[i] BY <1>1, <1>3
<1>5. SubSeq(s, 1, 1) = <<w>> BY <1>1, <1>3, <1>4, SeqEqual
<1>6. Pkg!Front(s) = <<w>> BY <1>2, <1>5 DEF Pkg!Front
<1>. QED BY <1>2, <1>6 DEF s

\* A name is one element long, and a marker is a name and what it marks.
LEMMA Shape ==
  ASSUME NEW n \in Pkg!Name
  PROVE  /\ Len(n) = 1 /\ n # <<>> /\ n = <<n[1]>>
         /\ Len(Pkg!Backup(n)) = 2 /\ Pkg!Backup(n)[1] = n[1] /\ Pkg!Backup(n)[2] = "backup"
         /\ Len(Pkg!Removal(n)) = 2 /\ Pkg!Removal(n)[1] = n[1] /\ Pkg!Removal(n)[2] = "remove"
         /\ Pkg!Front(Pkg!Backup(n)) = n /\ Pkg!Front(Pkg!Removal(n)) = n
<1>1. PICK w \in Base : n = <<w>> BY DEF Pkg!Name
<1>. QED BY <1>1, Marked DEF Pkg!Backup, Pkg!Removal

\* No entry is two of them.
LEMMA Entries ==
  ASSUME NEW n \in Pkg!Name, NEW m \in Pkg!Name
  PROVE  /\ n \in Pkg!Entry /\ Pkg!Backup(n) \in Pkg!Entry /\ Pkg!Removal(n) \in Pkg!Entry
         /\ Pkg!Backup(n) \notin Pkg!Name /\ Pkg!Removal(n) \notin Pkg!Name
         /\ Pkg!Backup(n) # m /\ Pkg!Removal(n) # m /\ Pkg!Backup(n) # Pkg!Removal(m)
         /\ Pkg!Backup(n) = Pkg!Backup(m) => n = m
         /\ Pkg!Removal(n) = Pkg!Removal(m) => n = m
<1>1. n \in Pkg!Entry /\ Pkg!Backup(n) \in Pkg!Entry /\ Pkg!Removal(n) \in Pkg!Entry
  BY DEF Pkg!Entry
<1>2. Pkg!Backup(n) \notin Pkg!Name /\ Pkg!Removal(n) \notin Pkg!Name BY Shape
<1>3. Pkg!Backup(n) # Pkg!Removal(m) BY Shape
<1>4. (Pkg!Backup(n) = Pkg!Backup(m) => n = m) /\ (Pkg!Removal(n) = Pkg!Removal(m) => n = m)
  BY Shape
<1>. QED BY <1>1, <1>2, <1>3, <1>4

LEMMA EntryKinds ==
  ASSUME NEW e \in Pkg!Entry
  PROVE  /\ e \in Pkg!Name \/ \E n \in Pkg!Name : e = Pkg!Backup(n) \/ e = Pkg!Removal(n)
         /\ Pkg!IsMarker(e) => e \notin Pkg!Name
         /\ ~Pkg!IsMarker(e) => e \in Pkg!Name
<1>1. e \in Pkg!Name \/ \E n \in Pkg!Name : e = Pkg!Backup(n) \/ e = Pkg!Removal(n) BY DEF Pkg!Entry
<1>2. ASSUME NEW n \in Pkg!Name
      PROVE  ~Pkg!IsMarker(n) /\ Pkg!IsMarker(Pkg!Backup(n)) /\ Pkg!IsMarker(Pkg!Removal(n))
 <2>1. Len(n) = 1 /\ Len(Pkg!Backup(n)) = 2 /\ Len(Pkg!Removal(n)) = 2 BY Shape
 <2>. QED BY <2>1 DEF Pkg!IsMarker
<1>. QED BY <1>1, <1>2

\* What a marker marks, and how.
LEMMA Markers ==
  ASSUME NEW e \in Pkg!Entry, Pkg!IsMarker(e)
  PROVE  \E n \in Pkg!Name : /\ Pkg!Front(e) = n
                             /\ \/ e = Pkg!Backup(n) /\ Pkg!Last(e) = "backup"
                                \/ e = Pkg!Removal(n) /\ Pkg!Last(e) # "backup"
<1>1. PICK n \in Pkg!Name : e = Pkg!Backup(n) \/ e = Pkg!Removal(n) BY EntryKinds
<1>2. Pkg!Last(Pkg!Backup(n)) = "backup" /\ Pkg!Last(Pkg!Removal(n)) = "remove"
  BY Shape DEF Pkg!Last
<1>. QED BY <1>1, <1>2, Shape

\* Markers come after the names.
LEMMA NamesFirst ==
  ASSUME NEW p \in Process, NEW e \in Pkg!Entry, Pkg!IsNext(p, e), Pkg!IsMarker(e)
  PROVE  work[p].entries \cap Pkg!Name = {}
<1>1. Len(e) = 2 BY EntryKinds, Shape
<1>2. \A f \in work[p].entries : Len(e) <= Len(f) BY DEF Pkg!IsNext
<1>3. ASSUME NEW m \in Pkg!Name, m \in work[p].entries PROVE FALSE
 <2>1. Len(m) = 1 /\ Len(e) <= Len(m) BY <1>2, <1>3, Shape
 <2>. QED BY <1>1, <2>1
<1>. QED BY <1>3

----------------------------------------
(* What is written to them.                                                *)

\* The entries of package n get these contents; those of package m stay.
Becomes(n, x, y, z) == files'[n] = x /\ files'[Pkg!Backup(n)] = y /\ files'[Pkg!Removal(n)] = z

Same(m) == Becomes(m, files[m], files[Pkg!Backup(m)], files[Pkg!Removal(m)])

Others(n) == \A m \in Pkg!Name : m # n => Same(m)

LEMMA Puts ==
  ASSUME files \in [Pkg!Entry -> Pkg!Content], NEW n \in Pkg!Name, NEW c \in Pkg!Content
  PROVE  /\ Pkg!Put(n, c) => /\ files' \in [Pkg!Entry -> Pkg!Content] /\ Others(n)
                             /\ Becomes(n, c, files[Pkg!Backup(n)], files[Pkg!Removal(n)])
         /\ Pkg!Put(Pkg!Backup(n), c) => /\ files' \in [Pkg!Entry -> Pkg!Content] /\ Others(n)
                                         /\ Becomes(n, files[n], c, files[Pkg!Removal(n)])
         /\ Pkg!Put(Pkg!Removal(n), c) => /\ files' \in [Pkg!Entry -> Pkg!Content] /\ Others(n)
                                          /\ Becomes(n, files[n], files[Pkg!Backup(n)], c)
<1>1. ASSUME Pkg!Put(n, c)
      PROVE  files' \in [Pkg!Entry -> Pkg!Content] /\ Others(n) /\ Becomes(n, c, files[Pkg!Backup(n)], files[Pkg!Removal(n)])
  BY <1>1, Entries DEF Pkg!Put, Others, Same, Becomes
<1>2. ASSUME Pkg!Put(Pkg!Backup(n), c)
      PROVE  files' \in [Pkg!Entry -> Pkg!Content] /\ Others(n) /\ Becomes(n, files[n], c, files[Pkg!Removal(n)])
  BY <1>2, Entries DEF Pkg!Put, Others, Same, Becomes
<1>3. ASSUME Pkg!Put(Pkg!Removal(n), c)
      PROVE  files' \in [Pkg!Entry -> Pkg!Content] /\ Others(n) /\ Becomes(n, files[n], files[Pkg!Backup(n)], c)
  BY <1>3, Entries DEF Pkg!Put, Others, Same, Becomes
<1>. QED BY <1>1, <1>2, <1>3

LEMMA Renames ==
  ASSUME files \in [Pkg!Entry -> Pkg!Content], NEW n \in Pkg!Name
  PROVE  /\ Pkg!Rename(n, Pkg!Backup(n)) => /\ files' \in [Pkg!Entry -> Pkg!Content] /\ Others(n)
                                            /\ Becomes(n, Pkg!Absent, files[n], files[Pkg!Removal(n)])
         /\ Pkg!Rename(n, Pkg!Removal(n)) => /\ files' \in [Pkg!Entry -> Pkg!Content] /\ Others(n)
                                             /\ Becomes(n, Pkg!Absent, files[Pkg!Backup(n)], files[n])
         /\ Pkg!Rename(Pkg!Backup(n), n) => /\ files' \in [Pkg!Entry -> Pkg!Content] /\ Others(n)
                                            /\ Becomes(n, files[Pkg!Backup(n)], Pkg!Absent, files[Pkg!Removal(n)])
         /\ Pkg!Rename(Pkg!Removal(n), n) => /\ files' \in [Pkg!Entry -> Pkg!Content] /\ Others(n)
                                             /\ Becomes(n, files[Pkg!Removal(n)], files[Pkg!Backup(n)], Pkg!Absent)
<1>0. Pkg!Absent \in Pkg!Content BY DEF Pkg!Content
<1>1. ASSUME Pkg!Rename(n, Pkg!Backup(n))
      PROVE  files' \in [Pkg!Entry -> Pkg!Content] /\ Others(n) /\ Becomes(n, Pkg!Absent, files[n], files[Pkg!Removal(n)])
  BY <1>0, <1>1, Entries DEF Pkg!Rename, Others, Same, Becomes
<1>2. ASSUME Pkg!Rename(n, Pkg!Removal(n))
      PROVE  files' \in [Pkg!Entry -> Pkg!Content] /\ Others(n) /\ Becomes(n, Pkg!Absent, files[Pkg!Backup(n)], files[n])
  BY <1>0, <1>2, Entries DEF Pkg!Rename, Others, Same, Becomes
<1>3. ASSUME Pkg!Rename(Pkg!Backup(n), n)
      PROVE  files' \in [Pkg!Entry -> Pkg!Content] /\ Others(n) /\ Becomes(n, files[Pkg!Backup(n)], Pkg!Absent, files[Pkg!Removal(n)])
  BY <1>0, <1>3, Entries DEF Pkg!Rename, Others, Same, Becomes
<1>4. ASSUME Pkg!Rename(Pkg!Removal(n), n)
      PROVE  files' \in [Pkg!Entry -> Pkg!Content] /\ Others(n) /\ Becomes(n, files[Pkg!Removal(n)], files[Pkg!Backup(n)], Pkg!Absent)
  BY <1>0, <1>4, Entries DEF Pkg!Rename, Others, Same, Becomes
<1>. QED BY <1>1, <1>2, <1>3, <1>4

----------------------------------------
(* Steps outside the lock and inside it.                                   *)

\* One process is inside.
LEMMA Alone ==
  ASSUME PackInv, NEW p \in Process, pc[p] \in Inner, NEW q \in Process, q # p
  PROVE  pc[q] \notin Inner
  BY DEF PackInv, Locking

\* What a process knows is of the files and the state only when it is inside.
LEMMA KnowsOutside ==
  ASSUME NEW s, s \notin Inner \ {"lockWrite", "load"}, NEW o
  PROVE  Knows(s, o)
  BY DEF Knows, Inner, Working

\* What process p does leaves the others where they are.
Moves(p) ==
  /\ pc' = [pc EXCEPT ![p] = pc'[p]] /\ work' = [work EXCEPT ![p] = work'[p]]
  /\ work'[p] \in OpT
  /\ work'[p].todo # {} => work'[p].kind \in {"sync", "update", "remove"}

\* A process that is outside afterwards knows nothing, and the others what they did.
LEMMA OuterMoves ==
  ASSUME PackInv, NEW p \in Process, Moves(p),
         pc'[p] \in Pkg!Outside \cup {"lockWrite"}, lock' \in LockT, Locking',
         UNCHANGED <<files, state, changed, crashes>>
  PROVE  PackInv'
<1>1. PackTypes' BY DEF PackInv, PackTypes, Moves, Inner
<1>2. \A n \in Pkg!Name : RestAt(n)' BY DEF PackInv, RestAt
<1>3. ASSUME NEW q \in Process PROVE Knows(pc[q], work[q])'
 <2>1. CASE q = p
  <3>1. pc'[p] \notin Inner \ {"lockWrite", "load"} BY DEF Inner, Working, Pkg!Outside
  <3>. QED BY <2>1, <3>1 DEF Knows, Inner, Working
 <2>2. CASE q # p
  <3>1. pc'[q] = pc[q] /\ work'[q] = work[q] /\ Knows(pc[q], work[q])
    BY <2>2 DEF Moves, PackInv, PackTypes, Holding
  <3>2. CASE pc[q] \in Inner \ {"lockWrite", "load"}
    BY <3>1 DEF Knows, StageAt, WholeAt, Recovering, RecoveringAt, Restoring
  <3>3. CASE pc[q] \notin Inner \ {"lockWrite", "load"} BY <3>1, <3>3 DEF Knows, Inner, Working
  <3>. QED BY <3>2, <3>3
 <2>. QED BY <2>1, <2>2
<1>. QED BY <1>1, <1>2, <1>3 DEF PackInv, Holding

\* Inside, no other process knows anything.
LEMMA InnerMoves ==
  ASSUME PackInv, NEW p \in Process, Moves(p), pc[p] \in Inner, pc'[p] \in Inner,
         lock' \in LockT, lock'.owner = lock.owner, lock'.dead = lock.dead, crashes' = crashes,
         files' \in [Pkg!Entry -> Pkg!Content], state' \in [Pkg!Name -> Pkg!Version \cup {Pkg!Absent}],
         changed' \in SUBSET Pkg!Name,
         \A n \in Pkg!Name : RestAt(n)', Knows(pc[p], work[p])'
  PROVE  PackInv'
<1>1. PackTypes' BY DEF PackInv, PackTypes, Moves
<1>2. Locking' BY DEF PackInv, PackTypes, Locking, Moves, Inner, Working, Pkg!Outside
<1>3. ASSUME NEW q \in Process PROVE Knows(pc[q], work[q])'
 <2>1. CASE q = p BY <2>1
 <2>2. CASE q # p
  <3>1. pc'[q] = pc[q] /\ pc[q] \notin Inner BY <2>2, Alone DEF Moves, PackInv, PackTypes
  <3>. QED BY <3>1 DEF Knows, Inner, Working
 <2>. QED BY <2>1, <2>2
<1>. QED BY <1>1, <1>2, <1>3 DEF PackInv, Holding

\* What is written to the entries of one package leaves the others as they were.
LEMMA OthersKept ==
  ASSUME NEW n \in Pkg!Name, Others(n),
         \A m \in Pkg!Name : m # n => state'[m] = state[m] /\ (m \in changed' <=> m \in changed)
  PROVE  \A m \in Pkg!Name : m # n => (RestAt(m) => RestAt(m)') /\ (WholeAt(m) => WholeAt(m)')
  BY DEF Others, Same, Becomes, RestAt, WholeAt, RestOf, WholeOf

\* The facts of a process at work.
LEMMA AtWork ==
  ASSUME PackInv, NEW p \in Process, pc[p] \in Working
  PROVE  /\ work[p] \in OpT /\ work[p].name \in Pkg!Name /\ work[p].entries = {} /\ work[p].state = state
         /\ StageAt(pc[p], work[p], work[p].name) /\ RestAt(work[p].name)
         /\ \A m \in Pkg!Name : m # work[p].name => WholeAt(m)
         /\ files \in [Pkg!Entry -> Pkg!Content] /\ state \in [Pkg!Name -> Pkg!Version \cup {Pkg!Absent}]
         /\ changed \in SUBSET Pkg!Name
         /\ work[p].todo # {} => work[p].kind \in {"sync", "update", "remove"}
         /\ pc[p] \in Inner /\ lock \in LockT
<1>1. Knows(pc[p], work[p]) /\ pc[p] \in Inner /\ pc[p] \notin {"lockWrite", "load"}
  BY DEF PackInv, Holding, Inner, Working
<1>. QED BY <1>1 DEF Knows, PackInv, PackTypes

\* A step of the work on a package keeps the invariant when its own package is as
\* it should be afterwards.
WorkStep(p) ==
  /\ Moves(p)
  /\ work'[p].name = work[p].name /\ work'[p].entries = {} /\ work'[p].state = state'
  /\ UNCHANGED <<lock, crashes>>

LEMMA WorkMoves ==
  ASSUME PackInv, NEW p \in Process, NEW n \in Pkg!Name, pc[p] \in Working, WorkStep(p), n = work[p].name,
         pc'[p] \in Working \cup {"ready", "release"},
         files' \in [Pkg!Entry -> Pkg!Content], Others(n),
         state' \in [Pkg!Name -> Pkg!Version \cup {Pkg!Absent}], changed' \in SUBSET Pkg!Name,
         \A m \in Pkg!Name : m # n => state'[m] = state[m] /\ (m \in changed' <=> m \in changed),
         RestAt(n)',
         pc'[p] \in Working => StageAt(pc[p], work[p], n)',
         pc'[p] \in {"ready", "release"} => WholeAt(n)'
  PROVE  PackInv'
<1>1. \A m \in Pkg!Name : m # n => WholeAt(m) /\ RestAt(m) BY AtWork DEF PackInv
<1>2. \A m \in Pkg!Name : m # n => RestAt(m)' /\ WholeAt(m)' BY <1>1, OthersKept
<1>3. \A m \in Pkg!Name : RestAt(m)' BY <1>2
<1>4. Knows(pc[p], work[p])'
 <2>1. CASE pc'[p] \in Working
  <3>1. pc'[p] \notin {"ready", "release", "recover", "restore"} BY <2>1 DEF Working
  <3>. QED BY <2>1, <3>1, <1>2 DEF Knows, WorkStep, StageAt
 <2>2. CASE pc'[p] \in {"ready", "release"}
  <3>1. pc'[p] \notin Working \cup {"recover", "restore"} BY <2>2 DEF Working
  <3>2. \A m \in Pkg!Name : WholeAt(m)' BY <2>2, <1>2
  <3>. QED BY <2>2, <3>1, <3>2 DEF Knows, WorkStep
 <2>. QED BY <2>1, <2>2
<1>5. pc[p] \in Inner /\ pc'[p] \in Inner /\ lock' \in LockT
  BY DEF Inner, PackInv, PackTypes, WorkStep
<1>. QED BY <1>3, <1>4, <1>5, InnerMoves DEF WorkStep

----------------------------------------
(* Steps on one package.                                                   *)

\* Process p goes on at s; with the operation as it was, after a save, or with
\* another version or another mark in it.
LEMMA GoesOn ==
  ASSUME PackInv, NEW p \in Process, pc[p] \in Working, NEW s, Pkg!Goto(p, s),
         UNCHANGED <<lock, crashes>>
  PROVE  /\ pc'[p] = s
         /\ work' = work /\ state' = state => WorkStep(p) /\ work'[p] = work[p]
         /\ \A v \in Pkg!Version \cup {Pkg!Absent} :
              Pkg!SaveState(p, [work[p].state EXCEPT ![work[p].name] = v]) =>
                /\ WorkStep(p) /\ work'[p].version = work[p].version /\ work'[p].moved = work[p].moved
                /\ state' \in [Pkg!Name -> Pkg!Version \cup {Pkg!Absent}] /\ state'[work[p].name] = v
                /\ \A m \in Pkg!Name : m # work[p].name => state'[m] = state[m]
         /\ \A v \in Pkg!Version : Pkg!Set(p, [work[p] EXCEPT !.version = v]) /\ state' = state =>
                WorkStep(p) /\ work'[p].version = v /\ work'[p].moved = work[p].moved
         /\ \A b \in BOOLEAN : Pkg!Set(p, [work[p] EXCEPT !.moved = b]) /\ state' = state =>
                WorkStep(p) /\ work'[p].version = work[p].version /\ work'[p].moved = b
<1>0. /\ work[p] \in OpT /\ work[p].name \in Pkg!Name /\ work[p].entries = {} /\ work[p].state = state
      /\ state \in [Pkg!Name -> Pkg!Version \cup {Pkg!Absent}]
      /\ work[p].todo # {} => work[p].kind \in {"sync", "update", "remove"}
  BY AtWork
<1>1. pc'[p] = s /\ pc' = [pc EXCEPT ![p] = pc'[p]] BY DEF Pkg!Goto, PackInv, PackTypes
<1>2. work \in [Process -> OpT] BY DEF PackInv, PackTypes
<1>3. ASSUME work' = work, state' = state PROVE WorkStep(p) /\ work'[p] = work[p]
  BY <1>0, <1>1, <1>2, <1>3 DEF WorkStep, Moves
<1>4. ASSUME NEW o \in OpT, work' = [work EXCEPT ![p] = o], o.name = work[p].name, o.entries = {},
             o.todo = work[p].todo, o.kind = work[p].kind, o.state = state'
      PROVE  WorkStep(p) /\ work'[p] = o
  BY <1>0, <1>1, <1>2, <1>4 DEF WorkStep, Moves
<1>5. ASSUME NEW v \in Pkg!Version \cup {Pkg!Absent}, Pkg!SaveState(p, [work[p].state EXCEPT ![work[p].name] = v])
      PROVE  /\ WorkStep(p) /\ work'[p].version = work[p].version /\ work'[p].moved = work[p].moved
             /\ state' \in [Pkg!Name -> Pkg!Version \cup {Pkg!Absent}] /\ state'[work[p].name] = v
             /\ \A m \in Pkg!Name : m # work[p].name => state'[m] = state[m]
 <2>1. state' = [state EXCEPT ![work[p].name] = v] /\ work' = [work EXCEPT ![p] = [work[p] EXCEPT !.state = state']]
   BY <1>0, <1>5 DEF Pkg!SaveState, Pkg!Set
 <2>2. state' \in [Pkg!Name -> Pkg!Version \cup {Pkg!Absent}] BY <1>0, <2>1
 <2>3. PICK o : o = [work[p] EXCEPT !.state = state'] OBVIOUS
 <2>4. /\ o \in OpT /\ o.name = work[p].name /\ o.entries = {} /\ o.todo = work[p].todo
       /\ o.kind = work[p].kind /\ o.state = state' /\ o.version = work[p].version /\ o.moved = work[p].moved
   BY <1>0, <2>2, <2>3 DEF OpT
 <2>. QED BY <1>0, <1>4, <2>1, <2>2, <2>3, <2>4
<1>6. ASSUME NEW v \in Pkg!Version, Pkg!Set(p, [work[p] EXCEPT !.version = v]), state' = state
      PROVE  WorkStep(p) /\ work'[p].version = v /\ work'[p].moved = work[p].moved
 <2>1. PICK o : o = [work[p] EXCEPT !.version = v] OBVIOUS
 <2>2. /\ o \in OpT /\ o.name = work[p].name /\ o.entries = {} /\ o.todo = work[p].todo
       /\ o.kind = work[p].kind /\ o.state = state' /\ o.version = v /\ o.moved = work[p].moved
   BY <1>0, <1>6, <2>1 DEF OpT
 <2>. QED BY <1>4, <1>6, <2>1, <2>2 DEF Pkg!Set
<1>7. ASSUME NEW b \in BOOLEAN, Pkg!Set(p, [work[p] EXCEPT !.moved = b]), state' = state
      PROVE  WorkStep(p) /\ work'[p].version = work[p].version /\ work'[p].moved = b
 <2>1. PICK o : o = [work[p] EXCEPT !.moved = b] OBVIOUS
 <2>2. /\ o \in OpT /\ o.name = work[p].name /\ o.entries = {} /\ o.todo = work[p].todo
       /\ o.kind = work[p].kind /\ o.state = state' /\ o.version = work[p].version
   BY <1>0, <1>7, <2>1 DEF OpT
 <2>3. o.moved = b BY <1>0, <2>1 DEF OpT
 <2>. QED BY <1>4, <1>7, <2>1, <2>2, <2>3 DEF Pkg!Set
<1>. QED BY <1>1, <1>3, <1>5, <1>6, <1>7

LEMMA NotWritten ==
  ASSUME NEW n \in Pkg!Name, files' = files
  PROVE  Others(n) /\ Same(n)
  BY DEF Others, Same, Becomes

\* Installation.
LEMMA InstallSteps ==
  ASSUME PackInv, NEW p \in Process, Pkg!InstallRename(p) \/ Pkg!InstallSave(p) \/ Pkg!InstallUndo(p)
  PROVE  PackInv'
<1>0. pc[p] \in Working /\ UNCHANGED <<lock, crashes>>
  BY DEF Pkg!InstallRename, Pkg!InstallSave, Pkg!InstallUndo, Working, Pkg!bounds,
         Pkg!StepFails
<1>1. PICK n \in Pkg!Name : n = work[p].name BY <1>0, AtWork
<1>2. /\ StageAt(pc[p], work[p], n) /\ RestAt(n)
      /\ files \in [Pkg!Entry -> Pkg!Content] /\ state \in [Pkg!Name -> Pkg!Version \cup {Pkg!Absent}]
      /\ changed \in SUBSET Pkg!Name
  BY <1>0, <1>1, AtWork
<1>3. CASE Pkg!InstallRename(p)
 <2>0. /\ state[n] = Pkg!Absent /\ files[n] = Pkg!Absent /\ files[Pkg!Backup(n)] = Pkg!Absent /\ files[Pkg!Removal(n)] = Pkg!Absent
       /\ work[p].version \in Pkg!Version /\ work[p].version \in Pkg!Content
       /\ changed' = changed
   BY <1>2, <1>3 DEF Pkg!InstallRename, StageAt, StageOf, WholeOf, Pkg!Content
 <2>1. CASE Pkg!Put(n, work[p].version) /\ Pkg!Goto(p, "installSave") /\ UNCHANGED <<state, work>>
  <3>1. files' \in [Pkg!Entry -> Pkg!Content] /\ Others(n) /\ Becomes(n, work[p].version, files[Pkg!Backup(n)], files[Pkg!Removal(n)])
    BY <1>2, <2>0, <2>1, Puts
  <3>2. WorkStep(p) /\ work'[p] = work[p] /\ pc'[p] = "installSave" BY <1>0, <2>1, GoesOn
  <3>3. RestAt(n)' /\ StageAt(pc[p], work[p], n)'
    BY <2>0, <2>1, <3>1, <3>2 DEF Becomes, RestAt, RestOf, StageAt, StageOf
  <3>. QED BY <1>0, <1>1, <1>2, <2>0, <2>1, <3>1, <3>2, <3>3, WorkMoves DEF Working
 <2>2. CASE Pkg!Fail(p) /\ UNCHANGED <<files, state, work>>
  <3>1. files' \in [Pkg!Entry -> Pkg!Content] /\ Others(n) BY <1>2, <2>2, NotWritten
  <3>2. WorkStep(p) /\ work'[p] = work[p] /\ pc'[p] = "release" BY <1>0, <2>2, GoesOn DEF Pkg!Fail
  <3>3. RestAt(n)' /\ WholeAt(n)' BY <2>0, <2>2 DEF RestAt, RestOf, WholeAt, WholeOf
  <3>. QED BY <1>0, <1>1, <1>2, <2>0, <2>2, <3>1, <3>2, <3>3, WorkMoves DEF Working
 <2>. QED BY <1>1, <1>3, <2>0, <2>1, <2>2 DEF Pkg!InstallRename, Pkg!StepFails
<1>4. CASE Pkg!InstallSave(p)
 <2>0. /\ state[n] = Pkg!Absent /\ files[n] = work[p].version /\ files[Pkg!Backup(n)] = Pkg!Absent /\ files[Pkg!Removal(n)] = Pkg!Absent
       /\ work[p].version \in Pkg!Version /\ changed' = changed \ {n} /\ files' = files
   BY <1>1, <1>2, <1>4 DEF Pkg!InstallSave, StageAt, StageOf
 <2>1. CASE Pkg!SaveState(p, [work[p].state EXCEPT ![work[p].name] = work[p].version]) /\ Pkg!Goto(p, "ready")
  <3>1. /\ WorkStep(p) /\ pc'[p] = "ready" /\ state'[n] = work[p].version
        /\ state' \in [Pkg!Name -> Pkg!Version \cup {Pkg!Absent}] /\ \A m \in Pkg!Name : m # n => state'[m] = state[m]
    BY <1>0, <1>1, <2>0, <2>1, GoesOn
  <3>2. RestAt(n)' /\ WholeAt(n)'
    BY <2>0, <3>1 DEF RestAt, RestOf, WholeAt, WholeOf, Pkg!Version, Pkg!Absent
  <3>. QED BY <1>0, <1>1, <1>2, <2>0, <3>1, <3>2, NotWritten, WorkMoves DEF Working
 <2>2. CASE Pkg!StepFails /\ Pkg!Goto(p, "installUndo")
  <3>1. WorkStep(p) /\ work'[p] = work[p] /\ pc'[p] = "installUndo" /\ state' = state
    BY <1>0, <2>2, GoesOn DEF Pkg!StepFails
  <3>2. RestAt(n)' /\ StageAt(pc[p], work[p], n)' BY <2>0, <3>1 DEF RestAt, RestOf, StageAt, StageOf
  <3>. QED BY <1>0, <1>1, <1>2, <2>0, <3>1, <3>2, NotWritten, WorkMoves DEF Working
 <2>. QED BY <1>4, <2>1, <2>2 DEF Pkg!InstallSave
<1>5. CASE Pkg!InstallUndo(p)
 <2>0. /\ state[n] = Pkg!Absent /\ files[Pkg!Backup(n)] = Pkg!Absent /\ files[Pkg!Removal(n)] = Pkg!Absent
       /\ changed' = changed /\ state' = state /\ work' = work /\ Pkg!Absent \in Pkg!Content
   BY <1>2, <1>5 DEF Pkg!InstallUndo, StageAt, StageOf, Pkg!Content
 <2>1. files' \in [Pkg!Entry -> Pkg!Content] /\ Others(n) /\ Becomes(n, Pkg!Absent, files[Pkg!Backup(n)], files[Pkg!Removal(n)])
   BY <1>1, <1>2, <1>5, <2>0, Puts DEF Pkg!InstallUndo
 <2>2. WorkStep(p) /\ work'[p] = work[p] /\ pc'[p] = "release"
   BY <1>0, <1>5, <2>0, GoesOn DEF Pkg!InstallUndo, Pkg!Fail
 <2>3. RestAt(n)' /\ WholeAt(n)' BY <2>0, <2>1 DEF RestAt, RestOf, WholeAt, WholeOf, Becomes
 <2>. QED BY <1>0, <1>1, <1>2, <2>0, <2>1, <2>2, <2>3, WorkMoves DEF Working
<1>. QED BY <1>3, <1>4, <1>5

\* What is there is moved aside, before an update or a removal.
LEMMA AsideSteps ==
  ASSUME PackInv, NEW p \in Process, Pkg!UpdateBackup(p) \/ Pkg!RemoveRename(p)
  PROVE  PackInv'
<1>0. pc[p] \in Working /\ UNCHANGED <<lock, crashes>>
  BY DEF Pkg!UpdateBackup, Pkg!RemoveRename, Pkg!SetAside, Working, Pkg!bounds,
         Pkg!StepFails
<1>1. PICK n \in Pkg!Name : n = work[p].name BY <1>0, AtWork
<1>2. /\ StageAt(pc[p], work[p], n) /\ RestAt(n)
      /\ files \in [Pkg!Entry -> Pkg!Content] /\ state \in [Pkg!Name -> Pkg!Version \cup {Pkg!Absent}]
      /\ changed \in SUBSET Pkg!Name
  BY <1>0, <1>1, AtWork
<1>3. /\ state[n] # Pkg!Absent /\ files[Pkg!Backup(n)] = Pkg!Absent /\ files[Pkg!Removal(n)] = Pkg!Absent
      /\ WholeAt(n) /\ changed' = changed
      /\ pc[p] = "updateBackup" => work[p].version \in Pkg!Version
  BY <1>2 DEF Pkg!UpdateBackup, Pkg!RemoveRename, StageAt, StageOf, WholeOf, WholeAt
<1>4. PICK b \in BOOLEAN : b = (files[n] # Pkg!Absent) OBVIOUS
<1>5. CASE Pkg!Fail(p) /\ UNCHANGED <<files, state, work>>
 <2>1. WorkStep(p) /\ work'[p] = work[p] /\ pc'[p] = "release" BY <1>0, <1>5, GoesOn DEF Pkg!Fail
 <2>2. RestAt(n)' /\ WholeAt(n)' BY <1>2, <1>3, <1>5 DEF RestAt, WholeAt
 <2>. QED BY <1>0, <1>1, <1>2, <1>3, <1>5, <2>1, <2>2, NotWritten, WorkMoves DEF Working
<1>6. CASE /\ pc[p] = "updateBackup"
           /\ IF files[n] = Pkg!Absent THEN UNCHANGED files ELSE Pkg!Rename(n, Pkg!Backup(n))
           /\ Pkg!Set(p, [work[p] EXCEPT !.moved = b]) /\ Pkg!Goto(p, "updateRename") /\ state' = state
 <2>1. /\ WorkStep(p) /\ work'[p].version = work[p].version /\ work'[p].moved = b /\ pc'[p] = "updateRename"
   BY <1>0, <1>6, GoesOn
 <2>2. files' \in [Pkg!Entry -> Pkg!Content] /\ Others(n) /\ Becomes(n, Pkg!Absent, files[n], files[Pkg!Removal(n)])
   BY <1>2, <1>3, <1>6, NotWritten, Renames DEF Same, Becomes
 <2>3. RestAt(n)' BY <1>2, <1>3, <1>6, <2>2 DEF RestAt, RestOf, WholeAt, WholeOf, Becomes
 <2>4. StageAt(pc[p], work[p], n)'
   BY <1>3, <1>4, <1>6, <2>1, <2>2 DEF StageAt, StageOf, WholeAt, WholeOf, Becomes
 <2>. QED BY <1>0, <1>1, <1>2, <1>3, <1>6, <2>1, <2>2, <2>3, <2>4, WorkMoves DEF Working
<1>7. CASE /\ pc[p] = "remove"
           /\ IF files[n] = Pkg!Absent THEN UNCHANGED files ELSE Pkg!Rename(n, Pkg!Removal(n))
           /\ Pkg!Set(p, [work[p] EXCEPT !.moved = b]) /\ Pkg!Goto(p, "removeSave") /\ state' = state
 <2>1. /\ WorkStep(p) /\ work'[p].moved = b /\ pc'[p] = "removeSave" BY <1>0, <1>7, GoesOn
 <2>2. files' \in [Pkg!Entry -> Pkg!Content] /\ Others(n) /\ Becomes(n, Pkg!Absent, files[Pkg!Backup(n)], files[n])
   BY <1>2, <1>3, <1>7, NotWritten, Renames DEF Same, Becomes
 <2>3. RestAt(n)' BY <1>2, <1>3, <1>7, <2>2 DEF RestAt, RestOf, WholeAt, WholeOf, Becomes
 <2>4. StageAt(pc[p], work[p], n)'
   BY <1>3, <1>4, <1>7, <2>1, <2>2 DEF StageAt, StageOf, WholeAt, WholeOf, Becomes
 <2>. QED BY <1>0, <1>1, <1>2, <1>3, <1>7, <2>1, <2>2, <2>3, <2>4, WorkMoves DEF Working
<1>. QED BY <1>1, <1>4, <1>5, <1>6, <1>7
     DEF Pkg!UpdateBackup, Pkg!RemoveRename, Pkg!SetAside, Pkg!StepFails

\* The steps of an update once its package is moved aside.
LEMMA UpdateSteps ==
  ASSUME PackInv, NEW p \in Process,
         Pkg!UpdateRename(p) \/ Pkg!UpdateSave(p) \/ Pkg!UpdateClean(p) \/ Pkg!UpdateUndo(p) \/ Pkg!UpdateRestore(p)
  PROVE  PackInv'
<1>0. pc[p] \in Working /\ UNCHANGED <<lock, crashes>>
  BY DEF Pkg!UpdateRename, Pkg!UpdateSave, Pkg!UpdateClean, Pkg!UpdateUndo,
         Pkg!UpdateRestore, Working, Pkg!bounds, Pkg!StepFails
<1>1. PICK n \in Pkg!Name : n = work[p].name BY <1>0, AtWork
<1>2. /\ StageAt(pc[p], work[p], n) /\ RestAt(n)
      /\ files \in [Pkg!Entry -> Pkg!Content] /\ state \in [Pkg!Name -> Pkg!Version \cup {Pkg!Absent}]
      /\ changed \in SUBSET Pkg!Name
  BY <1>0, <1>1, AtWork
<1>3. Pkg!Absent \in Pkg!Content /\ Pkg!Version \subseteq Pkg!Content /\ Pkg!Absent \notin Pkg!Version
  BY DEF Pkg!Content, Pkg!Version, Pkg!Absent
<1>4. CASE Pkg!UpdateRename(p)
 <2>0. /\ state[n] # Pkg!Absent /\ files[n] = Pkg!Absent /\ files[Pkg!Removal(n)] = Pkg!Absent
       /\ work[p].moved => files[Pkg!Backup(n)] # Pkg!Absent
       /\ files[Pkg!Backup(n)] # Pkg!Absent => work[p].moved
       /\ n \notin changed => files[Pkg!Backup(n)] = state[n]
       /\ work[p].version \in Pkg!Version /\ changed' = changed /\ state' = state /\ work' = work
   BY <1>2, <1>4 DEF Pkg!UpdateRename, StageAt, StageOf, Pkg!StepFails
 <2>1. CASE Pkg!Put(n, work[p].version) /\ Pkg!Goto(p, "updateSave")
  <3>1. files' \in [Pkg!Entry -> Pkg!Content] /\ Others(n) /\ Becomes(n, work[p].version, files[Pkg!Backup(n)], files[Pkg!Removal(n)])
    BY <1>2, <1>3, <2>0, <2>1, Puts
  <3>2. WorkStep(p) /\ work'[p] = work[p] /\ pc'[p] = "updateSave" BY <1>0, <2>0, <2>1, GoesOn
  <3>3. RestAt(n)' /\ StageAt(pc[p], work[p], n)'
    BY <2>0, <3>1, <3>2 DEF Becomes, RestAt, RestOf, StageAt, StageOf
  <3>. QED BY <1>0, <1>1, <1>2, <2>0, <3>1, <3>2, <3>3, WorkMoves DEF Working
 <2>2. CASE work[p].moved /\ Pkg!Goto(p, "updateRestore") /\ UNCHANGED files
  <3>1. WorkStep(p) /\ work'[p] = work[p] /\ pc'[p] = "updateRestore" BY <1>0, <2>0, <2>2, GoesOn
  <3>2. RestAt(n)' /\ StageAt(pc[p], work[p], n)'
    BY <2>0, <2>2, <3>1 DEF RestAt, RestOf, StageAt, StageOf
  <3>. QED BY <1>0, <1>1, <1>2, <2>0, <2>2, <3>1, <3>2, NotWritten, WorkMoves DEF Working
 <2>3. CASE ~work[p].moved /\ Pkg!Goto(p, "release") /\ UNCHANGED files
  <3>1. WorkStep(p) /\ work'[p] = work[p] /\ pc'[p] = "release" BY <1>0, <2>0, <2>3, GoesOn
  <3>2. RestAt(n)' /\ WholeAt(n)' BY <2>0, <2>3 DEF RestAt, RestOf, WholeAt, WholeOf
  <3>. QED BY <1>0, <1>1, <1>2, <2>0, <2>3, <3>1, <3>2, NotWritten, WorkMoves DEF Working
 <2>. QED BY <1>1, <1>4, <2>1, <2>2, <2>3 DEF Pkg!UpdateRename
<1>5. CASE Pkg!UpdateSave(p)
 <2>0. /\ state[n] # Pkg!Absent /\ files[n] = work[p].version /\ files[Pkg!Removal(n)] = Pkg!Absent
       /\ work[p].moved => files[Pkg!Backup(n)] # Pkg!Absent
       /\ files[Pkg!Backup(n)] # Pkg!Absent => work[p].moved
       /\ n \notin changed => files[Pkg!Backup(n)] = state[n]
       /\ work[p].version \in Pkg!Version /\ files' = files
   BY <1>2, <1>5 DEF Pkg!UpdateSave, StageAt, StageOf
 <2>1. CASE /\ Pkg!SaveState(p, [work[p].state EXCEPT ![work[p].name] = work[p].version])
            /\ Pkg!Goto(p, IF work[p].moved THEN "updateClean" ELSE "ready")
            /\ changed' = changed \ {work[p].name}
  <3>1. /\ WorkStep(p) /\ pc'[p] = (IF work[p].moved THEN "updateClean" ELSE "ready")
        /\ state' \in [Pkg!Name -> Pkg!Version \cup {Pkg!Absent}] /\ state'[n] = work[p].version
        /\ \A m \in Pkg!Name : m # n => state'[m] = state[m]
    BY <1>0, <1>1, <2>0, <2>1, GoesOn
  <3>2. RestAt(n)' /\ state'[n] # Pkg!Absent BY <1>3, <2>0, <3>1 DEF RestAt, RestOf
  <3>3. ASSUME pc'[p] \in Working PROVE StageAt(pc[p], work[p], n)'
   <4>1. pc'[p] = "updateClean" BY <3>1, <3>3 DEF Working
   <4>. QED BY <2>0, <3>1, <3>2, <4>1 DEF StageAt, StageOf
  <3>4. ASSUME pc'[p] \in {"ready", "release"} PROVE WholeAt(n)'
   <4>1. ~work[p].moved BY <3>1, <3>4
   <4>. QED BY <2>0, <3>1, <3>2, <4>1 DEF WholeAt, WholeOf
  <3>5. changed' \in SUBSET Pkg!Name /\ \A m \in Pkg!Name : m # n => (m \in changed' <=> m \in changed)
    BY <1>1, <1>2, <2>1
  <3>6. pc'[p] \in Working \cup {"ready", "release"} /\ files' \in [Pkg!Entry -> Pkg!Content] /\ Others(n)
    BY <1>2, <2>0, <3>1, NotWritten DEF Working
  <3>. QED BY <1>0, <1>1, <3>1, <3>2, <3>3, <3>4, <3>5, <3>6, WorkMoves
 <2>2. CASE Pkg!StepFails /\ Pkg!Goto(p, "updateUndo") /\ UNCHANGED changed
  <3>1. WorkStep(p) /\ work'[p] = work[p] /\ pc'[p] = "updateUndo" /\ state' = state
    BY <1>0, <2>2, GoesOn DEF Pkg!StepFails
  <3>2. RestAt(n)' /\ StageAt(pc[p], work[p], n)'
    BY <1>2, <2>0, <2>2, <3>1 DEF RestAt, RestOf, StageAt, StageOf
  <3>. QED BY <1>0, <1>1, <1>2, <2>0, <2>2, <3>1, <3>2, NotWritten, WorkMoves DEF Working
 <2>. QED BY <1>5, <2>1, <2>2 DEF Pkg!UpdateSave
<1>6. CASE Pkg!UpdateClean(p)
 <2>0. /\ state[n] # Pkg!Absent /\ files[n] = state[n] /\ files[Pkg!Removal(n)] = Pkg!Absent
       /\ changed' = changed /\ state' = state /\ work' = work
   BY <1>2, <1>6 DEF Pkg!UpdateClean, StageAt, StageOf
 <2>1. files' \in [Pkg!Entry -> Pkg!Content] /\ Others(n) /\ Becomes(n, files[n], Pkg!Absent, files[Pkg!Removal(n)])
   BY <1>1, <1>2, <1>3, <1>6, Puts DEF Pkg!UpdateClean
 <2>2. WorkStep(p) /\ work'[p] = work[p] /\ pc'[p] = "ready"
   BY <1>0, <1>6, <2>0, GoesOn DEF Pkg!UpdateClean
 <2>3. RestAt(n)' /\ WholeAt(n)' BY <2>0, <2>1 DEF RestAt, RestOf, WholeAt, WholeOf, Becomes
 <2>. QED BY <1>0, <1>1, <1>2, <2>0, <2>1, <2>2, <2>3, WorkMoves DEF Working
<1>7. CASE Pkg!UpdateUndo(p)
 <2>0. /\ state[n] # Pkg!Absent /\ files[Pkg!Removal(n)] = Pkg!Absent
       /\ work[p].moved => files[Pkg!Backup(n)] # Pkg!Absent
       /\ files[Pkg!Backup(n)] # Pkg!Absent => work[p].moved
       /\ n \notin changed => files[Pkg!Backup(n)] = state[n]
       /\ changed' = changed /\ state' = state /\ work' = work
   BY <1>2, <1>7 DEF Pkg!UpdateUndo, StageAt, StageOf
 <2>1. files' \in [Pkg!Entry -> Pkg!Content] /\ Others(n) /\ Becomes(n, Pkg!Absent, files[Pkg!Backup(n)], files[Pkg!Removal(n)])
   BY <1>1, <1>2, <1>3, <1>7, Puts DEF Pkg!UpdateUndo
 <2>2. WorkStep(p) /\ work'[p] = work[p] /\ pc'[p] = (IF work[p].moved THEN "updateRestore" ELSE "release")
   BY <1>0, <1>7, <2>0, GoesOn DEF Pkg!UpdateUndo
 <2>3. RestAt(n)' BY <2>0, <2>1 DEF RestAt, RestOf, Becomes
 <2>4. ASSUME pc'[p] \in Working PROVE StageAt(pc[p], work[p], n)'
  <3>1. pc'[p] = "updateRestore" /\ work[p].moved BY <2>2, <2>4 DEF Working
  <3>. QED BY <2>0, <2>1, <2>2, <3>1 DEF StageAt, StageOf, Becomes
 <2>5. ASSUME pc'[p] \in {"ready", "release"} PROVE WholeAt(n)'
  <3>1. ~work[p].moved BY <2>2, <2>5
  <3>. QED BY <2>0, <2>1, <3>1 DEF WholeAt, WholeOf, Becomes
 <2>6. pc'[p] \in Working \cup {"ready", "release"} BY <2>2 DEF Working
 <2>. QED BY <1>0, <1>1, <1>2, <2>0, <2>1, <2>2, <2>3, <2>4, <2>5, <2>6, WorkMoves
<1>8. CASE Pkg!UpdateRestore(p)
 <2>0. /\ state[n] # Pkg!Absent /\ files[n] = Pkg!Absent /\ files[Pkg!Removal(n)] = Pkg!Absent
       /\ n \notin changed => files[Pkg!Backup(n)] = state[n]
       /\ changed' = changed /\ state' = state /\ work' = work
   BY <1>2, <1>8 DEF Pkg!UpdateRestore, StageAt, StageOf
 <2>1. files' \in [Pkg!Entry -> Pkg!Content] /\ Others(n) /\ Becomes(n, files[Pkg!Backup(n)], Pkg!Absent, files[Pkg!Removal(n)])
   BY <1>1, <1>2, <1>8, Renames DEF Pkg!UpdateRestore
 <2>2. WorkStep(p) /\ work'[p] = work[p] /\ pc'[p] = "release"
   BY <1>0, <1>8, <2>0, GoesOn DEF Pkg!UpdateRestore, Pkg!Fail
 <2>3. RestAt(n)' /\ WholeAt(n)' BY <2>0, <2>1 DEF RestAt, RestOf, WholeAt, WholeOf, Becomes
 <2>. QED BY <1>0, <1>1, <1>2, <2>0, <2>1, <2>2, <2>3, WorkMoves DEF Working
<1>. QED BY <1>4, <1>5, <1>6, <1>7, <1>8

\* The steps of a removal once its package is moved aside.
LEMMA RemoveSteps ==
  ASSUME PackInv, NEW p \in Process, Pkg!RemoveSave(p) \/ Pkg!RemoveClean(p) \/ Pkg!RemoveUndo(p)
  PROVE  PackInv'
<1>0. pc[p] \in Working /\ UNCHANGED <<lock, crashes>>
  BY DEF Pkg!RemoveSave, Pkg!RemoveClean, Pkg!RemoveUndo, Working, Pkg!bounds,
         Pkg!StepFails
<1>1. PICK n \in Pkg!Name : n = work[p].name BY <1>0, AtWork
<1>2. /\ StageAt(pc[p], work[p], n) /\ RestAt(n)
      /\ files \in [Pkg!Entry -> Pkg!Content] /\ state \in [Pkg!Name -> Pkg!Version \cup {Pkg!Absent}]
      /\ changed \in SUBSET Pkg!Name
  BY <1>0, <1>1, AtWork
<1>3. Pkg!Absent \in Pkg!Content BY DEF Pkg!Content
<1>4. CASE Pkg!RemoveSave(p)
 <2>0. /\ state[n] # Pkg!Absent /\ files[n] = Pkg!Absent /\ files[Pkg!Backup(n)] = Pkg!Absent
       /\ work[p].moved => files[Pkg!Removal(n)] # Pkg!Absent
       /\ files[Pkg!Removal(n)] # Pkg!Absent => work[p].moved
       /\ n \notin changed => files[Pkg!Removal(n)] = state[n]
       /\ changed' = changed /\ files' = files
   BY <1>2, <1>4 DEF Pkg!RemoveSave, StageAt, StageOf
 <2>1. CASE /\ Pkg!SaveState(p, [work[p].state EXCEPT ![work[p].name] = Pkg!Absent])
            /\ Pkg!Goto(p, IF work[p].moved THEN "removeClean" ELSE "release")
  <3>1. /\ WorkStep(p) /\ pc'[p] = (IF work[p].moved THEN "removeClean" ELSE "release")
        /\ state' \in [Pkg!Name -> Pkg!Version \cup {Pkg!Absent}] /\ state'[n] = Pkg!Absent
        /\ \A m \in Pkg!Name : m # n => state'[m] = state[m]
    BY <1>0, <1>1, <2>1, GoesOn
  <3>2. RestAt(n)' BY <2>0, <3>1 DEF RestAt, RestOf
  <3>3. ASSUME pc'[p] \in Working PROVE StageAt(pc[p], work[p], n)'
   <4>1. pc'[p] = "removeClean" BY <3>1, <3>3 DEF Working
   <4>. QED BY <2>0, <3>1, <4>1 DEF StageAt, StageOf
  <3>4. ASSUME pc'[p] \in {"ready", "release"} PROVE WholeAt(n)'
   <4>1. ~work[p].moved BY <3>1, <3>4
   <4>. QED BY <2>0, <3>1, <4>1 DEF WholeAt, WholeOf
  <3>5. pc'[p] \in Working \cup {"ready", "release"} /\ files' \in [Pkg!Entry -> Pkg!Content] /\ Others(n)
    BY <1>2, <2>0, <3>1, NotWritten DEF Working
  <3>. QED BY <1>0, <1>1, <1>2, <2>0, <3>1, <3>2, <3>3, <3>4, <3>5, WorkMoves
 <2>2. CASE Pkg!StepFails /\ Pkg!Goto(p, IF work[p].moved THEN "removeUndo" ELSE "release")
  <3>1. /\ WorkStep(p) /\ work'[p] = work[p] /\ state' = state
        /\ pc'[p] = (IF work[p].moved THEN "removeUndo" ELSE "release")
    BY <1>0, <2>2, GoesOn DEF Pkg!StepFails
  <3>2. RestAt(n)' BY <1>2, <2>0, <3>1 DEF RestAt
  <3>3. ASSUME pc'[p] \in Working PROVE StageAt(pc[p], work[p], n)'
   <4>1. pc'[p] = "removeUndo" /\ work[p].moved BY <3>1, <3>3 DEF Working
   <4>. QED BY <2>0, <3>1, <4>1 DEF StageAt, StageOf
  <3>4. ASSUME pc'[p] \in {"ready", "release"} PROVE WholeAt(n)'
   <4>1. ~work[p].moved BY <3>1, <3>4
   <4>. QED BY <2>0, <3>1, <4>1 DEF WholeAt, WholeOf
  <3>5. pc'[p] \in Working \cup {"ready", "release"} /\ files' \in [Pkg!Entry -> Pkg!Content] /\ Others(n)
    BY <1>2, <2>0, <3>1, NotWritten DEF Working
  <3>. QED BY <1>0, <1>1, <1>2, <2>0, <3>1, <3>2, <3>3, <3>4, <3>5, WorkMoves
 <2>. QED BY <1>4, <2>1, <2>2 DEF Pkg!RemoveSave
<1>5. CASE Pkg!RemoveClean(p)
 <2>0. /\ state[n] = Pkg!Absent /\ files[n] = Pkg!Absent /\ files[Pkg!Backup(n)] = Pkg!Absent
       /\ changed' = changed /\ state' = state /\ work' = work
   BY <1>2, <1>5 DEF Pkg!RemoveClean, StageAt, StageOf
 <2>1. files' \in [Pkg!Entry -> Pkg!Content] /\ Others(n) /\ Becomes(n, files[n], files[Pkg!Backup(n)], Pkg!Absent)
   BY <1>1, <1>2, <1>3, <1>5, Puts DEF Pkg!RemoveClean
 <2>2. WorkStep(p) /\ work'[p] = work[p] /\ pc'[p] = "release"
   BY <1>0, <1>5, <2>0, GoesOn DEF Pkg!RemoveClean, Pkg!Fail
 <2>3. RestAt(n)' /\ WholeAt(n)' BY <2>0, <2>1 DEF RestAt, RestOf, WholeAt, WholeOf, Becomes
 <2>. QED BY <1>0, <1>1, <1>2, <2>0, <2>1, <2>2, <2>3, WorkMoves DEF Working
<1>6. CASE Pkg!RemoveUndo(p)
 <2>0. /\ state[n] # Pkg!Absent /\ files[n] = Pkg!Absent /\ files[Pkg!Backup(n)] = Pkg!Absent
       /\ n \notin changed => files[Pkg!Removal(n)] = state[n]
       /\ changed' = changed /\ state' = state /\ work' = work
   BY <1>2, <1>6 DEF Pkg!RemoveUndo, StageAt, StageOf
 <2>1. files' \in [Pkg!Entry -> Pkg!Content] /\ Others(n) /\ Becomes(n, files[Pkg!Removal(n)], files[Pkg!Backup(n)], Pkg!Absent)
   BY <1>1, <1>2, <1>6, Renames DEF Pkg!RemoveUndo
 <2>2. WorkStep(p) /\ work'[p] = work[p] /\ pc'[p] = "release"
   BY <1>0, <1>6, <2>0, GoesOn DEF Pkg!RemoveUndo, Pkg!Fail
 <2>3. RestAt(n)' /\ WholeAt(n)' BY <2>0, <2>1 DEF RestAt, RestOf, WholeAt, WholeOf, Becomes
 <2>. QED BY <1>0, <1>1, <1>2, <2>0, <2>1, <2>2, <2>3, WorkMoves DEF Working
<1>. QED BY <1>4, <1>5, <1>6

\* What to do with the next package is chosen, and what it is replaced with.
LEMMA ChoiceSteps ==
  ASSUME PackInv, NEW p \in Process, Pkg!Finish(p) \/ Pkg!Dispatch(p) \/ Pkg!Prepare(p)
  PROVE  PackInv'
<1>0. /\ UNCHANGED <<files, state, lock, changed, crashes>> /\ pc[p] \in Inner
      /\ pc[p] \in {"ready", "install", "update"}
  BY DEF Pkg!Finish, Pkg!Dispatch, Pkg!Prepare, Inner, Working, Pkg!bounds
<1>1. /\ work \in [Process -> OpT] /\ work[p] \in OpT /\ pc \in [Process -> Pkg!Outside \cup Inner]
      /\ files \in [Pkg!Entry -> Pkg!Content] /\ state \in [Pkg!Name -> Pkg!Version \cup {Pkg!Absent}]
      /\ changed \in SUBSET Pkg!Name /\ lock \in LockT
      /\ work[p].todo # {} => work[p].kind \in {"sync", "update", "remove"}
  BY DEF PackInv, PackTypes
<1>2. work[p].state = state /\ work[p].entries = {}
  BY <1>0 DEF PackInv, Holding, Knows, Inner, Working
<1>3. \A m \in Pkg!Name : RestAt(m)' BY <1>0 DEF PackInv, RestAt
<1>4. CASE Pkg!Finish(p)
 <2>1. pc' = [pc EXCEPT ![p] = pc'[p]] /\ pc'[p] = "release" /\ work' = [work EXCEPT ![p] = work'[p]] /\ work'[p] = work[p]
   BY <1>1, <1>4 DEF Pkg!Finish, Pkg!Fail, Pkg!Goto
 <2>2. Moves(p) BY <1>1, <2>1 DEF Moves
 <2>3. \A m \in Pkg!Name : WholeAt(m) BY <1>4 DEF Pkg!Finish, PackInv, Holding, Knows
 <2>4. \A m \in Pkg!Name : WholeAt(m)' BY <1>0, <2>3 DEF WholeAt
 <2>5. Knows(pc[p], work[p])' BY <1>0, <1>2, <2>1, <2>4 DEF Knows, Working
 <2>6. pc'[p] \in Inner BY <2>1 DEF Inner
 <2>. QED BY <1>0, <1>1, <1>3, <2>2, <2>5, <2>6, InnerMoves
<1>5. CASE Pkg!Dispatch(p)
 <2>1. PICK n \in work[p].todo :
         /\ Pkg!Set(p, [work[p] EXCEPT !.todo = @ \ {n}, !.name = n, !.moved = FALSE])
         /\ Pkg!Goto(p, CASE work[p].kind # "sync"           -> work[p].kind
                            [] n \in Pkg!Tracked(work[p].state)    -> "ready"
                            [] OTHER                         -> "install")
   BY <1>5 DEF Pkg!Dispatch
 <2>2. PICK o : o = [work[p] EXCEPT !.todo = @ \ {n}, !.name = n, !.moved = FALSE] OBVIOUS
 <2>3. n \in Pkg!Name /\ o \in OpT /\ o.todo = work[p].todo \ {n} /\ o.name = n /\ o.kind = work[p].kind
       /\ o.state = state /\ o.entries = {}
   BY <1>1, <1>2, <2>1, <2>2 DEF OpT
 <2>4. work' = [work EXCEPT ![p] = work'[p]] /\ work'[p] = o BY <1>1, <2>1, <2>2 DEF Pkg!Set
 <2>5. /\ work[p].kind # "sync" => work[p].kind \in {"update", "remove"} /\ n \in Pkg!Tracked(state)
   BY <1>1, <1>2, <1>5, <2>1 DEF Pkg!Dispatch
 <2>6. /\ pc' = [pc EXCEPT ![p] = pc'[p]]
       /\ \/ pc'[p] \in {"update", "remove"} /\ state[n] # Pkg!Absent
          \/ pc'[p] = "ready"
          \/ pc'[p] = "install" /\ state[n] = Pkg!Absent
   BY <1>1, <1>2, <2>1, <2>3, <2>5 DEF Pkg!Goto, Pkg!Tracked
 <2>7. Moves(p) BY SMTT(40), <1>1, <2>3, <2>4, <2>6 DEF Moves
 <2>8. \A m \in Pkg!Name : WholeAt(m) BY <1>5 DEF Pkg!Dispatch, PackInv, Holding, Knows
 <2>9. \A m \in Pkg!Name : WholeAt(m)' BY <1>0, <2>8 DEF WholeAt
 <2>10. pc'[p] \in Working => StageAt(pc[p], work[p], n)'
   BY <1>0, <2>3, <2>6, <2>9 DEF StageAt, StageOf, WholeAt, Working
 <2>11. pc'[p] \in Working \cup {"ready"} /\ pc'[p] \in Inner BY <2>6 DEF Working, Inner
 <2>12. Knows(pc[p], work[p])' BY <1>0, <2>3, <2>4, <2>9, <2>10, <2>11 DEF Knows, Working
 <2>. QED BY SMTT(40), <1>0, <1>1, <1>3, <2>7, <2>11, <2>12, InnerMoves
<1>6. CASE Pkg!Prepare(p)
 <2>0. pc[p] \in Working BY <1>6 DEF Pkg!Prepare, Working
 <2>1. PICK n \in Pkg!Name : n = work[p].name BY <2>0, AtWork
 <2>2. StageAt(pc[p], work[p], n) BY <2>0, <2>1, AtWork
 <2>3. /\ WholeAt(n) /\ (pc[p] = "install" => state[n] = Pkg!Absent) /\ (pc[p] = "update" => state[n] # Pkg!Absent)
   BY <1>6, <2>2 DEF Pkg!Prepare, StageAt, StageOf, WholeAt
 <2>4. WholeAt(n)' /\ RestAt(n)' BY <1>0, <1>3, <2>3 DEF WholeAt
 <2>5. Others(n) BY <1>0, NotWritten
 <2>6. ASSUME NEW v \in Pkg!Version, Pkg!Set(p, [work[p] EXCEPT !.version = v]), NEW s, Pkg!Goto(p, s),
              \/ pc[p] = "install" /\ s = "installRename"
              \/ pc[p] = "update" /\ s \in {"updateBackup", "ready"}
       PROVE  PackInv'
  <3>1. WorkStep(p) /\ work'[p].version = v /\ pc'[p] = s BY <1>0, <2>0, <2>6, GoesOn
  <3>2. s \in Working => StageAt(pc[p], work[p], n)'
    BY <1>0, <2>3, <2>4, <2>6, <3>1 DEF StageAt, StageOf, WholeAt, Working
  <3>3. s \in Working \cup {"ready", "release"} BY <2>6 DEF Working
  <3>. QED BY <1>0, <1>1, <2>0, <2>1, <2>4, <2>5, <3>1, <3>2, <3>3, WorkMoves
 <2>7. CASE Pkg!Fail(p) /\ UNCHANGED work
  <3>1. WorkStep(p) /\ pc'[p] = "release" BY <1>0, <2>0, <2>7, GoesOn DEF Pkg!Fail
  <3>. QED BY <1>0, <1>1, <2>0, <2>1, <2>4, <2>5, <3>1, WorkMoves DEF Working
 <2>8. ASSUME NEW v \in Pkg!Version, Pkg!Set(p, [work[p] EXCEPT !.version = v]),
              IF pc[p] = "install" THEN Pkg!Goto(p, "installRename")
              ELSE Pkg!Goto(p, "updateBackup") \/ Pkg!Goto(p, "ready")
       PROVE  PackInv'
  <3>1. CASE pc[p] = "install" BY <2>6, <2>8, <3>1
  <3>2. CASE pc[p] = "update" BY <2>6, <2>8, <3>2
  <3>. QED BY <1>6, <3>1, <3>2 DEF Pkg!Prepare
 <2>. QED BY <1>6, <2>7, <2>8 DEF Pkg!Prepare
<1>. QED BY SMTT(40), <1>4, <1>5, <1>6

----------------------------------------
(* Recovery.                                                               *)

\* The facts of a process that recovers.
LEMMA AtRecovery ==
  ASSUME PackInv, NEW p \in Process, pc[p] \in {"recover", "restore"}
  PROVE  /\ work[p] \in OpT /\ work[p].state = state /\ work[p].entries \in SUBSET Pkg!Entry
         /\ \A n \in Pkg!Name : RecoveringAt(pc[p], work[p], n) /\ RestAt(n)
         /\ pc[p] = "restore" => Restoring(work[p])
         /\ files \in [Pkg!Entry -> Pkg!Content] /\ state \in [Pkg!Name -> Pkg!Version \cup {Pkg!Absent}]
         /\ changed \in SUBSET Pkg!Name /\ pc \in [Process -> Pkg!Outside \cup Inner]
         /\ work[p].todo # {} => work[p].kind \in {"sync", "update", "remove"}
         /\ pc[p] \in Inner /\ lock \in LockT
<1>1. Knows(pc[p], work[p]) /\ pc[p] \in Inner /\ pc[p] \notin {"lockWrite", "load"}
  BY DEF PackInv, Holding, Inner, Working
<1>2. work[p] \in OpT /\ work[p].entries \in SUBSET Pkg!Entry BY DEF PackInv, PackTypes, OpT
<1>. QED BY <1>1, <1>2 DEF Knows, Recovering, PackInv, PackTypes

\* A step of the recovery looks at an entry e of package n, and leaves the others.
LEMMA RecoverMoves ==
  ASSUME PackInv, NEW p \in Process, NEW n \in Pkg!Name, NEW e \in {n, Pkg!Backup(n), Pkg!Removal(n)},
         pc[p] \in {"recover", "restore"}, pc[p] = "restore" => work[p].name = n,
         Moves(p), pc'[p] \in {"recover", "restore"},
         work'[p].state = work[p].state, work'[p].entries = work[p].entries \ {e},
         files' \in [Pkg!Entry -> Pkg!Content], Others(n),
         UNCHANGED <<state, lock, changed, crashes>>,
         RestAt(n)', RecoveringAt(pc[p], work[p], n)', pc'[p] = "restore" => Restoring(work[p])'
  PROVE  PackInv'
<1>1. /\ work[p].state = state
      /\ \A m \in Pkg!Name : RecoveringAt(pc[p], work[p], m) /\ RestAt(m)
      /\ state \in [Pkg!Name -> Pkg!Version \cup {Pkg!Absent}] /\ changed \in SUBSET Pkg!Name
      /\ pc[p] \in Inner /\ lock \in LockT
  BY AtRecovery
<1>2. \A m \in Pkg!Name : m # n => RestAt(m)' BY <1>1, OthersKept
<1>3. ASSUME NEW m \in Pkg!Name, m # n PROVE RecoveringAt(pc[p], work[p], m)'
 <2>1. m # e /\ Pkg!Backup(m) # e /\ Pkg!Removal(m) # e BY <1>3, Entries
 <2>2. /\ m \in work'[p].entries <=> m \in work[p].entries
       /\ Pkg!Backup(m) \in work'[p].entries <=> Pkg!Backup(m) \in work[p].entries
       /\ Pkg!Removal(m) \in work'[p].entries <=> Pkg!Removal(m) \in work[p].entries
   BY <2>1
 <2>3. files'[m] = files[m] /\ files'[Pkg!Backup(m)] = files[Pkg!Backup(m)] /\ files'[Pkg!Removal(m)] = files[Pkg!Removal(m)]
   BY <1>3 DEF Others, Same, Becomes
 <2>. QED BY <1>1, <1>3, <2>2, <2>3 DEF RecoveringAt
<1>4. Knows(pc[p], work[p])'
 <2>1. pc'[p] \notin Working \cup {"ready", "release"} BY DEF Working
 <2>2. Recovering(pc[p], work[p])' BY <1>3 DEF Recovering
 <2>. QED BY <1>1, <2>1, <2>2 DEF Knows
<1>5. pc'[p] \in Inner BY DEF Inner
<1>. QED BY <1>1, <1>2, <1>4, <1>5, InnerMoves

LEMMA LoadSteps ==
  ASSUME PackInv, NEW p \in Process, Pkg!Load(p) \/ Pkg!CannotRecover(p) \/ Pkg!Recovered(p)
  PROVE  PackInv'
<1>0. /\ UNCHANGED <<files, state, lock, changed, crashes>> /\ pc[p] \in Inner
      /\ pc[p] \in {"load", "recover"}
  BY DEF Pkg!Load, Pkg!CannotRecover, Pkg!Recovered, Inner, Pkg!bounds
<1>1. /\ work \in [Process -> OpT] /\ work[p] \in OpT /\ pc \in [Process -> Pkg!Outside \cup Inner]
      /\ files \in [Pkg!Entry -> Pkg!Content] /\ state \in [Pkg!Name -> Pkg!Version \cup {Pkg!Absent}]
      /\ changed \in SUBSET Pkg!Name /\ lock \in LockT
      /\ work[p].todo # {} => work[p].kind \in {"sync", "update", "remove"}
  BY DEF PackInv, PackTypes
<1>2. \A m \in Pkg!Name : RestAt(m) /\ RestAt(m)' BY <1>0 DEF PackInv, RestAt
<1>3. CASE Pkg!Load(p)
 <2>1. PICK E \in SUBSET Pkg!Entry : E = {e \in Pkg!Entry : files[e] # Pkg!Absent} OBVIOUS
 <2>2. PICK o : o = [work[p] EXCEPT !.state = state, !.entries = E] OBVIOUS
 <2>3. o \in OpT /\ o.entries = E /\ o.state = state /\ o.todo = work[p].todo /\ o.kind = work[p].kind
   BY <1>1, <2>2 DEF OpT
 <2>4. work' = [work EXCEPT ![p] = work'[p]] /\ work'[p] = o /\ pc' = [pc EXCEPT ![p] = pc'[p]] /\ pc'[p] = "recover"
   BY <1>1, <1>3, <2>1, <2>2 DEF Pkg!Load, Pkg!Set, Pkg!Goto
 <2>5. Moves(p) BY <1>1, <2>3, <2>4 DEF Moves
 <2>6. ASSUME NEW n \in Pkg!Name PROVE RecoveringAt(pc[p], work[p], n)'
  <3>1. n \in Pkg!Entry /\ Pkg!Backup(n) \in Pkg!Entry /\ Pkg!Removal(n) \in Pkg!Entry BY Entries
  <3>. QED BY <1>0, <2>1, <2>3, <2>4, <3>1 DEF RecoveringAt
 <2>7. Knows(pc[p], work[p])' BY <1>0, <2>3, <2>4, <2>6 DEF Knows, Recovering, Working
 <2>8. pc'[p] \in Inner BY <2>4 DEF Inner
 <2>. QED BY <1>0, <1>1, <1>2, <2>5, <2>7, <2>8, InnerMoves
<1>4. CASE Pkg!CannotRecover(p) \/ Pkg!Recovered(p)
 <2>1. pc[p] = "recover" /\ work' = work BY <1>4 DEF Pkg!CannotRecover, Pkg!Recovered
 <2>2. work[p].state = state /\ \A n \in Pkg!Name : RecoveringAt(pc[p], work[p], n)
   BY <2>1, AtRecovery
 <2>3. /\ pc' = [pc EXCEPT ![p] = pc'[p]]
       /\ \/ pc'[p] = "release" /\ work[p].entries # {}
          \/ pc'[p] = "ready" /\ work[p].entries = {}
   BY <1>1, <1>4 DEF Pkg!CannotRecover, Pkg!Recovered, Pkg!Fail, Pkg!Goto
 <2>4. Moves(p) BY <1>1, <2>1, <2>3 DEF Moves
 <2>5. ASSUME work[p].entries = {}, NEW n \in Pkg!Name PROVE WholeAt(n)'
  <3>1. /\ files[Pkg!Backup(n)] = Pkg!Absent /\ files[Pkg!Removal(n)] = Pkg!Absent
        /\ files[n] # Pkg!Absent => state[n] # Pkg!Absent
    BY <2>1, <2>2, <2>5 DEF RecoveringAt
  <3>2. n \notin changed /\ state[n] # Pkg!Absent => files[n] = state[n]
    BY <1>2, <3>1 DEF RestAt, RestOf
  <3>. QED BY <1>0, <3>1, <3>2 DEF WholeAt, WholeOf
 <2>6. Knows(pc[p], work[p])' BY <1>0, <2>1, <2>2, <2>3, <2>5 DEF Knows, Working
 <2>7. pc'[p] \in Inner BY SMTT(40), <2>3 DEF Inner
 <2>. QED BY <1>0, <1>1, <1>2, <2>4, <2>6, <2>7, InnerMoves
<1>. QED BY <1>3, <1>4

\* The operation after a look at entry e.
LEMMA Looks ==
  ASSUME PackInv, NEW p \in Process, pc[p] = "recover", NEW e \in work[p].entries
  PROVE  /\ Pkg!Seen(p, e) /\ pc' = pc =>
              Moves(p) /\ work'[p].state = work[p].state /\ work'[p].entries = work[p].entries \ {e}
         /\ \A n \in Pkg!Name : Pkg!Set(p, [work[p] EXCEPT !.entries = @ \ {e}, !.name = n]) /\ Pkg!Goto(p, "restore") =>
              /\ Moves(p) /\ work'[p].state = work[p].state /\ work'[p].entries = work[p].entries \ {e}
              /\ work'[p].name = n /\ pc'[p] = "restore"
<1>1. /\ work \in [Process -> OpT] /\ work[p] \in OpT /\ pc \in [Process -> Pkg!Outside \cup Inner]
      /\ work[p].todo # {} => work[p].kind \in {"sync", "update", "remove"}
  BY DEF PackInv, PackTypes
<1>2. ASSUME Pkg!Seen(p, e), pc' = pc
      PROVE  Moves(p) /\ work'[p].state = work[p].state /\ work'[p].entries = work[p].entries \ {e}
 <2>1. PICK o : o = [work[p] EXCEPT !.entries = @ \ {e}] OBVIOUS
 <2>2. /\ o \in OpT /\ o.state = work[p].state /\ o.entries = work[p].entries \ {e}
       /\ o.todo = work[p].todo /\ o.kind = work[p].kind
   BY <1>1, <2>1 DEF OpT
 <2>3. work' = [work EXCEPT ![p] = work'[p]] /\ work'[p] = o
   BY <1>1, <1>2, <2>1 DEF Pkg!Seen, Pkg!Set
 <2>. QED BY <1>1, <1>2, <2>2, <2>3 DEF Moves
<1>3. ASSUME NEW n \in Pkg!Name, Pkg!Set(p, [work[p] EXCEPT !.entries = @ \ {e}, !.name = n]), Pkg!Goto(p, "restore")
      PROVE  /\ Moves(p) /\ work'[p].state = work[p].state /\ work'[p].entries = work[p].entries \ {e}
             /\ work'[p].name = n /\ pc'[p] = "restore"
 <2>1. PICK o : o = [work[p] EXCEPT !.entries = @ \ {e}, !.name = n] OBVIOUS
 <2>2. /\ o \in OpT /\ o.state = work[p].state /\ o.entries = work[p].entries \ {e} /\ o.name = n
       /\ o.todo = work[p].todo /\ o.kind = work[p].kind
   BY <1>1, <2>1 DEF OpT
 <2>3. work' = [work EXCEPT ![p] = work'[p]] /\ work'[p] = o /\ pc' = [pc EXCEPT ![p] = pc'[p]] /\ pc'[p] = "restore"
   BY <1>1, <1>3, <2>1 DEF Pkg!Set, Pkg!Goto
 <2>. QED BY <1>1, <2>2, <2>3 DEF Moves
<1>. QED BY <1>2, <1>3

\* A package that is not in the state is removed; one that is stays.
LEMMA UntrackedStep ==
  ASSUME PackInv, NEW p \in Process, Pkg!RecoverUntracked(p)
  PROVE  PackInv'
<1>0. /\ pc[p] = "recover" /\ pc' = pc /\ UNCHANGED <<state, lock, changed, crashes>>
  BY DEF Pkg!RecoverUntracked, Pkg!bounds
<1>1. PICK e \in work[p].entries :
         /\ Pkg!IsNext(p, e) /\ ~Pkg!IsMarker(e) /\ Pkg!Seen(p, e)
         /\ IF Pkg!Untracked(p, e) THEN Pkg!Put(e, Pkg!Absent) ELSE UNCHANGED files
  BY DEF Pkg!RecoverUntracked
<1>2. e \in Pkg!Entry /\ work[p].state = state /\ files \in [Pkg!Entry -> Pkg!Content] /\ Pkg!Absent \in Pkg!Content
  BY <1>0, AtRecovery DEF Pkg!Content
<1>3. PICK n \in Pkg!Name : n = e BY <1>1, <1>2, EntryKinds
<1>4. RecoveringAt(pc[p], work[p], n) /\ RestAt(n) BY <1>0, AtRecovery
<1>5. Moves(p) /\ work'[p].state = work[p].state /\ work'[p].entries = work[p].entries \ {n}
  BY <1>0, <1>1, <1>3, Looks
<1>6. Pkg!Backup(n) # n /\ Pkg!Removal(n) # n BY Entries
<1>7. CASE Pkg!Untracked(p, e)
 <2>1. files' \in [Pkg!Entry -> Pkg!Content] /\ Others(n) /\ Becomes(n, Pkg!Absent, files[Pkg!Backup(n)], files[Pkg!Removal(n)])
   BY <1>1, <1>2, <1>3, <1>7, Puts
 <2>2. state[n] = Pkg!Absent BY <1>2, <1>3, <1>7 DEF Pkg!Untracked
 <2>3. RestAt(n)' BY <1>0, <1>4, <2>1, <2>2 DEF RestAt, RestOf, Becomes
 <2>4. RecoveringAt(pc[p], work[p], n)' BY <1>0, <1>4, <1>5, <1>6, <2>1 DEF RecoveringAt, Becomes
 <2>. QED BY <1>0, <1>5, <2>1, <2>3, <2>4, RecoverMoves
<1>8. CASE ~Pkg!Untracked(p, e)
 <2>1. files' = files /\ state[n] # Pkg!Absent BY <1>1, <1>2, <1>3, <1>8 DEF Pkg!Untracked
 <2>2. RestAt(n)' /\ RecoveringAt(pc[p], work[p], n)' /\ Others(n)
   BY <1>0, <1>4, <1>5, <1>6, <2>1, NotWritten DEF RestAt, RecoveringAt
 <2>. QED BY <1>0, <1>2, <1>5, <2>1, <2>2, RecoverMoves
<1>. QED BY <1>7, <1>8

\* The marker at hand, and what is known of its package.
LEMMA AtMarker ==
  ASSUME PackInv, NEW p \in Process, pc[p] = "recover", NEW e \in work[p].entries, Pkg!IsNext(p, e), Pkg!IsMarker(e)
  PROVE  \E n \in Pkg!Name :
           /\ Pkg!Front(e) = n /\ RecoveringAt(pc[p], work[p], n) /\ RestAt(n)
           /\ files[e] # Pkg!Absent /\ work[p].entries \cap Pkg!Name = {}
           /\ \/ e = Pkg!Backup(n) /\ Pkg!Last(e) = "backup" /\ Pkg!Removal(n) # e
              \/ e = Pkg!Removal(n) /\ Pkg!Last(e) # "backup" /\ Pkg!Backup(n) # e
<1>1. e \in Pkg!Entry BY AtRecovery
<1>2. PICK n \in Pkg!Name : /\ Pkg!Front(e) = n
                            /\ \/ e = Pkg!Backup(n) /\ Pkg!Last(e) = "backup"
                               \/ e = Pkg!Removal(n) /\ Pkg!Last(e) # "backup"
  BY <1>1, Markers
<1>3. RecoveringAt(pc[p], work[p], n) /\ RestAt(n) BY AtRecovery
<1>4. work[p].entries \cap Pkg!Name = {} BY <1>1, NamesFirst
<1>5. files[e] # Pkg!Absent BY <1>2, <1>3 DEF RecoveringAt
<1>6. Pkg!Backup(n) # Pkg!Removal(n) BY Entries
<1>. QED BY <1>2, <1>3, <1>4, <1>5, <1>6

\* A package that is gone gets back what a marker keeps.
LEMMA MissingStep ==
  ASSUME PackInv, NEW p \in Process, Pkg!RecoverMissing(p)
  PROVE  PackInv'
<1>0. /\ pc[p] = "recover" /\ pc' = pc /\ UNCHANGED <<state, lock, changed, crashes>>
      /\ work[p].state = state /\ files \in [Pkg!Entry -> Pkg!Content]
  BY AtRecovery DEF Pkg!RecoverMissing, Pkg!bounds
<1>1. PICK e \in work[p].entries :
         /\ Pkg!IsNext(p, e) /\ Pkg!IsMarker(e) /\ work[p].state[Pkg!Front(e)] # Pkg!Absent /\ files[Pkg!Front(e)] = Pkg!Absent
         /\ Pkg!Rename(e, Pkg!Front(e)) /\ Pkg!Seen(p, e)
  BY DEF Pkg!RecoverMissing
<1>2. PICK n \in Pkg!Name :
         /\ Pkg!Front(e) = n /\ RecoveringAt(pc[p], work[p], n) /\ RestAt(n)
         /\ files[e] # Pkg!Absent /\ work[p].entries \cap Pkg!Name = {}
         /\ \/ e = Pkg!Backup(n) /\ Pkg!Last(e) = "backup" /\ Pkg!Removal(n) # e
            \/ e = Pkg!Removal(n) /\ Pkg!Last(e) # "backup" /\ Pkg!Backup(n) # e
  BY SMTT(40), <1>0, <1>1, AtMarker
<1>3. Moves(p) /\ work'[p].state = work[p].state /\ work'[p].entries = work[p].entries \ {e}
  BY <1>0, <1>1, Looks
<1>4. state[n] # Pkg!Absent /\ files[n] = Pkg!Absent /\ Pkg!Rename(e, n) BY <1>0, <1>1, <1>2
<1>5. CASE e = Pkg!Backup(n)
 <2>1. files' \in [Pkg!Entry -> Pkg!Content] /\ Others(n) /\ Becomes(n, files[Pkg!Backup(n)], Pkg!Absent, files[Pkg!Removal(n)])
   BY <1>0, <1>4, <1>5, Renames
 <2>2. RestAt(n)' BY <1>0, <1>2, <1>4, <1>5, <2>1 DEF RestAt, RestOf, Becomes
 <2>3. RecoveringAt(pc[p], work[p], n)'
   BY <1>0, <1>2, <1>3, <1>4, <1>5, <2>1 DEF RecoveringAt, RestAt, RestOf, Becomes
 <2>. QED BY <1>0, <1>3, <1>5, <2>1, <2>2, <2>3, RecoverMoves
<1>6. CASE e = Pkg!Removal(n) /\ Pkg!Backup(n) # e
 <2>1. files' \in [Pkg!Entry -> Pkg!Content] /\ Others(n) /\ Becomes(n, files[Pkg!Removal(n)], files[Pkg!Backup(n)], Pkg!Absent)
   BY <1>0, <1>4, <1>6, Renames
 <2>2. RestAt(n)' BY <1>0, <1>2, <1>4, <1>6, <2>1 DEF RestAt, RestOf, Becomes
 <2>3. RecoveringAt(pc[p], work[p], n)'
   BY <1>0, <1>2, <1>3, <1>4, <1>6, <2>1 DEF RecoveringAt, RestAt, RestOf, Becomes
 <2>. QED BY <1>0, <1>3, <1>6, <2>1, <2>2, <2>3, RecoverMoves
<1>. QED BY <1>2, <1>5, <1>6

\* A marker nothing needs is removed.
LEMMA CleanStep ==
  ASSUME PackInv, NEW p \in Process, Pkg!RecoverClean(p)
  PROVE  PackInv'
<1>0. /\ pc[p] = "recover" /\ pc' = pc /\ UNCHANGED <<state, lock, changed, crashes>>
      /\ work[p].state = state /\ files \in [Pkg!Entry -> Pkg!Content] /\ Pkg!Absent \in Pkg!Content
  BY AtRecovery DEF Pkg!RecoverClean, Pkg!bounds, Pkg!Content
<1>1. PICK e \in work[p].entries : Pkg!Unneeded(p, e) /\ Pkg!Put(e, Pkg!Absent) /\ Pkg!Seen(p, e)
  BY DEF Pkg!RecoverClean
<1>2. PICK n \in Pkg!Name :
         /\ Pkg!Front(e) = n /\ RecoveringAt(pc[p], work[p], n) /\ RestAt(n)
         /\ files[e] # Pkg!Absent /\ work[p].entries \cap Pkg!Name = {}
         /\ \/ e = Pkg!Backup(n) /\ Pkg!Last(e) = "backup" /\ Pkg!Removal(n) # e
            \/ e = Pkg!Removal(n) /\ Pkg!Last(e) # "backup" /\ Pkg!Backup(n) # e
  BY <1>0, <1>1, AtMarker DEF Pkg!Unneeded
<1>3. Moves(p) /\ work'[p].state = work[p].state /\ work'[p].entries = work[p].entries \ {e}
  BY <1>0, <1>1, Looks
<1>4. /\ state[n] # Pkg!Absent => files[n] # Pkg!Absent
      /\ e = Pkg!Backup(n) /\ state[n] # Pkg!Absent => files[n] = state[n]
  BY <1>0, <1>1, <1>2 DEF Pkg!Unneeded, Pkg!Interrupted
<1>5. CASE e = Pkg!Backup(n)
 <2>1. files' \in [Pkg!Entry -> Pkg!Content] /\ Others(n) /\ Becomes(n, files[n], Pkg!Absent, files[Pkg!Removal(n)])
   BY <1>0, <1>1, <1>5, Puts
 <2>2. RestAt(n)' BY <1>0, <1>2, <1>4, <1>5, <2>1 DEF RestAt, RestOf, Becomes
 <2>3. RecoveringAt(pc[p], work[p], n)'
   BY <1>0, <1>2, <1>3, <1>4, <1>5, <2>1 DEF RecoveringAt, RestAt, RestOf, Becomes
 <2>. QED BY <1>0, <1>3, <1>5, <2>1, <2>2, <2>3, RecoverMoves
<1>6. CASE e = Pkg!Removal(n) /\ Pkg!Backup(n) # e
 <2>1. files' \in [Pkg!Entry -> Pkg!Content] /\ Others(n) /\ Becomes(n, files[n], files[Pkg!Backup(n)], Pkg!Absent)
   BY <1>0, <1>1, <1>6, Puts
 <2>2. RestAt(n)' BY <1>0, <1>2, <1>4, <1>6, <2>1 DEF RestAt, RestOf, Becomes
 <2>3. RecoveringAt(pc[p], work[p], n)'
   BY <1>0, <1>2, <1>3, <1>4, <1>6, <2>1 DEF RecoveringAt, RestAt, RestOf, Becomes
 <2>. QED BY <1>0, <1>3, <1>6, <2>1, <2>2, <2>3, RecoverMoves
<1>. QED BY <1>2, <1>5, <1>6

\* An update that was cut short is taken back, in two steps.
LEMMA RollBackSteps ==
  ASSUME PackInv, NEW p \in Process, Pkg!RecoverRollBack(p) \/ Pkg!Restore(p)
  PROVE  PackInv'
<1>0. /\ pc[p] \in {"recover", "restore"} /\ UNCHANGED <<state, lock, changed, crashes>>
      /\ work[p].state = state /\ files \in [Pkg!Entry -> Pkg!Content] /\ Pkg!Absent \in Pkg!Content
      /\ work[p] \in OpT /\ work \in [Process -> OpT] /\ pc \in [Process -> Pkg!Outside \cup Inner]
      /\ work[p].todo # {} => work[p].kind \in {"sync", "update", "remove"}
  BY AtRecovery
     DEF Pkg!RecoverRollBack, Pkg!Restore, Pkg!bounds, Pkg!Content, PackInv, PackTypes
<1>1. CASE Pkg!RecoverRollBack(p)
 <2>0. pc[p] = "recover" BY <1>1 DEF Pkg!RecoverRollBack
 <2>1. PICK e \in work[p].entries :
         /\ Pkg!RollsBack(p, e) /\ Pkg!Put(Pkg!Front(e), Pkg!Absent)
         /\ Pkg!Set(p, [work[p] EXCEPT !.entries = @ \ {e}, !.name = Pkg!Front(e)])
   BY <1>1 DEF Pkg!RecoverRollBack
 <2>2. PICK n \in Pkg!Name :
         /\ Pkg!Front(e) = n /\ RecoveringAt(pc[p], work[p], n) /\ RestAt(n)
         /\ files[e] # Pkg!Absent /\ work[p].entries \cap Pkg!Name = {}
         /\ \/ e = Pkg!Backup(n) /\ Pkg!Last(e) = "backup" /\ Pkg!Removal(n) # e
            \/ e = Pkg!Removal(n) /\ Pkg!Last(e) # "backup" /\ Pkg!Backup(n) # e
   BY <2>0, <2>1, AtMarker DEF Pkg!RollsBack, Pkg!Interrupted
 <2>3. /\ e = Pkg!Backup(n) /\ state[n] # Pkg!Absent /\ files[n] # Pkg!Absent /\ files[Pkg!Backup(n)] = state[n]
       /\ Pkg!Put(n, Pkg!Absent) /\ Pkg!Removal(n) # e /\ n # e
   BY SMTT(40), <1>0, <2>1, <2>2, Entries DEF Pkg!RollsBack, Pkg!Interrupted
 <2>4. /\ Moves(p) /\ work'[p].state = work[p].state /\ work'[p].entries = work[p].entries \ {e}
       /\ work'[p].name = n /\ pc'[p] = "restore"
   BY <1>1, <2>0, <2>1, <2>2, Looks DEF Pkg!RecoverRollBack
 <2>5. files' \in [Pkg!Entry -> Pkg!Content] /\ Others(n) /\ Becomes(n, Pkg!Absent, files[Pkg!Backup(n)], files[Pkg!Removal(n)])
   BY <1>0, <2>3, Puts
 <2>6. RestAt(n)' BY <1>0, <2>2, <2>3, <2>5 DEF RestAt, RestOf, Becomes
 <2>7. RecoveringAt(pc[p], work[p], n)' BY <1>0, <2>2, <2>3, <2>4, <2>5 DEF RecoveringAt, Becomes
 <2>8. Restoring(work[p])' BY <1>0, <2>2, <2>3, <2>4, <2>5 DEF Restoring, Becomes
 <2>. QED BY <1>0, <2>0, <2>3, <2>4, <2>5, <2>6, <2>7, <2>8, RecoverMoves
<1>2. CASE Pkg!Restore(p)
 <2>0. pc[p] = "restore" BY <1>2 DEF Pkg!Restore
 <2>1. PICK n \in Pkg!Name : n = work[p].name BY <2>0, AtRecovery DEF Restoring
 <2>2. /\ work[p].entries \cap Pkg!Name = {} /\ Pkg!Backup(n) \notin work[p].entries
       /\ state[n] # Pkg!Absent /\ files[n] = Pkg!Absent /\ files[Pkg!Backup(n)] = state[n]
       /\ RecoveringAt(pc[p], work[p], n) /\ RestAt(n)
   BY <2>0, <2>1, AtRecovery DEF Restoring
 <2>3. files' \in [Pkg!Entry -> Pkg!Content] /\ Others(n) /\ Becomes(n, files[Pkg!Backup(n)], Pkg!Absent, files[Pkg!Removal(n)])
   BY <1>0, <1>2, <2>1, Renames DEF Pkg!Restore
 <2>4. PICK o : o = [work[p] EXCEPT !.name = <<>>] OBVIOUS
 <2>5. o \in OpT /\ o.state = work[p].state /\ o.entries = work[p].entries /\ o.todo = work[p].todo /\ o.kind = work[p].kind
   BY <1>0, <2>4 DEF OpT
 <2>6. work' = [work EXCEPT ![p] = work'[p]] /\ work'[p] = o /\ pc' = [pc EXCEPT ![p] = pc'[p]] /\ pc'[p] = "recover"
   BY <1>0, <1>2, <2>4 DEF Pkg!Restore, Pkg!Set, Pkg!Goto
 <2>7. Moves(p) /\ work'[p].state = work[p].state /\ work'[p].entries = work[p].entries \ {Pkg!Backup(n)}
   BY <1>0, <2>2, <2>5, <2>6 DEF Moves
 <2>8. RestAt(n)' BY <1>0, <2>2, <2>3 DEF RestAt, RestOf, Becomes
 <2>9. RecoveringAt(pc[p], work[p], n)'
   BY <1>0, <2>2, <2>5, <2>6, <2>3 DEF RecoveringAt, RestAt, RestOf, Becomes
 <2>. QED BY <1>0, <2>0, <2>1, <2>3, <2>6, <2>7, <2>8, <2>9, RecoverMoves
<1>. QED BY <1>1, <1>2

----------------------------------------
(* The lock, and what ends an operation from outside.                      *)

LEMMA NoOpType == Pkg!NoOp \in OpT /\ Pkg!NoOp.todo = {} /\ Pkg!Free \in LockT /\ Pkg!Free.owner = "nobody" /\ Pkg!Free.dead = FALSE
  BY DEF Pkg!NoOp, OpT, Pkg!Free, LockT, Pkg!Version

\* An operation begins, or waits for the lock.
LEMMA LockSteps ==
  ASSUME PackParameters, PackInv, NEW p \in Process,
         Pkg!Start(p) \/ Pkg!LockCreate(p) \/ Pkg!LockBusy(p) \/ Pkg!LockStale(p) \/ Pkg!LockRemove(p)
  PROVE  PackInv'
<1>0. /\ UNCHANGED <<files, state, changed, crashes>>
      /\ pc[p] \in {"idle", "lock", "lockRemove"} /\ pc[p] \notin Inner
  BY DEF Pkg!Start, Pkg!LockCreate, Pkg!LockBusy, Pkg!LockStale, Pkg!LockRemove,
         Pkg!bounds, Inner, Working
<1>1. /\ work \in [Process -> OpT] /\ work[p] \in OpT /\ pc \in [Process -> Pkg!Outside \cup Inner] /\ lock \in LockT
      /\ work[p].todo # {} => work[p].kind \in {"sync", "update", "remove"}
  BY DEF PackInv, PackTypes
<1>2. Locking BY DEF PackInv
<1>3. CASE Pkg!Start(p)
 <2>1. PICK k \in {"sync", "update", "remove", "list"}, t \in SUBSET Pkg!Name :
         /\ k = "list" => t = {}
         /\ Pkg!Set(p, [Pkg!NoOp EXCEPT !.kind = k, !.todo = t, !.tries = 1])
   BY <1>3 DEF Pkg!Start
 <2>2. PICK o : o = [Pkg!NoOp EXCEPT !.kind = k, !.todo = t, !.tries = 1] OBVIOUS
 <2>3. o \in OpT /\ o.kind = k /\ o.todo = t
  <3>1. PICK z \in OpT : z = Pkg!NoOp BY NoOpType
  <3>2. o = [z EXCEPT !.kind = k, !.todo = t, !.tries = 1] /\ 1 \in 0..2 BY <2>2, <3>1
  <3>. QED BY <3>2 DEF OpT
 <2>4. work' = [work EXCEPT ![p] = o] BY <2>1, <2>2 DEF Pkg!Set
 <2>8. work' = [work EXCEPT ![p] = work'[p]] /\ work'[p] = o BY SMTT(40), <1>1, <2>4
 <2>9. pc' = [pc EXCEPT ![p] = pc'[p]] /\ pc'[p] = "lock" /\ lock' = lock /\ pc[p] = "idle"
   BY <1>1, <1>3 DEF Pkg!Start, Pkg!Goto
 <2>10. crashes > 0 => \A q \in Process : pc[q] = "idle"
  <3>1. crashes = 0 \/ \A q \in Process : pc[q] = "idle"
    BY <1>3, Zenon DEF Pkg!Start, PackParameters
  <3>. QED BY <3>1 DEF PackInv, PackTypes
 <2>5. Moves(p) BY <2>1, <2>3, <2>8, <2>9 DEF Moves
 <2>6. Locking' BY <1>0, <1>1, <1>2, <2>9, <2>10 DEF Locking, Inner, Working
 <2>7. pc'[p] \in Pkg!Outside BY <2>9 DEF Pkg!Outside
 <2>. QED BY SMTT(40), <1>0, <1>1, <2>9, <2>5, <2>6, <2>7, OuterMoves
<1>4. CASE Pkg!LockCreate(p)
 <2>1. /\ pc' = [pc EXCEPT ![p] = pc'[p]] /\ pc'[p] = "lockWrite" /\ work' = work
       /\ pc[p] = "lock" /\ lock.owner = "nobody" /\ lock.dead = FALSE
       /\ lock' \in LockT /\ lock'.owner = p /\ lock'.dead = FALSE
   BY <1>1, <1>4, NoOpType DEF Pkg!LockCreate, Pkg!Goto, LockT
 <2>2. Moves(p) BY <1>1, <2>1 DEF Moves
 <2>3. "lockWrite" \in Inner BY DEF Inner
 <2>4. \A q \in Process : pc[q] \notin Inner /\ pc[q] # "lockRemove"
   BY <1>2, <2>1 DEF Locking, PackParameters
 <2>5. Locking' BY <1>0, <1>1, <1>2, <2>1, <2>3, <2>4 DEF Locking, PackParameters
 <2>. QED BY <1>0, <2>1, <2>2, <2>5, OuterMoves
<1>5. CASE Pkg!LockBusy(p) \/ Pkg!LockStale(p)
 <2>1. /\ pc' = [pc EXCEPT ![p] = pc'[p]] /\ work' = [work EXCEPT ![p] = work'[p]] /\ lock' = lock
       /\ pc[p] = "lock" /\ (pc'[p] = "idle" \/ (pc'[p] = "lockRemove" /\ lock.dead))
       /\ work'[p] \in {Pkg!NoOp, work[p]}
   BY <1>1, <1>5 DEF Pkg!LockBusy, Pkg!LockStale, Pkg!Goto, Pkg!Set
 <2>2. Moves(p) BY <1>1, <2>1, NoOpType DEF Moves
 <2>3. Locking' BY <1>0, <1>1, <1>2, <2>1 DEF Locking, Inner, Working
 <2>4. pc'[p] \in Pkg!Outside BY <2>1 DEF Pkg!Outside
 <2>. QED BY <1>0, <1>1, <2>1, <2>2, <2>3, <2>4, OuterMoves
<1>6. CASE Pkg!LockRemove(p)
 <2>1. /\ pc[p] = "lockRemove" /\ lock' = Pkg!Free /\ pc' = [pc EXCEPT ![p] = pc'[p]] /\ pc'[p] \in {"lock", "idle"}
   BY <1>1, <1>6 DEF Pkg!LockRemove, Pkg!Goto
 <2>2. work' = [work EXCEPT ![p] = work'[p]] /\ work'[p] \in OpT /\ work'[p].todo \in {{}, work[p].todo}
       /\ (work'[p].todo # {} => work'[p].kind = work[p].kind)
  <3>1. CASE Pkg!Set(p, Pkg!NoOp) BY <1>1, <3>1, NoOpType DEF Pkg!Set
  <3>2. CASE work[p].tries < 2 /\ Pkg!Set(p, [work[p] EXCEPT !.tries = @ + 1])
   <4>1. PICK o : o = [work[p] EXCEPT !.tries = @ + 1] OBVIOUS
   <4>3. work[p].tries \in 0..2 /\ work[p].tries + 1 \in 0..2 BY <1>1, <3>2 DEF OpT
   <4>2. o \in OpT /\ o.todo = work[p].todo /\ o.kind = work[p].kind BY <1>1, <4>1, <4>3 DEF OpT
   <4>. QED BY <1>1, <3>2, <4>1, <4>2 DEF Pkg!Set
  <3>. QED BY <1>6, <3>1, <3>2 DEF Pkg!LockRemove
 <2>3. Moves(p) BY <1>1, <2>1, <2>2 DEF Moves
 <2>4. lock.dead /\ crashes > 0 /\ \A q \in Process : q # p => pc[q] = "idle"
   BY <1>2, <2>1 DEF Locking
 <2>5. \A q \in Process : pc'[q] \notin Inner /\ pc'[q] # "lockRemove"
   BY <1>1, <2>1, <2>4 DEF Inner, Working
 <2>6. \A q \in Process : pc'[q] # "idle" => pc[q] # "idle" BY <1>1, <2>1
 <2>7. Locking' BY <1>0, <1>2, <2>1, <2>5, <2>6, NoOpType DEF Locking, PackParameters
 <2>8. pc'[p] \in Pkg!Outside BY <2>1 DEF Pkg!Outside
 <2>. QED BY <1>0, <2>1, <2>3, <2>7, <2>8, NoOpType, OuterMoves
<1>. QED BY SMTT(40), <1>3, <1>4, <1>5, <1>6

\* The owner writes its pid to the lock.
LEMMA LockWriteStep ==
  ASSUME PackInv, NEW p \in Process, Pkg!LockWrite(p)
  PROVE  PackInv'
<1>0. /\ UNCHANGED <<files, state, work, changed, crashes>> /\ pc[p] = "lockWrite" /\ pc[p] \in Inner
  BY DEF Pkg!LockWrite, Pkg!bounds, Inner
<1>1. /\ work \in [Process -> OpT] /\ work[p] \in OpT /\ pc \in [Process -> Pkg!Outside \cup Inner] /\ lock \in LockT
      /\ work[p].todo # {} => work[p].kind \in {"sync", "update", "remove"}
      /\ files \in [Pkg!Entry -> Pkg!Content] /\ state \in [Pkg!Name -> Pkg!Version \cup {Pkg!Absent}] /\ changed \in SUBSET Pkg!Name
  BY DEF PackInv, PackTypes
<1>2. lock' \in LockT /\ lock'.owner = lock.owner /\ lock'.dead = lock.dead
  BY <1>1 DEF Pkg!LockWrite, LockT
<1>3. pc' = [pc EXCEPT ![p] = pc'[p]] /\ pc'[p] = "load" BY <1>1 DEF Pkg!LockWrite, Pkg!Goto
<1>4. Moves(p) /\ pc'[p] \in Inner BY <1>0, <1>1, <1>3 DEF Moves, Inner
<1>5. Knows(pc[p], work[p])' BY <1>3 DEF Knows, Working
<1>6. \A n \in Pkg!Name : RestAt(n)' BY <1>0 DEF PackInv, RestAt
<1>. QED BY <1>0, <1>1, <1>2, <1>4, <1>5, <1>6, InnerMoves

LEMMA ReleaseStep ==
  ASSUME PackParameters, PackInv, NEW p \in Process, Pkg!Release(p)
  PROVE  PackInv'
<1>0. /\ UNCHANGED <<files, state, changed, crashes>> /\ pc[p] = "release" /\ pc[p] \in Inner
      /\ lock' = Pkg!Free
  BY DEF Pkg!Release, Pkg!bounds, Inner
<1>1. work \in [Process -> OpT] /\ pc \in [Process -> Pkg!Outside \cup Inner] /\ Locking
  BY DEF PackInv, PackTypes
<1>2. /\ pc' = [pc EXCEPT ![p] = pc'[p]] /\ pc'[p] = "idle"
      /\ work' = [work EXCEPT ![p] = work'[p]] /\ work'[p] = Pkg!NoOp
  BY <1>1 DEF Pkg!Release, Pkg!Goto, Pkg!Set
<1>3. Moves(p) BY <1>2, NoOpType DEF Moves
<1>4. lock.owner = p /\ ~lock.dead BY <1>0, <1>1 DEF Locking
<1>5. \A q \in Process : pc'[q] \notin Inner /\ pc'[q] # "lockRemove"
 <2>1. "idle" \notin Inner BY DEF Inner, Working
 <2>. QED BY <1>0, <1>1, <1>2, <1>4, <2>1, Alone DEF Locking
<1>6. \A q \in Process : pc'[q] # "idle" => pc[q] # "idle" BY <1>1, <1>2
<1>7. Locking' BY <1>0, <1>1, <1>5, <1>6, NoOpType DEF Locking, PackParameters
<1>8. pc'[p] \in Pkg!Outside BY <1>2 DEF Pkg!Outside
<1>. QED BY <1>0, <1>3, <1>7, <1>8, NoOpType, OuterMoves

\* What is left of an entry whose removal is cut short is one that a recovery
\* can do without.
LEMMA CutShort ==
  ASSUME PackInv, NEW p \in Process, NEW e \in Pkg!Removing(p), files[e] # Pkg!Absent, Pkg!Put(e, "partial"),
         UNCHANGED <<state, changed>>
  PROVE  pc[p] \in Inner /\ files' \in [Pkg!Entry -> Pkg!Content] /\ \A m \in Pkg!Name : RestAt(m)'
<1>0. "partial" \in Pkg!Content /\ files \in [Pkg!Entry -> Pkg!Content] /\ \A m \in Pkg!Name : RestAt(m)
  BY DEF Pkg!Content, PackInv, PackTypes
<1>1. ASSUME NEW n \in Pkg!Name, Others(n), RestAt(n)'
      PROVE  \A m \in Pkg!Name : RestAt(m)'
  BY <1>0, <1>1, OthersKept
<1>2. CASE pc[p] \in {"installUndo", "updateUndo", "updateClean", "removeClean"}
 <2>0. pc[p] \in Working /\ pc[p] \in Inner BY <1>2 DEF Working, Inner
 <2>1. PICK n \in Pkg!Name : n = work[p].name BY <2>0, AtWork
 <2>2. StageAt(pc[p], work[p], n) /\ RestAt(n) BY <2>0, <2>1, AtWork
 <2>3. CASE pc[p] \in {"installUndo", "updateUndo"}
  <3>1. e = n BY <2>1, <2>3 DEF Pkg!Removing
  <3>2. files' \in [Pkg!Entry -> Pkg!Content] /\ Others(n) /\ Becomes(n, "partial", files[Pkg!Backup(n)], files[Pkg!Removal(n)])
    BY <1>0, <3>1, Puts
  <3>3. RestAt(n)' BY <2>2, <2>3, <3>2 DEF RestAt, RestOf, StageAt, StageOf, Becomes
  <3>. QED BY <1>1, <2>0, <3>2, <3>3
 <2>4. CASE pc[p] = "updateClean"
  <3>1. e = Pkg!Backup(n) BY <2>1, <2>4 DEF Pkg!Removing
  <3>2. files' \in [Pkg!Entry -> Pkg!Content] /\ Others(n) /\ Becomes(n, files[n], "partial", files[Pkg!Removal(n)])
    BY <1>0, <3>1, Puts
  <3>3. RestAt(n)' BY <2>2, <2>4, <3>2 DEF RestAt, RestOf, StageAt, StageOf, Becomes
  <3>. QED BY <1>1, <2>0, <3>2, <3>3
 <2>5. CASE pc[p] = "removeClean"
  <3>1. e = Pkg!Removal(n) BY <2>1, <2>5 DEF Pkg!Removing
  <3>2. files' \in [Pkg!Entry -> Pkg!Content] /\ Others(n) /\ Becomes(n, files[n], files[Pkg!Backup(n)], "partial")
    BY <1>0, <3>1, Puts
  <3>3. RestAt(n)' BY <2>2, <2>5, <3>2 DEF RestAt, RestOf, StageAt, StageOf, Becomes
  <3>. QED BY <1>1, <2>0, <3>2, <3>3
 <2>. QED BY <1>2, <2>3, <2>4, <2>5
<1>3. CASE pc[p] = "recover"
 <2>0. work[p].state = state /\ pc[p] \in Inner /\ work[p].entries \in SUBSET Pkg!Entry
   BY <1>3, AtRecovery
 <2>1. CASE e \in work[p].entries /\ Pkg!Untracked(p, e)
  <3>1. PICK n \in Pkg!Name : n = e BY <2>0, <2>1, EntryKinds DEF Pkg!Untracked
  <3>2. files' \in [Pkg!Entry -> Pkg!Content] /\ Others(n) /\ Becomes(n, "partial", files[Pkg!Backup(n)], files[Pkg!Removal(n)])
    BY <1>0, <3>1, Puts
  <3>3. RestAt(n)' BY <1>0, <2>0, <2>1, <3>1, <3>2 DEF RestAt, RestOf, Pkg!Untracked, Becomes
  <3>. QED BY <1>1, <2>0, <3>2, <3>3
 <2>2. CASE e \in work[p].entries /\ Pkg!Unneeded(p, e)
  <3>1. PICK n \in Pkg!Name :
         /\ Pkg!Front(e) = n /\ RestAt(n)
         /\ \/ e = Pkg!Backup(n) /\ Pkg!Last(e) = "backup"
            \/ e = Pkg!Removal(n) /\ Pkg!Last(e) # "backup"
    BY <1>3, <2>2, AtMarker DEF Pkg!Unneeded
  <3>2. /\ state[n] # Pkg!Absent => files[n] # Pkg!Absent
        /\ e = Pkg!Backup(n) /\ state[n] # Pkg!Absent => files[n] = state[n]
    BY <2>0, <2>2, <3>1, Entries DEF Pkg!Unneeded, Pkg!Interrupted
  <3>3. CASE e = Pkg!Backup(n)
   <4>1. files' \in [Pkg!Entry -> Pkg!Content] /\ Others(n) /\ Becomes(n, files[n], "partial", files[Pkg!Removal(n)])
     BY <1>0, <3>3, Puts
   <4>2. RestAt(n)' BY <3>1, <3>2, <3>3, <4>1 DEF RestAt, RestOf, Becomes
   <4>. QED BY <1>1, <2>0, <4>1, <4>2
  <3>4. CASE e = Pkg!Removal(n)
   <4>1. files' \in [Pkg!Entry -> Pkg!Content] /\ Others(n) /\ Becomes(n, files[n], files[Pkg!Backup(n)], "partial")
     BY <1>0, <3>4, Puts
   <4>2. RestAt(n)' BY <3>1, <3>2, <3>4, <4>1 DEF RestAt, RestOf, Becomes
   <4>. QED BY <1>1, <2>0, <4>1, <4>2
  <3>. QED BY <3>1, <3>3, <3>4
 <2>3. ASSUME NEW d \in work[p].entries, Pkg!RollsBack(p, d), e = Pkg!Front(d)
       PROVE  files' \in [Pkg!Entry -> Pkg!Content] /\ \A m \in Pkg!Name : RestAt(m)'
  <3>1. PICK n \in Pkg!Name :
         /\ Pkg!Front(d) = n /\ RestAt(n)
         /\ \/ d = Pkg!Backup(n) /\ Pkg!Last(d) = "backup"
            \/ d = Pkg!Removal(n) /\ Pkg!Last(d) # "backup"
    BY <1>3, <2>3, AtMarker DEF Pkg!RollsBack, Pkg!Interrupted
  <3>2. d = Pkg!Backup(n) /\ files[d] = state[n] /\ state[n] # Pkg!Absent /\ files[n] # Pkg!Absent
    BY <2>0, <2>3, <3>1 DEF Pkg!RollsBack, Pkg!Interrupted
  <3>3. files' \in [Pkg!Entry -> Pkg!Content] /\ Others(n) /\ Becomes(n, "partial", files[Pkg!Backup(n)], files[Pkg!Removal(n)])
    BY <1>0, <2>3, <3>1, Puts
  <3>4. RestAt(n)' BY <3>1, <3>2, <3>3 DEF RestAt, RestOf, Becomes
  <3>. QED BY <1>1, <3>3, <3>4
 <2>. QED BY <1>3, <2>0, <2>1, <2>2, <2>3 DEF Pkg!Removing
<1>. QED BY <1>2, <1>3 DEF Pkg!Removing

\* A clean-up, an undo or a recovery fails, and leaves its package to the next one.
LEMMA CleanUpStep ==
  ASSUME PackInv, NEW p \in Process, Pkg!CleanUpFails(p)
  PROVE  PackInv'
<1>0. /\ UNCHANGED <<state, lock, changed, crashes>> /\ Pkg!RemovesPart(p)
      /\ \/ pc[p] \in {"installUndo", "updateClean", "updateUndo", "updateRestore", "removeClean", "removeUndo"}
         \/ pc[p] \in {"recover", "restore"} /\ (pc[p] = "recover" => work[p].entries # {})
  BY DEF Pkg!CleanUpFails
<1>1. /\ work \in [Process -> OpT] /\ work[p] \in OpT /\ pc \in [Process -> Pkg!Outside \cup Inner] /\ lock \in LockT
      /\ work[p].todo # {} => work[p].kind \in {"sync", "update", "remove"}
      /\ files \in [Pkg!Entry -> Pkg!Content] /\ state \in [Pkg!Name -> Pkg!Version \cup {Pkg!Absent}]
      /\ changed \in SUBSET Pkg!Name /\ \A m \in Pkg!Name : RestAt(m)
  BY DEF PackInv, PackTypes
<1>2. pc[p] \in Inner /\ "release" \in Inner BY <1>0 DEF Inner, Working
<1>3. files' \in [Pkg!Entry -> Pkg!Content] /\ \A m \in Pkg!Name : RestAt(m)'
 <2>1. CASE files' = files BY <1>0, <1>1, <2>1 DEF RestAt
 <2>2. CASE \E e \in Pkg!Removing(p) : files[e] # Pkg!Absent /\ Pkg!Put(e, "partial")
   BY <1>0, <2>2, CutShort
 <2>. QED BY <1>0, <2>1, <2>2 DEF Pkg!RemovesPart
<1>4. PICK o : o = [work[p] EXCEPT !.left = TRUE] OBVIOUS
<1>5. /\ o \in OpT /\ o.todo = work[p].todo /\ o.kind = work[p].kind /\ o.entries = work[p].entries
      /\ o.name = work[p].name /\ o.state = work[p].state /\ o.left
  BY <1>1, <1>4 DEF OpT
<1>6. /\ work' = [work EXCEPT ![p] = work'[p]] /\ work'[p] = o
      /\ pc' = [pc EXCEPT ![p] = pc'[p]] /\ pc'[p] = "release"
  BY <1>1, <1>4 DEF Pkg!CleanUpFails, Pkg!Set, Pkg!Fail, Pkg!Goto
<1>7. Moves(p) BY <1>1, <1>5, <1>6 DEF Moves
<1>8. work[p].state = state BY <1>0, AtRecovery DEF PackInv, Holding, Knows, Inner, Working
<1>9. ASSUME o.entries = {}, NEW m \in Pkg!Name, m # o.name PROVE WholeAt(m)'
 <2>1. CASE pc[p] \in Working
  <3>1. work[p].name \in Pkg!Name /\ WholeAt(m) BY <1>5, <1>9, <2>1, AtWork
  <3>2. Others(work[p].name)
   <4>1. ASSUME NEW e \in Pkg!Removing(p), Pkg!Put(e, "partial") PROVE Others(work[p].name)
    <5>1. "partial" \in Pkg!Content BY DEF Pkg!Content
    <5>2. e \in {work[p].name, Pkg!Backup(work[p].name), Pkg!Removal(work[p].name)}
      BY <2>1, <4>1 DEF Pkg!Removing, Working
    <5>. QED BY <1>1, <3>1, <4>1, <5>1, <5>2, Puts
   <4>. QED BY <1>0, <3>1, <4>1, NotWritten DEF Pkg!RemovesPart
  <3>. QED BY <1>0, <1>5, <1>9, <3>1, <3>2, OthersKept
 <2>2. CASE pc[p] = "restore"
  <3>1. files' = files BY <1>0, <2>2 DEF Pkg!RemovesPart, Pkg!Removing
  <3>2. RecoveringAt(pc[p], work[p], m) BY <2>2, AtRecovery
  <3>3. /\ files[Pkg!Backup(m)] = Pkg!Absent /\ files[Pkg!Removal(m)] = Pkg!Absent
        /\ files[m] # Pkg!Absent => state[m] # Pkg!Absent
    BY <1>5, <1>9, <3>2 DEF RecoveringAt
  <3>4. m \notin changed /\ state[m] # Pkg!Absent => files[m] = state[m]
    BY <1>1, <3>3 DEF RestAt, RestOf
  <3>. QED BY <1>0, <3>1, <3>3, <3>4 DEF WholeAt, WholeOf
 <2>. QED BY <1>0, <1>5, <1>9, <2>1, <2>2 DEF Working
<1>10. Knows(pc[p], work[p])' BY <1>0, <1>5, <1>6, <1>8, <1>9 DEF Knows, Working
<1>. QED BY <1>0, <1>1, <1>2, <1>3, <1>6, <1>7, <1>10, InnerMoves

LEMMA KillStep ==
  ASSUME PackParameters, PackInv, NEW p \in Process, Pkg!Kill(p)
  PROVE  PackInv'
<1>0. /\ pc[p] # "idle" /\ crashes' = crashes + 1 /\ crashes \in Nat /\ UNCHANGED <<state, changed>>
      /\ work \in [Process -> OpT] /\ pc \in [Process -> Pkg!Outside \cup Inner] /\ lock \in LockT
      /\ Locking /\ files \in [Pkg!Entry -> Pkg!Content]
      /\ state \in [Pkg!Name -> Pkg!Version \cup {Pkg!Absent}] /\ changed \in SUBSET Pkg!Name
  BY DEF Pkg!Kill, PackInv, PackTypes
<1>1. /\ pc' = [pc EXCEPT ![p] = "idle"] /\ work' = [work EXCEPT ![p] = Pkg!NoOp]
      /\ lock' = IF lock.owner = p THEN [lock EXCEPT !.dead = TRUE] ELSE lock
  BY DEF Pkg!Kill, Pkg!Goto, Pkg!Set
<1>2. files' \in [Pkg!Entry -> Pkg!Content] /\ \A n \in Pkg!Name : RestAt(n)'
 <2>1. CASE files' = files BY <1>0, <2>1 DEF PackInv, RestAt
 <2>2. CASE \E e \in Pkg!Removing(p) : files[e] # Pkg!Absent /\ Pkg!Put(e, "partial")
   BY <1>0, <2>2, CutShort
 <2>. QED BY <2>1, <2>2 DEF Pkg!Kill, Pkg!RemovesPart
<1>3. /\ lock' \in LockT /\ lock'.owner = lock.owner
      /\ lock.owner = p => lock'.dead = TRUE
      /\ lock.owner # p => lock' = lock
      /\ lock.dead => lock'.dead
  BY <1>0, <1>1 DEF LockT
<1>4. /\ \A q \in Process : q # p => pc'[q] = pc[q] /\ work'[q] = work[q]
      /\ pc'[p] = "idle" /\ work'[p] = Pkg!NoOp
  BY <1>0, <1>1
<1>5. "idle" \notin Inner BY DEF Inner, Working
<1>6. PackTypes'
 <2>1. work' \in [Process -> OpT] /\ pc' \in [Process -> Pkg!Outside \cup Inner] /\ crashes' \in Nat
   BY <1>0, <1>1, NoOpType DEF Pkg!Outside
 <2>2. \A q \in Process : work'[q].todo # {} => work'[q].kind \in {"sync", "update", "remove"}
   BY <1>4, NoOpType DEF PackInv, PackTypes
 <2>. QED BY <1>0, <1>2, <1>3, <2>1, <2>2 DEF PackTypes
<1>7. Locking'
 <2>1. \A q \in Process : pc'[q] \in Inner => lock'.owner = q /\ ~lock'.dead
   BY <1>0, <1>3, <1>4, <1>5 DEF Locking
 <2>2. \A q \in Process : lock'.owner = q /\ ~lock'.dead => pc'[q] \in Inner
   BY <1>0, <1>3, <1>4 DEF Locking
 <2>3. \A q \in Process : pc'[q] = "lockRemove" => lock'.dead BY <1>0, <1>3, <1>4 DEF Locking
 <2>4. \A q, r \in Process : pc'[q] # "idle" /\ pc'[r] # "idle" => q = r BY <1>4 DEF PackParameters
 <2>. QED BY <1>0, <2>1, <2>2, <2>3, <2>4 DEF Locking
<1>8. ASSUME NEW q \in Process PROVE Knows(pc[q], work[q])'
 <2>1. CASE pc'[q] \notin Inner BY <2>1 DEF Knows, Inner, Working
 <2>2. CASE pc'[q] \in Inner
  <3>1. q # p /\ pc[q] \in Inner /\ pc'[q] = pc[q] /\ work'[q] = work[q] BY <1>4, <1>5, <2>2
  <3>2. pc[p] \notin Inner BY <3>1, Alone
  <3>3. files' = files BY <1>0, <3>2, CutShort DEF Pkg!Kill, Pkg!RemovesPart
  <3>4. Knows(pc[q], work[q]) BY DEF PackInv, Holding
  <3>. QED
    BY <1>0, <3>1, <3>3, <3>4 DEF Knows, StageAt, WholeAt, Recovering, RecoveringAt, Restoring
 <2>. QED BY <2>1, <2>2
<1>. QED BY <1>2, <1>6, <1>7, <1>8 DEF PackInv, Holding

LEMMA UserStep ==
  ASSUME PackInv, Pkg!UserChanges
  PROVE  PackInv'
<1>0. /\ UNCHANGED <<state, lock, pc, work, crashes>> /\ \A q \in Process : pc[q] = "idle"
      /\ files \in [Pkg!Entry -> Pkg!Content] /\ \A n \in Pkg!Name : RestAt(n)
  BY DEF Pkg!UserChanges, PackInv, PackTypes
<1>1. PICK n \in Pkg!Tracked(state), c \in {"modified", Pkg!Absent} :
        files[n] # Pkg!Absent /\ Pkg!Put(n, c) /\ changed' = changed \cup {n}
  BY DEF Pkg!UserChanges
<1>2. n \in Pkg!Name /\ c \in Pkg!Content BY DEF Pkg!Tracked, Pkg!Content
<1>3. files' \in [Pkg!Entry -> Pkg!Content] /\ Others(n) /\ Becomes(n, c, files[Pkg!Backup(n)], files[Pkg!Removal(n)])
  BY <1>0, <1>1, <1>2, Puts
<1>4. RestAt(n)' BY <1>0, <1>1, <1>2, <1>3 DEF RestAt, RestOf, Becomes
<1>5. \A m \in Pkg!Name : RestAt(m)' BY <1>0, <1>1, <1>2, <1>3, <1>4, OthersKept
<1>6. PackTypes' /\ Locking' BY <1>0, <1>1, <1>2, <1>3 DEF PackInv, PackTypes, Locking
<1>7. Holding' BY <1>0 DEF Holding, Knows, Inner, Working
<1>. QED BY <1>5, <1>6, <1>7 DEF PackInv

----------------------------------------
(* The packages: what holds of them.                                       *)

LEMMA PackInit == PackParameters /\ Pkg!Init => PackInv
<1> SUFFICES ASSUME PackParameters, Pkg!Init PROVE PackInv
  OBVIOUS
<1>1. \A p \in Process : pc[p] = "idle" /\ work[p] = Pkg!NoOp BY DEF Pkg!Init
<1>2. /\ files \in [Pkg!Entry -> Pkg!Content] /\ state \in [Pkg!Name -> Pkg!Version \cup {Pkg!Absent}]
      /\ pc \in [Process -> Pkg!Outside \cup Inner] /\ work \in [Process -> OpT]
      /\ lock \in LockT /\ changed \in SUBSET Pkg!Name /\ crashes \in Nat
  BY NoOpType DEF Pkg!Init, Pkg!Content, Pkg!Outside
<1>3. PackTypes BY <1>1, <1>2, NoOpType DEF PackTypes
<1>4. "idle" \notin Inner BY DEF Inner, Working
<1>5. Locking BY <1>1, <1>4, NoOpType DEF Pkg!Init, Locking, PackParameters
<1>6. ASSUME NEW n \in Pkg!Name PROVE RestAt(n)
  BY Entries DEF Pkg!Init, RestAt, RestOf
<1>7. Holding BY <1>1, <1>4 DEF Holding, Knows, Inner, Working
<1>. QED BY <1>3, <1>5, <1>6, <1>7 DEF PackInv

LEMMA PackNext == PackParameters /\ PackInv /\ [Pkg!Next]_(Pkg!vars) => PackInv'
<1> SUFFICES ASSUME PackParameters, PackInv, [Pkg!Next]_(Pkg!vars) PROVE PackInv'
  OBVIOUS
<1>1. ASSUME NEW p \in Process, Pkg!LockStep(p) \/ Pkg!Start(p) PROVE PackInv'
  BY <1>1, LockSteps, LockWriteStep, ReleaseStep DEF Pkg!LockStep
<1>2. ASSUME NEW p \in Process, Pkg!RecoverStep(p) PROVE PackInv'
  BY <1>2, LoadSteps, UntrackedStep, MissingStep, CleanStep, RollBackSteps DEF Pkg!RecoverStep
<1>3. ASSUME NEW p \in Process, Pkg!PackageStep(p) PROVE PackInv'
  BY <1>3, ChoiceSteps, InstallSteps, AsideSteps, UpdateSteps, RemoveSteps, CleanUpStep
     DEF Pkg!PackageStep
<1>4. CASE UNCHANGED Pkg!vars
 <2>1. PackTypes' /\ Locking' BY <1>4 DEF PackInv, PackTypes, Locking, Pkg!vars, Pkg!bounds
 <2>2. ASSUME NEW q \in Process PROVE Knows(pc[q], work[q])'
   BY <1>4
      DEF Pkg!vars, PackInv, Holding, Knows, StageAt, WholeAt, Recovering, RecoveringAt,
          Restoring
 <2>3. \A n \in Pkg!Name : RestAt(n)' BY <1>4 DEF Pkg!vars, PackInv, RestAt
 <2>. QED BY <2>1, <2>2, <2>3 DEF PackInv, Holding
<1>. QED BY <1>1, <1>2, <1>3, <1>4, KillStep, UserStep DEF Pkg!Next, Pkg!Quiet

\* Files and state agree.
LEMMA WholeIsConsistent ==
  ASSUME NEW n \in Pkg!Name, WholeAt(n)
  PROVE  Pkg!ConsistentAt(n)
  BY DEF Pkg!ConsistentAt, WholeAt, WholeOf

LEMMA PackInvIsSafe ==
  ASSUME PackInv
  PROVE  Pkg!TypeOK /\ Pkg!OneAtATime /\ Pkg!RecoveryIsComplete /\ Pkg!UntouchedIsRecoverable /\ Pkg!ConsistentReturn
<1>1. Pkg!TypeOK BY DEF PackInv, PackTypes, Pkg!TypeOK, OpT, LockT, Inner, Working
<1>2. Pkg!OneAtATime
 <2>1. \A p \in Process : pc[p] \notin Pkg!Outside <=> pc[p] \in Inner
   BY DEF PackInv, PackTypes, Pkg!Outside, Inner, Working
 <2>2. PICK S : S = {p \in Process : pc[p] \notin Pkg!Outside} OBVIOUS
 <2>3. \A p, q \in S : p = q BY <2>1, <2>2, Alone
 <2>4. S = {} \/ \E p \in S : S = {p} BY <2>3
 <2>5. Cardinality(S) <= 1 BY <2>4, FS_EmptySet, FS_Singleton
 <2>6. \A p \in Process : lock.owner = p /\ ~lock.dead => pc[p] \notin Pkg!Outside
   BY <2>1 DEF PackInv, Locking
 <2>. QED BY <2>2, <2>5, <2>6, SameCardinality DEF Pkg!OneAtATime
<1>3. Pkg!RecoveryIsComplete
 <2> SUFFICES ASSUME NEW p \in Process, pc[p] = "ready" PROVE Pkg!Consistent
   BY DEF Pkg!RecoveryIsComplete
 <2>1. \A n \in Pkg!Name : WholeAt(n) BY DEF PackInv, Holding, Knows
 <2>. QED BY <2>1, WholeIsConsistent DEF Pkg!Consistent
<1>4. Pkg!UntouchedIsRecoverable
 <2> SUFFICES ASSUME NEW p \in Process, pc[p] = "recover", NEW e \in work[p].entries, Pkg!Interrupted(p, e)
              PROVE  Pkg!Front(e) \in changed \/ work[p].state[Pkg!Front(e)] \in {files[Pkg!Front(e)], files[e]}
   BY DEF Pkg!UntouchedIsRecoverable
 <2>1. PICK n \in Pkg!Name : /\ Pkg!Front(e) = n /\ RestAt(n)
                             /\ \/ e = Pkg!Backup(n) /\ Pkg!Last(e) = "backup"
                                \/ e = Pkg!Removal(n) /\ Pkg!Last(e) # "backup"
   BY AtMarker DEF Pkg!Interrupted
 <2>2. work[p].state = state BY AtRecovery
 <2>. QED BY <2>1, <2>2 DEF Pkg!Interrupted, RestAt, RestOf
<1>5. Pkg!ConsistentReturn
 <2> SUFFICES ASSUME NEW p \in Process, Pkg!Release(p), work[p].entries = {}, NEW n \in Pkg!Name
              PROVE  Pkg!ConsistentAt(n) \/ (work[p].left /\ n = work[p].name)
   BY DEF Pkg!ConsistentReturn
 <2>1. WholeAt(n) \/ (work[p].left /\ n = work[p].name) BY DEF Pkg!Release, PackInv, Holding, Knows
 <2>. QED BY <2>1, WholeIsConsistent
<1>. QED BY <1>1, <1>2, <1>3, <1>4, <1>5

\* Whatever was cut short, an operation starts from packages that are what the
\* state says, one at a time, and no package the user left alone cannot be
\* recovered (store.go: recoverTransactions, lock).
THEOREM PackagesSafe ==
  ASSUME PackParameters
  PROVE  Pkg!Spec => [](Pkg!TypeOK /\ Pkg!OneAtATime /\ Pkg!RecoveryIsComplete /\ Pkg!UntouchedIsRecoverable)
<1>1. Pkg!Init => PackInv BY PackInit
<1>2. PackInv /\ [Pkg!Next]_(Pkg!vars) => PackInv' BY PackNext
<1>3. PackInv => Pkg!TypeOK /\ Pkg!OneAtATime /\ Pkg!RecoveryIsComplete /\ Pkg!UntouchedIsRecoverable
  BY PackInvIsSafe
<1>. QED BY <1>1, <1>2, <1>3, PTL DEF Pkg!Spec

\* An operation that returns leaves the same, with an error or without, but for a
\* package it could not remove or move back (store.go: Install, Update, Remove).
THEOREM PackagesReturnConsistent ==
  ASSUME PackParameters
  PROVE  Pkg!Spec => Pkg!ReturnsConsistent
<1>1. Pkg!Init => PackInv BY PackInit
<1>2. PackInv /\ [Pkg!Next]_(Pkg!vars) => PackInv' BY PackNext
<1>3. PackInv => [Pkg!ConsistentReturn]_(Pkg!vars) BY PackInvIsSafe
<1>. QED BY <1>1, <1>2, <1>3, PTL DEF Pkg!Spec, Pkg!ReturnsConsistent

----------------------------------------
(* The batches of helpers of team.go: the inductive invariant.             *)

HelpersParameters == TurnLimit \subseteq Nat /\ CostLimit \subseteq Nat /\ MaxMoves \in Nat /\ Turns \in Nat

Status == {"failed", "complete", "cancelled", "stale", "conflict", "error"}

UsageT == [turns : Nat, cost : Nat, known : BOOLEAN, calls : Nat]
TreeT == [head : [base : {0, 1}, own : BOOLEAN], dirty : BOOLEAN]

Stage == {"ready", "first", "asking", "second", "audit", "audit lead", "done"}

HelpersTypes ==
  /\ batch \in [tool : {"team", "explore"}, turns : Nat, role : Nat, cost : Nat, clashes : BOOLEAN]
  /\ request \in [Task -> [writes : BOOLEAN, tree : Tree, base : {0, 1}]]
  /\ lead \in Nat /\ lead >= 1 /\ lead <= MaxMoves + 1 /\ leadHead \in Nat /\ leadHead <= lead
  /\ tree \in [Tree -> TreeT]
  /\ phase \in {"new", "validate", "refused", "running", "report", "failed", "reported"}
  /\ task \in [Task -> Stage]
  /\ limit \in [Task -> [turns : Nat, cost : Nat]]
  /\ spent \in [Task -> UsageT]
  /\ result \in [Task -> [status : Status, wrote : BOOLEAN]]
  /\ canceled \in BOOLEAN

\* The turns a task may use, of its own or of its role; 0 is no limit.
TurnsOfTask == IF batch.turns = 0 THEN batch.role ELSE batch.turns

\* What a task used, and what the next run of it may use.
BudgetOf(s, l, u) ==
  /\ s \in {"ready", "first"} => u = Teams!Nothing
  /\ s = "first" => l = [turns |-> batch.turns, cost |-> batch.cost]
  /\ s \in {"asking", "second"} =>
       /\ u.calls = 1
       /\ TurnsOfTask > 0 => l.turns > 0 /\ u.turns + l.turns = TurnsOfTask
       /\ batch.cost > 0 => l.cost > 0 /\ u.cost + l.cost = batch.cost
  /\ s \in {"audit", "audit lead", "done"} =>
       /\ u.calls \in 1..2
       /\ TurnsOfTask > 0 => u.turns <= TurnsOfTask
       /\ batch.cost > 0 => u.cost <= batch.cost + 1

Budgets ==
  \A t \in Task :
    /\ BudgetOf(task[t], limit[t], spent[t])
    /\ phase \notin {"new", "validate"} /\ task[t] = "ready" =>
         limit[t] = [turns |-> batch.turns, cost |-> batch.cost]

\* The phases of a batch.
Phases ==
  /\ phase \in {"new", "validate", "refused"} => \A t \in Task : task[t] = "ready"
  /\ phase # "new" => leadHead >= 1
  /\ phase \in {"running", "report", "failed", "reported"} =>
       \A t \in Teams!Writers : /\ request[t].base = leadHead
                                /\ \A u \in Teams!Writers \ {t} : request[u].tree # request[t].tree
  /\ phase \in {"report", "failed", "reported"} => Teams!AllDone
  /\ phase = "reported" => \A t \in Task : task[t] = "done"

\* A writer that is complete after its audit has a commit on that of the lead.
Integrable(t) ==
  /\ Teams!HeadOf(t) = [base |-> leadHead, own |-> TRUE] /\ ~tree[request[t].tree].dirty
  /\ result[t].wrote

Results ==
  \A t \in Task :
    /\ task[t] \in {"ready", "first", "asking", "second"} => result[t] = Teams!NoResult
    /\ result[t].status = "complete" => spent[t].turns > 0
    /\ task[t] \in {"audit lead", "done"} /\ request[t].writes /\ result[t].status = "complete" => Integrable(t)

Pairs ==
  phase \in {"report", "failed", "reported"} /\ batch.clashes =>
    \A t, u \in Teams!Writers : t # u => result[t].status # "complete" \/ result[u].status # "complete"

HelpersInv == HelpersTypes /\ Budgets /\ Phases /\ Results /\ Pairs

----------------------------------------
(* One run of a helper keeps to its budget.                                *)

\* What a run leaves of a budget of b that the runs before it left l of.
LEMMA RunWithin ==
  ASSUME NEW l \in [turns : Nat, cost : Nat], NEW r \in Teams!Runs(l), Turns \in Nat
  PROVE  /\ r.turns \in Nat /\ r.cost \in Nat /\ r.known \in BOOLEAN
         /\ l.turns > 0 => r.turns <= l.turns
         /\ l.cost > 0 => r.cost <= l.cost + 1
<1>1. /\ r.turns \in 0..(IF l.turns = 0 /\ l.cost = 0 THEN 1 ELSE Turns) /\ r.cost \in 0..(2 * Turns)
      /\ r.known \in BOOLEAN /\ Teams!Within(l, r.turns, r.cost)
  BY DEF Teams!Runs
<1>2. r.turns \in Nat /\ r.cost \in Nat BY <1>1
<1>3. l.turns > 0 => r.turns <= l.turns BY <1>1 DEF Teams!Within
<1>4. ASSUME l.cost > 0 PROVE r.cost <= l.cost + 1
 <2>1. PICK last \in 1..2 : r.cost - last < l.cost BY <1>1, <1>4 DEF Teams!Within
 <2>. QED BY <1>2, <2>1
<1>. QED BY <1>1, <1>2, <1>3, <1>4

LEMMA PlusType ==
  ASSUME NEW u \in UsageT, NEW r, r.turns \in Nat, r.cost \in Nat, r.known \in BOOLEAN
  PROVE  /\ Teams!Plus(u, r) \in UsageT /\ Teams!Plus(u, r).turns = u.turns + r.turns
         /\ Teams!Plus(u, r).cost = u.cost + r.cost /\ Teams!Plus(u, r).calls = u.calls + 1
<1>1. u.turns \in Nat /\ u.cost \in Nat /\ u.known \in BOOLEAN /\ u.calls \in Nat BY DEF UsageT
<1>2. (u.known /\ r.known) \in BOOLEAN BY <1>1
<1>3. u.turns + r.turns \in Nat /\ u.cost + r.cost \in Nat /\ u.calls + 1 \in Nat BY <1>1
<1>. QED BY <1>2, <1>3 DEF Teams!Plus, UsageT

\* The limits of the first run are those of the task or its role.
LEMMA EffectiveType ==
  ASSUME HelpersTypes, Budgets, NEW t \in Task, task[t] \in {"first", "second"}
  PROVE  /\ Teams!Effective(t) \in [turns : Nat, cost : Nat]
         /\ Teams!Effective(t).cost = limit[t].cost
         /\ task[t] = "first" => Teams!Effective(t).turns = TurnsOfTask /\ limit[t].cost = batch.cost
         /\ task[t] = "second" => Teams!Effective(t).turns = limit[t].turns
<1>1. limit[t] \in [turns : Nat, cost : Nat] /\ batch.turns \in Nat /\ batch.role \in Nat /\ batch.cost \in Nat
  BY DEF HelpersTypes
<1>2. ASSUME task[t] = "first" PROVE limit[t].turns = batch.turns /\ limit[t].cost = batch.cost
 <2>1. BudgetOf("first", limit[t], spent[t]) BY <1>2 DEF Budgets
 <2>2. limit[t] = [turns |-> batch.turns, cost |-> batch.cost] BY <2>1 DEF BudgetOf
 <2>. QED BY <2>2
<1>. QED BY <1>1, <1>2 DEF Teams!Effective, TurnsOfTask

\* The task after a run that is its last, and after one that ends in a question.
LEMMA RunBudget ==
  ASSUME HelpersParameters, HelpersTypes, Budgets, NEW t \in Task, task[t] \in {"first", "second"},
         NEW r \in Teams!Runs(Teams!Effective(t))
  PROVE  /\ Teams!Plus(spent[t], r) \in UsageT /\ Teams!Plus(spent[t], r).turns >= r.turns
         /\ r.turns \in Nat
         /\ \A s \in {"audit", "done"} : BudgetOf(s, limit[t], Teams!Plus(spent[t], r))
         /\ task[t] = "first" /\ Teams!MayContinue(Teams!Effective(t), r) =>
              /\ Teams!RemainingOf(t, r) \in [turns : Nat, cost : Nat]
              /\ BudgetOf("asking", Teams!RemainingOf(t, r), Teams!Plus(spent[t], r))
<1>1. /\ limit[t] \in [turns : Nat, cost : Nat] /\ spent[t] \in UsageT
      /\ batch.turns \in Nat /\ batch.role \in Nat /\ batch.cost \in Nat
  BY DEF HelpersTypes
<1>2. spent[t].turns \in Nat /\ spent[t].cost \in Nat /\ spent[t].calls \in Nat
      /\ limit[t].turns \in Nat /\ limit[t].cost \in Nat
  BY <1>1 DEF UsageT
<1>3. PICK E \in [turns : Nat, cost : Nat] : E = Teams!Effective(t) BY EffectiveType
<1>4. /\ r.turns \in Nat /\ r.cost \in Nat /\ r.known \in BOOLEAN
      /\ E.turns > 0 => r.turns <= E.turns
      /\ E.cost > 0 => r.cost <= E.cost + 1
      /\ E.turns \in Nat /\ E.cost \in Nat
  BY <1>3, RunWithin DEF HelpersParameters
<1>5. /\ E.cost = limit[t].cost
      /\ task[t] = "first" => E.turns = TurnsOfTask /\ limit[t].cost = batch.cost
      /\ task[t] = "second" => E.turns = limit[t].turns
  BY <1>3, EffectiveType
<1>6. PICK u \in UsageT : u = Teams!Plus(spent[t], r) BY <1>1, <1>4, PlusType
<1>7. u.turns = spent[t].turns + r.turns /\ u.cost = spent[t].cost + r.cost /\ u.calls = spent[t].calls + 1
  BY <1>1, <1>4, <1>6, PlusType
<1>8. TurnsOfTask \in Nat BY <1>1 DEF TurnsOfTask
<1>9. CASE task[t] = "first"
 <2>1. spent[t].turns = 0 /\ spent[t].cost = 0 /\ spent[t].calls = 0
  <3>1. BudgetOf("first", limit[t], spent[t]) BY <1>9 DEF Budgets
  <3>2. spent[t] = Teams!Nothing BY <3>1 DEF BudgetOf
  <3>. QED BY <3>2 DEF Teams!Nothing
 <2>2. u.turns = r.turns /\ u.cost = r.cost /\ u.calls = 1 BY <1>4, <1>7, <2>1
 <2>3. ASSUME NEW s \in {"audit", "done"} PROVE BudgetOf(s, limit[t], u)
  <3>1. TurnsOfTask > 0 => u.turns <= TurnsOfTask BY <1>4, <1>5, <1>8, <1>9, <2>2
  <3>2. batch.cost > 0 => u.cost <= batch.cost + 1 BY <1>1, <1>4, <1>5, <1>9, <2>2
  <3>3. u.calls \in 1..2 BY <2>2
  <3>. QED BY <3>1, <3>2, <3>3 DEF BudgetOf
 <2>4. ASSUME Teams!MayContinue(E, r)
       PROVE  Teams!Remaining(E, r) \in [turns : Nat, cost : Nat] /\ BudgetOf("asking", Teams!Remaining(E, r), u)
  <3>1. E.turns > 0 => r.turns < E.turns BY <2>4 DEF Teams!MayContinue
  <3>2. E.cost > 0 => r.cost < E.cost BY <2>4 DEF Teams!MayContinue
  <3>3. PICK m \in [turns : Nat, cost : Nat] : m = Teams!Remaining(E, r)
   <4>1. /\ (IF E.turns = 0 THEN 0 ELSE IF r.turns < E.turns THEN E.turns - r.turns ELSE 0) \in Nat
         /\ (IF E.cost = 0 THEN 0 ELSE IF r.cost < E.cost THEN E.cost - r.cost ELSE 0) \in Nat
     BY <1>4
   <4>. QED BY <4>1 DEF Teams!Remaining
  <3>4. E.turns > 0 => m.turns > 0 /\ r.turns + m.turns = E.turns
    BY <1>4, <3>1, <3>3 DEF Teams!Remaining
  <3>5. E.cost > 0 => m.cost > 0 /\ r.cost + m.cost = E.cost BY <1>4, <3>2, <3>3 DEF Teams!Remaining
  <3>. QED BY <1>1, <1>5, <1>8, <1>9, <2>2, <3>3, <3>4, <3>5 DEF BudgetOf
 <2>. QED BY <1>3, <1>4, <1>6, <2>2, <2>3, <2>4 DEF Teams!RemainingOf
<1>10. CASE task[t] = "second"
 <2>1. /\ spent[t].calls = 1
       /\ TurnsOfTask > 0 => limit[t].turns > 0 /\ spent[t].turns + limit[t].turns = TurnsOfTask
       /\ batch.cost > 0 => limit[t].cost > 0 /\ spent[t].cost + limit[t].cost = batch.cost
   BY <1>10 DEF Budgets, BudgetOf
 <2>2. u.calls \in 1..2 BY <1>7, <2>1
 <2>3. TurnsOfTask > 0 => u.turns <= TurnsOfTask BY <1>2, <1>4, <1>5, <1>7, <1>8, <1>10, <2>1
 <2>4. batch.cost > 0 => u.cost <= batch.cost + 1 BY <1>1, <1>2, <1>4, <1>5, <1>7, <1>10, <2>1
 <2>5. ASSUME NEW s \in {"audit", "done"} PROVE BudgetOf(s, limit[t], u)
   BY <2>2, <2>3, <2>4 DEF BudgetOf
 <2>. QED BY <1>2, <1>4, <1>6, <1>7, <1>10, <2>5
<1>. QED BY <1>9, <1>10

----------------------------------------
(* The steps of one helper.                                                *)

\* A step of helper t leaves the other tasks where they are, and the batch.
TaskStep(t) ==
  /\ task' = [task EXCEPT ![t] = task'[t]] /\ limit' = [limit EXCEPT ![t] = limit'[t]]
  /\ spent' = [spent EXCEPT ![t] = spent'[t]] /\ result' = [result EXCEPT ![t] = result'[t]]
  /\ UNCHANGED <<batch, request, lead, leadHead, phase, canceled>>

LEMMA TaskMoves ==
  ASSUME HelpersInv, NEW t \in Task, phase = "running", TaskStep(t),
         task'[t] \in Stage \ {"ready"}, limit'[t] \in [turns : Nat, cost : Nat], spent'[t] \in UsageT,
         result'[t] \in [status : Status, wrote : BOOLEAN],
         BudgetOf(task'[t], limit'[t], spent'[t]),
         \/ tree' = tree
         \/ /\ request[t].writes /\ task'[t] \in {"first", "second"}
            /\ tree' \in [Tree -> TreeT]
            /\ \A w \in Tree : w # request[t].tree => tree'[w] = tree[w],
         task'[t] \in {"first", "asking", "second"} => result'[t] = Teams!NoResult,
         result'[t].status = "complete" => spent'[t].turns > 0,
         task'[t] \in {"audit lead", "done"} /\ request[t].writes /\ result'[t].status = "complete" =>
           Integrable(t)'
  PROVE  HelpersInv'
<1>0. /\ HelpersTypes /\ Budgets /\ Phases /\ Results
      /\ phase' = "running" /\ batch' = batch /\ request' = request /\ leadHead' = leadHead
  BY DEF HelpersInv, TaskStep
<1>1. \A u \in Task : u # t => /\ task'[u] = task[u] /\ limit'[u] = limit[u] /\ spent'[u] = spent[u]
                               /\ result'[u] = result[u]
  BY ZenonT(40), <1>0 DEF HelpersTypes, TaskStep
<1>2. HelpersTypes'
 <2>1. tree' \in [Tree -> TreeT] BY <1>0 DEF HelpersTypes
 <2>2. task' \in [Task -> Stage] /\ limit' \in [Task -> [turns : Nat, cost : Nat]]
       /\ spent' \in [Task -> UsageT] /\ result' \in [Task -> [status : Status, wrote : BOOLEAN]]
   BY ZenonT(40), <1>0 DEF HelpersTypes, TaskStep
 <2>. QED BY ZenonT(40), <1>0, <2>1, <2>2 DEF HelpersTypes, TaskStep
<1>3. Budgets'
 <2>1. ASSUME NEW u \in Task
       PROVE  /\ BudgetOf(task'[u], limit'[u], spent'[u])
              /\ task'[u] = "ready" => limit'[u] = [turns |-> batch.turns, cost |-> batch.cost]
   BY ZenonT(40), <1>0, <1>1 DEF Budgets
 <2>2. ASSUME NEW s, NEW l, NEW u, BudgetOf(s, l, u) PROVE BudgetOf(s, l, u)'
   BY <1>0, <2>2 DEF BudgetOf, TurnsOfTask
 <2>3. ASSUME NEW u \in Task PROVE BudgetOf(task[u], limit[u], spent[u])'
  <3>1. BudgetOf(task'[u], limit'[u], spent'[u]) BY <2>1
  <3>. QED BY <1>0, <3>1 DEF BudgetOf, TurnsOfTask
 <2>. QED BY <1>0, <2>1, <2>3 DEF Budgets
<1>4. Phases' BY <1>0 DEF Phases, Teams!Writers
<1>5. ASSUME NEW u \in Task, u # t, task[u] \in {"audit lead", "done"}, request[u].writes, Integrable(u)
      PROVE  Integrable(u)'
 <2>1. request[u].tree \in Tree BY <1>0 DEF HelpersTypes
 <2>2. tree'[request[u].tree] = tree[request[u].tree]
  <3>1. CASE tree' = tree BY <3>1
  <3>2. CASE request[t].writes /\ \A w \in Tree : w # request[t].tree => tree'[w] = tree[w]
   <4>1. u \in Teams!Writers /\ t \in Teams!Writers \ {u} BY <1>5, <3>2 DEF Teams!Writers
   <4>2. request[t].tree # request[u].tree BY <1>0, <4>1 DEF Phases
   <4>. QED BY <2>1, <3>2, <4>2
  <3>. QED BY <3>1, <3>2
 <2>. QED BY <1>0, <1>1, <1>5, <2>2 DEF Integrable, Teams!HeadOf
<1>6. Results'
 <2> SUFFICES ASSUME NEW u \in Task
              PROVE  /\ task'[u] \in {"ready", "first", "asking", "second"} => result'[u] = Teams!NoResult
                     /\ result'[u].status = "complete" => spent'[u].turns > 0
                     /\ task'[u] \in {"audit lead", "done"} /\ request'[u].writes /\ result'[u].status = "complete"
                          => Integrable(u)'
   BY DEF Results, Teams!NoResult
 <2>1. CASE u = t BY <1>0, <2>1
 <2>2. CASE u # t BY <1>0, <1>1, <1>5, <2>2 DEF Results
 <2>. QED BY <2>1, <2>2
<1>7. Pairs' BY <1>0 DEF Pairs
<1>. QED BY <1>2, <1>3, <1>4, <1>6, <1>7 DEF HelpersInv

\* The facts of a task of a batch that runs.
LEMMA AtTask ==
  ASSUME HelpersInv, NEW t \in Task
  PROVE  /\ BudgetOf(task[t], limit[t], spent[t])
         /\ limit[t] \in [turns : Nat, cost : Nat] /\ spent[t] \in UsageT /\ spent[t].turns \in Nat
         /\ result[t] \in [status : Status, wrote : BOOLEAN] /\ result[t].status \in Status
         /\ task[t] \in {"ready", "first", "asking", "second"} => result[t] = Teams!NoResult
         /\ result[t].status = "complete" => spent[t].turns > 0
         /\ task[t] # "ready" => phase \notin {"new", "validate", "refused"}
         /\ task[t] \notin {"ready", "done"} => phase = "running"
         /\ task \in [Task -> Stage] /\ limit \in [Task -> [turns : Nat, cost : Nat]]
         /\ spent \in [Task -> UsageT] /\ result \in [Task -> [status : Status, wrote : BOOLEAN]]
<1>1. HelpersTypes /\ Budgets /\ Results /\ Phases BY DEF HelpersInv
<1>2. spent[t].turns \in Nat BY <1>1 DEF HelpersTypes, UsageT
<1>3. result[t].status \in Status BY <1>1 DEF HelpersTypes
<1>4. /\ task[t] # "ready" => phase \notin {"new", "validate", "refused"}
      /\ task[t] \notin {"ready", "done"} => phase = "running"
  BY <1>1 DEF Phases, Teams!AllDone, HelpersTypes
<1>5. /\ limit[t] \in [turns : Nat, cost : Nat] /\ spent[t] \in UsageT
      /\ result[t] \in [status : Status, wrote : BOOLEAN]
      /\ task \in [Task -> Stage] /\ limit \in [Task -> [turns : Nat, cost : Nat]]
      /\ spent \in [Task -> UsageT] /\ result \in [Task -> [status : Status, wrote : BOOLEAN]]
  BY <1>1 DEF HelpersTypes
<1>. QED BY <1>1, <1>2, <1>3, <1>4, <1>5 DEF Budgets, Results

\* What stays the same of a task whose stage alone changes.
LEMMA BudgetKept ==
  ASSUME NEW s, NEW l, NEW u, BudgetOf(s, l, u)
  PROVE  /\ s \in {"first", "second"} => BudgetOf(s, l, u)
         /\ s = "asking" => BudgetOf("second", l, u)
         /\ s \in {"audit", "audit lead"} => BudgetOf("audit lead", l, u) /\ BudgetOf("done", l, u)
  BY DEF BudgetOf

LEMMA BeginStep ==
  ASSUME HelpersInv, NEW t \in Task, Teams!Begin(t)
  PROVE  HelpersInv'
<1>1. /\ phase = "running" /\ task[t] = "ready" /\ task' = [task EXCEPT ![t] = "first"]
      /\ UNCHANGED <<batch, request, lead, tree, leadHead, phase, limit, spent, result, canceled>>
  BY DEF Teams!Begin
<1>2. task'[t] = "first" /\ TaskStep(t) BY <1>1, AtTask DEF TaskStep
<1>3. limit[t] = [turns |-> batch.turns, cost |-> batch.cost] /\ spent[t] = Teams!Nothing
 <2>1. BudgetOf("ready", limit[t], spent[t]) BY <1>1, AtTask
 <2>. QED BY <1>1, <2>1 DEF HelpersInv, Budgets, BudgetOf
<1>4. BudgetOf("first", limit[t], spent[t]) BY <1>3 DEF BudgetOf
<1>. QED BY <1>1, <1>2, <1>4, AtTask, TaskMoves DEF Stage

LEMMA AnswerSteps ==
  ASSUME HelpersInv, NEW t \in Task, Teams!Answer(t) \/ Teams!NoAnswer(t)
  PROVE  HelpersInv'
<1>1. /\ task[t] = "asking"
      /\ UNCHANGED <<batch, request, lead, tree, leadHead, phase, limit, spent, canceled>>
  BY DEF Teams!Answer, Teams!NoAnswer
<1>2. phase = "running" /\ result[t] = Teams!NoResult /\ BudgetOf("asking", limit[t], spent[t])
  BY <1>1, AtTask
<1>3. CASE Teams!Answer(t)
 <2>1. task'[t] = "second" /\ TaskStep(t) /\ result' = result
   BY <1>1, <1>3, AtTask DEF Teams!Answer, TaskStep
 <2>2. BudgetOf("second", limit[t], spent[t]) BY <1>2, BudgetKept
 <2>. QED BY <1>1, <1>2, <2>1, <2>2, AtTask, TaskMoves DEF Stage
<1>4. CASE Teams!NoAnswer(t)
 <2>1. task'[t] \in {"audit", "done"} /\ TaskStep(t)
       /\ result'[t] = [Teams!NoResult EXCEPT !.status = "cancelled"]
   BY <1>1, <1>2, <1>4, AtTask DEF Teams!NoAnswer, TaskStep, Teams!AfterRun
 <2>2. result'[t].status = "cancelled" /\ result'[t] \in [status : Status, wrote : BOOLEAN]
   BY <2>1 DEF Teams!NoResult, Status
 <2>3. BudgetOf(task'[t], limit[t], spent[t])
  <3>1. /\ spent[t].calls = 1
        /\ TurnsOfTask > 0 => limit[t].turns > 0 /\ spent[t].turns + limit[t].turns = TurnsOfTask
        /\ batch.cost > 0 => limit[t].cost > 0 /\ spent[t].cost + limit[t].cost = batch.cost
    BY <1>2 DEF BudgetOf
  <3>2. /\ spent[t].turns \in Nat /\ spent[t].cost \in Nat /\ limit[t].turns \in Nat /\ limit[t].cost \in Nat
        /\ batch.cost \in Nat /\ TurnsOfTask \in Nat
    BY DEF HelpersInv, HelpersTypes, UsageT, TurnsOfTask
  <3>3. /\ spent[t].calls \in 1..2
        /\ TurnsOfTask > 0 => spent[t].turns <= TurnsOfTask
        /\ batch.cost > 0 => spent[t].cost <= batch.cost + 1
    BY <3>1, <3>2
  <3>. QED BY <2>1, <3>3 DEF BudgetOf
 <2>. QED BY <1>1, <1>2, <2>1, <2>2, <2>3, AtTask, TaskMoves DEF Stage
<1>. QED BY <1>3, <1>4

LEMMA WriteStep ==
  ASSUME HelpersInv, NEW t \in Task, Teams!Write(t)
  PROVE  HelpersInv'
<1>1. /\ task[t] \in {"first", "second"} /\ request[t].writes
      /\ UNCHANGED <<batch, request, lead, leadHead, phase, task, limit, spent, result, canceled>>
  BY DEF Teams!Write
<1>2. /\ tree \in [Tree -> TreeT] /\ request[t].tree \in Tree BY DEF HelpersInv, HelpersTypes
<1>3. PICK n \in TreeT : tree' = [tree EXCEPT ![request[t].tree] = n]
 <2>1. PICK w \in TreeT : w = tree[request[t].tree] BY <1>2
 <2>2. PICK n \in {[w EXCEPT !.dirty = TRUE], [w EXCEPT !.dirty = FALSE, !.head.own = TRUE],
                   [head |-> Teams!Head(0), dirty |-> FALSE], [head |-> [base |-> 0, own |-> TRUE], dirty |-> FALSE]} :
         tree' = [tree EXCEPT ![request[t].tree] = n]
   BY <2>1 DEF Teams!Write
 <2>3. n \in TreeT
  <3>1. [w EXCEPT !.dirty = TRUE] \in TreeT BY DEF TreeT
  <3>2. PICK v \in TreeT : v = [w EXCEPT !.dirty = FALSE] BY DEF TreeT
  <3>3. [w EXCEPT !.dirty = FALSE, !.head.own = TRUE] = [v EXCEPT !.head.own = TRUE] BY <3>2
  <3>5. [v EXCEPT !.head.own = TRUE] \in TreeT BY DEF TreeT
  <3>4. /\ [head |-> Teams!Head(0), dirty |-> FALSE] \in TreeT
        /\ [head |-> [base |-> 0, own |-> TRUE], dirty |-> FALSE] \in TreeT
    BY DEF TreeT, Teams!Head
  <3>. QED BY <2>2, <3>1, <3>3, <3>4, <3>5
 <2>. QED BY <2>2, <2>3
<1>4. tree' \in [Tree -> TreeT] /\ \A w \in Tree : w # request[t].tree => tree'[w] = tree[w]
  BY <1>2, <1>3
<1>5. TaskStep(t) BY <1>1, AtTask DEF TaskStep
<1>. QED BY <1>1, <1>4, <1>5, AtTask, TaskMoves DEF Stage, Teams!NoResult

LEMMA RunEndsStep ==
  ASSUME HelpersParameters, HelpersInv, NEW t \in Task, Teams!RunEnds(t)
  PROVE  HelpersInv'
<1>1. /\ task[t] \in {"first", "second"}
      /\ UNCHANGED <<batch, request, lead, tree, leadHead, phase, canceled>>
  BY DEF Teams!RunEnds
<1>2. phase = "running" /\ result[t] = Teams!NoResult /\ HelpersTypes /\ Budgets
  BY <1>1, AtTask DEF HelpersInv
<1>3. PICK r \in Teams!Runs(Teams!Effective(t)), outcome \in {"error", "failed", "complete", "clarification"} :
        /\ outcome \in {"complete", "clarification"} => r.turns > 0
        /\ spent' = [spent EXCEPT ![t] = Teams!Plus(@, r)]
        /\ \/ /\ task[t] = "first" /\ Teams!MayContinue(Teams!Effective(t), r)
              /\ task' = [task EXCEPT ![t] = "asking"]
              /\ limit' = [limit EXCEPT ![t] = Teams!RemainingOf(t, r)]
              /\ UNCHANGED result
           \/ /\ task' = [task EXCEPT ![t] = Teams!AfterRun(t)]
              /\ result' = [result EXCEPT ![t].status =
                    CASE outcome = "complete" -> "complete"
                      [] batch.tool = "explore" /\ outcome = "error" -> "error"
                      [] OTHER -> "failed"]
              /\ UNCHANGED limit
  BY ZenonT(40) DEF Teams!RunEnds
<1>4. PICK u \in UsageT : u = Teams!Plus(spent[t], r) BY <1>1, <1>2, RunBudget
<1>5. /\ u.turns >= r.turns /\ r.turns \in Nat /\ u.turns \in Nat
      /\ \A s \in {"audit", "done"} : BudgetOf(s, limit[t], u)
      /\ task[t] = "first" /\ Teams!MayContinue(Teams!Effective(t), r) =>
           Teams!RemainingOf(t, r) \in [turns : Nat, cost : Nat] /\ BudgetOf("asking", Teams!RemainingOf(t, r), u)
  BY <1>1, <1>2, <1>4, RunBudget DEF UsageT
<1>6. spent'[t] = u /\ spent' = [spent EXCEPT ![t] = spent'[t]] BY <1>3, <1>4, AtTask
<1>7. CASE /\ task[t] = "first" /\ Teams!MayContinue(Teams!Effective(t), r)
           /\ task' = [task EXCEPT ![t] = "asking"]
           /\ limit' = [limit EXCEPT ![t] = Teams!RemainingOf(t, r)]
           /\ UNCHANGED result
 <2>1. PICK l \in [turns : Nat, cost : Nat] : l = Teams!RemainingOf(t, r) BY <1>5, <1>7
 <2>2. task'[t] = "asking" /\ limit'[t] = l /\ result'[t] = Teams!NoResult /\ TaskStep(t)
   BY <1>1, <1>2, <1>6, <1>7, <2>1, AtTask DEF TaskStep
 <2>3. BudgetOf("asking", l, u) BY <1>5, <1>7, <2>1
 <2>. QED
  <3>1. result'[t].status # "complete" /\ result'[t] \in [status : Status, wrote : BOOLEAN]
    BY <1>2, <2>2, AtTask DEF Teams!NoResult
  <3>2. task'[t] \in Stage \ {"ready"} BY <2>2 DEF Stage
  <3>. QED BY <1>1, <1>2, <1>4, <1>6, <2>1, <2>2, <2>3, <3>1, <3>2, TaskMoves
<1>8. CASE /\ task' = [task EXCEPT ![t] = Teams!AfterRun(t)]
           /\ result' = [result EXCEPT ![t].status =
                 CASE outcome = "complete" -> "complete"
                   [] batch.tool = "explore" /\ outcome = "error" -> "error"
                   [] OTHER -> "failed"]
           /\ UNCHANGED limit
 <2>1. PICK v \in {"complete", "error", "failed"} :
         /\ result' = [result EXCEPT ![t].status = v]
         /\ v = "complete" => outcome = "complete"
  <3>1. CASE outcome = "complete" BY <1>8, <3>1
  <3>2. CASE outcome # "complete" /\ batch.tool = "explore" /\ outcome = "error" BY <1>8, <3>2
  <3>3. CASE outcome # "complete" /\ ~(batch.tool = "explore" /\ outcome = "error") BY <1>8, <3>3
  <3>. QED BY <3>1, <3>2, <3>3
 <2>2. /\ result'[t] \in [status : Status, wrote : BOOLEAN] /\ result'[t].status = v
       /\ result' = [result EXCEPT ![t] = result'[t]]
  <3>1. result'[t] = [result[t] EXCEPT !.status = v] /\ result' = [result EXCEPT ![t] = result'[t]]
    BY <2>1, AtTask
  <3>2. v \in Status BY DEF Status
  <3>. QED BY <3>1, <3>2, AtTask
 <2>3. task' = [task EXCEPT ![t] = task'[t]] /\ task'[t] \in {"audit", "done"}
       /\ (task'[t] = "done" => ~request[t].writes)
   BY <1>8, AtTask DEF Teams!AfterRun
 <2>4. TaskStep(t) /\ limit'[t] = limit[t] BY <1>1, <1>6, <1>8, <2>2, <2>3, AtTask DEF TaskStep
 <2>5. BudgetOf(task'[t], limit'[t], spent'[t]) BY <1>5, <1>6, <2>3, <2>4
 <2>6. result'[t] \in [status : Status, wrote : BOOLEAN] BY <2>2
 <2>7. result'[t].status = "complete" => spent'[t].turns > 0 BY <1>3, <1>5, <1>6, <2>1, <2>2
 <2>8. task'[t] \in Stage \ {"ready"} /\ task'[t] \notin {"first", "asking", "second", "audit lead"}
   BY <2>3 DEF Stage
 <2>. QED BY <1>1, <1>2, <1>6, <2>3, <2>4, <2>5, <2>6, <2>7, <2>8, AtTask, TaskMoves
<1>. QED BY <1>3, <1>7, <1>8

\* An audit keeps a status or makes it worse, and passes a commit of the writer's
\* own on top of that of the lead.
LEMMA AuditTreeStep ==
  ASSUME HelpersInv, NEW t \in Task, Teams!AuditTree(t)
  PROVE  HelpersInv'
<1>1. /\ task[t] = "audit"
      /\ UNCHANGED <<batch, request, lead, tree, leadHead, phase, limit, spent, canceled>>
  BY DEF Teams!AuditTree
<1>2. phase = "running" /\ HelpersTypes /\ Phases BY <1>1, AtTask DEF HelpersInv
<1>3. PICK w \in TreeT : w = tree[request[t].tree] BY <1>2 DEF HelpersTypes
<1>4. PICK ok \in BOOLEAN, wrote \in BOOLEAN :
        /\ ok => wrote /\ w.head # Teams!Head(request[t].base) /\ w.head.base >= request[t].base
        /\ result' = [result EXCEPT ![t] =
             [status |-> IF ok /\ ~w.dirty THEN @.status ELSE Teams!Fault(t, "failed"), wrote |-> wrote]]
        /\ task' = [task EXCEPT ![t] = IF ok THEN "audit lead" ELSE "done"]
 <2>1. PICK looked \in BOOLEAN, compared \in BOOLEAN :
         LET v == tree[request[t].tree]
             new == v.head # Teams!Head(request[t].base)
             based == v.head.base >= request[t].base
             ok == looked /\ new /\ compared /\ based IN
         /\ result' = [result EXCEPT ![t] =
              [status |-> IF ok /\ ~v.dirty THEN @.status ELSE Teams!Fault(t, "failed"), wrote |-> looked /\ new]]
         /\ task' = [task EXCEPT ![t] = IF ok THEN "audit lead" ELSE "done"]
   BY DEF Teams!AuditTree
 <2>2. PICK wrote \in BOOLEAN : wrote = (looked /\ w.head # Teams!Head(request[t].base)) OBVIOUS
 <2>3. PICK ok \in BOOLEAN :
         ok = (looked /\ w.head # Teams!Head(request[t].base) /\ compared /\ w.head.base >= request[t].base)
   OBVIOUS
 <2>4. /\ result' = [result EXCEPT ![t] =
            [status |-> IF ok /\ ~w.dirty THEN @.status ELSE Teams!Fault(t, "failed"), wrote |-> wrote]]
       /\ task' = [task EXCEPT ![t] = IF ok THEN "audit lead" ELSE "done"]
   BY <1>3, <2>1, <2>2, <2>3
 <2>. QED BY ZenonT(40), <2>2, <2>3, <2>4
<1>5. task'[t] = (IF ok THEN "audit lead" ELSE "done") /\ task' = [task EXCEPT ![t] = task'[t]]
  BY <1>4, AtTask
<1>6. /\ result' = [result EXCEPT ![t] = result'[t]]
      /\ result'[t] = [status |-> IF ok /\ ~w.dirty THEN result[t].status ELSE Teams!Fault(t, "failed"),
                       wrote |-> wrote]
  BY <1>4, AtTask
<1>7. Teams!Fault(t, "failed") \in Status /\ Teams!Fault(t, "failed") # "complete"
  BY AtTask DEF Teams!Fault, Status
<1>8. /\ result'[t] \in [status : Status, wrote : BOOLEAN]
      /\ result'[t].status = "complete" => ok /\ ~w.dirty /\ result[t].status = "complete"
      /\ ok => result'[t].wrote
 <2>1. CASE ok /\ ~w.dirty BY <1>4, <1>6, <2>1, AtTask
 <2>2. CASE ~(ok /\ ~w.dirty)
  <3>1. result'[t] = [status |-> Teams!Fault(t, "failed"), wrote |-> wrote] BY <1>6, <2>2
  <3>2. PICK f \in Status : f = Teams!Fault(t, "failed") BY <1>7
  <3>3. result'[t].status = f /\ result'[t].wrote = wrote /\ result'[t] \in [status : Status, wrote : BOOLEAN]
    BY <3>1, <3>2
  <3>. QED BY <1>4, <1>7, <3>2, <3>3
 <2>. QED BY <2>1, <2>2
<1>9. TaskStep(t) /\ limit'[t] = limit[t] /\ spent'[t] = spent[t]
  BY <1>1, <1>5, <1>6, AtTask DEF TaskStep
<1>10. BudgetOf(task'[t], limit'[t], spent'[t])
 <2>1. task'[t] \in {"audit lead", "done"} /\ BudgetOf("audit", limit[t], spent[t])
   BY <1>1, <1>5, AtTask
 <2>. QED BY <1>9, <2>1, BudgetKept
<1>11. ASSUME request[t].writes, result'[t].status = "complete" PROVE Integrable(t)'
 <2>1. request[t].base = leadHead /\ leadHead >= 1 /\ request[t].base \in {0, 1} /\ leadHead \in Nat
   BY <1>2, <1>11 DEF HelpersTypes, Phases, Teams!Writers
 <2>2. leadHead = 1 BY <2>1
 <2>3. /\ ok /\ ~w.dirty /\ result'[t].wrote BY <1>8, <1>11
 <2>4. w.head \in [base : {0, 1}, own : BOOLEAN] /\ w.head # [base |-> 1, own |-> FALSE] /\ w.head.base >= 1
   BY <1>4, <2>1, <2>2, <2>3 DEF TreeT, Teams!Head
 <2>5. w.head.base \in {0, 1} /\ w.head.own \in BOOLEAN /\ w.head = [base |-> w.head.base, own |-> w.head.own]
   BY <2>4
 <2>6. w.head.base = 1 BY <2>4, <2>5
 <2>7. w.head = [base |-> 1, own |-> TRUE] BY <2>4, <2>5, <2>6
 <2>. QED BY <1>1, <1>3, <2>2, <2>3, <2>7 DEF Integrable, Teams!HeadOf
<1>12. task'[t] \in Stage \ {"ready"} /\ task'[t] \notin {"first", "asking", "second"}
  BY <1>5 DEF Stage
<1>13. result'[t].status = "complete" => spent'[t].turns > 0 BY <1>8, <1>9, AtTask
<1>. QED BY <1>1, <1>2, <1>8, <1>9, <1>10, <1>11, <1>12, <1>13, AtTask, TaskMoves

LEMMA AuditLeadStep ==
  ASSUME HelpersInv, NEW t \in Task, Teams!AuditLead(t)
  PROVE  HelpersInv'
<1>1. /\ task[t] = "audit lead" /\ task' = [task EXCEPT ![t] = "done"]
      /\ UNCHANGED <<batch, request, lead, tree, leadHead, phase, limit, spent, canceled>>
  BY DEF Teams!AuditLead
<1>2. phase = "running" /\ Results BY <1>1, AtTask DEF HelpersInv
<1>3. Teams!Fault(t, "stale") \in Status \ {"complete"} /\ Teams!Fault(t, "failed") \in Status \ {"complete"}
  BY AtTask DEF Teams!Fault, Status
<1>4. PICK v \in Status : /\ result' = [result EXCEPT ![t].status = v]
                          /\ v = "complete" => result[t].status = "complete"
 <2>1. PICK looked \in BOOLEAN, merged \in BOOLEAN :
         result' = [result EXCEPT ![t].status =
           IF ~looked \/ lead # leadHead THEN Teams!Fault(t, "stale")
           ELSE IF ~merged THEN Teams!Fault(t, "failed") ELSE @]
   BY DEF Teams!AuditLead
 <2>2. CASE ~looked \/ lead # leadHead BY <1>3, <2>1, <2>2
 <2>3. CASE ~(~looked \/ lead # leadHead) /\ ~merged BY <1>3, <2>1, <2>3
 <2>4. CASE ~(~looked \/ lead # leadHead) /\ merged BY <2>1, <2>4, AtTask
 <2>. QED BY <2>2, <2>3, <2>4
<1>5. /\ result'[t] = [result[t] EXCEPT !.status = v] /\ result' = [result EXCEPT ![t] = result'[t]]
  BY <1>4, AtTask
<1>6. /\ result'[t] \in [status : Status, wrote : BOOLEAN]
      /\ result'[t].status = v /\ result'[t].wrote = result[t].wrote
  BY <1>5, AtTask
<1>7. TaskStep(t) /\ limit'[t] = limit[t] /\ spent'[t] = spent[t] /\ task'[t] = "done"
  BY <1>1, <1>5, AtTask DEF TaskStep
<1>8. BudgetOf(task'[t], limit'[t], spent'[t]) BY <1>1, <1>7, AtTask, BudgetKept
<1>9. ASSUME request[t].writes, result'[t].status = "complete" PROVE Integrable(t)'
 <2>1. Integrable(t) BY <1>1, <1>2, <1>4, <1>6, <1>9 DEF Results
 <2>. QED BY <1>1, <1>6, <2>1 DEF Integrable, Teams!HeadOf
<1>10. result'[t].status = "complete" => spent'[t].turns > 0 BY <1>4, <1>6, <1>7, AtTask
<1>. QED BY <1>1, <1>2, <1>6, <1>7, <1>8, <1>9, <1>10, AtTask, TaskMoves DEF Stage

----------------------------------------
(* The steps of the batch.                                                 *)

\* Budgets and results stay what they are while the tasks do.
LEMMA BatchMoves ==
  ASSUME HelpersInv, UNCHANGED <<batch, request, tree, task, spent, result, limit>>
  PROVE  /\ phase # "new" /\ leadHead' = leadHead => Results'
         /\ phase' \in {"new", "validate"} \/ phase \notin {"new", "validate"} => Budgets'
<1>0. Budgets /\ Results BY DEF HelpersInv
<1>1. ASSUME phase # "new", leadHead' = leadHead PROVE Results'
  BY <1>0, <1>1 DEF Results, Integrable, Teams!HeadOf, Teams!NoResult
<1>2. ASSUME NEW t \in Task PROVE BudgetOf(task[t], limit[t], spent[t])'
 <2>1. BudgetOf(task[t], limit[t], spent[t]) BY <1>0 DEF Budgets
 <2>. QED BY <2>1 DEF BudgetOf, TurnsOfTask, Teams!Nothing
<1>3. ASSUME phase' \in {"new", "validate"} \/ phase \notin {"new", "validate"} PROVE Budgets'
  BY <1>0, <1>2, <1>3 DEF Budgets
<1>. QED BY <1>1, <1>3

LEMMA InspectStep ==
  ASSUME HelpersParameters, HelpersInv, Teams!Inspect
  PROVE  HelpersInv'
<1>1. /\ phase = "new" /\ phase' = "validate" /\ leadHead' = lead
      /\ UNCHANGED <<batch, request, lead, tree, task, limit, spent, result, canceled>>
  BY DEF Teams!Inspect
<1>2. HelpersTypes' /\ lead >= 1 BY <1>1 DEF HelpersInv, HelpersTypes
<1>3. \A t \in Task : task[t] = "ready" /\ result[t] = Teams!NoResult
  BY <1>1, AtTask DEF HelpersInv, Phases
<1>4. Results'
 <2>1. \A t \in Task : result'[t] = result[t] /\ result[t].status # "complete" /\ task'[t] = "ready"
   BY <1>1, <1>3 DEF Teams!NoResult
 <2>2. \A t \in Task : result'[t] = Teams!NoResult /\ result'[t].status # "complete" /\ task'[t] \notin {"audit lead", "done"}
   BY <1>3, <2>1
 <2>. QED BY <2>2 DEF Results, Teams!NoResult
<1>5. Budgets' BY <1>1, BatchMoves
<1>6. Phases' /\ Pairs' BY <1>1, <1>2, <1>3 DEF Phases, Pairs
<1>. QED BY <1>2, <1>4, <1>5, <1>6 DEF HelpersInv

LEMMA ValidateStep ==
  ASSUME HelpersInv, Teams!Validate
  PROVE  HelpersInv'
<1>1. /\ phase = "validate" /\ phase' = (IF Teams!Valid THEN "running" ELSE "refused")
      /\ limit' = [t \in Task |-> [turns |-> batch.turns, cost |-> batch.cost]]
      /\ UNCHANGED <<batch, request, lead, tree, leadHead, task, spent, result, canceled>>
  BY DEF Teams!Validate
<1>2. \A t \in Task : task[t] = "ready" /\ result[t] = Teams!NoResult
  BY <1>1, AtTask DEF HelpersInv, Phases
<1>3. HelpersTypes'
 <2>1. [turns |-> batch.turns, cost |-> batch.cost] \in [turns : Nat, cost : Nat]
   BY DEF HelpersInv, HelpersTypes
 <2>2. limit' \in [Task -> [turns : Nat, cost : Nat]] BY <1>1, <2>1
 <2>. QED BY <1>1, <2>2 DEF HelpersInv, HelpersTypes
<1>4. Results'
 <2>1. \A t \in Task : result'[t] = result[t] /\ result[t].status # "complete" /\ task'[t] = "ready"
   BY <1>1, <1>2 DEF Teams!NoResult
 <2>2. \A t \in Task : result'[t] = Teams!NoResult /\ result'[t].status # "complete" /\ task'[t] \notin {"audit lead", "done"}
   BY <1>2, <2>1
 <2>. QED BY <2>2 DEF Results, Teams!NoResult
<1>5. ASSUME NEW t \in Task
      PROVE  /\ BudgetOf(task[t], limit[t], spent[t])'
             /\ limit'[t] = [turns |-> batch'.turns, cost |-> batch'.cost]
 <2>1. BudgetOf("ready", limit[t], spent[t]) BY <1>2, AtTask
 <2>2. spent[t] = Teams!Nothing BY <2>1 DEF BudgetOf
 <2>. QED BY <1>1, <1>2, <2>2 DEF BudgetOf, Teams!Nothing
<1>6. Budgets' BY <1>5 DEF Budgets
<1>7. Phases' /\ Pairs'
 <2>1. ASSUME Teams!Valid, NEW t \in Teams!Writers
       PROVE  request[t].base = leadHead /\ \A u \in Teams!Writers \ {t} : request[u].tree # request[t].tree
   BY <2>1 DEF Teams!Valid
 <2>. QED BY <1>1, <1>2, <2>1 DEF HelpersInv, Phases, Pairs, Teams!Writers
<1>. QED BY <1>3, <1>4, <1>6, <1>7 DEF HelpersInv

LEMMA OutsideSteps ==
  ASSUME HelpersParameters, HelpersInv, Teams!Cancel \/ Teams!LeadMoves
  PROVE  HelpersInv'
<1>1. /\ phase \in {"validate", "running"} /\ phase' = phase /\ leadHead' = leadHead
      /\ UNCHANGED <<batch, request, tree, task, limit, spent, result>>
      /\ \/ canceled' = TRUE /\ lead' = lead
         \/ lead' = lead + 1 /\ lead <= MaxMoves /\ canceled' = canceled
  BY DEF Teams!Cancel, Teams!LeadMoves
<1>2. HelpersTypes'
 <2>1. /\ lead \in Nat /\ lead >= 1 /\ lead <= MaxMoves + 1 /\ leadHead \in Nat /\ leadHead <= lead
       /\ canceled \in BOOLEAN
   BY DEF HelpersInv, HelpersTypes
 <2>2. /\ lead' \in Nat /\ lead' >= 1 /\ lead' <= MaxMoves + 1 /\ leadHead' \in Nat /\ leadHead' <= lead'
       /\ canceled' \in BOOLEAN
  <3>1. CASE lead' = lead BY <1>1, <2>1, <3>1
  <3>2. CASE lead' = lead + 1 /\ lead <= MaxMoves BY <1>1, <2>1, <3>2 DEF HelpersParameters
  <3>3. canceled' \in BOOLEAN BY <1>1, <2>1
  <3>. QED BY <1>1, <3>1, <3>2, <3>3
 <2>. QED BY <1>1, <2>2 DEF HelpersInv, HelpersTypes
<1>3. Results' /\ Budgets' BY <1>1, BatchMoves
<1>4. Phases' /\ Pairs' BY <1>1 DEF HelpersInv, Phases, Pairs, Teams!Writers
<1>. QED BY <1>2, <1>3, <1>4 DEF HelpersInv

\* Of two writers that left commits, none stays complete when these conflict.
LEMMA PairsStep ==
  ASSUME HelpersInv, Teams!AuditPairs
  PROVE  HelpersInv'
<1>1. /\ phase = "running" /\ Teams!AllDone /\ phase' = "report"
      /\ UNCHANGED <<batch, request, lead, tree, leadHead, task, limit, spent, canceled>>
  BY DEF Teams!AuditPairs
<1>2. HelpersTypes /\ Phases /\ Results BY DEF HelpersInv
<1>3. PICK merged \in BOOLEAN :
        result' = [t \in Task |->
          IF result[t].wrote /\ \E u \in Task \ {t} : result[u].wrote
          THEN [result[t] EXCEPT !.status = IF ~merged THEN Teams!Fault(t, "failed")
                                            ELSE IF batch.clashes THEN Teams!Fault(t, "conflict") ELSE @]
          ELSE result[t]]
  BY DEF Teams!AuditPairs
<1>4. ASSUME NEW t \in Task
      PROVE  /\ result'[t] \in [status : Status, wrote : BOOLEAN]
             /\ result'[t].wrote = result[t].wrote
             /\ result'[t].status = "complete" => result[t].status = "complete"
             /\ task[t] = "ready" => result'[t] = result[t]
             /\ result'[t].status = "complete" /\ batch.clashes /\ result[t].wrote =>
                  \A u \in Task \ {t} : ~result[u].wrote
 <2>1. PICK x \in [status : Status, wrote : BOOLEAN] : x = result[t] BY AtTask
 <2>2. CASE result[t].wrote /\ \E u \in Task \ {t} : result[u].wrote
  <3>1. PICK f \in Status, g \in Status : f = Teams!Fault(t, "failed") /\ g = Teams!Fault(t, "conflict")
    BY AtTask DEF Teams!Fault, Status
  <3>2. f # "complete" /\ g # "complete" BY <3>1 DEF Teams!Fault
  <3>3. PICK v \in Status : /\ result'[t] = [x EXCEPT !.status = v]
                            /\ v = "complete" => x.status = "complete" /\ ~batch.clashes
   <4>1. result'[t] = [x EXCEPT !.status = IF ~merged THEN f ELSE IF batch.clashes THEN g ELSE @]
     BY <1>3, <2>1, <2>2, <3>1
   <4>2. CASE ~merged BY <3>2, <4>1, <4>2
   <4>3. CASE merged /\ batch.clashes BY <3>2, <4>1, <4>3
   <4>4. CASE merged /\ ~batch.clashes BY <4>1, <4>4
   <4>. QED BY <4>2, <4>3, <4>4
  <3>4. /\ result'[t] \in [status : Status, wrote : BOOLEAN]
        /\ result'[t].status = v /\ result'[t].wrote = x.wrote
    BY <3>3
  <3>5. task[t] # "ready" BY <2>2, AtTask DEF Teams!NoResult
  <3>. QED BY <2>1, <3>3, <3>4, <3>5
 <2>3. CASE ~(result[t].wrote /\ \E u \in Task \ {t} : result[u].wrote)
  <3>1. result'[t] = result[t] BY <1>3, <2>3
  <3>. QED BY <2>1, <2>3, <3>1
 <2>. QED BY <2>2, <2>3
<1>5. HelpersTypes'
 <2>1. result' \in [Task -> [status : Status, wrote : BOOLEAN]] BY <1>3, <1>4
 <2>. QED BY <1>1, <1>2, <2>1 DEF HelpersTypes
<1>6. \A t \in Task : task[t] \in {"ready", "done"} BY <1>1 DEF Teams!AllDone
<1>7. Results'
 <2> SUFFICES ASSUME NEW t \in Task
              PROVE  /\ task'[t] \in {"ready", "first", "asking", "second"} => result'[t] = Teams!NoResult
                     /\ result'[t].status = "complete" => spent'[t].turns > 0
                     /\ task'[t] \in {"audit lead", "done"} /\ request'[t].writes /\ result'[t].status = "complete"
                          => Integrable(t)'
   BY DEF Results, Teams!NoResult
 <2>1. task'[t] \in {"ready", "first", "asking", "second"} => result'[t] = Teams!NoResult
   BY <1>1, <1>2, <1>4, <1>6 DEF Results
 <2>2. result'[t].status = "complete" => spent'[t].turns > 0 BY <1>1, <1>2, <1>4 DEF Results
 <2>3. ASSUME task'[t] \in {"audit lead", "done"}, request'[t].writes, result'[t].status = "complete"
       PROVE  Integrable(t)'
  <3>1. Integrable(t) BY <1>1, <1>2, <1>4, <2>3 DEF Results
  <3>. QED BY <1>1, <1>4, <3>1 DEF Integrable, Teams!HeadOf
 <2>. QED BY <2>1, <2>2, <2>3
<1>8. Budgets'
 <2>1. ASSUME NEW t \in Task PROVE BudgetOf(task[t], limit[t], spent[t])'
  <3>1. BudgetOf(task[t], limit[t], spent[t]) BY AtTask
  <3>. QED BY <1>1, <3>1 DEF BudgetOf, TurnsOfTask, Teams!Nothing
 <2>. QED BY <1>1, <2>1 DEF HelpersInv, Budgets
<1>9. Phases' BY <1>1, <1>2 DEF Phases, Teams!Writers, Teams!AllDone
<1>10. Pairs'
 <2> SUFFICES ASSUME batch.clashes, NEW t \in Teams!Writers, NEW u \in Teams!Writers, t # u,
                     result'[t].status = "complete", result'[u].status = "complete"
              PROVE  FALSE
   BY <1>1 DEF Pairs, Teams!Writers
 <2>1. t \in Task /\ u \in Task /\ request[t].writes /\ request[u].writes BY DEF Teams!Writers
 <2>2. result[t].status = "complete" /\ result[u].status = "complete" BY <1>4, <2>1
 <2>3. task[t] = "done" /\ task[u] = "done" BY <1>6, <2>1, <2>2, AtTask DEF Teams!NoResult
 <2>4. result[t].wrote /\ result[u].wrote BY <1>2, <2>1, <2>2, <2>3 DEF Results, Integrable
 <2>. QED BY <1>4, <2>1, <2>4
<1>. QED BY <1>5, <1>7, <1>8, <1>9, <1>10 DEF HelpersInv

LEMMA ReportStep ==
  ASSUME HelpersInv, Teams!Report
  PROVE  HelpersInv'
<1>1. /\ phase = "report" /\ phase' = (IF Teams!Failed THEN "failed" ELSE "reported")
      /\ UNCHANGED <<batch, request, lead, tree, leadHead, task, limit, spent, result, canceled>>
  BY DEF Teams!Report
<1>2. HelpersTypes' BY <1>1 DEF HelpersInv, HelpersTypes
<1>3. Results' /\ Budgets' BY <1>1, BatchMoves
<1>4. Phases'
 <2>1. Teams!AllDone BY <1>1 DEF HelpersInv, Phases
 <2>2. ASSUME phase' = "reported", NEW t \in Task PROVE task[t] = "done"
  <3>1. ~Teams!Failed BY <1>1, <2>2
  <3>. QED BY <2>1, <3>1 DEF Teams!AllDone, Teams!Failed
 <2>3. phase' \in {"failed", "reported"} BY <1>1
 <2>4. phase' \notin {"new", "validate", "refused", "running", "report"} BY <2>3
 <2>. QED BY <1>1, <2>1, <2>2, <2>4 DEF HelpersInv, Phases, Teams!Writers, Teams!AllDone
<1>5. Pairs' BY <1>1 DEF HelpersInv, Pairs, Teams!Writers
<1>. QED BY <1>2, <1>3, <1>4, <1>5 DEF HelpersInv

----------------------------------------
(* The helpers: what holds of them.                                        *)

LEMMA HelpersInit == HelpersParameters /\ Teams!Init => HelpersInv
<1> SUFFICES ASSUME HelpersParameters, Teams!Init PROVE HelpersInv
  OBVIOUS
<1>1. \A t \in Task : task[t] = "ready" /\ result[t] = Teams!NoResult /\ spent[t] = Teams!Nothing
  BY DEF Teams!Init
<1>2. HelpersTypes
 <2>1. batch \in [tool : {"team", "explore"}, turns : Nat, role : Nat, cost : Nat, clashes : BOOLEAN]
   BY DEF Teams!Init, HelpersParameters
 <2>2. tree \in [Tree -> TreeT]
  <3>1. Teams!Head(0) \in [base : {0, 1}, own : BOOLEAN] /\ Teams!Head(1) \in [base : {0, 1}, own : BOOLEAN]
    BY DEF Teams!Head
  <3>2. tree \in [Tree -> [head : {Teams!Head(0), Teams!Head(1)}, dirty : BOOLEAN]]
    BY Zenon DEF Teams!Init
  <3>. QED BY <3>1, <3>2 DEF TreeT
 <2>3. Teams!Nothing \in UsageT /\ Teams!NoResult \in [status : Status, wrote : BOOLEAN]
   BY DEF Teams!Nothing, UsageT, Teams!NoResult, Status
 <2>4. request \in [Task -> [writes : BOOLEAN, tree : Tree, base : {0, 1}]] BY DEF Teams!Init
 <2>5. task \in [Task -> Stage] /\ limit \in [Task -> [turns : Nat, cost : Nat]]
       /\ spent \in [Task -> UsageT] /\ result \in [Task -> [status : Status, wrote : BOOLEAN]]
   BY <2>3 DEF Teams!Init, Stage
 <2>6. lead = 1 /\ leadHead = 0 /\ phase = "new" /\ canceled = FALSE BY DEF Teams!Init
 <2>7. lead \in Nat /\ lead >= 1 /\ lead <= MaxMoves + 1 /\ leadHead \in Nat /\ leadHead <= lead
   BY <2>6 DEF HelpersParameters
 <2>8. phase \in {"new", "validate", "refused", "running", "report", "failed", "reported"} /\ canceled \in BOOLEAN
   BY <2>6
 <2>. QED BY <2>1, <2>2, <2>4, <2>5, <2>7, <2>8 DEF HelpersTypes
<1>3. Budgets BY <1>1 DEF Teams!Init, Budgets, BudgetOf
<1>4. Phases /\ Pairs BY <1>1 DEF Teams!Init, Phases, Pairs
<1>5. Results
 <2>0. Teams!NoResult.status # "complete" BY DEF Teams!NoResult
 <2>1. \A t \in Task : result[t].status # "complete" /\ task[t] \notin {"audit lead", "done"}
   BY <1>1, <2>0
 <2>. QED BY <1>1, <2>1 DEF Results
<1>. QED BY <1>2, <1>3, <1>4, <1>5 DEF HelpersInv

LEMMA HelpersNext == HelpersParameters /\ HelpersInv /\ [Teams!Next]_(Teams!vars) => HelpersInv'
<1> SUFFICES ASSUME HelpersParameters, HelpersInv, [Teams!Next]_(Teams!vars) PROVE HelpersInv'
  OBVIOUS
<1>1. ASSUME NEW t \in Task,
             \/ Teams!Begin(t) \/ Teams!Write(t) \/ Teams!RunEnds(t) \/ Teams!Answer(t) \/ Teams!NoAnswer(t)
             \/ Teams!AuditTree(t) \/ Teams!AuditLead(t)
      PROVE  HelpersInv'
  BY <1>1, BeginStep, WriteStep, RunEndsStep, AnswerSteps, AuditTreeStep, AuditLeadStep
<1>2. CASE UNCHANGED Teams!vars
 <2>1. UNCHANGED <<batch, request, lead, tree, leadHead, phase, task, limit, spent, result, canceled>>
   BY <1>2 DEF Teams!vars
 <2>2. HelpersTypes' /\ Phases' /\ Pairs'
   BY <2>1 DEF HelpersInv, HelpersTypes, Phases, Pairs, Teams!Writers, Teams!AllDone
 <2>3. Results' BY <2>1 DEF HelpersInv, Results, Integrable, Teams!HeadOf, Teams!NoResult
 <2>4. Budgets'
  <3>1. phase' \in {"new", "validate"} \/ phase \notin {"new", "validate"} BY <2>1
  <3>. QED BY <2>1, <3>1, BatchMoves
 <2>. QED BY <2>2, <2>3, <2>4 DEF HelpersInv
<1>. QED BY <1>1, <1>2, InspectStep, ValidateStep, OutsideSteps, PairsStep, ReportStep
     DEF Teams!Next, Teams!Done

LEMMA HelpersInvIsSafe == ASSUME HelpersInv PROVE Teams!HelpersSafe
<1>0. HelpersTypes /\ Phases /\ Results /\ Pairs BY DEF HelpersInv
<1>1. Teams!TypeOK
 <2>1. \A t \in Task : result[t].status \in Status BY AtTask
 <2>2. lead \in 1..(MaxMoves + 1) /\ leadHead \in 0..lead BY <1>0 DEF HelpersTypes
 <2>. QED BY <1>0, <2>1, <2>2 DEF HelpersTypes, Teams!TypeOK, Status, Stage
<1>2. Teams!BudgetIsShared
 <2> SUFFICES ASSUME NEW t \in Task
              PROVE  /\ batch.turns > 0 => spent[t].turns <= batch.turns
                     /\ batch.turns = 0 /\ batch.role > 0 => spent[t].turns <= batch.role
                     /\ batch.cost > 0 => spent[t].cost <= batch.cost + 1
                     /\ spent[t].calls <= 2
   BY DEF Teams!BudgetIsShared
 <2>1. /\ spent[t].turns \in Nat /\ spent[t].cost \in Nat /\ limit[t].turns \in Nat /\ limit[t].cost \in Nat
       /\ batch.turns \in Nat /\ batch.role \in Nat /\ batch.cost \in Nat /\ task[t] \in Stage
   BY <1>0 DEF HelpersTypes, UsageT
 <2>2. BudgetOf(task[t], limit[t], spent[t]) BY AtTask
 <2>3. CASE task[t] \in {"ready", "first"}
  <3>1. spent[t] = Teams!Nothing BY <2>2, <2>3 DEF BudgetOf
  <3>2. spent[t].turns = 0 /\ spent[t].cost = 0 /\ spent[t].calls = 0 BY <3>1 DEF Teams!Nothing
  <3>. QED BY <2>1, <3>2
 <2>4. CASE task[t] \in {"asking", "second"}
  <3>1. /\ spent[t].calls = 1
        /\ TurnsOfTask > 0 => limit[t].turns > 0 /\ spent[t].turns + limit[t].turns = TurnsOfTask
        /\ batch.cost > 0 => limit[t].cost > 0 /\ spent[t].cost + limit[t].cost = batch.cost
    BY <2>2, <2>4 DEF BudgetOf
  <3>. QED BY <2>1, <3>1 DEF TurnsOfTask
 <2>5. CASE task[t] \in {"audit", "audit lead", "done"}
  <3>1. /\ spent[t].calls \in 1..2
        /\ TurnsOfTask > 0 => spent[t].turns <= TurnsOfTask
        /\ batch.cost > 0 => spent[t].cost <= batch.cost + 1
    BY <2>2, <2>5 DEF BudgetOf
  <3>. QED BY <2>1, <3>1 DEF TurnsOfTask
 <2>. QED BY <2>1, <2>3, <2>4, <2>5 DEF Stage
<1>3. Teams!CompleteIsIntegrable
 <2> SUFFICES ASSUME phase = "reported", NEW t \in Teams!Writers, result[t].status = "complete"
              PROVE  /\ Teams!HeadOf(t) = [base |-> leadHead, own |-> TRUE] /\ ~tree[request[t].tree].dirty
                     /\ \A u \in Teams!Writers \ {t} : /\ request[u].tree # request[t].tree
                                                        /\ result[u].status = "complete" => ~batch.clashes
   BY DEF Teams!CompleteIsIntegrable
 <2>1. t \in Task /\ request[t].writes BY DEF Teams!Writers
 <2>2. task[t] = "done" BY <1>0, <2>1 DEF Phases
 <2>3. Integrable(t) BY <1>0, <2>1, <2>2 DEF Results
 <2>4. ASSUME NEW u \in Teams!Writers \ {t}
       PROVE  request[u].tree # request[t].tree /\ (result[u].status = "complete" => ~batch.clashes)
   BY <1>0 DEF Phases, Pairs
 <2>. QED BY <2>3, <2>4 DEF Integrable
<1>4. Teams!BatchIsOver
 <2>1. ASSUME phase \in {"refused", "failed", "reported"}, NEW t \in Task PROVE task[t] \in {"ready", "done"}
   BY <1>0, <2>1 DEF Phases, Teams!AllDone
 <2>2. ASSUME phase = "reported", NEW t \in Task PROVE spent[t].calls > 0
  <3>1. BudgetOf("done", limit[t], spent[t]) BY <1>0, <2>2, AtTask DEF Phases
  <3>2. spent[t].calls \in 1..2 BY <3>1 DEF BudgetOf
  <3>. QED BY <3>2
 <2>. QED BY <2>1, <2>2, AtTask DEF Teams!BatchIsOver
<1>. QED BY <1>1, <1>2, <1>3, <1>4 DEF Teams!HelpersSafe

\* Whatever the helpers use, ask and leave behind, a task keeps to its budget, a
\* complete result can be integrated and a batch that answers is over
\* (team.go: runTask, applyRemainingBudget, auditWriter).
THEOREM HelpersAreSafe == ASSUME HelpersParameters PROVE Teams!Spec => []Teams!HelpersSafe
<1>1. Teams!Init => HelpersInv BY HelpersInit
<1>2. HelpersInv /\ [Teams!Next]_(Teams!vars) => HelpersInv' BY HelpersNext
<1>3. HelpersInv => Teams!HelpersSafe BY HelpersInvIsSafe
<1>. QED BY <1>1, <1>2, <1>3, PTL DEF Teams!Spec

----------------------------------------
(* The edits of one file: the inductive invariant.                         *)

Letters == UNION {Edits!Range(s) : s \in Content \cup {op.new : op \in Operation}}

\* No text to be replaced overlaps itself: bytes.Count would count it once where
\* it stands twice.
EditsParameters ==
  /\ \A s \in Content : s \in Seq(Edits!Range(s))
  /\ \A op \in Operation :
       /\ op.new \in Seq(Edits!Range(op.new)) /\ op.old \in Seq(Edits!Range(op.old))
       /\ \A k \in 1..(Len(op.old) - 1) : \E m \in 1..(Len(op.old) - k) : op.old[m] # op.old[m + k]

Texts == Seq(Letters)
Stages == {"idle", "read", "stat", "open", "write", "done", "failed", "torn"}

EditsTypes ==
  /\ file \in Texts \cup {Absent}
  /\ call \in [Call -> [stage : Stages, op : Operation, saw : Texts \cup {Absent}]]
  /\ \A c \in Call : call[c].stage = "write" => file \in Texts

\* An edit goes on only with what it can edit.
Editable ==
  \A c \in Call :
    /\ call[c].stage \in {"read", "stat"} => ~Edits!IsWrite(c)
    /\ call[c].stage \in {"stat", "open", "write"} /\ ~Edits!IsWrite(c) =>
         call[c].saw \in Texts /\ ~Edits!Refused(call[c].saw, call[c].op)

\* A call that is not crossed works on what those before it have made.
Uncrossed ==
  crossed = {} /\ (\A c \in Call : call[c].stage # "torn") =>
    /\ \A c \in Call : call[c].stage \in {"stat", "open"} /\ ~Edits!IsWrite(c) =>
         call[c].saw = done /\ \A d \in Call : call[d].stage # "write"
    /\ \A c \in Call : call[c].stage = "write" =>
         /\ file = <<>> /\ (~Edits!IsWrite(c) => call[c].saw = done)
         /\ \A d \in Call \ {c} : call[d].stage # "write"
    /\ (\A c \in Call : call[c].stage # "write") => file = done

EditsInv == EditsTypes /\ Editable /\ Uncrossed

----------------------------------------
(* What the edits write.                                                   *)

LEMMA TextsOf ==
  ASSUME EditsParameters
  PROVE  (\A s \in Content : s \in Texts) /\ (\A op \in Operation : op.new \in Texts) /\ <<>> \in Texts
<1>1. ASSUME NEW s \in Content \cup {op.new : op \in Operation}, s \in Seq(Edits!Range(s)) PROVE s \in Texts
 <2>1. Edits!Range(s) \subseteq Letters BY DEF Letters
 <2>. QED BY <1>1, <2>1, SeqMonotonic DEF Texts
<1>. QED BY <1>1, EmptySeq DEF EditsParameters, Texts

\* Text that bytes.Count counts once and that does not overlap itself is there once.
LEMMA CountedOnce ==
  ASSUME EditsParameters, NEW op \in Operation, NEW content \in Texts, Edits!CountIsOne(content, op.old)
  PROVE  /\ Cardinality(Edits!Places(content, op.old)) = 1
         /\ \E i \in 1..(Len(content) + 1) : \A j \in Edits!Places(content, op.old) : i = j
<1> DEFINE old == op.old
           n == Len(old)
           P == Edits!Places(content, old)
<1>1. /\ old \in Seq(Edits!Range(old)) /\ n \in Nat
      /\ \A k \in 1..(n - 1) : \E m \in 1..(n - k) : old[m] # old[m + k]
 <2>1. /\ op.old \in Seq(Edits!Range(op.old))
       /\ \A k \in 1..(Len(op.old) - 1) : \E m \in 1..(Len(op.old) - k) : op.old[m] # op.old[m + k]
   BY Zenon DEF EditsParameters
 <2>2. Len(op.old) \in Nat BY <2>1
 <2>. QED BY <2>1, <2>2, Zenon
<1>2. content \in Seq(Letters) /\ Len(content) \in Nat BY DEF Texts
<1>3. PICK i \in P : \A j \in P : i <= j /\ j < i + n BY DEF Edits!CountIsOne
<1>4. \A j \in P : j \in 1..(Len(content) - n + 1) /\ SubSeq(content, j, j + n - 1) = old
  BY DEF Edits!Places
<1> HIDE DEF old, n, P
<1>5. ASSUME NEW j \in P PROVE \A m \in 1..n : old[m] = content[j + m - 1]
 <2>1. j \in Nat /\ j >= 1 /\ j + n - 1 <= Len(content) /\ j + n - 1 \in Int BY <1>1, <1>2, <1>4
 <2>2. SubSeq(content, j, j + n - 1) = old BY <1>4
 <2>3. \A m \in 1..n : m \in 1..((j + n - 1) - j + 1) BY <1>1, <2>1
 <2>4. \A k \in j..(j + n - 1) : content[k] \in Letters
  <3>1. \A k \in j..(j + n - 1) : k \in 1..Len(content) BY <1>2, <2>1
  <3>. QED BY <1>2, <3>1, ElementOfSeq
 <2>5. \A m \in 1..((j + n - 1) - j + 1) : SubSeq(content, j, j + n - 1)[m] = content[j + m - 1]
   BY <2>1, <2>4, SubSeqProperties
 <2>. QED BY <2>2, <2>3, <2>5
<1>6. ASSUME NEW j \in P PROVE i = j
 <2>1. SUFFICES ASSUME i # j PROVE FALSE
   OBVIOUS
 <2>2. i \in Nat /\ j \in Nat /\ i <= j /\ j < i + n BY <1>1, <1>2, <1>3, <1>4
 <2>3. PICK k \in 1..(n - 1) : j = i + k
  <3>1. j - i \in 1..(n - 1) /\ j = i + (j - i) BY <1>1, <2>1, <2>2
  <3>. QED BY <3>1
 <2>4. PICK m \in 1..(n - k) : old[m] # old[m + k] BY <1>1
 <2>5. m \in 1..n /\ m + k \in 1..n /\ i + (m + k) - 1 = j + m - 1 BY <1>1, <2>2, <2>3, <2>4
 <2>6. old[m] = content[j + m - 1] /\ old[m + k] = content[i + (m + k) - 1] BY <1>5, <2>5
 <2>. QED BY <2>4, <2>5, <2>6
<1>7. P = {i} BY <1>6
<1>8. Cardinality(P) = 1 BY <1>7, FS_Singleton
<1>9. i \in 1..(Len(content) + 1) BY <1>1, <1>2, <1>4
<1>. QED BY <1>6, <1>8, <1>9 DEF P, old

LEMMA ReplacedOnce ==
  ASSUME EditsParameters, NEW op \in Operation, NEW content \in Texts, ~Edits!Refused(content, op), op.old # <<>>
  PROVE  Edits!Replaced(content, op) \in Texts /\ Edits!Applied(content, op) = Edits!Replaced(content, op)
<1>1. content # Absent /\ Edits!CountIsOne(content, op.old) BY DEF Edits!Refused
<1>2. Cardinality(Edits!Places(content, op.old)) = 1 BY <1>1, CountedOnce
<1>3. Edits!Applied(content, op) = Edits!Replaced(content, op)
  BY <1>1, <1>2, SameCardinality DEF Edits!Applied
<1> DEFINE P == Edits!Places(content, op.old)
           i == CHOOSE x \in P : \A y \in P : x <= y
<1>4. \E x \in P : \A y \in P : x <= y BY <1>1 DEF Edits!CountIsOne
<1>5. i \in P BY <1>4
<1>6. Edits!Replaced(content, op) = (SubSeq(content, 1, i - 1) \o op.new) \o SubSeq(content, i + Len(op.old), Len(content))
  BY DEF Edits!Replaced
<1>7. i \in Nat /\ i >= 1 /\ i + Len(op.old) - 1 <= Len(content) /\ Len(op.old) \in Nat /\ Len(content) \in Nat
 <2>1. i \in 1..(Len(content) - Len(op.old) + 1) BY <1>5 DEF Edits!Places
 <2>2. Len(content) \in Nat /\ Len(op.old) \in Nat BY DEF Texts, EditsParameters
 <2> HIDE DEF i, P
 <2>. QED BY <2>1, <2>2
<1> HIDE DEF i, P
<1>8. op.new \in Seq(Letters) /\ content \in Seq(Letters) BY TextsOf DEF Texts
<1>9. SubSeq(content, 1, i - 1) \in Seq(Letters)
 <2>1. \A k \in 1..(i - 1) : k \in 1..Len(content) BY <1>7
 <2>2. i - 1 \in Int BY <1>7
 <2>. QED BY <1>8, <2>1, <2>2, SubSeqProperties
<1>10. SubSeq(content, i + Len(op.old), Len(content)) \in Seq(Letters)
 <2>1. \A k \in (i + Len(op.old))..Len(content) : k \in 1..Len(content) BY <1>7
 <2>2. i + Len(op.old) \in Int /\ Len(content) \in Int BY <1>7
 <2>. QED BY <1>8, <2>1, <2>2, SubSeqProperties
<1>11. Edits!Replaced(content, op) \in Seq(Letters) BY <1>6, <1>8, <1>9, <1>10, ConcatProperties
<1>. QED BY <1>3, <1>11 DEF Texts

\* What a call writes is text, and what it is to make of what it has seen.
LEMMA NewOf ==
  ASSUME EditsParameters, EditsInv, NEW c \in Call, call[c].stage = "write"
  PROVE  /\ Edits!New(c) \in Texts /\ call[c].op \in Operation
         /\ Edits!IsWrite(c) => \A content : Edits!Applied(content, call[c].op) = Edits!New(c)
         /\ ~Edits!IsWrite(c) => Edits!Applied(call[c].saw, call[c].op) = Edits!New(c)
<1>1. call[c].op \in Operation BY DEF EditsInv, EditsTypes
<1>2. CASE Edits!IsWrite(c) BY <1>1, <1>2, TextsOf DEF Edits!New, Edits!Applied, Edits!IsWrite
<1>3. CASE ~Edits!IsWrite(c)
 <2>1. call[c].saw \in Texts /\ ~Edits!Refused(call[c].saw, call[c].op) /\ call[c].op.old # <<>>
   BY <1>3 DEF EditsInv, Editable, Edits!IsWrite
 <2>2. Edits!New(c) = Edits!Replaced(call[c].saw, call[c].op) BY <1>3 DEF Edits!New
 <2>. QED BY <1>1, <1>3, <2>1, <2>2, ReplacedOnce
<1>. QED BY <1>2, <1>3

\* A write from the start over what the file holds.
LEMMA OverType ==
  ASSUME NEW s \in Texts, NEW f \in Texts
  PROVE  /\ s \o SubSeq(f, Len(s) + 1, Len(f)) \in Texts
         /\ f = <<>> => s \o SubSeq(f, Len(s) + 1, Len(f)) = s
<1> DEFINE t == SubSeq(f, Len(s) + 1, Len(f))
<1>1. Len(s) \in Nat /\ Len(f) \in Nat /\ s \in Seq(Letters) /\ f \in Seq(Letters) BY DEF Texts
<1>2. t \in Seq(Letters)
 <2>1. \A k \in (Len(s) + 1)..Len(f) : k \in 1..Len(f) BY <1>1
 <2>. QED BY <1>1, <2>1, SubSeqProperties
<1>3. ASSUME f = <<>> PROVE t = <<>>
 <2>1. Len(f) = 0 BY <1>3
 <2>2. Len(s) + 1 > Len(f) BY <1>1, <2>1
 <2>. QED BY <1>1, <2>2, SubSeqEmpty
<1> HIDE DEF t
<1>4. s \o t \in Seq(Letters) BY <1>1, <1>2, ConcatProperties
<1>5. f = <<>> => s \o t = s BY <1>1, <1>3, ConcatEmptySeq
<1>. QED BY <1>4, <1>5 DEF Texts, t

----------------------------------------
(* The edits: the steps.                                                   *)

\* What a step does to the call that takes it and to the others.
LEMMA CallMoves ==
  ASSUME EditsTypes, NEW c \in Call, NEW s \in Stages, Edits!Goes(c, s)
  PROVE  /\ call'[c].stage = s /\ call'[c].op = call[c].op /\ call'[c].saw = call[c].saw
         /\ \A d \in Call \ {c} : call'[d] = call[d]
         /\ call' \in [Call -> [stage : Stages, op : Operation, saw : Texts \cup {Absent}]]
<1>1. PICK r : r = [call[c] EXCEPT !.stage = s] OBVIOUS
<1>2. call[c] \in [stage : Stages, op : Operation, saw : Texts \cup {Absent}] BY DEF EditsTypes
<1>3. /\ r.stage = s /\ r.op = call[c].op /\ r.saw = call[c].saw
      /\ r \in [stage : Stages, op : Operation, saw : Texts \cup {Absent}]
  BY <1>1, <1>2
<1>4. call' = [call EXCEPT ![c] = r] BY <1>1 DEF Edits!Goes
<1>. QED BY <1>3, <1>4 DEF EditsTypes

LEMMA EditsInit == EditsParameters /\ Edits!Init => EditsInv
<1> SUFFICES ASSUME EditsParameters, Edits!Init PROVE EditsInv
  OBVIOUS
<1>1. \A c \in Call : /\ call[c].stage = "idle" /\ call[c].op \in Operation /\ call[c].saw = <<>>
                      /\ call[c] \in [stage : Stages, op : Operation, saw : Texts \cup {Absent}]
 <2> TAKE c \in Call
 <2>1. call[c] \in {[stage |-> "idle", op |-> op, saw |-> <<>>] : op \in Operation}
   BY DEF Edits!Init
 <2>2. PICK op \in Operation : call[c] = [stage |-> "idle", op |-> op, saw |-> <<>>] BY <2>1
 <2>3. <<>> \in Texts /\ "idle" \in Stages BY TextsOf DEF Stages
 <2>. QED BY <2>2, <2>3
<1>2. EditsTypes
 <2>1. file \in Texts \cup {Absent} BY TextsOf DEF Edits!Init
 <2>2. call = [c \in Call |-> call[c]] BY DEF Edits!Init
 <2>. QED BY <1>1, <2>1, <2>2 DEF EditsTypes
<1>3. Editable BY <1>1 DEF Editable
<1>4. Uncrossed BY <1>1 DEF Uncrossed, Edits!Init
<1>. QED BY <1>2, <1>3, <1>4 DEF EditsInv

\* A call that begins, is refused by the context, or looks at the mode of the file.
LEMMA EditsBegin ==
  ASSUME EditsInv, NEW c \in Call, Edits!Begin(c) \/ Edits!Canceled(c) \/ Edits!Stat(c)
  PROVE  EditsInv'
<1>0. EditsTypes /\ Editable /\ Uncrossed BY DEF EditsInv
<1>1. PICK s \in Stages :
        /\ Edits!Goes(c, s) /\ UNCHANGED <<file, crossed, done>>
        /\ \/ call[c].stage = "idle" /\ s = "failed"
           \/ call[c].stage = "idle" /\ s = "open" /\ Edits!IsWrite(c)
           \/ call[c].stage = "idle" /\ s = "read" /\ ~Edits!IsWrite(c)
           \/ call[c].stage = "stat" /\ s \in {"open", "failed"}
  BY DEF Edits!Begin, Edits!Canceled, Edits!Stat, Stages
<1>2. /\ call'[c].stage = s /\ call'[c].op = call[c].op /\ call'[c].saw = call[c].saw
      /\ \A d \in Call \ {c} : call'[d] = call[d]
      /\ call' \in [Call -> [stage : Stages, op : Operation, saw : Texts \cup {Absent}]]
  BY <1>0, <1>1, CallMoves
<1>3. EditsTypes' BY <1>0, <1>1, <1>2 DEF EditsTypes
<1>4. Editable'
 <2> SUFFICES ASSUME NEW d \in Call
              PROVE  /\ call'[d].stage \in {"read", "stat"} => call'[d].op.old # <<>>
                     /\ call'[d].stage \in {"stat", "open", "write"} /\ call'[d].op.old # <<>> =>
                          call'[d].saw \in Texts /\ ~Edits!Refused(call'[d].saw, call'[d].op)
   BY DEF Editable, Edits!IsWrite, Edits!Refused, Edits!CountIsOne, Edits!Places
 <2>1. CASE d = c BY <1>0, <1>1, <1>2, <2>1 DEF Editable, Edits!IsWrite
 <2>2. CASE d # c BY <1>0, <1>2, <2>2 DEF Editable, Edits!IsWrite
 <2>. QED BY <2>1, <2>2
<1>5. Uncrossed' BY <1>0, <1>1, <1>2 DEF Uncrossed, Edits!IsWrite
<1>. QED BY <1>3, <1>4, <1>5 DEF EditsInv

LEMMA EditsRead ==
  ASSUME EditsInv, NEW c \in Call, Edits!ReadFile(c)
  PROVE  EditsInv'
<1>0. EditsTypes /\ Editable /\ Uncrossed BY DEF EditsInv
<1>1. PICK s, r : /\ s \in Stages
                  /\ r = [[call[c] EXCEPT !.stage = s] EXCEPT !.saw = file]
                  /\ call' = [call EXCEPT ![c] = r]
                  /\ s = (IF Edits!Refused(file, call[c].op) THEN "failed" ELSE "stat")
 <2>1. PICK s : s = (IF Edits!Refused(file, call[c].op) THEN "failed" ELSE "stat") OBVIOUS
 <2>2. PICK r : r = [[call[c] EXCEPT !.stage = s] EXCEPT !.saw = file] OBVIOUS
 <2>3. s \in Stages BY <2>1 DEF Stages
 <2>4. call' = [call EXCEPT ![c] = r] BY <2>1, <2>2 DEF Edits!ReadFile
 <2>. QED BY <2>1, <2>2, <2>3, <2>4
<1>2. call[c] \in [stage : Stages, op : Operation, saw : Texts \cup {Absent}] /\ call[c].stage = "read"
      /\ file \in Texts \cup {Absent}
  BY <1>0 DEF EditsTypes, Edits!ReadFile
<1>3. /\ r.stage = s /\ r.op = call[c].op /\ r.saw = file
      /\ r \in [stage : Stages, op : Operation, saw : Texts \cup {Absent}]
 <2>1. PICK q : q = [call[c] EXCEPT !.stage = s] OBVIOUS
 <2>2. q \in [stage : Stages, op : Operation, saw : Texts \cup {Absent}] /\ q.stage = s /\ q.op = call[c].op
   BY <1>1, <1>2, <2>1
 <2>3. r = [q EXCEPT !.saw = file] BY <1>1, <2>1
 <2>. QED BY <1>2, <2>2, <2>3
<1>4. /\ call'[c] = r /\ \A d \in Call \ {c} : call'[d] = call[d]
      /\ call' \in [Call -> [stage : Stages, op : Operation, saw : Texts \cup {Absent}]]
  BY <1>0, <1>1, <1>3 DEF EditsTypes
<1>5. UNCHANGED <<file, done>> /\ crossed' = (IF Edits!Midway({"write"}) # {} THEN crossed \cup {c} ELSE crossed)
  BY DEF Edits!ReadFile
<1>6. EditsTypes'
 <2>1. \A d \in Call : call'[d].stage = "write" => call[d].stage = "write" BY <1>1, <1>3, <1>4
 <2>. QED BY <1>0, <1>4, <1>5, <2>1 DEF EditsTypes
<1>7. Editable'
 <2>1. ~Edits!IsWrite(c) BY <1>0, <1>2 DEF Editable
 <2>2. s = "stat" => file \in Texts /\ ~Edits!Refused(file, call[c].op)
   BY <1>1, <1>2 DEF Edits!Refused
 <2>3. s # "open" /\ s # "write" /\ s # "read" BY <1>1
 <2> SUFFICES ASSUME NEW d \in Call
              PROVE  /\ call'[d].stage \in {"read", "stat"} => call'[d].op.old # <<>>
                     /\ call'[d].stage \in {"stat", "open", "write"} /\ call'[d].op.old # <<>> =>
                          call'[d].saw \in Texts /\ ~Edits!Refused(call'[d].saw, call'[d].op)
   BY DEF Editable, Edits!IsWrite, Edits!Refused, Edits!CountIsOne, Edits!Places
 <2>4. CASE d = c BY <1>3, <1>4, <2>1, <2>2, <2>3, <2>4 DEF Edits!IsWrite
 <2>5. CASE d # c BY <1>0, <1>4, <2>5 DEF Editable, Edits!IsWrite
 <2>. QED BY <2>4, <2>5
<1>8. Uncrossed'
 <2> SUFFICES ASSUME crossed' = {}, \A d \in Call : call'[d].stage # "torn"
              PROVE  /\ \A d \in Call : call'[d].stage \in {"stat", "open"} /\ call'[d].op.old # <<>> =>
                          call'[d].saw = done' /\ \A e \in Call : call'[e].stage # "write"
                     /\ \A d \in Call : call'[d].stage = "write" =>
                          /\ file' = <<>> /\ (call'[d].op.old # <<>> => call'[d].saw = done')
                          /\ \A e \in Call \ {d} : call'[e].stage # "write"
                     /\ (\A d \in Call : call'[d].stage # "write") => file' = done'
   BY DEF Uncrossed, Edits!IsWrite
 <2>1. crossed = {} /\ \A d \in Call : call[d].stage # "torn" /\ call[d].stage # "write"
   BY <1>2, <1>4, <1>5 DEF Edits!Midway
 <2>2. file = done /\ \A d \in Call : call'[d].stage # "write"
   BY <1>0, <1>1, <1>3, <1>4, <2>1 DEF Uncrossed
 <2>3. ASSUME NEW d \in Call, call'[d].stage \in {"stat", "open"}, call'[d].op.old # <<>>
       PROVE  call'[d].saw = done
  <3>1. CASE d = c BY <1>3, <1>4, <2>2, <3>1
  <3>2. CASE d # c BY <1>0, <1>4, <2>1, <2>3, <3>2 DEF Uncrossed, Edits!IsWrite
  <3>. QED BY <3>1, <3>2
 <2>. QED BY <1>5, <2>2, <2>3
<1>. QED BY <1>6, <1>7, <1>8 DEF EditsInv

\* The step of a call that opens or writes: it crosses every other on its way.
LEMMA CrossesAll ==
  ASSUME NEW c \in Call, Edits!Crosses(c), crossed' = {}
  PROVE  crossed = {} /\ \A d \in Call \ {c} : call[d].stage \notin {"stat", "open", "write"}
  BY DEF Edits!Crosses, Edits!Midway

LEMMA EditsWrite ==
  ASSUME EditsParameters, EditsInv, NEW c \in Call, Edits!Open(c) \/ Edits!Write(c) \/ Edits!WriteFails(c)
  PROVE  EditsInv'
<1>0. EditsTypes /\ Editable /\ Uncrossed BY DEF EditsInv
<1>1. PICK s \in Stages : /\ Edits!Goes(c, s) /\ Edits!Crosses(c) /\ s \in {"write", "done", "torn"}
                          /\ s = "write" <=> Edits!Open(c)
                          /\ s = "done" <=> Edits!Write(c)
                          /\ s = "torn" <=> Edits!WriteFails(c)
                          /\ call[c].stage \in {"open", "write"}
                          /\ s = "write" => call[c].stage = "open"
 <2>1. CASE Edits!Open(c)
  <3>1. Edits!Goes(c, "write") /\ Edits!Crosses(c) /\ call[c].stage = "open" BY <2>1 DEF Edits!Open
  <3>2. ~Edits!Write(c) /\ ~Edits!WriteFails(c) BY <3>1 DEF Edits!Write, Edits!WriteFails
  <3>. QED BY <2>1, <3>1, <3>2 DEF Stages
 <2>2. CASE Edits!Write(c)
  <3>1. Edits!Goes(c, "done") /\ Edits!Crosses(c) /\ call[c].stage = "write" BY <2>2 DEF Edits!Write
  <3>2. ~Edits!Open(c) BY <3>1 DEF Edits!Open
  <3>3. ~Edits!WriteFails(c)
   <4>1. SUFFICES ASSUME Edits!Goes(c, "torn") PROVE FALSE
     BY DEF Edits!WriteFails
   <4>2. call'[c].stage = "done" /\ call'[c].stage = "torn"
     BY <1>0, <3>1, <4>1, CallMoves DEF Stages
   <4>. QED BY <4>2
  <3>. QED BY <2>2, <3>1, <3>2, <3>3 DEF Stages
 <2>3. CASE Edits!WriteFails(c)
  <3>1. Edits!Goes(c, "torn") /\ Edits!Crosses(c) /\ call[c].stage = "write"
    BY <2>3 DEF Edits!WriteFails
  <3>2. ~Edits!Open(c) BY <3>1 DEF Edits!Open
  <3>3. ~Edits!Write(c)
   <4>1. SUFFICES ASSUME Edits!Goes(c, "done") PROVE FALSE
     BY DEF Edits!Write
   <4>2. call'[c].stage = "done" /\ call'[c].stage = "torn"
     BY <1>0, <3>1, <4>1, CallMoves DEF Stages
   <4>. QED BY <4>2
  <3>. QED BY <2>3, <3>1, <3>2, <3>3 DEF Stages
 <2>. QED BY <2>1, <2>2, <2>3
<1>2. /\ call'[c].stage = s /\ call'[c].op = call[c].op /\ call'[c].saw = call[c].saw
      /\ \A d \in Call \ {c} : call'[d] = call[d]
      /\ call' \in [Call -> [stage : Stages, op : Operation, saw : Texts \cup {Absent}]]
  BY <1>0, <1>1, CallMoves
<1>3. /\ s = "write" => file' = <<>> /\ done' = done
      /\ s = "done" => file' = Edits!Over(Edits!New(c)) /\ done' = Edits!Applied(done, call[c].op) /\ call[c].stage = "write"
      /\ s = "torn" => /\ \E n \in 0..Len(Edits!New(c)) : file' = Edits!Over(SubSeq(Edits!New(c), 1, n))
                       /\ done' = done /\ call[c].stage = "write"
  BY <1>1 DEF Edits!Open, Edits!Write, Edits!WriteFails
<1>4. EditsTypes'
 <2>1. CASE s = "write"
  <3>1. file' \in Texts BY <1>3, <2>1, TextsOf
  <3>. QED BY <1>2, <3>1 DEF EditsTypes
 <2>2. CASE s # "write"
  <3>1. call[c].stage = "write" /\ Edits!New(c) \in Texts /\ file \in Texts
    BY <1>0, <1>1, <1>3, <2>2, NewOf DEF EditsTypes
  <3>2. PICK t \in Texts : file' = Edits!Over(t)
   <4>1. CASE s = "done" BY <1>3, <3>1, <4>1
   <4>2. CASE s = "torn"
    <5>1. PICK n \in 0..Len(Edits!New(c)) : file' = Edits!Over(SubSeq(Edits!New(c), 1, n))
      BY <1>3, <4>2
    <5>2. Edits!New(c) \in Seq(Letters) /\ Len(Edits!New(c)) \in Nat BY <3>1 DEF Texts
    <5>3. \A k \in 1..n : k \in 1..Len(Edits!New(c)) BY <5>2
    <5>4. SubSeq(Edits!New(c), 1, n) \in Seq(Letters) BY <5>2, <5>3, SubSeqProperties
    <5>. QED BY <5>1, <5>4 DEF Texts
   <4>. QED BY <1>1, <2>2, <4>1, <4>2
  <3>3. file' \in Texts BY <3>1, <3>2, OverType DEF Edits!Over
  <3>. QED BY <1>2, <3>3 DEF EditsTypes
 <2>. QED BY <2>1, <2>2
<1>5. Editable'
 <2> SUFFICES ASSUME NEW d \in Call
              PROVE  /\ call'[d].stage \in {"read", "stat"} => call'[d].op.old # <<>>
                     /\ call'[d].stage \in {"stat", "open", "write"} /\ call'[d].op.old # <<>> =>
                          call'[d].saw \in Texts /\ ~Edits!Refused(call'[d].saw, call'[d].op)
   BY DEF Editable, Edits!IsWrite, Edits!Refused, Edits!CountIsOne, Edits!Places
 <2>1. CASE d = c BY <1>0, <1>1, <1>2, <2>1 DEF Editable, Edits!IsWrite
 <2>2. CASE d # c BY <1>0, <1>2, <2>2 DEF Editable, Edits!IsWrite
 <2>. QED BY <2>1, <2>2
<1>6. Uncrossed'
 <2> SUFFICES ASSUME crossed' = {}, \A d \in Call : call'[d].stage # "torn"
              PROVE  /\ \A d \in Call : call'[d].stage \in {"stat", "open"} /\ call'[d].op.old # <<>> =>
                          call'[d].saw = done' /\ \A e \in Call : call'[e].stage # "write"
                     /\ \A d \in Call : call'[d].stage = "write" =>
                          /\ file' = <<>> /\ (call'[d].op.old # <<>> => call'[d].saw = done')
                          /\ \A e \in Call \ {d} : call'[e].stage # "write"
                     /\ (\A d \in Call : call'[d].stage # "write") => file' = done'
   BY DEF Uncrossed, Edits!IsWrite
 <2>1. crossed = {} /\ \A d \in Call \ {c} : call'[d].stage \notin {"stat", "open", "write"}
   BY <1>1, <1>2, CrossesAll
 <2>2. \A d \in Call : call[d].stage # "torn" BY <1>1, <1>2
 <2>3. CASE s = "write"
  <3>1. call[c].op.old # <<>> => call[c].saw = done
    BY <1>0, <1>1, <2>1, <2>2, <2>3 DEF Uncrossed, Edits!IsWrite
  <3>. QED BY <1>2, <1>3, <2>1, <2>3, <3>1
 <2>4. CASE s = "done"
  <3>1. call[c].stage = "write" /\ file = <<>> /\ (~Edits!IsWrite(c) => call[c].saw = done)
    BY <1>0, <1>3, <2>1, <2>2, <2>4 DEF Uncrossed
  <3>2. Edits!Applied(done, call[c].op) = Edits!New(c) /\ Edits!New(c) \in Texts BY <3>1, NewOf
  <3>3. Edits!Over(Edits!New(c)) = Edits!New(c) BY <3>1, <3>2, OverType, TextsOf DEF Edits!Over
  <3>4. file' = done' BY <1>3, <2>4, <3>2, <3>3
  <3>. QED BY <1>2, <2>1, <2>4, <3>4
 <2>. QED BY <1>1, <1>2, <2>3, <2>4
<1>. QED BY <1>4, <1>5, <1>6 DEF EditsInv

LEMMA EditsNext == EditsParameters /\ EditsInv /\ [Edits!Next]_(Edits!vars) => EditsInv'
<1> SUFFICES ASSUME EditsParameters, EditsInv, [Edits!Next]_(Edits!vars) PROVE EditsInv'
  OBVIOUS
<1>1. CASE UNCHANGED Edits!vars
  BY <1>1
     DEF Edits!vars, EditsInv, EditsTypes, Editable, Uncrossed, Edits!IsWrite, Edits!Refused,
         Edits!CountIsOne, Edits!Places
<1>. QED BY <1>1, EditsBegin, EditsRead, EditsWrite DEF Edits!Next

LEMMA EditsImplies == ASSUME EditsInv PROVE Edits!EditsSafe
<1>1. Edits!TypeOK BY DEF EditsInv, EditsTypes, Texts, Letters, Edits!TypeOK
<1>2. Edits!Sequential
 <2> SUFFICES ASSUME crossed = {}, Edits!Midway({"read", "stat", "open", "write", "torn"}) = {} PROVE file = done
   BY DEF Edits!Sequential
 <2>1. \A c \in Call : call[c].stage # "torn" /\ call[c].stage # "write" BY DEF Edits!Midway
 <2>. QED BY <2>1 DEF EditsInv, Uncrossed
<1>. QED BY <1>1, <1>2 DEF Edits!EditsSafe

\* Edits and writes of one file that do not cross are as if each were one step
\* (tools.go: NewEdit, NewWrite).
THEOREM EditsAreSafe == ASSUME EditsParameters PROVE Edits!Spec => []Edits!EditsSafe
<1>1. Edits!Init => EditsInv BY EditsInit
<1>2. EditsInv /\ [Edits!Next]_(Edits!vars) => EditsInv' BY EditsNext
<1>3. EditsInv => Edits!EditsSafe BY EditsImplies
<1>. QED BY <1>1, <1>2, <1>3, PTL DEF Edits!Spec

----------------------------------------
(* The pages of the read tool: induction and recursion over the naturals.  *)
(* The theorems of the library take an operator; these take a set and a    *)
(* function.                                                               *)

\* A set that has 0 and the successor of every natural it has, has them all.
LEMMA Induction ==
    ASSUME NEW S, 0 \in S, \A n \in Nat : n \in S => n + 1 \in S
    PROVE  \A n \in Nat : n \in S
<1> DEFINE T == {n \in Nat : n \notin S}
<1>1. SUFFICES ASSUME T # {} PROVE FALSE
  OBVIOUS
<1>2. PICK x \in T : \A y \in T : ~(<<y, x>> \in OpToRel(<, Nat))
  BY <1>1, WFMin, NatLessThanWellFounded
<1>3. x # 0 /\ x \in Nat OBVIOUS
<1>4. x - 1 \in Nat /\ x - 1 < x BY <1>3
<1>5. <<x - 1, x>> \in OpToRel(<, Nat) BY <1>3, <1>4 DEF OpToRel
<1>6. x - 1 \notin T BY <1>2, <1>5
<1>7. x - 1 \in S BY <1>4, <1>6
<1>. QED BY <1>3, <1>4, <1>7

\* A set of naturals up to n that is not empty has a largest one.
LEMMA Largest ==
    ASSUME NEW n \in Nat, NEW S, S \subseteq 0..n, S # {}
    PROVE  \E x \in S : \A y \in S : x >= y
<1> DEFINE T == {n - x : x \in S}
<1>1. T \subseteq Nat /\ T # {}
 <2>1. \A x \in S : n - x \in Nat OBVIOUS
 <2>. QED BY <2>1
<1>2. PICK m \in T : \A y \in T : ~(<<y, m>> \in OpToRel(<, Nat))
  BY <1>1, WFMin, NatLessThanWellFounded
<1>3. PICK x \in S : m = n - x OBVIOUS
<1>4. ASSUME NEW y \in S PROVE x >= y
 <2>1. n - y \in T /\ n - y \in Nat /\ m \in Nat BY <1>1
 <2>2. ~(n - y < m) BY <1>2, <2>1 DEF OpToRel
 <2>. QED BY <1>3, <2>2
<1>. QED BY <1>4

\* The values that a first one and a step for each place give.
Steps(f, N, D, first, step) ==
    f \in [0..N -> D] /\ f[0] = first /\ \A n \in 1..N : f[n] = step[n][f[n - 1]]

\* There are such values.
LEMMA Recursion ==
    ASSUME NEW N \in Nat, NEW D, NEW first \in D, NEW step \in [1..N -> [D -> D]]
    PROVE  \E f : Steps(f, N, D, first, step)
<1> DEFINE Upto(k, f) == f \in [0..k -> D] /\ f[0] = first /\ \A n \in 1..k : f[n] = step[n][f[n - 1]]
           S == {k \in Nat : k <= N => \E f : Upto(k, f)}
<1>1. 0 \in S
 <2>1. Upto(0, [n \in 0..0 |-> first]) OBVIOUS
 <2>. QED BY <2>1
<1>2. ASSUME NEW k \in Nat, k \in S PROVE k + 1 \in S
 <2>1. SUFFICES ASSUME k + 1 <= N PROVE \E f : Upto(k + 1, f)
   OBVIOUS
 <2>2. PICK f : Upto(k, f) BY <1>2, <2>1
 <2>3. k + 1 \in 1..N /\ f[k] \in D /\ step[k + 1] \in [D -> D] BY <2>1, <2>2
 <2> DEFINE g == [n \in 0..(k + 1) |-> IF n = k + 1 THEN step[k + 1][f[k]] ELSE f[n]]
 <2>4. g \in [0..(k + 1) -> D] BY <2>2, <2>3
 <2>5. ASSUME NEW n \in 1..(k + 1) PROVE g[n] = step[n][g[n - 1]]
   BY <2>2, <2>3
 <2>6. g[0] = first BY <2>2
 <2>. QED BY <2>4, <2>5, <2>6
<1>3. N \in S
 <2> HIDE DEF S
 <2>. QED BY <1>1, <1>2, Induction
<1>. QED BY <1>3 DEF Steps

----------------------------------------
(* The pages: the inductive invariant.                                     *)

PagesParameters == (\A l \in Line : l.size \in Nat) /\ MaxLines \in Nat /\ ContentLimit \in Nat

PagesTypes == text \in Seq(Line) /\ next \in Nat /\ next >= 1 /\ next <= Len(text) + 1
              /\ page.size \in Nat /\ page.size <= ContentLimit /\ shown \in Seq(Nat)

Covered ==
  /\ \A i, j \in 1..Len(shown) : i < j => shown[i] < shown[j]
  /\ \A i \in 1..Len(shown) : shown[i] \in 1..(next - 1) /\ shown[i] \notin cut
  /\ \A x \in 1..(next - 1) : x \notin cut => \E i \in 1..Len(shown) : shown[i] = x
  /\ cut \subseteq 1..(next - 1)
  /\ \A i \in cut : text[i].size > ContentLimit

PagesInv == PagesTypes /\ Covered /\ Paging!NoticeIsTrue

LEMMA AheadType ==
  ASSUME PagesTypes
  PROVE  Paging!Ahead(next) \in Nat /\ next + Paging!Ahead(next) = Len(text) + 1 /\ Len(text) \in Nat
<1>1. Len(text) \in Nat BY DEF PagesTypes
<1>. QED BY <1>1 DEF PagesTypes, Paging!Ahead

\* What the lines from the next on take.
LEMMA BytesOf ==
  ASSUME PagesParameters, PagesTypes, NEW k \in 0..Paging!Ahead(next)
  PROVE  /\ Paging!Bytes(next, k) \in Nat /\ (k = 0 => Paging!Bytes(next, k) = 0)
         /\ k = 1 => Paging!Bytes(next, k) = text[next].size
<1> DEFINE step == [n \in 1..k |-> [v \in Nat |-> v + text[next + n - 1].size + (IF n = 1 THEN 0 ELSE 1)]]
           Is(g) == g = [n \in 0..k |-> IF n = 0 THEN 0
                                        ELSE g[n - 1] + text[next + n - 1].size + (IF n = 1 THEN 0 ELSE 1)]
<1>1. k \in Nat /\ next \in Nat /\ next >= 1 /\ next + k <= Len(text) + 1 /\ Len(text) \in Nat
  BY AheadType DEF PagesTypes
<1>2. ASSUME NEW n \in 1..k PROVE text[next + n - 1].size \in Nat
 <2>1. next + n - 1 \in 1..Len(text) BY <1>1
 <2>2. text[next + n - 1] \in Line BY <2>1 DEF PagesTypes
 <2>. QED BY <2>2 DEF PagesParameters
<1>3. step \in [1..k -> [Nat -> Nat]]
 <2>1. \A n \in 1..k : \A v \in Nat : v + text[next + n - 1].size + (IF n = 1 THEN 0 ELSE 1) \in Nat
   BY <1>2
 <2>. QED BY <2>1
<1>4. PICK f : Steps(f, k, Nat, 0, step) BY <1>1, <1>3, Recursion
<1>5. ASSUME NEW n \in 1..k PROVE f[n] = f[n - 1] + text[next + n - 1].size + (IF n = 1 THEN 0 ELSE 1)
 <2>1. n - 1 \in 0..k /\ f \in [0..k -> Nat] /\ f[n] = step[n][f[n - 1]]
  <3>1. n - 1 \in 0..k BY <1>1
  <3> HIDE DEF step
  <3>. QED BY <1>4, <3>1 DEF Steps
 <2>2. f[n - 1] \in Nat BY <2>1
 <2>. QED BY <2>1, <2>2
<1>6. Is(f) BY <1>1, <1>4, <1>5 DEF Steps
<1> DEFINE g == CHOOSE h : Is(h)
<1>7. Is(g) BY <1>6
<1>8. Paging!Bytes(next, k) = g[k] BY DEF Paging!Bytes
<1> HIDE DEF g
<1>9. /\ g[0] = 0
      /\ \A n \in 1..k : g[n] = g[n - 1] + text[next + n - 1].size + (IF n = 1 THEN 0 ELSE 1)
  BY <1>1, <1>7
<1> DEFINE S == {j \in Nat : j <= k => g[j] \in Nat}
<1>10. k \in S
 <2>1. 0 \in S BY <1>9
 <2>2. ASSUME NEW j \in Nat, j \in S PROVE j + 1 \in S
  <3>1. SUFFICES ASSUME j + 1 <= k PROVE g[j + 1] \in Nat
    OBVIOUS
  <3>2. j + 1 \in 1..k /\ g[j] \in Nat BY <1>1, <2>2, <3>1
  <3>3. g[j + 1] = g[j] + text[next + (j + 1) - 1].size + (IF j + 1 = 1 THEN 0 ELSE 1) BY <1>9, <3>2
  <3>4. text[next + (j + 1) - 1].size \in Nat BY <1>2, <3>2
  <3>. QED BY <3>2, <3>3, <3>4
 <2> HIDE DEF S
 <2>. QED BY <1>1, <2>1, <2>2, Induction
<1>11. ASSUME k = 1 PROVE g[k] = text[next].size
 <2>1. g[1] = g[0] + text[next + 1 - 1].size + 0 BY <1>9, <1>11
 <2>2. next + 1 - 1 = next BY <1>1
 <2>3. text[next].size \in Nat BY <1>1, <1>2, <1>11, <2>2
 <2>. QED BY <1>9, <1>11, <2>1, <2>2, <2>3
<1>. QED BY <1>8, <1>9, <1>10, <1>11

\* A call selects nothing only when there is nothing, or nothing that fits.
LEMMA SelectedOf ==
  ASSUME PagesParameters, PagesTypes, NEW lim \in 1..MaxLines
  PROVE  /\ Paging!Selected(next, lim) \in 0..Paging!Ahead(next)
         /\ Paging!Bytes(next, Paging!Selected(next, lim)) <= ContentLimit
         /\ Paging!Selected(next, lim) = 0 /\ Paging!Ahead(next) > 0 => text[next].size > ContentLimit
<1> DEFINE S == {k \in 0..Paging!Ahead(next) : k <= lim /\ Paging!Bytes(next, k) <= ContentLimit}
<1>1. Paging!Ahead(next) \in Nat /\ lim \in Nat /\ lim >= 1 /\ ContentLimit \in Nat
  BY AheadType DEF PagesParameters
<1>2. 0 \in S BY <1>1, BytesOf
<1>3. \E x \in S : \A y \in S : x >= y BY <1>1, <1>2, Largest
<1>4. Paging!Selected(next, lim) \in S /\ \A y \in S : Paging!Selected(next, lim) >= y
 <2>1. Paging!Selected(next, lim) = CHOOSE x \in S : \A y \in S : x >= y
   BY DEF Paging!Selected, Paging!Max
 <2> HIDE DEF S
 <2>. QED BY <1>3, <2>1
<1>5. ASSUME Paging!Selected(next, lim) = 0, Paging!Ahead(next) > 0 PROVE text[next].size > ContentLimit
 <2>1. 1 \in 0..Paging!Ahead(next) /\ 1 <= lim BY <1>1, <1>5
 <2>2. 1 \notin S BY <1>4, <1>5
 <2>3. ~(Paging!Bytes(next, 1) <= ContentLimit) BY <2>1, <2>2
 <2>4. Paging!Bytes(next, 1) = text[next].size /\ Paging!Bytes(next, 1) \in Nat BY <2>1, BytesOf
 <2>. QED BY <1>1, <2>3, <2>4
<1>. QED BY <1>4, <1>5

LEMMA PageOf ==
  ASSUME PagesParameters, PagesTypes, NEW lim \in 1..MaxLines
  PROVE  LET p == Paging!Page(next, lim) IN
         /\ p.lines \in 0..Paging!Ahead(next) /\ p.next = next + p.lines
         /\ p.size \in Nat /\ p.size <= ContentLimit
         /\ p.partial => p.lines = 0 /\ Paging!Ahead(next) > 0 /\ text[next].size > ContentLimit
         /\ p.truncated => p.lines > 0 \/ p.partial
         /\ ~p.error /\ ~p.truncated => p.lines = Paging!Ahead(next)
<1> DEFINE k == Paging!Selected(next, lim)
           p == Paging!Page(next, lim)
<1>1. /\ k \in 0..Paging!Ahead(next) /\ Paging!Bytes(next, k) <= ContentLimit /\ Paging!Bytes(next, k) \in Nat
      /\ k = 0 /\ Paging!Ahead(next) > 0 => text[next].size > ContentLimit
  BY SelectedOf, BytesOf
<1>2. Paging!Ahead(next) \in Nat /\ k \in Nat /\ next \in Nat /\ ContentLimit \in Nat
  BY <1>1, AheadType DEF PagesTypes, PagesParameters
<1>3. CASE Paging!Fails(next, lim, k)
 <2>1. p = [Paging!NoPage EXCEPT !.error = TRUE, !.next = next] BY <1>3 DEF Paging!Page
 <2>2. /\ p.lines = 0 /\ p.next = next /\ p.size = 0 /\ p.partial = FALSE /\ p.truncated = FALSE
       /\ p.error = TRUE
   BY <2>1 DEF Paging!NoPage
 <2> HIDE DEF p
 <2>. QED BY <1>2, <2>2 DEF p
<1>4. CASE ~Paging!Fails(next, lim, k)
 <2> DEFINE cuts == k < Paging!Ahead(next)
            none == cuts /\ k = 0
            size == IF none THEN ContentLimit ELSE Paging!Bytes(next, k)
 <2>2. p = [error |-> FALSE, lines |-> k, partial |-> none, truncated |-> cuts, next |-> next + k, size |-> size]
   BY <1>4 DEF Paging!Page
 <2>1. (cuts <=> k < Paging!Ahead(next)) /\ (none <=> k < Paging!Ahead(next) /\ k = 0) OBVIOUS
 <2>6. p.size = IF none THEN ContentLimit ELSE Paging!Bytes(next, k) BY <2>2
 <2> HIDE DEF cuts, none, size
 <2>3. p.error = FALSE /\ p.lines = k /\ p.next = next + k BY <2>2
 <2>4. p.partial <=> k < Paging!Ahead(next) /\ k = 0
  <3>1. p.partial = none BY <2>2
  <3>. QED BY <2>1, <3>1
 <2>5. p.truncated <=> k < Paging!Ahead(next)
  <3>1. p.truncated = cuts BY <2>2
  <3>. QED BY <2>1, <3>1
 <2> HIDE DEF p, k
 <2>7. p.size \in Nat /\ p.size <= ContentLimit BY <1>1, <1>2, <2>6
 <2>8. /\ p.partial => p.lines = 0 /\ Paging!Ahead(next) > 0 /\ text[next].size > ContentLimit
       /\ p.truncated => p.lines > 0 \/ p.partial
       /\ ~p.error /\ ~p.truncated => p.lines = Paging!Ahead(next)
   BY <1>1, <1>2, <2>3, <2>4, <2>5
 <2>. QED BY <1>1, <2>3, <2>7, <2>8 DEF p
<1>. QED BY <1>3, <1>4

----------------------------------------
(* The pages: the steps.                                                   *)

\* A function on the first naturals is a sequence.
LEMMA AsSequence ==
  ASSUME NEW S, NEW n \in Nat, NEW f \in [1..n -> S]
  PROVE  f \in Seq(S) /\ Len(f) = n
  OBVIOUS

LEMMA PagesInit == PagesParameters /\ Paging!Init => PagesInv
<1> SUFFICES ASSUME PagesParameters, Paging!Init PROVE PagesInv
  OBVIOUS
<1>1. next = 1 /\ shown = <<>> /\ cut = {} /\ page = Paging!NoPage BY DEF Paging!Init
<1>2. text \in Seq(Line)
 <2>1. PICK n \in 0..MaxLines : text \in [1..n -> Line] BY DEF Paging!Init
 <2>2. n \in Nat BY DEF PagesParameters
 <2>. QED BY <2>1, <2>2, AsSequence
<1>3. PagesTypes
 <2>1. page.size = 0 BY <1>1 DEF Paging!NoPage
 <2>2. Len(text) \in Nat BY <1>2
 <2>. QED BY <1>1, <1>2, <2>1, <2>2 DEF PagesTypes, PagesParameters
<1>4. Covered BY <1>1 DEF Covered
<1>5. Paging!NoticeIsTrue
 <2>1. page.truncated = FALSE BY <1>1 DEF Paging!NoPage
 <2>. QED BY <1>1, <2>1 DEF Paging!NoticeIsTrue
<1>. QED BY <1>3, <1>4, <1>5 DEF PagesInv

LEMMA PagesStep ==
  ASSUME PagesParameters, PagesInv, NEW lim \in 1..MaxLines, Paging!Read(lim)
  PROVE  PagesInv'
<1> DEFINE n == Len(shown)
           ahead == Paging!Ahead(next)
<1>0. PagesTypes /\ Covered BY DEF PagesInv
<1>1. PICK p : p = Paging!Page(next, lim) OBVIOUS
<1>2. /\ p.lines \in 0..ahead /\ p.next = next + p.lines
      /\ p.size \in Nat /\ p.size <= ContentLimit
      /\ p.partial => p.lines = 0 /\ ahead > 0 /\ text[next].size > ContentLimit
      /\ p.truncated => p.lines > 0 \/ p.partial
      /\ ~p.error /\ ~p.truncated => p.lines = ahead
  BY <1>0, <1>1, PageOf
<1>3. /\ page' = p /\ shown' = shown \o [i \in 1..p.lines |-> next + i - 1]
      /\ cut' = (IF p.partial THEN cut \cup {p.next} ELSE cut)
      /\ next' = (IF p.partial THEN p.next + 1 ELSE p.next)
      /\ text' = text
  BY <1>1 DEF Paging!Read
<1>4. /\ ahead \in Nat /\ p.lines \in Nat /\ next \in Nat /\ next >= 1 /\ next + ahead = Len(text) + 1 /\ Len(text) \in Nat
      /\ n \in Nat /\ n = Len(shown)
  BY <1>0, <1>2, AheadType DEF PagesTypes
<1> HIDE DEF ahead
<1>5. /\ p.partial => next' = next + 1 /\ cut' = cut \cup {next} /\ p.lines = 0
      /\ ~p.partial => next' = next + p.lines /\ cut' = cut
      /\ next' \in Nat /\ next' >= next + p.lines /\ next' <= Len(text) + 1
 <2>1. CASE p.partial
  <3>1. p.lines = 0 /\ ahead > 0 /\ p.next = next BY <1>2, <1>4, <2>1
  <3>2. next' = next + 1 /\ cut' = cut \cup {next} BY <1>3, <2>1, <3>1
  <3>. QED BY <1>4, <2>1, <3>1, <3>2
 <2>2. CASE ~p.partial
  <3>1. next' = next + p.lines /\ cut' = cut BY <1>2, <1>3, <2>2
  <3>2. p.lines <= ahead BY <1>2, <1>4
  <3>. QED BY <1>4, <2>2, <3>1, <3>2
 <2>. QED BY <2>1, <2>2
<1>6. /\ shown' \in Seq(Nat) /\ Len(shown') = n + p.lines
      /\ \A i \in 1..n : shown'[i] = shown[i]
      /\ \A i \in 1..p.lines : shown'[n + i] = next + i - 1
 <2> DEFINE t == [i \in 1..p.lines |-> next + i - 1]
 <2>1. t \in Seq(Nat) /\ Len(t) = p.lines
  <3>1. \A i \in 1..p.lines : next + i - 1 \in Nat BY <1>4
  <3>2. t \in [1..p.lines -> Nat] BY <3>1
  <3>. QED BY <1>4, <3>2, AsSequence
 <2>2. \A i \in 1..p.lines : t[i] = next + i - 1 OBVIOUS
 <2>3. shown \in Seq(Nat) /\ shown' = shown \o t BY <1>0, <1>3 DEF PagesTypes
 <2> HIDE DEF t
 <2>4. shown' \in Seq(Nat) /\ Len(shown') = n + p.lines /\ \A i \in 1..n : shown'[i] = shown[i]
  <3>1. \A i \in 1..n : i \in 1..(Len(shown) + Len(t)) /\ i <= Len(shown) BY <1>4, <2>1
  <3>. QED BY <2>1, <2>3, <3>1, ConcatProperties
 <2>5. ASSUME NEW i \in 1..p.lines PROVE shown'[n + i] = next + i - 1
  <3>1. n + i \in 1..(Len(shown) + Len(t)) /\ ~(n + i <= Len(shown)) /\ (n + i) - Len(shown) = i
    BY SMTT(40), <1>4, <2>1
  <3>2. shown'[n + i] = t[i] BY <2>1, <2>3, <3>1, ConcatProperties
  <3>. QED BY <2>2, <3>2
 <2>. QED BY <2>4, <2>5
<1>7. ASSUME NEW i \in 1..Len(shown'), i \notin 1..n
      PROVE  i - n \in 1..p.lines /\ shown'[i] = next + (i - n) - 1 /\ i > n
 <2>1. i - n \in 1..p.lines /\ i > n /\ n + (i - n) = i
  <3>1. i \in 1..(n + p.lines) /\ i \notin 1..n /\ n \in Nat /\ p.lines \in Nat BY <1>4, <1>6, <1>7
  <3>2. \A a, b \in Nat : \A k \in 1..(a + b) : k \notin 1..a => k - a \in 1..b /\ k > a /\ a + (k - a) = k
    OBVIOUS
  <3>. QED BY <3>1, <3>2, Zenon
 <2>. QED BY <1>6, <2>1
<1>8. PagesTypes' BY SMTT(40), <1>0, <1>2, <1>3, <1>4, <1>5, <1>6 DEF PagesTypes
<1>9. Covered'
 <2>1. ASSUME NEW i \in 1..Len(shown'), NEW j \in 1..Len(shown'), i < j PROVE shown'[i] < shown'[j]
  <3>1. CASE i \in 1..n /\ j \in 1..n BY <1>0, <1>6, <2>1, <3>1 DEF Covered
  <3>2. CASE i \in 1..n /\ j \notin 1..n
   <4>1. shown'[i] \in 1..(next - 1) BY <1>0, <1>6, <3>2 DEF Covered
   <4>2. shown'[j] = next + (j - n) - 1 /\ j - n \in 1..p.lines BY <1>7, <3>2
   <4>3. \A k \in 1..p.lines, y \in 1..(next - 1) : y < next + k - 1 BY <1>4
   <4>. QED BY <4>1, <4>2, <4>3
  <3>3. CASE i \notin 1..n
   <4>1. j \notin 1..n /\ i \in Nat /\ j \in Nat BY <1>4, <1>6, <2>1, <3>3
   <4>2. shown'[i] = next + (i - n) - 1 /\ shown'[j] = next + (j - n) - 1 BY <1>7, <3>3, <4>1
   <4>3. \A k, l \in Nat : k < l => next + (k - n) - 1 < next + (l - n) - 1 BY <1>4
   <4>. QED BY <2>1, <4>1, <4>2, <4>3
  <3>. QED BY <3>1, <3>2, <3>3
 <2>2. ASSUME NEW i \in 1..Len(shown') PROVE shown'[i] \in 1..(next' - 1) /\ shown'[i] \notin cut'
  <3>1. CASE i \in 1..n
   <4>1. shown'[i] \in 1..(next - 1) /\ shown'[i] \notin cut BY <1>0, <1>6, <3>1 DEF Covered
   <4>2. \A y \in 1..(next - 1) : y \in 1..(next' - 1) /\ y # next
    <5>1. next' >= next /\ next' \in Nat /\ next \in Nat BY <1>4, <1>5
    <5>2. \A a, b \in Nat : a <= b => \A y \in 1..(a - 1) : y \in 1..(b - 1) /\ y # a OBVIOUS
    <5>. QED BY <5>1, <5>2
   <4>. QED BY <1>5, <4>1, <4>2
  <3>2. CASE i \notin 1..n
   <4>1. shown'[i] = next + (i - n) - 1 /\ i - n \in 1..p.lines BY <1>7, <3>2
   <4>2. ~p.partial BY <1>2, <4>1
   <4>3. shown'[i] >= next /\ shown'[i] \in 1..(next' - 1)
    <5>1. next' = next + p.lines BY <1>5, <4>2
    <5>2. \A k \in 1..p.lines : next + k - 1 >= next /\ next + k - 1 \in 1..((next + p.lines) - 1)
      BY <1>4
    <5>. QED BY <4>1, <5>1, <5>2
   <4>4. shown'[i] \notin cut BY <1>0, <1>4, <4>3 DEF Covered
   <4>. QED BY <1>5, <4>2, <4>3, <4>4
  <3>. QED BY <3>1, <3>2
 <2>3. ASSUME NEW x, x \in 1..(next' - 1), x \notin cut' PROVE \E i \in 1..Len(shown') : shown'[i] = x
  <3>1. CASE x \in 1..(next - 1)
   <4>1. x \notin cut BY <1>5, <2>3
   <4>2. PICK i \in 1..n : shown[i] = x BY <1>0, <3>1, <4>1 DEF Covered
   <4>3. i \in 1..Len(shown') BY SMTT(40), <1>4, <1>6
   <4>. QED BY <1>6, <4>2, <4>3
  <3>2. CASE x \notin 1..(next - 1)
   <4>1. x >= next /\ x \in Nat BY <1>4, <1>5, <2>3, <3>2
   <4>2. ~p.partial
    <5>1. p.partial => x <= next /\ next \in cut' BY <1>4, <1>5, <2>3
    <5>2. p.partial => x = next BY <1>4, <4>1, <5>1
    <5>. QED BY <2>3, <5>1, <5>2
   <4>3. x - next + 1 \in 1..p.lines
    <5>1. next' = next + p.lines BY <1>5, <4>2
    <5>2. next' \in Nat /\ next' - 1 \in Int BY <1>5
    <5>3. x <= next' - 1
     <6>1. \A m \in Nat : \A y : y \in 1..(m - 1) => y <= m - 1 OBVIOUS
     <6>2. x \in 1..(next' - 1) BY <2>3
     <6>. QED BY <5>2, <6>1, <6>2
    <5>4. \A y \in Nat : y >= next /\ y <= (next + p.lines) - 1 => y - next + 1 \in 1..p.lines
      BY <1>4
    <5>. QED BY <4>1, <5>1, <5>3, <5>4
   <4>4. n + (x - next + 1) \in 1..Len(shown')
    <5>1. \A k \in 1..p.lines : n + k \in 1..(n + p.lines) BY <1>4
    <5>. QED BY <1>6, <4>3, <5>1
   <4>5. shown'[n + (x - next + 1)] = next + (x - next + 1) - 1 BY <1>6, <4>3
   <4>6. next + (x - next + 1) - 1 = x BY <1>4, <4>1
   <4>. QED BY <4>4, <4>5, <4>6
  <3>. QED BY <3>1, <3>2
 <2>4. cut' \subseteq 1..(next' - 1) /\ \A i \in cut' : text'[i].size > ContentLimit
  <3>1. CASE p.partial
   <4>1. next \in 1..(next' - 1) /\ 1..(next - 1) \subseteq 1..(next' - 1) BY <1>4, <1>5, <3>1
   <4>2. cut' = cut \cup {next} /\ text[next].size > ContentLimit BY <1>2, <1>5, <3>1
   <4>. QED BY <1>0, <1>3, <4>1, <4>2 DEF Covered
  <3>2. CASE ~p.partial
   <4>1. 1..(next - 1) \subseteq 1..(next' - 1)
    <5>1. next' >= next /\ next' \in Nat BY <1>4, <1>5
    <5>2. next \in Nat BY <1>4
    <5>3. \A m \in Nat : m >= next => 1..(next - 1) \subseteq 1..(m - 1) BY <5>2
    <5>. QED BY <5>1, <5>3
   <4>. QED BY <1>0, <1>3, <1>5, <3>2, <4>1 DEF Covered
  <3>. QED BY <3>1, <3>2
 <2>. QED BY <2>1, <2>2, <2>3, <2>4 DEF Covered
<1>10. Paging!NoticeIsTrue'
 <2>1. ASSUME ~p.error, ~p.truncated PROVE next' = Len(text') + 1
  <3>1. p.lines = ahead BY <1>2, <2>1
  <3>2. ~p.partial \/ p.lines # ahead BY <1>2, <1>4
  <3>. QED BY <1>3, <1>4, <1>5, <3>1, <3>2
 <2>. QED BY <1>2, <1>3, <2>1 DEF Paging!NoticeIsTrue
<1>. QED BY <1>8, <1>9, <1>10 DEF PagesInv

LEMMA PagesNext == PagesParameters /\ PagesInv /\ [Paging!Next]_(Paging!vars) => PagesInv'
<1> SUFFICES ASSUME PagesParameters, PagesInv, [Paging!Next]_(Paging!vars) PROVE PagesInv'
  OBVIOUS
<1>1. CASE UNCHANGED Paging!vars
  BY <1>1 DEF Paging!vars, PagesInv, PagesTypes, Covered, Paging!NoticeIsTrue
<1>. QED BY <1>1, PagesStep DEF Paging!Next

LEMMA PagesImplies == ASSUME PagesParameters, PagesInv PROVE Paging!ReadSafe
<1>0. PagesTypes /\ Covered /\ Paging!NoticeIsTrue BY DEF PagesInv
<1>1. next \in Nat /\ Len(text) \in Nat /\ next >= 1 /\ next <= Len(text) + 1 /\ DOMAIN text = 1..Len(text)
  BY <1>0 DEF PagesTypes
<1>2. Paging!TypeOK
 <2>1. cut \subseteq 1..Len(text) BY <1>0, <1>1 DEF Covered
 <2>2. page.size \in 0..ContentLimit BY <1>0 DEF PagesTypes, PagesParameters
 <2>. QED BY <1>1, <2>1, <2>2 DEF Paging!TypeOK
<1>3. DOMAIN shown = 1..Len(shown) /\ Paging!Range(shown) = {shown[i] : i \in 1..Len(shown)}
  BY <1>0 DEF PagesTypes, Paging!Range
<1>4. Paging!Range(shown) \cap cut = {} /\ Paging!Range(shown) \cup cut = 1..(next - 1)
  BY ZenonT(40), <1>0, <1>3 DEF Covered
<1>5. Paging!PagesCover BY <1>0, <1>3, <1>4 DEF Paging!PagesCover, Covered
<1>. QED BY <1>0, <1>2, <1>5 DEF Paging!ReadSafe

\* Whoever follows the offsets sees every line once and in order, or is told that it was
\* cut, and stops only at the end (tools.go: NewRead).
THEOREM PagesAreSafe == ASSUME PagesParameters PROVE Paging!Spec => []Paging!ReadSafe
<1>1. Paging!Init => PagesInv BY PagesInit
<1>2. PagesInv /\ [Paging!Next]_(Paging!vars) => PagesInv' BY PagesNext
<1>3. PagesInv => Paging!ReadSafe BY PagesImplies
<1>. QED BY <1>1, <1>2, <1>3, PTL DEF Paging!Spec

----------------------------------------
(* Commands of process.go: the inductive invariant.                        *)

CommandParameters == Limit \in Nat /\ PipeSize \in Nat /\ MaxOutput \in Nat

CommandTypes ==
  /\ pipe \in Nat /\ pipe <= PipeSize /\ written \in Nat /\ pipe <= written
  /\ waiting \in {"no", "shell", "output", "over"}
  /\ shell \in {"none", "running", "exited", "failed", "killed"}
  /\ watcher \in {"none", "waiting", "over"}
  /\ error \in {"none", "status", "delay"}
  /\ reaped \in BOOLEAN /\ inTime \in BOOLEAN

\* What has left the pipe is kept up to the limit, and the rest is told to be cut.
Drained ==
  /\ written - pipe <= Limit => kept = written - pipe /\ dropped = FALSE
  /\ written - pipe > Limit => kept = Limit /\ dropped = TRUE

\* How far cmd.Wait and the shell have come.
Waited ==
  /\ waiting = "no" => shell = "none" /\ ~reaped /\ child = "none"
  /\ waiting = "shell" => ~reaped /\ shell # "none"
  /\ waiting \in {"output", "over"} => shell \notin {"none", "running"} /\ (error = "none" => shell = "exited")
  /\ reaped => waiting \in {"output", "over"}

\* A goroutine that ended before Wait did has killed the group; a Wait that
\* ended in time of a cancellation came after it, or after the output.
Killed ==
  /\ waiting = "no" => watcher = "none" /\ ~inTime
  /\ waiting \in {"shell", "output"} /\ watcher = "over" =>
       shell # "running" /\ ~(child = "running" /\ grouped)
  /\ inTime /\ waiting = "over" => shell # "running" /\ ~(child = "running" /\ grouped /\ holds)

\* A success is of a command whose output has ended.
Ended ==
  /\ waiting = "over" /\ error = "none" => ~Shell!Holders /\ pipe = 0
  /\ status = "ok" => waiting = "over" /\ error = "none"

CommandInv == CommandTypes /\ Drained /\ Waited /\ Killed /\ Ended

----------------------------------------
(* Commands: the steps.                                                    *)

LEMMA CommandInit == CommandParameters /\ Shell!Init => CommandInv
<1> SUFFICES ASSUME CommandParameters, Shell!Init PROVE CommandInv
  OBVIOUS
<1>1. pipe = 0 /\ written = 0 /\ kept = 0 /\ dropped = FALSE BY DEF Shell!Init
<1>2. /\ waiting = "no" /\ shell = "none" /\ watcher = "none" /\ error = "none" /\ status = "none"
      /\ child = "none" /\ reaped = FALSE /\ inTime = FALSE
  BY DEF Shell!Init
<1>3. CommandTypes
 <2>1. pipe \in Nat /\ pipe <= PipeSize /\ written \in Nat /\ pipe <= written
   BY <1>1 DEF CommandParameters
 <2>. QED BY <1>2, <2>1 DEF CommandTypes
<1>4. Drained BY <1>1 DEF Drained, CommandParameters
<1>5. Waited /\ Killed /\ Ended BY <1>2 DEF Waited, Killed, Ended
<1>. QED BY <1>3, <1>4, <1>5 DEF CommandInv

\* The command writes, starts a child, and ends.
LEMMA CommandActs ==
  ASSUME CommandParameters, CommandInv, Shell!Writes \/ Shell!Spawns \/ Shell!ShellExits \/ Shell!ChildExits
  PROVE  CommandInv'
<1>0. CommandTypes /\ Drained /\ Waited /\ Killed /\ Ended BY DEF CommandInv
<1>1. CASE Shell!Writes
 <2>1. /\ Shell!Holders /\ waiting # "over" /\ pipe < PipeSize /\ pipe' = pipe + 1 /\ written' = written + 1
       /\ UNCHANGED <<shell, child, grouped, holds, reaped, waiting, error, watcher,
                      ctx, inTime, caller, status, kept, dropped>>
   BY <1>1 DEF Shell!Writes, Shell!process, Shell!wait, Shell!request
 <2>2. pipe' \in Nat /\ pipe' <= PipeSize /\ written' \in Nat /\ pipe' <= written'
       /\ written' - pipe' = written - pipe
   BY <1>0, <2>1 DEF CommandTypes, CommandParameters
 <2>3. CommandTypes' /\ Drained' BY <1>0, <2>1, <2>2 DEF CommandTypes, Drained
 <2>4. Waited' /\ Killed' /\ Ended' BY <1>0, <2>1 DEF Waited, Killed, Ended
 <2>. QED BY <2>3, <2>4 DEF CommandInv
<1>2. CASE Shell!Spawns \/ Shell!ShellExits \/ Shell!ChildExits
 <2>1. UNCHANGED <<pipe, written, kept, dropped, reaped, waiting, error, watcher, ctx, inTime, caller, status>>
   BY <1>2
      DEF Shell!Spawns, Shell!ShellExits, Shell!ChildExits, Shell!output, Shell!wait,
          Shell!request
 <2>2. CommandTypes' /\ Drained'
   BY <1>0, <1>2, <2>1
      DEF CommandTypes, Drained, Shell!Spawns, Shell!ShellExits, Shell!ChildExits
 <2>3. Waited' /\ Killed' /\ Ended'
   BY <1>0, <1>2, <2>1
      DEF Waited, Killed, Ended, Shell!Holders, Shell!Spawns, Shell!ShellExits,
          Shell!ChildExits
 <2>. QED BY <2>2, <2>3 DEF CommandInv
<1>. QED BY <1>1, <1>2

\* The host starts the command and looks at its end.
LEMMA CommandHostActs ==
  ASSUME CommandInv, Shell!ContextEnds \/ Shell!Start \/ Shell!Reap \/ Shell!OutputEnds \/ Shell!DelayIsOver \/ Shell!WatcherEnds \/ Shell!Return
  PROVE  CommandInv'
<1>0. CommandTypes /\ Drained /\ Waited /\ Killed /\ Ended BY DEF CommandInv
<1>1. UNCHANGED <<pipe, written, kept, dropped, child, grouped, holds>>
  BY DEF Shell!ContextEnds, Shell!Start, Shell!Reap, Shell!OutputEnds, Shell!DelayIsOver,
         Shell!WatcherEnds, Shell!Return, Shell!process, Shell!output
<1>2. Drained' BY <1>0, <1>1 DEF Drained
<1>3. CASE Shell!ContextEnds
 <2>1. /\ UNCHANGED <<shell, reaped, waiting, error, watcher, status>>
       /\ inTime' = FALSE \/ waiting \in {"shell", "output"}
       /\ inTime' \in BOOLEAN
  <3>1. inTime' \in {FALSE, (waiting \in {"shell", "output"})} BY <1>3 DEF Shell!ContextEnds
  <3>2. inTime' = FALSE \/ inTime' = (waiting \in {"shell", "output"}) BY <3>1
  <3>3. CASE waiting \in {"shell", "output"}
    BY <1>3, <3>2, <3>3 DEF Shell!ContextEnds, Shell!process, Shell!wait
  <3>4. CASE waiting \notin {"shell", "output"}
   <4>0. (waiting \in {"shell", "output"}) = FALSE BY <3>4, SMT
   <4>1. inTime' = FALSE BY <3>2, <4>0, Zenon
   <4>. QED BY <1>3, <4>1 DEF Shell!ContextEnds, Shell!process, Shell!wait
  <3>. QED BY <3>3, <3>4
 <2>. QED
   BY <1>0, <1>1, <1>2, <2>1 DEF CommandInv, CommandTypes, Waited, Killed, Ended, Shell!Holders
<1>4. CASE Shell!Start
  BY <1>0, <1>1, <1>2, <1>4
     DEF Shell!Start, CommandInv, CommandTypes, Waited, Killed, Ended, Shell!Holders
<1>5. CASE Shell!Reap
 <2>1. /\ waiting = "shell" /\ shell # "running" /\ reaped' = TRUE /\ waiting' = "output"
       /\ shell = "exited" => error' = "none"
       /\ shell # "exited" => error' = "status"
       /\ UNCHANGED <<shell, ctx, inTime, caller, status, watcher>>
   BY <1>5 DEF Shell!Reap, Shell!process, Shell!request
 <2>2. CommandTypes' /\ Ended' BY <1>0, <1>1, <2>1 DEF CommandTypes, Ended
 <2>3. Waited' BY <1>0, <1>1, <2>1 DEF Waited
 <2>4. Killed' BY <1>0, <1>1, <2>1 DEF Killed
 <2>. QED BY <1>2, <2>2, <2>3, <2>4 DEF CommandInv
<1>6. CASE Shell!OutputEnds
  BY <1>0, <1>1, <1>2, <1>6
     DEF Shell!OutputEnds, Shell!process, Shell!output, Shell!request, CommandInv,
         CommandTypes, Waited, Killed, Ended, Shell!Holders
<1>7. CASE Shell!DelayIsOver
  BY <1>0, <1>1, <1>2, <1>7
     DEF Shell!DelayIsOver, Shell!process, Shell!output, Shell!request, CommandInv,
         CommandTypes, Waited, Killed, Ended, Shell!Holders
<1>8. CASE Shell!WatcherEnds
  BY <1>0, <1>1, <1>2, <1>8
     DEF Shell!WatcherEnds, Shell!process, Shell!output, Shell!request, CommandInv,
         CommandTypes, Waited, Killed, Ended, Shell!Holders
<1>9. CASE Shell!Return
  BY <1>0, <1>1, <1>2, <1>9
     DEF Shell!Return, Shell!process, Shell!output, Shell!wait, CommandInv, CommandTypes,
         Waited, Killed, Ended, Shell!Holders
<1>. QED BY <1>3, <1>4, <1>5, <1>6, <1>7, <1>8, <1>9

\* What is read is kept or cut.
LEMMA CommandDrains ==
  ASSUME CommandParameters, CommandInv, Shell!Drain
  PROVE  CommandInv'
<1>0. CommandTypes /\ Drained /\ Waited /\ Killed /\ Ended BY DEF CommandInv
<1>1. /\ pipe > 0 /\ waiting \in {"shell", "output"} /\ pipe' = pipe - 1
      /\ UNCHANGED <<shell, child, grouped, holds, reaped, waiting, error, watcher,
                     ctx, inTime, caller, status, written>>
      /\ \/ kept < Limit /\ kept' = kept + 1 /\ dropped' = dropped
         \/ ~(kept < Limit) /\ dropped' = TRUE /\ kept' = kept
  BY DEF Shell!Drain, Shell!process, Shell!wait, Shell!request
<1>2. /\ pipe' \in Nat /\ pipe' <= PipeSize /\ pipe' <= written
      /\ written - pipe' = (written - pipe) + 1
  BY <1>0, <1>1 DEF CommandTypes, CommandParameters
<1>3. CommandTypes' BY <1>0, <1>1, <1>2 DEF CommandTypes
<1>4. Drained'
 <2>1. /\ written - pipe \in Nat /\ Limit \in Nat BY <1>0 DEF CommandTypes, CommandParameters
 <2>2. CASE written - pipe <= Limit
  <3>1. kept = written - pipe /\ dropped = FALSE BY <1>0, <2>2 DEF Drained
  <3>2. CASE written - pipe < Limit BY <1>1, <1>2, <2>1, <3>1, <3>2 DEF Drained
  <3>3. CASE written - pipe = Limit BY <1>1, <1>2, <2>1, <3>1, <3>3 DEF Drained
  <3>. QED BY <2>1, <2>2, <3>2, <3>3
 <2>3. CASE written - pipe > Limit
  <3>1. kept = Limit /\ dropped = TRUE BY <1>0, <2>3 DEF Drained
  <3>2. written' - pipe' > Limit /\ ~(written' - pipe' <= Limit) BY <1>1, <1>2, <2>1, <2>3
  <3>3. kept' = Limit /\ dropped' = TRUE
   <4>1. ~(kept < Limit) BY <2>1, <3>1
   <4>. QED BY <1>1, <3>1, <4>1
  <3>. QED BY <3>2, <3>3 DEF Drained
 <2>. QED BY <2>1, <2>2, <2>3
<1>5. Waited' /\ Killed' /\ Ended' BY <1>0, <1>1 DEF Waited, Killed, Ended
<1>. QED BY <1>3, <1>4, <1>5 DEF CommandInv

\* The group is killed, by os/exec or by the goroutine.
LEMMA CommandKills ==
  ASSUME CommandInv, Shell!ExecKills \/ Shell!WatcherKills
  PROVE  CommandInv'
<1>0. CommandTypes /\ Drained /\ Waited /\ Killed /\ Ended BY DEF CommandInv
<1>1. /\ UNCHANGED <<pipe, written, kept, dropped, ctx, inTime, caller, status, reaped, grouped, holds, waiting, error>>
      /\ shell' = (IF shell = "running" THEN "killed" ELSE shell)
      /\ child' = (IF child = "running" /\ grouped THEN "over" ELSE child)
      /\ \/ waiting = "shell" /\ watcher' = watcher
         \/ watcher = "waiting" /\ watcher' = "over"
  BY DEF Shell!ExecKills, Shell!WatcherKills, Shell!KillGroup, Shell!output, Shell!wait,
         Shell!request
<1>2. /\ shell' # "running" /\ ~(child' = "running" /\ grouped) /\ (shell' = "none" <=> shell = "none")
      /\ (shell # "running" => shell' = shell) /\ (child' = "running" => child = "running")
      /\ (child = "none" => child' = "none")
      /\ shell' \in {"none", "running", "exited", "failed", "killed"}
  BY <1>0, <1>1 DEF CommandTypes
<1>3. CommandTypes' /\ Drained' BY <1>0, <1>1, <1>2 DEF CommandTypes, Drained
<1>4. Waited' /\ Killed' /\ Ended' BY <1>0, <1>1, <1>2 DEF Waited, Killed, Ended, Shell!Holders
<1>. QED BY <1>3, <1>4 DEF CommandInv

LEMMA CommandNext == CommandParameters /\ CommandInv /\ [Shell!Next]_(Shell!vars) => CommandInv'
<1> SUFFICES ASSUME CommandParameters, CommandInv, [Shell!Next]_(Shell!vars) PROVE CommandInv'
  OBVIOUS
<1>1. CASE UNCHANGED Shell!vars
 <2>1. UNCHANGED <<ctx, shell, reaped, child, grouped, holds, pipe, written, kept, dropped, waiting, error,
                   inTime, watcher, caller, status>>
   BY <1>1 DEF Shell!vars, Shell!process, Shell!output, Shell!wait, Shell!request
 <2>. QED BY <2>1 DEF CommandInv, CommandTypes, Drained, Waited, Killed, Ended, Shell!Holders
<1>. QED BY <1>1, CommandActs, CommandHostActs, CommandDrains, CommandKills DEF Shell!Next

LEMMA CommandImplies == ASSUME CommandParameters, CommandInv PROVE Shell!CommandSafe
<1>0. CommandTypes /\ Drained /\ Waited /\ Killed /\ Ended BY DEF CommandInv
<1>1. Shell!TypeOK
 <2>1. pipe \in 0..PipeSize BY <1>0 DEF CommandTypes, CommandParameters
 <2>2. kept \in 0..Limit BY <1>0 DEF CommandTypes, CommandParameters, Drained
 <2>3. reaped => shell # "running" BY <1>0 DEF Waited
 <2>. QED BY <2>1, <2>2, <2>3 DEF Shell!TypeOK
<1>2. Shell!SuccessIsWhole
 <2> SUFFICES ASSUME status = "ok"
              PROVE  /\ shell = "exited" /\ ~Shell!Holders /\ pipe = 0
                     /\ kept = (IF written > Limit THEN Limit ELSE written) /\ dropped = (written > Limit)
   BY DEF Shell!SuccessIsWhole
 <2>1. waiting = "over" /\ error = "none" BY <1>0 DEF Ended
 <2>2. shell = "exited" /\ ~Shell!Holders /\ pipe = 0 BY <1>0, <2>1 DEF Waited, Ended
 <2>3. written \in Nat /\ written - pipe = written BY <1>0, <2>2 DEF CommandTypes
 <2>4. CASE written > Limit
  <3>1. written - pipe > Limit BY <2>3, <2>4
  <3>2. kept = Limit /\ dropped = TRUE BY <1>0, <3>1 DEF Drained
  <3>. QED BY <2>2, <2>4, <3>2
 <2>5. CASE ~(written > Limit)
  <3>1. ~(written - pipe > Limit) /\ written - pipe <= Limit BY <2>3, <2>5 DEF CommandParameters
  <3>2. kept = written /\ dropped = FALSE BY <1>0, <2>3, <3>1 DEF Drained
  <3>3. (written > Limit) = FALSE BY <2>5, SMT
  <3>4. dropped = (written > Limit) BY <3>2, <3>3, Zenon
  <3>. QED BY <2>2, <2>5, <3>2, <3>4
 <2>. QED BY <2>4, <2>5
<1>3. Shell!CancelReachesGroup BY <1>0 DEF Killed, Shell!CancelReachesGroup
<1>. QED BY <1>1, <1>2, <1>3 DEF Shell!CommandSafe

\* A command that is reported as successful was, with all its output, and a
\* cancellation reaches the group of the shell (process.go: Run, RunCommand).
THEOREM CommandIsSafe == ASSUME CommandParameters PROVE Shell!Spec => []Shell!CommandSafe
<1>1. Shell!Init => CommandInv BY CommandInit
<1>2. CommandInv /\ [Shell!Next]_(Shell!vars) => CommandInv' BY CommandNext
<1>3. CommandInv => Shell!CommandSafe BY CommandImplies
<1>. QED BY <1>1, <1>2, <1>3, PTL DEF Shell!Spec

----------------------------------------
(* The extension registry: the inductive invariant.                        *)

ExtensionsParameters ==
  /\ Tool \intersect Command = {} /\ Remote \subseteq Tool /\ NONE \notin Tool
  /\ LoadOrder \in Seq(Ext!File) /\ \A i, j \in DOMAIN LoadOrder : i # j => LoadOrder[i] # LoadOrder[j]
  /\ MaxReloads \in Nat
  /\ NONE # BUILTIN /\ NONE \notin Ext!Lease /\ BUILTIN \notin Ext!Lease /\ Ext!File \intersect (0..MaxReloads) = {}
  /\ \A f \in Ext!File : f \notin Nat
  /\ BUILTIN \notin Nat /\ NONE \notin Nat
  /\ \A names \in Batch : names \subseteq Ext!Name
  /\ \A p \in Policy : (p.allow = Ext!All \/ p.allow \subseteq Tool) /\ p.exclude \subseteq Tool

Hooked == Ext!File \union {BUILTIN}
Entry == [owner : Ext!Lease \union {BUILTIN, NONE}, deferred : BOOLEAN]
RegistryT == [entry : [Ext!Name -> Entry], hooks : Seq(Hooked), active : {Ext!All} \union SUBSET Tool]
CallT == [phase : {"idle", "waits", "runs", "hooks"}, owner : Ext!File \union {NONE}, hooks : Seq(Hooked),
          lenient : BOOLEAN, stoppedBy : Hooked \union {NONE}, first : Hooked \union {NONE}]

Starting == {"builtin", "lua", "mcp", "policy"}
Restricted == {"running", "stopping", "lua closing", "ended"}

ExtensionsTypes ==
  /\ registry \in RegistryT
  /\ owned \in [Ext!Lease \union {BUILTIN} -> SUBSET Ext!Name]
  /\ lua \in [Ext!File -> {"none", "loaded", "leaseless", "closed"}]
  /\ loader \in [next : Nat, failed : BOOLEAN] /\ loader.next >= 1
  /\ closing \in Ext!File \union {NONE}
  /\ policy \in Policy
  /\ stage \in Starting \union Restricted
  /\ manager \in BOOLEAN /\ conns \in Nat
  /\ server \in {NONE, "up", "killed"}
  /\ reload \in {"idle", "closed", "returned"}
  /\ running \in BOOLEAN
  /\ calls \in [Caller -> CallT]

\* How far the start has come.
Order ==
  /\ stage = "builtin" => /\ ~manager /\ registry.hooks = <<>>
                          /\ \A f \in Ext!File : lua[f] = "none"
                          /\ \A n \in Ext!Name : registry.entry[n] = Ext!Absent
  /\ stage \in {"builtin", "lua"} /\ ~loader.failed =>
       \A i \in DOMAIN LoadOrder : i >= loader.next => lua[LoadOrder[i]] = "none"
  /\ stage \in Starting => reload = "idle" /\ ~running /\ \A c \in Caller : calls[c].phase = "idle"
  /\ closing # NONE => lua[closing] = "leaseless"
  /\ reload = "closed" => ~manager
  /\ manager => conns >= 1

\* The policy holds of the registry from the start of the program on.
Applied == stage \in Restricted => \A n \in Tool : registry.entry[n] = Ext!Absent \/ n \in Ext!Allowed

\* The calls that wait for a state or run in one.
Calling ==
  \A c \in Caller : /\ calls[c].phase \in {"waits", "runs"} => calls[c].owner \in Ext!File
                    /\ calls[c].phase = "runs" => lua[calls[c].owner] # "closed"

ExtensionsInv == ExtensionsTypes /\ Order /\ Ext!LeaseIsWhole /\ Applied /\ Calling /\ Ext!StopIsSticky

----------------------------------------
(* What the methods of the registry do.                                    *)

\* The hooks but those of one owner.
LEMMA WithoutOf ==
  ASSUME NEW T, NEW hooks \in Seq(T), NEW o
  PROVE  /\ Ext!Without(hooks, o) \in Seq(T)
         /\ \A i \in DOMAIN Ext!Without(hooks, o) :
              Ext!Without(hooks, o)[i] # o /\ \E j \in DOMAIN hooks : Ext!Without(hooks, o)[i] = hooks[j]
<1> DEFINE N == Len(hooks)
           D == Seq({hooks[j] : j \in DOMAIN hooks} \ {o})
           step == [n \in 1..N |-> [m \in D |-> IF hooks[n] = o THEN m ELSE Append(m, hooks[n])]]
           Is(g) == g = [n \in 0..N |-> IF n = 0 THEN <<>> ELSE IF hooks[n] = o THEN g[n - 1]
                                        ELSE Append(g[n - 1], hooks[n])]
<1>1. N \in Nat /\ DOMAIN hooks = 1..N /\ <<>> \in D OBVIOUS
<1>2. step \in [1..N -> [D -> D]]
 <2>1. ASSUME NEW n \in 1..N, NEW m \in D PROVE (IF hooks[n] = o THEN m ELSE Append(m, hooks[n])) \in D
  <3>1. hooks[n] # o => hooks[n] \in {hooks[j] : j \in DOMAIN hooks} \ {o} BY <1>1
  <3>. QED BY <3>1, AppendProperties
 <2> HIDE DEF D
 <2>. QED BY <2>1
<1> HIDE DEF D
<1>3. PICK f : Steps(f, N, D, <<>>, step) BY <1>1, <1>2, Recursion
<1>4. ASSUME NEW n \in 1..N
      PROVE  f[n] = (IF hooks[n] = o THEN f[n - 1] ELSE Append(f[n - 1], hooks[n])) /\ f[n - 1] \in D
 <2>1. n - 1 \in 0..N BY <1>1
 <2>2. f[n - 1] \in D /\ f[n] = step[n][f[n - 1]]
  <3> HIDE DEF step
  <3>. QED BY <1>3, <2>1 DEF Steps
 <2>. QED BY <2>2
<1>5. Is(f)
 <2>1. f[0] = <<>> /\ f \in [0..N -> D] BY <1>3 DEF Steps
 <2>2. ASSUME NEW n \in 0..N
       PROVE  f[n] = (IF n = 0 THEN <<>> ELSE IF hooks[n] = o THEN f[n - 1] ELSE Append(f[n - 1], hooks[n]))
  <3>1. n = 0 \/ (n # 0 /\ n \in 1..N) BY <1>1
  <3>2. CASE n = 0 BY <2>1, <3>2
  <3>3. CASE n # 0 /\ n \in 1..N BY <1>4, <3>3, Zenon
  <3>. QED BY <3>1, <3>2, <3>3
 <2>3. DOMAIN f = 0..N /\ f = [n \in 0..N |-> f[n]]
  <3>1. \A S, R : \A h \in [S -> R] : DOMAIN h = S /\ h = [n \in S |-> h[n]] OBVIOUS
  <3> HIDE DEF D, N
  <3>. QED BY <2>1, <3>1, Zenon
 <2>. QED BY <2>2, <2>3
<1> DEFINE g == CHOOSE h : Is(h)
<1>6. Is(g) BY <1>5, Zenon
<1>7. Ext!Without(hooks, o) = g[N] BY DEF Ext!Without
<1> HIDE DEF g
<1>8. g[0] = <<>> /\ \A n \in 1..N : g[n] = (IF hooks[n] = o THEN g[n - 1] ELSE Append(g[n - 1], hooks[n]))
 <2>1. \A n \in 0..N : g[n] = (IF n = 0 THEN <<>> ELSE IF hooks[n] = o THEN g[n - 1] ELSE Append(g[n - 1], hooks[n]))
   BY <1>6
 <2>2. 0 \in 0..N /\ \A n \in 1..N : n \in 0..N /\ n # 0 BY <1>1
 <2>. QED BY <2>1, <2>2
<1> DEFINE S == {k \in Nat : k <= N => g[k] = f[k]}
<1>9. N \in S
 <2>1. 0 \in S BY <1>3, <1>8 DEF Steps
 <2>2. ASSUME NEW k \in Nat, k \in S PROVE k + 1 \in S
  <3>1. SUFFICES ASSUME k + 1 <= N PROVE g[k + 1] = f[k + 1]
    OBVIOUS
  <3>2. k + 1 \in 1..N /\ (k + 1) - 1 = k /\ g[k] = f[k] BY <1>1, <2>2, <3>1
  <3>. QED BY <1>4, <1>8, <3>2
 <2> HIDE DEF S
 <2>. QED BY <1>1, <2>1, <2>2, Induction
<1>10. Ext!Without(hooks, o) \in D BY <1>1, <1>3, <1>7, <1>9 DEF Steps
<1>11. {hooks[j] : j \in DOMAIN hooks} \ {o} \subseteq T BY <1>1
<1>12. Ext!Without(hooks, o) \in Seq(T) BY <1>10, <1>11, SeqMonotonic DEF D
<1>13. \A i \in DOMAIN Ext!Without(hooks, o) : Ext!Without(hooks, o)[i] \in {hooks[j] : j \in DOMAIN hooks} \ {o}
  BY <1>10 DEF D
<1>. QED BY <1>12, <1>13

\* A registration takes names and leaves the others alone.
Registered(reg, o, names, h, r) ==
  /\ r \in RegistryT /\ r.active = reg.active /\ r.hooks = h
  /\ \A n \in names : r.entry[n].owner = o
  /\ \A n \in Ext!Name \ names : r.entry[n] = reg.entry[n]

\* The entries after it.
Taken(reg, o, names, deferred) ==
  [n \in Ext!Name |-> IF n \in names THEN [owner |-> o, deferred |-> n \in deferred] ELSE reg.entry[n]]

LEMMA RegisterOf ==
  ASSUME NEW reg \in RegistryT, NEW o \in Ext!Lease \union {BUILTIN}, NEW names, names \subseteq Ext!Name,
         NEW deferred, NEW h \in Seq(Hooked),
         NEW r, r = [reg EXCEPT !.entry = Taken(reg, o, names, deferred), !.hooks = h]
  PROVE  Registered(reg, o, names, h, r)
<1> DEFINE e == [n \in Ext!Name |-> IF n \in names THEN [owner |-> o, deferred |-> n \in deferred] ELSE reg.entry[n]]
<1>1. Taken(reg, o, names, deferred) = e BY DEF Taken
<1>2. reg.entry \in [Ext!Name -> Entry] /\ reg.hooks \in Seq(Hooked) /\ reg.active \in {Ext!All} \union SUBSET Tool
  BY DEF RegistryT
<1>3. \A n \in Ext!Name : [owner |-> o, deferred |-> n \in deferred] \in Entry
 <2>1. \A n \in Ext!Name : (n \in deferred) \in BOOLEAN OBVIOUS
 <2>. QED BY <2>1 DEF Entry
<1>4. e \in [Ext!Name -> Entry] BY <1>2, <1>3
<1>5. \A n \in names : e[n].owner = o OBVIOUS
<1>6. \A n \in Ext!Name \ names : e[n] = reg.entry[n] OBVIOUS
<1> HIDE DEF e
<1>8. r = [[reg EXCEPT !.entry = e] EXCEPT !.hooks = h] BY <1>1
<1>9. /\ r.entry = e /\ r.hooks = h /\ r.active = reg.active
      /\ r \in RegistryT
  BY <1>2, <1>4, <1>8 DEF RegistryT
<1>. QED BY <1>5, <1>6, <1>9 DEF Registered

LEMMA RegisterHooked ==
  ASSUME NEW reg \in RegistryT, NEW o \in Ext!Lease \union {BUILTIN}, NEW names, names \subseteq Ext!Name,
         o \in Hooked, NEW r, r = Ext!Register(reg, o, names, {}, TRUE)
  PROVE  Registered(reg, o, names, Append(reg.hooks, o), r)
<1>1. Append(reg.hooks, o) \in Seq(Hooked)
 <2>1. reg.hooks \in Seq(Hooked) BY DEF RegistryT
 <2>. QED BY <2>1, AppendProperties
<1>2. r = [reg EXCEPT !.entry = Taken(reg, o, names, {}), !.hooks = Append(reg.hooks, o)]
  BY DEF Ext!Register, Taken
<1>. QED BY <1>1, <1>2, RegisterOf, Zenon

LEMMA RegisterPlain ==
  ASSUME NEW reg \in RegistryT, NEW o \in Ext!Lease \union {BUILTIN}, NEW names, names \subseteq Ext!Name,
         NEW deferred, NEW r, r = Ext!Register(reg, o, names, deferred, FALSE)
  PROVE  Registered(reg, o, names, reg.hooks, r)
<1>1. reg.hooks \in Seq(Hooked) BY DEF RegistryT
<1>2. r = [reg EXCEPT !.entry = Taken(reg, o, names, deferred), !.hooks = reg.hooks]
  BY DEF Ext!Register, Taken
<1>. QED BY <1>1, <1>2, RegisterOf, Zenon

\* A lease takes its entries and its hooks with it.
LEMMA CloseOf ==
  ASSUME NEW reg \in RegistryT, NEW o
  PROVE  LET r == Ext!CloseLease(reg, o) IN
         /\ r \in RegistryT /\ r.active = reg.active
         /\ \A n \in Ext!Name : IF reg.entry[n].owner = o THEN r.entry[n] = Ext!Absent ELSE r.entry[n] = reg.entry[n]
         /\ \A i \in DOMAIN r.hooks : r.hooks[i] # o /\ \E j \in DOMAIN reg.hooks : r.hooks[i] = reg.hooks[j]
<1> DEFINE e == [n \in Ext!Name |-> IF reg.entry[n].owner = o THEN Ext!Absent ELSE reg.entry[n]]
           h == Ext!Without(reg.hooks, o)
           r == Ext!CloseLease(reg, o)
<1>1. r = [[reg EXCEPT !.entry = e] EXCEPT !.hooks = h] BY DEF Ext!CloseLease
<1>2. reg.entry \in [Ext!Name -> Entry] /\ reg.hooks \in Seq(Hooked) /\ reg.active \in {Ext!All} \union SUBSET Tool
  BY DEF RegistryT
<1>3. e \in [Ext!Name -> Entry] BY <1>2 DEF Ext!Absent, Entry
<1>4. \A n \in Ext!Name : IF reg.entry[n].owner = o THEN e[n] = Ext!Absent ELSE e[n] = reg.entry[n]
  OBVIOUS
<1>5. /\ h \in Seq(Hooked)
      /\ \A i \in DOMAIN h : h[i] # o /\ \E j \in DOMAIN reg.hooks : h[i] = reg.hooks[j]
  BY <1>2, WithoutOf
<1> HIDE DEF e, h, r
<1>6. r.entry = e /\ r.hooks = h /\ r.active = reg.active /\ r \in RegistryT
  BY <1>1, <1>2, <1>3, <1>5 DEF RegistryT
<1>. QED BY <1>4, <1>5, <1>6 DEF r

\* Entries whose registration or schema changes only: what is taken away and what is kept.
LEMMA EntriesOf ==
  ASSUME NEW reg \in RegistryT, NEW e \in [Ext!Name -> Entry], NEW r, r = [reg EXCEPT !.entry = e]
  PROVE  r \in RegistryT /\ r.entry = e /\ r.hooks = reg.hooks /\ r.active = reg.active
  BY DEF RegistryT

LEMMA UndeferOf ==
  ASSUME NEW reg \in RegistryT, NEW names
  PROVE  LET r == Ext!Undefer(reg, names) IN
         /\ r \in RegistryT /\ r.hooks = reg.hooks /\ r.active = reg.active
         /\ \A n \in Ext!Name : /\ r.entry[n].owner = reg.entry[n].owner
                                /\ reg.entry[n] = Ext!Absent => r.entry[n] = Ext!Absent
<1> DEFINE e == [n \in Ext!Name |-> IF n \in names THEN [reg.entry[n] EXCEPT !.deferred = FALSE] ELSE reg.entry[n]]
           r == Ext!Undefer(reg, names)
<1>1. r = [reg EXCEPT !.entry = e] BY DEF Ext!Undefer
<1>2. \A n \in Ext!Name : reg.entry[n] \in Entry BY DEF RegistryT
<1>3. ASSUME NEW n \in Ext!Name
      PROVE  e[n] \in Entry /\ e[n].owner = reg.entry[n].owner /\ (reg.entry[n] = Ext!Absent => e[n] = Ext!Absent)
 <2>1. PICK x \in Entry : x = reg.entry[n] BY <1>2
 <2>2. PICK y : y = [x EXCEPT !.deferred = FALSE] OBVIOUS
 <2>3. y \in Entry /\ y.owner = x.owner /\ y.deferred = FALSE BY <2>2 DEF Entry
 <2>4. x = Ext!Absent => y = Ext!Absent
  <3>1. ASSUME x = Ext!Absent PROVE y.owner = Ext!Absent.owner /\ y.deferred = Ext!Absent.deferred
    BY <2>3, <3>1 DEF Ext!Absent
  <3>2. \A u, v \in Entry : u.owner = v.owner /\ u.deferred = v.deferred => u = v BY DEF Entry
  <3>. QED BY <2>1, <2>3, <3>1, <3>2
 <2>5. e[n] = x \/ e[n] = y BY <2>1, <2>2
 <2> HIDE DEF e
 <2>. QED BY <2>1, <2>3, <2>4, <2>5
<1>4. e \in [Ext!Name -> Entry] BY <1>3
<1> HIDE DEF e, r
<1>5. r \in RegistryT /\ r.entry = e /\ r.hooks = reg.hooks /\ r.active = reg.active
  BY <1>1, <1>4, EntriesOf
<1>. QED BY <1>3, <1>5 DEF r

\* The policy takes away what it does not allow, and nothing else.
LEMMA PolicyOf ==
  ASSUME ExtensionsParameters, policy \in Policy, NEW reg \in RegistryT
  PROVE  LET r == Ext!ApplyPolicy(reg) IN
         /\ r \in RegistryT /\ r.hooks = reg.hooks /\ r.active = reg.active
         /\ \A n \in Tool : r.entry[n] = Ext!Absent \/ n \in Ext!Allowed
         /\ \A n \in Ext!Name : \/ r.entry[n].owner = reg.entry[n].owner
                                \/ n \in Tool \ Ext!Allowed /\ r.entry[n] = Ext!Absent
<1>1. /\ Tool \intersect Command = {} /\ policy.exclude \subseteq Tool
      /\ policy.allow # Ext!All => policy.allow \subseteq Tool
  BY DEF ExtensionsParameters
<1>2. \A n \in Ext!Name : reg.entry[n] \in Entry BY DEF RegistryT
<1>3. PICK m : m = IF policy.allow = Ext!All THEN reg ELSE Ext!RestrictTools(reg, policy.allow)
  OBVIOUS
<1>4. /\ m \in RegistryT /\ m.hooks = reg.hooks /\ m.active = reg.active
      /\ \A n \in Ext!Name : \/ m.entry[n].owner = reg.entry[n].owner
                             \/ n \in Tool \ Ext!Allowed /\ m.entry[n] = Ext!Absent
      /\ \A n \in Tool : m.entry[n] = Ext!Absent \/ policy.allow = Ext!All \/ n \in policy.allow
 <2>1. CASE policy.allow = Ext!All BY <1>3, <2>1
 <2>2. CASE policy.allow # Ext!All
  <3> DEFINE e == [n \in Ext!Name |-> CASE n \in Command -> reg.entry[n]
                                         [] n \in policy.allow -> [reg.entry[n] EXCEPT !.deferred = FALSE]
                                         [] OTHER -> Ext!Absent]
  <3>1. m = [reg EXCEPT !.entry = e] BY <1>3, <2>2 DEF Ext!RestrictTools
  <3>2. ASSUME NEW n \in Ext!Name
        PROVE  /\ e[n] \in Entry
               /\ e[n].owner = reg.entry[n].owner \/ (n \in Tool \ Ext!Allowed /\ e[n] = Ext!Absent)
               /\ n \in Tool => e[n] = Ext!Absent \/ n \in policy.allow
   <4>1. CASE n \in Command
    <5>0. n \notin Tool BY <1>1, <4>1
    <5>1. e[n] = reg.entry[n]
     <6>1. e[n] = (CASE n \in Command -> reg.entry[n]
                    [] n \in policy.allow -> [reg.entry[n] EXCEPT !.deferred = FALSE]
                    [] OTHER -> Ext!Absent)
       OBVIOUS
     <6> HIDE DEF e
     <6>. QED BY <1>1, <2>2, <4>1, <5>0, <6>1
    <5> HIDE DEF e
    <5>. QED BY <1>2, <5>0, <5>1
   <4>2. CASE n \notin Command /\ n \in policy.allow
    <5>1. PICK x \in Entry : x = reg.entry[n] BY <1>2
    <5>2. PICK y : y = [x EXCEPT !.deferred = FALSE] OBVIOUS
    <5>3. y \in Entry /\ y.owner = x.owner BY <5>2 DEF Entry
    <5>4. e[n] = y BY <4>2, <5>1, <5>2
    <5> HIDE DEF e
    <5>. QED BY <4>2, <5>1, <5>3, <5>4
   <4>3. CASE n \notin Command /\ n \notin policy.allow
    <5>1. e[n] = Ext!Absent /\ n \in Tool /\ n \notin Ext!Allowed
      BY <2>2, <4>3 DEF Ext!Name, Ext!Allowed
    <5>2. Ext!Absent \in Entry BY DEF Ext!Absent, Entry
    <5> HIDE DEF e
    <5>. QED BY <5>1, <5>2
   <4>. QED BY <4>1, <4>2, <4>3
  <3>3. e \in [Ext!Name -> Entry] BY <3>2
  <3> HIDE DEF e
  <3>4. m \in RegistryT /\ m.entry = e /\ m.hooks = reg.hooks /\ m.active = reg.active
    BY <3>1, <3>3, EntriesOf
  <3>. QED BY <3>2, <3>4 DEF Ext!Name
 <2>. QED BY <2>1, <2>2
<1> DEFINE e == [n \in Ext!Name |-> IF n \in policy.exclude THEN Ext!Absent ELSE m.entry[n]]
           r == Ext!ApplyPolicy(reg)
<1>5. r = [m EXCEPT !.entry = e] BY <1>3 DEF Ext!ApplyPolicy, Ext!RemoveTools
<1>6. e \in [Ext!Name -> Entry] BY <1>4 DEF RegistryT, Ext!Absent, Entry
<1>7. \A n \in Ext!Name : e[n] = (IF n \in policy.exclude THEN Ext!Absent ELSE m.entry[n]) OBVIOUS
<1> HIDE DEF e, r
<1>8. r \in RegistryT /\ r.entry = e /\ r.hooks = m.hooks /\ r.active = m.active
  BY <1>4, <1>5, <1>6, EntriesOf
<1>9. \A n \in Tool : n \in Ext!Allowed <=> (policy.allow = Ext!All \/ n \in policy.allow) /\ n \notin policy.exclude
  BY DEF Ext!Allowed
<1>10. \A n \in Tool : n \in Ext!Name BY DEF Ext!Name
<1>11. \A n \in Tool : r.entry[n] = Ext!Absent \/ n \in Ext!Allowed BY <1>4, <1>7, <1>8, <1>9, <1>10
<1>12. \A n \in Ext!Name : r.entry[n].owner = reg.entry[n].owner \/ (n \in Tool \ Ext!Allowed /\ r.entry[n] = Ext!Absent)
  BY <1>1, <1>4, <1>7, <1>8, <1>9
<1>. QED BY <1>4, <1>8, <1>11, <1>12 DEF r

\* A selection of active tools.
LEMMA ActiveOf ==
  ASSUME NEW reg \in RegistryT, NEW names \in {Ext!All} \union SUBSET Tool, NEW r, r = [reg EXCEPT !.active = names]
  PROVE  r \in RegistryT /\ r.entry = reg.entry /\ r.hooks = reg.hooks
  BY DEF RegistryT

----------------------------------------
(* What keeps the leases whole.                                            *)

\* Owners keep their entries but for tools the options take away.
LEMMA LeaseKept ==
  ASSUME ExtensionsParameters, ExtensionsTypes, Ext!LeaseIsWhole, owned' = owned, policy' = policy,
         registry'.hooks = registry.hooks,
         \A n \in Ext!Name : \/ registry'.entry[n].owner = registry.entry[n].owner
                             \/ n \in Tool \ Ext!Allowed /\ registry'.entry[n] = Ext!Absent,
         \A o \in Ext!Lease \union {BUILTIN} : Ext!Open(o)' <=> Ext!Open(o)
  PROVE  Ext!LeaseIsWhole'
<1>1. Ext!Allowed' = Ext!Allowed /\ DOMAIN owned = Ext!Lease \union {BUILTIN} /\ \A o \in DOMAIN owned : owned[o] \subseteq Ext!Name
  BY DEF Ext!Allowed, ExtensionsTypes
<1>2. NONE \notin Ext!Lease \union {BUILTIN} /\ Ext!Absent.owner = NONE
  BY DEF ExtensionsParameters, Ext!Absent
<1>3. ASSUME NEW o \in Ext!Lease \union {BUILTIN}
      PROVE  /\ Ext!Open(o)' => \A n \in owned[o] : registry'.entry[n].owner = o \/ n \in Tool \ Ext!Allowed
             /\ ~(Ext!Open(o)') => /\ \A n \in Ext!Name : registry'.entry[n].owner # o
                                   /\ \A i \in DOMAIN registry'.hooks : registry'.hooks[i] # o
 <2>1. /\ Ext!Open(o) => \A n \in owned[o] : registry.entry[n].owner = o \/ n \in Tool \ Ext!Allowed
       /\ ~Ext!Open(o) => /\ \A n \in Ext!Name : registry.entry[n].owner # o
                          /\ \A i \in DOMAIN registry.hooks : registry.hooks[i] # o
   BY <1>1, <1>3 DEF Ext!LeaseIsWhole
 <2>2. Ext!Open(o)' <=> Ext!Open(o) BY <1>3
 <2>3. ASSUME Ext!Open(o) PROVE \A n \in owned[o] : registry'.entry[n].owner = o \/ n \in Tool \ Ext!Allowed
   BY <1>1, <1>3, <2>1, <2>3
 <2>4. ASSUME ~Ext!Open(o) PROVE /\ \A n \in Ext!Name : registry'.entry[n].owner # o
                                 /\ \A i \in DOMAIN registry'.hooks : registry'.hooks[i] # o
   BY <1>2, <1>3, <2>1, <2>4
 <2>. QED BY <2>2, <2>3, <2>4
<1>. QED BY <1>1, <1>3 DEF Ext!LeaseIsWhole

\* A lease that opens has what it registers.
LEMMA LeaseOpened ==
  ASSUME ExtensionsParameters, ExtensionsTypes, Ext!LeaseIsWhole, NEW own \in Ext!Lease \union {BUILTIN}, NEW names,
         names \subseteq Ext!Name, \A n \in names : registry.entry[n] = Ext!Absent,
         owned' = [owned EXCEPT ![own] = names], policy' = policy,
         \A n \in names : registry'.entry[n].owner = own \/ (n \in Tool \ Ext!Allowed /\ registry'.entry[n] = Ext!Absent),
         \A n \in Ext!Name \ names : \/ registry'.entry[n].owner = registry.entry[n].owner
                                     \/ n \in Tool \ Ext!Allowed /\ registry'.entry[n] = Ext!Absent,
         \A i \in DOMAIN registry'.hooks :
           registry'.hooks[i] = own \/ \E j \in DOMAIN registry.hooks : registry'.hooks[i] = registry.hooks[j],
         Ext!Open(own)',
         \A o \in (Ext!Lease \union {BUILTIN}) \ {own} : Ext!Open(o)' <=> Ext!Open(o)
  PROVE  Ext!LeaseIsWhole'
<1>1. /\ Ext!Allowed' = Ext!Allowed /\ DOMAIN owned = Ext!Lease \union {BUILTIN} /\ \A o \in DOMAIN owned : owned[o] \subseteq Ext!Name
      /\ DOMAIN owned' = Ext!Lease \union {BUILTIN} /\ owned'[own] = names
      /\ \A o \in DOMAIN owned : o # own => owned'[o] = owned[o]
  BY DEF Ext!Allowed, ExtensionsTypes
<1>2. NONE \notin Ext!Lease \union {BUILTIN} /\ Ext!Absent.owner = NONE
  BY DEF ExtensionsParameters, Ext!Absent
<1>3. ASSUME NEW o \in Ext!Lease \union {BUILTIN}, o # own
      PROVE  /\ Ext!Open(o)' => \A n \in owned[o] : registry'.entry[n].owner = o \/ n \in Tool \ Ext!Allowed
             /\ ~(Ext!Open(o)') => /\ \A n \in Ext!Name : registry'.entry[n].owner # o
                                   /\ \A i \in DOMAIN registry'.hooks : registry'.hooks[i] # o
 <2>1. /\ Ext!Open(o) => \A n \in owned[o] : registry.entry[n].owner = o \/ n \in Tool \ Ext!Allowed
       /\ ~Ext!Open(o) => /\ \A n \in Ext!Name : registry.entry[n].owner # o
                          /\ \A i \in DOMAIN registry.hooks : registry.hooks[i] # o
   BY <1>1, <1>3 DEF Ext!LeaseIsWhole
 <2>2. Ext!Open(o)' <=> Ext!Open(o) BY <1>3
 <2>3. ASSUME Ext!Open(o) PROVE \A n \in owned[o] : registry'.entry[n].owner = o \/ n \in Tool \ Ext!Allowed
   BY <1>1, <1>2, <1>3, <2>1, <2>3
 <2>4. ASSUME ~Ext!Open(o) PROVE /\ \A n \in Ext!Name : registry'.entry[n].owner # o
                                 /\ \A i \in DOMAIN registry'.hooks : registry'.hooks[i] # o
  <3>1. \A n \in Ext!Name : registry'.entry[n].owner # o BY <1>2, <1>3, <2>1, <2>4
  <3>2. \A i \in DOMAIN registry'.hooks : registry'.hooks[i] # o BY <1>3, <2>1, <2>4
  <3>. QED BY <3>1, <3>2
 <2>. QED BY <2>2, <2>3, <2>4
<1>4. \A n \in owned'[own] : registry'.entry[n].owner = own \/ n \in Tool \ Ext!Allowed BY <1>1
<1>5. ASSUME NEW o \in Ext!Lease \union {BUILTIN}
      PROVE  /\ Ext!Open(o)' => \A n \in owned'[o] : registry'.entry[n].owner = o \/ n \in Tool \ Ext!Allowed
             /\ ~(Ext!Open(o)') => /\ \A n \in Ext!Name : registry'.entry[n].owner # o
                                   /\ \A i \in DOMAIN registry'.hooks : registry'.hooks[i] # o
 <2>1. CASE o = own BY <1>4, <2>1
 <2>2. CASE o # own BY <1>1, <1>3, <2>2
 <2>. QED BY <2>1, <2>2
<1>. QED BY <1>1, <1>5 DEF Ext!LeaseIsWhole

\* A lease that closes has nothing left.
LEMMA LeaseClosed ==
  ASSUME ExtensionsParameters, ExtensionsTypes, Ext!LeaseIsWhole, NEW own, owned' = owned, policy' = policy,
         registry' = Ext!CloseLease(registry, own), ~(Ext!Open(own)'),
         \A o \in (Ext!Lease \union {BUILTIN}) \ {own} : Ext!Open(o)' <=> Ext!Open(o)
  PROVE  /\ Ext!LeaseIsWhole' /\ registry' \in RegistryT /\ registry'.active = registry.active
         /\ \A n \in Ext!Name : registry.entry[n] = Ext!Absent => registry'.entry[n] = Ext!Absent
<1>1. Ext!Allowed' = Ext!Allowed /\ DOMAIN owned = Ext!Lease \union {BUILTIN} /\ \A o \in DOMAIN owned : owned[o] \subseteq Ext!Name
  BY DEF Ext!Allowed, ExtensionsTypes
<1>2. NONE \notin Ext!Lease \union {BUILTIN} /\ Ext!Absent.owner = NONE
  BY DEF ExtensionsParameters, Ext!Absent
<1>3. /\ registry' \in RegistryT /\ registry'.active = registry.active
      /\ \A n \in Ext!Name : IF registry.entry[n].owner = own THEN registry'.entry[n] = Ext!Absent
                              ELSE registry'.entry[n] = registry.entry[n]
      /\ \A i \in DOMAIN registry'.hooks :
           registry'.hooks[i] # own /\ \E j \in DOMAIN registry.hooks : registry'.hooks[i] = registry.hooks[j]
 <2>1. registry \in RegistryT BY DEF ExtensionsTypes
 <2>2. PICK r : r = Ext!CloseLease(registry, own) OBVIOUS
 <2>3. /\ r \in RegistryT /\ r.active = registry.active
       /\ \A n \in Ext!Name : IF registry.entry[n].owner = own THEN r.entry[n] = Ext!Absent ELSE r.entry[n] = registry.entry[n]
       /\ \A i \in DOMAIN r.hooks : r.hooks[i] # own /\ \E j \in DOMAIN registry.hooks : r.hooks[i] = registry.hooks[j]
   BY <2>1, <2>2, CloseOf
 <2>4. registry' = r BY <2>2
 <2>. QED BY <2>3, <2>4
<1>4. ASSUME NEW o \in Ext!Lease \union {BUILTIN}
      PROVE  /\ Ext!Open(o)' => \A n \in owned[o] : registry'.entry[n].owner = o \/ n \in Tool \ Ext!Allowed
             /\ ~(Ext!Open(o)') => /\ \A n \in Ext!Name : registry'.entry[n].owner # o
                                   /\ \A i \in DOMAIN registry'.hooks : registry'.hooks[i] # o
 <2>1. /\ Ext!Open(o) => \A n \in owned[o] : registry.entry[n].owner = o \/ n \in Tool \ Ext!Allowed
       /\ ~Ext!Open(o) => /\ \A n \in Ext!Name : registry.entry[n].owner # o
                          /\ \A i \in DOMAIN registry.hooks : registry.hooks[i] # o
   BY <1>1, <1>4 DEF Ext!LeaseIsWhole
 <2>2. CASE o = own
  <3>1. \A n \in Ext!Name : registry'.entry[n].owner # o BY <1>2, <1>3, <1>4, <2>2
  <3>. QED BY <1>3, <2>2, <3>1
 <2>3. CASE o # own
  <3>1. Ext!Open(o)' <=> Ext!Open(o) BY <1>4, <2>3
  <3>2. ASSUME Ext!Open(o) PROVE \A n \in owned[o] : registry'.entry[n].owner = o \/ n \in Tool \ Ext!Allowed
    BY <1>1, <1>3, <1>4, <2>1, <2>3, <3>2
  <3>3. ASSUME ~Ext!Open(o) PROVE \A n \in Ext!Name : registry'.entry[n].owner # o
    BY <1>2, <1>3, <1>4, <2>1, <3>3
  <3>4. ASSUME ~Ext!Open(o) PROVE \A i \in DOMAIN registry'.hooks : registry'.hooks[i] # o
    BY <1>3, <2>1, <3>4
  <3>. QED BY <3>1, <3>2, <3>3, <3>4
 <2>. QED BY <2>2, <2>3
<1>5. Ext!LeaseIsWhole' BY <1>1, <1>4 DEF Ext!LeaseIsWhole
<1>6. \A n \in Ext!Name : registry.entry[n] = Ext!Absent => registry'.entry[n] = Ext!Absent BY <1>3
<1>. QED BY <1>3, <1>5, <1>6

----------------------------------------
(* The steps of the start, the runs and the end.                           *)

\* Steps that leave the registry and its owners alone.
Quiet == Ext!LuaReady \/ Ext!CommandFinished \/ Ext!RunStarts \/ Ext!RunEnds \/ Ext!Stop \/ Ext!ReloadFails \/ Ext!LuaClosed

LEMMA QuietSteps ==
  ASSUME ExtensionsParameters, ExtensionsInv, Quiet
  PROVE  ExtensionsInv'
<1>1. /\ registry' = registry /\ owned' = owned /\ lua' = lua /\ loader' = loader /\ closing' = closing
      /\ policy' = policy /\ manager' = manager /\ calls' = calls
  BY DEF Quiet, Ext!LuaReady, Ext!CommandFinished, Ext!RunStarts, Ext!RunEnds, Ext!Stop,
         Ext!ReloadFails, Ext!LuaClosed
<1>2. ExtensionsTypes /\ Order /\ Ext!LeaseIsWhole /\ Applied /\ Calling /\ Ext!StopIsSticky
  BY DEF ExtensionsInv
<1>3. /\ conns \in Nat /\ conns' \in Nat /\ conns' >= conns /\ (manager => conns' = conns)
      /\ server' \in {NONE, "up", "killed"} /\ reload' \in {"idle", "closed", "returned"} /\ running' \in BOOLEAN
      /\ stage' \in Starting \union Restricted
      /\ reload' = "closed" => reload = "closed"
      /\ stage' \in Starting => stage \in Starting /\ reload' = reload /\ running' = running
      /\ stage' \in {"builtin", "lua"} => stage' = stage
      /\ stage' \in Restricted => stage \in Restricted
 <2>1. /\ conns \in Nat /\ server \in {NONE, "up", "killed"} /\ reload \in {"idle", "closed", "returned"}
       /\ stage \in Starting \union Restricted
       /\ stage \in Starting => reload = "idle"
       /\ reload = "closed" => ~manager
   BY <1>2 DEF ExtensionsTypes, Order
 <2>2. conns' = conns \/ (conns' = conns + 1 /\ ~manager)
   BY <2>1
      DEF Quiet, Ext!LuaReady, Ext!CommandFinished, Ext!RunStarts, Ext!RunEnds, Ext!Stop,
          Ext!ReloadFails, Ext!LuaClosed
 <2>3. server' = server \/ server' = "killed"
   BY DEF Quiet, Ext!LuaReady, Ext!CommandFinished, Ext!RunStarts, Ext!RunEnds, Ext!Stop,
          Ext!ReloadFails, Ext!LuaClosed
 <2>4. reload' = reload \/ (reload' \in {"idle", "returned"} /\ reload # "idle")
   BY DEF Quiet, Ext!LuaReady, Ext!CommandFinished, Ext!RunStarts, Ext!RunEnds, Ext!Stop,
          Ext!ReloadFails, Ext!LuaClosed
 <2>5. running' = running \/ stage \notin Starting
  <3>1. running => stage \notin Starting BY <1>2 DEF Order
  <3>2. running' = running \/ running \/ stage = "running"
    BY DEF Quiet, Ext!LuaReady, Ext!CommandFinished, Ext!RunStarts, Ext!RunEnds,
           Ext!Stop, Ext!ReloadFails, Ext!LuaClosed
  <3>. QED BY <3>1, <3>2 DEF Starting
 <2>6. running' \in BOOLEAN
  <3>1. running' = running \/ running' = TRUE \/ running' = FALSE
    BY DEF Quiet, Ext!LuaReady, Ext!CommandFinished, Ext!RunStarts, Ext!RunEnds,
           Ext!Stop, Ext!ReloadFails, Ext!LuaClosed
  <3>2. running \in BOOLEAN BY <1>2 DEF ExtensionsTypes
  <3>. QED BY <3>1, <3>2
 <2>7. \/ stage' = stage
       \/ stage = "lua" /\ stage' = "mcp"
       \/ stage = "running" /\ stage' = "stopping"
       \/ stage = "lua closing" /\ stage' = "ended"
   BY DEF Quiet, Ext!LuaReady, Ext!CommandFinished, Ext!RunStarts, Ext!RunEnds, Ext!Stop,
          Ext!ReloadFails, Ext!LuaClosed
 <2>8. /\ stage' \in Starting \union Restricted
       /\ stage' \in Starting => stage \in Starting
       /\ stage' \in {"builtin", "lua"} => stage' = stage
       /\ stage' \in Restricted => stage \in Restricted
   BY <2>1, <2>7 DEF Starting, Restricted
 <2>9. conns' \in Nat /\ conns' >= conns /\ (manager => conns' = conns) BY <2>1, <2>2
 <2>. QED BY <2>1, <2>3, <2>4, <2>5, <2>6, <2>8, <2>9
<1>4. ExtensionsTypes' BY <1>1, <1>2, <1>3 DEF ExtensionsTypes
<1>5. Order' BY <1>1, <1>2, <1>3 DEF Order
<1>6. Ext!LeaseIsWhole'
 <2>1. \A o \in Ext!Lease \union {BUILTIN} : Ext!Open(o)' <=> Ext!Open(o) BY <1>1, <1>3 DEF Ext!Open
 <2>. QED BY <1>1, <1>2, <2>1, LeaseKept
<1>7. Applied' BY <1>1, <1>2, <1>3 DEF Applied, Ext!Allowed
<1>8. Calling' /\ Ext!StopIsSticky' BY <1>1, <1>2 DEF Calling, Ext!StopIsSticky
<1>. QED BY <1>4, <1>5, <1>6, <1>7, <1>8 DEF ExtensionsInv

LEMMA BuiltinsStep ==
  ASSUME ExtensionsParameters, ExtensionsInv, Ext!Builtins
  PROVE  ExtensionsInv'
<1>1. PICK names \in Batch : /\ registry' = Ext!Register(registry, BUILTIN, names, {}, TRUE)
                             /\ owned' = [owned EXCEPT ![BUILTIN] = names]
  BY DEF Ext!Builtins
<1>2. /\ lua' = lua /\ loader' = loader /\ closing' = closing /\ policy' = policy /\ manager' = manager
      /\ conns' = conns /\ server' = server /\ reload' = reload /\ running' = running /\ calls' = calls
      /\ stage = "builtin" /\ stage' = "lua"
  BY DEF Ext!Builtins
<1>3. ExtensionsTypes /\ Order /\ Ext!LeaseIsWhole /\ Applied /\ Calling /\ Ext!StopIsSticky
  BY DEF ExtensionsInv
<1>4. names \subseteq Ext!Name /\ BUILTIN \in Ext!Lease \union {BUILTIN} /\ BUILTIN \in Hooked /\ registry \in RegistryT
  BY <1>3 DEF ExtensionsParameters, ExtensionsTypes, Hooked
<1>5. /\ registry' \in RegistryT
      /\ \A n \in names : registry'.entry[n].owner = BUILTIN
      /\ \A n \in Ext!Name \ names : registry'.entry[n] = registry.entry[n]
      /\ registry'.hooks = Append(registry.hooks, BUILTIN)
 <2>1. PICK r : r = Ext!Register(registry, BUILTIN, names, {}, TRUE) OBVIOUS
 <2>2. Registered(registry, BUILTIN, names, Append(registry.hooks, BUILTIN), r)
   BY <1>4, <2>1, RegisterHooked, Zenon
 <2>3. registry' = r BY <1>1, <2>1
 <2>. QED BY <2>2, <2>3 DEF Registered
<1>6. \A i \in DOMAIN registry'.hooks : registry'.hooks[i] = BUILTIN
 <2>1. registry'.hooks = <<BUILTIN>>
  <3>1. registry.hooks = <<>> BY <1>2, <1>3 DEF Order
  <3>2. Append(<<>>, BUILTIN) = <<BUILTIN>> OBVIOUS
  <3>. QED BY <1>5, <3>1, <3>2
 <2>. QED BY <2>1
<1>7. Ext!LeaseIsWhole'
 <2>1. \A n \in names : registry.entry[n] = Ext!Absent BY <1>2, <1>3, <1>4 DEF Order
 <2>2. Ext!Open(BUILTIN)' BY DEF Ext!Open, ExtensionsParameters, Ext!Lease
 <2>3. \A o \in (Ext!Lease \union {BUILTIN}) \ {BUILTIN} : Ext!Open(o)' <=> Ext!Open(o)
   BY <1>2 DEF Ext!Open
 <2>. QED BY <1>1, <1>2, <1>3, <1>4, <1>5, <1>6, <2>1, <2>2, <2>3, LeaseOpened
<1>8. ExtensionsTypes'
 <2>1. owned' \in [Ext!Lease \union {BUILTIN} -> SUBSET Ext!Name]
   BY <1>1, <1>3, <1>4 DEF ExtensionsTypes
 <2>. QED BY <1>2, <1>3, <1>5, <2>1 DEF ExtensionsTypes, Starting
<1>9. Order' BY <1>2, <1>3 DEF Order, Starting
<1>10. Applied' /\ Calling' /\ Ext!StopIsSticky'
  BY <1>2, <1>3 DEF Applied, Calling, Ext!StopIsSticky, Restricted
<1>. QED BY <1>7, <1>8, <1>9, <1>10 DEF ExtensionsInv

LEMMA LoadFileStep ==
  ASSUME ExtensionsParameters, ExtensionsInv, Ext!LoadFile
  PROVE  ExtensionsInv'
<1>1. PICK f : f = LoadOrder[loader.next] OBVIOUS
<1>2. /\ stage = "lua" /\ ~loader.failed /\ loader.next <= Len(LoadOrder)
      /\ closing' = closing /\ policy' = policy /\ stage' = stage /\ manager' = manager
      /\ conns' = conns /\ server' = server /\ reload' = reload /\ running' = running /\ calls' = calls
  BY DEF Ext!LoadFile
<1>3. ExtensionsTypes /\ Order /\ Ext!LeaseIsWhole /\ Applied /\ Calling /\ Ext!StopIsSticky
  BY DEF ExtensionsInv
<1>4. /\ loader.next \in DOMAIN LoadOrder /\ loader.next \in Nat /\ f \in Ext!File /\ lua[f] = "none"
      /\ f # closing /\ lua \in [Ext!File -> {"none", "loaded", "leaseless", "closed"}]
 <2>1. loader.next \in Nat /\ loader.next >= 1 /\ lua \in [Ext!File -> {"none", "loaded", "leaseless", "closed"}]
   BY <1>3 DEF ExtensionsTypes
 <2>2. LoadOrder \in Seq(Ext!File) BY DEF ExtensionsParameters
 <2>3. loader.next \in DOMAIN LoadOrder BY <1>2, <2>1, <2>2
 <2>4. f \in Ext!File BY <1>1, <2>3 DEF Ext!File
 <2>5. lua[f] = "none" BY <1>1, <1>2, <1>3, <2>1, <2>3 DEF Order
 <2>6. f # closing BY <1>3, <2>4, <2>5 DEF Order, ExtensionsParameters, Ext!Lease
 <2>. QED BY <2>1, <2>3, <2>4, <2>5, <2>6
<1>5. Applied' /\ Ext!StopIsSticky' BY <1>2, <1>3 DEF Applied, Ext!StopIsSticky, Restricted
<1>6. \A c \in Caller : calls[c].phase = "idle" BY <1>2, <1>3 DEF Order, Starting
<1>7. Calling' BY <1>2, <1>6 DEF Calling
<1>8. CASE \E names \in Batch :
             /\ Ext!CanRegister(names)
             /\ registry' = Ext!Register(registry, f, names, {}, TRUE)
             /\ owned' = [owned EXCEPT ![f] = names]
             /\ lua' = [lua EXCEPT ![f] = "loaded"]
             /\ loader' = [loader EXCEPT !.next = @ + 1]
 <2>1. PICK names \in Batch :
            /\ Ext!CanRegister(names)
            /\ registry' = Ext!Register(registry, f, names, {}, TRUE)
            /\ owned' = [owned EXCEPT ![f] = names]
            /\ lua' = [lua EXCEPT ![f] = "loaded"]
            /\ loader' = [loader EXCEPT !.next = @ + 1]
   BY <1>8
 <2>2. names \subseteq Ext!Name /\ f \in Ext!Lease \union {BUILTIN} /\ f \in Hooked /\ registry \in RegistryT
   BY <1>3, <1>4 DEF ExtensionsParameters, ExtensionsTypes, Hooked, Ext!Lease
 <2>3. /\ registry' \in RegistryT
       /\ \A n \in names : registry'.entry[n].owner = f
       /\ \A n \in Ext!Name \ names : registry'.entry[n] = registry.entry[n]
       /\ registry'.hooks = Append(registry.hooks, f)
  <3>1. PICK r : r = Ext!Register(registry, f, names, {}, TRUE) OBVIOUS
  <3>2. Registered(registry, f, names, Append(registry.hooks, f), r)
    BY <2>2, <3>1, RegisterHooked, Zenon
  <3>3. registry' = r BY <2>1, <3>1
  <3>. QED BY <3>2, <3>3 DEF Registered
 <2>4. \A i \in DOMAIN registry'.hooks :
         registry'.hooks[i] = f \/ \E j \in DOMAIN registry.hooks : registry'.hooks[i] = registry.hooks[j]
  <3>1. registry.hooks \in Seq(Hooked) BY <2>2 DEF RegistryT
  <3>2. /\ DOMAIN registry.hooks = 1..Len(registry.hooks) /\ Len(registry.hooks) \in Nat
        /\ DOMAIN registry'.hooks = 1..(Len(registry.hooks) + 1)
        /\ registry'.hooks[Len(registry.hooks) + 1] = f
        /\ \A i \in 1..Len(registry.hooks) : registry'.hooks[i] = registry.hooks[i]
    BY <2>2, <2>3, <3>1
  <3>. QED BY <3>2
 <2>5. lua'[f] = "loaded" /\ \A g \in Ext!File : g # f => lua'[g] = lua[g] BY <1>4, <2>1
 <2>6. Ext!LeaseIsWhole'
  <3>1. \A n \in names : registry.entry[n] = Ext!Absent BY <2>1 DEF Ext!CanRegister
  <3>2. Ext!Open(f)' BY <1>4, <2>5 DEF Ext!Open
  <3>3. \A o \in (Ext!Lease \union {BUILTIN}) \ {f} : Ext!Open(o)' <=> Ext!Open(o)
    BY <1>2, <2>5 DEF Ext!Open
  <3>. QED BY <1>2, <1>3, <2>1, <2>2, <2>3, <2>4, <3>1, <3>2, <3>3, LeaseOpened
 <2>7. loader'.next = loader.next + 1 /\ loader'.failed = loader.failed
       /\ loader' \in [next : Nat, failed : BOOLEAN] /\ loader'.next >= 1
   BY <1>3, <2>1 DEF ExtensionsTypes
 <2>8. ExtensionsTypes'
  <3>1. owned' \in [Ext!Lease \union {BUILTIN} -> SUBSET Ext!Name]
    BY <1>3, <2>1, <2>2 DEF ExtensionsTypes
  <3>2. lua' \in [Ext!File -> {"none", "loaded", "leaseless", "closed"}] BY <1>4, <2>1
  <3>. QED BY <1>2, <1>3, <2>3, <2>7, <3>1, <3>2 DEF ExtensionsTypes
 <2>9. Order'
  <3>1. ASSUME NEW i \in DOMAIN LoadOrder, i >= loader'.next PROVE lua'[LoadOrder[i]] = "none"
   <4>1. i >= loader.next /\ i # loader.next BY <1>4, <2>7, <3>1 DEF ExtensionsParameters
   <4>2. LoadOrder[i] # f /\ LoadOrder[i] \in Ext!File
     BY <1>1, <1>4, <4>1 DEF ExtensionsParameters, Ext!File
   <4>3. lua[LoadOrder[i]] = "none" BY <1>2, <1>3, <4>1 DEF Order
   <4>. QED BY <2>5, <4>2, <4>3
  <3>2. closing # NONE => lua'[closing] = "leaseless" BY <1>3, <1>4, <2>5 DEF Order, ExtensionsTypes
  <3>. QED BY <1>2, <1>3, <3>1, <3>2 DEF Order
 <2>. QED BY <1>5, <1>7, <2>6, <2>8, <2>9 DEF ExtensionsInv
<1>9. CASE /\ lua' = [lua EXCEPT ![f] = "closed"]
           /\ loader' = [loader EXCEPT !.failed = TRUE]
           /\ UNCHANGED <<registry, owned>>
 <2>1. lua'[f] = "closed" /\ \A g \in Ext!File : g # f => lua'[g] = lua[g] BY <1>4, <1>9
 <2>2. loader'.failed = TRUE /\ loader' \in [next : Nat, failed : BOOLEAN] /\ loader'.next >= 1
   BY <1>3, <1>9 DEF ExtensionsTypes
 <2>3. Ext!LeaseIsWhole'
  <3>1. \A o \in Ext!Lease \union {BUILTIN} : Ext!Open(o)' <=> Ext!Open(o)
    BY <1>2, <1>4, <2>1 DEF Ext!Open
  <3>. QED BY <1>2, <1>3, <1>9, <3>1, LeaseKept
 <2>4. ExtensionsTypes'
  <3>1. lua' \in [Ext!File -> {"none", "loaded", "leaseless", "closed"}] BY <1>4, <1>9
  <3>. QED BY <1>2, <1>3, <1>9, <2>2, <3>1 DEF ExtensionsTypes
 <2>5. Order'
  <3>1. closing # NONE => lua'[closing] = "leaseless" BY <1>3, <1>4, <2>1 DEF Order, ExtensionsTypes
  <3>. QED BY <1>2, <1>3, <2>2, <3>1 DEF Order
 <2>. QED BY <1>5, <1>7, <2>3, <2>4, <2>5 DEF ExtensionsInv
<1>. QED BY <1>1, <1>8, <1>9 DEF Ext!LoadFile

LEMMA CloseLeaseStep ==
  ASSUME ExtensionsParameters, ExtensionsInv, Ext!CloseStateLease
  PROVE  ExtensionsInv'
<1>1. PICK i \in DOMAIN LoadOrder : /\ lua[LoadOrder[i]] = "loaded"
                                    /\ registry' = Ext!CloseLease(registry, LoadOrder[i])
                                    /\ lua' = [lua EXCEPT ![LoadOrder[i]] = "leaseless"]
                                    /\ closing' = LoadOrder[i]
  BY DEF Ext!CloseStateLease
<1>2. PICK f : f = LoadOrder[i] OBVIOUS
<1>3. /\ (stage = "lua" /\ loader.failed) \/ stage = "lua closing"
      /\ owned' = owned /\ loader' = loader /\ policy' = policy /\ stage' = stage /\ manager' = manager
      /\ conns' = conns /\ server' = server /\ reload' = reload /\ running' = running /\ calls' = calls
  BY DEF Ext!CloseStateLease
<1>4. ExtensionsTypes /\ Order /\ Ext!LeaseIsWhole /\ Applied /\ Calling /\ Ext!StopIsSticky
  BY DEF ExtensionsInv
<1>5. f \in Ext!File /\ lua \in [Ext!File -> {"none", "loaded", "leaseless", "closed"}]
  BY <1>2, <1>4 DEF Ext!File, ExtensionsTypes
<1>6. lua'[f] = "leaseless" /\ \A g \in Ext!File : g # f => lua'[g] = lua[g] BY <1>1, <1>2, <1>5
<1>7. /\ Ext!LeaseIsWhole' /\ registry' \in RegistryT
      /\ \A n \in Ext!Name : registry.entry[n] = Ext!Absent => registry'.entry[n] = Ext!Absent
 <2>1. ~(Ext!Open(f)') BY <1>5, <1>6 DEF Ext!Open
 <2>2. \A o \in (Ext!Lease \union {BUILTIN}) \ {f} : Ext!Open(o)' <=> Ext!Open(o)
   BY <1>3, <1>6 DEF Ext!Open
 <2>. QED BY <1>1, <1>2, <1>3, <1>4, <2>1, <2>2, LeaseClosed
<1>8. ExtensionsTypes'
 <2>1. lua' \in [Ext!File -> {"none", "loaded", "leaseless", "closed"}] BY <1>1, <1>2, <1>5
 <2>. QED BY <1>1, <1>2, <1>3, <1>4, <1>5, <1>7, <2>1 DEF ExtensionsTypes
<1>9. Order' BY <1>1, <1>2, <1>3, <1>4, <1>6 DEF Order
<1>10. Applied' BY <1>3, <1>4, <1>7 DEF Applied, Ext!Allowed, Ext!Name
<1>11. Calling'
 <2>1. ASSUME NEW c \in Caller, calls[c].phase = "runs" PROVE lua'[calls[c].owner] # "closed"
   BY <1>4, <1>6, <2>1 DEF Calling
 <2>. QED BY <1>3, <1>4, <2>1 DEF Calling
<1>12. Ext!StopIsSticky' BY <1>3, <1>4 DEF Ext!StopIsSticky
<1>. QED BY <1>7, <1>8, <1>9, <1>10, <1>11, <1>12 DEF ExtensionsInv

LEMMA CloseStateStep ==
  ASSUME ExtensionsParameters, ExtensionsInv, Ext!CloseState
  PROVE  ExtensionsInv'
<1>1. /\ closing # NONE /\ ~Ext!Held(closing) /\ lua' = [lua EXCEPT ![closing] = "closed"] /\ closing' = NONE
      /\ registry' = registry /\ owned' = owned /\ loader' = loader /\ policy' = policy /\ stage' = stage
      /\ manager' = manager /\ conns' = conns /\ server' = server /\ reload' = reload /\ running' = running
      /\ calls' = calls
  BY DEF Ext!CloseState
<1>2. ExtensionsTypes /\ Order /\ Ext!LeaseIsWhole /\ Applied /\ Calling /\ Ext!StopIsSticky
  BY DEF ExtensionsInv
<1>3. closing \in Ext!File /\ lua \in [Ext!File -> {"none", "loaded", "leaseless", "closed"}] /\ lua[closing] = "leaseless"
  BY <1>1, <1>2 DEF ExtensionsTypes, Order
<1>4. lua'[closing] = "closed" /\ \A g \in Ext!File : g # closing => lua'[g] = lua[g] BY <1>1, <1>3
<1>5. Ext!LeaseIsWhole'
 <2>1. \A o \in Ext!Lease \union {BUILTIN} : Ext!Open(o)' <=> Ext!Open(o)
   BY <1>1, <1>3, <1>4 DEF Ext!Open
 <2>. QED BY <1>1, <1>2, <2>1, LeaseKept
<1>6. ExtensionsTypes'
 <2>1. lua' \in [Ext!File -> {"none", "loaded", "leaseless", "closed"}] BY <1>1, <1>3
 <2>. QED BY <1>1, <1>2, <2>1 DEF ExtensionsTypes
<1>7. Order'
 <2>1. stage # "builtin" BY <1>2, <1>3 DEF Order
 <2>2. ASSUME stage = "lua", ~loader.failed, NEW j \in DOMAIN LoadOrder, j >= loader.next
       PROVE  lua'[LoadOrder[j]] = "none"
  <3>1. LoadOrder[j] \in Ext!File /\ lua[LoadOrder[j]] = "none" BY <1>2, <2>2 DEF Order, Ext!File
  <3>. QED BY <1>3, <1>4, <3>1
 <2>. QED BY <1>1, <1>2, <2>1, <2>2 DEF Order
<1>8. Applied' /\ Ext!StopIsSticky' BY <1>1, <1>2 DEF Applied, Ext!Allowed, Ext!StopIsSticky
<1>9. Calling'
 <2>1. ASSUME NEW c \in Caller, calls[c].phase = "runs" PROVE lua'[calls[c].owner] # "closed"
  <3>1. calls[c].owner # closing /\ calls[c].owner \in Ext!File /\ lua[calls[c].owner] # "closed"
    BY <1>1, <1>2, <2>1 DEF Ext!Held, Calling
  <3>. QED BY <1>4, <3>1
 <2>. QED BY <1>1, <1>2, <2>1 DEF Calling
<1>. QED BY <1>5, <1>6, <1>7, <1>8, <1>9 DEF ExtensionsInv

\* The connection and what is open of it.
LEMMA Connections ==
  ASSUME ExtensionsParameters, ExtensionsTypes
  PROVE  /\ \A o \in Ext!Lease : o \in Ext!File \/ o \in Nat
         /\ \A f \in Ext!File : f \notin Nat /\ f # BUILTIN
         /\ BUILTIN \notin Nat /\ conns \in Nat /\ MaxReloads \in Nat
<1>1. MaxReloads \in Nat /\ BUILTIN \notin Nat /\ BUILTIN \notin Ext!Lease /\ \A f \in Ext!File : f \notin Nat
  BY DEF ExtensionsParameters
<1>2. \A o \in 0..MaxReloads : o \in Nat BY <1>1
<1>3. \A f \in Ext!File : f \in Ext!Lease BY DEF Ext!Lease
<1>. QED BY <1>1, <1>2, <1>3 DEF ExtensionsTypes, Ext!Lease

\* The close of the servers, for a reload or the end.
LEMMA ServersClosed ==
  ASSUME ExtensionsParameters, ExtensionsInv, lua' = lua, owned' = owned, policy' = policy, conns' = conns,
         manager' = FALSE, registry' = IF manager THEN Ext!CloseLease(registry, conns - 1) ELSE registry
  PROVE  /\ Ext!LeaseIsWhole' /\ registry' \in RegistryT
         /\ \A n \in Ext!Name : registry.entry[n] = Ext!Absent => registry'.entry[n] = Ext!Absent
<1>1. ExtensionsTypes /\ Ext!LeaseIsWhole /\ (manager => conns >= 1) BY DEF ExtensionsInv, Order
<1>2. CASE manager
 <2>1. PICK own : own = conns - 1 OBVIOUS
 <2>2. own \in Nat BY <1>1, <1>2, <2>1 DEF ExtensionsTypes
 <2>3. own \notin Ext!File /\ own # BUILTIN BY <1>1, <2>2, Connections
 <2>4. ~(Ext!Open(own)') BY <2>3 DEF Ext!Open
 <2>5. \A o \in (Ext!Lease \union {BUILTIN}) \ {own} : Ext!Open(o)' <=> Ext!Open(o)
   BY <2>1 DEF Ext!Open
 <2>6. registry' = Ext!CloseLease(registry, own) BY <1>2, <2>1
 <2>. QED BY <1>1, <2>4, <2>5, <2>6, LeaseClosed
<1>3. CASE ~manager
 <2>1. registry' = registry BY <1>3
 <2>2. \A o \in Ext!Lease \union {BUILTIN} : Ext!Open(o)' <=> Ext!Open(o) BY <1>3 DEF Ext!Open
 <2>. QED BY <1>1, <2>1, <2>2, LeaseKept DEF ExtensionsTypes
<1>. QED BY <1>2, <1>3

LEMMA CloseServersSteps ==
  ASSUME ExtensionsParameters, ExtensionsInv, Ext!CloseForReload \/ Ext!CloseServers
  PROVE  ExtensionsInv'
<1>1. /\ lua' = lua /\ owned' = owned /\ policy' = policy /\ conns' = conns /\ loader' = loader /\ closing' = closing
      /\ manager' = FALSE /\ registry' = (IF manager THEN Ext!CloseLease(registry, conns - 1) ELSE registry)
      /\ running' = running /\ calls' = calls /\ server' = NONE
  BY DEF Ext!CloseForReload, Ext!CloseServers
<1>2. \/ stage = "running" /\ stage' = "running" /\ reload' = "closed"
      \/ stage = "stopping" /\ stage' = "lua closing" /\ reload' = reload
  BY DEF Ext!CloseForReload, Ext!CloseServers
<1>3. ExtensionsTypes /\ Order /\ Ext!LeaseIsWhole /\ Applied /\ Calling /\ Ext!StopIsSticky
  BY DEF ExtensionsInv
<1>4. /\ Ext!LeaseIsWhole' /\ registry' \in RegistryT
      /\ \A n \in Ext!Name : registry.entry[n] = Ext!Absent => registry'.entry[n] = Ext!Absent
  BY <1>1, ServersClosed
<1>5. /\ stage' \in Restricted /\ stage' \notin Starting /\ stage \in Restricted /\ stage' \notin {"builtin", "lua"}
      /\ reload' \in {"idle", "closed", "returned"}
  BY <1>2, <1>3 DEF Restricted, Starting, ExtensionsTypes
<1>6. ExtensionsTypes'
 <2>1. manager' \in BOOLEAN BY <1>1
 <2>. QED BY <1>1, <1>3, <1>4, <1>5, <2>1 DEF ExtensionsTypes
<1>7. Order' BY <1>1, <1>3, <1>5 DEF Order
<1>8. Applied' BY <1>1, <1>3, <1>4, <1>5 DEF Applied, Ext!Allowed, Ext!Name
<1>9. Calling' /\ Ext!StopIsSticky' BY <1>1, <1>3 DEF Calling, Ext!StopIsSticky
<1>. QED BY <1>4, <1>6, <1>7, <1>8, <1>9 DEF ExtensionsInv

LEMMA StartUpStep ==
  ASSUME ExtensionsParameters, ExtensionsInv, Ext!StartUp
  PROVE  ExtensionsInv'
<1>1. /\ stage = "policy" /\ registry' = Ext!ApplyPolicy(registry) /\ stage' \in {"running", "stopping"}
      /\ lua' = lua /\ owned' = owned /\ policy' = policy /\ conns' = conns /\ loader' = loader /\ closing' = closing
      /\ manager' = manager /\ server' = server /\ reload' = reload /\ running' = running /\ calls' = calls
  BY DEF Ext!StartUp
<1>2. ExtensionsTypes /\ Order /\ Ext!LeaseIsWhole /\ Applied /\ Calling /\ Ext!StopIsSticky
  BY DEF ExtensionsInv
<1>3. /\ registry' \in RegistryT /\ registry'.hooks = registry.hooks
      /\ \A n \in Tool : registry'.entry[n] = Ext!Absent \/ n \in Ext!Allowed
      /\ \A n \in Ext!Name : \/ registry'.entry[n].owner = registry.entry[n].owner
                             \/ n \in Tool \ Ext!Allowed /\ registry'.entry[n] = Ext!Absent
 <2>1. registry \in RegistryT /\ policy \in Policy BY <1>2 DEF ExtensionsTypes
 <2>. QED BY <1>1, <2>1, PolicyOf
<1>4. Ext!LeaseIsWhole'
 <2>1. \A o \in Ext!Lease \union {BUILTIN} : Ext!Open(o)' <=> Ext!Open(o) BY <1>1 DEF Ext!Open
 <2>. QED BY <1>1, <1>2, <1>3, <2>1, LeaseKept
<1>5. ExtensionsTypes' BY <1>1, <1>2, <1>3 DEF ExtensionsTypes, Restricted
<1>6. Order' BY <1>1, <1>2 DEF Order, Starting
<1>7. Applied' BY <1>1, <1>3 DEF Applied, Ext!Allowed
<1>8. Calling' /\ Ext!StopIsSticky' BY <1>1, <1>2 DEF Calling, Ext!StopIsSticky
<1>. QED BY <1>4, <1>5, <1>6, <1>7, <1>8 DEF ExtensionsInv

LEMMA SelectStep ==
  ASSUME ExtensionsParameters, ExtensionsInv, Ext!Select
  PROVE  ExtensionsInv'
<1>1. /\ stage = "running" /\ stage' = stage
      /\ lua' = lua /\ owned' = owned /\ policy' = policy /\ conns' = conns /\ loader' = loader /\ closing' = closing
      /\ manager' = manager /\ server' = server /\ reload' = reload /\ running' = running /\ calls' = calls
  BY DEF Ext!Select
<1>2. ExtensionsTypes /\ Order /\ Ext!LeaseIsWhole /\ Applied /\ Calling /\ Ext!StopIsSticky /\ registry \in RegistryT
  BY DEF ExtensionsInv, ExtensionsTypes
<1>3. /\ registry' \in RegistryT /\ registry'.hooks = registry.hooks
      /\ \A n \in Ext!Name : /\ registry'.entry[n].owner = registry.entry[n].owner
                             /\ registry.entry[n] = Ext!Absent => registry'.entry[n] = Ext!Absent
 <2>1. ASSUME NEW names \in SUBSET Tool, NEW found, found = {n \in names : registry.entry[n] # Ext!Absent},
              registry' = [Ext!Undefer(registry, found) EXCEPT !.active = found]
       PROVE  /\ registry' \in RegistryT /\ registry'.hooks = registry.hooks
              /\ \A n \in Ext!Name : /\ registry'.entry[n].owner = registry.entry[n].owner
                                     /\ registry.entry[n] = Ext!Absent => registry'.entry[n] = Ext!Absent
  <3>1. PICK u : u = Ext!Undefer(registry, found) OBVIOUS
  <3>2. /\ u \in RegistryT /\ u.hooks = registry.hooks
        /\ \A n \in Ext!Name : /\ u.entry[n].owner = registry.entry[n].owner
                               /\ registry.entry[n] = Ext!Absent => u.entry[n] = Ext!Absent
    BY <1>2, <3>1, UndeferOf
  <3>3. found \in {Ext!All} \union SUBSET Tool BY <2>1
  <3>4. registry' = [u EXCEPT !.active = found] BY <2>1, <3>1
  <3>5. registry' \in RegistryT /\ registry'.entry = u.entry /\ registry'.hooks = u.hooks
   <4>1. PICK r : r = [u EXCEPT !.active = found] OBVIOUS
   <4>2. r \in RegistryT /\ r.entry = u.entry /\ r.hooks = u.hooks BY <3>2, <3>3, <4>1, ActiveOf
   <4>. QED BY <3>4, <4>1, <4>2
  <3>. QED BY <3>2, <3>5
 <2>2. ASSUME registry' = [registry EXCEPT !.active = Ext!All]
       PROVE  registry' \in RegistryT /\ registry'.entry = registry.entry /\ registry'.hooks = registry.hooks
  <3>1. PICK r : r = [registry EXCEPT !.active = Ext!All] OBVIOUS
  <3>2. Ext!All \in {Ext!All} \union SUBSET Tool OBVIOUS
  <3>3. r \in RegistryT /\ r.entry = registry.entry /\ r.hooks = registry.hooks
    BY <1>2, <3>1, <3>2, ActiveOf
  <3>. QED BY <2>2, <3>1, <3>3
 <2>3. ASSUME NEW n \in Ext!Visible, registry' = Ext!Undefer(registry, {n})
       PROVE  /\ registry' \in RegistryT /\ registry'.hooks = registry.hooks
              /\ \A m \in Ext!Name : /\ registry'.entry[m].owner = registry.entry[m].owner
                                     /\ registry.entry[m] = Ext!Absent => registry'.entry[m] = Ext!Absent
  <3>1. PICK u : u = Ext!Undefer(registry, {n}) OBVIOUS
  <3>2. /\ u \in RegistryT /\ u.hooks = registry.hooks
        /\ \A m \in Ext!Name : /\ u.entry[m].owner = registry.entry[m].owner
                               /\ registry.entry[m] = Ext!Absent => u.entry[m] = Ext!Absent
    BY <1>2, <3>1, UndeferOf
  <3>. QED BY <2>3, <3>1, <3>2
 <2>4. \/ \E names \in SUBSET Tool : \E found : /\ found = {n \in names : registry.entry[n] # Ext!Absent}
                                                /\ registry' = [Ext!Undefer(registry, found) EXCEPT !.active = found]
       \/ registry' = [registry EXCEPT !.active = Ext!All]
       \/ \E n \in Ext!Visible : registry' = Ext!Undefer(registry, {n})
   BY DEF Ext!Select
 <2>. QED BY <2>1, <2>2, <2>3, <2>4
<1>4. Ext!LeaseIsWhole'
 <2>1. \A o \in Ext!Lease \union {BUILTIN} : Ext!Open(o)' <=> Ext!Open(o) BY <1>1 DEF Ext!Open
 <2>. QED BY <1>1, <1>2, <1>3, <2>1, LeaseKept
<1>5. ExtensionsTypes' BY <1>1, <1>2, <1>3 DEF ExtensionsTypes
<1>6. Order' BY <1>1, <1>2 DEF Order, Starting
<1>7. Applied' BY <1>1, <1>2, <1>3 DEF Applied, Ext!Allowed, Ext!Name
<1>8. Calling' /\ Ext!StopIsSticky' BY <1>1, <1>2 DEF Calling, Ext!StopIsSticky
<1>. QED BY <1>4, <1>5, <1>6, <1>7, <1>8 DEF ExtensionsInv

\* What a connection registers, at the start and for a reload.
LEMMA ConnectedOf ==
  ASSUME ExtensionsParameters, registry \in RegistryT, policy \in Policy, conns \in Ext!Lease,
         NEW names, names \subseteq Tool, NEW r, r = Ext!ConnectedRegistry(names)
  PROVE  /\ r \in RegistryT /\ r.hooks = registry.hooks
         /\ \A n \in names : r.entry[n].owner = conns \/ (n \in Tool \ Ext!Allowed /\ r.entry[n] = Ext!Absent)
         /\ \A n \in Ext!Name \ names : \/ r.entry[n].owner = registry.entry[n].owner
                                        \/ n \in Tool \ Ext!Allowed /\ r.entry[n] = Ext!Absent
         /\ stage # "mcp" => \A n \in Tool : r.entry[n] = Ext!Absent \/ n \in Ext!Allowed
<1>1. PICK q : q = Ext!Register(registry, conns, names, names \ Direct, FALSE) OBVIOUS
<1>2. Registered(registry, conns, names, registry.hooks, q)
 <2>1. names \subseteq Ext!Name /\ conns \in Ext!Lease \union {BUILTIN} BY DEF Ext!Name
 <2>. QED BY <1>1, <2>1, RegisterPlain, Zenon
<1>3. /\ q \in RegistryT /\ q.hooks = registry.hooks
      /\ \A n \in names : q.entry[n].owner = conns
      /\ \A n \in Ext!Name \ names : q.entry[n] = registry.entry[n]
  BY <1>2 DEF Registered
<1>4. CASE stage = "mcp"
 <2>1. r = q BY <1>1, <1>4 DEF Ext!ConnectedRegistry
 <2>. QED BY <1>3, <1>4, <2>1
<1>5. CASE stage # "mcp"
 <2>1. r = Ext!ApplyPolicy(q) BY <1>1, <1>5 DEF Ext!ConnectedRegistry
 <2>2. /\ r \in RegistryT /\ r.hooks = q.hooks
       /\ \A n \in Tool : r.entry[n] = Ext!Absent \/ n \in Ext!Allowed
       /\ \A n \in Ext!Name : r.entry[n].owner = q.entry[n].owner \/ (n \in Tool \ Ext!Allowed /\ r.entry[n] = Ext!Absent)
   BY <1>3, <2>1, PolicyOf
 <2>3. names \subseteq Ext!Name BY DEF Ext!Name
 <2>. QED BY <1>3, <2>2, <2>3
<1>. QED BY <1>4, <1>5

LEMMA ConnectStep ==
  ASSUME ExtensionsParameters, ExtensionsInv, Ext!Connect
  PROVE  ExtensionsInv'
<1>1. /\ ~manager /\ conns <= MaxReloads /\ conns' = conns + 1
      /\ lua' = lua /\ policy' = policy /\ loader' = loader /\ closing' = closing /\ running' = running /\ calls' = calls
  BY DEF Ext!Connect
<1>2. \/ stage = "mcp" /\ stage' = "policy" /\ reload' = reload
      \/ stage = "running" /\ reload' = "returned" /\ stage' = stage
  BY DEF Ext!Connect
<1>3. ExtensionsTypes /\ Order /\ Ext!LeaseIsWhole /\ Applied /\ Calling /\ Ext!StopIsSticky
  BY DEF ExtensionsInv
<1>4. /\ conns \in Nat /\ MaxReloads \in Nat /\ conns \in Ext!Lease /\ conns \notin Ext!File /\ conns # BUILTIN
      /\ conns' \in Nat /\ conns' >= 1 /\ conns' - 1 = conns
 <2>1. conns \in Nat /\ MaxReloads \in Nat BY <1>3, Connections
 <2>2. conns \in 0..MaxReloads BY <1>1, <2>1
 <2>3. conns \notin Ext!File /\ conns # BUILTIN BY <1>3, <2>1, Connections
 <2>. QED BY <1>1, <2>1, <2>2, <2>3 DEF Ext!Lease
<1>5. /\ stage' \in Starting \union Restricted /\ stage' \notin {"builtin", "lua"}
      /\ reload' \in {"idle", "closed", "returned"}
      /\ stage' \in Starting => stage = "mcp" /\ stage \in Starting /\ reload' = reload
      /\ stage' \in Restricted => stage \in Restricted /\ stage # "mcp"
      /\ stage' # "builtin"
      /\ reload' = "closed" => stage \in Starting /\ reload = "closed"
  BY <1>2, <1>3 DEF Starting, Restricted, ExtensionsTypes
<1>6. reload' # "closed" BY <1>3, <1>5 DEF Order
<1>7. Calling' /\ Ext!StopIsSticky' BY <1>1, <1>3 DEF Calling, Ext!StopIsSticky
<1>8. Order'
 <2>1. stage' \in Starting => reload' = "idle" /\ ~running' /\ \A c \in Caller : calls'[c].phase = "idle"
   BY <1>1, <1>3, <1>5 DEF Order
 <2>2. closing' # NONE => lua'[closing'] = "leaseless" BY <1>1, <1>3 DEF Order
 <2>. QED BY <1>4, <1>5, <1>6, <2>1, <2>2 DEF Order
<1>9. CASE \E names \in SUBSET Remote :
             /\ Ext!CanRegister(names)
             /\ registry' = Ext!ConnectedRegistry(names)
             /\ owned' = [owned EXCEPT ![conns] = names]
             /\ manager' = TRUE /\ server' = "up"
 <2>1. PICK names \in SUBSET Remote :
            /\ Ext!CanRegister(names)
            /\ registry' = Ext!ConnectedRegistry(names)
            /\ owned' = [owned EXCEPT ![conns] = names]
            /\ manager' = TRUE /\ server' = "up"
   BY <1>9
 <2>2. names \subseteq Tool /\ names \subseteq Ext!Name /\ registry \in RegistryT /\ policy \in Policy
   BY <1>3 DEF ExtensionsParameters, ExtensionsTypes, Ext!Name
 <2>3. /\ registry' \in RegistryT /\ registry'.hooks = registry.hooks
       /\ \A n \in names : registry'.entry[n].owner = conns \/ (n \in Tool \ Ext!Allowed /\ registry'.entry[n] = Ext!Absent)
       /\ \A n \in Ext!Name \ names : \/ registry'.entry[n].owner = registry.entry[n].owner
                                      \/ n \in Tool \ Ext!Allowed /\ registry'.entry[n] = Ext!Absent
       /\ stage # "mcp" => \A n \in Tool : registry'.entry[n] = Ext!Absent \/ n \in Ext!Allowed
  <3>1. PICK r : r = Ext!ConnectedRegistry(names) OBVIOUS
  <3>2. /\ r \in RegistryT /\ r.hooks = registry.hooks
        /\ \A n \in names : r.entry[n].owner = conns \/ (n \in Tool \ Ext!Allowed /\ r.entry[n] = Ext!Absent)
        /\ \A n \in Ext!Name \ names : \/ r.entry[n].owner = registry.entry[n].owner
                                       \/ n \in Tool \ Ext!Allowed /\ r.entry[n] = Ext!Absent
        /\ stage # "mcp" => \A n \in Tool : r.entry[n] = Ext!Absent \/ n \in Ext!Allowed
    BY <1>4, <2>2, <3>1, ConnectedOf
  <3>3. registry' = r BY <2>1, <3>1
  <3>. QED BY <3>2, <3>3
 <2>4. Ext!LeaseIsWhole'
  <3>0. PICK own : own = conns OBVIOUS
  <3>1. \A n \in names : registry.entry[n] = Ext!Absent BY <2>1, <2>2 DEF Ext!CanRegister
  <3>2. Ext!Open(own)'
   <4>1. own \notin Ext!File /\ manager' /\ own = conns' - 1 BY <1>4, <2>1, <3>0
   <4>. QED BY <4>1 DEF Ext!Open
  <3>3. ASSUME NEW o \in (Ext!Lease \union {BUILTIN}) \ {own} PROVE Ext!Open(o)' <=> Ext!Open(o)
   <4>1. o # conns' - 1 /\ ~manager /\ lua' = lua BY <1>1, <1>4, <3>0, <3>3
   <4>. QED BY <4>1 DEF Ext!Open
  <3>4. \A i \in DOMAIN registry'.hooks :
          registry'.hooks[i] = own \/ \E j \in DOMAIN registry.hooks : registry'.hooks[i] = registry.hooks[j]
    BY <2>3
  <3>5. /\ own \in Ext!Lease \union {BUILTIN} /\ owned' = [owned EXCEPT ![own] = names]
        /\ \A n \in names : registry'.entry[n].owner = own \/ (n \in Tool \ Ext!Allowed /\ registry'.entry[n] = Ext!Absent)
    BY <1>4, <2>1, <2>3, <3>0
  <3>. QED BY <1>1, <1>3, <2>2, <2>3, <3>1, <3>2, <3>3, <3>4, <3>5, LeaseOpened
 <2>5. ExtensionsTypes'
  <3>1. owned' \in [Ext!Lease \union {BUILTIN} -> SUBSET Ext!Name]
    BY <1>3, <2>1, <2>2 DEF ExtensionsTypes
  <3>2. manager' \in BOOLEAN /\ server' \in {NONE, "up", "killed"} BY <2>1
  <3>. QED BY <1>1, <1>3, <1>4, <1>5, <2>3, <3>1, <3>2 DEF ExtensionsTypes
 <2>6. Applied' BY <1>1, <1>5, <2>3 DEF Applied, Ext!Allowed
 <2>. QED BY <1>7, <1>8, <2>4, <2>5, <2>6 DEF ExtensionsInv
<1>10. CASE server' = NONE /\ UNCHANGED <<registry, owned, manager>>
 <2>1. \A o \in Ext!Lease \union {BUILTIN} : Ext!Open(o)' <=> Ext!Open(o)
   BY SMTT(40), <1>1, <1>10 DEF Ext!Open
 <2>2. Ext!LeaseIsWhole' BY <1>1, <1>3, <1>10, <2>1, LeaseKept
 <2>3. ExtensionsTypes' BY <1>1, <1>3, <1>4, <1>5, <1>10 DEF ExtensionsTypes
 <2>4. Applied' BY <1>1, <1>3, <1>5, <1>10 DEF Applied, Ext!Allowed
 <2>. QED BY <1>7, <1>8, <2>2, <2>3, <2>4 DEF ExtensionsInv
<1>. QED BY <1>9, <1>10 DEF Ext!Connect

----------------------------------------
(* The steps of the calls.                                                 *)

\* What a call may become.
Proper(r) ==
  /\ r \in CallT
  /\ r.phase \in {"waits", "runs"} => r.owner \in Ext!File
  /\ r.phase = "runs" => lua[r.owner] # "closed"
  /\ r.first # NONE => r.stoppedBy = r.first

LEMMA CallChanged ==
  ASSUME ExtensionsParameters, ExtensionsInv, NEW c \in Caller, NEW r, Proper(r), Ext!Change(c, r), stage \notin Starting
  PROVE  ExtensionsInv'
<1>1. /\ registry' = registry /\ owned' = owned /\ lua' = lua /\ loader' = loader /\ closing' = closing
      /\ policy' = policy /\ stage' = stage /\ manager' = manager /\ conns' = conns /\ server' = server
      /\ reload' = reload /\ running' = running
  BY DEF Ext!Change
<1>2. calls' = [calls EXCEPT ![c] = r] BY DEF Ext!Change
<1>3. ExtensionsTypes /\ Order /\ Ext!LeaseIsWhole /\ Applied /\ Calling /\ Ext!StopIsSticky
  BY DEF ExtensionsInv
<1>4. /\ calls \in [Caller -> CallT] /\ r \in CallT /\ calls' \in [Caller -> CallT] /\ calls'[c] = r
      /\ \A d \in Caller : d # c => calls'[d] = calls[d]
  BY <1>2, <1>3 DEF ExtensionsTypes, Proper
<1>5. ExtensionsTypes' BY <1>1, <1>3, <1>4 DEF ExtensionsTypes
<1>6. Order' BY <1>1, <1>3 DEF Order
<1>7. Ext!LeaseIsWhole'
 <2>1. \A o \in Ext!Lease \union {BUILTIN} : Ext!Open(o)' <=> Ext!Open(o) BY <1>1 DEF Ext!Open
 <2>. QED BY <1>1, <1>3, <2>1, LeaseKept
<1>8. Applied' BY <1>1, <1>3 DEF Applied, Ext!Allowed
<1>9. ASSUME NEW d \in Caller
      PROVE  /\ calls'[d].phase \in {"waits", "runs"} => calls'[d].owner \in Ext!File
             /\ calls'[d].phase = "runs" => lua'[calls'[d].owner] # "closed"
             /\ calls'[d].first # NONE => calls'[d].stoppedBy = calls'[d].first
 <2>1. CASE d = c BY <1>1, <1>4, <2>1 DEF Proper
 <2>2. CASE d # c
  <3>1. calls'[d] = calls[d] BY <1>4, <2>2
  <3>2. /\ calls[d].phase \in {"waits", "runs"} => calls[d].owner \in Ext!File
        /\ calls[d].phase = "runs" => lua[calls[d].owner] # "closed"
        /\ calls[d].first # NONE => calls[d].stoppedBy = calls[d].first
    BY <1>3 DEF Calling, Ext!StopIsSticky
  <3>. QED BY <1>1, <3>1, <3>2
 <2>. QED BY <2>1, <2>2
<1>10. Calling' /\ Ext!StopIsSticky' BY <1>9 DEF Calling, Ext!StopIsSticky
<1>. QED BY <1>5, <1>6, <1>7, <1>8, <1>10 DEF ExtensionsInv

\* A call is idle before the program runs.
LEMMA CallingIsLate ==
  ASSUME ExtensionsInv, NEW c \in Caller, calls[c].phase # "idle"
  PROVE  stage \notin Starting
BY DEF ExtensionsInv, Order

LEMMA IdleIsProper ==
  Proper(Ext!Idle) /\ Ext!Idle \in CallT
<1>1. /\ Ext!Idle.phase = "idle" /\ Ext!Idle.owner = NONE /\ Ext!Idle.hooks = <<>> /\ Ext!Idle.lenient = FALSE
      /\ Ext!Idle.stoppedBy = NONE /\ Ext!Idle.first = NONE
  BY DEF Ext!Idle
<1>2. <<>> \in Seq(Hooked) OBVIOUS
<1>3. Ext!Idle \in CallT BY <1>2 DEF Ext!Idle, CallT
<1>. QED BY <1>1, <1>3 DEF Proper

LEMMA BeginSteps ==
  ASSUME ExtensionsParameters, ExtensionsInv, NEW c \in Caller, Ext!LookUp(c) \/ Ext!RunHooks(c)
  PROVE  ExtensionsInv'
<1>1. stage \notin Starting
 <2>1. stage = "running" BY Zenon DEF Ext!LookUp, Ext!RunHooks
 <2>. QED BY <2>1 DEF Starting
<1>2. Ext!Idle \in CallT /\ Ext!Idle.first = NONE /\ Ext!Idle.stoppedBy = NONE /\ Ext!Idle.owner = NONE
  BY IdleIsProper DEF Ext!Idle
<1>3. CASE Ext!LookUp(c)
 <2>1. PICK o \in Ext!File : Ext!Change(c, [Ext!Idle EXCEPT !.phase = "waits", !.owner = o])
  <3>1. \E n : /\ registry.entry[n].owner \in Ext!File
               /\ Ext!Change(c, [Ext!Idle EXCEPT !.phase = "waits", !.owner = registry.entry[n].owner])
    BY <1>3, Zenon DEF Ext!LookUp
  <3>. QED BY <3>1, Zenon
 <2>2. PICK r : r = [Ext!Idle EXCEPT !.phase = "waits", !.owner = o] OBVIOUS
 <2>3. r \in CallT /\ r.phase = "waits" /\ r.owner = o /\ r.first = NONE BY <1>2, <2>2 DEF CallT
 <2>4. Proper(r) BY <2>3 DEF Proper
 <2>5. Ext!Change(c, r) BY <2>1, <2>2
 <2>. QED BY <1>1, <2>4, <2>5, CallChanged
<1>4. CASE Ext!RunHooks(c)
 <2>1. PICK lenient \in BOOLEAN :
         Ext!Change(c, [Ext!Idle EXCEPT !.phase = "hooks", !.hooks = registry.hooks, !.lenient = lenient])
   BY <1>4, Zenon DEF Ext!RunHooks
 <2>2. PICK r : r = [Ext!Idle EXCEPT !.phase = "hooks", !.hooks = registry.hooks, !.lenient = lenient]
   OBVIOUS
 <2>3. registry.hooks \in Seq(Hooked) BY DEF ExtensionsInv, ExtensionsTypes, RegistryT
 <2>4. r \in CallT /\ r.phase = "hooks" /\ r.first = NONE BY <1>2, <2>1, <2>2, <2>3 DEF CallT
 <2>5. Proper(r) BY <2>4 DEF Proper
 <2>6. Ext!Change(c, r) BY <2>1, <2>2
 <2>. QED BY <1>1, <2>5, <2>6, CallChanged
<1>. QED BY <1>3, <1>4

\* A hook that left a result behind.
LEMMA MergedIsProper ==
  ASSUME ExtensionsInv, NEW c \in Caller, calls[c].hooks # <<>>,
         NEW inPlace \in Hooked \union {NONE}, NEW answer \in Hooked \union {NONE}
  PROVE  Proper(Ext!Merged(c, inPlace, answer))
<1>1. PICK k \in CallT : k = calls[c] /\ (k.first # NONE => k.stoppedBy = k.first)
  BY DEF ExtensionsInv, ExtensionsTypes, Ext!StopIsSticky
<1>2. PICK after : after = Ext!AfterHook(k.stoppedBy, inPlace, answer) OBVIOUS
<1>3. after \in Hooked \union {NONE} /\ (k.stoppedBy # NONE => after = k.stoppedBy)
  BY <1>1, <1>2 DEF Ext!AfterHook, CallT
<1>4. k.hooks \in Seq(Hooked) /\ Tail(k.hooks) \in Seq(Hooked) BY <1>1 DEF CallT
<1>5. PICK r : r = [k EXCEPT !.phase = "hooks", !.owner = NONE, !.hooks = Tail(@), !.stoppedBy = after,
                             !.first = IF @ = NONE THEN after ELSE @]
  OBVIOUS
<1>6. /\ r \in CallT /\ r.phase = "hooks" /\ r.stoppedBy = after
      /\ r.first = IF k.first = NONE THEN after ELSE k.first
  BY ZenonT(40), <1>1, <1>3, <1>4, <1>5 DEF CallT
<1>7. r.first # NONE => r.stoppedBy = r.first BY <1>1, <1>3, <1>6
<1>8. Ext!Merged(c, inPlace, answer) = r BY <1>1, <1>2, <1>5 DEF Ext!Merged
<1>9. Proper(r) BY <1>6, <1>7 DEF Proper
<1>. QED BY <1>8, <1>9

LEMMA FailedIsProper ==
  ASSUME ExtensionsInv, NEW c \in Caller, calls[c].hooks # <<>>
  PROVE  Proper(Ext!Failed(c))
<1>1. PICK k \in CallT : k = calls[c] /\ (k.first # NONE => k.stoppedBy = k.first)
  BY DEF ExtensionsInv, ExtensionsTypes, Ext!StopIsSticky
<1>2. PICK left : left = IF k.lenient THEN Tail(k.hooks) ELSE <<>> OBVIOUS
<1>3. left \in Seq(Hooked) BY <1>1, <1>2 DEF CallT
<1>4. PICK r : r = [k EXCEPT !.phase = "hooks", !.owner = NONE, !.hooks = left] OBVIOUS
<1>5. r \in CallT /\ r.phase = "hooks" /\ r.stoppedBy = k.stoppedBy /\ r.first = k.first
  BY <1>1, <1>3, <1>4 DEF CallT
<1>6. Ext!Failed(c) = r BY <1>1, <1>2, <1>4 DEF Ext!Failed
<1>7. Proper(r) BY <1>1, <1>5 DEF Proper
<1>. QED BY <1>6, <1>7

LEMMA ProceedsStep ==
  ASSUME ExtensionsParameters, ExtensionsInv, NEW c \in Caller, Ext!Proceeds(c)
  PROVE  ExtensionsInv'
<1>1. PICK k \in CallT : k = calls[c] BY DEF ExtensionsInv, ExtensionsTypes
<1>2. k.phase # "idle"
  BY <1>1
     DEF Ext!Proceeds, Ext!Acquire, Ext!CallReturns, Ext!Refused, Ext!HookBegins,
         Ext!LuaHookReturns, Ext!BuiltinHook, Ext!HooksReturn
<1>3. stage \notin Starting BY <1>1, <1>2, CallingIsLate
<1>4. /\ k.first # NONE => k.stoppedBy = k.first
      /\ k.phase \in {"waits", "runs"} => k.owner \in Ext!File
      /\ k.phase = "runs" => lua[k.owner] # "closed"
      /\ k.owner \in Ext!File \union {NONE} /\ k.stoppedBy \in Hooked \union {NONE}
  BY <1>1 DEF ExtensionsInv, Ext!StopIsSticky, Calling, CallT
<1>5. \E r : Proper(r) /\ Ext!Change(c, r)
 <2>1. CASE Ext!Acquire(c)
  <3>1. PICK r : r = [k EXCEPT !.phase = "runs"] OBVIOUS
  <3>2. k.phase = "waits" /\ lua[k.owner] # "closed" /\ Ext!Change(c, r)
    BY <1>1, <2>1, <3>1 DEF Ext!Acquire
  <3>3. /\ r \in CallT /\ r.phase = "runs" /\ r.owner = k.owner
        /\ r.first = k.first /\ r.stoppedBy = k.stoppedBy
    BY <3>1 DEF CallT
  <3>4. Proper(r) BY <1>4, <3>2, <3>3 DEF Proper
  <3>. QED BY <3>2, <3>4
 <2>2. CASE Ext!CallReturns(c) \/ Ext!HooksReturn(c)
  <3>1. Ext!Change(c, Ext!Idle) BY <2>2 DEF Ext!CallReturns, Ext!HooksReturn
  <3>. QED BY <3>1, IdleIsProper
 <2>3. CASE Ext!HookBegins(c)
  <3>1. PICK o : o = Head(k.hooks) OBVIOUS
  <3>2. PICK r : r = [k EXCEPT !.phase = "waits", !.owner = o] OBVIOUS
  <3>3. o \in Ext!File /\ Ext!Change(c, r) BY <1>1, <2>3, <3>1, <3>2 DEF Ext!HookBegins
  <3>4. /\ r \in CallT /\ r.phase = "waits" /\ r.owner = o
        /\ r.first = k.first /\ r.stoppedBy = k.stoppedBy
    BY <3>2, <3>3 DEF CallT
  <3>5. Proper(r) BY <1>4, <3>3, <3>4 DEF Proper
  <3>. QED BY <3>3, <3>5
 <2>4. CASE Ext!LuaHookReturns(c)
  <3>1. calls[c].hooks # <<>> BY <2>4 DEF Ext!LuaHookReturns
  <3>2. \/ /\ k.phase = "runs"
           /\ \E answer \in {NONE, k.owner} : Ext!Change(c, Ext!Merged(c, k.stoppedBy, answer))
        \/ Ext!Change(c, Ext!Failed(c))
    BY <1>1, <2>4 DEF Ext!LuaHookReturns
  <3>3. CASE Ext!Change(c, Ext!Failed(c)) BY <3>1, <3>3, FailedIsProper
  <3>4. CASE /\ k.phase = "runs"
             /\ \E answer \in {NONE, k.owner} : Ext!Change(c, Ext!Merged(c, k.stoppedBy, answer))
   <4>1. PICK answer \in {NONE, k.owner} : Ext!Change(c, Ext!Merged(c, k.stoppedBy, answer)) BY <3>4
   <4>2. answer \in Hooked \union {NONE} BY <1>4, <4>1 DEF Hooked
   <4>3. Proper(Ext!Merged(c, k.stoppedBy, answer)) BY <1>4, <3>1, <4>2, MergedIsProper
   <4>. QED BY <4>1, <4>3
  <3>. QED BY <3>2, <3>3, <3>4
 <2>5. CASE Ext!BuiltinHook(c)
  <3>1. calls[c].hooks # <<>> BY <2>5 DEF Ext!BuiltinHook
  <3>2. \/ \E inPlace, answer \in {NONE, BUILTIN} : Ext!Change(c, Ext!Merged(c, inPlace, answer))
        \/ Ext!Change(c, Ext!Failed(c))
    BY <2>5 DEF Ext!BuiltinHook
  <3>3. CASE Ext!Change(c, Ext!Failed(c)) BY <3>1, <3>3, FailedIsProper
  <3>4. CASE \E inPlace, answer \in {NONE, BUILTIN} : Ext!Change(c, Ext!Merged(c, inPlace, answer))
   <4>1. PICK inPlace, answer \in {NONE, BUILTIN} : Ext!Change(c, Ext!Merged(c, inPlace, answer))
     BY <3>4
   <4>2. inPlace \in Hooked \union {NONE} /\ answer \in Hooked \union {NONE} BY <4>1 DEF Hooked
   <4>3. Proper(Ext!Merged(c, inPlace, answer)) BY <3>1, <4>2, MergedIsProper
   <4>. QED BY <4>1, <4>3
  <3>. QED BY <3>2, <3>3, <3>4
 <2>. QED BY <2>1, <2>2, <2>3, <2>4, <2>5 DEF Ext!Proceeds
<1>. QED BY <1>3, <1>5, CallChanged

----------------------------------------
(* The invariant.                                                          *)

LEMMA ExtensionsInit ==
  ASSUME ExtensionsParameters, Ext!Init
  PROVE  ExtensionsInv
<1>1. /\ registry = [entry |-> [n \in Ext!Name |-> Ext!Absent], hooks |-> <<>>, active |-> Ext!All]
      /\ owned = [o \in Ext!Lease \union {BUILTIN} |-> {}]
      /\ lua = [f \in Ext!File |-> "none"]
      /\ loader = [next |-> 1, failed |-> FALSE]
      /\ closing = NONE /\ policy \in Policy
      /\ stage = "builtin" /\ manager = FALSE /\ conns = 0 /\ server = NONE /\ reload = "idle"
      /\ running = FALSE
      /\ calls = [c \in Caller |-> Ext!Idle]
  BY DEF Ext!Init
<1>2. Ext!Absent \in Entry /\ Ext!Absent.owner = NONE BY DEF Ext!Absent, Entry
<1>3. registry \in RegistryT
 <2>1. [n \in Ext!Name |-> Ext!Absent] \in [Ext!Name -> Entry] /\ <<>> \in Seq(Hooked) BY <1>2
 <2>. QED BY <1>1, <2>1 DEF RegistryT
<1>4. ExtensionsTypes
 <2>1. calls \in [Caller -> CallT] BY <1>1, IdleIsProper
 <2>2. owned \in [Ext!Lease \union {BUILTIN} -> SUBSET Ext!Name] BY <1>1
 <2>3. lua \in [Ext!File -> {"none", "loaded", "leaseless", "closed"}] BY <1>1
 <2>4. loader \in [next : Nat, failed : BOOLEAN] /\ loader.next >= 1 BY <1>1
 <2>. QED BY <1>1, <1>3, <2>1, <2>2, <2>3, <2>4 DEF ExtensionsTypes, Starting
<1>5. /\ registry.hooks = <<>> /\ \A n \in Ext!Name : registry.entry[n] = Ext!Absent
      /\ \A f \in Ext!File : lua[f] = "none"
      /\ \A c \in Caller : calls[c] = Ext!Idle
  BY <1>1
<1>6. Ext!Idle.phase = "idle" /\ Ext!Idle.first = NONE BY DEF Ext!Idle
<1>7. Order
 <2>1. \A i \in DOMAIN LoadOrder : lua[LoadOrder[i]] = "none" BY <1>5 DEF Ext!File
 <2>. QED BY <1>1, <1>5, <1>6, <2>1 DEF Order
<1>8. Ext!LeaseIsWhole
 <2>1. \A o \in DOMAIN owned : owned[o] = {} /\ o # NONE BY <1>1 DEF ExtensionsParameters
 <2>2. DOMAIN registry.hooks = {} BY <1>5
 <2>. QED BY <1>2, <1>5, <2>1, <2>2 DEF Ext!LeaseIsWhole
<1>9. Applied BY <1>1 DEF Applied, Restricted
<1>10. Calling /\ Ext!StopIsSticky BY <1>5, <1>6 DEF Calling, Ext!StopIsSticky
<1>. QED BY <1>4, <1>7, <1>8, <1>9, <1>10 DEF ExtensionsInv

LEMMA ExtensionsStays ==
  ASSUME ExtensionsParameters, ExtensionsInv, UNCHANGED Ext!vars
  PROVE  ExtensionsInv'
<1>1. /\ registry' = registry /\ owned' = owned /\ lua' = lua /\ loader' = loader /\ closing' = closing
      /\ policy' = policy /\ stage' = stage /\ manager' = manager /\ conns' = conns /\ server' = server
      /\ reload' = reload /\ running' = running /\ calls' = calls
  BY DEF Ext!vars
<1>2. ExtensionsTypes /\ Order /\ Ext!LeaseIsWhole /\ Applied /\ Calling /\ Ext!StopIsSticky
  BY DEF ExtensionsInv
<1>3. ExtensionsTypes' BY <1>1, <1>2 DEF ExtensionsTypes
<1>4. Order' BY <1>1, <1>2 DEF Order
<1>5. Ext!LeaseIsWhole'
 <2>1. \A o \in Ext!Lease \union {BUILTIN} : Ext!Open(o)' <=> Ext!Open(o) BY <1>1 DEF Ext!Open
 <2>. QED BY <1>1, <1>2, <2>1, LeaseKept
<1>6. Applied' BY <1>1, <1>2 DEF Applied, Ext!Allowed
<1>7. Calling' /\ Ext!StopIsSticky' BY <1>1, <1>2 DEF Calling, Ext!StopIsSticky
<1>. QED BY <1>3, <1>4, <1>5, <1>6, <1>7 DEF ExtensionsInv

LEMMA ExtensionsNext ==
  ASSUME ExtensionsParameters, ExtensionsInv, [Ext!Next]_(Ext!vars)
  PROVE  ExtensionsInv'
<1>1. CASE UNCHANGED Ext!vars BY <1>1, ExtensionsStays
<1>2. CASE Ext!Next
 <2>1. CASE Ext!Builtins BY <2>1, BuiltinsStep
 <2>2. CASE Ext!LoadFile BY <2>2, LoadFileStep
 <2>3. CASE Quiet BY <2>3, QuietSteps
 <2>4. CASE Ext!CloseStateLease BY <2>4, CloseLeaseStep
 <2>5. CASE Ext!CloseState BY <2>5, CloseStateStep
 <2>6. CASE Ext!Connect BY <2>6, ConnectStep
 <2>7. CASE Ext!CloseForReload \/ Ext!CloseServers BY <2>7, CloseServersSteps
 <2>8. CASE Ext!StartUp BY <2>8, StartUpStep
 <2>9. CASE Ext!Select BY <2>9, SelectStep
 <2>10. CASE \E c \in Caller : Ext!LookUp(c) \/ Ext!RunHooks(c) \/ Ext!Proceeds(c)
  <3>1. PICK c \in Caller : Ext!LookUp(c) \/ Ext!RunHooks(c) \/ Ext!Proceeds(c) BY <2>10
  <3>. QED BY <3>1, BeginSteps, ProceedsStep
 <2>11. CASE Ext!Done BY <2>11, ExtensionsStays DEF Ext!Done
 <2>. QED BY <1>2, <2>1, <2>2, <2>3, <2>4, <2>5, <2>6, <2>7, <2>8, <2>9, <2>10, <2>11
      DEF Ext!Next, Quiet
<1>. QED BY <1>1, <1>2

LEMMA ExtensionsImplies ==
  ASSUME ExtensionsParameters, ExtensionsInv
  PROVE  Ext!ExtensionsSafe
<1>1. ExtensionsTypes /\ Order /\ Ext!LeaseIsWhole /\ Applied /\ Calling /\ Ext!StopIsSticky
  BY DEF ExtensionsInv
<1>2. Ext!TypeOK
 <2>1. registry \in [entry : [Ext!Name -> [owner : Ext!Lease \union {BUILTIN, NONE}, deferred : BOOLEAN]],
                     hooks : Seq(Ext!File \union {BUILTIN}), active : {Ext!All} \union SUBSET Tool]
   BY <1>1 DEF ExtensionsTypes, RegistryT, Entry, Hooked
 <2>2. \A c \in Caller : calls[c].phase \in {"idle", "waits", "runs", "hooks"}
   BY <1>1 DEF ExtensionsTypes, CallT
 <2>3. stage \in {"builtin", "lua", "mcp", "policy", "running", "stopping", "lua closing", "ended"}
  <3>1. stage \in Starting \union Restricted BY <1>1 DEF ExtensionsTypes
  <3>2. CASE stage \in Starting BY <3>2, Zenon DEF Starting
  <3>3. CASE stage \in Restricted BY <3>3, Zenon DEF Restricted
  <3>. QED BY <3>1, <3>2, <3>3, Zenon
 <2>4. /\ lua \in [Ext!File -> {"none", "loaded", "leaseless", "closed"}]
       /\ closing \in Ext!File \union {NONE} /\ server \in {NONE, "up", "killed"}
   BY <1>1 DEF ExtensionsTypes
 <2>. QED BY <2>1, <2>2, <2>3, <2>4, Zenon DEF Ext!TypeOK
<1>3. Ext!NoCallInClosed BY <1>1 DEF Ext!NoCallInClosed, Ext!Held, Calling
<1>4. Ext!PolicyHolds
 <2>1. ASSUME running PROVE \A n \in Tool : registry.entry[n] = Ext!Absent \/ n \in Ext!Allowed
  <3>1. stage \in Restricted BY <1>1, <2>1 DEF Order, ExtensionsTypes
  <3>. QED BY <1>1, <3>1 DEF Applied
 <2>. QED BY <2>1 DEF Ext!PolicyHolds, Ext!Visible
<1>. QED BY <1>1, <1>2, <1>3, <1>4 DEF Ext!ExtensionsSafe

\* The registry is whole, closed states run no call, the policy holds of every run.
THEOREM ExtensionsAreSafe ==
  ASSUME ExtensionsParameters
  PROVE  Ext!Spec => []Ext!ExtensionsSafe
<1>1. Ext!Init => ExtensionsInv BY ExtensionsInit
<1>2. ExtensionsInv /\ [Ext!Next]_(Ext!vars) => ExtensionsInv' BY ExtensionsNext
<1>3. ExtensionsInv => Ext!ExtensionsSafe BY ExtensionsImplies
<1>. QED BY <1>1, <1>2, <1>3, PTL DEF Ext!Spec

=============================================================================
