---------------------------- MODULE PackageStore ----------------------------
(***************************************************************************)
(* The installed extension packages of internal/extpkg: the directories    *)
(* under packages/, the state file packages.json, the lock file, and the   *)
(* processes that install, update, remove, synchronise and list packages,  *)
(* any of which may be killed between two steps.                           *)
(*                                                                         *)
(* A directory entry is a sequence: <<b>> is package b, <<b, "backup">>    *)
(* its ".backup", <<b, "remove">> its ".remove".  The content of a package *)
(* is its version, which stands for the integrity digest as well; a user   *)
(* may have modified it, and a removal that was cut short leaves a part.   *)
(* Staging directories hold the content a process has prepared.            *)
(***************************************************************************)
EXTENDS Naturals, Sequences, FiniteSets, SequencesExt

CONSTANTS Process,
          Base,         \* names of packages
          Overlap,      \* do operations overlap once a process has died?
          MaxOps,       \* bound: operations started
          MaxFailures,  \* bound: renames and saves of the state that fail
          MaxCrashes,   \* bound: processes killed
          MaxChanges    \* bound: packages modified or deleted by the user

VARIABLES files,    \* the content of every entry of packages/
          state,    \* packages.json: the version of every installed package
          lock,     \* the lock file
          pc,       \* where each process is
          op,       \* its operation
          changed,  \* the packages the user changed since their last update
          ops, failures, crashes, changes

bounds == <<ops, failures, crashes, changes>>
vars == <<files, state, lock, pc, op, changed, bounds>>

-----------------------------------------------------------------------------
Name == {<<b>> : b \in Base}

Backup(n) == Append(n, "backup")
Removal(n) == Append(n, "remove")

Entry == Name \cup {Backup(n) : n \in Name} \cup {Removal(n) : n \in Name}

Version == {"v1", "v2"}

Absent == "absent"

Content == Version \cup {Absent, "modified", "partial"}

Tracked(s) == {n \in Name : s[n] # Absent}

Free == [owner |-> "nobody", written |-> TRUE, dead |-> FALSE]

NoOp == [kind |-> "none", todo |-> {}, tries |-> 0, entries |-> {}, name |-> <<>>,
         version |-> Absent, moved |-> FALSE, left |-> FALSE, state |-> [n \in Name |-> Absent]]

Goto(p, s) == pc' = [pc EXCEPT ![p] = s]

Set(p, o) == op' = [op EXCEPT ![p] = o]

Put(e, c) == files' = [files EXCEPT ![e] = c]

Rename(from, to) == files' = [files EXCEPT ![to] = files[from], ![from] = Absent]

-----------------------------------------------------------------------------
(* lock: at most two attempts to create the lock file.                     *)

\* Install, SyncMissing, Update, Remove, List, DiscoveryDirs.
Start(p) ==
    /\ pc[p] = "idle"
    /\ ops < MaxOps
    /\ Overlap \/ crashes = 0 \/ \A q \in Process : pc[q] = "idle"
    /\ ops' = ops + 1
    /\ \E kind \in {"sync", "update", "remove", "list"}, todo \in SUBSET Name :
          /\ kind = "remove" => Cardinality(todo) = 1
          /\ kind \in {"sync", "update"} => todo # {}
          /\ kind = "list" => todo = {}
          /\ Set(p, [NoOp EXCEPT !.kind = kind, !.todo = todo, !.tries = 1])
    /\ Goto(p, "lock")
    /\ UNCHANGED <<files, state, lock, changed, failures, crashes, changes>>

LockCreate(p) ==
    /\ pc[p] = "lock"
    /\ lock = Free
    /\ lock' = [owner |-> p, written |-> FALSE, dead |-> FALSE]
    /\ Goto(p, "lockWrite")
    /\ UNCHANGED <<files, state, op, changed, bounds>>

\* The pid goes to the file this process created, wherever it is now.
LockWrite(p) ==
    /\ pc[p] = "lockWrite"
    /\ lock' = IF lock.owner = p /\ ~lock.dead THEN [lock EXCEPT !.written = TRUE] ELSE lock
    /\ Goto(p, "load")
    /\ UNCHANGED <<files, state, op, changed, bounds>>

\* The owner lives, or it wrote no pid and the file is not old enough.
LockBusy(p) ==
    /\ pc[p] = "lock"
    /\ lock # Free
    /\ lock.written => ~lock.dead
    /\ Goto(p, "idle") /\ Set(p, NoOp)
    /\ UNCHANGED <<files, state, lock, changed, bounds>>

\* The owner is dead, or the file without a pid is older than staleLockAge.
LockStale(p) ==
    /\ pc[p] = "lock"
    /\ lock # Free /\ lock.dead
    /\ Goto(p, "lockRemove")
    /\ UNCHANGED <<files, state, lock, op, changed, bounds>>

LockRemove(p) ==
    /\ pc[p] = "lockRemove"
    /\ lock' = Free
    /\ IF lock # Free /\ op[p].tries < 2
       THEN Goto(p, "lock") /\ Set(p, [op[p] EXCEPT !.tries = @ + 1])
       ELSE Goto(p, "idle") /\ Set(p, NoOp)
    /\ UNCHANGED <<files, state, changed, bounds>>

\* release removes whatever is at the path.
Release(p) ==
    /\ pc[p] = "release"
    /\ lock' = Free
    /\ Goto(p, "idle") /\ Set(p, NoOp)
    /\ UNCHANGED <<files, state, changed, bounds>>

\* The errors that end an operation run the deferred release.
Fail(p) == Goto(p, "release")

-----------------------------------------------------------------------------
(* loadState and recoverTransactions.                                      *)

Load(p) ==
    /\ pc[p] = "load"
    /\ Set(p, [op[p] EXCEPT !.state = state,
                            !.entries = {e \in Entry : files[e] # Absent}])
    /\ Goto(p, "recover")
    /\ UNCHANGED <<files, state, lock, changed, bounds>>

IsMarker(e) == Len(e) > 1          \* a name that ends in ".backup" or ".remove"

\* The entry at hand: a name comes before those it is a prefix of.
IsNext(p, e) == e \in op[p].entries /\ \A f \in op[p].entries : Len(e) <= Len(f)

Seen(p, e) == Set(p, [op[p] EXCEPT !.entries = @ \ {e}])

Untracked(p, e) == IsNext(p, e) /\ ~IsMarker(e) /\ op[p].state[e] = Absent

RecoverUntracked(p) ==
    /\ pc[p] = "recover"
    /\ \E e \in op[p].entries :
          /\ IsNext(p, e) /\ ~IsMarker(e)
          /\ Seen(p, e)
          /\ IF Untracked(p, e) THEN Put(e, Absent) ELSE UNCHANGED files
    /\ UNCHANGED <<state, lock, pc, changed, bounds>>

\* The target is gone: the marker becomes the package again.
RecoverMissing(p) ==
    /\ pc[p] = "recover"
    /\ \E e \in op[p].entries :
          /\ IsNext(p, e) /\ IsMarker(e)
          /\ op[p].state[Front(e)] # Absent
          /\ files[Front(e)] = Absent
          /\ Rename(e, Front(e))
          /\ Seen(p, e)
    /\ UNCHANGED <<state, lock, pc, changed, bounds>>

\* An update of a tracked package that has a target and a backup.
Interrupted(p, e) ==
    /\ IsNext(p, e) /\ IsMarker(e) /\ Last(e) = "backup"
    /\ op[p].state[Front(e)] # Absent
    /\ files[Front(e)] # Absent

UnneededUnlooked(p, e) ==          \* a defect: the target is taken for the tracked one
    /\ IsNext(p, e) /\ IsMarker(e)
    /\ op[p].state[Front(e)] # Absent => files[Front(e)] # Absent

\* The target is the tracked package, or there is none: the marker can go.
Unneeded(p, e) ==
    /\ IsNext(p, e) /\ IsMarker(e)
    /\ op[p].state[Front(e)] # Absent => files[Front(e)] # Absent
    /\ Interrupted(p, e) => files[Front(e)] = op[p].state[Front(e)]

\* Only the backup is the tracked package.
RollsBack(p, e) ==
    /\ Interrupted(p, e)
    /\ files[Front(e)] # op[p].state[Front(e)]
    /\ files[e] = op[p].state[Front(e)]

RecoverClean(p) ==
    /\ pc[p] = "recover"
    /\ \E e \in op[p].entries :
          /\ Unneeded(p, e)
          /\ Put(e, Absent)
          /\ Seen(p, e)
    /\ UNCHANGED <<state, lock, pc, changed, bounds>>

\* The target is removed, and then the backup is renamed to it.
RecoverRollBack(p) ==
    /\ pc[p] = "recover"
    /\ \E e \in op[p].entries :
          /\ RollsBack(p, e)
          /\ Put(Front(e), Absent)
          /\ Set(p, [op[p] EXCEPT !.entries = @ \ {e}, !.name = Front(e)])
    /\ Goto(p, "restore")
    /\ UNCHANGED <<state, lock, changed, bounds>>

Restore(p) ==
    /\ pc[p] = "restore"
    /\ Rename(Backup(op[p].name), op[p].name)
    /\ Set(p, [op[p] EXCEPT !.name = <<>>])
    /\ Goto(p, "recover")
    /\ UNCHANGED <<state, lock, changed, bounds>>

\* "cannot recover package": neither content is the tracked one.
CannotRecover(p) ==
    /\ pc[p] = "recover"
    /\ \E e \in op[p].entries :
          /\ Interrupted(p, e)
          /\ op[p].state[Front(e)] \notin {files[Front(e)], files[e]}
    /\ Fail(p)
    /\ UNCHANGED <<files, state, lock, op, changed, bounds>>

Recovered(p) ==
    /\ pc[p] = "recover"
    /\ op[p].entries = {}
    /\ Goto(p, "ready")
    /\ UNCHANGED <<files, state, lock, op, changed, bounds>>

-----------------------------------------------------------------------------
(* The operations.                                                         *)

\* Nothing is left to do; or a package to update or remove is not installed.
Finish(p) ==
    /\ pc[p] = "ready"
    /\ \/ op[p].todo = {}
       \/ op[p].kind # "sync" /\ ~(op[p].todo \subseteq Tracked(op[p].state))
    /\ Fail(p)
    /\ UNCHANGED <<files, state, lock, op, changed, bounds>>

\* The next package; one that is installed already needs no installation.
Dispatch(p) ==
    /\ pc[p] = "ready"
    /\ op[p].kind # "sync" => op[p].todo \subseteq Tracked(op[p].state)
    /\ \E n \in op[p].todo :
          /\ Set(p, [op[p] EXCEPT !.todo = @ \ {n}, !.name = n, !.moved = FALSE])
          /\ Goto(p, CASE op[p].kind # "sync"           -> op[p].kind
                       [] n \in Tracked(op[p].state)    -> "ready"
                       [] OTHER                         -> "install")
    /\ UNCHANGED <<files, state, lock, changed, bounds>>

\* prepare fetches and validates some version, or fails.  An update to what is
\* there already is skipped, unless it has another commit.
Prepare(p) ==
    /\ pc[p] \in {"install", "update"}
    /\ \/ \E v \in Version :
             /\ Set(p, [op[p] EXCEPT !.version = v])
             /\ IF pc[p] = "install" THEN Goto(p, "installRename")
                ELSE \/ Goto(p, "updateBackup")
                     \/ /\ v = op[p].state[op[p].name] /\ v = files[op[p].name]
                        /\ Goto(p, "ready")
       \/ Fail(p) /\ UNCHANGED op
    /\ UNCHANGED <<files, state, lock, changed, bounds>>

\* The state file is replaced by a rename.
SaveState(p, s) ==
    /\ state' = s
    /\ Set(p, [op[p] EXCEPT !.state = s])

\* A rename or a save that fails changes nothing.
StepFails ==
    /\ failures < MaxFailures
    /\ failures' = failures + 1
    /\ UNCHANGED <<state, op, ops, crashes, changes>>

\* A destination that exists is an error.
InstallRename(p) ==
    /\ pc[p] = "installRename"
    /\ \/ /\ files[op[p].name] = Absent
          /\ Put(op[p].name, op[p].version)
          /\ Goto(p, "installSave")
          /\ UNCHANGED <<state, op, bounds>>
       \/ /\ files[op[p].name] # Absent
          /\ Fail(p)
          /\ UNCHANGED <<files, state, op, bounds>>
       \/ StepFails /\ Fail(p) /\ UNCHANGED files
    /\ UNCHANGED <<lock, changed>>

InstallSaveOther(p) ==             \* a defect: another digest is recorded
    /\ pc[p] = "installSave"
    /\ \E v \in Version \ {op[p].version} :
          SaveState(p, [op[p].state EXCEPT ![op[p].name] = v])
    /\ Goto(p, "ready")
    /\ UNCHANGED <<files, lock, changed, bounds>>

InstallSave(p) ==
    /\ pc[p] = "installSave"
    /\ \/ /\ SaveState(p, [op[p].state EXCEPT ![op[p].name] = op[p].version])
          /\ Goto(p, "ready")
          /\ UNCHANGED bounds
       \/ StepFails /\ Goto(p, "installUndo")
    /\ changed' = changed \ {op[p].name}
    /\ UNCHANGED <<files, lock>>

InstallUndo(p) ==
    /\ pc[p] = "installUndo"
    /\ Put(op[p].name, Absent)
    /\ Fail(p)
    /\ UNCHANGED <<state, lock, op, changed, bounds>>

\* The current content moves out of the way, if there is any.
SetAside(p, marker, next) ==
    LET n == op[p].name
    IN \/ /\ files[marker] # Absent
          /\ Fail(p)
          /\ UNCHANGED <<files, state, op, bounds>>
       \/ /\ files[marker] = Absent
          /\ IF files[n] = Absent THEN UNCHANGED files ELSE Rename(n, marker)
          /\ Set(p, [op[p] EXCEPT !.moved = (files[n] # Absent)])
          /\ Goto(p, next)
          /\ UNCHANGED <<state, bounds>>
       \/ StepFails /\ Fail(p) /\ UNCHANGED files

UpdateBackup(p) ==
    /\ pc[p] = "updateBackup"
    /\ SetAside(p, Backup(op[p].name), "updateRename")
    /\ UNCHANGED <<lock, changed>>

UpdateRename(p) ==
    /\ pc[p] = "updateRename"
    /\ \/ /\ Put(op[p].name, op[p].version)
          /\ Goto(p, "updateSave")
          /\ UNCHANGED <<state, op, bounds>>
       \/ /\ StepFails
          /\ Goto(p, IF op[p].moved THEN "updateRestore" ELSE "release")
          /\ UNCHANGED files
    /\ UNCHANGED <<lock, changed>>

UpdateSaveOld(p) ==                \* a defect: the digest is that of the old content
    /\ pc[p] = "updateSave"
    /\ SaveState(p, [op[p].state EXCEPT ![op[p].name] = files[Backup(op[p].name)]])
    /\ Goto(p, IF op[p].moved THEN "updateClean" ELSE "ready")
    /\ changed' = changed \ {op[p].name}
    /\ UNCHANGED <<files, lock, bounds>>

UpdateSave(p) ==
    /\ pc[p] = "updateSave"
    /\ \/ /\ SaveState(p, [op[p].state EXCEPT ![op[p].name] = op[p].version])
          /\ Goto(p, IF op[p].moved THEN "updateClean" ELSE "ready")
          /\ changed' = changed \ {op[p].name}
          /\ UNCHANGED bounds
       \/ StepFails /\ Goto(p, "updateUndo") /\ UNCHANGED changed
    /\ UNCHANGED <<files, lock>>

UpdateClean(p) ==
    /\ pc[p] = "updateClean"
    /\ Put(Backup(op[p].name), Absent)
    /\ Goto(p, "ready")
    /\ UNCHANGED <<state, lock, op, changed, bounds>>

UpdateUndo(p) ==
    /\ pc[p] = "updateUndo"
    /\ Put(op[p].name, Absent)
    /\ Goto(p, IF op[p].moved THEN "updateRestore" ELSE "release")
    /\ UNCHANGED <<state, lock, op, changed, bounds>>

UpdateRestore(p) ==
    /\ pc[p] = "updateRestore"
    /\ Rename(Backup(op[p].name), op[p].name)
    /\ Fail(p)
    /\ UNCHANGED <<state, lock, op, changed, bounds>>

RemoveRename(p) ==
    /\ pc[p] = "remove"
    /\ SetAside(p, Removal(op[p].name), "removeSave")
    /\ UNCHANGED <<lock, changed>>

RemoveSave(p) ==
    /\ pc[p] = "removeSave"
    /\ \/ /\ SaveState(p, [op[p].state EXCEPT ![op[p].name] = Absent])
          /\ Goto(p, IF op[p].moved THEN "removeClean" ELSE "release")
          /\ UNCHANGED bounds
       \/ StepFails /\ Goto(p, IF op[p].moved THEN "removeUndo" ELSE "release")
    /\ UNCHANGED <<files, lock, changed>>

RemoveClean(p) ==
    /\ pc[p] = "removeClean"
    /\ Put(Removal(op[p].name), Absent)
    /\ Fail(p)
    /\ UNCHANGED <<state, lock, op, changed, bounds>>

RemoveUndoForgotten(p) ==          \* a defect: the files are not put back
    /\ pc[p] = "removeUndo"
    /\ Put(Removal(op[p].name), Absent)
    /\ Fail(p)
    /\ UNCHANGED <<state, lock, op, changed, bounds>>

RemoveUndo(p) ==
    /\ pc[p] = "removeUndo"
    /\ Rename(Removal(op[p].name), op[p].name)
    /\ Fail(p)
    /\ UNCHANGED <<state, lock, op, changed, bounds>>

\* The entries p may be removing, a file at a time.
Removing(p) ==
    CASE pc[p] \in {"installUndo", "updateUndo"} -> {op[p].name}
      [] pc[p] = "updateClean" -> {Backup(op[p].name)}
      [] pc[p] = "removeClean" -> {Removal(op[p].name)}
      [] pc[p] = "recover" ->
            {e \in op[p].entries : Unneeded(p, e) \/ Untracked(p, e)}
            \cup {Front(e) : e \in {d \in op[p].entries : RollsBack(p, d)}}
      [] OTHER -> {}

\* A part of such an entry is gone, or none.
RemovesPart(p) ==
    \/ UNCHANGED files
    \/ \E e \in Removing(p) : files[e] # Absent /\ Put(e, "partial")

\* What is to be removed or moved back is not, or not entirely: the clean-up and
\* the recovery return the error.  An undo ignores it, and what it has not removed
\* is in the way of what it would move back.
CleanUpFails(p) ==
    /\ \/ pc[p] \in {"installUndo", "updateClean", "updateUndo", "updateRestore",
                     "removeClean", "removeUndo", "restore"}
       \/ pc[p] = "recover" /\ op[p].entries # {}
    /\ failures < MaxFailures /\ failures' = failures + 1
    /\ RemovesPart(p)
    /\ Set(p, [op[p] EXCEPT !.left = TRUE])
    /\ Fail(p)
    /\ UNCHANGED <<state, lock, changed, ops, crashes, changes>>

-----------------------------------------------------------------------------
(* The environment.                                                        *)

\* p is killed, maybe in the middle of a removal.
Kill(p) ==
    /\ pc[p] # "idle"
    /\ crashes < MaxCrashes
    /\ crashes' = crashes + 1
    /\ RemovesPart(p)
    /\ lock' = IF lock.owner = p THEN [lock EXCEPT !.dead = TRUE] ELSE lock
    /\ Goto(p, "idle") /\ Set(p, NoOp)
    /\ UNCHANGED <<state, changed, ops, failures, changes>>

\* The user edits or deletes an installed package while nothing runs.
UserChanges ==
    /\ \A p \in Process : pc[p] = "idle"
    /\ changes < MaxChanges
    /\ changes' = changes + 1
    /\ \E n \in Tracked(state), c \in {"modified", Absent} :
          /\ files[n] # Absent
          /\ Put(n, c)
          /\ changed' = changed \cup {n}
    /\ UNCHANGED <<state, lock, pc, op, ops, failures, crashes>>

\* No operation is started any more.
Quiet == ops = MaxOps /\ (\A p \in Process : pc[p] = "idle") /\ UNCHANGED vars

-----------------------------------------------------------------------------
Init ==
    /\ files = [e \in Entry |-> Absent]
    /\ state = [n \in Name |-> Absent]
    /\ lock = Free
    /\ pc = [p \in Process |-> "idle"]
    /\ op = [p \in Process |-> NoOp]
    /\ changed = {}
    /\ ops = 0 /\ failures = 0 /\ crashes = 0 /\ changes = 0

LockStep(p) ==
    LockCreate(p) \/ LockWrite(p) \/ LockBusy(p) \/ LockStale(p) \/ LockRemove(p) \/ Release(p)

RecoverStep(p) ==
    \/ Load(p) \/ RecoverUntracked(p) \/ RecoverMissing(p) \/ RecoverClean(p)
    \/ RecoverRollBack(p) \/ Restore(p) \/ CannotRecover(p) \/ Recovered(p)

PackageStep(p) ==
    \/ Finish(p) \/ Dispatch(p) \/ Prepare(p)
    \/ InstallRename(p) \/ InstallSave(p) \/ InstallUndo(p)
    \/ UpdateBackup(p) \/ UpdateRename(p) \/ UpdateSave(p) \/ UpdateClean(p)
    \/ UpdateUndo(p) \/ UpdateRestore(p)
    \/ RemoveRename(p) \/ RemoveSave(p) \/ RemoveClean(p) \/ RemoveUndo(p)
    \/ CleanUpFails(p)

Next ==
    \/ \E p \in Process : Start(p) \/ LockStep(p) \/ RecoverStep(p) \/ PackageStep(p) \/ Kill(p)
    \/ UserChanges \/ Quiet

Spec == Init /\ [][Next]_vars

-----------------------------------------------------------------------------
(* Properties.                                                             *)

Outside == {"idle", "lock", "lockRemove"}

\* The types of the variables.
TypeOK ==
    /\ files \in [Entry -> Content]
    /\ state \in [Name -> Version \cup {Absent}]
    /\ lock \in [owner : Process \cup {"nobody"}, written : BOOLEAN, dead : BOOLEAN]
    /\ pc \in [Process -> Outside \cup
                  {"lockWrite", "load", "recover", "restore", "ready", "release",
                   "install", "installRename", "installSave", "installUndo",
                   "update", "updateBackup", "updateRename", "updateSave", "updateClean",
                   "updateUndo", "updateRestore",
                   "remove", "removeSave", "removeClean", "removeUndo"}]
    /\ op \in [Process ->
                 [kind : {"none", "sync", "update", "remove", "list"}, todo : SUBSET Name,
                  tries : 0..2, entries : SUBSET Entry, name : Name \cup {<<>>},
                  version : Version \cup {Absent}, moved : BOOLEAN, left : BOOLEAN,
                  state : [Name -> Version \cup {Absent}]]]
    /\ changed \subseteq Name

\* The files of n are what the state says, unless the user changed the package.
ConsistentAt(n) ==
    /\ n \notin changed \/ state[n] = Absent => files[n] = state[n]
    /\ files[Backup(n)] = Absent /\ files[Removal(n)] = Absent

Consistent == \A n \in Name : ConsistentAt(n)

\* Whatever step of an installation, an update or a removal failed or was cut
\* short by the death of the process, the next operation starts from packages
\* that are entirely the old or entirely the new version, as the state says.
RecoveryIsComplete == \A p \in Process : pc[p] = "ready" => Consistent

\* An operation that returns leaves the same, with success or with an error: only
\* a package it could not remove or move back is left to the next recovery.
ConsistentReturn ==
    \A p \in Process : Release(p) /\ op[p].entries = {} =>
        \A n \in Name : ConsistentAt(n) \/ (op[p].left /\ n = op[p].name)

ReturnsConsistent == [][ConsistentReturn]_vars

\* One operation runs at a time, and one that has returned does not keep the
\* lock, unless two of them overlap after a death (see MutualExclusion).
OneAtATime ==
    /\ Cardinality({p \in Process : pc[p] \notin Outside}) <= 1
    /\ \A p \in Process : lock.owner = p /\ ~lock.dead => pc[p] \notin Outside

\* "Install, update, and remove use a process lock" (docs/extension-packages.md).
MutualExclusion == Cardinality({p \in Process : pc[p] \notin Outside \cup {"release"}}) <= 1

\* Whatever was cut short, the recovery of a package the user did not touch never
\* ends in "cannot recover package", which no later operation gets past.
UntouchedIsRecoverable ==
    \A p \in Process : pc[p] = "recover" =>
        \A e \in op[p].entries :
            Interrupted(p, e) => \/ Front(e) \in changed
                                 \/ op[p].state[Front(e)] \in {files[Front(e)], files[e]}
=============================================================================
