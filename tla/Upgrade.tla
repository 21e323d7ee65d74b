------------------------------- MODULE Upgrade -------------------------------
(* notch upgrade and the automatic upgrade at startup, internal/upgrade: the   *)
(* daily check, the choice of a release, the verified download and the        *)
(* replacement of the running executable, by processes that start, die and    *)
(* run at once, on Unix and on Windows.                                       *)
EXTENDS Integers, Sequences

CONSTANTS Process,
          Release,    \* the versions published, in the precedence of semantic versions
          Dev,        \* versions of builds of a checkout
          MaxUint,    \* the largest number a numeric identifier is read as
          Interval,   \* of the automatic checks
          MaxClock, MaxStarts, MaxPowerLosses

VARIABLES os,         \* "unix" or "windows"
          clock,
          stamp,      \* auto-update.json
          exe,        \* the installed executable
          backup,     \* the executable with .old after its name
          temps,      \* the .notch-upgrade-* files
          proc,       \* the processes
          starts, losses   \* counters of this model

vars == <<os, clock, stamp, exe, backup, temps, proc, starts, losses>>

(* A version: whether it parses, the three numbers, the identifiers behind.   *)
Version == {Release[i] : i \in DOMAIN Release} \cup Dev

NoFile == [version |-> <<>>, id |-> -1, whole |-> FALSE, synced |-> FALSE]
Here(file) == file # NoFile
NoStamp == [kind |-> "none", at |-> 0]
Corrupt == [kind |-> "corrupt", at |-> 0]

Out == [at |-> "out", auto |-> FALSE, force |-> FALSE, target |-> 0,
        image |-> NoFile, run |-> 0, now |-> 0, pick |-> 0, archive |-> "none"]

Init ==
  /\ os \in {"unix", "windows"}
  /\ clock = 0
  /\ stamp \in {NoStamp, Corrupt, [kind |-> "time", at |-> 0], [kind |-> "time", at |-> MaxClock]}
  /\ \E v \in Version : exe = [version |-> v, id |-> 0, whole |-> TRUE, synced |-> TRUE]
  /\ backup = NoFile /\ temps = {}
  /\ proc = [p \in Process |-> Out]
  /\ starts = 0 /\ losses = 0

At(p, stage) == proc[p].at = stage
GoTo(p, stage) == proc' = [proc EXCEPT ![p].at = stage]
(* The session, or the end of the command. *)
Over(p) == proc' = [proc EXCEPT ![p] = [Out EXCEPT !.at = "runs", !.image = proc[p].image, !.run = proc[p].run]]

-----------------------------------------------------------------------------
(* Semantic versions, as the code compares them: -1, 0 or 1. *)

(* strconv.ParseUint, whose error is ignored, stops at the largest number. *)
Parsed(n) == IF n > MaxUint THEN MaxUint ELSE n

CompareIdentifiers(a, b) ==
  CASE a.numeric /\ b.numeric -> IF Parsed(a.value) < Parsed(b.value) THEN -1 ELSE 1
    [] a.numeric /\ ~b.numeric -> -1
    [] ~a.numeric /\ b.numeric -> 1
    [] ~a.numeric /\ ~b.numeric -> IF a.value < b.value THEN -1 ELSE 1

(* The first place below n at which f and g differ, n when there is none. *)
FirstDifference(f, g, n) ==
  LET D == {i \in 1..(n - 1) : f[i] # g[i]}
  IN IF D = {} THEN n ELSE CHOOSE i \in D : \A j \in D : i <= j

Sign(n) == IF n < 0 THEN -1 ELSE IF n > 0 THEN 1 ELSE 0

Shorter(a, b) == IF Len(a) <= Len(b) THEN Len(a) ELSE Len(b)

(* Mutant: a release comes before its prereleases, as any shorter list does.  *)
CompareByLength(left, right) ==
  LET k == FirstDifference(left.core, right.core, 4)
      i == FirstDifference(left.pre, right.pre, Shorter(left.pre, right.pre) + 1)
  IN CASE k < 4 -> Sign(left.core[k] - right.core[k])
       [] k = 4 /\ i <= Shorter(left.pre, right.pre) -> CompareIdentifiers(left.pre[i], right.pre[i])
       [] OTHER -> Sign(Len(left.pre) - Len(right.pre))

Compare(left, right) ==
  LET k == FirstDifference(left.core, right.core, 4)
      i == FirstDifference(left.pre, right.pre, Shorter(left.pre, right.pre) + 1)
  IN CASE k < 4 -> Sign(left.core[k] - right.core[k])
       [] k = 4 /\ (left.pre = <<>> \/ right.pre = <<>>) -> Sign(Len(right.pre) - Len(left.pre))
       [] k = 4 /\ left.pre # <<>> /\ right.pre # <<>> /\ i <= Shorter(left.pre, right.pre) ->
            CompareIdentifiers(left.pre[i], right.pre[i])
       [] OTHER -> Sign(Len(left.pre) - Len(right.pre))

-----------------------------------------------------------------------------
(* Processes. *)

Begin(p, how) ==
  /\ Here(exe) /\ starts < MaxStarts /\ starts' = starts + 1
  /\ proc' = [proc EXCEPT ![p] = [Out EXCEPT !.image = exe, !.run = starts + 1, !.auto = how.auto,
                                             !.force = how.force, !.target = how.target,
                                             !.at = IF how.auto THEN "start" ELSE "lookup"]]

(* A development build does not upgrade itself; the user may upgrade it.      *)
Start(p) ==
  /\ At(p, "out")
  /\ \E how \in [auto : {TRUE}, force : {FALSE}, target : {0}]
              \cup [auto : {FALSE}, force : BOOLEAN, target : 0..Len(Release)] :
       Begin(p, how)
  /\ UNCHANGED <<os, clock, stamp, exe, backup, temps, losses>>

Exit(p) ==
  /\ At(p, "runs")
  /\ proc' = [proc EXCEPT ![p] = Out]
  /\ UNCHANGED <<os, clock, stamp, exe, backup, temps, starts, losses>>

Die(p) ==
  /\ proc[p].at \notin {"out", "runs"}
  /\ proc' = [proc EXCEPT ![p] = Out]
  /\ UNCHANGED <<os, clock, stamp, exe, backup, temps, starts, losses>>

(* What was not synced may be lost, the executables among it. *)
Torn(file) == IF file.synced THEN {file} ELSE {file, [file EXCEPT !.whole = FALSE]}

PowerLoss ==
  /\ losses < MaxPowerLosses /\ losses' = losses + 1
  /\ proc' = [p \in Process |-> Out]
  /\ stamp' \in {stamp, Corrupt}
  /\ exe' \in (IF Here(exe) THEN Torn(exe) ELSE {NoFile})
  /\ backup' \in (IF Here(backup) THEN Torn(backup) ELSE {NoFile})
  /\ UNCHANGED <<os, clock, temps, starts>>

Tick ==
  /\ clock < MaxClock /\ clock' = clock + 1
  /\ UNCHANGED <<os, stamp, exe, backup, temps, proc, starts, losses>>

-----------------------------------------------------------------------------
(* Automatic. *)

(* The time is read once, before the stamp is written; one in the future is   *)
(* not believed, nor one that does not parse.                                 *)
Due == stamp.kind # "time" \/ stamp.at > clock \/ clock - stamp.at >= Interval

IsDevelopmentVersion(v) == ~v.semver \/ v \in Dev

Automatic(p) ==
  /\ At(p, "start")
  /\ \/ Over(p)       \* nothing is due, a development build, or an unreadable file
     \/ /\ ~IsDevelopmentVersion(proc[p].image.version) /\ Due
        /\ proc' = [proc EXCEPT ![p].at = "stamp", ![p].now = clock]
  /\ UNCHANGED <<os, clock, stamp, exe, backup, temps, starts, losses>>

Record(p) == stamp' = [kind |-> "time", at |-> proc[p].now] /\ GoTo(p, "lookup")

(* A rename that fails is tried again without the older file. *)
WriteStamp(p) ==
  /\ At(p, "stamp")
  /\ \/ Record(p)
     \/ stamp' = NoStamp /\ GoTo(p, "restamp")
     \/ UNCHANGED stamp /\ Over(p)
  /\ UNCHANGED <<os, clock, exe, backup, temps, starts, losses>>

RetryStamp(p) ==
  /\ At(p, "restamp")
  /\ Record(p) \/ (UNCHANGED stamp /\ Over(p))
  /\ UNCHANGED <<os, clock, exe, backup, temps, starts, losses>>

-----------------------------------------------------------------------------
(* Run. *)

(* Whether the release is one to install: newer, or asked for by force; a     *)
(* version that does not parse is older than every release.                   *)
Wanted(p, i) ==
  \/ proc[p].force
  \/ ~proc[p].image.version.semver
  \/ Compare(proc[p].image.version, Release[i]) < 0

(* The latest release is one without identifiers, which of them the service   *)
(* says; a check only, drafts, missing assets, platforms without builds and   *)
(* every error of the service end the upgrade here.                           *)
Lookup(p) ==
  /\ At(p, "lookup")
  /\ \/ Over(p)
     \/ \E i \in DOMAIN Release :
          /\ IF proc[p].target = 0 THEN Release[i].pre = <<>> ELSE i = proc[p].target
          /\ Wanted(p, i)
          /\ proc' = [proc EXCEPT ![p].at = "download", ![p].pick = i, ![p].target = 0]
  /\ UNCHANGED <<os, clock, stamp, exe, backup, temps, starts, losses>>

(* Mutant: the checksum is not compared.                                      *)
AnyArchive(p) ==
  /\ At(p, "download")
  /\ \/ Over(p)
     \/ \E archive \in {"whole", "cut"} :
          proc' = [proc EXCEPT ![p].at = "create", ![p].archive = archive]
  /\ UNCHANGED <<os, clock, stamp, exe, backup, temps, starts, losses>>

(* The archive that arrives is the published one, or one cut short, which does *)
(* not have the checksum of the release.                                      *)
Download(p) ==
  /\ At(p, "download")
  /\ \E archive \in {"whole", "cut"} :
       IF archive = "whole"
       THEN proc' = [proc EXCEPT ![p].at = "create", ![p].archive = archive]
       ELSE Over(p)
  /\ UNCHANGED <<os, clock, stamp, exe, backup, temps, starts, losses>>

-----------------------------------------------------------------------------
(* replaceExecutable. *)

Temp(p) == CHOOSE f \in temps : f.id = proc[p].run
CleanUp(p) == temps' = {f \in temps : f.id # proc[p].run} /\ Over(p)

Create(p) ==
  /\ At(p, "create")
  /\ \/ Over(p) /\ UNCHANGED temps
     \/ /\ Here(exe)
        /\ temps' = temps \cup {[version |-> Release[proc[p].pick], id |-> proc[p].run,
                                 whole |-> FALSE, synced |-> FALSE]}
        /\ GoTo(p, "write")
  /\ UNCHANGED <<os, clock, stamp, exe, backup, starts, losses>>

Becomes(p, file, stage) ==
  /\ temps' = (temps \ {Temp(p)}) \cup {file}
  /\ GoTo(p, stage)

Write(p) ==
  /\ At(p, "write")
  /\ \/ CleanUp(p)
     \/ Becomes(p, [Temp(p) EXCEPT !.whole = (proc[p].archive = "whole")], "sync")
  /\ UNCHANGED <<os, clock, stamp, exe, backup, starts, losses>>

Sync(p) ==
  /\ At(p, "sync")
  /\ CleanUp(p) \/ Becomes(p, [Temp(p) EXCEPT !.synced = TRUE], IF os = "unix" THEN "replace" ELSE "clear")
  /\ UNCHANGED <<os, clock, stamp, exe, backup, starts, losses>>

Taken(p) == temps' = temps \ {Temp(p)} /\ GoTo(p, "updated")

Replace(p) ==
  /\ At(p, "replace")
  /\ \/ CleanUp(p) /\ UNCHANGED exe
     \/ exe' = Temp(p) /\ Taken(p)
  /\ UNCHANGED <<os, clock, stamp, backup, starts, losses>>

(* Windows neither removes nor replaces a file that a process runs from, but  *)
(* renames it.                                                                *)
Busy(file) == \E p \in Process : proc[p].at # "out" /\ proc[p].image.id = file.id

(* Errors of this removal and of the last one are ignored. *)
ClearBackup(p) ==
  /\ At(p, "clear")
  /\ \/ UNCHANGED backup
     \/ Here(backup) /\ ~Busy(backup) /\ backup' = NoFile
  /\ GoTo(p, "aside")
  /\ UNCHANGED <<os, clock, stamp, exe, temps, starts, losses>>

MoveAside(p) ==
  /\ At(p, "aside")
  /\ \/ CleanUp(p) /\ UNCHANGED <<exe, backup>>
     \/ /\ Here(exe) /\ ~Busy(backup)
        /\ backup' = exe /\ exe' = NoFile
        /\ GoTo(p, "in") /\ UNCHANGED temps
  /\ UNCHANGED <<os, clock, stamp, starts, losses>>

MoveIn(p) ==
  /\ At(p, "in")
  /\ \/ ~Busy(exe) /\ exe' = Temp(p) /\ temps' = temps \ {Temp(p)} /\ GoTo(p, "drop")
     \/ UNCHANGED <<exe, temps>> /\ GoTo(p, "undo")
  /\ UNCHANGED <<os, clock, stamp, backup, starts, losses>>

Undo(p) ==
  /\ At(p, "undo")
  /\ CleanUp(p)
  /\ \/ UNCHANGED <<exe, backup>>
     \/ Here(backup) /\ ~Busy(exe) /\ exe' = backup /\ backup' = NoFile
  /\ UNCHANGED <<os, clock, stamp, starts, losses>>

DropBackup(p) ==
  /\ At(p, "drop")
  /\ UNCHANGED backup \/ (Here(backup) /\ ~Busy(backup) /\ backup' = NoFile)
  /\ GoTo(p, "updated")
  /\ UNCHANGED <<os, clock, stamp, exe, temps, starts, losses>>

(* After an automatic upgrade the process becomes the new executable, which   *)
(* looks at the stamp again; without one it runs on.                          *)
Relaunch(p) ==
  /\ At(p, "updated")
  /\ \/ ~proc[p].auto /\ Over(p) /\ UNCHANGED starts
     \/ proc[p].auto /\ Over(p) /\ UNCHANGED starts
     \/ proc[p].auto /\ Begin(p, [auto |-> TRUE, force |-> FALSE, target |-> 0])
  /\ UNCHANGED <<os, clock, stamp, exe, backup, temps, losses>>

Next ==
  \/ PowerLoss \/ Tick
  \/ \E p \in Process :
       \/ Start(p) \/ Exit(p) \/ Die(p) \/ Automatic(p) \/ WriteStamp(p) \/ RetryStamp(p)
       \/ Lookup(p) \/ Download(p) \/ Create(p) \/ Write(p) \/ Sync(p) \/ Replace(p)
       \/ ClearBackup(p) \/ MoveAside(p) \/ MoveIn(p) \/ Undo(p) \/ DropBackup(p) \/ Relaunch(p)

Spec == Init /\ [][Next]_vars

-----------------------------------------------------------------------------
\* The file system of one system, a stamp of a time that has been, and releases that exist.
TypeOK ==
  /\ os \in {"unix", "windows"} /\ clock \in 0..MaxClock
  /\ stamp.kind \in {"none", "corrupt", "time"} /\ stamp.at \in 0..MaxClock
  /\ \A p \in Process : proc[p].pick \in 0..Len(Release)

(* The installed executable is always a whole verified binary, whoever dies   *)
(* and whatever is lost with the power; where it has to be moved aside, one   *)
(* of the two names holds it.                                                 *)
Runnable ==
  /\ Here(exe) => exe.whole
  /\ Here(exe) \/ (os = "windows" /\ Here(backup) /\ backup.whole)

(* A process that was not told to use force installs only what is later than  *)
(* what it runs, in the order of the releases.                                *)
Later ==
  \A p \in Process :
    /\ proc[p].pick # 0 /\ ~proc[p].force /\ proc[p].image.version \notin Dev
    => \E i \in DOMAIN Release : Release[i] = proc[p].image.version /\ i < proc[p].pick

(* A process that is done with an upgrade, however it ended, leaves no        *)
(* temporary file.                                                            *)
Swept == \A p \in Process : proc[p].at \in {"runs", "updated"} => \A f \in temps : f.id # proc[p].run

UpgradeSafe == TypeOK /\ Runnable /\ Later /\ Swept

(* What a process installs is later than what is installed: another process   *)
(* may have installed something since it looked.                              *)
NeverBack ==
  [][\A i, j \in DOMAIN Release :
       Here(exe) /\ Here(exe') /\ exe.version = Release[i] /\ exe'.version = Release[j] => i <= j]_vars
=============================================================================
