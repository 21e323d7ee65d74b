------------------------------ MODULE Command ------------------------------
(* Commands of the bash tool and of extensions: RunCommand and Run of         *)
(* internal/process/process.go over os/exec.  The shell may leave a child     *)
(* behind that holds its output open, in the group of the shell or not.       *)
EXTENDS Integers

CONSTANTS
  Limit,     \* OutputLimit, in pieces of output
  PipeSize,  \* pieces that a pipe holds
  MaxOutput  \* bound on the pieces a command writes

VARIABLES
  ctx,      \* the context, a timeout included: "live" or "done"
  shell,    \* "none", "running", "exited" (with status 0), "failed" or "killed"
  reaped,   \* Wait has the status of the shell
  child,    \* "none", "running" or "over"
  grouped,  \* the child is in the group of the shell, and dies with it
  holds,    \* the child holds the output open
  pipe,     \* pieces in the pipe
  written,  \* pieces that have been written
  kept,     \* pieces in the buffer
  cut,      \* truncated
  waiting,  \* cmd.Wait: "no", "shell", "output" or "over", and then its error
  error,    \* what cmd.Wait returned: "none", "status" or "delay"
  inTime,   \* the context ended while Wait waited, in time for a goroutine to run
  watcher,  \* the goroutine of RunCommand: "none", "waiting" or "over"
  caller,   \* "bash" or "run", the tool or the command of an extension
  result    \* what the caller gets: "none", "ok", "failed" or "canceled"

process == <<shell, child, grouped, holds>>
output == <<pipe, written, kept, cut>>
wait == <<reaped, waiting, error, watcher>>
request == <<ctx, inTime, caller, result>>

vars == <<process, output, wait, request>>

-----------------------------------------------------------------------------
(* The command. *)

Holders == shell = "running" \/ (child = "running" /\ holds)

Writes ==
  /\ Holders /\ waiting # "over" /\ pipe < PipeSize /\ written < MaxOutput
  /\ pipe' = pipe + 1 /\ written' = written + 1
  /\ UNCHANGED <<process, wait, request, kept, cut>>

Spawns ==
  /\ shell = "running" /\ child = "none" /\ child' = "running"
  /\ grouped' \in BOOLEAN /\ holds' \in BOOLEAN
  /\ UNCHANGED <<output, wait, request, shell>>

ShellExits ==
  /\ shell = "running" /\ shell' \in {"exited", "failed"}
  /\ UNCHANGED <<output, wait, request, child, grouped, holds>>

ChildExits ==
  /\ child = "running" /\ child' = "over"
  /\ UNCHANGED <<output, wait, request, shell, grouped, holds>>

(* Mutant: a cancellation kills the shell only.                                *)
KillShell ==
  /\ shell' = IF shell = "running" THEN "killed" ELSE shell
  /\ UNCHANGED child

(* cmd.Cancel: SIGKILL to the group.                                          *)
KillGroup ==
  /\ shell' = IF shell = "running" THEN "killed" ELSE shell
  /\ child' = IF child = "running" /\ grouped THEN "over" ELSE child

-----------------------------------------------------------------------------
(* The host. *)

Init ==
  /\ ctx = "live" /\ shell = "none" /\ reaped = FALSE /\ child = "none" /\ grouped = FALSE /\ holds = FALSE
  /\ pipe = 0 /\ written = 0 /\ kept = 0 /\ cut = FALSE /\ waiting = "no" /\ error = "none"
  /\ inTime = FALSE /\ watcher = "none" /\ caller \in {"bash", "run"} /\ result = "none"

(* In the last instant, or before it.                                         *)
ContextEnds ==
  /\ ctx = "live" /\ ctx' = "done"
  /\ inTime' \in {FALSE, (waiting \in {"shell", "output"})}
  /\ UNCHANGED <<process, output, wait, caller, result>>

(* A context that has ended starts nothing; else the goroutine starts with    *)
(* the process, unless that cannot be started.                                *)
Start ==
  /\ waiting = "no" /\ result = "none"
  /\ \/ ctx = "done" /\ result' = "canceled" /\ UNCHANGED <<shell, waiting, watcher>>
     \/ ctx = "live" /\ result' = "failed" /\ UNCHANGED <<shell, waiting, watcher>>
     \/ ctx = "live" /\ shell' = "running" /\ waiting' = "shell" /\ watcher' = "waiting" /\ UNCHANGED result
  /\ UNCHANGED <<output, ctx, reaped, child, grouped, holds, error, inTime, caller>>

(* cappedBuffer.Write: what is beyond the limit is drained and forgotten.     *)
Drain ==
  /\ pipe > 0 /\ waiting \in {"shell", "output"} /\ pipe' = pipe - 1
  /\ IF kept < Limit THEN kept' = kept + 1 /\ UNCHANGED cut ELSE cut' = TRUE /\ UNCHANGED kept
  /\ UNCHANGED <<process, wait, request, written>>

(* os/exec watches the context itself until the shell has been reaped.        *)
ExecKills ==
  /\ ctx = "done" /\ waiting = "shell" /\ shell = "running" /\ KillGroup
  /\ UNCHANGED <<output, wait, request, grouped, holds>>

Reap ==
  /\ waiting = "shell" /\ shell # "running" /\ reaped' = TRUE /\ waiting' = "output"
  /\ error' = IF shell = "exited" THEN "none" ELSE "status"
  /\ UNCHANGED <<process, output, request, watcher>>

WatcherKills ==
  /\ ctx = "done" /\ watcher = "waiting" /\ KillGroup /\ watcher' = "over"
  /\ UNCHANGED <<output, request, reaped, grouped, holds, waiting, error>>

(* Wait returns when the output has ended, or WaitDelay after the shell did,  *)
(* and then closes it: within that second the goroutine has run.              *)
OutputEnds ==
  /\ waiting = "output" /\ ~Holders /\ pipe = 0 /\ waiting' = "over"
  /\ UNCHANGED <<process, output, request, reaped, error, watcher>>

DelayIsOver ==
  /\ waiting = "output" /\ (Holders \/ pipe > 0) /\ (inTime => watcher = "over")
  /\ waiting' = "over" /\ error' = IF error = "none" THEN "delay" ELSE error
  /\ UNCHANGED <<process, output, request, reaped, watcher>>

(* close(finished): the goroutine ends, and RunCommand waits for it.          *)
WatcherEnds ==
  /\ waiting = "over" /\ watcher = "waiting" /\ watcher' = "over"
  /\ UNCHANGED <<process, output, request, reaped, waiting, error>>

(* The tool looks at the context first, Run at the error.                     *)
Return ==
  /\ waiting = "over" /\ watcher = "over" /\ result = "none"
  /\ result' = IF ctx = "done" /\ (caller = "bash" \/ error # "none") THEN "canceled"
               ELSE IF error = "none" THEN "ok" ELSE "failed"
  /\ UNCHANGED <<process, output, wait, ctx, inTime, caller>>

Next ==
  \/ Writes \/ Spawns \/ ShellExits \/ ChildExits \/ ContextEnds \/ Start \/ Drain \/ ExecKills
  \/ Reap \/ WatcherKills \/ OutputEnds \/ DelayIsOver \/ WatcherEnds \/ Return

Spec == Init /\ [][Next]_vars

-----------------------------------------------------------------------------
(* Output stays within the pipe and the limit (process.go: cappedBuffer).      *)
TypeOK == pipe \in 0..PipeSize /\ kept \in 0..Limit /\ (reaped => shell # "running")

(* A command that is reported as successful has exited so, nobody writes to   *)
(* its output any more, and all of that was kept up to the limit or is said    *)
(* to be missing (process.go: Run, Result.Truncated).                         *)
SuccessIsWhole ==
  result = "ok" => /\ shell = "exited" /\ ~Holders /\ pipe = 0
                   /\ kept = (IF written > Limit THEN Limit ELSE written) /\ cut = (written > Limit)

(* A cancellation reaches the group although the shell itself has exited and  *)
(* only a descendant holds the output open (process.go, comment of            *)
(* RunCommand).                                                               *)
CancelReachesGroup ==
  inTime /\ waiting = "over" => shell # "running" /\ ~(child = "running" /\ grouped /\ holds)

CommandSafe == TypeOK /\ SuccessIsWhole /\ CancelReachesGroup
=============================================================================
