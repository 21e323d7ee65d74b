# A TLA+ model of notch

This directory holds TLA+ specifications of notch (a coding agent for the
terminal, written in Go), the TLC configurations that check them on small
instances, and TLAPS proofs about them.  Every definition is translated from the
source; `PROJECT.json` (its `map`) names the lines each one stands for.

To run: `tlc -config SessionLogOne.cfg SessionLog.tla`, and the same for the
other configurations (section 3 names the module of each); `tlapm
SessionLogProofs.tla`, and the same for the other modules whose names end in
`Proofs`, for the proofs (section 4).

## 1. The system

One notch process runs one agent.  A *front end* (terminal, RPC over stdio, or a
one-shot print) hands prompts to the *agent*, which sends requests to a
*provider*, executes *tools*, and appends everything to the *session log*.
*Extensions* contribute tools, commands and hooks; they are compiled in
("official": goal, monitor, subagent, team, intercom, ...), Lua scripts, MCP
servers, or separate processes.  Several notch processes share the files below
the configuration and data directories.

| component | state | operations | talks to | hard behaviour |
|---|---|---|---|---|
| session log (`internal/session`) | a JSONL file; size, replayed messages, entries, usage of a handle | create, load with tail recovery, append with rollback, compaction, reset, list | agent, front ends, other processes (no file lock) | torn writes, failing syncs and rollbacks, crash at any point, two handles on one file |
| agent loop (`internal/agent`) | messages, model, pending switch, turn and retry counters | prompt, compact, reset, resume, switch provider | session, provider, tools, hooks, front end (events) | concurrent tools, retries, append failures between an answer and its results, crashes, termination |
| agent queues (`internal/agent`) | steering and follow-up queues, `processing` | steer, follow up, settle | front ends, extensions, agent loop | senders race the end of a prompt; events emitted after the unlock |
| terminal front end (`internal/tui/app.go`, `input.go`, `editor.go`) | channel of 128 events, what is believed to run, retained follow-ups; the transcript and indexes into it; questions; the composer, its history and menu; bytes not yet parsed | key strokes, commands, prompts, follow-ups, session changes, questions of extensions | agent, extensions, terminal | the loop posts to the channel only it reads; follow-ups against ends of prompts and session changes; entries remembered by number while others are removed; keys split over reads |
| RPC front end (`internal/rpc`) | running prompt, exclusive command, open input requests | prompt, steer, cancel, commands, answers | agent, extensions, client | follow-ups during settling, cancel against answer |
| extension processes (`internal/extension/plugin.go`, `plugin/`) | pending calls, cancelled calls, requests of the plugin, process, lease in the registry | call, cancel, host request, register, stop | registry, agent, host | responses crossing cancellations, death during registration, pipes that fill |
| extension registry (`internal/extension/types.go`) | tools, commands, hooks, their owners, revealed tools | register a batch, close a registration, run hooks | all extensions, agent | ownership when registrations replace one another |
| Lua extensions (`internal/luaext`) | Lua states, calls in flight | load, close, call | registry | closing against calls in flight |
| extension packages (`internal/extpkg`) | `packages/`, `packages.json`, a lock file | install, sync, update, remove, list, recover | file system, other processes | death between any two renames and saves, stale lock takeover |
| MCP (`internal/mcp`) | connections, pending requests, registered tools | connect, call, close | servers, registry | failing connection against registration of a call, partial failure of startup |
| MCP OAuth and provider credentials (`internal/mcpoauth`, `providerauth`, `credentials`, `oauth`) | credential files, rotating refresh tokens | login, logout, refresh | authorization servers, other processes | concurrent refresh of a one-use token, lost updates of a shared file |
| intercom (`officialext/intercom`) | endpoints, inbox records, dedup tables, pending replies | send, ask, receive, reply, opt in and out | other notch processes over sockets, session log, front end | lost acknowledgements and retries, crash between persist and wake, session switch during delivery |
| goal (`officialext/goal`) | the goal, what is persisted of it, its limits | start, pause, resume, clear, complete, continue a run | agent, session entries, front end | commands and session changes against a run in progress, failing appends |
| monitor (`officialext/monitor`) | monitored commands, their records | start, match, exit, stop, shutdown | processes, hooks, agent | exit against stop against shutdown |
| subagent, team, explore (`officialext`, `internal/delegation`) | a child process with its stream and timers; a batch with a shared budget and worktrees | run, clarify, retry, audit, report | processes, git, agent | timers against results, descendants that keep pipes open, what is left of a budget |
| upgrade (`internal/upgrade`) | the executable, its backup, temporary files, the time of the last check | check, compare, download, replace | network, file system, other processes | death between renames, a file in use, versions out of order |
| herdr (`internal/herdr`) | the state of the agent, a queue of one report | hooks, questions, report, release | the pane's command | reports that replace one another, the release last |
| pricing, model registry (`internal/pricing`, `internal/modelregistry`) | a snapshot and its file; lists of models and their file | refresh, estimate, discover, list | network, file system, other processes | callers at once, failing fetches and saves |
| tools, process (`internal/tools`, `internal/process`) | — | read, write, edit, run a command | file system, processes | calls of one answer on one file, paging, descendants that hold the output, cancellation |
| providers (`internal/provider`) | a stream being assembled; a claude process with its hooks and calls | stream | network, processes, agent loop | redundant and truncated events; results against calls of a process that runs on |
| configuration, resources, workspace, presentation, command line | — | — | file system, terminal | functions of their input, or wiring |

What makes them correct, in short: a session never loses an acknowledged record
and always loads; the transcript sent to a provider is always valid and no tool
is executed twice; accepted messages are delivered once, in order, in the right
session, and do not wait in an idle agent; a front end stays responsive; a call
of an extension has exactly one outcome and nothing of a dead extension stays
registered; installed packages are what the state file says after any crash;
shared credentials are not lost; the executable runs whatever dies while it is
replaced; a command that succeeded has all its output.  `PROJECT.json` lists each
hazard at its line (`hazards`) with the properties that cover it.

## 2. Modules

| module | models | instance of / composed with |
|---|---|---|
| `DurableLog` | what a session file promises: an append-only log of acknowledged records | abstract specification |
| `SessionLog` | one session file, its handles, crashes | implements `DurableLog` (`IsDurableLog`, refinement `log <- Recovered(file)`) |
| `AgentLoop` | one prompt from its first append to its final answer | a session is its durable records, which `SessionLog` justifies |
| `AgentQueue` | steering and follow-up queues against senders | the prompt between two looks at the queues is `AgentLoop` |
| `Rpc` | the RPC server: runs, exclusive commands, wakes, questions, shutdown | the agent's queue is `AgentQueue`, its prompt `AgentLoop` |
| `TuiLoop` | the terminal event loop with its channel and the agent's goroutine | the order of the queue is `AgentQueue` |
| `TuiScreen` | the transcript, the indexes into it, and the questions of extensions | the events of a prompt come as `AgentLoop` emits them, over the channel of `TuiLoop` |
| `TermInput`, `Composer` | the bytes of keys; the text, its history and the menu of commands | the keys of one are what the other is given |
| `PluginCalls` | notch and one extension process, both ends of the pipes | — |
| `Extensions` | the registry and its owners: built-ins, Lua files, MCP connections, over start, run, reload and stop | a call of an owner is one of `PluginCalls` or `Mcp` |
| `Mcp` | an MCP client over stdio, and the retry over HTTP | — |
| `PackageStore` | extension packages on disk, several processes | — |
| `Credentials` | the shared OAuth credentials, goroutines of several processes | — |
| `Intercom` | messages between the sessions of several processes | a session is what `SessionLog` keeps, a wake-up a follow-up of `TuiLoop`; `MCIntercom` gives it two processes |
| `Goal` | a goal, the runs it continues and the commands of the user | the follow-up it queues is one of `AgentQueue` |
| `Monitor` | monitored commands | its wake is a follow-up of `TuiLoop` and `Rpc` |
| `Subagent` | one helper process | — |
| `Helpers` | a batch of helpers with a shared budget, and an exploration | a helper is one call of `Subagent` |
| `Streams` | conversations in the form of three services, and their streamed answers | the answer is that of `AgentLoop` |
| `ClaudeTurn` | the claude process and the turns of a prompt that use it | the tools are those of `AgentLoop` |
| `Upgrade`, `Herdr`, `Prices`, `ModelCache` | the executable; the reported state; the prices; the lists of models | — |
| `FileEdits`, `ReadPages`, `Command` | edits of one file at once; reading on at the told offset; one command | the calls of one answer run as in `AgentLoop` |
| `MCAgents`, `MCAgentsEnd`, `MCCallsEnd`, `MCServices` | parts that share no state, checked in one run | see below |
| `SessionLogProofs`, `IntercomProofs` | proofs, each about the module it is named after | extends that module |
| `AgentProofs` | proofs about the agent, its queue and its RPC front end | extends `AgentLoop`, instances of `AgentQueue`, `Rpc` |
| `ServiceProofs` | proofs about what surrounds the agent | instances of `Credentials`, `Goal`, `Monitor`, `Herdr`, `Upgrade`, `Prices`, `ModelCache` |
| `ProcessProofs` | proofs about the processes that notch runs | instances of `Mcp`, `Subagent`, `ClaudeTurn`, `PluginCalls` |
| `ToolProofs` | proofs about what works for the agent | instances of `PackageStore`, `Helpers`, `FileEdits`, `ReadPages`, `Command`, `Extensions` |
| `MCAgentsProofs`, `MCServicesProofs` | what is proved of a component, for the part of `MCAgents` or `MCServices` that runs it | extends that module; instances of `ServiceProofs`, `ToolProofs` |

The four `MC` modules of the last row are *sums*: each instantiates several of the
modules above with small constants over the variables `s1`, `s2`, ..., and the
variable `part`, which no step changes, says whose behaviour it is.  Every behaviour
is of one part, so a property has the form `part = "goal" => Goals!GoalSafe`, and
the run checks just what a run for each part would.  In `MCAgents` a part with proofs
is an instance of a proof module (`Agents`, `Prompts`, `Processes`), whose theorems
`MCAgentsProofs` cites.  `MCServices` instantiates the components themselves, which TLC
evaluates faster; `MCServicesProofs` gives `ServiceProofs` and `ToolProofs` the same
parameters and shows that the definitions mean the same (`SameGoals` and the like).

### SessionLog and DurableLog

The file is a sequence of fragments, one per write, each with the part of its
line that got there; `disk` is the set of contents a power loss may leave, which
a successful sync reduces to the current content.  `Create*`, `Append*`,
`Rollback*`, `Load*` and `Close` are the steps of `Create`, `appendLine`,
`rollbackAppend`, `Load`/`readRecoverableSession` and `Close`; every write, sync
and truncation may fail, a write after any prefix.  `Kill` ends the process of a
handle, `PowerLoss` all of them and picks a content of `disk`.  `Decode` folds
`DecodeRecord` over the lines as `Load` does and ends with `Repair`, which is
`RepairToolCallResults`: an answer with an invalid call and no results gets made-up
ones, at the front of the next message if that is the user's, else in a message of their
own.  They are kept in the field `made` of the message they are next to, so that a
made-up message does not shift the numbers of the others; a compaction writes them
(`AsWritten`).  Messages come in the orders in which the agent appends them (`MayFollow`).  `LightCount` is the separate code of `List`, which repairs nothing.
Memory therefore is what a load yields *up to what loads make up*
(`Unrepaired`), and that is what `ReadersAgree` says, beside that a load leaves no
such answer without results, and that `List` counts the rest.

### AgentLoop

`at` is the place of the goroutine that holds `Agent.mu`; `run` its locals.  One
action per step between two calls to the outside: an append to the session (each
with its `...Fails`), the request and its deltas, retries, tools (`ToolRuns`,
`ToolReturns`, one per call, concurrently), `ApplySwitch`, `AutoCompact`,
`TurnBoundary`, `Settle`, `EndRun`, and the operations that start from idle.
`Crash` and `Start` kill and restart the process at any point.  Abstracted:
texts and token counts (any decision that depends on them may go either way),
the usage and `model_change` records (appended, may fail, not kept in the log),
the identity of answers older than the latest (`ran` keeps the latest one's
calls).  `Replay` is a recursive function over the records of a
session, as a load folds them; `Load` is `Replay` and then `Repair`, the
`RepairToolCallResults` of a start and of a `ResumeSession`.  A call of an answer may be
`invalid` (its arguments are no JSON); its tool never runs.  `Context` is what a
request sends: `contextMessages` gives interrupted calls their results (`Missing`),
and the same repair follows.  As in `SessionLog`, results that were made up are in the field
`made` of the message they are next to.  They are in memory only until a compaction
writes them, so `MemoryIsDurable` compares memory with a load up to them, and says
that the load itself needs no further repair; `RequestIsValid` is about all of them.

### AgentQueue

Every step of `Steer`/`FollowUp` and of the prompt's looks at the queues that
`queueMu` separates is an action; a queue event is a snapshot taken under the
lock and emitted later, which is where `PendingIsQueue` fails (no run checks it,
see section 5).

### TuiLoop

`events` is the channel, `loop` what the event loop does, `ui` the flags that
say what runs, `run` the prompt's goroutine, `jobs` those of commands and
session loads, `wake` the follow-ups and where each one is.  A post by the loop
itself that finds the channel full leaves `loop = "posting"`.  `Handoff` is left
out (it has no caller outside the tests), and so are the dialogs over sessions.

### TuiScreen

`screen` is the part of `appState` that numbers entries: the transcript and the
indexes `assistant`, `thinking`, `tools` into it.  The agent's goroutine emits the
events of a prompt in the order agent.go does; the loop gathers deltas as `Run`
does and handles each event as `handleAgentEvent`.  A question is a goroutine
(`asker`), an event in `mail`, then the one shown or one behind it.  A notice, a
cancelled prompt, a `/resume` and the exit come at any time.  `agent.lossy` notes
that an event was dropped by a post that raced a cancellation.

### TermInput and Composer

`TermInput` is the parser of `Feed` with everything it decodes (control bytes, CSI
and SS3 keys, the Kitty and modifyOtherKeys protocols, three mouse encodings,
paste), byte by byte; the terminal's bytes are cut at any place, and the timer of
`readInput` may fire while something is incomplete.  A rune has one or two bytes.
`Composer` is the editor with its history and vertical movement over wide runes, the
menu that `refreshCommandCompletion` keeps, and the keys that act on either.

### Rpc

The reader of stdin, the goroutine of each run and of each exclusive command, and
the questions of extensions, with a step per critical section of `Server.mu`.
`pending` are the wakes that wait for a run or command to end.  Commands that only
read a state are left out; what the client reads is `sent`.

### PluginCalls

Host: `call`, `outcome`, `ch`, `pending`, `canceled`, `stopErr` are the fields of
`Plugin` and the local state of `call`; `fin` is the progress of `finish`, which
is one step under `p.mu` and several after it; `reader` is `readLoop`, with the
send to the channel of one slot as a step of its own.  Plugin: `handler`,
`requests`, `hostCall`, `sdkPending` are those of the Go library.  The pipes hold
`PipeSize` messages and block writers.  A plugin that does not keep to the library
writes any response at any time (`RogueWrites`, counted by `rogue`; the properties
that hold only for the library say `rogue = 0`).  `tool.update` notifications, the discovery of manifests
and what the host methods do are left out.  Contexts of calls other than
`initialize` may be cancelled at any time.

### Extensions and Mcp

A method of the registry holds its mutex and is one operator; calls run between
them.  `stage` follows `main.run`: built-ins, Lua files in order, MCP connections,
the policy of the options, the program, then the closing in its order.  A reload by
`/mcp login` and the loss of a server happen while calls run; a lease keeps a Lua
state open for the call that has it.  `Mcp` has the reader, the goroutine of
`cmd.Wait`, `close` and any number of calls of a stdio client at the grain of its
three mutexes, a server that answers, hangs or exits, perhaps leaving a descendant
with its pipes, and the one retry of an HTTP call whose session has expired.

### Goal

The fields of `state`, the entries of two sessions, the `session_change` hook with
the gap between reading an entry and taking it over, commands of the user, and the
hooks `before_turn`, `turn_end` and `agent_end` around each run.  `slipped` notes the
two races of section 5, after which `ActiveIsWorkedOn` and `GoalSafe` promise less.

### Monitor, Subagent, Helpers

`Monitor`: the tool that starts a monitor, its `watch` goroutine, `stop_monitor`
and the shutdown, with `state.mu` free while a process is cancelled, a hook runs
or the agent is woken.  `Cancel` kills the process it started and no other (no process
group), and `cmd.Wait` returns only when nobody has the output any more (no `WaitDelay`):
`open` says that somebody has, and `LetGo` is the last descendant, or the process
itself, letting go of it.  `Subagent`: one call of `processRunner.Run` with the child,
its stream (`pipe`), the idle and the overall timer, terminate and kill of the
process group, and descendants that leave it.  `Helpers`: the batch of
`coordinate_helpers` with validation of worktrees, turn and cost limits, one
clarification, the audit of writers against a lead branch that others move; and
the cheaper `explore_codebase`.

### Streams and ClaudeTurn

`Streams` puts a conversation into the form of the Responses API, of Anthropic and
of OpenRouter, renews a token once after a 401, and assembles an answer from what
the server streams: each piece may be told, repeated or left out, and the stream
may stop at any point.  `ClaudeTurn` is a `claude` process that outlives a request:
its hooks, its calls over MCP, the turns of its answer, the results it is given.
Assumption: the process issues calls in the order of its hooks.

### Upgrade, Herdr, Prices, ModelCache

`Upgrade`: processes that start, look up a release at most once a day, compare
versions as `semver.go` does, download, and replace the executable with the steps
of Unix or Windows, where a file in use cannot be replaced; they may die, and the
power fail, at any step.  `Herdr`: the fields of the reporter, its queue of one, the
worker, `Close`.  `Prices`: refreshes at once under `refreshMu`, estimates
meanwhile, restarts.  `ModelCache`: programs that share the cache file, with
discoveries that end in any order.

### FileEdits, ReadPages, Command

`FileEdits`: calls on one file at the grain of the operating system, where
`os.WriteFile` empties, then writes.  `crossed` are the calls that another one came
between; the properties are about the others, and `done` is what those that succeeded,
taken one after another, make of the file.  `ReadPages`: a file of any few lines,
and a model that reads on where each result says.  `Command`: the shell, a
descendant in its group or not, the output with its limit, `cmd.Wait` with
`WaitDelay`, and the watcher of `RunCommand`.  Unix only.  Assumption: the watcher
runs within `WaitDelay`.

### PackageStore

Directory entries are sequences (`<<a>>`, `<<a, "backup">>`), contents are
versions; every rename, save and removal is a step, may fail, and the process
may die before or after it.  A removal of a directory that is cut short leaves a
part.  A clean-up, an undo or a recovery may fail with nothing or a part removed
(`CleanUpFails`): the operation returns an error and leaves its `.backup` or `.remove`
behind (store.go:210, 269), which the field `left` records for `ConsistentReturn` and the next
recovery deals with.  The lock file is created and written in two steps, read and removed in
two.  Fetching and verifying a package is one step with any result.  Not
modelled: power loss (renames that are not synced), the age of a lock whose owner
cannot be determined.

### Credentials

`file` holds the entries of both credential files, each the number of a token;
`live` are the refresh tokens the servers would accept, of which each can be used
once.  A worker is a goroutine with a request (`Authorizer.Token` or `resolve`,
then the request itself and one retry after a 401), a login or a logout.  Where a
lock is held is the range of steps at which a worker holds it: `Authorizer.mu`
(one for the MCP servers of a process; one for each `Authorizer` of a provider, and
`main.go:1345` makes a new one whenever it builds a provider, so a worker goes
`via` one of several, `Made`), the lock of the MCP file, and
`Store.mu` from reading a file to replacing it.  `Rotate` is the server.
`crossed` records that a process has replaced a file another one had read and
was about to replace, or migrated an entry that was being logged out.  Not
modelled: scopes, URLs, the dialog of a login, tokens without a refresh token.

### Intercom

`outbound`, `inbound` and `config` are the entries in the session files; a message
is its position in `outbound`.  In a process, `op` is the operation that holds
`settingsMu` (a send, reply or retry, a change of settings, the start of a
session), `conn` the goroutines that serve connections, with a step for each
critical section of `receive` and for each call to the front end; `active` is the
session of the front end, `change` the one it has not told the service yet.  A
cancelled context (`canceled`) is looked at where the code does, before an append
and not in it.  Two steps are one action where the process alone could tell them
apart: the append of a setting and its assignment in memory.  `forgotten` records the
messages whose delivery a service no longer knows of, and those to a session
whose load failed or was cut short by a change of session (`Unread`), see section
5.  Every
message asks to wake its receiver; a session is opened by one process
(`Opens`), as the lock of its endpoint demands of those that listen.

## 3. Runs

Runs named *violation* state what a comment or a document of the repository
says, and TLC shows the code doing otherwise; `findings` quotes the line.

| run | module | shows |
|---|---|---|
| `SessionLogOne` | `SessionLog` | one handle at a time: acknowledged records survive anything, the file always loads, every reader sees the same conversation, and the file implements `DurableLog` |
| `SessionLogShared` (violation) | `SessionLog` | two handles: a rollback removes a record another process was promised |
| `PackageStoreTakeover` (violation) | `PackageStore` | two takers of a stale lock |
| `TuiLoopBlocked` (violation) | `TuiLoop` | the event loop blocks on its own channel |
| `ReloadKeepsServer` (violation) | `MCExtensions` | the servers that `/mcp login` has started end with the command |
| `SteeringIsHeard` (violation) | `ClaudeTurn` | a claude process is not told of a steering message |
| `QuestionIsShown` (violation) | `TuiScreen` | a question disappears with the transcript, or its keys change another entry |
| `Intercom` | `MCIntercom` | a message is stored once and wakes once, over retries, session changes, failing appends and deaths, and what was acknowledged is stored; one reply to a request; a service acts on recorded settings and messages; nobody waits for a delivery that is over |
| `Agents` | `MCAgents` | safety of the agent loop, its queue, the RPC server, an extension process, a subagent, an MCP client and a claude process |
| `AgentsEnd` | `MCAgentsEnd` | what must happen in the agent loop, the queue, the RPC server and the terminal loop |
| `CallsEnd` | `MCCallsEnd` | what must happen to calls of extension processes, subagents, MCP clients, monitors, Lua extensions and claude processes |
| `Services` | `MCServices` | safety of everything else |

The properties of the sums, by part:

- `LoopSafe`: memory is what a restart would load, but for what loads make up, which no
  loaded answer with an invalid call lacks; results come in the order of the calls (`MemoryIsDurable`, `ResultsInCallOrder`), every request is a valid
  transcript over compactions, failures, deaths and resumes (`RequestIsValid`);
  `ToolsRunOnce`: a tool starts for a call of a durable answer, once.
- `QueueSafe`: a message is in one place (`EachMessageOnce`), a prompt that settles
  leaves none (`SettledLeavesNothing`), order is kept (`DeliveredInOrder`).
- `RpcSafe`: one run at a time (`OneRun`), alone beside an exclusive command
  (`CommandIsExclusive`), one reply to each question (`OneReplyEach`), a wake in one
  place (`WakeOnce`); `RpcOrder`: events in order, no prompt before an earlier wake.
- `PluginSafe`: nobody blocks delivering an outcome (`SendNeverBlocks`), a stopped
  plugin is unregistered, cancellations arrive.
- `SubagentSafe`: a call that returned left no process (`Reaped`), a success did
  all it began (`SuccessIsWhole`), its usage is true (`UsageIsTrue`).
- `McpSafe`: no call is forgotten by a failing connection (`NobodyForgotten`), handing
  an answer over never waits, no call runs twice (`RunOnce`).
- `ClaudeSafe`: each call its own result (`OwnResult`), usage adds up, no orphan.
- `CredentialsSafe`: a refresh token of an MCP server is submitted once, of a provider
  once by each of its Authorizers; what is stored can be refreshed.
- `PackagesSafe`, `ReturnsConsistent`: after any failure or death the next
  operation starts from packages as the state says, or says what it cannot
  recover; an operation that returns, with an error too, needs no recovery but for the
  package it could not clean up or undo; operations exclude one another.
- `GoalSafe`: a goal stays in its session (`GoalStaysHome`), memory is recorded,
  limits hold (`CeilingsHold`), a goal that is over is not worked on (`HaltsInTime`), an
  active one is (`ActiveIsWorkedOn`).
- `HelpersSafe`: the budget is shared, what is reported complete can be integrated,
  a batch is over when it is reported.
- `ExtensionsSafe`: what an owner registered goes with it and only that
  (`LeaseIsWhole`), no call enters a closed owner, the policy holds, a stop is final.
- `MonitorSafe`: announced, finished and reported at most once; a stopped one stays so;
  an active one is listed and watched.
- `StreamsSafe`: the answer has each piece once and in order (`AnswerIsWhole`), what was
  shown is kept (`ShownIsKept`), every call meets its result (`WireIsPaired`).
- `UpdatesSafe`: the executable runs whatever dies (`Runnable`), what is installed is
  later than what asked for it (`Later`), no temporary file stays (`Swept`); prices
  are fetched once per TTL over restarts (`OncePerTtl`) and told with their version
  (`PriceIsOfVersion`); no known list of models is forgotten (`NothingForgotten`).
- `ToolsSafe`: edits that do not cross are as if each were one step
  (`Sequential`); who follows the offsets sees every line once or is told it was cut
  (`PagesCover`); a success is whole, a cancellation reaches the group
  (`CancelReachesGroup`).
- `TerminalSafe`: what seems to run does (`BusyIsBusy`), a follow-up is in one place
  and its own session; indexes lead to their entries (`IndexesLead`), nothing seems at
  work between prompts (`SettledIsDone`), no question is forgotten; keys are those
  pressed however their bytes are split (`KeysAreMeant`, `SplitsDoNotMatter`); keys
  undo one another (`KeysUndo`), and the menu is of the text (`MenuMatches`).
- `HerdrSafe`: at rest the pane shows the agent, and nothing follows the release.
- `RunEnds`, `AcceptedIsTaken`, `RpcLive`, `FollowUpsRun`, `CancellationEnds`,
  `SubagentEnds`, `McpEnds`, `MonitorEnds`, `ExtensionsEnd`, `ClaudeEnds` are the
  liveness properties; the comment at each says what it promises.

Every property of a passing run has a *mutant* in `PROJECT.json`, and where a
property combines modules one for each of several of them: a plausible defect of a
mapped definition, kept beside it in the module, under which TLC finds the property
violated.

### Bounds

They limit how often the environment acts, never what a step does.  The `.cfg` and
the `INSTANCE` of each part give the values.

- SessionLog: three records beyond the header are enough for one record before,
  in and after a failed append or a compaction that keeps one of them; failures
  and crashes are unbounded.
- SessionLog again: three records are too few for a compaction that writes made-up
  results (two prompts and an invalid answer, a load, and then it):
  that case is covered by the proof only.
- AgentLoop, two instances.  `Agents`: one operation of two turns with two tool calls (an
  order to get wrong), valid or not, a queued message, two attempts, one append failure and one
  death, which may hit any append.  `Prompts`: three operations of one turn and one call,
  and a death: an answer that was interrupted or invalid, a load, a compaction or
  a resume of the other session, and what follows.  A failure there would leave the records a
  death leaves.
- AgentQueue: two senders and three messages cover two of one mode and one of
  the other in any order; two prompts, so that a message may outlive a run.
- Rpc: a prompt, a command, a question and two wakes: each may meet the end of any
  other.
- PackageStore: two packages, three operations, one failing step, two deaths (the
  second one in the recovery of the first), one change by hand.  `Overlap` says
  whether operations may overlap once a process has died; it is off in
  `Services`, since two takers of a dead process's lock break everything
  (`PackageStoreTakeover`).
- TuiLoop: a guarded and an unguarded follow-up, a typed message, a channel of 3
  slots for the code's 128 (2 in `TuiLoopBlocked`), two sessions, two commands.
  TuiScreen: one prompt with a notice, or two without, of two turns with two
  deltas and a call (entries before and after one that goes); two questions.
- TermInput: two items out of nineteen, one of each kind of sequence and four that
  never end, cut anywhere, one timeout.  Composer: texts of four typed runes,
  with a wide one and line feeds in the texts that arrive, five keys.
- Credentials: two operations of three goroutines in two processes, one MCP server
  and two providers (one with an older store key): two that meet at a file, and a
  third entry to lose.  Two tokens that expire, so that a refreshed one may expire
  again; one failure.  Two Authorizers in each process.
- Intercom: two sessions of one process and one of another, a request that was
  delivered before, two more messages or retries and two disturbances of any kind
  (a change of session or of a setting, a failure, a death), so that a session may be
  left and resumed, or die twice; two connections, so that copies of a message meet.
- PluginCalls: `initialize`, one call, one call back, pipes of one message (every
  write can find its pipe full), one response nobody asked for.  Mcp: two calls, a
  ping, pipes of one.  ClaudeTurn: two processes, two turns, two calls, a buffer of
  one event.  Subagent: two requests, a tool, a pipe of two.
- Goal: two goals, two sessions, a limit of one step of one turn, two commands, a
  failure and a change of the session: each may fall into any gap of the others.
- Helpers: two tasks and two worktrees, limits of two, one move of the lead's branch; a
  writer, whose batch has no limits, uses one turn in a run.
  Monitor: two monitors of which one is kept when both are over.
- Extensions: two Lua files that register overlapping names, one connection, one call,
  one reload, two policies.
- Streams: answers of two items of two pieces; a prompt, and a history with two
  rounds of tools of two services.
- Upgrade: three releases that differ by a prerelease, two processes, two starts, one
  power loss.  Herdr: two questions, one turn, a switch.  Prices: two callers, an
  estimate, three ticks of a TTL of two, a failure.  ModelCache: two programs, one with
  two calls for different scopes, a failure.
- FileEdits: two calls of five kinds on files of up to three letters, a failure.
  ReadPages: four lines of six kinds around the limits of a result and of a line.
  Command: an output of three pieces with a limit of two, a pipe of one.

The runs of what must happen use smaller instances (one of each actor).

### Fairness

- AgentLoop: the goroutine of the prompt is scheduled, a request ends (the code
  has an idle timeout), a running tool returns.  Nothing makes a user act.
- AgentQueue: the goroutines of the prompt and of the senders are scheduled.
- TuiLoop: the loop and the runs are scheduled; posters of jobs and follow-ups get a
  slot if slots come free again and again (strong fairness: the runtime serves
  senders blocked on a channel in order).
- Rpc: the reader, runs and commands are scheduled, questions whose context ends
  return.  Nothing makes the client answer or send.
- PluginCalls: the goroutines of both processes are scheduled, and the
  handlers of the plugin end once they are cancelled; a killed process ends.  The
  pipes of a plugin that no longer reads are the case this leaves out (section 5).
- Subagent: the parent's goroutines and timers run; nothing is assumed of the child.
  Mcp: the goroutines of the client run, `writeMu` is given to a waiter in the end
  (Go's mutex does not starve one); nothing is assumed of the server.
- Monitor: hooks and goroutines run.  Nothing is assumed of the monitored command: the
  end is promised for one that is gone and whose output nobody holds.  Extensions: the
  closing goes on, a call that has begun ends (strong, since others may hold the
  lease's lock).  ClaudeTurn: the reader, the agent's loop and the process work.

Deadlock is checked in all passing runs but `AgentsEnd`, where the event loop really
can block on its own channel (`TuiLoopBlocked`), and `Services`, whose parts stop
when their bounds are used up; a `Quiet` (or `Done`) step stands for a system that
has nothing left to do.

## 4. Proofs

Each theorem holds for every value of the constants that meets the stated assumption.
The argument is the same in form everywhere: an inductive invariant (`IInv` in a module of its
own), `InitInv` (the initial states have it), `NextInv` (every step keeps it), `InvImplies` (it
implies the properties), and a temporal step that combines the three.  The
sections of a proof follow the actions of its module.

| module | theorems | assumed of the constants |
|---|---|---|
| `SessionLogProofs` | `TypeCorrect`, `AckedRecordsSurvive`, `SessionNeverDamaged`, `EverybodyAgrees`, `RefinesDurableLog`, `RollbackIsDurable` | one handle at a time, `Handle = {h}` |
| `AgentProofs` | `ConversationIsDurable`, `RequestsAreValid`, `ToolsRunOnce`; `QueueIsSafe`; `RpcIsSafe`, `RpcIsInOrder` | `Parameters`: the default model exists, at least one turn and attempt; of the queue nothing; `RpcParameters`: a wake is not the text that stands for the client's messages |
| `IntercomProofs` | `StoredOnce`, `RepliedOnce`, `TablesAreStored`, `WaitsEnd` | `IntercomAssumption` of the module itself |
| `ProcessProofs` | `CallsOfServersAreSafe`, `HelpersAreSafe`, `ClaudeTurnsAreSafe` | `ServerParameters`, `HelperParameters`, `ClaudeParameters`: bounds are numbers, calls and pings differ |
| | `PluginIsSafe` | `PluginParameters`: the calls of the two sides differ |
| `ToolProofs` | `PackagesSafe`, `PackagesReturnConsistent` | `PackParameters`: at most two processes, which do not overlap once one has died (`~Overlap`) |
| | `HelpersAreSafe`, `PagesAreSafe`, `CommandIsSafe` | limits and sizes are numbers |
| | `EditsAreSafe` | `EditsParameters`: no text that is to be replaced overlaps itself |
| | `ExtensionsAreSafe` | `ExtensionsParameters`: owners, tools and commands are told apart, each file is loaded once |
| `ServiceProofs` | `CredentialsAreSafe` | `CredParameters`: finitely many keys, MCP keys have no older entry, and the names of older entries are no keys |
| | `GoalsAreSafe`, `MonitorsAreSafe`, `PricesAreSafe` | limits are numbers; no session, monitor or caller is `"none"`, `"no"` or `"free"` |
| | `PanesAreSafe` | `HerdrParameters`: finitely many questions, the first model is one, and none is the mark of no hook |
| | `CompareIsPrecedence`, `UpgradesAreSafe` | `UpgradeParameters`: the releases are listed in the precedence of semantic versions, with numbers that can be read |
| | `ListsAreKept` | `CacheParameters`: the bundled list is not one that was fetched, something is offered |
| `MCAgentsProofs` | the properties of run `Agents`: `LoopAlwaysSafe`, `ToolsAlwaysRunOnce`, `QueueAlwaysSafe`, `RpcAlwaysSafe`, `RpcAlwaysInOrder`, `PluginAlwaysSafe`, `SubagentAlwaysSafe`, `McpAlwaysSafe`, `ClaudeAlwaysSafe` | the instances' own values |
| `MCServicesProofs` | properties of run `Services`: `CredentialsAlwaysSafe`, `GoalAlwaysSafe`, `MonitorAlwaysSafe`, `HerdrAlwaysSafe`, `UpdatesAlwaysSafe`, `PackagesAlwaysSafe`, `PackagesAlwaysReturnConsistent`, `HelpersAlwaysSafe`, `ToolsAlwaysSafe`, `ExtensionsAlwaysSafe` | the instances' own values, and the named assumptions of `MCServices` |

So every invariant and action property of the runs `SessionLogOne`, `Agents` and
`Intercom` is proved, the refinement of `DurableLog` included, and of `Services` all but
`StreamsSafe` and `TerminalSafe`: ten properties about thirteen of its components.

**SessionLog.** `AckedSurvive` is not inductive: it does not say why a truncation is
harmless.  `IInv` adds that every possible content of the disk is well shaped (only
its last fragment is torn, record numbers increase: `Shape`), that nothing is
appended after a torn fragment (`CleanInv`), that the size a rollback returns to keeps
all acknowledged records (`RollbackInv`), that the record awaiting its sync is the
last one (`SyncInv`), and what a load has decided about the tail (`LoadInv`).  The
lemmas say what the recovery does to a content of that shape.  `MemoryInv`
says that the memory of the process is, but for what a load made up, what the lines before the
record being appended, or those already decoded, replay to, by induction over the lines of a file;
a commit does to it what a load of the record would, but for that (`CommitIsDecode`).  `RepairKeeps` says that the repair at the end
of a load adds only made-up results, and leaves no answer with an invalid call without them.  For the refinement,
`LogInv` says that the contents the disk may hold agree up to the last acknowledged
record, so that a step changes what a load recovers only behind it; each action
is then a step of `DurableLog` or a stutter.  The assumption of one handle is needed:
with two `RollbackKeepsDurable` is false (`SessionLogShared`).

**AgentLoop.** A session replays to a conversation: results follow the answer that
asked for them, and no call is of two answers (`Conversation`).  Every append is
described by one operator, `Pending`, the record about to be written, which the
invariant has to lead from a conversation to a conversation; so it does not matter where
a failure or a death falls.  `TurnInv`, `CallsInv` and `AnswerInv` say what the
locals of the prompt hold at each point, `SessionsInv` and `MemoryIsDurable` relate
both sessions to memory.  A conversation has the results of all calls of an answer or of none (`LackingCalls`, `MissingCalls`),
recorded, made up by a load or written by a compaction, which is why a repair leaves a
conversation (`RepairKeeps`) and what a request sends is well formed (`ContextWellFormed`).  The library's induction takes an operator as its parameter;
`Induction` and `Recursion` state it for a set and for a recursive function instead, which
is what `Replay` needs once (`SessionLogProofs` has the like for the lines of a file).

**AgentQueue.** Messages carry numbers; a number belongs to one message, and one that was
given out is queued, taken, appended or lost (`NumberInv`); the numbers increase
along each queue and what is over is older than what is not (`OrderInv`).  Not
assumed: bounds on senders, messages, prompts or turns.

**Rpc.** Only the last run can be live, and `active`, `settling`, `cancel`, the agent and
the client's last event all say where it is (`RunsInv`); a question is in the
table while it waits and has no reply (`QuestionsInv`).  `WakeOnce` is stated over
disjoint places, which is what makes it inductive.

**PluginCalls.** Exactly one of the table of pending calls, `finish` and the reader may
still send to a call (`SendInv`), which is why a channel of one slot suffices.  For
the rest the invariant follows a message from end to end: a request goes before
its cancellation in the pipe (`HandlerInv`, `WorkInv`), a handler waits for one call of its own
(`OwnerInv`), the answer is in one place (`AnswerInv`).  `ResponseInv` and
`CancelInv`, about a plugin that keeps to the library, are under `rogue = 0`, as
the properties are.

**Intercom.** What a service holds in memory is what its session has recorded, but for
what a connection is about to enter (`MemoryInv`, `SettingsInv`); connections in flight
have different messages (`InflightInv`); a reply that is about to be recorded is
the first (`ReplyInv`); a wake comes after the record and once (`WokenInv`).  The
induction showed a limit of the code that the small instance does not reach: a
load cut short by another change of session leaves tables that do not know all that
is stored, so a session that is left and resumed twice, with intercom enabled and the
message retried in between, stores it again.  `forgotten` holds such messages
(section 5), and `HandledOnce` and `OneReply` are about the others.

**Mcp, Subagent, ClaudeTurn.** A call of an MCP server that has not returned is in the
table or its reply is in exactly one place (`TableInv`), and a request runs only
after it has left the pipe (`Runs`).  For a helper, what the parser has counted and what is in
the pipe add up to what the child completed (`StreamInv`), as long as the pipe is open.
For `claude`, the calls of an answer are consecutive numbers of which the first few have been
served; those announced are in the queue of the loop, then in the output as hooks, and a
call that has been issued is behind its hook, so each meets its own result.
`ClaudeTurnsAreSafe` is `Spec => [](stale = {} => ClaudeSafe)`: once a call is of a tool that
is no longer registered (`stale`), another call may get its result (section 5), and the runs
leave that out too (`MaxStale` is 0).

**Credentials.** `SubmittedOnce` says of the worker that is about to submit a token that the
token is live, or was spent through another Authorizer, so the invariant follows every token: it is of one key (`Owned`), in the
hands of whoever was issued it until that one stores it (`CredFresh`), and a stored token
that is dead has somebody who has its successor (`Stored`).  The three locks are stated for
each pair of workers (`Exclude`), and what a worker has read under the lock of a file is
what the file has (`Current`), unless another process has written it (`outdated`).
`Older`, `Migrating` and `LoggedOut` do the same for the entry of an older notch.  All of it
is under `Undisturbed`, as the properties are; that the tokens of the model suffice is
an argument by counting (`Count`).

**Goal.** `DataInv`: the goal in memory is what was persisted or a pause of it, every goal is of
the session it was started in, and the ceilings hold of all that is stored.  `ControlInv`: a
halted run has its flag set or no request left (`Halting`), and an active goal is left to
nobody only while a flag or a failure says so (`Working`).  The steps are proved by what
they do to the record (`DataInv`) and to the run (`ControlInv`) separately.

**Monitor.** Whoever completes a record is the only one that may tell of its end
(`EndedOnce`), whoever sets `triggered` the only one that wakes (`WokenOnce`), and nothing
runs for a monitor that is not listed yet (`Started`), whoever holds its output.

**Herdr.** The last report on its way, in the queue, with the worker or shown, tells what the
fields say (`LastInv`), but for a session that changed between two questions: this is told
when the last one ends (`Tells`).

**Upgrade.** Every file is whole once it is under the name of the executable or its backup
(`Installed`); the temporary file of a run is its own (`OwnFiles`), and runs have different
numbers (`OwnRuns`); `Holds` says what each stage of a process has.  `CompareIsPrecedence`
shows that the comparison of semver.go says *earlier* only where the standard does, for any
identifiers, so that the release that is picked is a later one.

**Prices, ModelCache.** A fetch that no call has forced has the lock and has found the last one
older than the TTL (`Spaced`, `Holding`); memory has a version the file had (`Versions`,
`Behind`).  A call of the registry keeps what it has seen (`CallHolds`): nothing that is
merged into memory or loaded from the file makes an entry older (`AllKept`, `LoadedOnce`).

**PackageStore.** Who is at work holds the lock, and whoever takes one over is alone
(`Locking`).  Between operations every package is, or the next recovery makes it, what the
state says (`RestAt`), and `Holding` says for each step of an operation, an undo or a recovery
what the directories of its package have and that all others are whole; so a death at any step
leaves `RestAt`, which is what the recovery starts from.  Both assumptions are needed.
With `Overlap`, `PackageStoreTakeover` refutes the property.  With three processes the
induction failed without it: two that wait may both find the same dead lock, and one of them
then removes the lock that the other has made, as the take-over of a stale lock is a check and a
removal.  `PackagesReturnConsistent` is the action property, from the same invariant: a package
that an operation could not clean up or undo is as a death at that step would leave it, which is why
`RestAt` covers it and all others are consistent.

**Helpers.** What a helper has used and the limit it runs with add up to its budget from the
first run to the end of the second (`Budgets`); a result that is complete after the audit has
a commit on the head of the lead the batch started from (`Results`), and writers whose changes
clash are not both complete in the report (`Pairs`).  `Phases` says that writers have different
trees and that a batch is not reported before all its helpers are done.

**FileEdits, ReadPages, Command.** A call that nobody has crossed works on what those before it
have made (`Uncrossed`), so with none crossed the file is what they make in their order.  The
assumption comes from the code: `bytes.Count` counts occurrences that do not overlap, and in a file of
`xxx` it lets an edit of `xx` pass, which stands there twice (section 5).
For the pages, `Covered` says that the lines shown and the lines told to be cut are together
those before the next offset; the sizes are sums by a recursive function, so the
lemmas about them use `Induction` and `Recursion` as in `AgentProofs`.  For a command, what has left
the pipe is kept or told to be cut (`Drained`), `Waited` says how far `cmd.Wait` has come, and
`Killed` that a watcher that ended before it, or a `Wait` that ended after a cancellation, left nobody
of the group with the output open.

**Extensions.** An open owner has every name of its batch but those the options took away, a
closed one has no name and no hook (`LeaseIsWhole`); from the policy on, a tool that is registered is allowed (`Applied`),
whatever a reload brings.  `Order` is how far the start and the closing have come, `Calling`
relates a call that waits or runs to the Lua state of its owner.  The hooks that stay when an owner
goes are a recursive function of those there were (`Without`), about which `WithoutOf` is
proved by `Recursion`.

**MCAgents, MCServices.** A step of the composition is a step of the part that runs, so the invariant of
a component is one of the composition.  These theorems are about the very formulas
the runs check.

Only model-checked:

- `StreamsSafe` and `TerminalSafe` of `Services`, whose components have no proofs (section 6);
- every liveness property: the prover has no rule for fairness, nor for `ENABLED`.

## 5. Where the code and its documents differ

Six of the disagreements met while modelling are runs (`findings`).  The others
were shown by TLC too, or follow from a line, and the properties above are stated
so as to hold beside them.

Agent, sessions, packages and credentials:

- `docs/architecture.md:64` has the tool calls of an answer run one after another;
  `executeTools` (agent.go:1027) runs them concurrently.
- `docs/architecture.md:120` has a model switch recorded before the next request;
  when the results of the turn cannot be appended (agent.go:742) it stays pending,
  and a later prompt applies it over newer choices.
- `docs/architecture.md:62` has the follow-up of an `agent_end` hook come first;
  queued messages do (agent.go:457), as `docs/extensions.md:266` says.
- `README.md:221` has pending messages visible until delivered; the queue event of an
  enqueue may be emitted after those of the delivery (agent.go:402), and the delivered
  message stays visible.
- `intercom.go:526` says a duplicate is not persisted twice.  It is when a session is left and
  resumed between the look at the context of a delivery (host.go:16) and its append, by
  which time the service has read the session again, without the message; and when the
  entries of a session cannot be read at its start (intercom.go:166), or another change of
  session ends that load, and the user then turns intercom on.
- A follow-up queued with a run that fails stays queued (agent.go:418): nothing
  takes it before the next prompt, which may be that of another session
  (agent.go:464, against the comment at app.go:2680).
- A retained follow-up behind one of another session waits for another event
  (app.go:909, against extension/types.go:102).
- A plugin that does not read its input keeps a cancelled call (plugin.go:417,
  against `docs/extensions.md:378`).
- The update of a package whose content the user has changed, when it dies half
  way, needs the user to repair the directory (store.go:615, against
  `README.md:405`).
- The directory of a package named `x.backup` or `x.remove` is a marker of package
  `x` to the recovery (store.go:572); `docs/extension-packages.md:106` allows it.
- Two processes, or two Authorizers of one (main.go:1345; after a model switch, or
  while models are listed), submit the same refresh token of a provider
  (providerauth/authorizer.go:81), and two processes that replace the credential file undo
  each other's changes, a logout included (credentials/store.go:64).  A migration
  in progress restores what a logout has just deleted (main.go:1590).

Front ends:

- A client of the RPC server that has read `agent_settled` may still be refused with
  "agent is streaming" (rpc/server.go:643 after 592; `docs/rpc.md:110`, 270), and accepted
  wakes that wait are dropped when a run fails (server.go:637).
- The `turn_end` event may be lost in the race of its post with the cancellation of
  the prompt, and an entry "thinking" then stays pending for ever (`agent.lossy`
  excludes it).  A warning in the middle of a turn suppresses the notice of the
  error that ends it (finishPrompt; agent.go:684).  Interleaved thinking and text is
  ordered differently live and after a reload.
- An extension that asks with a context that never ends waits for ever if its question is in
  the channel when the loop exits, or if the loop ends with a rendering error.
- An Escape that is still pending after another was resolved has no timer before
  the next read (readInput); a paste that is given up in the middle of its end
  marker leaves the rest of the marker as text.
- A text set by an extension keeps the menu of the text before it (app.go:829): Enter
  or Tab then replaces the extension's text (`foreign` excludes it).  Set while the
  user is in the history, it is lost at the next Down.

Extensions and helpers:

- Goal: a `session_change` whose entry was read before, and is taken over after, a command
  that changed the goal, undoes the command (goal.go:489, 509; the comment at 512); it
  resets `haltRun` (519) against `docs/goals.md:27`; a failed append of the pause of a
  restored goal leaves it active (`docs/goals.md:30`); `haltRun` stays set after a
  follow-up that could not be queued (228).  `docs/tui.md:70` lists `/goal pause`.
- The cost of a helper that died after its last priced answer is reported as whole
  (`docs/coordinated-helpers.md:52`); `explore_codebase` does not report usage.
- MCP: a call whose write blocks does not return when it is cancelled (stdio.go:147); a
  server that closes only its stdout leaves its calls waiting (stdio.go:93); cursors that
  repeat in a cycle are followed for ever; over HTTP, a request of the server with the
  id of a call is taken for its answer.
- Monitor: a monitor is reported when its process exits (`docs/extensions.md:223`) only if
  nothing it has started holds its output: until then `cmd.Wait` does not return
  (monitor.go:326), and a stop kills only the process itself; an exit monitor that was stopped still wakes the agent; hooks of two
  monitors may see snapshots out of order (`docs/extensions.md:242`); one started while
  the shutdown closes the others outlives it.
- Herdr: a session whose model was switched before its first prompt may be resumed with
  the other model.

Providers:

- OpenAI reasoning with an empty summary is dropped with its encrypted content; a
  call cut off before the first piece of its arguments runs with `{}` unless the
  stop reason is `max_tokens` (agent.go:664); two tool names are mapped to one by the
  Anthropic adapter (find and glob); usage told twice by OpenRouter counts the cache twice.
- ClaudeTurn: the identity of a call of a tool that is no longer registered stays at
  the head of its queue, and the next call gets it (`MaxStale` is 0 in the runs; 1
  refutes `OwnResult`); it emits `reasoning_delta`, which nobody handles
  (`docs/architecture.md:78`); after a kill with more than 64 unread events the reader and
  the process are not reaped.

Upgrade, caches, tools:

- A process that looked up an older release replaces a newer installation
  (`docs/releases.md:37`); two starts at once both check (`docs/releases.md:9`); a death
  between the two renames on Windows leaves only the `.old` file; numeric identifiers
  beyond 64 bits compare as larger both ways.
- A slow discovery overwrites a newer list of models, and a program that saves its
  cache loses what another has saved for other endpoints; a file of a later version, which
  cannot be decoded, is overwritten by the next save.
- Two edits of one file in one answer both report success although one is lost, since the
  calls run concurrently; a read in between may find the file empty.  `bytes.Count` does
  not count overlapping occurrences: `xx` is unique in `xxx`.

## 6. Plan, and what is not modelled

Worth proving next: `Streams`, whose answers are assembled by recursion over pieces, then
`TuiLoop`, `TuiScreen`, `TermInput` and `Composer`.
Abstract specifications worth stating: an at-most-once
inbox that `Intercom` implements; one outcome per call, which `PluginCalls` and `Mcp`
implement.

Not modelled, and why (`PROJECT.json` lists them under `components`):

- configuration, resources and workspace are read once at the start, without
  concurrency; the command line is wiring and parsing;
- layout, Markdown, themes and the frame that is written are functions of what
  `TuiScreen` keeps; the selection with the mouse and the dialogs over sessions have no
  state that another goroutine changes;
- the login flow in the browser (its states are the person's and the server's;
  `Credentials` has its result); its reader of a pasted redirect outlives the login
  and keeps reading input;
- grep, find and ls only read; ask_user, task_list, model switching and rtk are thin
  tools over the components above;
- the texts of prompts and reports, token counts and prices are data.
