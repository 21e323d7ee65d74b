----------------------------- MODULE Extensions -----------------------------
(* The extension registry (internal/extension/types.go) and the owners that *)
(* fill it while notch starts, runs and stops: the built-in tools, the Lua  *)
(* extensions (internal/luaext/manager.go), the MCP connections and their   *)
(* reload by /mcp login (cmd/notch/mcp_runtime.go, internal/mcp/manager.go),*)
(* the tool policy of the command line and the selections made later.       *)
(* A registry method holds the registry's mutex: it is one operator on the  *)
(* registry. Calls of tools, commands and hooks run between them.           *)
EXTENDS Naturals, FiniteSets, Sequences

CONSTANTS Tool,      \* tool names
          Command,   \* command names
          Remote,    \* the tools that the MCP servers may list, a subset of Tool
          Direct,    \* those of them that directTools pins
          LoadOrder, \* the Lua files, in the order LoadDirs reads them
          Call,      \* goroutines that call a tool, a command or the hooks
          Policy,    \* the options: allow (--tools), a set of tools or All, and exclude
          Batch,     \* sets of names that one extension may register
          MaxReloads,
          NONE,      \* no owner
          BUILTIN    \* the owner of what is registered without a lease

VARIABLES
  registry,  \* entries by name, the hooks of one event in order, the active tools
  batch,     \* what each owner registered
  lua,       \* each file's state: "none", "loaded", "leaseless" or "closed"
  loader,    \* LoadDirs: the next file, and whether one has failed
  closing,   \* the Lua state that closeStatesLocked works on, if any
  policy,    \* the options --tools and --exclude-tools
  stage,     \* how far main.run has come
  manager,   \* mcpRuntime.manager is set
  conns,     \* connections made so far
  server,    \* the stdio MCP server of the connection
  reload,    \* /mcp login: "idle", "closed" (the old manager) or "returned"
  running,   \* the agent runs
  call       \* the calls

vars == <<registry, batch, lua, loader, closing, policy, stage, manager, conns, server, reload,
          running, call>>

All == {NONE}                                  \* nil: no restriction
Name == Tool \union Command
File == {LoadOrder[i] : i \in DOMAIN LoadOrder}
Lease == File \union 0..MaxReloads             \* the lease of a file, of a connection
Absent == [owner |-> NONE, deferred |-> FALSE]

-----------------------------------------------------------------------------
(* The registry's methods. *)

CanRegister(names) == \A n \in names : registry.entry[n] = Absent

Register(reg, o, names, deferred, hooked) ==
  [reg EXCEPT !.entry = [n \in Name |-> IF n \in names
                                        THEN [owner |-> o, deferred |-> n \in deferred] ELSE @[n]],
              !.hooks = IF hooked THEN Append(@, o) ELSE @]

Without(hooks, o) ==
  LET Upto[n \in 0..Len(hooks)] ==
        IF n = 0 THEN <<>> ELSE IF hooks[n] = o THEN Upto[n - 1] ELSE Append(Upto[n - 1], hooks[n])
  IN Upto[Len(hooks)]

CloseLease(reg, o) ==
  [reg EXCEPT !.entry = [n \in Name |-> IF @[n].owner = o THEN Absent ELSE @[n]],
              !.hooks = Without(@, o)]

RestrictTools(reg, names) ==
  [reg EXCEPT !.entry = [n \in Name |-> CASE n \in Command -> @[n]
                                          [] n \in names -> [@[n] EXCEPT !.deferred = FALSE]
                                          [] OTHER -> Absent]]

RemoveTools(reg, names) ==
  [reg EXCEPT !.entry = [n \in Name |-> IF n \in names THEN Absent ELSE @[n]]]

IsActive(n) == registry.active = All \/ n \in registry.active

\* Tool and Tools: what may be called
Visible == {n \in Tool : registry.entry[n] # Absent /\ IsActive(n)}

Undefer(reg, names) ==
  [reg EXCEPT !.entry = [n \in Name |-> IF n \in names THEN [@[n] EXCEPT !.deferred = FALSE]
                                        ELSE @[n]]]

\* What the options leave; what they do to the registry, in their order.
Allowed == (IF policy.allow = All THEN Tool ELSE policy.allow) \ policy.exclude

ApplyPolicy(reg) ==
  RemoveTools(IF policy.allow = All THEN reg ELSE RestrictTools(reg, policy.allow), policy.exclude)

-----------------------------------------------------------------------------
\* The event of a hook call is who stopped it, if anyone has.
Idle == [phase |-> "idle", owner |-> NONE, hooks |-> <<>>, lenient |-> FALSE, stoppedBy |-> NONE,
         first |-> NONE]

Init ==
  /\ registry = [entry |-> [n \in Name |-> Absent], hooks |-> <<>>, active |-> All]
  /\ batch = [o \in Lease \union {BUILTIN} |-> {}]
  /\ lua = [f \in File |-> "none"]
  /\ loader = [next |-> 1, failed |-> FALSE]
  /\ closing = NONE
  /\ policy \in Policy
  /\ stage = "builtin" /\ manager = FALSE /\ conns = 0 /\ server = NONE /\ reload = "idle"
  /\ running = FALSE
  /\ call = [c \in Call |-> Idle]

\* Tools, commands and hooks of notch itself: they hold no lease.
Builtins ==
  /\ stage = "builtin"
  /\ \E names \in {b \in Batch : b \intersect Remote = {}} :
       /\ registry' = Register(registry, BUILTIN, names, {}, TRUE)
       /\ batch' = [batch EXCEPT ![BUILTIN] = names]
  /\ stage' = "lua"
  /\ UNCHANGED <<lua, loader, closing, policy, manager, conns, server, reload, running, call>>

-----------------------------------------------------------------------------
(* LoadDirs: one batch for each file; a file that fails takes those before  *)
(* it down again.                                                           *)

LoadFile ==
  /\ stage = "lua" /\ ~loader.failed /\ loader.next <= Len(LoadOrder)
  /\ LET f == LoadOrder[loader.next] IN
     \/ \E names \in Batch :
          /\ CanRegister(names)
          /\ registry' = Register(registry, f, names, {}, TRUE)
          /\ batch' = [batch EXCEPT ![f] = names]
          /\ lua' = [lua EXCEPT ![f] = "loaded"]
          /\ loader' = [loader EXCEPT !.next = @ + 1]
     \/ /\ lua' = [lua EXCEPT ![f] = "closed"]   \* its code fails, or a name is taken
        /\ loader' = [loader EXCEPT !.failed = TRUE]
        /\ UNCHANGED <<registry, batch>>
  /\ UNCHANGED <<closing, policy, stage, manager, conns, server, reload, running, call>>

LuaReady ==
  /\ stage = "lua" /\ closing = NONE
  /\ IF loader.failed THEN \A f \in File : lua[f] # "loaded" ELSE loader.next > Len(LoadOrder)
  /\ stage' = "mcp"
  /\ UNCHANGED <<registry, batch, lua, loader, closing, policy, manager, conns, server, reload,
                 running, call>>

\* closeStatesLocked, for a rollback and for Close: the last file first, its
\* lease before its mutex.
CloseStateLease ==
  /\ (stage = "lua" /\ loader.failed) \/ stage = "lua closing"
  /\ closing = NONE
  /\ LET open == {i \in DOMAIN LoadOrder : lua[LoadOrder[i]] = "loaded"} IN
     \E i \in open :
       /\ \A j \in open : j <= i
       /\ registry' = CloseLease(registry, LoadOrder[i])
       /\ lua' = [lua EXCEPT ![LoadOrder[i]] = "leaseless"]
       /\ closing' = LoadOrder[i]
  /\ UNCHANGED <<batch, loader, policy, stage, manager, conns, server, reload, running, call>>

\* A call that runs holds its state's mutex.
Held(f) == \E c \in Call : call[c].phase = "runs" /\ call[c].owner = f

\* Mutant: the loop over the states does not come past the first one.
CloseStateStays ==
  /\ closing # NONE /\ ~Held(closing)
  /\ lua' = [lua EXCEPT ![closing] = "closed"]
  /\ UNCHANGED <<registry, batch, loader, closing, policy, stage, manager, conns, server, reload, running,
                 call>>

CloseState ==
  /\ closing # NONE /\ ~Held(closing)
  /\ lua' = [lua EXCEPT ![closing] = "closed"]
  /\ closing' = NONE
  /\ UNCHANGED <<registry, batch, loader, policy, stage, manager, conns, server, reload, running,
                 call>>

-----------------------------------------------------------------------------
(* The MCP connections. ConnectConfigured registers every server's tools or,*)
(* when anything fails, none of them. The context of its caller is the one  *)
(* that the processes of the servers live under.                            *)

\* Mutant: the reload leaves the policy to the start of the program.
RegisterOnly(names) == Register(registry, conns, names, names \ Direct, FALSE)

ConnectedRegistry(names) ==
  LET registered == Register(registry, conns, names, names \ Direct, FALSE) IN
  IF stage = "mcp" THEN registered ELSE ApplyPolicy(registered)

Connect ==
  /\ ~manager /\ conns <= MaxReloads
  /\ \/ stage = "mcp" /\ stage' = "policy" /\ UNCHANGED reload
     \/ stage = "running" /\ reload = "closed" /\ reload' = "returned" /\ UNCHANGED stage
  /\ \/ \E names \in SUBSET Remote :
          /\ CanRegister(names)
          /\ registry' = ConnectedRegistry(names)
          /\ batch' = [batch EXCEPT ![conns] = names]
          /\ manager' = TRUE /\ server' = "up"
     \/ server' = NONE /\ UNCHANGED <<registry, batch, manager>>
  /\ conns' = conns + 1
  /\ UNCHANGED <<lua, loader, closing, policy, running, call>>

\* /mcp login has its credential: Connect begins by closing the old manager.
\* The command does not run beside the agent.
CloseForReload ==
  /\ stage = "running" /\ reload = "idle" /\ ~running /\ conns <= MaxReloads
  /\ reload' = "closed"
  /\ registry' = IF manager THEN CloseLease(registry, conns - 1) ELSE registry
  /\ manager' = FALSE /\ server' = NONE
  /\ UNCHANGED <<batch, lua, loader, closing, policy, stage, conns, running, call>>

\* finishCommand cancels the command's context, and with it kills the processes
\* that were started under it.
CommandFinished ==
  /\ reload = "returned"
  /\ reload' = "idle"
  /\ server' = IF server = "up" THEN "killed" ELSE server
  /\ UNCHANGED <<registry, batch, lua, loader, closing, policy, stage, manager, conns, running,
                 call>>

-----------------------------------------------------------------------------
(* main.run: the policy, the runs of the agent, the deferred closes.        *)

\* applyToolPolicy refuses to start when an option names an unknown tool.
StartUp ==
  /\ stage = "policy"
  /\ registry' = ApplyPolicy(registry)
  /\ LET known == {n \in Tool : registry.entry[n] # Absent}
         left == IF policy.allow = All THEN known ELSE known \intersect policy.allow IN
     stage' = IF (policy.allow = All \/ policy.allow \subseteq known) /\ policy.exclude \subseteq left
              THEN "running" ELSE "stopping"
  /\ UNCHANGED <<batch, lua, loader, closing, policy, manager, conns, server, reload, running,
                 call>>

RunStarts ==
  /\ stage = "running" /\ ~running /\ reload = "idle"
  /\ running' = TRUE
  /\ UNCHANGED <<registry, batch, lua, loader, closing, policy, stage, manager, conns, server,
                 reload, call>>

\* A run waits for its calls, which a stopping program does not.
RunEnds ==
  /\ running /\ \A c \in Call : call[c].phase = "idle"
  /\ running' = FALSE
  /\ UNCHANGED <<registry, batch, lua, loader, closing, policy, stage, manager, conns, server,
                 reload, call>>

\* SetActiveTools of a host, nil included, or RevealTools of mcp_search: both
\* show the schema of the tools they name; a reveal grants nothing.
Select ==
  /\ stage = "running"
  /\ \/ \E names \in SUBSET Tool :
          LET found == {n \in names : registry.entry[n] # Absent} IN
          registry' = [Undefer(registry, found) EXCEPT !.active = found]
     \/ registry' = [registry EXCEPT !.active = All]
     \/ \E n \in Visible \intersect Remote : registry' = Undefer(registry, {n})
  /\ UNCHANGED <<batch, lua, loader, closing, policy, stage, manager, conns, server, reload,
                 running, call>>

Stop ==
  /\ stage = "running"
  /\ stage' = "stopping"
  /\ UNCHANGED <<registry, batch, lua, loader, closing, policy, manager, conns, server, reload,
                 running, call>>

\* mcpRuntime.Close, behind the mutex that Connect holds to its end, and then
\* the Lua manager.
CloseServers ==
  /\ stage = "stopping" /\ reload # "closed"
  /\ registry' = IF manager THEN CloseLease(registry, conns - 1) ELSE registry
  /\ manager' = FALSE /\ server' = NONE
  /\ stage' = "lua closing"
  /\ UNCHANGED <<batch, lua, loader, closing, policy, conns, reload, running, call>>

ReloadFails ==
  /\ stage = "stopping" /\ reload = "closed"
  /\ reload' = "returned" /\ conns' = conns + 1
  /\ UNCHANGED <<registry, batch, lua, loader, closing, policy, stage, manager, server, running,
                 call>>

LuaClosed ==
  /\ stage = "lua closing" /\ closing = NONE /\ \A f \in File : lua[f] # "loaded"
  /\ stage' = "ended"
  /\ UNCHANGED <<registry, batch, lua, loader, closing, policy, manager, conns, server, reload,
                 running, call>>

-----------------------------------------------------------------------------
(* Calls. What a call looks up it keeps: the entry, or a copy of the hooks, *)
(* may be closed before it gets there.                                      *)

Change(c, r) ==
  /\ call' = [call EXCEPT ![c] = r]
  /\ UNCHANGED <<registry, batch, lua, loader, closing, policy, stage, manager, conns, server,
                 reload, running>>

Begins(c) == call[c].phase = "idle"

\* A tool of an MCP server or of notch itself is called at once.
LookUp(c) ==
  /\ Begins(c) /\ stage = "running"
  /\ \E n \in (IF running THEN Visible ELSE {}) \union
              {m \in Command : registry.entry[m] # Absent} :
       /\ registry.entry[n].owner \in File
       /\ Change(c, [Idle EXCEPT !.phase = "waits", !.owner = registry.entry[n].owner])

RunHooks(c) ==
  /\ Begins(c) /\ stage = "running"
  /\ \E lenient \in BOOLEAN :
       Change(c, [Idle EXCEPT !.phase = "hooks", !.hooks = registry.hooks, !.lenient = lenient])

\* callTool, call and callHook: the state's mutex, then its closed flag
Acquire(c) ==
  /\ call[c].phase = "waits"
  /\ ~Held(call[c].owner) /\ lua[call[c].owner] # "closed"
  /\ Change(c, [call[c] EXCEPT !.phase = "runs"])

\* A Lua call that returns, or that finds "Lua extension is closed".
Refused(c) == call[c].phase = "waits" /\ lua[call[c].owner] = "closed"

CallReturns(c) ==
  /\ call[c].hooks = <<>> /\ (call[c].phase = "runs" \/ Refused(c))
  /\ Change(c, Idle)

\* The event after a handler that left inPlace in the event itself, which
\* restoreStickyStop undoes, and returned result, which mergeHookResult merges.
AfterHook(event, inPlace, result) ==
  IF event # NONE THEN event ELSE IF inPlace # NONE THEN inPlace ELSE result

\* The next handler of the copy begins: one of Lua waits for its state.
HookBegins(c) ==
  /\ call[c].phase = "hooks" /\ call[c].hooks # <<>> /\ Head(call[c].hooks) \in File
  /\ Change(c, [call[c] EXCEPT !.phase = "waits", !.owner = Head(call[c].hooks)])

Merged(c, inPlace, result) ==
  LET after == AfterHook(call[c].stoppedBy, inPlace, result) IN
  [call[c] EXCEPT !.phase = "hooks", !.owner = NONE, !.hooks = Tail(@), !.stoppedBy = after,
                  !.first = IF @ = NONE THEN after ELSE @]

\* RunHooks gives up at the first error, RunHooksBestEffort goes on.
Failed(c) ==
  [call[c] EXCEPT !.phase = "hooks", !.owner = NONE, !.hooks = IF call[c].lenient THEN Tail(@) ELSE <<>>]

LuaHookReturns(c) ==
  /\ call[c].hooks # <<>>
  /\ \/ /\ call[c].phase = "runs"
        /\ \E result \in {NONE, call[c].owner} : Change(c, Merged(c, call[c].stoppedBy, result))
     \/ (call[c].phase = "runs" \/ Refused(c)) /\ Change(c, Failed(c))

BuiltinHook(c) ==
  /\ call[c].phase = "hooks" /\ call[c].hooks # <<>> /\ Head(call[c].hooks) = BUILTIN
  /\ \/ \E inPlace, result \in {NONE, BUILTIN} : Change(c, Merged(c, inPlace, result))
     \/ Change(c, Failed(c))

HooksReturn(c) ==
  /\ call[c].phase = "hooks" /\ call[c].hooks = <<>>
  /\ Change(c, Idle)

Proceeds(c) == Acquire(c) \/ CallReturns(c) \/ HookBegins(c) \/ LuaHookReturns(c)
                 \/ BuiltinHook(c) \/ HooksReturn(c)

Done == stage = "ended" /\ UNCHANGED vars

Next ==
  \/ Builtins \/ LoadFile \/ LuaReady \/ CloseStateLease \/ CloseState
  \/ Connect \/ CloseForReload \/ CommandFinished
  \/ StartUp \/ RunStarts \/ RunEnds \/ Select \/ Stop \/ CloseServers \/ ReloadFails \/ LuaClosed
  \/ \E c \in Call : LookUp(c) \/ RunHooks(c) \/ Proceeds(c)
  \/ Done

Spec == Init /\ [][Next]_vars

\* main.run goes through its deferred calls. A call that has begun goes on: its
\* handler returns, and a Go mutex does not starve who waits for it. The user,
\* the servers and the callers owe nothing.
EndGoesOn == CloseStateLease \/ CloseState \/ CloseServers \/ ReloadFails \/ LuaClosed
FairSpec ==
  /\ Spec
  /\ WF_vars(EndGoesOn)
  /\ \A c \in Call : SF_vars(Proceeds(c))

-----------------------------------------------------------------------------
\* Registry, Lua files and servers are in one of their states, and entries have owners.
TypeOK ==
  /\ registry \in [entry : [Name -> [owner : Lease \union {BUILTIN, NONE}, deferred : BOOLEAN]],
                   hooks : Seq(File \union {BUILTIN}), active : {All} \union SUBSET Tool]
  /\ lua \in [File -> {"none", "loaded", "leaseless", "closed"}]
  /\ closing \in File \union {NONE}
  /\ stage \in {"builtin", "lua", "mcp", "policy", "running", "stopping", "lua closing", "ended"}
  /\ server \in {NONE, "up", "killed"}
  /\ \A c \in Call : call[c].phase \in {"idle", "waits", "runs", "hooks"}

Open(o) == IF o \in File THEN lua[o] = "loaded" ELSE o = BUILTIN \/ (manager /\ o = conns - 1)

\* Entries belong to who registered them (types.go: RegisterBatch is atomic,
\* Close "unregisters only entries still owned by this registration"): an open
\* registration has every entry of its batch but the tools that the options
\* took away, and a closed one has no entry and no hook left.
LeaseIsWhole ==
  \A o \in DOMAIN batch :
    /\ Open(o) => \A n \in batch[o] : registry.entry[n].owner = o \/ n \in Tool \ Allowed
    /\ ~Open(o) => /\ \A n \in Name : registry.entry[n].owner # o
                   /\ \A i \in DOMAIN registry.hooks : registry.hooks[i] # o

\* A Lua state is never closed under a call that runs in it (manager.go:273).
NoCallInClosed == \A f \in File : lua[f] = "closed" => ~Held(f)

\* No run of the agent sees a tool that --tools or --exclude-tools took away,
\* the tools of a reload included.
PolicyHolds == running => Visible \subseteq Allowed

\* Once a hook has stopped the event, it stays stopped for that hook's reason.
StopIsSticky ==
  \A c \in Call : call[c].first # NONE => call[c].stoppedBy = call[c].first

ExtensionsSafe == TypeOK /\ LeaseIsWhole /\ NoCallInClosed /\ PolicyHolds /\ StopIsSticky

\* "an interactive login can replace expired credentials and reload tools
\* without restarting Notch" (mcp_runtime.go:20-21): notch does not kill a
\* server that it has just connected.
ReloadKeepsServer == manager => server # "killed"

\* Closing waits for the calls in flight behind the manager's mutex, and a call
\* that comes to a state being closed is refused: the program ends, and every
\* call returns.
InCall(c) == call[c].phase # "idle"
Stopping == stage = "stopping"
Stopped == stage = "ended"
ExtensionsEnd == (Stopping ~> Stopped) /\ \A c \in Call : InCall(c) ~> ~InCall(c)
=============================================================================
