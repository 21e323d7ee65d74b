----------------------------- MODULE MCServices -----------------------------
(***************************************************************************)
(* Parts of notch that share no state. Every behaviour is of one part: the *)
(* initial state says which. The parts use the variables s1, s2, ... in    *)
(* turn; those a part does not need stay 0.                                *)
(***************************************************************************)
EXTENDS Integers, Sequences, TLC

CONSTANTS d1, d2, d3, a, b, c, f1, f2, p1, p2, t1, t2, NONE, BUILTIN, Unset

VARIABLES part,  \* the part this behaviour is of
          s1, s2, s3, s4, s5, s6, s7, s8, s9, s10, s11, s12, s13, s14, s15, s16, s17

vars == <<part, s1, s2, s3, s4, s5, s6, s7, s8, s9, s10, s11, s12, s13, s14, s15,
         s16, s17>>

\* The keys of the credentials differ from one another, and from the names under
\* which an older notch kept them.
ASSUME KeysDiffer == /\ a # b /\ a # c /\ b # c
                     /\ \A j, k \in {a, b, c} : <<"legacy", j>> # k

\* Nothing else has the name of a session, a monitor, a caller or a process.
ASSUME NamesDiffer == {"none", "no", "free", "nobody"} \intersect {d1, d2} = {}

\* The bundled models are not of a version that was fetched.
ASSUME BuiltinIsNoVersion == BUILTIN \notin Nat

\* The owners of what extensions register differ, also from the connections.
ASSUME OwnersDiffer ==
  /\ f1 # f2 /\ NONE # BUILTIN /\ {NONE, BUILTIN} \intersect {f1, f2} = {}
  /\ {NONE, BUILTIN, f1, f2} \intersect Nat = {}

\* What they register is told apart by its name.
ASSUME ToolsDiffer == {c, NONE} \intersect {t1, t2} = {}

\* Sets that several parts use, or that TLC needs often: it evaluates them once.
Pair == {d1, d2}
Workers == {d1, d2, d3}
Programs == {p1, p2}
Keys == {a, b, c}
Bases == {a, b}
Trees == {t1, t2}

\* The Lua files in their order, what an owner registers, and what the options allow.
Files == <<f1, f2>>
ToolNames == {t1, t2}
Batches == {{}, {t1}, {c, t2}}
Policies == {[allow |-> {NONE}, exclude |-> {}], [allow |-> {t1, t2}, exclude |-> {t2}]}

ProcessOf(w) == IF w = d3 THEN p2 ELSE p1

Block(type, id, by) == [type |-> type, id |-> id, by |-> by]
Message(role, content) == [role |-> role, content |-> content]
Text == Block("text", 0, "none")

\* A prompt; and two rounds of tools with reasoning of two services, a
\* steering message between them and a message that joins results and text.
Histories ==
  { <<Message("user", <<Text>>)>>,
    <<Message("user", <<Text>>),
      Message("assistant", <<Block("thinking", 0, "anthropic"), Text,
                             Block("call", 1, "none"), Block("call", 2, "none")>>),
      Message("user", <<Block("result", 1, "none"), Block("result", 2, "none")>>),
      Message("user", <<Text>>),
      Message("assistant", <<Block("thinking", 0, "openai"), Text, Block("call", 3, "none")>>),
      Message("user", <<Block("result", 3, "none"), Text>>)>> }

Number(n) == [numeric |-> TRUE, value |-> n]
Word(n) == [numeric |-> FALSE, value |-> n]
Version(semver, core, pre) == [semver |-> semver, core |-> core, pre |-> pre]

\* 1.0.0-alpha, 1.0.0-alpha.2 and 1.0.0.
Releases ==
  << Version(TRUE, <<1, 0, 0>>, <<Word(1)>>), Version(TRUE, <<1, 0, 0>>, <<Word(1), Number(2)>>),
     Version(TRUE, <<1, 0, 0>>, <<>>) >>

\* A build that no release was.
Development == {Version(FALSE, <<0, 0, 0>>, <<>>)}

Pressed(bytes, keys) == [bytes |-> bytes, keys |-> keys, clean |-> TRUE]
Unclear(bytes) == [bytes |-> bytes, keys |-> <<>>, clean |-> FALSE]
Event(kind, name, data) == <<[kind |-> kind, name |-> name, data |-> data]>>
Csi(bytes) == <<27, 91>> \o bytes

\* x, a rune of two bytes, Enter, Up, Alt-Right, F1, Alt-B, Return and Up in a paste,
\* mouse events of three encodings, Ctrl-A, the release of a key, A and Shift-Enter
\* of two keyboard protocols; Escape, and mouse events and a paste without an end.
Items ==
  { Pressed(<<120>>, Event("text", "", <<120>>)), Pressed(<<195, 169>>, Event("text", "", <<233>>)),
    Pressed(<<13>>, Event("key", "enter", <<>>)), Pressed(Csi(<<65>>), Event("key", "up", <<>>)),
    Pressed(Csi(<<49, 59, 51, 67>>), Event("key", "alt+right", <<>>)),
    Pressed(<<27, 79, 80>>, Event("key", "f1", <<>>)), Pressed(<<27, 98>>, Event("key", "alt+left", <<>>)),
    Pressed(Csi(<<50, 48, 48, 126, 13>>) \o Csi(<<65>>) \o Csi(<<50, 48, 49, 126>>),
          Event("paste", "", <<13>> \o Csi(<<65>>))),
    Pressed(Csi(<<77, 32, 34, 33>>), Event("mouse", "press", <<0, 0, 1, 0>>)),
    Pressed(Csi(<<60, 48, 59, 50, 59, 49, 109>>), Event("mouse", "release", <<0, 0, 1, 0>>)),
    Pressed(Csi(<<60, 54, 53, 59, 49, 59, 49, 77>>), Event("key", "scroll+down", <<>>)),
    Pressed(Csi(<<57, 55, 59, 53, 117>>), Event("key", "ctrl+a", <<>>)),
    Pressed(Csi(<<57, 55, 59, 49, 58, 51, 117>>), <<>>),
    Pressed(Csi(<<57, 55, 58, 54, 53, 59, 50, 117>>), Event("text", "", <<65>>)),
    Pressed(Csi(<<50, 55, 59, 50, 59, 49, 51, 126>>), Event("key", "newline", <<>>)),
    Unclear(<<27>>), Unclear(Csi(<<77, 33>>)), Unclear(Csi(<<60, 49>>)), Unclear(Csi(<<50, 48, 48, 126>>)) }

\* A replacement, one that makes two letters of one, a removal, one of two letters, and a write.
Tools ==
  LET Change(old, new) == [old |-> old, new |-> new]
  IN { Change(<<"x">>, <<"y">>), Change(<<"y">>, <<"x", "z">>), Change(<<"z">>, <<>>),
       Change(<<"x", "y">>, <<"z">>), Change(<<>>, <<"z", "z">>) }

\* Files of up to three letters.
Contents == UNION {[1..n -> {"x", "y", "z"}] : n \in 0..3}

\* Lines that are empty, that fit, that no result can hold and that cannot be scanned.
Lines == {[size |-> n, text |-> TRUE] : n \in {0, 1, 2, 4, 5}} \cup {[size |-> 1, text |-> FALSE]}

Listings == { [of |-> p1, scope |-> "x"], [of |-> p1, scope |-> "y"], [of |-> p2, scope |-> "y"] }

Cred ==
  INSTANCE Credentials WITH file <- s1, live <- s2, spentBy <- s3, issued <- s4,
    aged <- s5, at <- s6, task <- s7, crossed <- s8, ops <- s9, failures <- s10,
    Worker <- Workers, Process <- Programs, ProcessOf <- ProcessOf, Made <- {1, 2},
    Key <- Keys, Mcp <- {c}, HasLegacy <- {a}, Nothing <- Unset, MaxOps <- 2,
    MaxAged <- 2, MaxFailures <- 1

Pkg ==
  INSTANCE PackageStore WITH files <- s1, state <- s2, lock <- s3, pc <- s4,
    op <- s5, changed <- s6, ops <- s7, failures <- s8, crashes <- s9,
    changes <- s10, Process <- Pair, Base <- Bases, Overlap <- FALSE, MaxOps <- 3,
    MaxFailures <- 2, MaxCrashes <- 2, MaxChanges <- 1

Goals ==
  INSTANCE Goal WITH stored <- s1, goal <- s2, persisted <- s3, sessionID <- s4,
    haltRun <- s5, completionRun <- s6, finalTurn <- s7, failed <- s8, host <- s9,
    hook <- s10, command <- s11, wake <- s12, run <- s13, requests <- s14,
    home <- s15, slipped <- s16, used <- s17, Sessions <- Pair, MaxGoals <- 2,
    Limits <- {0, 1}, TurnsPerStep <- 1, NoProgressLimit <- 1, MaxTurns <- 1,
    MaxCommands <- 2, MaxFailures <- 1, MaxChanges <- 1

Teams ==
  INSTANCE Helpers WITH batch <- s1, request <- s2, lead <- s3, tree <- s4,
    leadHead <- s5, phase <- s6, task <- s7, limit <- s8, spent <- s9,
    result <- s10, canceled <- s11, usage <- s12, Task <- Pair, Tree <- Trees,
    MaxConcurrency <- 1, TurnLimit <- {0, 2}, CostLimit <- {0, 2}, Turns <- 2,
    MaxMoves <- 1

Ext ==
  INSTANCE Extensions WITH registry <- s1, batch <- s2, lua <- s3, loader <- s4,
    closing <- s5, policy <- s6, stage <- s7, manager <- s8, conns <- s9,
    server <- s10, reload <- s11, running <- s12, call <- s13, Tool <- ToolNames,
    Command <- {c}, Remote <- {t2}, Direct <- {}, LoadOrder <- Files, Call <- {a},
    Policy <- Policies, Batch <- Batches, MaxReloads <- 1, NONE <- NONE,
    BUILTIN <- BUILTIN

Mons ==
  INSTANCE Monitor WITH record <- s1, listed <- s2, order <- s3, kind <- s4,
    process <- s5, open <- s6, matched <- s7, starter <- s8, watch <- s9,
    stopper <- s10, closing <- s11, flight <- s12, told <- s13, wakes <- s14,
    Mon <- Pair, MaxCompleted <- 1

Answers ==
  INSTANCE Streams WITH dialect <- s1, authorizes <- s2, history <- s3, wire <- s4,
    pc <- s5, tried <- s6, items <- s7, slots <- s8, shown <- s9, answer <- s10,
    Dialect <- {"openai", "anthropic", "openrouter"}, Histories <- Histories,
    MaxItems <- 2, MaxPieces <- 2

Ups ==
  INSTANCE Upgrade WITH os <- s1, clock <- s2, stamp <- s3, exe <- s4, backup <- s5,
    temps <- s6, proc <- s7, starts <- s8, losses <- s9, Process <- Pair,
    Release <- Releases, Dev <- Development, MaxUint <- 2, Interval <- 1,
    MaxClock <- 1, MaxStarts <- 2, MaxPowerLosses <- 1

Terminal ==
  INSTANCE TuiLoop WITH events <- s1, loop <- s2, ui <- s3, retained <- s4,
    session <- s5, run <- s6, queue <- s7, jobs <- s8, wake <- s9, delivered <- s10,
    commands <- s11, deltas <- s12, failures <- s13, Wake <- {a, b}, Guarded <- {a},
    Typed <- {t1}, BufferSize <- 3, MaxSessions <- 2, MaxCommands <- 2,
    MaxDeltas <- 1, MaxFailures <- 1

Pane ==
  INSTANCE Herdr WITH agent <- s1, question <- s2, reporter <- s3, closing <- s4,
    queue <- s5, worker <- s6, seq <- s7, pane <- s8, switches <- s9,
    Question <- Pair, Model <- {1, 2}, Id <- {0, 1}, MaxTurns <- 1, MaxSwitches <- 1

Screen ==
  INSTANCE TuiScreen WITH phase <- s1, screen <- s2, delta <- s3, modal <- s4,
    modalQueue <- s5, mail <- s6, asker <- s7, done <- s8, reply <- s9,
    agent <- s10, bounds <- s11, Call <- {a}, Question <- {}, NONE <- Unset,
    MaxPrompts <- 1, MaxTurns <- 2, MaxDeltas <- 2, MaxNotices <- 1, MaxKeys <- 0

Prompts ==
  INSTANCE TuiScreen WITH phase <- s1, screen <- s2, delta <- s3, modal <- s4,
    modalQueue <- s5, mail <- s6, asker <- s7, done <- s8, reply <- s9,
    agent <- s10, bounds <- s11, Call <- {a}, Question <- {}, NONE <- Unset,
    MaxPrompts <- 2, MaxTurns <- 2, MaxDeltas <- 2, MaxNotices <- 0, MaxKeys <- 0

Keyboard ==
  INSTANCE TermInput WITH sent <- s1, taken <- s2, parser <- s3, timer <- s4,
    flushes <- s5, over <- s6, Item <- Items, MaxItems <- 2, MaxFlushes <- 1

Editing ==
  INSTANCE Composer WITH ed <- s1, history <- s2, menu <- s3, selected <- s4,
    help <- s5, dismissed <- s6, active <- s7, foreign <- s8, pressed <- s9,
    Rune <- {"/", "h", "e", " ", "nl", "W"}, Wide <- {"W"},
    WordRune <- {"h", "e", "W"}, Names <- << <<"e">>, <<"h">>, <<"h", "e">> >>,
    Help <- <<"h">>, Texts <- {<<"h", "W", "e", "nl", "h", "nl", "W", "h">>},
    MaxText <- 4, MaxKeys <- 5

Edits ==
  INSTANCE FileEdits WITH file <- s1, call <- s2, crossed <- s3, done <- s4,
    failures <- s5, Call <- {a, b}, Operation <- Tools, Content <- Contents,
    Absent <- Unset, MaxFailures <- 1

Paging ==
  INSTANCE ReadPages WITH file <- s1, next <- s2, shown <- s3, cut <- s4,
    last <- s5, Line <- Lines, MaxLines <- 4, ContentLimit <- 3, MaxLineBytes <- 5

Shell ==
  INSTANCE Command WITH ctx <- s1, shell <- s2, reaped <- s3, child <- s4,
    grouped <- s5, holds <- s6, pipe <- s7, written <- s8, kept <- s9, cut <- s10,
    waiting <- s11, error <- s12, inTime <- s13, watcher <- s14, caller <- s15,
    result <- s16, Limit <- 2, PipeSize <- 1, MaxOutput <- 3

Costs ==
  INSTANCE Prices WITH now <- s1, offer <- s2, file <- s3, snap <- s4, lock <- s5,
    call <- s6, asked <- s7, fetched <- s8, failures <- s9, Caller <- Pair,
    Estimator <- {c}, Bundled <- BUILTIN, Ttl <- 2, MaxTime <- 3, MaxVersions <- 2,
    MaxFailures <- 1

Listed ==
  INSTANCE ModelCache WITH now <- s1, offer <- s2, file <- s3, readable <- s4,
    mem <- s5, call <- s6, saver <- s7, failures <- s8, Program <- Programs,
    Call <- Listings, Scope <- {"x", "y"}, Bundled <- BUILTIN, Ttl <- 1,
    MaxTime <- 1, MaxOffers <- 1, MaxFailures <- 1

Asked ==
  INSTANCE TuiScreen WITH phase <- s1, screen <- s2, delta <- s3, modal <- s4,
    modalQueue <- s5, mail <- s6, asker <- s7, done <- s8, reply <- s9,
    agent <- s10, bounds <- s11, Call <- {}, Question <- Pair, NONE <- Unset,
    MaxPrompts <- 0, MaxTurns <- 0, MaxDeltas <- 0, MaxNotices <- 0, MaxKeys <- 1

Init ==
  \/ part = "credentials" /\ Cred!Init
     /\ s11 = 0 /\ s12 = 0 /\ s13 = 0 /\ s14 = 0 /\ s15 = 0 /\ s16 = 0 /\
     s17 = 0
  \/ part = "packages" /\ Pkg!Init
     /\ s11 = 0 /\ s12 = 0 /\ s13 = 0 /\ s14 = 0 /\ s15 = 0 /\ s16 = 0 /\
     s17 = 0
  \/ part = "goal" /\ Goals!Init
  \/ part = "helpers" /\ Teams!Init
     /\ s13 = 0 /\ s14 = 0 /\ s15 = 0 /\ s16 = 0 /\ s17 = 0
  \/ part = "extensions" /\ Ext!Init
     /\ s14 = 0 /\ s15 = 0 /\ s16 = 0 /\ s17 = 0
  \/ part = "monitor" /\ Mons!Init
     /\ s15 = 0 /\ s16 = 0 /\ s17 = 0
  \/ part = "streams" /\ Answers!Init
     /\ s11 = 0 /\ s12 = 0 /\ s13 = 0 /\ s14 = 0 /\ s15 = 0 /\ s16 = 0 /\
     s17 = 0
  \/ part = "upgrade" /\ Ups!Init
     /\ s10 = 0 /\ s11 = 0 /\ s12 = 0 /\ s13 = 0 /\ s14 = 0 /\ s15 = 0 /\
     s16 = 0 /\ s17 = 0
  \/ part = "terminal" /\ Terminal!Init
     /\ s14 = 0 /\ s15 = 0 /\ s16 = 0 /\ s17 = 0
  \/ part = "herdr" /\ Pane!Init
     /\ s10 = 0 /\ s11 = 0 /\ s12 = 0 /\ s13 = 0 /\ s14 = 0 /\ s15 = 0 /\
     s16 = 0 /\ s17 = 0
  \/ part = "screen" /\ Screen!Init
     /\ s12 = 0 /\ s13 = 0 /\ s14 = 0 /\ s15 = 0 /\ s16 = 0 /\ s17 = 0
  \/ part = "prompts" /\ Prompts!Init
     /\ s12 = 0 /\ s13 = 0 /\ s14 = 0 /\ s15 = 0 /\ s16 = 0 /\ s17 = 0
  \/ part = "keys" /\ Keyboard!Init
     /\ s7 = 0 /\ s8 = 0 /\ s9 = 0 /\ s10 = 0 /\ s11 = 0 /\ s12 = 0 /\ s13 = 0
     /\ s14 = 0 /\ s15 = 0 /\ s16 = 0 /\ s17 = 0
  \/ part = "composer" /\ Editing!Init
     /\ s10 = 0 /\ s11 = 0 /\ s12 = 0 /\ s13 = 0 /\ s14 = 0 /\ s15 = 0 /\
     s16 = 0 /\ s17 = 0
  \/ part = "edits" /\ Edits!Init
     /\ s6 = 0 /\ s7 = 0 /\ s8 = 0 /\ s9 = 0 /\ s10 = 0 /\ s11 = 0 /\ s12 = 0 /\
     s13 = 0 /\ s14 = 0 /\ s15 = 0 /\ s16 = 0 /\ s17 = 0
  \/ part = "pages" /\ Paging!Init
     /\ s6 = 0 /\ s7 = 0 /\ s8 = 0 /\ s9 = 0 /\ s10 = 0 /\ s11 = 0 /\ s12 = 0 /\
     s13 = 0 /\ s14 = 0 /\ s15 = 0 /\ s16 = 0 /\ s17 = 0
  \/ part = "shell" /\ Shell!Init
     /\ s17 = 0
  \/ part = "prices" /\ Costs!Init
     /\ s10 = 0 /\ s11 = 0 /\ s12 = 0 /\ s13 = 0 /\ s14 = 0 /\ s15 = 0 /\
     s16 = 0 /\ s17 = 0
  \/ part = "models" /\ Listed!Init
     /\ s9 = 0 /\ s10 = 0 /\ s11 = 0 /\ s12 = 0 /\ s13 = 0 /\ s14 = 0 /\ s15 = 0
     /\ s16 = 0 /\ s17 = 0
  \/ part = "questions" /\ Asked!Init
     /\ s12 = 0 /\ s13 = 0 /\ s14 = 0 /\ s15 = 0 /\ s16 = 0 /\ s17 = 0

Next ==
  \/ part = "credentials" /\ Cred!Next
     /\ UNCHANGED <<part, s11, s12, s13, s14, s15, s16, s17>>
  \/ part = "packages" /\ Pkg!Next
     /\ UNCHANGED <<part, s11, s12, s13, s14, s15, s16, s17>>
  \/ part = "goal" /\ Goals!Next
     /\ UNCHANGED <<part>>
  \/ part = "helpers" /\ Teams!Next
     /\ UNCHANGED <<part, s13, s14, s15, s16, s17>>
  \/ part = "extensions" /\ Ext!Next
     /\ UNCHANGED <<part, s14, s15, s16, s17>>
  \/ part = "monitor" /\ Mons!Next
     /\ UNCHANGED <<part, s15, s16, s17>>
  \/ part = "streams" /\ Answers!Next
     /\ UNCHANGED <<part, s11, s12, s13, s14, s15, s16, s17>>
  \/ part = "upgrade" /\ Ups!Next
     /\ UNCHANGED <<part, s10, s11, s12, s13, s14, s15, s16, s17>>
  \/ part = "terminal" /\ Terminal!Next
     /\ UNCHANGED <<part, s14, s15, s16, s17>>
  \/ part = "herdr" /\ Pane!Next
     /\ UNCHANGED <<part, s10, s11, s12, s13, s14, s15, s16, s17>>
  \/ part = "screen" /\ Screen!Next
     /\ UNCHANGED <<part, s12, s13, s14, s15, s16, s17>>
  \/ part = "prompts" /\ Prompts!Next
     /\ UNCHANGED <<part, s12, s13, s14, s15, s16, s17>>
  \/ part = "keys" /\ Keyboard!Next
     /\ UNCHANGED <<part, s7, s8, s9, s10, s11, s12, s13, s14, s15, s16, s17>>
  \/ part = "composer" /\ Editing!Next
     /\ UNCHANGED <<part, s10, s11, s12, s13, s14, s15, s16, s17>>
  \/ part = "edits" /\ Edits!Next
     /\ UNCHANGED <<part, s6, s7, s8, s9, s10, s11, s12, s13, s14, s15, s16, s17>>
  \/ part = "pages" /\ Paging!Next
     /\ UNCHANGED <<part, s6, s7, s8, s9, s10, s11, s12, s13, s14, s15, s16, s17>>
  \/ part = "shell" /\ Shell!Next
     /\ UNCHANGED <<part, s17>>
  \/ part = "prices" /\ Costs!Next
     /\ UNCHANGED <<part, s10, s11, s12, s13, s14, s15, s16, s17>>
  \/ part = "models" /\ Listed!Next
     /\ UNCHANGED <<part, s9, s10, s11, s12, s13, s14, s15, s16, s17>>
  \/ part = "questions" /\ Asked!Next
     /\ UNCHANGED <<part, s12, s13, s14, s15, s16, s17>>

Spec == Init /\ [][Next]_vars

\* No refresh token is submitted twice, where the mutex of an authorizer or the
\* lock of the MCP store covers its use, and the stored credential is the live one
\* (credentials/store.go, mcpoauth/authorizer.go, providerauth/authorizer.go).
CredentialsSafe == part = "credentials" => Cred!TypeOK /\ Cred!SubmittedOnce /\ Cred!StoredIsLive

\* One operation at a time after a death, and whatever the deaths leave, the next
\* operation makes files and state agree again (extpkg/store.go: lock, recover).
PackagesSafe ==
  part = "packages" => /\ Pkg!TypeOK /\ Pkg!OneAtATime
                       /\ Pkg!RecoveryIsComplete /\ Pkg!UntouchedIsRecoverable

\* An operation that returns, with an error or without, leaves files and state
\* that agree, but for a package it could not remove or move back (extpkg/store.go:
\* Install, Update, Remove).
ReturnsConsistent == [][part = "packages" => Pkg!ConsistentReturn]_vars

\* The limits of a goal hold, a goal that is over is not worked on, and an active
\* one is (officialext/goal/goal.go).
GoalSafe == part = "goal" => Goals!GoalSafe /\ Goals!ActiveIsWorkedOn

\* The second run of a helper gets what is left of its budget, a result reported
\* complete can be integrated, and a batch is over when it is reported
\* (team.go: runTask, applyRemainingBudget, auditWriter).
HelpersSafe == part = "helpers" => Teams!HelpersSafe

\* What an owner registered goes with it and only that, no call enters a closed
\* owner, and the policy of the options holds (extension/types.go, luaext).
ExtensionsSafe == part = "extensions" => Ext!ExtensionsSafe

\* A monitor is announced, finished and, for its exit, reported to the agent at
\* most once, a stopped one does not finish as anything else, and an active one is
\* listed and watched (officialext/monitor/monitor.go: stop, finish, pruneLocked).
MonitorSafe == part = "monitor" => Mons!MonitorSafe

\* Whatever pieces a provider streams, the answer has each once and in order, what
\* was shown is kept, and in a request every call meets its result, as each service
\* demands (provider/openai, provider/anthropic, provider/openrouter).
StreamsSafe == part = "streams" => Answers!StreamsSafe

\* Wherever a process or the power dies, the executable of notch runs, what is
\* installed is later than what asked for it, and no temporary file is left behind
\* (upgrade/upgrade.go: replaceExecutable; semver.go; auto.go). Prices are fetched
\* once per TTL and told with the version they are of (pricing/service.go), and no
\* model that is known is forgotten (modelregistry/registry.go).
UpdatesSafe ==
  /\ part = "upgrade" => Ups!UpgradeSafe
  /\ part = "prices" => Costs!PricesSafe
  /\ part = "models" => Listed!CacheSafe

\* Edits of one file that do not cross are as if each were one step, whoever follows
\* the offsets of the read tool sees every line (tools/tools.go), and a command
\* that is reported as successful was, with all its output (process/process.go).
ToolsSafe ==
  /\ part = "edits" => Edits!EditsSafe
  /\ part = "pages" => Paging!ReadSafe
  /\ part = "shell" => Shell!CommandSafe

\* What the terminal believes to run does; of a follow-up there is one copy, and a
\* guarded one is read in its own session (tui/app.go: FollowUpFor, finishPrompt).
\* The indexes into the transcript lead to their entries, nothing seems to be at
\* work between prompts, and no question of an extension is forgotten
\* (handleAgentEvent, removeTranscriptEntry, cancelHostRequest). However the bytes
\* of a key are split, it is the key that was pressed (input.go: Feed); and keys
\* undo one another and choose among the commands that are shown (editor.go).
TerminalSafe ==
  /\ part = "terminal" => /\ Terminal!TypeOK /\ Terminal!BusyIsBusy
                          /\ Terminal!OnePlace /\ Terminal!OwnSession
  /\ part = "screen" => Screen!ScreenSafe
  /\ part = "prompts" => Prompts!ScreenSafe
  /\ part = "questions" => Asked!ScreenSafe
  /\ part = "keys" => Keyboard!TermInputSafe
  /\ part = "composer" => Editing!ComposerSafe

\* However reports replace one another on their way, the pane shows what the agent
\* does when all is quiet, and it is released last (herdr/herdr.go).
HerdrSafe == part = "herdr" => Pane!HerdrSafe

\* The members of this set are not told apart by any part.
Symmetry == Permutations(Pair)

=============================================================================
