-------------------------- MODULE MCServicesProofs --------------------------
(***************************************************************************)
(* Proofs about MCServices: what ServiceProofs and ToolProofs prove of a   *)
(* component holds of the part that runs it.  A step of the composition is *)
(* a step of the part that runs, so the inductive invariant of the         *)
(* component, while its part runs, is one of the composition.              *)
(***************************************************************************)
EXTENDS MCServices, FiniteSetTheorems, TLAPS

----------------------------------------
(* What is proved, for the parameters that MCServices gives each part.     *)

Svc ==
  INSTANCE ServiceProofs WITH
    keyFile <- s1, live <- s2, spentBy <- s3, issued <- s4, aged <- s5, place <- s6,
      task <- s7, crossed <- s8, ops <- s9, failures <- s10, Worker <- Workers,
      Process <- Programs, ProcessOf <- ProcessOf, Made <- {1, 2}, Key <- Keys,
      Mcp <- {c}, HasLegacy <- {a}, Nothing <- Unset, MaxOps <- 2, MaxAged <- 2,
      MaxFailures <- 1,
    stored <- s1, goal <- s2, persisted <- s3, sessionID <- s4, haltRun <- s5,
      completionRun <- s6, finalTurn <- s7, failed <- s8, host <- s9, hook <- s10,
      command <- s11, wake <- s12, run <- s13, requests <- s14, home <- s15,
      slipped <- s16, used <- s17, Sessions <- Pair, MaxGoals <- 2,
      Limits <- {0, 1}, TurnsPerStep <- 1, NoProgressLimit <- 1, MaxRequests <- 1,
      MaxCommands <- 2, MaxRefusals <- 1, MaxChanges <- 1,
    record <- s1, listed <- s2, order <- s3, kind <- s4, process <- s5, open <- s6,
      matched <- s7, starter <- s8, watch <- s9, stopper <- s10, closing <- s11,
      flight <- s12, reported <- s13, wakes <- s14, Mon <- Pair, MaxCompleted <- 1,
    os <- s1, clock <- s2, stamp <- s3, exe <- s4, backup <- s5, temps <- s6,
      proc <- s7, starts <- s8, losses <- s9, Upgrader <- Pair, Release <- Releases,
      Dev <- Development, MaxUint <- 2, Interval <- 1, MaxClock <- 1,
      MaxStarts <- 2, MaxPowerLosses <- 1,
    agent <- s1, question <- s2, reporter <- s3, release <- s4, queue <- s5,
      worker <- s6, seq <- s7, pane <- s8, switches <- s9, Question <- Pair,
      Model <- {1, 2}, Id <- {0, 1}, MaxTurns <- 1, MaxSwitches <- 1,
    moment <- s1, offer <- s2, snapshot <- s3, snap <- s4, lock <- s5, call <- s6,
      asked <- s7, fetched <- s8, fetchFailures <- s9, Caller <- Pair,
      Estimator <- {c}, Bundled <- BUILTIN, Ttl <- 2, MaxTime <- 3,
      MaxVersions <- 2, MaxFetchFailures <- 1,
    today <- s1, models <- s2, lists <- s3, readable <- s4, mem <- s5,
      listing <- s6, saver <- s7, listFailures <- s8, Program <- Programs,
      Call <- Listings, Scope <- {"x", "y"}, Builtin <- BUILTIN, Fresh <- 1,
      MaxAge <- 1, MaxOffers <- 1, MaxListFailures <- 1

Tool ==
  INSTANCE ToolProofs WITH
    files <- s1, state <- s2, lock <- s3, pc <- s4, work <- s5, changed <- s6,
      ops <- s7, failures <- s8, crashes <- s9, changes <- s10, Process <- Pair,
      Base <- Bases, Overlap <- FALSE, MaxOps <- 3, MaxFailures <- 2,
      MaxCrashes <- 2, MaxChanges <- 1,
    batch <- s1, request <- s2, lead <- s3, tree <- s4, leadHead <- s5, phase <- s6,
      task <- s7, limit <- s8, spent <- s9, result <- s10, canceled <- s11,
      usage <- s12, Task <- Pair, Tree <- Trees, MaxConcurrency <- 1,
      TurnLimit <- {0, 2}, CostLimit <- {0, 2}, Turns <- 2, MaxMoves <- 1,
    registry <- s1, owned <- s2, lua <- s3, loader <- s4, closing <- s5,
      policy <- s6, stage <- s7, manager <- s8, conns <- s9, server <- s10,
      reload <- s11, running <- s12, calls <- s13, Tool <- ToolNames,
      Command <- {c}, Remote <- {t2}, Direct <- {}, LoadOrder <- Files,
      Caller <- {a}, Policy <- Policies, Batch <- Batches, MaxReloads <- 1,
      NONE <- NONE, BUILTIN <- BUILTIN,
    file <- s1, call <- s2, crossed <- s3, done <- s4, writeFailures <- s5,
      Call <- {a, b}, Operation <- Tools, Content <- Contents, Absent <- Unset,
      MaxWriteFailures <- 1,
    text <- s1, next <- s2, shown <- s3, cut <- s4, page <- s5, Line <- Lines,
      MaxLines <- 4, ContentLimit <- 3, MaxLineBytes <- 5,
    ctx <- s1, shell <- s2, reaped <- s3, child <- s4, grouped <- s5, holds <- s6,
      pipe <- s7, written <- s8, kept <- s9, dropped <- s10, waiting <- s11,
      error <- s12, inTime <- s13, watcher <- s14, caller <- s15, status <- s16,
      Limit <- 2, PipeSize <- 1, MaxOutput <- 3

(* The parts of MCServices are instances of the components themselves.  They *)
(* mean the same, since their definitions do, name by name.                  *)

LEMMA SameCreds ==
    /\ Cred!Init <=> Svc!Cred!Init
    /\ Cred!Next <=> Svc!Cred!Next
    /\ Cred!TypeOK <=> Svc!Cred!TypeOK
    /\ Cred!SubmittedOnce <=> Svc!Cred!SubmittedOnce
    /\ Cred!StoredIsLive <=> Svc!Cred!StoredIsLive
  BY ZenonT(90) DEF Cred!server, Cred!bounds, Cred!vars, Cred!Legacy, Cred!Entry,
    Cred!KeyOf, Cred!File, Cred!MaxToken, Cred!Token, Cred!Empty, Cred!NoTask,
    Cred!Goto, Cred!Returns, Cred!Refreshing, Cred!Resolving, Cred!SameAuthorizer,
    Cred!Through, Cred!AuthorizerFree, Cred!FileLockFree, Cred!Changing,
    Cred!StoreFree, Cred!Begin, Cred!Request, Cred!Login, Cred!Logout,
    Cred!NeedsRefresh, Cred!Resolve, Cred!ToMigrate, Cred!Look, Cred!Relook,
    Cred!Rotate, Cred!Submit, Cred!SubmitFails, Cred!SendAccepted, Cred!SendRejected,
    Cred!Age, Cred!Reads, Cred!ReadFile, Cred!Migrate, Cred!Replace, Cred!Write,
    Cred!MigrateWrite, Cred!WriteFails, Cred!Changed, Cred!FirstTokens, Cred!Init,
    Cred!Step, Cred!Quiet, Cred!Next, Cred!TypeOK, Cred!Undisturbed,
    Cred!SubmittedOnce, Cred!StoredIsLive, Cred!Cardinality, Cred!IsInjective,
    Svc!Cred!server, Svc!Cred!bounds, Svc!Cred!vars,
    Svc!Cred!Legacy, Svc!Cred!Entry, Svc!Cred!KeyOf, Svc!Cred!File,
    Svc!Cred!MaxToken, Svc!Cred!Token, Svc!Cred!Empty,
    Svc!Cred!NoTask, Svc!Cred!Goto, Svc!Cred!Returns,
    Svc!Cred!Refreshing, Svc!Cred!Resolving, Svc!Cred!SameAuthorizer,
    Svc!Cred!Through, Svc!Cred!AuthorizerFree, Svc!Cred!FileLockFree,
    Svc!Cred!Changing, Svc!Cred!StoreFree, Svc!Cred!Begin,
    Svc!Cred!Request, Svc!Cred!Login, Svc!Cred!Logout,
    Svc!Cred!NeedsRefresh, Svc!Cred!Resolve, Svc!Cred!ToMigrate,
    Svc!Cred!Look, Svc!Cred!Relook, Svc!Cred!Rotate,
    Svc!Cred!Submit, Svc!Cred!SubmitFails, Svc!Cred!SendAccepted,
    Svc!Cred!SendRejected, Svc!Cred!Age, Svc!Cred!Reads,
    Svc!Cred!ReadFile, Svc!Cred!Migrate, Svc!Cred!Replace,
    Svc!Cred!Write, Svc!Cred!MigrateWrite, Svc!Cred!WriteFails,
    Svc!Cred!Changed, Svc!Cred!FirstTokens, Svc!Cred!Init,
    Svc!Cred!Step, Svc!Cred!Quiet, Svc!Cred!Next, Svc!Cred!TypeOK,
    Svc!Cred!Undisturbed, Svc!Cred!SubmittedOnce, Svc!Cred!StoredIsLive,
    Svc!Cred!Cardinality, Svc!Cred!IsInjective

LEMMA SameGoals ==
    /\ Goals!Init <=> Svc!Goals!Init
    /\ Goals!Next <=> Svc!Goals!Next
    /\ Goals!GoalSafe <=> Svc!Goals!GoalSafe
    /\ Goals!ActiveIsWorkedOn <=> Svc!Goals!ActiveIsWorkedOn
  BY ZenonT(90) DEF Goals!fields, Goals!flags, Goals!ghosts, Goals!vars, Goals!None,
    Goals!NoRun, Goals!NoHook, Goals!NoCommand, Goals!Init, Goals!Started, Goals!Spend,
    Goals!PersistAs, Goals!Keep, Goals!Paused, Goals!Recorded, Goals!Persist,
    Goals!Restored, Goals!Refresh, Goals!RefreshFailed, Goals!UserCommand,
    Goals!CommandRefreshes, Goals!NewGoal, Goals!StartGoal, Goals!CommandStarts,
    Goals!Exhausted, Goals!CommandResumes, Goals!CommandClears, Goals!CommandFollowsUp,
    Goals!CommandPauses, Goals!RunStarts, Goals!Ending, Goals!Requesting,
    Goals!BeforeGoalTurn, Goals!BeforeAgent, Goals!BeforeAgentRefreshed, Goals!StartTool,
    Goals!ProgressTool, Goals!CompleteTool, Goals!ToolDenied, Goals!TurnEnds,
    Goals!TurnStops, Goals!Stepped, Goals!AgentEnd, Goals!RunEnd, Goals!SessionChanges,
    Goals!HookReads, Goals!HookApplies, Goals!Restarts, Goals!Quiet, Goals!Next,
    Goals!Statuses, Goals!TypeOK, Goals!MemoryIsRecorded, Goals!GoalStaysHome,
    Goals!CeilingsHold, Goals!HaltsInTime, Goals!GoalSafe, Goals!ActiveIsWorkedOn,
    Goals!Cardinality, Svc!Goals!fields, Svc!Goals!flags, Svc!Goals!ghosts,
    Svc!Goals!vars, Svc!Goals!None, Svc!Goals!NoRun, Svc!Goals!NoHook,
    Svc!Goals!NoCommand, Svc!Goals!Init, Svc!Goals!Started,
    Svc!Goals!Spend, Svc!Goals!PersistAs, Svc!Goals!Keep,
    Svc!Goals!Paused, Svc!Goals!Recorded, Svc!Goals!Persist,
    Svc!Goals!Restored, Svc!Goals!Refresh, Svc!Goals!RefreshFailed,
    Svc!Goals!UserCommand, Svc!Goals!CommandRefreshes, Svc!Goals!NewGoal,
    Svc!Goals!StartGoal, Svc!Goals!CommandStarts, Svc!Goals!Exhausted,
    Svc!Goals!CommandResumes, Svc!Goals!CommandClears,
    Svc!Goals!CommandFollowsUp, Svc!Goals!CommandPauses, Svc!Goals!RunStarts,
    Svc!Goals!Ending, Svc!Goals!Requesting, Svc!Goals!BeforeGoalTurn,
    Svc!Goals!BeforeAgent, Svc!Goals!BeforeAgentRefreshed,
    Svc!Goals!StartTool, Svc!Goals!ProgressTool, Svc!Goals!CompleteTool,
    Svc!Goals!ToolDenied, Svc!Goals!TurnEnds, Svc!Goals!TurnStops,
    Svc!Goals!Stepped, Svc!Goals!AgentEnd, Svc!Goals!RunEnd,
    Svc!Goals!SessionChanges, Svc!Goals!HookReads, Svc!Goals!HookApplies,
    Svc!Goals!Restarts, Svc!Goals!Quiet, Svc!Goals!Next,
    Svc!Goals!Statuses, Svc!Goals!TypeOK, Svc!Goals!MemoryIsRecorded,
    Svc!Goals!GoalStaysHome, Svc!Goals!CeilingsHold, Svc!Goals!HaltsInTime,
    Svc!Goals!GoalSafe, Svc!Goals!ActiveIsWorkedOn, Svc!Goals!Cardinality

LEMMA SameMonitors ==
    /\ Mons!Init <=> Svc!Mons!Init
    /\ Mons!Next <=> Svc!Mons!Next
    /\ Mons!MonitorSafe <=> Svc!Mons!MonitorSafe
  BY ZenonT(90) DEF Mons!vars, Mons!World, Mons!Hooks, Mons!Kind,
    Mons!Init, Mons!Active, Mons!ActiveOnes, Mons!Exited, Mons!Emit,
    Mons!HooksRun, Mons!Quiet, Mons!Cancel, Mons!Rank, Mons!Spawn,
    Mons!List, Mons!Announce, Mons!Watch, Mons!Fires, Mons!Trigger,
    Mons!WakeUp, Mons!Notifies, Mons!AfterFinish, Mons!Finish,
    Mons!LastWake, Mons!Stopped, Mons!Stop, Mons!StopCancels,
    Mons!Close, Mons!CloseCancels, Mons!Output, Mons!Exit, Mons!LetGo,
    Mons!Goroutines, Mons!Done, Mons!Next, Mons!TypeOK, Mons!OnceEach,
    Mons!StoppedStays, Mons!ActiveIsManaged, Mons!MonitorSafe,
    Mons!Cardinality, Mons!Max, Svc!Mons!vars, Svc!Mons!World,
    Svc!Mons!Hooks, Svc!Mons!Kind, Svc!Mons!Init,
    Svc!Mons!Active, Svc!Mons!ActiveOnes, Svc!Mons!Exited,
    Svc!Mons!Emit, Svc!Mons!HooksRun, Svc!Mons!Quiet,
    Svc!Mons!Cancel, Svc!Mons!Rank, Svc!Mons!Spawn,
    Svc!Mons!List, Svc!Mons!Announce, Svc!Mons!Watch,
    Svc!Mons!Fires, Svc!Mons!Trigger, Svc!Mons!WakeUp,
    Svc!Mons!Notifies, Svc!Mons!AfterFinish, Svc!Mons!Finish,
    Svc!Mons!LastWake, Svc!Mons!Stopped, Svc!Mons!Stop,
    Svc!Mons!StopCancels, Svc!Mons!Close, Svc!Mons!CloseCancels,
    Svc!Mons!Output, Svc!Mons!Exit, Svc!Mons!LetGo,
    Svc!Mons!Goroutines, Svc!Mons!Done, Svc!Mons!Next,
    Svc!Mons!TypeOK, Svc!Mons!OnceEach, Svc!Mons!StoppedStays,
    Svc!Mons!ActiveIsManaged, Svc!Mons!MonitorSafe,
    Svc!Mons!Cardinality, Svc!Mons!Max

LEMMA SamePane ==
    /\ Pane!Init <=> Svc!Pane!Init
    /\ Pane!Next <=> Svc!Pane!Next
    /\ Pane!HerdrSafe <=> Svc!Pane!HerdrSafe
  BY ZenonT(90) DEF Pane!None, Pane!NoHook, Pane!Init, Pane!Report, Pane!Enqueue,
    Pane!Becomes, Pane!BecomesUnblocked, Pane!Started, Pane!StartReporter,
    Pane!SetSessionID, Pane!SetModel, Pane!TurnBegins, Pane!BeginRun, Pane!RunEnds,
    Pane!BeginBlock, Pane!EndBlock, Pane!Shown, Pane!Work, Pane!Send, Pane!CloseBegins,
    Pane!CloseCancels, Pane!Release, Pane!Close, Pane!Next, Pane!TypeOK, Pane!Asked,
    Pane!StateOfAgent, Pane!ShowsTheAgent, Pane!ReleasedLast, Pane!HerdrSafe,
    Pane!Cardinality, Svc!Pane!None, Svc!Pane!NoHook, Svc!Pane!Init,
    Svc!Pane!Report, Svc!Pane!Enqueue, Svc!Pane!Becomes,
    Svc!Pane!BecomesUnblocked, Svc!Pane!Started, Svc!Pane!StartReporter,
    Svc!Pane!SetSessionID, Svc!Pane!SetModel, Svc!Pane!TurnBegins,
    Svc!Pane!BeginRun, Svc!Pane!RunEnds, Svc!Pane!BeginBlock,
    Svc!Pane!EndBlock, Svc!Pane!Shown, Svc!Pane!Work, Svc!Pane!Send,
    Svc!Pane!CloseBegins, Svc!Pane!CloseCancels, Svc!Pane!Release,
    Svc!Pane!Close, Svc!Pane!Next, Svc!Pane!TypeOK, Svc!Pane!Asked,
    Svc!Pane!StateOfAgent, Svc!Pane!ShowsTheAgent, Svc!Pane!ReleasedLast,
    Svc!Pane!HerdrSafe, Svc!Pane!Cardinality

LEMMA SameUpgrades ==
    /\ Ups!Init <=> Svc!Ups!Init
    /\ Ups!Next <=> Svc!Ups!Next
    /\ Ups!UpgradeSafe <=> Svc!Ups!UpgradeSafe
  BY ZenonT(90) DEF Ups!Version, Ups!NoFile, Ups!Here, Ups!NoStamp,
    Ups!Corrupt, Ups!Out, Ups!Init, Ups!At, Ups!GoTo,
    Ups!Over, Ups!Parsed, Ups!CompareIdentifiers, Ups!FirstDifference,
    Ups!Sign, Ups!Shorter, Ups!Compare, Ups!Begin, Ups!Start,
    Ups!Exit, Ups!Die, Ups!Torn, Ups!PowerLoss, Ups!Tick,
    Ups!Due, Ups!IsDevelopmentVersion, Ups!Automatic, Ups!Record,
    Ups!WriteStamp, Ups!RetryStamp, Ups!Wanted, Ups!Lookup,
    Ups!Download, Ups!Temp, Ups!CleanUp, Ups!Create, Ups!Becomes,
    Ups!Write, Ups!Sync, Ups!Taken, Ups!Replace, Ups!Busy,
    Ups!ClearBackup, Ups!MoveAside, Ups!MoveIn, Ups!Undo,
    Ups!DropBackup, Ups!Relaunch, Ups!Next, Ups!TypeOK,
    Ups!Runnable, Ups!Later, Ups!Swept, Ups!UpgradeSafe,
    Svc!Ups!Version, Svc!Ups!NoFile, Svc!Ups!Here,
    Svc!Ups!NoStamp, Svc!Ups!Corrupt, Svc!Ups!Out,
    Svc!Ups!Init, Svc!Ups!At, Svc!Ups!GoTo,
    Svc!Ups!Over, Svc!Ups!Parsed, Svc!Ups!CompareIdentifiers,
    Svc!Ups!FirstDifference, Svc!Ups!Sign, Svc!Ups!Shorter,
    Svc!Ups!Compare, Svc!Ups!Begin, Svc!Ups!Start,
    Svc!Ups!Exit, Svc!Ups!Die, Svc!Ups!Torn,
    Svc!Ups!PowerLoss, Svc!Ups!Tick, Svc!Ups!Due,
    Svc!Ups!IsDevelopmentVersion, Svc!Ups!Automatic,
    Svc!Ups!Record, Svc!Ups!WriteStamp, Svc!Ups!RetryStamp,
    Svc!Ups!Wanted, Svc!Ups!Lookup, Svc!Ups!Download,
    Svc!Ups!Temp, Svc!Ups!CleanUp, Svc!Ups!Create,
    Svc!Ups!Becomes, Svc!Ups!Write, Svc!Ups!Sync,
    Svc!Ups!Taken, Svc!Ups!Replace, Svc!Ups!Busy,
    Svc!Ups!ClearBackup, Svc!Ups!MoveAside, Svc!Ups!MoveIn,
    Svc!Ups!Undo, Svc!Ups!DropBackup, Svc!Ups!Relaunch,
    Svc!Ups!Next, Svc!Ups!TypeOK, Svc!Ups!Runnable,
    Svc!Ups!Later, Svc!Ups!Swept, Svc!Ups!UpgradeSafe

LEMMA SameCosts ==
    /\ Costs!Init <=> Svc!Costs!Init
    /\ Costs!Next <=> Svc!Costs!Next
    /\ Costs!PricesSafe <=> Svc!Costs!PricesSafe
  BY ZenonT(90) DEF Costs!Nothing, Costs!Idle, Costs!Unasked, Costs!Goes, Costs!Ends,
    Costs!Fresh, Costs!Refresh, Costs!Lock, Costs!Fetch, Costs!Fails, Costs!Write,
    Costs!Store, Costs!TakeSnapshot, Costs!Price, Costs!Tick, Costs!Publish, Costs!Restart,
    Costs!Init, Costs!Next, Costs!TypeOK, Costs!OncePerTtl, Costs!MemoryIsKept,
    Costs!PriceIsOfVersion, Costs!PricesSafe, Svc!Costs!Nothing, Svc!Costs!Idle,
    Svc!Costs!Unasked, Svc!Costs!Goes, Svc!Costs!Ends, Svc!Costs!Fresh,
    Svc!Costs!Refresh, Svc!Costs!Lock, Svc!Costs!Fetch, Svc!Costs!Fails,
    Svc!Costs!Write, Svc!Costs!Store, Svc!Costs!TakeSnapshot,
    Svc!Costs!Price, Svc!Costs!Tick, Svc!Costs!Publish,
    Svc!Costs!Restart, Svc!Costs!Init, Svc!Costs!Next, Svc!Costs!TypeOK,
    Svc!Costs!OncePerTtl, Svc!Costs!MemoryIsKept, Svc!Costs!PriceIsOfVersion,
    Svc!Costs!PricesSafe

LEMMA SameListed ==
    /\ Listed!Init <=> Svc!Listed!Init
    /\ Listed!Next <=> Svc!Listed!Next
    /\ Listed!CacheSafe <=> Svc!Listed!CacheSafe
  BY ZenonT(90) DEF Listed!NoEntry, Listed!Empty, Listed!Unloaded, Listed!Idle,
    Listed!Loaded, Listed!Fresh, Listed!Fallback, Listed!Look, Listed!Discover,
    Listed!DiscoverFails, Listed!Remembered, Listed!Store, Listed!Again, Listed!Restart,
    Listed!Tick, Listed!Offers, Listed!Init, Listed!Next, Listed!TypeOK,
    Listed!AnswersAreKnown, Listed!NothingForgotten, Listed!RestartListsTheSame,
    Listed!CacheSafe, Svc!Listed!NoEntry, Svc!Listed!Empty,
    Svc!Listed!Unloaded, Svc!Listed!Idle, Svc!Listed!Loaded,
    Svc!Listed!Fresh, Svc!Listed!Fallback, Svc!Listed!Look,
    Svc!Listed!Discover, Svc!Listed!DiscoverFails, Svc!Listed!Remembered,
    Svc!Listed!Store, Svc!Listed!Again, Svc!Listed!Restart,
    Svc!Listed!Tick, Svc!Listed!Offers, Svc!Listed!Init,
    Svc!Listed!Next, Svc!Listed!TypeOK, Svc!Listed!AnswersAreKnown,
    Svc!Listed!NothingForgotten, Svc!Listed!RestartListsTheSame,
    Svc!Listed!CacheSafe

LEMMA SameStore ==
    /\ Pkg!Init <=> Tool!Pkg!Init
    /\ Pkg!Next <=> Tool!Pkg!Next
    /\ Pkg!TypeOK <=> Tool!Pkg!TypeOK
    /\ Pkg!OneAtATime <=> Tool!Pkg!OneAtATime
    /\ Pkg!RecoveryIsComplete <=> Tool!Pkg!RecoveryIsComplete
    /\ Pkg!UntouchedIsRecoverable <=> Tool!Pkg!UntouchedIsRecoverable
    /\ Pkg!ConsistentReturn <=> Tool!Pkg!ConsistentReturn
  BY ZenonT(90) DEF Pkg!bounds, Pkg!vars, Pkg!Name, Pkg!Backup, Pkg!Removal,
    Pkg!Entry, Pkg!Version, Pkg!Absent, Pkg!Content, Pkg!Tracked, Pkg!Free,
    Pkg!NoOp, Pkg!Goto, Pkg!Set, Pkg!Put, Pkg!Rename, Pkg!Start,
    Pkg!LockCreate, Pkg!LockWrite, Pkg!LockBusy, Pkg!LockStale, Pkg!LockRemove,
    Pkg!Release, Pkg!Fail, Pkg!Load, Pkg!IsMarker, Pkg!IsNext, Pkg!Seen,
    Pkg!Untracked, Pkg!RecoverUntracked, Pkg!RecoverMissing, Pkg!Interrupted,
    Pkg!Unneeded, Pkg!RollsBack, Pkg!RecoverClean, Pkg!RecoverRollBack,
    Pkg!Restore, Pkg!CannotRecover, Pkg!Recovered, Pkg!Finish, Pkg!Dispatch,
    Pkg!Prepare, Pkg!SaveState, Pkg!StepFails, Pkg!InstallRename, Pkg!InstallSave,
    Pkg!InstallUndo, Pkg!SetAside, Pkg!UpdateBackup, Pkg!UpdateRename,
    Pkg!UpdateSave, Pkg!UpdateClean, Pkg!UpdateUndo, Pkg!UpdateRestore,
    Pkg!RemoveRename, Pkg!RemoveSave, Pkg!RemoveClean, Pkg!RemoveUndo,
    Pkg!Removing, Pkg!RemovesPart, Pkg!CleanUpFails, Pkg!Kill, Pkg!UserChanges,
    Pkg!Quiet, Pkg!Init, Pkg!LockStep, Pkg!RecoverStep, Pkg!PackageStep,
    Pkg!Next, Pkg!Outside, Pkg!TypeOK, Pkg!ConsistentAt, Pkg!Consistent,
    Pkg!RecoveryIsComplete, Pkg!ConsistentReturn, Pkg!OneAtATime,
    Pkg!UntouchedIsRecoverable, Pkg!Cardinality, Pkg!Front, Pkg!Last,
    Tool!Pkg!bounds, Tool!Pkg!vars, Tool!Pkg!Name, Tool!Pkg!Backup,
    Tool!Pkg!Removal, Tool!Pkg!Entry, Tool!Pkg!Version, Tool!Pkg!Absent,
    Tool!Pkg!Content, Tool!Pkg!Tracked, Tool!Pkg!Free, Tool!Pkg!NoOp,
    Tool!Pkg!Goto, Tool!Pkg!Set, Tool!Pkg!Put, Tool!Pkg!Rename,
    Tool!Pkg!Start, Tool!Pkg!LockCreate, Tool!Pkg!LockWrite,
    Tool!Pkg!LockBusy, Tool!Pkg!LockStale, Tool!Pkg!LockRemove,
    Tool!Pkg!Release, Tool!Pkg!Fail, Tool!Pkg!Load, Tool!Pkg!IsMarker,
    Tool!Pkg!IsNext, Tool!Pkg!Seen, Tool!Pkg!Untracked,
    Tool!Pkg!RecoverUntracked, Tool!Pkg!RecoverMissing, Tool!Pkg!Interrupted,
    Tool!Pkg!Unneeded, Tool!Pkg!RollsBack, Tool!Pkg!RecoverClean,
    Tool!Pkg!RecoverRollBack, Tool!Pkg!Restore, Tool!Pkg!CannotRecover,
    Tool!Pkg!Recovered, Tool!Pkg!Finish, Tool!Pkg!Dispatch,
    Tool!Pkg!Prepare, Tool!Pkg!SaveState, Tool!Pkg!StepFails,
    Tool!Pkg!InstallRename, Tool!Pkg!InstallSave, Tool!Pkg!InstallUndo,
    Tool!Pkg!SetAside, Tool!Pkg!UpdateBackup, Tool!Pkg!UpdateRename,
    Tool!Pkg!UpdateSave, Tool!Pkg!UpdateClean, Tool!Pkg!UpdateUndo,
    Tool!Pkg!UpdateRestore, Tool!Pkg!RemoveRename, Tool!Pkg!RemoveSave,
    Tool!Pkg!RemoveClean, Tool!Pkg!RemoveUndo, Tool!Pkg!Removing,
    Tool!Pkg!RemovesPart, Tool!Pkg!CleanUpFails, Tool!Pkg!Kill,
    Tool!Pkg!UserChanges, Tool!Pkg!Quiet, Tool!Pkg!Init,
    Tool!Pkg!LockStep, Tool!Pkg!RecoverStep, Tool!Pkg!PackageStep,
    Tool!Pkg!Next, Tool!Pkg!Outside, Tool!Pkg!TypeOK,
    Tool!Pkg!ConsistentAt, Tool!Pkg!Consistent, Tool!Pkg!RecoveryIsComplete,
    Tool!Pkg!ConsistentReturn, Tool!Pkg!OneAtATime,
    Tool!Pkg!UntouchedIsRecoverable, Tool!Pkg!Cardinality, Tool!Pkg!Front,
    Tool!Pkg!Last

LEMMA SameTeams ==
    /\ Teams!Init <=> Tool!Teams!Init
    /\ Teams!Next <=> Tool!Teams!Next
    /\ Teams!HelpersSafe <=> Tool!Teams!HelpersSafe
  BY ZenonT(90) DEF Teams!vars, Teams!Nothing, Teams!NoResult, Teams!NoUsage, Teams!Head,
    Teams!Init, Teams!Writers, Teams!Inspect, Teams!Valid, Teams!Validate, Teams!Cancel,
    Teams!LeadMoves, Teams!Begin, Teams!Write, Teams!Effective, Teams!Within, Teams!Runs,
    Teams!Plus, Teams!Remaining, Teams!MayContinue, Teams!AfterRun, Teams!RemainingOf,
    Teams!RunEnds, Teams!Answer, Teams!NoAnswer, Teams!Fault, Teams!HeadOf, Teams!AuditTree,
    Teams!AuditLead, Teams!AllDone, Teams!AuditPairs, Teams!Sum, Teams!Total, Teams!Failed,
    Teams!Report, Teams!Done, Teams!Next, Teams!TypeOK, Teams!BudgetIsShared,
    Teams!CompleteIsIntegrable, Teams!BatchIsOver, Teams!HelpersSafe, Teams!Cardinality,
    Teams!MapThenFoldSet, Teams!MapThenSumSet, Tool!Teams!vars, Tool!Teams!Nothing,
    Tool!Teams!NoResult, Tool!Teams!NoUsage, Tool!Teams!Head, Tool!Teams!Init,
    Tool!Teams!Writers, Tool!Teams!Inspect, Tool!Teams!Valid,
    Tool!Teams!Validate, Tool!Teams!Cancel, Tool!Teams!LeadMoves,
    Tool!Teams!Begin, Tool!Teams!Write, Tool!Teams!Effective, Tool!Teams!Within,
    Tool!Teams!Runs, Tool!Teams!Plus, Tool!Teams!Remaining,
    Tool!Teams!MayContinue, Tool!Teams!AfterRun, Tool!Teams!RemainingOf,
    Tool!Teams!RunEnds, Tool!Teams!Answer, Tool!Teams!NoAnswer,
    Tool!Teams!Fault, Tool!Teams!HeadOf, Tool!Teams!AuditTree,
    Tool!Teams!AuditLead, Tool!Teams!AllDone, Tool!Teams!AuditPairs,
    Tool!Teams!Sum, Tool!Teams!Total, Tool!Teams!Failed, Tool!Teams!Report,
    Tool!Teams!Done, Tool!Teams!Next, Tool!Teams!TypeOK,
    Tool!Teams!BudgetIsShared, Tool!Teams!CompleteIsIntegrable,
    Tool!Teams!BatchIsOver, Tool!Teams!HelpersSafe, Tool!Teams!Cardinality,
    Tool!Teams!MapThenFoldSet, Tool!Teams!MapThenSumSet

LEMMA SameEdits ==
    /\ Edits!Init <=> Tool!Edits!Init
    /\ Edits!Next <=> Tool!Edits!Next
    /\ Edits!EditsSafe <=> Tool!Edits!EditsSafe
  BY ZenonT(90) DEF Edits!Places, Edits!CountIsOne, Edits!Replaced, Edits!Refused,
    Edits!Applied, Edits!IsWrite, Edits!Goes, Edits!Midway, Edits!Crosses, Edits!Begin,
    Edits!Canceled, Edits!ReadFile, Edits!Stat, Edits!Open, Edits!New, Edits!Over,
    Edits!Write, Edits!WriteFails, Edits!Init, Edits!Next, Edits!TypeOK, Edits!Sequential,
    Edits!EditsSafe, Edits!Cardinality, Edits!Range, Tool!Edits!Places,
    Tool!Edits!CountIsOne, Tool!Edits!Replaced, Tool!Edits!Refused,
    Tool!Edits!Applied, Tool!Edits!IsWrite, Tool!Edits!Goes, Tool!Edits!Midway,
    Tool!Edits!Crosses, Tool!Edits!Begin, Tool!Edits!Canceled,
    Tool!Edits!ReadFile, Tool!Edits!Stat, Tool!Edits!Open, Tool!Edits!New,
    Tool!Edits!Over, Tool!Edits!Write, Tool!Edits!WriteFails, Tool!Edits!Init,
    Tool!Edits!Next, Tool!Edits!TypeOK, Tool!Edits!Sequential,
    Tool!Edits!EditsSafe, Tool!Edits!Cardinality, Tool!Edits!Range

LEMMA SamePaging ==
    /\ Paging!Init <=> Tool!Paging!Init
    /\ Paging!Next <=> Tool!Paging!Next
    /\ Paging!ReadSafe <=> Tool!Paging!ReadSafe
  BY ZenonT(90) DEF Paging!NoPage, Paging!Bytes, Paging!Ahead, Paging!Selected,
    Paging!Scanned, Paging!Fails, Paging!Page, Paging!Init, Paging!Read, Paging!Next,
    Paging!TypeOK, Paging!PagesCover, Paging!NoticeIsTrue, Paging!ReadSafe, Paging!Max,
    Paging!Range, Tool!Paging!NoPage, Tool!Paging!Bytes, Tool!Paging!Ahead,
    Tool!Paging!Selected, Tool!Paging!Scanned, Tool!Paging!Fails,
    Tool!Paging!Page, Tool!Paging!Init, Tool!Paging!Read, Tool!Paging!Next,
    Tool!Paging!TypeOK, Tool!Paging!PagesCover, Tool!Paging!NoticeIsTrue,
    Tool!Paging!ReadSafe, Tool!Paging!Max, Tool!Paging!Range

LEMMA SameShell ==
    /\ Shell!Init <=> Tool!Shell!Init
    /\ Shell!Next <=> Tool!Shell!Next
    /\ Shell!CommandSafe <=> Tool!Shell!CommandSafe
  BY ZenonT(90) DEF Shell!process, Shell!output, Shell!wait, Shell!request, Shell!Holders,
    Shell!Writes, Shell!Spawns, Shell!ShellExits, Shell!ChildExits, Shell!KillGroup,
    Shell!Init, Shell!ContextEnds, Shell!Start, Shell!Drain, Shell!ExecKills, Shell!Reap,
    Shell!WatcherKills, Shell!OutputEnds, Shell!DelayIsOver, Shell!WatcherEnds,
    Shell!Return, Shell!Next, Shell!TypeOK, Shell!SuccessIsWhole, Shell!CancelReachesGroup,
    Shell!CommandSafe, Tool!Shell!process, Tool!Shell!output, Tool!Shell!wait,
    Tool!Shell!request, Tool!Shell!Holders, Tool!Shell!Writes,
    Tool!Shell!Spawns, Tool!Shell!ShellExits, Tool!Shell!ChildExits,
    Tool!Shell!KillGroup, Tool!Shell!Init, Tool!Shell!ContextEnds,
    Tool!Shell!Start, Tool!Shell!Drain, Tool!Shell!ExecKills, Tool!Shell!Reap,
    Tool!Shell!WatcherKills, Tool!Shell!OutputEnds, Tool!Shell!DelayIsOver,
    Tool!Shell!WatcherEnds, Tool!Shell!Return, Tool!Shell!Next,
    Tool!Shell!TypeOK, Tool!Shell!SuccessIsWhole, Tool!Shell!CancelReachesGroup,
    Tool!Shell!CommandSafe

LEMMA SameExts ==
    /\ Ext!Init <=> Tool!Ext!Init
    /\ Ext!Next <=> Tool!Ext!Next
    /\ Ext!ExtensionsSafe <=> Tool!Ext!ExtensionsSafe
  BY ZenonT(90) DEF Ext!vars, Ext!All, Ext!Name, Ext!File, Ext!Lease, Ext!Absent,
    Ext!CanRegister, Ext!Register, Ext!Without, Ext!CloseLease, Ext!RestrictTools,
    Ext!RemoveTools, Ext!IsActive, Ext!Visible, Ext!Undefer, Ext!Allowed,
    Ext!ApplyPolicy, Ext!Idle, Ext!Init, Ext!Builtins, Ext!LoadFile, Ext!LuaReady,
    Ext!CloseStateLease, Ext!Held, Ext!CloseState, Ext!ConnectedRegistry, Ext!Connect,
    Ext!CloseForReload, Ext!CommandFinished, Ext!StartUp, Ext!RunStarts, Ext!RunEnds,
    Ext!Select, Ext!Stop, Ext!CloseServers, Ext!ReloadFails, Ext!LuaClosed,
    Ext!Change, Ext!Begins, Ext!LookUp, Ext!RunHooks, Ext!Acquire, Ext!Refused,
    Ext!CallReturns, Ext!AfterHook, Ext!HookBegins, Ext!Merged, Ext!Failed,
    Ext!LuaHookReturns, Ext!BuiltinHook, Ext!HooksReturn, Ext!Proceeds, Ext!Done,
    Ext!Next, Ext!TypeOK, Ext!Open, Ext!LeaseIsWhole, Ext!NoCallInClosed,
    Ext!PolicyHolds, Ext!StopIsSticky, Ext!ExtensionsSafe, Tool!Ext!vars,
    Tool!Ext!All, Tool!Ext!Name, Tool!Ext!File, Tool!Ext!Lease,
    Tool!Ext!Absent, Tool!Ext!CanRegister, Tool!Ext!Register,
    Tool!Ext!Without, Tool!Ext!CloseLease, Tool!Ext!RestrictTools,
    Tool!Ext!RemoveTools, Tool!Ext!IsActive, Tool!Ext!Visible,
    Tool!Ext!Undefer, Tool!Ext!Allowed, Tool!Ext!ApplyPolicy, Tool!Ext!Idle,
    Tool!Ext!Init, Tool!Ext!Builtins, Tool!Ext!LoadFile, Tool!Ext!LuaReady,
    Tool!Ext!CloseStateLease, Tool!Ext!Held, Tool!Ext!CloseState,
    Tool!Ext!ConnectedRegistry, Tool!Ext!Connect, Tool!Ext!CloseForReload,
    Tool!Ext!CommandFinished, Tool!Ext!StartUp, Tool!Ext!RunStarts,
    Tool!Ext!RunEnds, Tool!Ext!Select, Tool!Ext!Stop, Tool!Ext!CloseServers,
    Tool!Ext!ReloadFails, Tool!Ext!LuaClosed, Tool!Ext!Change,
    Tool!Ext!Begins, Tool!Ext!LookUp, Tool!Ext!RunHooks, Tool!Ext!Acquire,
    Tool!Ext!Refused, Tool!Ext!CallReturns, Tool!Ext!AfterHook,
    Tool!Ext!HookBegins, Tool!Ext!Merged, Tool!Ext!Failed,
    Tool!Ext!LuaHookReturns, Tool!Ext!BuiltinHook, Tool!Ext!HooksReturn,
    Tool!Ext!Proceeds, Tool!Ext!Done, Tool!Ext!Next, Tool!Ext!TypeOK,
    Tool!Ext!Open, Tool!Ext!LeaseIsWhole, Tool!Ext!NoCallInClosed,
    Tool!Ext!PolicyHolds, Tool!Ext!StopIsSticky, Tool!Ext!ExtensionsSafe

----------------------------------------
(* The instances have the parameters the proofs assume.                    *)

LEMMA SameFiniteSets == \A S : Svc!IsFiniteSet(S) <=> IsFiniteSet(S)
  BY SMTT(40) DEF IsFiniteSet, Svc!IsFiniteSet

LEMMA CredParameters == Svc!CredParameters
<1> USE DEF Keys, Programs, Workers
<1>1. IsFiniteSet({a, b, c})
 <2>1. IsFiniteSet({a, b})
  <3>1. IsFiniteSet({} \cup {a}) BY FS_EmptySet, FS_AddElement
  <3>2. IsFiniteSet(({} \cup {a}) \cup {b}) BY <3>1, FS_AddElement
  <3>3. {a, b} = ({} \cup {a}) \cup {b} BY SMTT(40)
  <3>. QED BY <3>2, <3>3
 <2>. QED BY SMTT(40), <2>1, FS_AddElement, {a, b, c} = {a, b} \cup {c}
<1>2. {a, b, c} # {} /\ {c} \subseteq {a, b, c} /\ {a} \subseteq {a, b, c} \ {c} BY KeysDiffer
<1>3. \A j, k \in {a, b, c} : Svc!Cred!Legacy(j) # k BY KeysDiffer DEF Svc!Cred!Legacy
<1>4. \A w \in {d1, d2, d3} : ProcessOf(w) \in {p1, p2} BY SMTT(40) DEF ProcessOf
<1>. QED BY <1>1, <1>2, <1>3, <1>4, SameFiniteSets DEF Svc!CredParameters

LEMMA NameParameters ==
    Svc!GoalParameters /\ Svc!MonitorParameters /\ Svc!PricesParameters
<1> USE DEF Pair
<1>1. "none" \notin {d1, d2} /\ "no" \notin {d1, d2} /\ "free" \notin {d1, d2}
  BY ZenonT(40), NamesDiffer
<1>. QED BY <1>1 DEF Svc!GoalParameters, Svc!MonitorParameters, Svc!PricesParameters

LEMMA HerdrParameters == Svc!HerdrParameters
<1> USE DEF Pair
<1>1. IsFiniteSet({d1, d2})
 <2>1. IsFiniteSet({} \cup {d1}) BY FS_EmptySet, FS_AddElement
 <2>2. IsFiniteSet(({} \cup {d1}) \cup {d2}) BY <2>1, FS_AddElement
 <2>3. {d1, d2} = ({} \cup {d1}) \cup {d2} BY SMTT(40)
 <2>. QED BY <2>2, <2>3
<1>. QED BY <1>1, SameFiniteSets DEF Svc!HerdrParameters, Svc!Pane!NoHook

LEMMA CacheParameters == Svc!CacheParameters
  BY BuiltinIsNoVersion DEF Svc!CacheParameters, Listings, Programs

\* The three releases are in the precedence of semantic versions.
LEMMA UpgradeParameters == Svc!UpgradeParameters
<1> USE DEF Development
<1> DEFINE alpha == Word(1)
           second == Number(2)
           core == <<1, 0, 0>>
<1>1. /\ alpha \in Svc!Identifier /\ second \in Svc!Identifier
      /\ second.numeric => second.value <= 2
      /\ ~alpha.numeric
  BY SMTT(40) DEF Svc!Identifier, Word, Number
<1>2. core \in Seq(Nat) /\ Len(core) = 3 BY SMTT(40)
<1>3. /\ DOMAIN Releases = 1..3
      /\ Releases[1] = Version(TRUE, core, <<alpha>>)
      /\ Releases[2] = Version(TRUE, core, <<alpha, second>>)
      /\ Releases[3] = Version(TRUE, core, <<>>)
  BY SMTT(40) DEF Releases
<1>4. Releases \in Seq({Releases[i] : i \in DOMAIN Releases})
 <2> DEFINE S == {Releases[i] : i \in DOMAIN Releases}
 <2>1. Releases[1] \in S /\ Releases[2] \in S /\ Releases[3] \in S
  <3>1. 1 \in DOMAIN Releases /\ 2 \in DOMAIN Releases /\ 3 \in DOMAIN Releases BY <1>3
  <3>. QED BY <3>1
 <2> HIDE DEF S
 <2>2. <<Releases[1], Releases[2], Releases[3]>> \in Seq(S) BY <2>1
 <2>3. Releases = <<Releases[1], Releases[2], Releases[3]>> BY <1>3 DEF Releases
 <2>4. Releases \in Seq(S) BY ZenonT(40), <2>2, <2>3
 <2>. QED BY <2>4 DEF S
<1> HIDE DEF alpha, second, core
<1>5. \A i \in DOMAIN Releases : Releases[i].semver /\ Svc!IsVersion(Releases[i])
 <2>1. ASSUME NEW pre \in Seq(Svc!Identifier),
              \A i \in DOMAIN pre : pre[i].numeric => pre[i].value <= 2
       PROVE  Version(TRUE, core, pre).semver /\ Svc!IsVersion(Version(TRUE, core, pre))
   BY <1>2, <2>1 DEF Version, Svc!IsVersion
 <2>2. <<alpha>> \in Seq(Svc!Identifier) /\ <<alpha, second>> \in Seq(Svc!Identifier)
       /\ <<>> \in Seq(Svc!Identifier)
   BY <1>1
 <2>3. /\ \A i \in DOMAIN <<alpha>> : <<alpha>>[i].numeric => <<alpha>>[i].value <= 2
       /\ \A i \in DOMAIN <<alpha, second>> : <<alpha, second>>[i].numeric => <<alpha, second>>[i].value <= 2
       /\ \A i \in DOMAIN <<>> : <<>>[i].numeric => <<>>[i].value <= 2
   BY <1>1
 <2>4. \A i \in 1..3 : i = 1 \/ i = 2 \/ i = 3 BY SMTT(40)
 <2>. QED BY ZenonT(40), <1>3, <2>1, <2>2, <2>3, <2>4
<1>6. Svc!Precedes(Releases[1], Releases[2])
  BY <1>3 DEF Version, Svc!Precedes, Svc!PreBefore, Svc!SameBelow
<1>7. Svc!Precedes(Releases[1], Releases[3]) /\ Svc!Precedes(Releases[2], Releases[3])
  BY <1>3 DEF Version, Svc!Precedes, Svc!PreBefore, Svc!SameBelow
<1>8. \A i, j \in DOMAIN Releases : i < j => Svc!Precedes(Releases[i], Releases[j])
 <2>1. \A i, j \in 1..3 : i < j => (i = 1 /\ j = 2) \/ (i = 1 /\ j = 3) \/ (i = 2 /\ j = 3)
   BY SMTT(40)
 <2>. QED BY ZenonT(40), <1>3, <1>6, <1>7, <2>1
<1>. QED BY SMTT(40), <1>4, <1>5, <1>8 DEF Svc!UpgradeParameters

\* At most two processes use the store of packages.
LEMMA PackParameters == Tool!PackParameters
<1> USE DEF Pair
<1>1. "nobody" \notin {d1, d2} BY ZenonT(40), NamesDiffer
<1>2. \A p, q, r \in {d1, d2} : p = q \/ q = r \/ p = r BY SMTT(40)
<1>. QED BY <1>1, <1>2 DEF Tool!PackParameters

LEMMA NumberParameters ==
    Tool!HelpersParameters /\ Tool!PagesParameters /\ Tool!CommandParameters
<1>1. \A l \in Lines : l.size \in Nat BY SMTT(40) DEF Lines
<1>. QED BY <1>1 DEF Tool!HelpersParameters, Tool!PagesParameters, Tool!CommandParameters

\* No text that an operation replaces overlaps itself.
LEMMA EditsParameters == Tool!EditsParameters
<1> USE DEF Contents
<1> DEFINE Letters == {"x", "y", "z"}
<1>1. ASSUME NEW n \in 0..3, NEW s \in [1..n -> Letters] PROVE s \in Seq(Tool!Edits!Range(s))
  BY SMTT(40) DEF Tool!Edits!Range
<1>2. /\ <<>> \in Seq(Tool!Edits!Range(<<>>)) /\ Len(<<>>) = 0
      /\ \A u : <<u>> \in Seq(Tool!Edits!Range(<<u>>)) /\ Len(<<u>>) = 1
 <2>1. \A u : 1 \in DOMAIN <<u>> /\ <<u>>[1] = u /\ u \in {u} BY SMTT(40)
 <2>2. \A u : Tool!Edits!Range(<<u>>) = {u} BY <2>1 DEF Tool!Edits!Range
 <2>. QED BY <2>2
<1>3. \A u, v : /\ <<u, v>> \in Seq(Tool!Edits!Range(<<u, v>>)) /\ Len(<<u, v>>) = 2
               /\ <<u, v>>[1] = u /\ <<u, v>>[2] = v
 <2>1. \A u, v : Tool!Edits!Range(<<u, v>>) = {u, v} BY SMTT(40) DEF Tool!Edits!Range
 <2>. QED BY <2>1
<1>4. ASSUME NEW op \in Tools
      PROVE  /\ op.new \in Seq(Tool!Edits!Range(op.new)) /\ op.old \in Seq(Tool!Edits!Range(op.old))
             /\ \A k \in 1..(Len(op.old) - 1) : \E m \in 1..(Len(op.old) - k) : op.old[m] # op.old[m + k]
 <2>1. \/ op.old = <<"x">> /\ op.new = <<"y">>
       \/ op.old = <<"y">> /\ op.new = <<"x", "z">>
       \/ op.old = <<"z">> /\ op.new = <<>>
       \/ op.old = <<"x", "y">> /\ op.new = <<"z">>
       \/ op.old = <<>> /\ op.new = <<"z", "z">>
   BY SMTT(40) DEF Tools
 <2>2. op.new \in Seq(Tool!Edits!Range(op.new)) /\ op.old \in Seq(Tool!Edits!Range(op.old))
  <3> DEFINE Typed(s) == s \in Seq(Tool!Edits!Range(s))
  <3>1. /\ Typed(<<>>) /\ Typed(<<"x">>) /\ Typed(<<"y">>) /\ Typed(<<"z">>)
        /\ Typed(<<"x", "z">>) /\ Typed(<<"x", "y">>) /\ Typed(<<"z", "z">>)
    BY ZenonT(40), <1>2, <1>3
  <3> HIDE DEF Typed
  <3>2. Typed(op.new) /\ Typed(op.old) BY ZenonT(40), <2>1, <3>1
  <3>. QED BY <3>2 DEF Typed
 <2>3. CASE op.old = <<"x", "y">>
  <3>1. \A k \in 1..(Len(op.old) - 1) : k = 1 /\ 1 \in 1..(Len(op.old) - k) /\ op.old[1] # op.old[1 + k]
    BY <1>3, <2>3
  <3>. QED BY <2>2, <3>1
 <2>4. CASE op.old # <<"x", "y">>
  <3>1. Len(op.old) = 0 \/ Len(op.old) = 1 BY ZenonT(40), <1>2, <2>1, <2>4
  <3>2. \A n \in {0, 1} : 1..(n - 1) = {} BY SMTT(40)
  <3>3. 1..(Len(op.old) - 1) = {} BY ZenonT(40), <3>1, <3>2
  <3>. QED BY ZenonT(40), <2>2, <3>3
 <2>. QED BY ZenonT(40), <2>3, <2>4
<1>5. \A s \in UNION {[1..n -> Letters] : n \in 0..3} : s \in Seq(Tool!Edits!Range(s)) BY <1>1
<1>. QED BY ZenonT(40), <1>4, <1>5 DEF Tool!EditsParameters

\* The owners and the names of the registry are told apart.
LEMMA ExtensionsParameters == Tool!ExtensionsParameters
<1> USE DEF Files, ToolNames, Batches, Policies
<1>1. DOMAIN <<f1, f2>> = {1, 2} /\ <<f1, f2>>[1] = f1 /\ <<f1, f2>>[2] = f2 BY SMTT(40)
<1>2. Tool!Ext!File = {f1, f2} BY <1>1 DEF Tool!Ext!File
<1>3. /\ <<f1, f2>> \in Seq({f1, f2})
      /\ \A i, j \in DOMAIN <<f1, f2>> : i # j => <<f1, f2>>[i] # <<f1, f2>>[j]
  BY <1>1, OwnersDiffer
<1>4. Tool!Ext!Lease = {f1, f2} \cup (0..1) BY <1>2 DEF Tool!Ext!Lease
<1>5. f1 \notin Nat /\ f2 \notin Nat /\ NONE \notin Nat /\ BUILTIN \notin Nat /\ \A n \in 0..1 : n \in Nat
  BY OwnersDiffer
<1>6. /\ NONE # BUILTIN /\ NONE \notin Tool!Ext!Lease /\ BUILTIN \notin Tool!Ext!Lease
      /\ Tool!Ext!File \intersect (0..1) = {}
  BY ZenonT(40), <1>2, <1>4, <1>5, OwnersDiffer
<1>7. {t1, t2} \intersect {c} = {} /\ {t2} \subseteq {t1, t2} /\ NONE \notin {t1, t2}
  BY ZenonT(40), ToolsDiffer
<1>8. \A names \in {{}, {t1}, {c, t2}} : names \subseteq Tool!Ext!Name BY SMTT(40) DEF Tool!Ext!Name
<1>9. \A p \in {[allow |-> {NONE}, exclude |-> {}], [allow |-> {t1, t2}, exclude |-> {t2}]} :
        (p.allow = Tool!Ext!All \/ p.allow \subseteq {t1, t2}) /\ p.exclude \subseteq {t1, t2}
  BY SMTT(40) DEF Tool!Ext!All
<1>. QED BY <1>2, <1>3, <1>5, <1>6, <1>7, <1>8, <1>9 DEF Tool!ExtensionsParameters

----------------------------------------
(* The parts.                                                              *)

CredInv == part = "credentials" => Svc!CredInv
GoalInv == part = "goal" => Svc!GoalInv
MonitorInv == part = "monitor" => Svc!MonitorInv
HerdrInv == part = "herdr" => Svc!HerdrInv
UpgradeInv == part = "upgrade" => Svc!UpgradeInv
PricesInv == part = "prices" => Svc!PricesInv
CacheInv == part = "models" => Svc!CacheInv
PackInv == part = "packages" => Tool!PackInv
HelpersInv == part = "helpers" => Tool!HelpersInv
EditsInv == part = "edits" => Tool!EditsInv
PagesInv == part = "pages" => Tool!PagesInv
CommandInv == part = "shell" => Tool!CommandInv
ExtensionsInv == part = "extensions" => Tool!ExtensionsInv

\* A step of the composition is a step of the part that runs.
LEMMA ServicesStep ==
    ASSUME [Next]_vars
    PROVE  /\ part' = part
           /\ part = "credentials" => [Svc!Cred!Next]_(Svc!Cred!vars)
           /\ part = "goal" => [Svc!Goals!Next]_(Svc!Goals!vars)
           /\ part = "monitor" => [Svc!Mons!Next]_(Svc!Mons!vars)
           /\ part = "herdr" => [Svc!Pane!Next]_(Svc!Pane!vars)
           /\ part = "upgrade" => [Svc!Ups!Next]_(Svc!Ups!vars)
           /\ part = "prices" => [Svc!Costs!Next]_(Svc!Costs!vars)
           /\ part = "models" => [Svc!Listed!Next]_(Svc!Listed!vars)
<1>1. CASE UNCHANGED vars
  BY <1>1 DEF vars, Svc!Cred!vars, Svc!Cred!server, Svc!Cred!bounds,
              Svc!Goals!vars, Svc!Goals!fields, Svc!Goals!ghosts,
              Svc!Mons!vars, Svc!Pane!vars, Svc!Ups!vars,
              Svc!Costs!vars, Svc!Listed!vars
<1>2. CASE Next
  BY ZenonT(40), <1>2, SameCreds, SameGoals, SameMonitors, SamePane, SameUpgrades, SameCosts,
     SameListed DEF Next
<1>. QED BY <1>1, <1>2

LEMMA ToolingStep ==
    ASSUME [Next]_vars
    PROVE  /\ part' = part
           /\ part = "packages" => [Tool!Pkg!Next]_(Tool!Pkg!vars)
           /\ part = "helpers" => [Tool!Teams!Next]_(Tool!Teams!vars)
           /\ part = "edits" => [Tool!Edits!Next]_(Tool!Edits!vars)
           /\ part = "pages" => [Tool!Paging!Next]_(Tool!Paging!vars)
           /\ part = "shell" => [Tool!Shell!Next]_(Tool!Shell!vars)
           /\ part = "extensions" => [Tool!Ext!Next]_(Tool!Ext!vars)
<1>1. CASE UNCHANGED vars
  BY <1>1 DEF vars, Tool!Pkg!vars, Tool!Pkg!bounds, Tool!Teams!vars,
              Tool!Edits!vars, Tool!Paging!vars, Tool!Shell!vars, Tool!Shell!process,
              Tool!Shell!output, Tool!Shell!wait, Tool!Shell!request, Tool!Ext!vars
<1>2. CASE Next
  BY ZenonT(40), <1>2, SameStore, SameTeams, SameEdits, SamePaging, SameShell, SameExts DEF Next
<1>. QED BY <1>1, <1>2

\* While the stores of credentials are used, no refresh token is submitted twice
\* where a lock covers its use, and the stored credential is the live one.
THEOREM CredentialsAlwaysSafe == Spec => []CredentialsSafe
<1>1. Init => CredInv BY CredParameters, SameCreds, Svc!CredInit DEF Init, CredInv
<1>2. CredInv /\ [Next]_vars => CredInv' BY CredParameters, ServicesStep, Svc!CredNext DEF CredInv
<1>3. CredInv => CredentialsSafe
  BY CredParameters, SameCreds, Svc!CredImplies DEF CredInv, CredentialsSafe
<1>. QED BY <1>1, <1>2, <1>3, PTL DEF Spec

\* While goal mode runs, the limits of the goal hold, a goal that is over is not
\* worked on, and an active one is.
THEOREM GoalAlwaysSafe == Spec => []GoalSafe
<1>1. Init => GoalInv BY NameParameters, SameGoals, Svc!GoalInit DEF Init, GoalInv
<1>2. GoalInv /\ [Next]_vars => GoalInv' BY NameParameters, ServicesStep, Svc!GoalNext DEF GoalInv
<1>3. GoalInv => GoalSafe BY NameParameters, SameGoals, Svc!GoalImplies DEF GoalInv, GoalSafe
<1>. QED BY <1>1, <1>2, <1>3, PTL DEF Spec

\* While monitors run, each is announced, finished and reported at most once, a
\* stopped one does not finish as anything else, and an active one is watched.
THEOREM MonitorAlwaysSafe == Spec => []MonitorSafe
<1>1. Init => MonitorInv BY NameParameters, SameMonitors, Svc!MonitorInit DEF Init, MonitorInv
<1>2. MonitorInv /\ [Next]_vars => MonitorInv'
  BY NameParameters, ServicesStep, Svc!MonitorNext DEF MonitorInv
<1>3. MonitorInv => MonitorSafe
  BY NameParameters, SameMonitors, Svc!MonitorImplies DEF MonitorInv, MonitorSafe
<1>. QED BY <1>1, <1>2, <1>3, PTL DEF Spec

\* While the agent reports to herdr, the pane shows what it does whenever all is
\* quiet, and the pane is released last.
THEOREM HerdrAlwaysSafe == Spec => []HerdrSafe
<1>1. Init => HerdrInv BY HerdrParameters, SamePane, Svc!HerdrInit DEF Init, HerdrInv
<1>2. HerdrInv /\ [Next]_vars => HerdrInv'
  BY HerdrParameters, ServicesStep, Svc!HerdrNext DEF HerdrInv
<1>3. HerdrInv => HerdrSafe BY HerdrParameters, SamePane, Svc!HerdrImplies DEF HerdrInv, HerdrSafe
<1>. QED BY <1>1, <1>2, <1>3, PTL DEF Spec

\* While notch is upgraded, an executable is there that runs and is later than what
\* asked for it; prices are fetched once per TTL; and no known model is forgotten.
THEOREM UpdatesAlwaysSafe == Spec => []UpdatesSafe
<1>1. Init => UpgradeInv /\ PricesInv /\ CacheInv
  BY UpgradeParameters, SameUpgrades, Svc!UpgradeInit, NameParameters, SameCosts,
     Svc!PricesInit, CacheParameters, SameListed, Svc!CacheInit
     DEF Init, UpgradeInv, PricesInv, CacheInv
<1>2. UpgradeInv /\ [Next]_vars => UpgradeInv'
  BY UpgradeParameters, ServicesStep, Svc!UpgradeNext DEF UpgradeInv
<1>3. PricesInv /\ [Next]_vars => PricesInv'
  BY NameParameters, ServicesStep, Svc!PricesNext DEF PricesInv
<1>4. CacheInv /\ [Next]_vars => CacheInv'
  BY CacheParameters, ServicesStep, Svc!CacheNext DEF CacheInv
<1>5. UpgradeInv /\ PricesInv /\ CacheInv => UpdatesSafe
  BY UpgradeParameters, SameUpgrades, Svc!UpgradeImplies, SameCosts,
     Svc!PricesImplies, CacheParameters, SameListed, Svc!CacheImplies
     DEF UpgradeInv, PricesInv, CacheInv, UpdatesSafe
<1>. QED BY <1>1, <1>2, <1>3, <1>4, <1>5, PTL DEF Spec

\* While packages are installed, one operation runs at a time after a death, and
\* whatever the deaths leave, the next operation makes files and state agree again.
THEOREM PackagesAlwaysSafe == Spec => []PackagesSafe
<1>1. Init => PackInv BY PackParameters, SameStore, Tool!PackInit DEF Init, PackInv
<1>2. PackInv /\ [Next]_vars => PackInv' BY PackParameters, ToolingStep, Tool!PackNext DEF PackInv
<1>3. PackInv => PackagesSafe
  BY PackParameters, SameStore, Tool!PackInvIsSafe DEF PackInv, PackagesSafe
<1>. QED BY <1>1, <1>2, <1>3, PTL DEF Spec

\* An operation of the store that returns, with an error or without, leaves files and
\* state that agree.
THEOREM PackagesAlwaysReturnConsistent == Spec => ReturnsConsistent
<1>1. Init => PackInv BY PackParameters, SameStore, Tool!PackInit DEF Init, PackInv
<1>2. PackInv /\ [Next]_vars => PackInv' BY PackParameters, ToolingStep, Tool!PackNext DEF PackInv
<1>3. PackInv /\ [Next]_vars => [part = "packages" => Pkg!ConsistentReturn]_vars
  BY PackParameters, ToolingStep, SameStore, Tool!PackInvIsSafe DEF PackInv
<1>. QED BY <1>1, <1>2, <1>3, PTL DEF Spec, ReturnsConsistent

\* While teams of helpers run, the second run of a helper has what is left of its
\* budget, a complete result can be integrated, and a reported batch is over.
THEOREM HelpersAlwaysSafe == Spec => []HelpersSafe
<1>1. Init => HelpersInv BY NumberParameters, SameTeams, Tool!HelpersInit DEF Init, HelpersInv
<1>2. HelpersInv /\ [Next]_vars => HelpersInv'
  BY NumberParameters, ToolingStep, Tool!HelpersNext DEF HelpersInv
<1>3. HelpersInv => HelpersSafe
  BY NumberParameters, SameTeams, Tool!HelpersInvIsSafe DEF HelpersInv, HelpersSafe
<1>. QED BY <1>1, <1>2, <1>3, PTL DEF Spec

\* While the tools run, edits that do not cross are as if each were one step, the
\* pages of a file show every line, and a command that is reported as successful was.
THEOREM ToolsAlwaysSafe == Spec => []ToolsSafe
<1>1. Init => EditsInv /\ PagesInv /\ CommandInv
  BY EditsParameters, SameEdits, Tool!EditsInit, NumberParameters, SamePaging,
     Tool!PagesInit, SameShell, Tool!CommandInit
     DEF Init, EditsInv, PagesInv, CommandInv
<1>2. EditsInv /\ [Next]_vars => EditsInv'
  BY EditsParameters, ToolingStep, Tool!EditsNext DEF EditsInv
<1>3. PagesInv /\ [Next]_vars => PagesInv'
  BY NumberParameters, ToolingStep, Tool!PagesNext DEF PagesInv
<1>4. CommandInv /\ [Next]_vars => CommandInv'
  BY NumberParameters, ToolingStep, Tool!CommandNext DEF CommandInv
<1>5. EditsInv /\ PagesInv /\ CommandInv => ToolsSafe
  BY NumberParameters, SameEdits, Tool!EditsImplies, SamePaging, Tool!PagesImplies,
     SameShell, Tool!CommandImplies
     DEF EditsInv, PagesInv, CommandInv, ToolsSafe
<1>. QED BY <1>1, <1>2, <1>3, <1>4, <1>5, PTL DEF Spec

\* While extensions are loaded, run and closed, each has all it registered or nothing,
\* no call runs in a closed one, and no run sees a tool that an option took away.
THEOREM ExtensionsAlwaysSafe == Spec => []ExtensionsSafe
<1>1. Init => ExtensionsInv
  BY ExtensionsParameters, SameExts, Tool!ExtensionsInit DEF Init, ExtensionsInv
<1>2. ExtensionsInv /\ [Next]_vars => ExtensionsInv'
  BY ExtensionsParameters, ToolingStep, Tool!ExtensionsNext DEF ExtensionsInv
<1>3. ExtensionsInv => ExtensionsSafe
  BY ExtensionsParameters, SameExts, Tool!ExtensionsImplies DEF ExtensionsInv, ExtensionsSafe
<1>. QED BY <1>1, <1>2, <1>3, PTL DEF Spec

=============================================================================
