---------------------------- MODULE Credentials -----------------------------
(***************************************************************************)
(* The OAuth credentials that the notch processes of a user share in two   *)
(* files: that of the MCP servers (internal/mcpoauth) and that of the      *)
(* providers (internal/credentials, internal/providerauth).  Requests read *)
(* the stored token and refresh it when it is about to expire or was       *)
(* rejected; logins and logouts change it.  A refresh token can be used    *)
(* once: the server answers with the next one, and whoever stores that     *)
(* replaces the whole file.                                                *)
(*                                                                         *)
(* A credential is the number of its tokens, 0 if there is none.  Scopes,  *)
(* URLs and the dialog of a login are left out, and so are credentials     *)
(* without a refresh token and files that cannot be read.                  *)
(***************************************************************************)
EXTENDS Naturals, FiniteSets, Functions

CONSTANTS Worker,       \* goroutines that make requests, and commands
          Process,
          ProcessOf(_), \* the process of a worker
          Made,         \* calls of makeProvider in a process: each makes an Authorizer
          Key,          \* names of MCP servers, and store keys of providers
          Mcp,          \* those that are MCP servers
          HasLegacy,    \* providers that have had another store key
          Nothing,
          MaxOps,       \* bound: requests, logins and logouts
          MaxAged,      \* bound: access tokens that expire
          MaxFailures   \* bound: refreshes and writes that fail

VARIABLES file,      \* the entries of both files
          live,      \* the refresh tokens the servers would accept
          spentBy,   \* the process that has used each of the others, and its Authorizer
          issued,    \* the number of tokens issued so far
          aged,      \* those whose access token is about to expire, or has
          at,        \* where each worker is
          task,      \* its local variables
          crossed,   \* has a change been undone by another process?
          ops, failures

server == <<live, spentBy, issued, aged>>
bounds == <<ops, failures>>
vars == <<file, server, at, task, crossed, bounds>>

-----------------------------------------------------------------------------
Legacy(k) == <<"legacy", k>>

Entry == Key \cup {Legacy(k) : k \in HasLegacy}

KeyOf(e) == CHOOSE k \in Key : e \in {k, Legacy(k)}

\* The entries that are in the same file as e.
File(e) == {f \in Entry : KeyOf(f) \in Mcp <=> KeyOf(e) \in Mcp}

MaxToken == Cardinality(Entry) + MaxOps + MaxAged

Token == 1..MaxToken

Empty == [e \in Entry |-> 0]

\* The operation, its key and the Authorizer it goes through, if it has a choice;
\* the entry to change; the token in use and the one a server has rejected; what
\* was read of the file, and whether another process has replaced it since.
NoTask == [op |-> "none", key |-> Nothing, via |-> Nothing, entry |-> Nothing, token |-> 0,
           rejected |-> 0, read |-> Empty, outdated |-> FALSE]

Goto(w, s) == at' = [at EXCEPT ![w] = s]

\* The worker is done, and releases what it holds.
Returns(w) == Goto(w, "idle") /\ task' = [task EXCEPT ![w] = NoTask]

-----------------------------------------------------------------------------
(* Locks.  Each is held over a range of steps: Authorizer.mu while a token *)
(* is resolved (a process has one for all MCP servers, and one for every   *)
(* provider it has made: after a switch, or while it lists models, two for *)
(* the same credential), the lock of the MCP file while it is refreshed,   *)
(* Store.mu, one per process, from the read of a file to its replacement.  *)

Refreshing == {"submit", "put", "write"}

Resolving == {"migrate", "lock"} \cup Refreshing

SameAuthorizer(v, w) ==
    /\ ProcessOf(v) = ProcessOf(w)
    /\ \/ task[v].key = task[w].key /\ task[v].via = task[w].via
       \/ {task[v].key, task[w].key} \subseteq Mcp

Through(w) == <<ProcessOf(w), task[w].via>>

AuthorizerFree(w) ==
    \A v \in Worker \ {w} :
        task[v].op = "request" /\ SameAuthorizer(v, w) => at[v] \notin Resolving

FileLockFree(w) ==
    \A v \in Worker \ {w} :
        task[v].op = "request" /\ task[v].key \in Mcp => at[v] \notin Refreshing

Changing(v) == at[v] \in {"migrate", "write"}

StoreFree(w) ==
    \A v \in Worker \ {w} :
        Changing(v) /\ ProcessOf(v) = ProcessOf(w) => task[w].entry \notin File(task[v].entry)

-----------------------------------------------------------------------------
(* What a user starts.                                                     *)

Begin(w, op, k, i, t, s) ==
    /\ at[w] = "idle"
    /\ ops < MaxOps /\ ops' = ops + 1
    /\ task' = [task EXCEPT ![w] = [NoTask EXCEPT !.op = op, !.key = k, !.via = i,
                                                !.entry = k, !.token = t]]
    /\ Goto(w, s)
    /\ UNCHANGED <<file, spentBy, aged, crossed, failures>>

Request(w) ==
    \E k \in Key, i \in Made \cup {Nothing} :
        /\ k \in Mcp <=> i = Nothing
        /\ Begin(w, "request", k, i, 0, "token")
        /\ UNCHANGED <<live, issued>>

\* The authorization server issues the first tokens of another grant.
Login(w) ==
    \E k \in Key :
        /\ Begin(w, "login", k, Nothing, issued + 1, "put")
        /\ issued' = issued + 1
        /\ live' = live \cup {issued + 1}

Logout(w) ==
    \E k \in Key :
        /\ Begin(w, "logout", k, Nothing, 0, "put")
        /\ UNCHANGED <<live, issued>>

-----------------------------------------------------------------------------
(* Authorizer.Token.                                                       *)

\* The stored token is the one that was rejected, or it is about to expire.
NeedsRefresh(w, t) ==
    IF task[w].rejected # 0 THEN t = task[w].rejected ELSE t \in aged

\* The token that is found is used, or refreshed from step s on.
ResolveAbsent(w, s) ==             \* a defect: a missing credential is used
    /\ StoreFree(w)
    /\ LET t == file[task[w].key]
       IN  /\ task' = [task EXCEPT ![w].token = t]
           /\ Goto(w, IF NeedsRefresh(w, t) THEN s ELSE "send")
    /\ UNCHANGED <<file, server, crossed, bounds>>

Resolve(w, s) ==
    /\ StoreFree(w)
    /\ LET t == file[task[w].key]
       IN  IF t = 0 THEN Returns(w)
           ELSE /\ task' = [task EXCEPT ![w].token = t]
                /\ Goto(w, IF NeedsRefresh(w, t) THEN s ELSE "send")
    /\ UNCHANGED <<file, server, crossed, bounds>>

\* GetWithLegacyFallback: the older entry is to be copied first.
ToMigrate(k) == k \in HasLegacy /\ file[k] = 0 /\ file[Legacy(k)] # 0

Look(w) ==
    /\ at[w] = "token"
    /\ AuthorizerFree(w)
    /\ ~ToMigrate(task[w].key)
    /\ Resolve(w, IF task[w].key \in Mcp THEN "lock" ELSE "submit")

RelookOmitted(w) ==                \* a defect: the token may be another by now
    /\ at[w] = "lock"
    /\ FileLockFree(w)
    /\ Goto(w, "submit")
    /\ UNCHANGED <<file, server, task, crossed, bounds>>

\* The lock of the MCP file is taken, and the token is read again.
Relook(w) ==
    /\ at[w] = "lock"
    /\ FileLockFree(w)
    /\ Resolve(w, "submit")

\* The server accepts a live refresh token once.
Rotate(w) ==
    LET t == task[w].token
    IN  /\ t \in live
        /\ issued' = issued + 1
        /\ live' = (live \ {t}) \cup {issued + 1}
        /\ spentBy' = [spentBy EXCEPT ![t] = Through(w)]
        /\ UNCHANGED aged

Submit(w) ==
    /\ at[w] = "submit"
    /\ \/ /\ Rotate(w)
          /\ task' = [task EXCEPT ![w].token = issued + 1]
          /\ Goto(w, "put")
       \/ /\ task[w].token \notin live
          /\ Returns(w) /\ UNCHANGED server
    /\ UNCHANGED <<file, crossed, bounds>>

\* The request of the refresh is lost, or its answer.
SubmitFails(w) ==
    /\ at[w] = "submit"
    /\ failures < MaxFailures /\ failures' = failures + 1
    /\ Rotate(w) \/ UNCHANGED server
    /\ Returns(w)
    /\ UNCHANGED <<file, crossed, ops>>

-----------------------------------------------------------------------------
(* The request: a token that is rejected is resolved again, once.          *)

SendAccepted(w) ==
    /\ at[w] = "send"
    /\ Returns(w)
    /\ UNCHANGED <<file, server, crossed, bounds>>

SendRejected(w) ==
    /\ at[w] = "send"
    /\ task[w].token \in aged
    /\ \/ /\ task[w].rejected # 0
          /\ Returns(w)
       \/ /\ task[w].rejected = 0
          /\ task' = [task EXCEPT ![w].rejected = task[w].token]
          /\ Goto(w, "token")
    /\ UNCHANGED <<file, server, crossed, bounds>>

Age(t) ==
    /\ t \in 1..issued \ aged
    /\ Cardinality(aged) < MaxAged
    /\ aged' = aged \cup {t}
    /\ UNCHANGED <<file, live, spentBy, issued, at, task, crossed, bounds>>

-----------------------------------------------------------------------------
(* Put, Delete and GetWithLegacyFallback: the file is read, changed and    *)
(* replaced.                                                               *)

\* The worker has the file in memory, with entry e changed to t.
Reads(w, e, t) ==
    task' = [task EXCEPT ![w].entry = e, ![w].token = t,
                         ![w].read = [f \in Entry |-> IF f = e THEN t
                                                      ELSE IF f \in File(e) THEN file[f] ELSE 0]]

ReadFileUnlocked(w) ==             \* a defect: Store.mu is not taken
    /\ at[w] = "put"
    /\ Reads(w, task[w].entry, task[w].token)
    /\ Goto(w, "write")
    /\ UNCHANGED <<file, server, crossed, bounds>>

\* Nothing is written to delete what is not there.
ReadFile(w) ==
    /\ at[w] = "put"
    /\ StoreFree(w)
    /\ IF task[w].op = "logout" /\ file[task[w].entry] = 0
       THEN Goto(w, "changed") /\ UNCHANGED task
       ELSE Goto(w, "write") /\ Reads(w, task[w].entry, task[w].token)
    /\ UNCHANGED <<file, server, crossed, bounds>>

Migrate(w) ==
    /\ at[w] = "token"
    /\ AuthorizerFree(w) /\ StoreFree(w)
    /\ ToMigrate(task[w].key)
    /\ Reads(w, task[w].key, file[Legacy(task[w].key)])
    /\ Goto(w, "migrate")
    /\ crossed' = (crossed \/ \E v \in Worker : task[v].op = "logout" /\ task[v].key = task[w].key)
    /\ UNCHANGED <<file, server, bounds>>

\* What others have read of the file is outdated by now.
Replace(w) ==
    LET same == File(task[w].entry)
    IN  /\ file' = [f \in Entry |-> IF f \in same THEN task[w].read[f] ELSE file[f]]
        /\ crossed' = (crossed \/ task[w].outdated)
        /\ task' = [v \in Worker |->
                      IF v = w THEN [task[w] EXCEPT !.read = Empty, !.outdated = FALSE]
                      ELSE IF Changing(v) /\ ProcessOf(v) # ProcessOf(w) /\ task[v].entry \in same
                      THEN [task[v] EXCEPT !.outdated = TRUE]
                      ELSE task[v]]
        /\ UNCHANGED <<server, bounds>>

Write(w) ==
    /\ at[w] = "write"
    /\ Replace(w)
    /\ Goto(w, IF task[w].op = "request" THEN "send" ELSE "changed")

MigrateWrite(w) ==
    /\ at[w] = "migrate"
    /\ Replace(w)
    /\ Goto(w, IF NeedsRefresh(w, task[w].token) THEN "submit" ELSE "send")

WriteFails(w) ==
    /\ Changing(w)
    /\ failures < MaxFailures /\ failures' = failures + 1
    /\ Returns(w)
    /\ UNCHANGED <<file, server, crossed, ops>>

\* The logout of a provider deletes its older entry as well.
Changed(w) ==
    /\ at[w] = "changed"
    /\ LET k == task[w].key
       IN  IF task[w].op = "logout" /\ k \in HasLegacy /\ task[w].entry = k
           THEN Goto(w, "put") /\ task' = [task EXCEPT ![w].entry = Legacy(k)]
           ELSE Returns(w)
    /\ UNCHANGED <<file, server, crossed, bounds>>

-----------------------------------------------------------------------------
(* The specification.                                                      *)

FirstTokens == CHOOSE f \in [Entry -> 1..Cardinality(Entry)] : IsInjective(f)

\* The user is logged in everywhere; some credentials were not migrated yet.
Init ==
    /\ \E old \in SUBSET HasLegacy :
          file = [e \in Entry |-> IF e \in (Key \ old) \cup {Legacy(k) : k \in old}
                                 THEN FirstTokens[e] ELSE 0]
    /\ live = 1..Cardinality(Entry)
    /\ issued = Cardinality(Entry)
    /\ spentBy = [t \in Token |-> Nothing]
    /\ aged = {}
    /\ at = [w \in Worker |-> "idle"]
    /\ task = [w \in Worker |-> NoTask]
    /\ crossed = FALSE
    /\ ops = 0 /\ failures = 0

Step(w) ==
    \/ Look(w) \/ Relook(w)
    \/ Submit(w) \/ SubmitFails(w) \/ SendAccepted(w) \/ SendRejected(w)
    \/ ReadFile(w) \/ Migrate(w) \/ Write(w) \/ MigrateWrite(w) \/ WriteFails(w) \/ Changed(w)

\* Nobody starts anything any more.
Quiet == ops = MaxOps /\ (\A w \in Worker : at[w] = "idle") /\ UNCHANGED vars

Next ==
    \/ \E w \in Worker : Request(w) \/ Login(w) \/ Logout(w) \/ Step(w)
    \/ \E t \in Token : Age(t)
    \/ Quiet

Spec == Init /\ [][Next]_vars

-----------------------------------------------------------------------------
(* Properties.                                                             *)

\* The types of the variables; who uses or changes a token has one.
TypeOK ==
    /\ file \in [Entry -> Token \cup {0}]
    /\ live \subseteq 1..issued /\ aged \subseteq 1..issued /\ issued \in Token
    /\ spentBy \in [Token -> (Process \X (Made \cup {Nothing})) \cup {Nothing}]
    /\ at \in [Worker -> {"idle", "token", "send", "changed"} \cup Resolving]
    /\ task \in [Worker -> [op : {"none", "request", "login", "logout"},
                            key : Key \cup {Nothing}, via : Made \cup {Nothing},
                            entry : Entry \cup {Nothing},
                            token : Token \cup {0}, rejected : Token \cup {0},
                            read : [Entry -> Token \cup {0}], outdated : BOOLEAN]]
    /\ crossed \in BOOLEAN
    /\ \A w \in Worker : at[w] \in {"lock", "submit", "send", "migrate"}
                             => task[w].token # 0

\* No failure, and no two processes that changed a file at the same time (the
\* file of a process that read it earlier replaces that of the other one).
Undisturbed == failures = 0 /\ ~crossed

\* "Separate Notch processes cannot rotate the same refresh token concurrently"
\* (mcpoauth/authorizer.go); of a provider, the requests through one Authorizer
\* cannot (providerauth/authorizer.go), and two of one process can.
SubmittedOnce ==
    \A w \in Worker :
        at[w] = "submit" /\ Undisturbed =>
            \/ task[w].token \in live
            \/ task[w].key \notin Mcp /\ spentBy[task[w].token] # Through(w)

\* "A session that outlives its access token therefore recovers on its own"
\* (docs/providers.md): what is stored can be refreshed, now or as soon as the
\* worker that has just refreshed it has stored the result.
StoredIsLive ==
    \A k \in Key :
        Undisturbed /\ file[k] # 0 =>
            \/ file[k] \in live
            \/ \E w \in Worker : /\ at[w] \in {"put", "write"}
                                 /\ task[w].op = "request" /\ task[w].key = k
=============================================================================
