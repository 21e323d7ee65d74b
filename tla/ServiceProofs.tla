---------------------------- MODULE ServiceProofs ----------------------------
(***************************************************************************)
(* Proofs about what surrounds the agent, each in a section of its own:    *)
(* the shared credentials, goal mode, monitors, the report to herdr, the   *)
(* upgrade, prices and lists of models.  They share no state.              *)
(***************************************************************************)
EXTENDS Integers, Sequences, FiniteSets, FiniteSetTheorems, WellFoundedInduction, TLAPS

CONSTANTS Worker, Process, ProcessOf(_), Made, Key, Mcp, HasLegacy, Nothing,
          MaxOps, MaxAged, MaxFailures,  \* of Credentials
          Sessions, MaxGoals, Limits, TurnsPerStep, NoProgressLimit, MaxRequests,
          MaxCommands, MaxRefusals, MaxChanges,  \* of Goal
          Mon, MaxCompleted,  \* of Monitor
          Question, Model, Id, MaxTurns, MaxSwitches,  \* of Herdr
          Upgrader, Release, Dev, MaxUint, Interval, MaxClock, MaxStarts,
          MaxPowerLosses,  \* of Upgrade
          Caller, Estimator, Bundled, Ttl, MaxTime, MaxVersions, MaxFetchFailures,  \* of Prices
          Program, Call, Scope, Builtin, Fresh, MaxAge, MaxOffers, MaxListFailures  \* of ModelCache

\* Of Credentials.
VARIABLES keyFile, live, spentBy, issued, aged, place, task, crossed, ops, failures

\* Of Goal.
VARIABLES stored, goal, persisted, sessionID, haltRun, completionRun, finalTurn,
          failed, host, hook, command, wake, run, requests, home, slipped, used

\* Of Monitor.
VARIABLES record, listed, order, kind, process, open, matched, starter, watch,
          stopper, closing, flight, reported, wakes

\* Of Herdr.
VARIABLES agent, question, reporter, release, queue, worker, seq, pane, switches

\* Of Upgrade.
VARIABLES os, clock, stamp, exe, backup, temps, proc, starts, losses

\* Of Prices.
VARIABLES moment, offer, snapshot, snap, lock, call, asked, fetched, fetchFailures

\* Of ModelCache.
VARIABLES today, models, lists, readable, mem, listing, saver, listFailures

Cred == INSTANCE Credentials WITH file <- keyFile, at <- place

Goals == INSTANCE Goal WITH MaxTurns <- MaxRequests, MaxFailures <- MaxRefusals

Mons == INSTANCE Monitor WITH told <- reported

Pane == INSTANCE Herdr WITH closing <- release

Ups == INSTANCE Upgrade WITH Process <- Upgrader

Costs == INSTANCE Prices WITH now <- moment, file <- snapshot, failures <-
             fetchFailures, MaxFailures <- MaxFetchFailures

Listed == INSTANCE ModelCache WITH now <- today, offer <- models, file <- lists,
             call <- listing, failures <- listFailures, Bundled <- Builtin, Ttl <-
             Fresh, MaxTime <- MaxAge, MaxFailures <- MaxListFailures

----------------------------------------
(* The instances mean by their operators what the theorems about them do.  *)

\* Numbers of elements.
LEMMA SameCardinality ==
    \A S : /\ Cred!Cardinality(S) = Cardinality(S)
           /\ Goals!Cardinality(S) = Cardinality(S)
           /\ Mons!Cardinality(S) = Cardinality(S)
           /\ Pane!Cardinality(S) = Cardinality(S)
  BY DEF Cardinality, Cred!Cardinality, Goals!Cardinality, Mons!Cardinality,
         Pane!Cardinality

\* Functions that take no value twice.
LEMMA SameInjections == \A f : Cred!IsInjective(f) <=> IsInjective(f)
  BY DEF IsInjective, Cred!IsInjective

----------------------------------------
(* The credentials of mcpoauth and providerauth: the inductive invariant.  *)

\* Keys are not the names of older entries, and those of MCP servers have none.
CredParameters ==
  /\ Key # {} /\ IsFiniteSet(Key) /\ Mcp \subseteq Key /\ HasLegacy \subseteq Key \ Mcp
  /\ \A j, k \in Key : Cred!Legacy(j) # k
  /\ \A w \in Worker : ProcessOf(w) \in Process
  /\ MaxOps \in Nat /\ MaxAged \in Nat

\* Who has used a token.
Spender == (Process \X (Made \cup {Nothing})) \cup {Nothing}

Point == {"idle", "token", "send", "changed"} \cup Cred!Resolving

TaskT == [op : {"none", "request", "login", "logout"}, key : Key \cup {Nothing},
          via : Made \cup {Nothing}, entry : Cred!Entry \cup {Nothing}, token : Nat, rejected : Nat,
          read : [Cred!Entry -> Nat], outdated : BOOLEAN]

CredTypes ==
  /\ keyFile \in [Cred!Entry -> Nat] /\ \A e \in Cred!Entry : keyFile[e] <= issued
  /\ live \subseteq 1..issued /\ aged \subseteq 1..issued /\ issued \in Nat
  /\ spentBy \in [Cred!Token -> Spender]
  /\ place \in [Worker -> Point] /\ task \in [Worker -> TaskT]
  /\ crossed \in BOOLEAN /\ ops \in Nat /\ ops <= MaxOps /\ failures \in Nat

\* Every token after the first ones is that of a login, or it was the refresh
\* of one that is aged and spent.
Count ==
  /\ issued <= Cardinality(Cred!Entry) + ops + Cardinality(aged \ live)
  /\ Cardinality(aged) <= MaxAged /\ issued >= 1

\* What a worker at point s has in task r.
TaskOK(s, r) ==
  /\ s = "idle" => r = Cred!NoTask
  /\ s # "idle" => r.key \in Key /\ r.op # "none"
  /\ s \in {"token", "lock", "submit", "send", "migrate"} => r.op = "request"
  /\ s = "changed" => r.op \in {"login", "logout"}
  /\ s # "idle" => r.entry = r.key \/ (r.op = "logout" /\ r.key \in HasLegacy /\ r.entry = Cred!Legacy(r.key))
  /\ s \in {"put", "write", "lock", "submit", "send", "migrate"} => (r.token = 0 <=> r.op = "logout")
  /\ r.op = "logout" => r.token = 0
  /\ s = "migrate" => r.key \in HasLegacy
  /\ s = "lock" => r.key \in Mcp
  /\ s \in {"migrate", "write"} => r.read[r.entry] = r.token
  /\ s = "submit" => r.token \in aged
  /\ r.rejected \in aged \cup {0}
  /\ r.token <= issued /\ \A e \in Cred!Entry : r.read[e] <= issued

Tasks == \A w \in Worker : TaskOK(place[w], task[w])

\* The three locks.
Exclude(v, w) ==
  /\ task[v].op = "request" /\ task[w].op = "request" /\ Cred!SameAuthorizer(v, w)
       => ~(place[v] \in Cred!Resolving /\ place[w] \in Cred!Resolving)
  /\ task[v].op = "request" /\ task[w].op = "request" /\ task[v].key \in Mcp /\ task[w].key \in Mcp
       => ~(place[v] \in Cred!Refreshing /\ place[w] \in Cred!Refreshing)
  /\ Cred!Changing(v) /\ Cred!Changing(w) /\ ProcessOf(v) = ProcessOf(w) => task[w].entry \notin Cred!File(task[v].entry)

Locks == \A v, w \in Worker : v # w => Exclude(v, w)

\* What task r, at point s, has read of the file is what is there.
Current(s, r) ==
  s \in {"migrate", "write"} /\ ~r.outdated =>
    /\ \A f \in Cred!File(r.entry) : f # r.entry => r.read[f] = keyFile[f]
    /\ s = "migrate" => keyFile[r.key] = 0 /\ keyFile[Cred!Legacy(r.key)] = r.token

Reading == \A w \in Worker : Current(place[w], task[w])

\* Every token is of one key: that of the entries and of the workers that have it.
OwnedBy(owner) ==
  /\ \A e \in Cred!Entry : keyFile[e] # 0 => owner[keyFile[e]] = Cred!KeyOf(e)
  /\ \A w \in Worker : task[w].token # 0 => owner[task[w].token] = task[w].key

Owned == \E owner \in [Nat -> Key \cup {Nothing}] : OwnedBy(owner)

\* The worker has tokens to store.
Puts(w) == place[w] \in {"put", "write"} /\ task[w].op \in {"request", "login"}

\* They are live, and nobody else has them yet.
CredFresh ==
  \A w \in Worker : Puts(w) =>
    /\ task[w].token \in live
    /\ \A e \in Cred!Entry : keyFile[e] # task[w].token
    /\ \A v \in Worker : v # w => task[v].token # task[w].token

\* The worker has spent the token t of key k, and has yet to store the next.
Refreshes(w, k, t) ==
  place[w] \in {"put", "write"} /\ task[w].op = "request" /\ task[w].key = k /\ spentBy[t] = Cred!Through(w)

Stored ==
  \A k \in Key : keyFile[k] # 0 /\ keyFile[k] \notin live => \E w \in Worker : Refreshes(w, k, keyFile[k])

\* Nobody has spent t, or is about to.
Unused(t) == t \in live /\ \A w \in Worker : place[w] = "submit" => task[w].token # t

\* An older entry that is alone is unused, unless a logout has yet to delete it.
Older ==
  \A k \in HasLegacy : keyFile[k] = 0 /\ keyFile[Cred!Legacy(k)] # 0 =>
    (\E w \in Worker : task[w].op = "logout" /\ task[w].key = k) \/ Unused(keyFile[Cred!Legacy(k)])

Migrating == \A w \in Worker : place[w] = "migrate" /\ ~task[w].outdated => Unused(task[w].token)

LoggedOut ==
  \A w \in Worker :
    place[w] = "changed" /\ task[w].op = "logout" /\ task[w].entry # task[w].key => keyFile[Cred!Legacy(task[w].key)] = 0

CleanInv == Owned /\ CredFresh /\ Stored /\ Older /\ Migrating /\ LoggedOut

CredInv ==
  /\ CredTypes /\ Count /\ Tasks /\ Locks /\ Reading
  /\ Cred!Undisturbed => Cred!SubmittedOnce /\ CleanInv

----------------------------------------
(* Entries and files.                                                      *)

LEMMA Entries ==
  ASSUME CredParameters
  PROVE  /\ IsFiniteSet(Cred!Entry) /\ Cardinality(Cred!Entry) \in Nat
         /\ \A k \in Key : k \in Cred!Entry /\ Cred!KeyOf(k) = k
         /\ \A k \in HasLegacy : Cred!Legacy(k) \in Cred!Entry /\ Cred!KeyOf(Cred!Legacy(k)) = k /\ Cred!Legacy(k) # k /\ k \notin Mcp
         /\ \A e \in Cred!Entry : Cred!KeyOf(e) \in Key /\ (e = Cred!KeyOf(e) \/ (Cred!KeyOf(e) \in HasLegacy /\ e = Cred!Legacy(Cred!KeyOf(e))))
<1>1. \A j, k : Cred!Legacy(j) = Cred!Legacy(k) => j = k BY DEF Cred!Legacy
<1>2. \A j, k \in Key : Cred!Legacy(j) # k BY DEF CredParameters
<1>3. ASSUME NEW e, NEW k \in Key, e \in {k, Cred!Legacy(k)} PROVE Cred!KeyOf(e) = k
 <2>1. \A j \in Key : e \in {j, Cred!Legacy(j)} => j = k BY <1>1, <1>2, <1>3
 <2>2. Cred!KeyOf(e) \in Key /\ e \in {Cred!KeyOf(e), Cred!Legacy(Cred!KeyOf(e))}
   BY <1>3 DEF Cred!KeyOf
 <2>. QED BY <2>1, <2>2
<1>4. HasLegacy \subseteq Key \ Mcp BY DEF CredParameters
<1>5. IsFiniteSet(Cred!Entry) /\ Cardinality(Cred!Entry) \in Nat
 <2>1. IsFiniteSet(HasLegacy) BY <1>4, FS_Subset DEF CredParameters
 <2>2. IsFiniteSet({Cred!Legacy(k) : k \in HasLegacy})
  <3> DEFINE g == [k \in HasLegacy |-> Cred!Legacy(k)]
             T == {Cred!Legacy(k) : k \in HasLegacy}
  <3>1. g \in Surjection(HasLegacy, T) BY DEF Surjection
  <3>2. IsFiniteSet(T) BY <2>1, <3>1, FS_Surjection
  <3>. QED BY <3>2
 <2>. QED BY <2>2, FS_Union, FS_CardinalityType DEF CredParameters, Cred!Entry
<1>6. \A k \in Key : k \in Cred!Entry /\ Cred!KeyOf(k) = k BY <1>3 DEF Cred!Entry
<1>7. \A k \in HasLegacy : Cred!Legacy(k) \in Cred!Entry /\ Cred!KeyOf(Cred!Legacy(k)) = k /\ Cred!Legacy(k) # k /\ k \notin Mcp
  BY <1>2, <1>3, <1>4 DEF Cred!Entry
<1>8. ASSUME NEW e \in Cred!Entry
      PROVE  Cred!KeyOf(e) \in Key /\ (e = Cred!KeyOf(e) \/ (Cred!KeyOf(e) \in HasLegacy /\ e = Cred!Legacy(Cred!KeyOf(e))))
  BY <1>4, <1>6, <1>7 DEF Cred!Entry
<1>. QED BY <1>5, <1>6, <1>7, <1>8

\* Of two entries, each is in the file of the other or neither is.
LEMMA Files ==
  ASSUME NEW e \in Cred!Entry, NEW f \in Cred!Entry
  PROVE  /\ e \in Cred!File(e) /\ (f \in Cred!File(e) <=> e \in Cred!File(f))
         /\ f \in Cred!File(e) => Cred!File(e) = Cred!File(f)
         /\ Cred!KeyOf(e) = Cred!KeyOf(f) => f \in Cred!File(e)
  BY DEF Cred!File

----------------------------------------
(* It holds at the beginning.                                              *)

LEMMA FirstInjective ==
  ASSUME CredParameters
  PROVE  /\ Cred!FirstTokens \in [Cred!Entry -> 1..Cardinality(Cred!Entry)]
         /\ \A e, f \in Cred!Entry : Cred!FirstTokens[e] = Cred!FirstTokens[f] => e = f
<1>1. IsFiniteSet(Cred!Entry) BY Entries
<1>2. PICK f : f \in Bijection(1..Cardinality(Cred!Entry), Cred!Entry)
  BY <1>1, FS_CardinalityType DEF ExistsBijection
<1>3. /\ f \in [1..Cardinality(Cred!Entry) -> Cred!Entry]
      /\ \A e \in Cred!Entry : \E i \in 1..Cardinality(Cred!Entry) : f[i] = e
  BY <1>2 DEF Bijection, Injection, Surjection
<1> DEFINE g == [e \in Cred!Entry |-> CHOOSE i \in 1..Cardinality(Cred!Entry) : f[i] = e]
<1>4. \A e \in Cred!Entry : g[e] \in 1..Cardinality(Cred!Entry) /\ f[g[e]] = e BY <1>3
<1>5. g \in [Cred!Entry -> 1..Cardinality(Cred!Entry)] /\ IsInjective(g) BY <1>4 DEF IsInjective
<1>6. Cred!FirstTokens \in [Cred!Entry -> 1..Cardinality(Cred!Entry)] /\ IsInjective(Cred!FirstTokens)
  BY <1>5, SameCardinality, SameInjections DEF Cred!FirstTokens
<1>. QED BY <1>6 DEF IsInjective

LEMMA CredInit == CredParameters /\ Cred!Init => CredInv
<1> SUFFICES ASSUME CredParameters, Cred!Init PROVE CredInv
  OBVIOUS
<1>1. /\ Cred!FirstTokens \in [Cred!Entry -> 1..Cardinality(Cred!Entry)]
      /\ \A e, f \in Cred!Entry : Cred!FirstTokens[e] = Cred!FirstTokens[f] => e = f
  BY FirstInjective
<1>2. Cardinality(Cred!Entry) \in Nat BY Entries
<1>3. PICK old \in SUBSET HasLegacy :
        keyFile = [e \in Cred!Entry |-> IF e \in (Key \ old) \cup {Cred!Legacy(k) : k \in old} THEN Cred!FirstTokens[e] ELSE 0]
  BY DEF Cred!Init
<1>4. /\ live = 1..issued /\ issued = Cardinality(Cred!Entry) /\ spentBy = [t \in Cred!Token |-> Nothing] /\ aged = {}
      /\ place = [w \in Worker |-> "idle"] /\ task = [w \in Worker |-> Cred!NoTask]
      /\ crossed = FALSE /\ ops = 0 /\ failures = 0
  BY SameCardinality DEF Cred!Init
<1>5. \A e \in Cred!Entry : keyFile[e] \in 0..issued BY <1>1, <1>2, <1>3, <1>4
<1>6. Cred!NoTask \in TaskT BY DEF Cred!NoTask, TaskT, Cred!Empty
<1>7. CredTypes
 <2>1. keyFile \in [Cred!Entry -> Nat] /\ \A e \in Cred!Entry : keyFile[e] <= issued
   BY <1>2, <1>3, <1>4, <1>5
 <2>2. place \in [Worker -> Point] /\ task \in [Worker -> TaskT] BY <1>4, <1>6 DEF Point
 <2>3. live \subseteq 1..issued /\ aged \subseteq 1..issued /\ issued \in Nat BY <1>2, <1>4
 <2>4. spentBy \in [Cred!Token -> Spender] BY <1>4 DEF Spender
 <2>5. crossed \in BOOLEAN BY <1>4
 <2>6. ops \in Nat /\ ops <= MaxOps /\ failures \in Nat BY <1>4 DEF CredParameters
 <2>. QED BY <2>1, <2>2, <2>3, <2>4, <2>5, <2>6 DEF CredTypes
<1>8. Count
 <2>1. Cardinality({}) = 0 /\ {} \ live = {} BY FS_EmptySet
 <2>2. Cred!Entry # {} BY DEF Cred!Entry, CredParameters
 <2>3. Cardinality(Cred!Entry) # 0 BY <2>2, Entries, FS_EmptySet
 <2>. QED BY <1>2, <1>4, <2>1, <2>3 DEF Count, CredParameters
<1>9. Tasks /\ Locks /\ Reading
  BY <1>2, <1>4
     DEF Tasks, TaskOK, Cred!NoTask, Cred!Empty, Locks, Exclude, Cred!Changing,
         Cred!Resolving, Cred!Refreshing, Reading, Current
<1>10. Owned
 <2> DEFINE owner == [n \in Nat |-> IF \E e \in Cred!Entry : Cred!FirstTokens[e] = n
                                    THEN Cred!KeyOf(CHOOSE e \in Cred!Entry : Cred!FirstTokens[e] = n)
                                    ELSE Nothing]
 <2>1. \A e \in Cred!Entry : keyFile[e] # 0 => keyFile[e] = Cred!FirstTokens[e] BY <1>3
 <2>2. \A e \in Cred!Entry : Cred!FirstTokens[e] \in Nat /\ owner[Cred!FirstTokens[e]] = Cred!KeyOf(e)
   BY <1>1, <1>2
 <2>3. owner \in [Nat -> Key \cup {Nothing}] BY Entries
 <2>4. \A w \in Worker : task[w].token = 0 BY <1>4 DEF Cred!NoTask
 <2> HIDE DEF owner
 <2>5. OwnedBy(owner) BY <2>1, <2>2, <2>4 DEF OwnedBy
 <2>. QED BY <2>3, <2>5 DEF Owned
<1>11. \A e \in Cred!Entry : keyFile[e] # 0 => keyFile[e] \in live BY <1>4, <1>5
<1>12. \A w \in Worker : place[w] = "idle" BY <1>4
<1>13. Cred!SubmittedOnce /\ CredFresh /\ Stored /\ Migrating /\ LoggedOut
  BY <1>11, <1>12, Entries
     DEF Cred!SubmittedOnce, CredFresh, Puts, Stored, Migrating, LoggedOut
<1>14. Older BY <1>11, <1>12, Entries DEF Older, Unused
<1>. QED BY <1>7, <1>8, <1>9, <1>10, <1>13, <1>14 DEF CredInv, CleanInv

LEMMA AgedFinite ==
  ASSUME CredInv, NEW S, S \subseteq aged
  PROVE  IsFiniteSet(S) /\ Cardinality(S) \in Nat
<1>1. S \subseteq 1..issued /\ issued \in Nat BY DEF CredInv, CredTypes
<1>2. IsFiniteSet(1..issued) BY <1>1, FS_Interval
<1>. QED BY <1>1, <1>2, FS_Subset, FS_CardinalityType

----------------------------------------
(* A worker moves, and changes neither the files nor what servers accept.  *)

Moves(w, s, r) ==
  /\ place' = [place EXCEPT ![w] = s] /\ task' = [task EXCEPT ![w] = r]
  /\ UNCHANGED <<keyFile, live, spentBy, issued, aged>>
  /\ crossed' \in BOOLEAN /\ ops' \in Nat /\ failures' \in Nat
  /\ ops <= ops' /\ ops' <= MaxOps
  /\ Cred!Undisturbed' => Cred!Undisturbed

\* It may be at point s with task r: it has taken the locks of that point, it has
\* read the file as it is, and its token is the one it had or that of an entry.
MayLock(w, s, r) ==
  /\ s \in Cred!Resolving /\ r.op = "request" =>
       /\ r.key = task[w].key /\ r.via = task[w].via /\ task[w].op = "request"
       /\ place[w] \in Cred!Resolving \/ Cred!AuthorizerFree(w)
  /\ s \in Cred!Refreshing /\ r.op = "request" /\ r.key \in Mcp => place[w] \in Cred!Refreshing \/ Cred!FileLockFree(w)
  /\ s \in {"migrate", "write"} => r.entry = task[w].entry /\ Cred!StoreFree(w)

MayBe(w, s, r) ==
  /\ s \in Point /\ r \in TaskT /\ TaskOK(s, r)
  /\ MayLock(w, s, r) /\ Current(s, r)
  /\ r.token # 0 => \/ r.token = task[w].token /\ r.key = task[w].key
                    \/ \E e \in Cred!Entry : Cred!KeyOf(e) = r.key /\ r.token = keyFile[e]

\* And while nothing has been disturbed.
MayBeClean(w, s, r) ==
  /\ s \in {"put", "write"} /\ r.op \in {"request", "login"} => Puts(w) /\ r.token = task[w].token
  /\ place[w] \in {"put", "write"} /\ task[w].op = "request"
          => s \in {"put", "write"} /\ r.op = "request" /\ r.key = task[w].key /\ r.via = task[w].via
  /\ s = "submit" => /\ r.token = keyFile[r.key]
                     /\ r.token \in live \/ (r.key \notin Mcp /\ spentBy[r.token] # <<ProcessOf(w), r.via>>)
  /\ s = "migrate" => Unused(r.token)
  /\ task[w].op = "logout" => \/ r.op = "logout" /\ r.key = task[w].key
                              \/ task[w].key \in HasLegacy => keyFile[Cred!Legacy(task[w].key)] = 0
  /\ s = "changed" /\ r.op = "logout" /\ r.entry # r.key => keyFile[Cred!Legacy(r.key)] = 0

LEMMA MovedTypes ==
  ASSUME CredParameters, CredInv, NEW w \in Worker, NEW s, NEW r, Moves(w, s, r), MayBe(w, s, r)
  PROVE  /\ CredTypes' /\ Count' /\ Tasks' /\ Reading'
         /\ \A v \in Worker : v # w => place'[v] = place[v] /\ task'[v] = task[v]
         /\ place'[w] = s /\ task'[w] = r
<1>1. place \in [Worker -> Point] /\ task \in [Worker -> TaskT] /\ s \in Point /\ r \in TaskT
  BY DEF CredInv, CredTypes, MayBe
<1>2. /\ \A v \in Worker : v # w => place'[v] = place[v] /\ task'[v] = task[v]
      /\ place'[w] = s /\ task'[w] = r
      /\ place' \in [Worker -> Point] /\ task' \in [Worker -> TaskT]
  BY <1>1 DEF Moves
<1>3. CredTypes' BY <1>2 DEF CredInv, CredTypes, Moves
<1>4. Count'
 <2>1. IsFiniteSet(aged \ live) /\ Cardinality(aged \ live) \in Nat BY AgedFinite
 <2>2. Cardinality(Cred!Entry) \in Nat BY Entries
 <2>3. UNCHANGED <<issued, aged, live>> /\ ops \in Nat /\ ops' \in Nat /\ ops <= ops' /\ issued \in Nat
   BY DEF Moves, CredInv, CredTypes
 <2>4. (Cardinality(aged \ live))' = Cardinality(aged \ live) /\ (Cardinality(aged))' = Cardinality(aged)
   BY <2>3
 <2>. QED BY <2>1, <2>2, <2>3, <2>4 DEF CredInv, Count
<1>5. Tasks' BY <1>2 DEF CredInv, Tasks, TaskOK, Moves, MayBe
<1>6. Reading' BY <1>2 DEF CredInv, Reading, Current, Moves, MayBe
<1>. QED BY <1>2, <1>3, <1>4, <1>5, <1>6

LEMMA LocksKept ==
  ASSUME CredParameters, CredInv, NEW w \in Worker, NEW s, NEW r, MayLock(w, s, r), Tasks',
         \A v \in Worker : v # w => /\ place'[v] = place[v] /\ task'[v].op = task[v].op
                                    /\ task'[v].key = task[v].key /\ task'[v].via = task[v].via
                                    /\ task'[v].entry = task[v].entry,
         place'[w] = s, task'[w] = r
  PROVE  Locks'
<1> SUFFICES ASSUME NEW u \in Worker, NEW v \in Worker, u # v PROVE Exclude(u, v)'
  BY DEF Locks
<1>1. /\ \A x \in Worker : x # w => /\ place'[x] = place[x] /\ task'[x].op = task[x].op
                                    /\ task'[x].key = task[x].key /\ task'[x].via = task[x].via
                                    /\ task'[x].entry = task[x].entry
      /\ place'[w] = s /\ task'[w] = r
  OBVIOUS
<1>2. Exclude(u, v) BY DEF CredInv, Locks
<1>3. CASE u # w /\ v # w BY <1>1, <1>2, <1>3 DEF Exclude, Cred!SameAuthorizer, Cred!Changing
<1>4. ASSUME NEW x \in Worker, x # w PROVE Exclude(x, w)'
 <2>1. Exclude(x, w) /\ Exclude(w, x) BY <1>4 DEF CredInv, Locks
 <2>2. task[x].op = "request" /\ r.op = "request" /\ Cred!SameAuthorizer(x, w)' => ~(place[x] \in Cred!Resolving /\ s \in Cred!Resolving)
   BY <1>1, <1>4, <2>1 DEF Exclude, Cred!SameAuthorizer, MayLock, Cred!AuthorizerFree
 <2>3. task[x].op = "request" /\ r.op = "request" /\ task[x].key \in Mcp /\ r.key \in Mcp
         => ~(place[x] \in Cred!Refreshing /\ s \in Cred!Refreshing)
   BY <1>1, <1>4, <2>1 DEF Exclude, MayLock, Cred!FileLockFree, Cred!Resolving
 <2>4. Cred!Changing(x) /\ s \in {"migrate", "write"} /\ ProcessOf(x) = ProcessOf(w) => r.entry \notin Cred!File(task[x].entry)
   BY <1>1, <1>4 DEF MayLock, Cred!StoreFree
 <2>. QED BY <1>1, <1>4, <2>2, <2>3, <2>4 DEF Exclude, Cred!Changing
<1>5. ASSUME NEW x \in Worker, x # w PROVE Exclude(w, x)'
 <2>1. Exclude(x, w)' BY <1>4, <1>5
 <2>2. Cred!SameAuthorizer(x, w)' <=> Cred!SameAuthorizer(w, x)' BY DEF Cred!SameAuthorizer
 <2>3. Cred!Changing(x)' /\ Cred!Changing(w)' => (task'[x].entry \in Cred!File(task'[w].entry) <=> task'[w].entry \in Cred!File(task'[x].entry))
  <3>1. Tasks' OBVIOUS
  <3>2. SUFFICES ASSUME Cred!Changing(x)', Cred!Changing(w)'
                 PROVE  task'[x].entry \in Cred!File(task'[w].entry) <=> task'[w].entry \in Cred!File(task'[x].entry)
    OBVIOUS
  <3>3. task'[x].entry \in Cred!Entry /\ task'[w].entry \in Cred!Entry
    BY <3>1, <3>2, Entries DEF Tasks, TaskOK, Cred!Changing
  <3>. QED BY <3>3, Files
 <2>. QED BY <2>1, <2>2, <2>3 DEF Exclude
<1>. QED BY <1>3, <1>4, <1>5

LEMMA MovedClean ==
  ASSUME CredParameters, CredInv, NEW w \in Worker, NEW s, NEW r, Moves(w, s, r), MayBe(w, s, r), MayBeClean(w, s, r),
         Cred!Undisturbed
  PROVE  Cred!SubmittedOnce' /\ CleanInv'
<1>1. /\ \A v \in Worker : v # w => place'[v] = place[v] /\ task'[v] = task[v]
      /\ place'[w] = s /\ task'[w] = r
      /\ UNCHANGED <<keyFile, live, spentBy, issued, aged>>
  BY ZenonT(40), MovedTypes DEF Moves
<1>2. Cred!SubmittedOnce /\ CleanInv /\ Tasks BY DEF CredInv
<1>3. \A k \in Key : k \in Cred!Entry /\ Cred!KeyOf(k) = k BY Entries
<1>4. \A k \in HasLegacy : Cred!Legacy(k) \in Cred!Entry /\ Cred!KeyOf(Cred!Legacy(k)) = k /\ k \in Key
  BY Entries DEF CredParameters
<1>5. PICK owner \in [Nat -> Key \cup {Nothing}] : OwnedBy(owner) BY <1>2 DEF CleanInv, Owned
<1>6. Cred!SubmittedOnce' BY <1>1, <1>2 DEF Cred!SubmittedOnce, Cred!Through, MayBeClean
<1>7. OwnedBy(owner)' BY <1>1, <1>5 DEF OwnedBy, MayBe
<1>8. Owned' BY <1>7 DEF Owned
<1>9. CredFresh'
 <2>1. ASSUME NEW v \in Worker, Puts(v)' PROVE Puts(v) /\ task'[v].token = task[v].token
   BY <1>1, <2>1 DEF Puts, MayBeClean
 <2>2. ASSUME NEW v \in Worker, Puts(v)', NEW x \in Worker, x # v PROVE task'[x].token # task'[v].token
  <3>1. /\ task[v].token \in live /\ \A e \in Cred!Entry : keyFile[e] # task[v].token
        /\ \A y \in Worker : y # v => task[y].token # task[v].token
    BY <1>2, <2>1, <2>2 DEF CleanInv, CredFresh
  <3>2. task[v].token # 0 BY <3>1 DEF CredInv, CredTypes
  <3>. QED BY <1>1, <2>1, <2>2, <3>1, <3>2 DEF MayBe
 <2>. QED BY <1>1, <1>2, <2>1, <2>2 DEF CleanInv, CredFresh
<1>10. Stored'
 <2>1. \A t : \A v \in Worker, k \in Key : Refreshes(v, k, t) => Refreshes(v, k, t)'
   BY <1>1 DEF Refreshes, Cred!Through, MayBeClean
 <2>. QED BY <1>1, <1>2, <2>1 DEF CleanInv, Stored
<1>11. ASSUME NEW t, Unused(t), s = "submit" => r.token # t PROVE Unused(t)'
  BY <1>1, <1>11 DEF Unused
<1>12. ASSUME s = "submit" PROVE r.key \in Key /\ r.token # 0 /\ r.token = keyFile[r.key] /\ owner[r.token] = r.key
  BY <1>3, <1>5, <1>12 DEF MayBe, MayBeClean, TaskOK, OwnedBy
<1>13. Older'
 <2> SUFFICES ASSUME NEW k \in HasLegacy, keyFile[k] = 0, keyFile[Cred!Legacy(k)] # 0,
                     ~ \E v \in Worker : task'[v].op = "logout" /\ task'[v].key = k
              PROVE  Unused(keyFile[Cred!Legacy(k)])'
   BY <1>1 DEF Older
 <2>1. ~ \E v \in Worker : task[v].op = "logout" /\ task[v].key = k BY <1>1 DEF MayBeClean
 <2>2. Unused(keyFile[Cred!Legacy(k)]) BY <1>2, <2>1 DEF CleanInv, Older
 <2>3. owner[keyFile[Cred!Legacy(k)]] = k BY <1>4, <1>5 DEF OwnedBy
 <2>4. s = "submit" => r.token # keyFile[Cred!Legacy(k)] BY <1>12, <2>3
 <2>. QED BY <1>1, <1>11, <2>2, <2>4
<1>14. Migrating'
 <2> SUFFICES ASSUME NEW v \in Worker, place'[v] = "migrate", ~task'[v].outdated PROVE Unused(task[v].token)'
   BY DEF Migrating
 <2>1. CASE v = w BY <1>1, <1>11, <2>1 DEF MayBeClean, Unused
 <2>2. CASE v # w
  <3>1. place[v] = "migrate" /\ ~task[v].outdated /\ task'[v] = task[v] /\ Unused(task[v].token)
    BY <1>1, <1>2, <2>2 DEF CleanInv, Migrating
  <3>2. task[v].key \in HasLegacy /\ keyFile[task[v].key] = 0 /\ task[v].token # 0
    BY <1>2, <3>1 DEF CredInv, Reading, Current, Tasks, TaskOK
  <3>3. owner[task[v].token] = task[v].key BY <1>5, <3>2 DEF OwnedBy
  <3>4. s = "submit" => r.token # task[v].token BY <1>12, <3>2, <3>3
  <3>. QED BY <1>11, <3>1, <3>4 DEF Unused
 <2>. QED BY <2>1, <2>2
<1>15. LoggedOut' BY <1>1, <1>2 DEF CleanInv, LoggedOut, MayBeClean
<1>. QED BY <1>6, <1>8, <1>9, <1>10, <1>13, <1>14, <1>15 DEF CleanInv

\* A move that may be made keeps the invariant.
LEMMA Moved ==
  ASSUME CredParameters, CredInv, NEW w \in Worker, NEW s, NEW r, Moves(w, s, r), MayBe(w, s, r),
         Cred!Undisturbed' => MayBeClean(w, s, r)
  PROVE  CredInv'
<1>1. Cred!Undisturbed' => Cred!Undisturbed BY DEF Moves
<1>. QED BY <1>1, MovedTypes, LocksKept, MovedClean DEF CredInv, MayBe

----------------------------------------
(* The steps that are such moves.                                          *)

LEMMA IdleTask ==
  ASSUME CredParameters, CredInv, NEW w \in Worker
  PROVE  /\ task[w] \in TaskT /\ TaskOK(place[w], task[w]) /\ Cred!NoTask \in TaskT /\ TaskOK("idle", Cred!NoTask)
         /\ issued \in Nat /\ \A e \in Cred!Entry : keyFile[e] \in Nat /\ keyFile[e] <= issued
  BY DEF CredInv, CredTypes, Tasks, TaskOK, Cred!NoTask, TaskT, Cred!Empty

\* A worker that is done: it has nothing to store, and it was no logout that has
\* an older entry to delete.
LEMMA Returned ==
  ASSUME CredParameters, CredInv, NEW w \in Worker, Cred!Returns(w), UNCHANGED <<keyFile, live, spentBy, issued, aged>>,
         crossed' \in BOOLEAN, ops' = ops, failures' \in Nat, Cred!Undisturbed' => Cred!Undisturbed,
         Cred!Undisturbed' => /\ place[w] \in {"put", "write"} => task[w].op # "request"
                              /\ task[w].op = "logout" /\ task[w].key \in HasLegacy => keyFile[Cred!Legacy(task[w].key)] = 0
  PROVE  CredInv'
<1>1. Cred!NoTask \in TaskT /\ TaskOK("idle", Cred!NoTask) /\ Cred!NoTask.token = 0 /\ Cred!NoTask.op = "none"
  BY IdleTask DEF Cred!NoTask
<1>2. Moves(w, "idle", Cred!NoTask) BY DEF Moves, Cred!Returns, Cred!Goto, CredInv, CredTypes
<1>3. MayBe(w, "idle", Cred!NoTask)
  BY <1>1 DEF MayBe, MayLock, Current, Point, Cred!Resolving, Cred!Refreshing
<1>4. Cred!Undisturbed' => MayBeClean(w, "idle", Cred!NoTask) BY <1>1 DEF MayBeClean
<1>. QED BY <1>2, <1>3, <1>4, Moved

\* A worker takes up a request, or a logout.
LEMMA Begun ==
  ASSUME CredParameters, CredInv, NEW w \in Worker, Cred!Request(w) \/ Cred!Logout(w)
  PROVE  CredInv'
<1>1. PICK k \in Key, op \in {"request", "logout"}, i \in Made \cup {Nothing} :
        /\ Cred!Begin(w, op, k, i, 0, IF op = "request" THEN "token" ELSE "put")
        /\ UNCHANGED <<live, issued>>
  BY DEF Cred!Request, Cred!Logout
<1> DEFINE s == IF op = "request" THEN "token" ELSE "put"
           r == [Cred!NoTask EXCEPT !.op = op, !.key = k, !.via = i, !.entry = k, !.token = 0]
<1>2. place[w] = "idle" /\ task[w].op = "none" BY <1>1, IdleTask DEF Cred!Begin, TaskOK, Cred!NoTask
<1>3. Moves(w, s, r)
 <2>1. ops < MaxOps /\ ops' = ops + 1 /\ UNCHANGED <<crossed, failures>> BY <1>1 DEF Cred!Begin
 <2>2. ops' \in Nat /\ ops <= ops' /\ ops' <= MaxOps BY <2>1 DEF CredInv, CredTypes, CredParameters
 <2>. QED BY <1>1, <2>1, <2>2
      DEF Cred!Begin, Cred!Goto, Moves, Cred!Undisturbed, CredInv, CredTypes
<1>4. /\ r.op = op /\ r.key = k /\ r.entry = k /\ r.token = 0 /\ r.rejected = 0
      /\ r.read = Cred!Empty
  BY DEF Cred!NoTask
<1>5. r \in TaskT BY Entries DEF TaskT, Cred!NoTask, Cred!Empty
<1>6. TaskOK(s, r) BY <1>4, IdleTask DEF TaskOK, Cred!Empty
<1>7. MayBe(w, s, r)
  BY <1>4, <1>5, <1>6 DEF MayBe, MayLock, Current, Point, Cred!Resolving, Cred!Refreshing
<1>8. MayBeClean(w, s, r) BY <1>2, <1>4 DEF MayBeClean
<1>. QED BY <1>3, <1>7, <1>8, Moved

\* What is found is used, or it is refreshed from step s on.
LEMMA Resolved ==
  ASSUME CredParameters, CredInv, NEW w \in Worker, NEW s \in {"lock", "submit"}, Cred!Resolve(w, s),
         place[w] \in {"token", "lock"}, place[w] = "token" => Cred!AuthorizerFree(w),
         s = "lock" => task[w].key \in Mcp,
         s = "submit" /\ task[w].key \in Mcp => place[w] = "lock" /\ Cred!FileLockFree(w)
  PROVE  CredInv'
<1> DEFINE k == task[w].key
           t == keyFile[k]
           r == [task[w] EXCEPT !.token = t]
           p == IF Cred!NeedsRefresh(w, t) THEN s ELSE "send"
<1>1. /\ task[w] \in TaskT /\ TaskOK(place[w], task[w]) /\ task[w].op = "request" /\ k \in Key /\ task[w].entry = k
      /\ k \in Cred!Entry /\ Cred!KeyOf(k) = k
  BY IdleTask, Entries DEF TaskOK
<1>2. CASE t = 0
  BY <1>1, <1>2, Returned
     DEF Cred!Resolve, Cred!server, Cred!bounds, CredInv, CredTypes, Cred!Undisturbed
<1>3. CASE t # 0
 <2>1. Moves(w, p, r)
   BY <1>3
      DEF Cred!Resolve, Cred!Goto, Moves, Cred!server, Cred!bounds, Cred!Undisturbed,
          CredInv, CredTypes
 <2>2. /\ r \in TaskT /\ r.op = "request" /\ r.key = k /\ r.entry = k /\ r.token = t /\ r.rejected = task[w].rejected
       /\ r.read = task[w].read /\ r.via = task[w].via
   BY <1>1, IdleTask DEF TaskT
 <2>3. Cred!NeedsRefresh(w, t) => t \in aged BY <1>1, <1>3 DEF Cred!NeedsRefresh, TaskOK
 <2>4. t <= issued BY <1>1, IdleTask
 <2> HIDE DEF r
 <2>5. TaskOK(p, r) BY <1>1, <1>3, <2>2, <2>3, <2>4 DEF TaskOK
 <2>6. MayBe(w, p, r)
   BY <1>1, <2>2, <2>5 DEF MayBe, MayLock, Current, Point, Cred!Resolving, Cred!Refreshing
 <2>7. ASSUME Cred!Undisturbed PROVE MayBeClean(w, p, r)
  <3>1. p = "submit" => t \in live \/ (k \notin Mcp /\ spentBy[t] # Cred!Through(w))
   <4> SUFFICES ASSUME p = "submit", t \notin live PROVE k \notin Mcp /\ spentBy[t] # Cred!Through(w)
     OBVIOUS
   <4>1. PICK v \in Worker : Refreshes(v, k, t) BY <1>1, <1>3, <2>7 DEF CredInv, CleanInv, Stored
   <4>2. v # w BY <4>1 DEF Refreshes
   <4>3. k \notin Mcp BY <4>1, <4>2 DEF Refreshes, Cred!FileLockFree, Cred!Refreshing
   <4>4. place[w] = "token" BY <1>1, <4>3 DEF TaskOK
   <4>5. Cred!Through(v) # Cred!Through(w)
     BY <4>1, <4>2, <4>4
        DEF Refreshes, Cred!AuthorizerFree, Cred!SameAuthorizer, Cred!Through, Cred!Resolving,
            Cred!Refreshing
   <4>. QED BY <4>1, <4>3, <4>5 DEF Refreshes
  <3>. QED BY <1>1, <2>2, <3>1 DEF MayBeClean, Puts, Cred!Through
 <2>. QED BY <2>1, <2>6, <2>7, Moved DEF Moves
<1>. QED BY <1>2, <1>3

\* The request is answered; a rejected token is resolved again, once.
LEMMA Sent ==
  ASSUME CredParameters, CredInv, NEW w \in Worker, Cred!SendAccepted(w) \/ Cred!SendRejected(w)
  PROVE  CredInv'
<1>1. place[w] = "send" /\ task[w] \in TaskT /\ TaskOK(place[w], task[w]) /\ task[w].op = "request"
  BY IdleTask DEF Cred!SendAccepted, Cred!SendRejected, TaskOK
<1>2. UNCHANGED <<keyFile, live, spentBy, issued, aged, crossed, ops, failures>>
  BY DEF Cred!SendAccepted, Cred!SendRejected, Cred!server, Cred!bounds
<1>3. CASE Cred!Returns(w) BY <1>1, <1>2, <1>3, Returned DEF Cred!Undisturbed, CredInv, CredTypes
<1>4. CASE ~Cred!Returns(w)
 <2> DEFINE r == [task[w] EXCEPT !.rejected = task[w].token]
 <2>1. task' = [task EXCEPT ![w] = r] /\ Cred!Goto(w, "token") /\ task[w].token \in aged
   BY <1>4 DEF Cred!SendAccepted, Cred!SendRejected
 <2>2. Moves(w, "token", r) BY <1>2, <2>1 DEF Moves, Cred!Goto, Cred!Undisturbed, CredInv, CredTypes
 <2>3. /\ r \in TaskT /\ r.op = "request" /\ r.key = task[w].key /\ r.entry = task[w].entry /\ r.token = task[w].token
       /\ r.rejected = task[w].token /\ r.read = task[w].read
   BY <1>1 DEF TaskT
 <2> HIDE DEF r
 <2>4. MayBe(w, "token", r)
   BY <1>1, <2>1, <2>3
      DEF MayBe, MayLock, Current, Point, Cred!Resolving, Cred!Refreshing, TaskOK
 <2>5. MayBeClean(w, "token", r) BY <1>1, <2>3 DEF MayBeClean
 <2>. QED BY <2>2, <2>4, <2>5, Moved
<1>. QED BY <1>3, <1>4

\* What Reads leaves the worker with.
LEMMA ReadTask ==
  ASSUME CredParameters, CredInv, NEW w \in Worker, NEW e \in Cred!Entry, NEW t \in Nat, t <= issued, Cred!Reads(w, e, t)
  PROVE  \E r \in TaskT :
           /\ task' = [task EXCEPT ![w] = r]
           /\ r.op = task[w].op /\ r.key = task[w].key /\ r.via = task[w].via /\ r.rejected = task[w].rejected
           /\ r.entry = e /\ r.token = t /\ r.read[e] = t
           /\ \A f \in Cred!File(e) : f # e => r.read[f] = keyFile[f]
           /\ \A f \in Cred!Entry : r.read[f] <= issued
<1> DEFINE rd == [f \in Cred!Entry |-> IF f = e THEN t ELSE IF f \in Cred!File(e) THEN keyFile[f] ELSE 0]
           r == [task[w] EXCEPT !.entry = e, !.token = t, !.read = rd]
<1>1. rd \in [Cred!Entry -> Nat] /\ rd[e] = t /\ \A f \in Cred!Entry : rd[f] <= issued BY IdleTask
<1>2. \A f \in Cred!File(e) : f # e => rd[f] = keyFile[f] BY DEF Cred!File
<1> HIDE DEF rd
<1>3. r \in TaskT /\ r.op = task[w].op /\ r.key = task[w].key /\ r.via = task[w].via /\ r.rejected = task[w].rejected
      /\ r.entry = e /\ r.token = t /\ r.read = rd
  BY <1>1, IdleTask DEF TaskT
<1>4. task' = [task EXCEPT ![w] = r] BY DEF Cred!Reads, rd, CredInv, CredTypes
<1>. QED BY <1>1, <1>2, <1>3, <1>4

\* Put and Delete read the file; a logout that finds nothing goes on.
LEMMA FileRead ==
  ASSUME CredParameters, CredInv, NEW w \in Worker, Cred!ReadFile(w)
  PROVE  CredInv'
<1>1. /\ place[w] = "put" /\ Cred!StoreFree(w) /\ task[w] \in TaskT /\ TaskOK(place[w], task[w])
      /\ UNCHANGED <<keyFile, live, spentBy, issued, aged, crossed, ops, failures>>
  BY IdleTask DEF Cred!ReadFile, Cred!server, Cred!bounds
<1>2. task[w].entry \in Cred!Entry /\ task[w].key \in Key /\ task[w].op # "none"
  BY <1>1, Entries DEF TaskOK
<1>3. CASE task[w].op = "logout" /\ keyFile[task[w].entry] = 0
 <2>1. Moves(w, "changed", task[w])
   BY <1>1, <1>3 DEF Cred!ReadFile, Cred!Goto, Moves, Cred!Undisturbed, CredInv, CredTypes
 <2>2. MayBe(w, "changed", task[w])
   BY <1>1, <1>3 DEF MayBe, MayLock, Current, Point, Cred!Resolving, Cred!Refreshing, TaskOK
 <2>3. MayBeClean(w, "changed", task[w]) BY <1>1, <1>3 DEF MayBeClean, TaskOK
 <2>. QED BY <2>1, <2>2, <2>3, Moved
<1>4. CASE ~(task[w].op = "logout" /\ keyFile[task[w].entry] = 0)
 <2>1. Cred!Goto(w, "write") /\ Cred!Reads(w, task[w].entry, task[w].token)
   BY <1>1, <1>4 DEF Cred!ReadFile
 <2>2. task[w].token \in Nat /\ task[w].token <= issued BY <1>1 DEF TaskT, TaskOK
 <2>3. PICK r \in TaskT :
          /\ task' = [task EXCEPT ![w] = r]
          /\ r.op = task[w].op /\ r.key = task[w].key /\ r.via = task[w].via /\ r.rejected = task[w].rejected
          /\ r.entry = task[w].entry /\ r.token = task[w].token /\ r.read[task[w].entry] = task[w].token
          /\ \A f \in Cred!File(task[w].entry) : f # task[w].entry => r.read[f] = keyFile[f]
          /\ \A f \in Cred!Entry : r.read[f] <= issued
   BY <1>2, <2>1, <2>2, ReadTask
 <2>4. Moves(w, "write", r)
   BY <1>1, <2>1, <2>3 DEF Cred!Goto, Moves, Cred!Undisturbed, CredInv, CredTypes
 <2>5. MayBe(w, "write", r)
   BY <1>1, <2>3 DEF MayBe, MayLock, Current, Point, Cred!Resolving, Cred!Refreshing, TaskOK
 <2>6. MayBeClean(w, "write", r) BY <1>1, <2>3 DEF MayBeClean, Puts
 <2>. QED BY <2>4, <2>5, <2>6, Moved
<1>. QED BY <1>3, <1>4

\* The older entry is read, to be copied.
LEMMA Migrated ==
  ASSUME CredParameters, CredInv, NEW w \in Worker, Cred!Migrate(w)
  PROVE  CredInv'
<1> DEFINE k == task[w].key
           t == keyFile[Cred!Legacy(k)]
<1>1. /\ place[w] = "token" /\ Cred!AuthorizerFree(w) /\ Cred!StoreFree(w) /\ Cred!ToMigrate(k) /\ Cred!Reads(w, k, t) /\ Cred!Goto(w, "migrate")
      /\ crossed' = (crossed \/ \E v \in Worker : task[v].op = "logout" /\ task[v].key = k)
      /\ task[w] \in TaskT /\ TaskOK(place[w], task[w])
      /\ UNCHANGED <<keyFile, live, spentBy, issued, aged, ops, failures>>
  BY IdleTask DEF Cred!Migrate, Cred!server, Cred!bounds
<1>2. k \in HasLegacy /\ keyFile[k] = 0 /\ t # 0 /\ k \in Key /\ k \in Cred!Entry /\ Cred!Legacy(k) \in Cred!Entry /\ k \notin Mcp
      /\ Cred!KeyOf(Cred!Legacy(k)) = k /\ task[w].op = "request" /\ task[w].entry = k
  BY <1>1, Entries DEF Cred!ToMigrate, TaskOK
<1>3. t \in Nat /\ t <= issued BY <1>2, IdleTask
<1>4. PICK r \in TaskT :
        /\ task' = [task EXCEPT ![w] = r]
        /\ r.op = task[w].op /\ r.key = k /\ r.via = task[w].via /\ r.rejected = task[w].rejected
        /\ r.entry = k /\ r.token = t /\ r.read[k] = t
        /\ \A f \in Cred!File(k) : f # k => r.read[f] = keyFile[f]
        /\ \A f \in Cred!Entry : r.read[f] <= issued
  BY <1>1, <1>2, <1>3, ReadTask
<1>5. crossed' \in BOOLEAN /\ (Cred!Undisturbed' => Cred!Undisturbed) BY <1>1 DEF Cred!Undisturbed
<1>6. Moves(w, "migrate", r) BY <1>1, <1>4, <1>5 DEF Cred!Goto, Moves, CredInv, CredTypes
<1>7. MayBe(w, "migrate", r)
  BY <1>1, <1>2, <1>4
     DEF MayBe, MayLock, Current, Point, Cred!Resolving, Cred!Refreshing, TaskOK
<1>8. ASSUME Cred!Undisturbed' PROVE MayBeClean(w, "migrate", r)
 <2>1. ~ \E v \in Worker : task[v].op = "logout" /\ task[v].key = k
   BY <1>1, <1>8 DEF Cred!Undisturbed
 <2>2. Unused(t) BY <1>2, <1>5, <1>8, <2>1 DEF CredInv, CleanInv, Older
 <2>. QED BY <1>1, <1>2, <1>4, <2>2 DEF MayBeClean
<1>. QED BY <1>6, <1>7, <1>8, Moved

\* The change is made; a logout goes on with the older entry.
LEMMA ChangeMade ==
  ASSUME CredParameters, CredInv, NEW w \in Worker, Cred!Changed(w)
  PROVE  CredInv'
<1> DEFINE k == task[w].key
<1>1. /\ place[w] = "changed" /\ task[w] \in TaskT /\ TaskOK(place[w], task[w])
      /\ UNCHANGED <<keyFile, live, spentBy, issued, aged, crossed, ops, failures>>
  BY IdleTask DEF Cred!Changed, Cred!server, Cred!bounds
<1>2. CASE task[w].op = "logout" /\ k \in HasLegacy /\ task[w].entry = k
 <2> DEFINE r == [task[w] EXCEPT !.entry = Cred!Legacy(k)]
 <2>1. Cred!Goto(w, "put") /\ task' = [task EXCEPT ![w] = r]
   BY <1>2 DEF Cred!Changed, CredInv, CredTypes
 <2>2. Moves(w, "put", r) BY <1>1, <2>1 DEF Cred!Goto, Moves, Cred!Undisturbed, CredInv, CredTypes
 <2>3. /\ r \in TaskT /\ r.op = "logout" /\ r.key = k /\ r.entry = Cred!Legacy(k) /\ r.token = task[w].token
       /\ r.rejected = task[w].rejected /\ r.read = task[w].read
   BY <1>1, <1>2, Entries DEF TaskT
 <2> HIDE DEF r
 <2>4. MayBe(w, "put", r)
   BY <1>1, <1>2, <2>3
      DEF MayBe, MayLock, Current, Point, Cred!Resolving, Cred!Refreshing, TaskOK
 <2>5. MayBeClean(w, "put", r) BY <1>1, <1>2, <2>3 DEF MayBeClean
 <2>. QED BY <2>2, <2>4, <2>5, Moved
<1>3. CASE ~(task[w].op = "logout" /\ k \in HasLegacy /\ task[w].entry = k)
 <2>1. Cred!Returns(w) BY <1>3 DEF Cred!Changed
 <2>2. ASSUME Cred!Undisturbed, task[w].op = "logout", k \in HasLegacy PROVE keyFile[Cred!Legacy(k)] = 0
   BY <1>1, <1>3, <2>2 DEF CredInv, CleanInv, LoggedOut
 <2>. QED BY <1>1, <2>1, <2>2, Returned DEF Cred!Undisturbed, CredInv, CredTypes
<1>. QED BY <1>2, <1>3

\* A write fails.
LEMMA Failed ==
  ASSUME CredParameters, CredInv, NEW w \in Worker, Cred!WriteFails(w)
  PROVE  CredInv'
<1>1. failures' = failures + 1 /\ failures \in Nat /\ crossed \in BOOLEAN /\ crossed' = crossed
      /\ Cred!Returns(w) /\ UNCHANGED <<keyFile, live, spentBy, issued, aged, ops>>
  BY DEF Cred!WriteFails, Cred!server, CredInv, CredTypes
<1>2. ~Cred!Undisturbed' BY <1>1 DEF Cred!Undisturbed
<1>. QED BY <1>1, <1>2, Returned

----------------------------------------
(* A server issues a token: for a login, or for the one that is spent.     *)

\* There are no more tokens than first ones, logins and refreshes.
LEMMA IssuedBound ==
  ASSUME CredParameters, CredInv
  PROVE  issued \in Nat /\ issued <= Cred!MaxToken /\ Cred!MaxToken \in Nat /\ 1..issued \subseteq Cred!Token
<1>1. Cardinality(aged \ live) <= Cardinality(aged) /\ Cardinality(aged) \in Nat /\ Cardinality(aged \ live) \in Nat
  BY AgedFinite, FS_Subset
<1>2. Cardinality(Cred!Entry) \in Nat BY Entries
<1>3. issued \in Nat /\ ops \in Nat /\ ops <= MaxOps /\ MaxOps \in Nat /\ MaxAged \in Nat /\ Count
  BY DEF CredInv, CredTypes, CredParameters
<1>. QED BY <1>1, <1>2, <1>3, SameCardinality DEF Count, Cred!MaxToken, Cred!Token

\* The next token; r is the task of the worker that has asked for it.
Issues(w, s, r) ==
  /\ place' = [place EXCEPT ![w] = s] /\ task' = [task EXCEPT ![w] = r]
  /\ UNCHANGED <<keyFile, aged, crossed>> /\ issued' = issued + 1
  /\ \/ /\ place[w] = "idle" /\ live' = live \cup {issued + 1}
        /\ spentBy' = spentBy /\ ops < MaxOps /\ ops' = ops + 1 /\ failures' = failures
     \/ place[w] = "submit" /\ Cred!Rotate(w) /\ ops' = ops /\ failures' \in {failures, failures + 1}

\* It is put into the file, or lost.
MayPut(w, s, r) ==
  /\ r \in TaskT
  /\ \/ s = "idle" /\ r = Cred!NoTask /\ ~Cred!Undisturbed'
     \/ /\ s = "put" /\ r.token = issued + 1 /\ r.key \in Key /\ r.entry = r.key
        /\ r.rejected \in aged \cup {0} /\ \A e \in Cred!Entry : r.read[e] <= issued
        /\ \/ place[w] = "idle" /\ r.op = "login"
           \/ place[w] = "submit" /\ r.op = "request" /\ r.key = task[w].key /\ r.via = task[w].via

LEMMA IssuedTypes ==
  ASSUME CredParameters, CredInv, NEW w \in Worker, NEW s, NEW r, Issues(w, s, r), MayPut(w, s, r)
  PROVE  /\ CredTypes' /\ Count' /\ Tasks' /\ Locks' /\ Reading'
         /\ \A v \in Worker : v # w => place'[v] = place[v] /\ task'[v] = task[v]
         /\ place'[w] = s /\ task'[w] = r
<1>1. /\ place \in [Worker -> Point] /\ task \in [Worker -> TaskT] /\ issued \in Nat /\ live \subseteq 1..issued
      /\ aged \subseteq 1..issued /\ ops \in Nat /\ ops <= MaxOps /\ failures \in Nat /\ MaxOps \in Nat
      /\ issued' = issued + 1 /\ UNCHANGED <<keyFile, aged, crossed>>
  BY DEF CredInv, CredTypes, CredParameters, Issues
<1>2. s \in Point /\ r \in TaskT BY DEF MayPut, Point, Cred!Resolving, Cred!Refreshing
<1>3. /\ \A v \in Worker : v # w => place'[v] = place[v] /\ task'[v] = task[v]
      /\ place'[w] = s /\ task'[w] = r
      /\ place' \in [Worker -> Point] /\ task' \in [Worker -> TaskT]
  BY <1>1, <1>2 DEF Issues
<1>4. place[w] = "submit" => task[w].token \in aged /\ task[w].op = "request"
  BY DEF CredInv, Tasks, TaskOK
<1>5. /\ Count
      /\ IsFiniteSet(aged \ live) /\ Cardinality(aged \ live) \in Nat
      /\ Cardinality(aged) \in Nat /\ Cardinality(Cred!Entry) \in Nat /\ MaxAged \in Nat
      /\ Cardinality(aged \ live) <= Cardinality(aged)
 <2>1. Cardinality(aged \ live) <= Cardinality(aged) BY AgedFinite, FS_Subset
 <2>. QED BY <2>1, AgedFinite, Entries DEF CredInv, CredParameters
<1>6. Count'
 <2>1. Cardinality(Cred!Entry)' = Cardinality(Cred!Entry) /\ Cardinality(aged)' = Cardinality(aged)
   BY <1>1
 <2>2. CASE place[w] = "idle"
  <3>1. live' = live \cup {issued + 1} /\ ops' = ops + 1 BY <2>2 DEF Issues
  <3>2. aged' \ live' = aged \ live BY <1>1, <3>1
  <3>3. issued' <= Cardinality(Cred!Entry) + ops' + Cardinality(aged \ live) /\ issued' >= 1
    BY <1>1, <1>5, <3>1 DEF Count
  <3>4. Cardinality(aged) <= MaxAged BY <1>5 DEF Count
  <3>. QED BY <2>1, <3>2, <3>3, <3>4 DEF Count
 <2>3. CASE place[w] # "idle"
  <3>1. Cred!Rotate(w) /\ ops' = ops /\ place[w] = "submit" BY <2>3 DEF Issues
  <3>2. aged' \ live' = (aged \ live) \cup {task[w].token} /\ task[w].token \notin aged \ live
    BY <1>1, <1>4, <3>1 DEF Cred!Rotate
  <3>3. Cardinality(aged' \ live') = Cardinality(aged \ live) + 1 BY <1>5, <3>2, FS_AddElement
  <3>. QED BY <1>1, <1>5, <2>1, <3>1, <3>3 DEF Count
 <2>. QED BY <2>2, <2>3
<1>7. issued <= Cred!MaxToken BY <1>1, <1>5, SameCardinality DEF Count, Cred!MaxToken
<1>8. CredTypes'
 <2>1. keyFile' \in [Cred!Entry -> Nat] /\ \A e \in Cred!Entry : keyFile'[e] <= issued'
   BY <1>1 DEF CredInv, CredTypes
 <2>2. live' \subseteq 1..issued' /\ aged' \subseteq 1..issued' /\ issued' \in Nat
  <3>1. live' \subseteq live \cup {issued + 1} BY DEF Issues, Cred!Rotate
  <3>2. \A y \in 1..issued : y \in 1..(issued + 1) BY <1>1
  <3>. QED BY <1>1, <3>1, <3>2
 <2>3. spentBy' \in [Cred!Token -> Spender]
  <3>1. spentBy \in [Cred!Token -> Spender] /\ ProcessOf(w) \in Process
    BY DEF CredInv, CredTypes, CredParameters
  <3>2. Cred!Through(w) \in Spender BY <1>1, <3>1 DEF Spender, Cred!Through, TaskT
  <3>. QED BY <3>1, <3>2 DEF Issues, Cred!Rotate
 <2>4. ops' \in Nat /\ ops' <= MaxOps /\ failures' \in Nat BY <1>1 DEF Issues
 <2>5. crossed' \in BOOLEAN BY <1>1 DEF CredInv, CredTypes
 <2>. QED BY <1>3, <2>1, <2>2, <2>3, <2>4, <2>5 DEF CredTypes
<1>9. Tasks'
 <2> SUFFICES ASSUME NEW v \in Worker PROVE TaskOK(place[v], task[v])'
   BY DEF Tasks
 <2>0. TaskOK(place[v], task[v]) /\ task[v] \in TaskT BY <1>1 DEF CredInv, Tasks
 <2>1. CASE v # w
  <3>1. task[v].token <= issued + 1 /\ \A e \in Cred!Entry : task[v].read[e] <= issued + 1
    BY <1>1, <2>0 DEF TaskOK, TaskT
  <3>. QED BY <1>1, <1>3, <2>0, <2>1, <3>1 DEF TaskOK
 <2>2. CASE v = w /\ s = "idle"
  <3>1. r = Cred!NoTask BY <2>2 DEF MayPut
  <3>. QED BY <1>1, <1>3, <2>2, <3>1 DEF TaskOK, Cred!NoTask, Cred!Empty
 <2>3. CASE v = w /\ s = "put"
  <3>1. /\ r.token = issued + 1 /\ r.key \in Key /\ r.entry = r.key /\ r.rejected \in aged \cup {0}
        /\ r.op \in {"login", "request"} /\ \A e \in Cred!Entry : r.read[e] <= issued
    BY <2>3 DEF MayPut
  <3>2. \A e \in Cred!Entry : r.read[e] <= issued + 1 BY <1>1, <1>2, <3>1 DEF TaskT
  <3>. QED BY <1>1, <1>3, <2>3, <3>1, <3>2 DEF TaskOK
 <2>. QED BY <2>1, <2>2, <2>3 DEF MayPut
<1>10. Locks'
 <2>1. MayLock(w, s, r) BY <1>4 DEF MayLock, MayPut, Cred!NoTask, Cred!Resolving, Cred!Refreshing
 <2>. QED BY <1>3, <1>9, <2>1, LocksKept
<1>11. Reading' BY <1>1, <1>3 DEF CredInv, Reading, Current, MayPut
<1>. QED BY <1>3, <1>6, <1>8, <1>9, <1>10, <1>11

LEMMA IssuedClean ==
  ASSUME CredParameters, CredInv, NEW w \in Worker, NEW s, NEW r, Issues(w, s, r), MayPut(w, s, r),
         Cred!Undisturbed'
  PROVE  Cred!SubmittedOnce' /\ CleanInv'
<1> DEFINE t == task[w].token
           n == issued + 1
<1>1. /\ \A v \in Worker : v # w => place'[v] = place[v] /\ task'[v] = task[v]
      /\ place'[w] = s /\ task'[w] = r /\ issued' = n
      /\ UNCHANGED <<keyFile, aged>>
  BY ZenonT(40), IssuedTypes DEF Issues
<1>2. Cred!Undisturbed BY DEF Issues, Cred!Undisturbed, CredInv, CredTypes
<1>3. Cred!SubmittedOnce /\ CleanInv /\ Tasks /\ Locks BY <1>2 DEF CredInv
<1>4. /\ s = "put" /\ r.token = n /\ r.key \in Key
      /\ \/ place[w] = "idle" /\ r.op = "login"
         \/ place[w] = "submit" /\ r.op = "request" /\ r.key = task[w].key /\ r.via = task[w].via
  BY DEF MayPut
<1>5. /\ issued \in Nat /\ n \in Nat /\ live \subseteq 1..issued
      /\ \A v \in Worker : task[v].token \in Nat /\ task[v].token # n
      /\ \A e \in Cred!Entry : keyFile[e] \in Nat /\ keyFile[e] # n
 <2>1. issued \in Nat /\ live \subseteq 1..issued BY DEF CredInv, CredTypes
 <2>2. ASSUME NEW v \in Worker PROVE task[v].token \in Nat /\ task[v].token <= issued
   BY IdleTask DEF TaskT, TaskOK
 <2>3. ASSUME NEW e \in Cred!Entry PROVE keyFile[e] \in Nat /\ keyFile[e] <= issued
   BY DEF CredInv, CredTypes
 <2>. QED BY <2>1, <2>2, <2>3
<1>6. \/ place[w] = "idle" /\ live' = live \cup {n} /\ spentBy' = spentBy
      \/ /\ place[w] = "submit" /\ t \in live /\ live' = (live \ {t}) \cup {n}
         /\ spentBy' = [spentBy EXCEPT ![t] = Cred!Through(w)]
  BY DEF Issues, Cred!Rotate
<1>7. place[w] = "submit" => task[w].op = "request" /\ task[w].key \in Key /\ t # 0 /\ t \in Cred!Token /\ t \in Nat
  BY <1>3, <1>5, <1>6, IssuedBound DEF Tasks, TaskOK
<1>8. place[w] = "idle" => task[w].op = "none" /\ t = 0 BY <1>3 DEF Tasks, TaskOK, Cred!NoTask
<1>9. \A y \in 1..issued : y # t => spentBy'[y] = spentBy[y]
  BY <1>6, IssuedBound DEF CredInv, CredTypes
<1>10. place[w] = "submit" => spentBy'[t] = Cred!Through(w)
  BY <1>6, <1>7, <1>8 DEF CredInv, CredTypes
<1>11. PICK owner \in [Nat -> Key \cup {Nothing}] : OwnedBy(owner) BY <1>3 DEF CleanInv, Owned
<1>12. Owned'
 <2>1. PICK new \in [Nat -> Key \cup {Nothing}] : new[n] = r.key /\ \A y \in Nat : y # n => new[y] = owner[y]
  <3> DEFINE f == [owner EXCEPT ![n] = r.key]
  <3>1. f \in [Nat -> Key \cup {Nothing}] /\ f[n] = r.key /\ \A y \in Nat : y # n => f[y] = owner[y]
    BY <1>4, <1>5
  <3>. QED BY <3>1
 <2>2. OwnedBy(new)' BY <1>1, <1>4, <1>5, <1>11, <2>1 DEF OwnedBy
 <2>. QED BY <2>1, <2>2 DEF Owned
<1>13. \A y \in live : y # t => y \in live' /\ y # 0 BY <1>5, <1>6
<1>14. Cred!SubmittedOnce'
 <2> SUFFICES ASSUME NEW v \in Worker, place'[v] = "submit"
              PROVE  task'[v].token \in live' \/ (task'[v].key \notin Mcp /\ spentBy'[task'[v].token] # Cred!Through(v)')
   BY DEF Cred!SubmittedOnce
 <2>1. v # w /\ place[v] = "submit" /\ task'[v] = task[v] /\ task[v].op = "request"
   BY <1>1, <1>3, <1>4 DEF Tasks, TaskOK
 <2>2. task[v].token \in live \/ (task[v].key \notin Mcp /\ spentBy[task[v].token] # Cred!Through(v))
   BY <1>2, <1>3, <2>1 DEF Cred!SubmittedOnce
 <2>3. CASE task[v].token = t
  <3>1. place[w] = "submit" BY <1>3, <1>6, <1>8, <2>1, <2>3 DEF Tasks, TaskOK
  <3>2. task[v].key = task[w].key BY <1>7, <1>11, <2>3, <3>1 DEF OwnedBy
  <3>3. Exclude(v, w) BY <1>3, <2>1 DEF Locks
  <3>4. task[v].key \notin Mcp /\ Cred!Through(v) # Cred!Through(w)
    BY <1>7, <2>1, <3>1, <3>2, <3>3
       DEF Exclude, Cred!SameAuthorizer, Cred!Through, Cred!Resolving, Cred!Refreshing
  <3>. QED BY <1>10, <2>1, <2>3, <3>1, <3>4 DEF Cred!Through
 <2>4. CASE task[v].token # t
  <3>1. task[v].token \in 1..issued BY <1>3, <2>1 DEF CredInv, CredTypes, Tasks, TaskOK
  <3>2. spentBy'[task[v].token] = spentBy[task[v].token] BY <1>9, <2>4, <3>1
  <3>. QED BY <1>13, <2>1, <2>2, <2>4, <3>2 DEF Cred!Through
 <2>. QED BY <2>3, <2>4
<1>15. CredFresh'
 <2> SUFFICES ASSUME NEW v \in Worker, Puts(v)'
              PROVE  /\ task'[v].token \in live'
                     /\ \A e \in Cred!Entry : keyFile[e] # task'[v].token
                     /\ \A x \in Worker : x # v => task'[x].token # task'[v].token
   BY <1>1 DEF CredFresh
 <2>1. CASE v = w BY <1>1, <1>4, <1>5, <1>6, <2>1
 <2>2. CASE v # w
  <3>1. Puts(v) /\ task'[v] = task[v] BY <1>1, <2>2 DEF Puts
  <3>2. /\ task[v].token \in live /\ \A e \in Cred!Entry : keyFile[e] # task[v].token
        /\ \A x \in Worker : x # v => task[x].token # task[v].token
    BY <1>3, <3>1 DEF CleanInv, CredFresh
  <3>. QED BY <1>1, <1>4, <1>5, <1>13, <2>2, <3>1, <3>2
 <2>. QED BY <2>1, <2>2
<1>16. Stored'
 <2> SUFFICES ASSUME NEW k \in Key, keyFile[k] # 0, keyFile[k] \notin live' PROVE \E v \in Worker : Refreshes(v, k, keyFile[k])'
   BY <1>1 DEF Stored
 <2>1. k \in Cred!Entry /\ Cred!KeyOf(k) = k /\ keyFile[k] \in 1..issued
  <3>1. k \in Cred!Entry /\ Cred!KeyOf(k) = k BY Entries
  <3>. QED BY <3>1 DEF CredInv, CredTypes
 <2>2. CASE keyFile[k] \in live
  <3>1. keyFile[k] = t /\ place[w] = "submit" BY <1>6, <1>13, <2>2
  <3>2. owner[keyFile[k]] = k /\ owner[t] = task[w].key BY <1>7, <1>11, <2>1, <3>1 DEF OwnedBy
  <3>3. Refreshes(w, k, keyFile[k])' BY <1>1, <1>4, <1>10, <3>1, <3>2 DEF Refreshes, Cred!Through
  <3>. QED BY <3>3
 <2>3. CASE keyFile[k] \notin live
  <3>1. PICK v \in Worker : Refreshes(v, k, keyFile[k]) BY <1>3, <2>3 DEF CleanInv, Stored
  <3>2. v # w BY <1>4, <3>1 DEF Refreshes
  <3>3. keyFile[k] # t \/ place[w] = "idle" BY <1>6, <2>3
  <3>4. spentBy'[keyFile[k]] = spentBy[keyFile[k]] BY <1>6, <1>9, <2>1, <3>3
  <3>5. Refreshes(v, k, keyFile[k])' BY <1>1, <3>1, <3>2, <3>4 DEF Refreshes, Cred!Through
  <3>. QED BY <3>5
 <2>. QED BY <2>2, <2>3
<1>17. ASSUME NEW y, Unused(y) PROVE Unused(y)'
 <2>1. y # t \/ place[w] = "idle" BY <1>6, <1>17 DEF Unused
 <2>2. y \in live' BY <1>6, <1>17, <2>1 DEF Unused
 <2>. QED BY <1>1, <1>4, <1>17, <2>2 DEF Unused
<1>18. Older' /\ Migrating' /\ LoggedOut'
 <2>1. \A v \in Worker : task[v].op = "logout" => task'[v] = task[v] BY <1>1, <1>6, <1>7, <1>8
 <2>2. ASSUME NEW k \in HasLegacy, keyFile[k] = 0, keyFile[Cred!Legacy(k)] # 0,
              ~ \E v \in Worker : task'[v].op = "logout" /\ task'[v].key = k
       PROVE  Unused(keyFile[Cred!Legacy(k)])'
  <3>1. ~ \E v \in Worker : task[v].op = "logout" /\ task[v].key = k BY <2>1, <2>2
  <3>2. Unused(keyFile[Cred!Legacy(k)]) BY <1>3, <2>2, <3>1 DEF CleanInv, Older
  <3>. QED BY <1>1, <1>17, <3>2
 <2>3. ASSUME NEW v \in Worker, place'[v] = "migrate", ~task'[v].outdated PROVE Unused(task[v].token)' /\ task'[v] = task[v]
  <3>1. v # w /\ place[v] = "migrate" /\ task'[v] = task[v] BY <1>1, <1>4, <2>3
  <3>2. Unused(task[v].token) BY <1>3, <2>3, <3>1 DEF CleanInv, Migrating
  <3>. QED BY <1>17, <3>1, <3>2 DEF Unused
 <2>4. LoggedOut' BY <1>1, <1>3, <1>4 DEF CleanInv, LoggedOut
 <2>5. Older' BY <1>1, <2>2 DEF Older
 <2>6. Migrating' BY <2>3 DEF Migrating, Unused
 <2>. QED BY <2>4, <2>5, <2>6
<1>. QED BY <1>12, <1>14, <1>15, <1>16, <1>18 DEF CleanInv

\* A login, and a refresh whether or not its answer arrives.
LEMMA Issued ==
  ASSUME CredParameters, CredInv, NEW w \in Worker, Cred!Login(w) \/ Cred!Submit(w) \/ Cred!SubmitFails(w)
  PROVE  CredInv'
<1>1. task[w] \in TaskT /\ TaskOK(place[w], task[w]) /\ issued \in Nat /\ failures \in Nat /\ crossed \in BOOLEAN
  BY IdleTask DEF CredInv, CredTypes
<1>2. ASSUME NEW s, NEW r, Issues(w, s, r), MayPut(w, s, r) PROVE CredInv'
  BY <1>2, IssuedTypes, IssuedClean DEF CredInv
<1>3. CASE Cred!Login(w)
 <2>1. PICK k \in Key : Cred!Begin(w, "login", k, Nothing, issued + 1, "put") /\ issued' = issued + 1 /\ live' = live \cup {issued + 1}
   BY <1>3 DEF Cred!Login
 <2>0. PICK n \in Nat : n = issued + 1 BY <1>1
 <2> DEFINE r == [Cred!NoTask EXCEPT !.op = "login", !.key = k, !.via = Nothing, !.entry = k, !.token = n]
 <2>2. Issues(w, "put", r) BY <2>0, <2>1 DEF Issues, Cred!Begin, Cred!Goto
 <2>3. /\ r.op = "login" /\ r.key = k /\ r.entry = k /\ r.token = n /\ r.rejected = 0
       /\ r.read = Cred!Empty
   BY DEF Cred!NoTask
 <2>4. r \in TaskT BY Entries DEF TaskT, Cred!NoTask, Cred!Empty
 <2> HIDE DEF r
 <2>5. \A e \in Cred!Entry : Cred!Empty[e] <= issued BY <1>1 DEF Cred!Empty
 <2>6. MayPut(w, "put", r) BY <2>0, <2>1, <2>3, <2>4, <2>5 DEF MayPut, Cred!Begin
 <2>. QED BY <1>2, <2>2, <2>6
<1>4. CASE Cred!Submit(w)
 <2>1. CASE Cred!Rotate(w) /\ task' = [task EXCEPT ![w].token = issued + 1] /\ Cred!Goto(w, "put")
  <3> DEFINE r == [task[w] EXCEPT !.token = issued + 1]
  <3>1. Issues(w, "put", r)
    BY <1>1, <1>4, <2>1
       DEF Cred!Submit, Issues, Cred!Goto, Cred!Rotate, Cred!bounds, CredInv, CredTypes
  <3>2. /\ r \in TaskT /\ r.op = task[w].op /\ r.key = task[w].key /\ r.via = task[w].via /\ r.entry = task[w].entry
        /\ r.token = issued + 1 /\ r.rejected = task[w].rejected /\ r.read = task[w].read
    BY <1>1 DEF TaskT
  <3> HIDE DEF r
  <3>3. MayPut(w, "put", r) BY <1>1, <1>4, <3>2 DEF MayPut, Cred!Submit, TaskOK
  <3>. QED BY <1>2, <3>1, <3>3
 <2>2. CASE Cred!Returns(w) /\ UNCHANGED Cred!server
   BY <1>1, <1>4, <2>2, Returned
      DEF Cred!Submit, Cred!server, Cred!bounds, Cred!Undisturbed, CredInv, CredTypes,
          TaskOK
 <2>. QED BY <1>4, <2>1, <2>2 DEF Cred!Submit
<1>5. CASE Cred!SubmitFails(w)
 <2>1. place[w] = "submit" /\ failures' = failures + 1 /\ Cred!Returns(w) /\ UNCHANGED <<keyFile, crossed, ops>>
   BY <1>5 DEF Cred!SubmitFails
 <2>2. ~Cred!Undisturbed' BY <1>1, <2>1 DEF Cred!Undisturbed
 <2>3. CASE Cred!Rotate(w)
  <3>1. Issues(w, "idle", Cred!NoTask)
    BY <2>1, <2>3 DEF Issues, Cred!Returns, Cred!Goto, Cred!Rotate
  <3>2. MayPut(w, "idle", Cred!NoTask) BY <2>2, IdleTask DEF MayPut
  <3>. QED BY <1>2, <3>1, <3>2
 <2>4. CASE UNCHANGED Cred!server BY <1>1, <2>1, <2>2, <2>4, Returned DEF Cred!server
 <2>. QED BY <1>5, <2>3, <2>4 DEF Cred!SubmitFails
<1>. QED BY <1>3, <1>4, <1>5

\* A token ages.
LEMMA Aged ==
  ASSUME CredParameters, CredInv, NEW t \in Cred!Token, Cred!Age(t)
  PROVE  CredInv'
<1>1. /\ t \in 1..issued /\ t \notin aged /\ Cardinality(aged) < MaxAged /\ aged' = aged \cup {t}
      /\ UNCHANGED <<keyFile, live, spentBy, issued, place, task, crossed, ops, failures>>
  BY SameCardinality DEF Cred!Age, Cred!bounds
<1>2. CredTypes' BY <1>1 DEF CredInv, CredTypes
<1>3. Count'
 <2>1. IsFiniteSet(aged) /\ Cardinality(aged) \in Nat /\ IsFiniteSet(aged \ live) /\ Cardinality(aged \ live) \in Nat
   BY AgedFinite
 <2>2. Cardinality(aged') = Cardinality(aged) + 1 /\ IsFiniteSet(aged') BY <1>1, <2>1, FS_AddElement
 <2>3. Cardinality(aged \ live) <= Cardinality(aged' \ live') /\ Cardinality(aged' \ live') \in Nat
  <3>1. IsFiniteSet(aged' \ live') BY <2>2, FS_Subset
  <3>2. aged \ live \subseteq aged' \ live' BY <1>1
  <3>. QED BY <3>1, <3>2, FS_Subset, FS_CardinalityType
 <2>4. Cardinality(Cred!Entry) \in Nat /\ Cardinality(Cred!Entry)' = Cardinality(Cred!Entry)
   BY Entries
 <2>. QED BY <1>1, <2>1, <2>2, <2>3, <2>4 DEF CredInv, CredTypes, CredParameters, Count
<1>4. Tasks' BY <1>1 DEF CredInv, Tasks, TaskOK
<1>5. Locks' /\ Reading'
  BY <1>1 DEF CredInv, Locks, Exclude, Cred!Changing, Cred!SameAuthorizer, Reading, Current
<1>6. ASSUME Cred!Undisturbed' PROVE Cred!SubmittedOnce' /\ CleanInv'
 <2>1. Cred!SubmittedOnce /\ CleanInv BY <1>1, <1>6 DEF Cred!Undisturbed, CredInv
 <2>2. Cred!SubmittedOnce'
   BY <1>1, <1>6, <2>1 DEF Cred!SubmittedOnce, Cred!Undisturbed, Cred!Through
 <2>3. Owned' BY <1>1, <2>1 DEF CleanInv, Owned, OwnedBy
 <2>4. CredFresh' /\ Stored'
   BY <1>1, <2>1 DEF CleanInv, CredFresh, Puts, Stored, Refreshes, Cred!Through
 <2>5. Older' /\ Migrating' /\ LoggedOut'
   BY <1>1, <2>1 DEF CleanInv, Older, Unused, Migrating, LoggedOut
 <2>. QED BY <2>2, <2>3, <2>4, <2>5 DEF CleanInv
<1>. QED BY <1>2, <1>3, <1>4, <1>5, <1>6 DEF CredInv

----------------------------------------
(* A file is replaced.                                                     *)

\* Where a worker goes that has replaced the file.
After(w, s) ==
  \/ place[w] = "write" /\ s = IF task[w].op = "request" THEN "send" ELSE "changed"
  \/ place[w] = "migrate" /\ s = IF Cred!NeedsRefresh(w, task[w].token) THEN "submit" ELSE "send"

LEMMA ReplacedTypes ==
  ASSUME CredParameters, CredInv, NEW w \in Worker, NEW s, Cred!Replace(w), Cred!Goto(w, s), After(w, s)
  PROVE  /\ CredTypes' /\ Count' /\ Tasks' /\ Locks' /\ Reading'
         /\ UNCHANGED <<live, spentBy, issued, aged>> /\ (Cred!Undisturbed' => Cred!Undisturbed /\ ~task[w].outdated)
         /\ \A f \in Cred!Entry : keyFile'[f] = IF f \in Cred!File(task[w].entry) THEN task[w].read[f] ELSE keyFile[f]
         /\ place'[w] = s /\ \A v \in Worker : v # w => place'[v] = place[v]
         /\ \A v \in Worker : /\ task'[v].op = task[v].op /\ task'[v].key = task[v].key /\ task'[v].via = task[v].via
                              /\ task'[v].entry = task[v].entry /\ task'[v].token = task[v].token
         /\ \A v \in Worker : v # w /\ Cred!Changing(v) /\ ~task'[v].outdated
              => ~task[v].outdated /\ task[v].entry \notin Cred!File(task[w].entry)
<1> DEFINE same == Cred!File(task[w].entry)
<1>1. /\ place \in [Worker -> Point] /\ task \in [Worker -> TaskT] /\ task[w] \in TaskT /\ TaskOK(place[w], task[w])
      /\ keyFile \in [Cred!Entry -> Nat] /\ issued \in Nat /\ crossed \in BOOLEAN
  BY DEF CredInv, CredTypes, Tasks
<1>2. /\ keyFile' = [f \in Cred!Entry |-> IF f \in same THEN task[w].read[f] ELSE keyFile[f]]
      /\ crossed' = (crossed \/ task[w].outdated)
      /\ UNCHANGED <<live, spentBy, issued, aged, ops, failures>>
      /\ place' = [place EXCEPT ![w] = s]
  BY DEF Cred!Replace, Cred!server, Cred!bounds, Cred!Goto
<1>3. /\ place[w] \in {"write", "migrate"} /\ s \in {"send", "changed", "submit"} /\ Cred!Changing(w)
      /\ task[w].entry \in Cred!Entry /\ task[w].key \in Key
  BY <1>1, Entries DEF After, Cred!Changing, TaskOK
<1>4. place' \in [Worker -> Point] /\ place'[w] = s /\ \A v \in Worker : v # w => place'[v] = place[v]
  BY <1>1, <1>2, <1>3 DEF Point, Cred!Resolving, Cred!Refreshing
<1> DEFINE mine == [task[w] EXCEPT !.read = Cred!Empty, !.outdated = FALSE]
           other(v) == [task[v] EXCEPT !.outdated = TRUE]
<1>5. /\ mine \in TaskT /\ mine.op = task[w].op /\ mine.key = task[w].key /\ mine.via = task[w].via /\ mine.entry = task[w].entry
      /\ mine.token = task[w].token /\ mine.rejected = task[w].rejected /\ mine.read = Cred!Empty
  BY <1>1 DEF TaskT, Cred!Empty
<1>6. ASSUME NEW v \in Worker
      PROVE  /\ other(v) \in TaskT /\ other(v).op = task[v].op /\ other(v).key = task[v].key /\ other(v).via = task[v].via
             /\ other(v).entry = task[v].entry /\ other(v).token = task[v].token
             /\ other(v).rejected = task[v].rejected /\ other(v).read = task[v].read /\ other(v).outdated
  BY <1>1 DEF TaskT
<1>7. \A v \in Worker :
        task'[v] = IF v = w THEN mine
                   ELSE IF Cred!Changing(v) /\ ProcessOf(v) # ProcessOf(w) /\ task[v].entry \in same THEN other(v)
                   ELSE task[v]
  BY DEF Cred!Replace
<1>8. DOMAIN task' = Worker /\ task' = [v \in Worker |-> task'[v]] BY DEF Cred!Replace
<1> HIDE DEF mine, other
<1>9. ASSUME NEW v \in Worker
      PROVE  /\ task'[v] \in TaskT /\ task'[v].op = task[v].op /\ task'[v].key = task[v].key /\ task'[v].via = task[v].via
             /\ task'[v].entry = task[v].entry /\ task'[v].token = task[v].token /\ task'[v].rejected = task[v].rejected
             /\ task'[v].read = IF v = w THEN Cred!Empty ELSE task[v].read
 <2>1. task[v] \in TaskT BY <1>1
 <2>. QED BY <1>5, <1>6, <1>7, <2>1
<1>10. ASSUME NEW v \in Worker, v # w, Cred!Changing(v), ~task'[v].outdated
       PROVE  ~task[v].outdated /\ task[v].entry \notin same
 <2>1. task'[v] = task[v] /\ (ProcessOf(v) = ProcessOf(w) \/ task[v].entry \notin same)
   BY <1>6, <1>7, <1>10
 <2>2. Exclude(w, v) BY <1>10 DEF CredInv, Locks
 <2>. QED BY <1>3, <1>10, <2>1, <2>2 DEF Exclude
<1>11. /\ \A f \in Cred!Entry : keyFile'[f] = IF f \in same THEN task[w].read[f] ELSE keyFile[f]
       /\ \A f \in Cred!Entry : keyFile'[f] \in Nat /\ keyFile'[f] <= issued
 <2>1. \A f \in Cred!Entry : task[w].read[f] \in Nat /\ task[w].read[f] <= issued
   BY <1>1 DEF TaskT, TaskOK
 <2>2. \A f \in Cred!Entry : keyFile[f] \in Nat /\ keyFile[f] <= issued
   BY <1>1 DEF CredInv, CredTypes
 <2>. QED BY <1>2, <2>1, <2>2
<1>12. CredTypes'
 <2>1. keyFile' \in [Cred!Entry -> Nat] /\ \A f \in Cred!Entry : keyFile'[f] <= issued'
   BY <1>2, <1>11
 <2>2. task' \in [Worker -> TaskT] BY <1>8, <1>9
 <2>3. crossed' \in BOOLEAN BY <1>2 DEF CredInv, CredTypes
 <2>. QED BY <1>2, <1>4, <2>1, <2>2, <2>3 DEF CredInv, CredTypes
<1>13. Count' BY <1>2 DEF CredInv, Count
<1>14. Tasks'
 <2> SUFFICES ASSUME NEW v \in Worker PROVE TaskOK(place[v], task[v])'
   BY DEF Tasks
 <2>1. CASE v # w
  <3>1. TaskOK(place[v], task[v]) /\ place'[v] = place[v] /\ UNCHANGED <<issued, aged>>
    BY <1>2, <1>4, <2>1 DEF CredInv, Tasks
  <3>2. place[v] = "idle" => task'[v] = task[v] BY <1>7, <2>1 DEF Cred!Changing
  <3>3. /\ task'[v].op = task[v].op /\ task'[v].key = task[v].key /\ task'[v].via = task[v].via
        /\ task'[v].entry = task[v].entry /\ task'[v].token = task[v].token /\ task'[v].rejected = task[v].rejected /\ task'[v].read = task[v].read
    BY <1>9, <2>1
  <3>. QED BY <3>1, <3>2, <3>3 DEF TaskOK
 <2>2. CASE v = w
  <3>1. s = "submit" => task[w].token \in aged BY <1>1, <1>3 DEF After, Cred!NeedsRefresh, TaskOK
  <3>2. \A e \in Cred!Entry : Cred!Empty[e] <= issued BY <1>1 DEF Cred!Empty
  <3>3. /\ task'[w].op = task[w].op /\ task'[w].key = task[w].key /\ task'[w].via = task[w].via /\ task'[w].entry = task[w].entry
        /\ task'[w].token = task[w].token /\ task'[w].rejected = task[w].rejected /\ task'[w].read = Cred!Empty
        /\ place'[w] = s /\ UNCHANGED <<issued, aged>>
    BY <1>2, <1>4, <1>9
  <3>4. place[w] = "write" => s \in {"send", "changed"} BY DEF After
  <3>5. /\ s = "send" => task[w].op = "request"
        /\ s = "changed" => task[w].op \in {"login", "logout"}
        /\ s = "submit" => task[w].op = "request"
    BY <1>1, <1>3 DEF After, TaskOK, TaskT
  <3>6. /\ task[w].op # "none" /\ task[w].token <= issued /\ task[w].rejected \in aged \cup {0}
        /\ task[w].entry = task[w].key
           \/ (task[w].op = "logout" /\ task[w].key \in HasLegacy /\ task[w].entry = Cred!Legacy(task[w].key))
        /\ task[w].token = 0 <=> task[w].op = "logout"
    BY <1>1, <1>3 DEF TaskOK
  <3>. QED BY <1>3, <2>2, <3>1, <3>2, <3>3, <3>5, <3>6 DEF TaskOK
 <2>. QED BY <2>1, <2>2
<1>15. Locks'
 <2>1. MayLock(w, s, task'[w])
   BY <1>1, <1>3, <1>9, Entries DEF MayLock, After, TaskOK, Cred!Resolving, Cred!Refreshing
 <2>. QED BY <1>4, <1>9, <1>14, <2>1, LocksKept
<1>16. Reading'
 <2> SUFFICES ASSUME NEW v \in Worker, place'[v] \in {"migrate", "write"}, ~task'[v].outdated PROVE Current(place[v], task[v])'
   BY DEF Reading, Current
 <2>1. v # w /\ place'[v] = place[v] /\ Cred!Changing(v) BY <1>3, <1>4 DEF Cred!Changing
 <2>2. ~task[v].outdated /\ task[v].entry \notin same /\ Current(place[v], task[v]) /\ TaskOK(place[v], task[v])
   BY <1>10, <2>1 DEF CredInv, Reading, Tasks
 <2>3. task[v].entry \in Cred!Entry BY <2>1, <2>2, Entries DEF TaskOK, Cred!Changing
 <2>4. \A f \in Cred!File(task[v].entry) : keyFile'[f] = keyFile[f] /\ f \in Cred!Entry
   BY <1>3, <1>11, <2>2, <2>3, Files DEF Cred!File
 <2>5. place[v] = "migrate" => task[v].key \in Cred!File(task[v].entry) /\ Cred!Legacy(task[v].key) \in Cred!File(task[v].entry)
   BY <2>2, <2>3, Entries, Files DEF TaskOK
 <2>6. task'[v].read = task[v].read /\ task'[v].entry = task[v].entry /\ task'[v].key = task[v].key
       /\ task'[v].token = task[v].token
   BY <1>9, <2>1
 <2>. QED BY <2>1, <2>2, <2>4, <2>5, <2>6 DEF Current, Cred!Changing, Cred!File
<1>17. Cred!Undisturbed' => Cred!Undisturbed /\ ~task[w].outdated BY <1>2 DEF Cred!Undisturbed
<1>. QED BY <1>2, <1>4, <1>9, <1>10, <1>11, <1>12, <1>13, <1>14, <1>15, <1>16, <1>17

LEMMA ReplacedClean ==
  ASSUME CredParameters, CredInv, NEW w \in Worker, NEW s, Cred!Replace(w), Cred!Goto(w, s), After(w, s), Cred!Undisturbed'
  PROVE  Cred!SubmittedOnce' /\ CleanInv'
<1> DEFINE e == task[w].entry
           t == task[w].token
<1>1. /\ UNCHANGED <<live, spentBy, issued, aged>> /\ Cred!Undisturbed /\ ~task[w].outdated
      /\ \A f \in Cred!Entry : keyFile'[f] = IF f \in Cred!File(e) THEN task[w].read[f] ELSE keyFile[f]
      /\ place'[w] = s /\ \A v \in Worker : v # w => place'[v] = place[v]
  BY ReplacedTypes
<1>2. \A v \in Worker : /\ task'[v].op = task[v].op /\ task'[v].key = task[v].key /\ task'[v].via = task[v].via
                        /\ task'[v].entry = task[v].entry /\ task'[v].token = task[v].token
  BY ReplacedTypes
<1>3. \A v \in Worker : v # w /\ Cred!Changing(v) /\ ~task'[v].outdated => ~task[v].outdated /\ task[v].entry \notin Cred!File(e)
  BY ReplacedTypes
<1>4. Cred!SubmittedOnce /\ CleanInv /\ Tasks /\ Reading BY <1>1 DEF CredInv
<1>5. TaskOK(place[w], task[w]) /\ Current(place[w], task[w]) /\ place[w] \in {"write", "migrate"}
  BY <1>4 DEF Tasks, Reading, After
<1>6. /\ e \in Cred!Entry /\ task[w].key \in Key /\ Cred!KeyOf(e) = task[w].key /\ task[w].read[e] = t
      /\ e = task[w].key \/ (task[w].op = "logout" /\ task[w].key \in HasLegacy /\ e = Cred!Legacy(task[w].key))
  BY <1>5, Entries DEF TaskOK
<1>7. \A f \in Cred!Entry : keyFile'[f] = IF f = e THEN t ELSE keyFile[f]
  BY <1>1, <1>5, <1>6, Files DEF Current
<1>8. (t = 0 <=> task[w].op = "logout") /\ (task[w].op = "logout" => place[w] = "write")
  BY <1>5 DEF TaskOK
<1>9. place[w] = "migrate" => Unused(t) BY <1>1, <1>4, <1>5 DEF CleanInv, Migrating
<1>10. t # 0 => t \in live
 <2>1. CASE place[w] = "write" /\ t # 0
  <3>1. task[w].op \in {"request", "login"} BY <1>5, <1>8, <2>1, IdleTask DEF TaskOK, TaskT
  <3>. QED BY <1>4, <2>1, <3>1 DEF CleanInv, CredFresh, Puts
 <2>. QED BY <1>5, <1>9, <2>1 DEF Unused
<1>11. PICK owner \in [Nat -> Key \cup {Nothing}] : OwnedBy(owner) BY <1>4 DEF CleanInv, Owned
<1>12. s = "submit" => place[w] = "migrate" /\ task[w].op = "request" /\ task[w].key \in HasLegacy /\ e = task[w].key
  BY <1>5, <1>6 DEF After, TaskOK
<1>13. s \in {"send", "changed", "submit"} BY DEF After
<1>14. Cred!SubmittedOnce'
  BY <1>1, <1>2, <1>4, <1>9, <1>12 DEF Cred!SubmittedOnce, Unused, Cred!Through
<1>15. Owned'
 <2>1. OwnedBy(owner)' BY <1>2, <1>6, <1>7, <1>11 DEF OwnedBy
 <2>. QED BY <2>1 DEF Owned
<1>16. CredFresh'
 <2> SUFFICES ASSUME NEW v \in Worker, Puts(v)'
              PROVE  /\ task'[v].token \in live
                     /\ \A f \in Cred!Entry : keyFile'[f] # task'[v].token
                     /\ \A x \in Worker : x # v => task'[x].token # task'[v].token
   BY <1>1 DEF CredFresh
 <2>1. v # w /\ Puts(v) BY <1>1, <1>2, <1>13 DEF Puts
 <2>2. /\ task[v].token \in live /\ \A f \in Cred!Entry : keyFile[f] # task[v].token
       /\ \A x \in Worker : x # v => task[x].token # task[v].token
   BY <1>4, <2>1 DEF CleanInv, CredFresh
 <2>. QED BY <1>2, <1>7, <2>1, <2>2
<1>17. Stored'
 <2> SUFFICES ASSUME NEW k \in Key, keyFile'[k] # 0, keyFile'[k] \notin live
              PROVE  \E v \in Worker : Refreshes(v, k, keyFile[k])'
   BY <1>1 DEF Stored
 <2>1. k \in Cred!Entry /\ Cred!KeyOf(k) = k BY Entries
 <2>2. k # e /\ keyFile'[k] = keyFile[k] BY <1>7, <1>10, <2>1
 <2>3. PICK v \in Worker : Refreshes(v, k, keyFile[k]) BY <1>4, <2>2 DEF CleanInv, Stored
 <2>4. v # w BY <1>6, <2>2, <2>3 DEF Refreshes
 <2>5. Refreshes(v, k, keyFile[k])' BY <1>1, <1>2, <2>2, <2>3, <2>4 DEF Refreshes, Cred!Through
 <2>. QED BY <2>5
<1>18. ASSUME NEW y, Unused(y), s = "submit" => t # y PROVE Unused(y)'
  BY <1>1, <1>2, <1>18 DEF Unused
<1>19. Older'
 <2> SUFFICES ASSUME NEW k \in HasLegacy, keyFile'[k] = 0, keyFile'[Cred!Legacy(k)] # 0,
                     ~ \E v \in Worker : task'[v].op = "logout" /\ task'[v].key = k
              PROVE  Unused(keyFile[Cred!Legacy(k)])'
   BY DEF Older
 <2>1. ~ \E v \in Worker : task[v].op = "logout" /\ task[v].key = k BY <1>2
 <2>2. k \in Cred!Entry /\ Cred!Legacy(k) \in Cred!Entry /\ Cred!KeyOf(k) = k /\ Cred!KeyOf(Cred!Legacy(k)) = k /\ Cred!Legacy(k) # k
   BY Entries DEF CredParameters
 <2>3. k # e /\ Cred!Legacy(k) # e
  <3>1. Cred!Legacy(k) # e BY <1>6, <2>1, <2>2
  <3>2. k # e BY <1>6, <1>7, <1>8, <2>1, <2>2
  <3>. QED BY <3>1, <3>2
 <2>4. keyFile[k] = 0 /\ keyFile'[Cred!Legacy(k)] = keyFile[Cred!Legacy(k)] BY <1>7, <2>2, <2>3
 <2>5. Unused(keyFile[Cred!Legacy(k)]) BY <1>4, <2>1, <2>4 DEF CleanInv, Older
 <2>6. s = "submit" => t # keyFile[Cred!Legacy(k)]
   BY <1>6, <1>8, <1>11, <1>12, <2>2, <2>3, <2>4 DEF OwnedBy
 <2>. QED BY <1>18, <2>4, <2>5, <2>6
<1>20. Migrating'
 <2> SUFFICES ASSUME NEW v \in Worker, place'[v] = "migrate", ~task'[v].outdated PROVE Unused(task[v].token)'
   BY DEF Migrating
 <2>1. v # w /\ place[v] = "migrate" /\ Cred!Changing(v) BY <1>1, <1>13 DEF Cred!Changing
 <2>2. ~task[v].outdated /\ task[v].entry \notin Cred!File(e) /\ TaskOK(place[v], task[v])
   BY <1>3, <1>4, <2>1 DEF Tasks
 <2>3. Unused(task[v].token) /\ task'[v].token = task[v].token
   BY <1>2, <1>4, <2>1, <2>2 DEF CleanInv, Migrating
 <2>4. task[v].entry = task[v].key /\ task[v].key \in Cred!Entry /\ task[v].token # 0 /\ Cred!KeyOf(task[v].key) = task[v].key
   BY <2>1, <2>2, Entries DEF TaskOK
 <2>5. task[v].key # task[w].key BY <1>6, <2>2, <2>4, Files
 <2>6. t # task[v].token BY <1>11, <2>4, <2>5 DEF OwnedBy
 <2>. QED BY <1>18, <2>3, <2>6 DEF Unused
<1>21. LoggedOut'
 <2> SUFFICES ASSUME NEW v \in Worker, place'[v] = "changed", task'[v].op = "logout", task'[v].entry # task'[v].key
              PROVE  keyFile'[Cred!Legacy(task[v].key)] = 0
   BY <1>2 DEF LoggedOut
 <2>1. CASE v = w BY <1>2, <1>6, <1>7, <1>8, <2>1
 <2>2. CASE v # w
  <3>1. place[v] = "changed" /\ task[v].op = "logout" /\ task[v].entry # task[v].key /\ TaskOK(place[v], task[v])
    BY <1>1, <1>2, <1>4, <2>2 DEF Tasks
  <3>2. keyFile[Cred!Legacy(task[v].key)] = 0 /\ task[v].key \in HasLegacy
    BY <1>4, <3>1 DEF CleanInv, LoggedOut, TaskOK
  <3>3. Cred!Legacy(task[v].key) \in Cred!Entry /\ Cred!Legacy(task[v].key) \notin Key
    BY <3>2, Entries DEF CredParameters
  <3>. QED BY <1>6, <1>7, <1>8, <3>2, <3>3
 <2>. QED BY <2>1, <2>2
<1>. QED BY <1>14, <1>15, <1>16, <1>17, <1>19, <1>20, <1>21 DEF CleanInv

LEMMA Replaced ==
  ASSUME CredParameters, CredInv, NEW w \in Worker, Cred!Write(w) \/ Cred!MigrateWrite(w)
  PROVE  CredInv'
<1>1. PICK s : Cred!Replace(w) /\ Cred!Goto(w, s) /\ After(w, s)
  BY DEF Cred!Write, Cred!MigrateWrite, After
<1>. QED BY <1>1, ReplacedTypes, ReplacedClean DEF CredInv

----------------------------------------
(* A step keeps it, and it implies what the credentials promise.           *)

LEMMA CredNext == CredParameters /\ CredInv /\ [Cred!Next]_(Cred!vars) => CredInv'
<1> SUFFICES ASSUME CredParameters, CredInv, [Cred!Next]_(Cred!vars) PROVE CredInv'
  OBVIOUS
<1>1. ASSUME NEW w \in Worker, Cred!Request(w) \/ Cred!Login(w) \/ Cred!Logout(w) PROVE CredInv'
  BY <1>1, Begun, Issued
<1>2. ASSUME NEW w \in Worker, Cred!Step(w) PROVE CredInv'
 <2>1. TaskOK(place[w], task[w]) BY DEF CredInv, Tasks
 <2>2. CASE Cred!Look(w)
  <3>1. place[w] = "token" /\ Cred!AuthorizerFree(w) /\ Cred!Resolve(w, IF task[w].key \in Mcp THEN "lock" ELSE "submit")
    BY <2>2 DEF Cred!Look
  <3>. QED BY <3>1, Resolved
 <2>3. CASE Cred!Relook(w)
  <3>1. place[w] = "lock" /\ Cred!FileLockFree(w) /\ Cred!Resolve(w, "submit")
    BY <2>3 DEF Cred!Relook
  <3>. QED BY <3>1, Resolved
 <2>. QED BY <1>2, <2>2, <2>3, Issued, Sent, FileRead, Migrated, Replaced, Failed, ChangeMade
      DEF Cred!Step
<1>3. ASSUME NEW t \in Cred!Token, Cred!Age(t) PROVE CredInv'
  BY <1>3, Aged
<1>4. CASE UNCHANGED Cred!vars
 <2>1. UNCHANGED <<keyFile, live, spentBy, issued, aged, place, task, crossed, ops, failures>>
   BY <1>4 DEF Cred!vars, Cred!server, Cred!bounds
 <2>2. CredTypes' /\ Count' /\ Tasks' /\ Locks' /\ Reading'
   BY <2>1
      DEF CredInv, CredTypes, Count, Tasks, TaskOK, Locks, Exclude, Cred!SameAuthorizer,
          Cred!Changing, Reading, Current
 <2>3. Cred!Undisturbed' => Cred!SubmittedOnce' /\ CleanInv'
  <3>1. Cred!Undisturbed' => Cred!Undisturbed BY <2>1 DEF Cred!Undisturbed
  <3>2. ASSUME Cred!SubmittedOnce, CleanInv, Cred!Undisturbed' PROVE Cred!SubmittedOnce' /\ CleanInv'
    BY <2>1, <3>1, <3>2
       DEF Cred!SubmittedOnce, Cred!Undisturbed, CleanInv, Owned, OwnedBy, CredFresh, Puts,
           Stored, Refreshes, Cred!Through,
       Older, Unused, Migrating, LoggedOut
  <3>. QED BY <3>1, <3>2 DEF CredInv
 <2>. QED BY <2>2, <2>3 DEF CredInv
<1>. QED BY <1>1, <1>2, <1>3, <1>4 DEF Cred!Next, Cred!Quiet

LEMMA CredImplies == CredParameters /\ CredInv => Cred!TypeOK /\ Cred!SubmittedOnce /\ Cred!StoredIsLive
<1> SUFFICES ASSUME CredParameters, CredInv PROVE Cred!TypeOK /\ Cred!SubmittedOnce /\ Cred!StoredIsLive
  OBVIOUS
<1>1. issued \in Nat /\ issued <= Cred!MaxToken /\ Cred!MaxToken \in Nat /\ 1..issued \subseteq Cred!Token
  BY IssuedBound
<1>2. \A n \in Nat : n <= issued => n \in Cred!Token \cup {0} BY <1>1 DEF Cred!Token
<1>3. keyFile \in [Cred!Entry -> Cred!Token \cup {0}] BY <1>2 DEF CredInv, CredTypes
<1>4. issued \in Cred!Token /\ live \subseteq 1..issued /\ aged \subseteq 1..issued
      /\ spentBy \in [Cred!Token -> Spender] /\ crossed \in BOOLEAN
  BY <1>1 DEF CredInv, CredTypes, Count, Cred!Token
<1>5. place \in [Worker -> {"idle", "token", "send", "changed"} \cup Cred!Resolving]
  BY DEF CredInv, CredTypes, Point
<1> DEFINE T == [op : {"none", "request", "login", "logout"},
                 key : Key \cup {Nothing}, via : Made \cup {Nothing}, entry : Cred!Entry \cup {Nothing},
                 token : Cred!Token \cup {0}, rejected : Cred!Token \cup {0},
                 read : [Cred!Entry -> Cred!Token \cup {0}], outdated : BOOLEAN]
<1>6. ASSUME NEW w \in Worker PROVE task[w] \in T
 <2>1. task[w] \in TaskT /\ TaskOK(place[w], task[w]) BY DEF CredInv, CredTypes, Tasks
 <2>2. task[w].token \in Cred!Token \cup {0} /\ task[w].read \in [Cred!Entry -> Cred!Token \cup {0}]
   BY <1>2, <2>1 DEF TaskT, TaskOK
 <2>3. task[w].rejected \in Cred!Token \cup {0} BY <1>1, <1>4, <2>1 DEF TaskOK
 <2>. QED BY <2>1, <2>2, <2>3 DEF TaskT
<1>7. task \in [Worker -> T]
 <2>1. task \in [Worker -> TaskT] BY DEF CredInv, CredTypes
 <2> HIDE DEF T
 <2>. QED BY <1>6, <2>1
<1>8. \A w \in Worker : place[w] \in {"lock", "submit", "send", "migrate"} => task[w].token # 0
  BY DEF CredInv, Tasks, TaskOK
<1>9. Cred!TypeOK BY <1>3, <1>4, <1>5, <1>7, <1>8 DEF Cred!TypeOK, Spender
<1>10. Cred!SubmittedOnce BY DEF CredInv, Cred!SubmittedOnce
<1>11. Cred!StoredIsLive
 <2> SUFFICES ASSUME NEW k \in Key, Cred!Undisturbed, keyFile[k] # 0, keyFile[k] \notin live
              PROVE  \E w \in Worker : place[w] \in {"put", "write"} /\ task[w].op = "request" /\ task[w].key = k
   BY DEF Cred!StoredIsLive
 <2>. QED BY DEF CredInv, CleanInv, Stored, Refreshes
<1>. QED BY <1>9, <1>10, <1>11

\* Whatever the interleaving of requests, logins, logouts, refreshes and migrations,
\* of one process or several: a token is never refreshed twice where it must not be,
\* and what is stored can be refreshed.
THEOREM CredentialsAreSafe ==
  ASSUME CredParameters
  PROVE  Cred!Spec => [](Cred!TypeOK /\ Cred!SubmittedOnce /\ Cred!StoredIsLive)
<1>1. Cred!Init => CredInv BY CredInit
<1>2. CredInv /\ [Cred!Next]_(Cred!vars) => CredInv' BY CredNext
<1>3. CredInv => Cred!TypeOK /\ Cred!SubmittedOnce /\ Cred!StoredIsLive BY CredImplies
<1>. QED BY <1>1, <1>2, <1>3, PTL DEF Cred!Spec

----------------------------------------
\* Names of sessions are not empty; counts are natural numbers.
GoalParameters ==
  MaxGoals \in Nat /\ Limits \subseteq Nat /\ TurnsPerStep \in Nat /\ NoProgressLimit \in Nat /\ "none" \notin Sessions

GoalT ==
  [id : 0..MaxGoals, status : Goals!Statuses, max : Limits \cup {0}, steps : Nat, turns : Nat, idle : Nat,
   news : BOOLEAN, progress : BOOLEAN]

\* A goal has a status when it has a number.
Sound(g) == g \in GoalT /\ (g.id = 0 <=> g.status = "none")

HookT == [at : {"none", "event", "read"}, id : Sessions \cup {"none"}, loaded : GoalT, next : Sessions \cup {"none"}]
Stops == {"none", "end_turn", "error", "canceled", "goal_paused", "goal_state_error", "goal_completed", "goal_turn_limit"}
RunT == [at : {"idle", "before", "refreshed", "turn", "agent_end", "ending"}, stop : Stops,
         halted : {"none", "cleared", "denied", "completed"}, after : Nat]
CommandT == [op : {"none", "start", "resume", "clear"}, at : {"none", "refresh", "act", "follow up", "pause"},
             max : Limits \cup {0}]

----------------------------------------
(* The goal of goal.go: what a step does to what is recorded.              *)

\* The entry is appended, ...
Written(new) ==
  /\ sessionID = host /\ stored' = [stored EXCEPT ![host] = new]
  /\ goal' = new /\ persisted' = new /\ failed' = FALSE

\* ... or it is not, and memory goes back.
Refused(back) ==
  /\ stored' = stored /\ persisted' = persisted /\ goal' = back
  /\ failed' \in BOOLEAN /\ (failed => failed') /\ (failed' => failed \/ back # persisted)
  /\ back # persisted => failed'

LEMMA PersistIs ==
  ASSUME NEW new, Goals!Persist(new, Goals!Keep), failed \in BOOLEAN
  PROVE  Written(new) \/ Refused(persisted)
  BY DEF Goals!Persist, Goals!PersistAs, Goals!Keep, Written, Refused

LEMMA PausingIs ==
  ASSUME NEW new, Goals!Persist(new, Goals!Paused), failed \in BOOLEAN
  PROVE  Written(new) \/ Refused(Goals!Paused(persisted))
  BY DEF Goals!Persist, Goals!PersistAs, Written, Refused

\* Memory becomes what the session has, paused when it was active in another.
LEMMA RefreshIs ==
  ASSUME Goals!Refresh, failed \in BOOLEAN, Sessions # {}, host \in Sessions, stored \in [Sessions -> GoalT]
  PROVE  /\ sessionID' = host /\ persisted' = goal' /\ goal' = stored'[host]
         /\ \/ stored' = stored /\ failed' = failed /\ (Goals!RefreshFailed \/ host = sessionID \/ stored[host].status # "active")
            \/ /\ stored[host].status = "active" /\ host # sessionID /\ failed' = FALSE
               /\ stored' = [stored EXCEPT ![host] = Goals!Paused(stored[host])]
  BY DEF Goals!Refresh, Goals!PersistAs, Goals!Keep, Goals!RefreshFailed

----------------------------------------
(* Goal mode, the inductive invariant: what is recorded.                   *)

DataTypes ==
  /\ stored \in [Sessions -> GoalT] /\ host \in Sessions /\ sessionID \in Sessions
  /\ failed \in BOOLEAN /\ slipped \in BOOLEAN
  /\ requests \in [1..MaxGoals -> Nat] /\ home \in [1..MaxGoals -> Sessions \cup {"none"}]
  /\ Sound(goal) /\ Sound(persisted) /\ \A s \in Sessions : Sound(stored[s])
  /\ hook \in HookT /\ Sound(hook.loaded)

\* Goals are numbered in the order they are started in.
Ledger ==
  \E n \in 0..MaxGoals : \A g \in 1..MaxGoals : (home[g] # "none" <=> g <= n) /\ (home[g] = "none" => requests[g] = 0)

IsOf(g, s) == g.id # 0 => home[g.id] = s

Homes ==
  /\ \A s \in Sessions : IsOf(stored[s], s)
  /\ IsOf(persisted, sessionID)
  /\ hook.at = "event" => hook.id = host
  /\ hook.at = "read" => IsOf(hook.loaded, hook.id) /\ hook.id # "none" /\ (hook.next = "none" => hook.id = host)
  /\ hook.next # "none" => hook.at = "read" /\ hook.next = host

\* Memory is what was persisted, or a pause of it.
Memory ==
  /\ goal = persisted \/ goal = Goals!Paused(persisted)
  /\ persisted.id = 0 => goal = persisted

\* The limits of a goal.
Within(g) ==
  /\ requests[g.id] <= g.turns
  /\ g.max > 0 => g.steps <= g.max /\ requests[g.id] <= g.max * TurnsPerStep
  /\ g.status = "active" => g.max = 0 \/ g.steps < g.max
Ceiling(g) == g.id # 0 => Within(g)

Agreed ==
  ~slipped => /\ persisted = stored[sessionID]
              /\ goal # persisted => failed
              /\ \A s \in Sessions : Ceiling(stored[s])

DataInv == DataTypes /\ Ledger /\ Homes /\ Memory /\ Agreed

\* A pause changes the status only.
LEMMA PausedIs ==
  ASSUME NEW g, Sound(g), g.id # 0
  PROVE  /\ Sound(Goals!Paused(g)) /\ Goals!Paused(g).id = g.id /\ Goals!Paused(g).status = "paused" /\ Goals!Paused(g).max = g.max
         /\ Goals!Paused(g).steps = g.steps /\ Goals!Paused(g).turns = g.turns
         /\ Goals!Paused(Goals!Paused(g)) = Goals!Paused(g)
<1>1. g \in GoalT /\ "paused" \in Goals!Statuses BY DEF Sound, Goals!Statuses
<1>. QED BY <1>1 DEF Sound, GoalT, Goals!Paused

LEMMA PausedWithin ==
  ASSUME NEW g, Sound(g), Ceiling(g), g.id # 0
  PROVE  Ceiling(Goals!Paused(g))
<1> PICK h : h = Goals!Paused(g) OBVIOUS
<1>1. h.id = g.id /\ h.status = "paused" /\ h.max = g.max /\ h.steps = g.steps /\ h.turns = g.turns
  BY PausedIs
<1>2. Ceiling(h) BY <1>1 DEF Ceiling, Within
<1>. QED BY <1>2

LEMMA GoalNumbers ==
  ASSUME GoalParameters, NEW g \in GoalT
  PROVE  g.max \in Nat /\ g.steps \in Nat /\ g.turns \in Nat /\ g.idle \in Nat
<1>1. g.max \in Limits \cup {0} /\ g.steps \in Nat /\ g.turns \in Nat /\ g.idle \in Nat BY DEF GoalT
<1>2. Limits \cup {0} \subseteq Nat BY DEF GoalParameters
<1>. QED BY <1>1, <1>2

\* The goal in memory: its number, its session and its limits.
LEMMA GoalIs ==
  ASSUME GoalParameters, DataInv
  PROVE  /\ Sound(goal) /\ goal.id = persisted.id /\ IsOf(goal, sessionID) /\ goal.turns = persisted.turns
         /\ goal.steps = persisted.steps /\ goal.max = persisted.max
         /\ ~slipped => Ceiling(goal) /\ Ceiling(persisted)
         /\ goal.id # 0 => goal.id \in 1..MaxGoals
         /\ goal.status \notin {"none"} => goal.id # 0
         /\ goal # persisted => goal.status = "paused"
<1>0. Sound(goal) /\ Sound(persisted) /\ Memory /\ Homes BY DEF DataInv, DataTypes
<1>1. goal.id = persisted.id /\ goal.turns = persisted.turns /\ goal.steps = persisted.steps /\ goal.max = persisted.max
 <2>1. CASE goal = persisted BY <2>1
 <2>2. CASE goal # persisted BY <1>0, <2>2, PausedIs DEF Memory
 <2>. QED BY <2>1, <2>2
<1>2. IsOf(goal, sessionID) BY <1>0, <1>1 DEF Homes, IsOf
<1>3. ~slipped => Ceiling(persisted) BY DEF DataInv, DataTypes, Agreed
<1>4. ~slipped => Ceiling(goal) BY <1>0, <1>3, PausedWithin DEF Memory
<1>5. goal.id # 0 => goal.id \in 1..MaxGoals BY <1>0 DEF Sound, GoalT, GoalParameters
<1>6. goal.status # "none" => goal.id # 0 BY <1>0 DEF Sound
<1>7. goal # persisted => goal.status = "paused" BY <1>0, PausedIs DEF Memory
<1>. QED BY <1>0, <1>1, <1>2, <1>3, <1>4, <1>5, <1>6, <1>7

\* The entry that is appended is one of the goal in memory, within its limits.
LEMMA RecordKeeps ==
  ASSUME GoalParameters, DataInv, NEW new, Sound(new), new.id = goal.id, goal.id # 0, ~slipped => Ceiling(new),
         NEW back \in {persisted, Goals!Paused(persisted)}, Written(new) \/ Refused(back),
         UNCHANGED <<sessionID, host, hook, requests, home, slipped>>
  PROVE  DataInv'
<1>0. DataTypes /\ Ledger /\ Homes /\ Memory /\ Agreed BY DEF DataInv
<1>1. /\ goal.id = persisted.id /\ IsOf(goal, sessionID)
      /\ Sound(back) /\ back.id = persisted.id
 <2>1. Sound(persisted) /\ goal.id = persisted.id /\ IsOf(goal, sessionID)
   BY <1>0, GoalIs DEF DataTypes
 <2>. QED BY <2>1, PausedIs
<1>2. new \in GoalT /\ host \in Sessions /\ stored \in [Sessions -> GoalT]
  BY <1>0 DEF Sound, DataTypes
<1>3. CASE Written(new)
 <2>1. stored' \in [Sessions -> GoalT] /\ stored'[host] = new /\ \A s \in Sessions : s # host => stored'[s] = stored[s]
   BY <1>2, <1>3 DEF Written
 <2>2. DataTypes' BY <1>0, <1>3, <2>1 DEF DataTypes, Written
 <2>3. Homes' BY <1>0, <1>1, <1>3, <2>1 DEF Homes, Written, IsOf
 <2>4. Ledger' /\ Memory' BY <1>0, <1>3 DEF Ledger, Memory, Written
 <2>5. \A s \in Sessions : ~slipped => Ceiling(stored'[s]) BY <1>0, <1>2, <2>1 DEF Agreed
 <2>6. Agreed' BY <1>0, <1>3, <2>1, <2>5 DEF Agreed, Written, Ceiling, Within
 <2>. QED BY <2>2, <2>3, <2>4, <2>6 DEF DataInv
<1>4. CASE Refused(back)
 <2>2. DataTypes' BY <1>0, <1>1, <1>4 DEF DataTypes, Refused
 <2>3. Homes' BY <1>0, <1>1, <1>4 DEF Homes, Refused, IsOf
 <2>4. Ledger' /\ Memory'
  <3>1. Goals!Paused(persisted)' = Goals!Paused(persisted) BY <1>4 DEF Goals!Paused, Refused
  <3>. QED BY <1>0, <1>1, <1>4, <3>1 DEF Ledger, Memory, Refused
 <2>6. Agreed' BY <1>0, <1>4 DEF Agreed, Refused, Ceiling, Within
 <2>. QED BY <2>2, <2>3, <2>4, <2>6 DEF DataInv
<1>. QED BY <1>3, <1>4

LEMMA SameData ==
  ASSUME DataInv, UNCHANGED <<stored, goal, persisted, sessionID, failed, host, hook, requests, home, slipped>>
  PROVE  DataInv'
  BY DEF DataInv, DataTypes, Ledger, Homes, Memory, Agreed, IsOf, Goals!Paused, Ceiling, Within

LEMMA RefreshKeeps ==
  ASSUME GoalParameters, DataInv, Goals!Refresh, slipped' \in BOOLEAN, slipped => slipped',
         UNCHANGED <<host, hook, requests, home>>
  PROVE  DataInv'
<1>0. /\ DataTypes /\ Ledger /\ Homes /\ Agreed
      /\ host \in Sessions /\ stored \in [Sessions -> GoalT] /\ failed \in BOOLEAN /\ Sessions # {}
  BY DEF DataInv, DataTypes
<1>1. /\ sessionID' = host /\ persisted' = goal' /\ goal' = stored'[host]
      /\ \/ stored' = stored /\ failed' = failed
         \/ /\ stored[host].status = "active" /\ failed' = FALSE
            /\ stored' = [stored EXCEPT ![host] = Goals!Paused(stored[host])]
  BY <1>0, RefreshIs
<1>2. PICK g : g = stored'[host] OBVIOUS
<1>3. /\ stored' \in [Sessions -> GoalT] /\ \A s \in Sessions : s # host => stored'[s] = stored[s]
      /\ Sound(g) /\ IsOf(g, host) /\ (~slipped => Ceiling(g))
 <2>1. Sound(stored[host]) /\ IsOf(stored[host], host) /\ (~slipped => Ceiling(stored[host]))
   BY <1>0 DEF DataTypes, Homes, Agreed
 <2>2. CASE stored' = stored BY <1>0, <1>2, <2>1, <2>2
 <2>3. CASE /\ stored[host].status = "active"
            /\ stored' = [stored EXCEPT ![host] = Goals!Paused(stored[host])]
  <3>1. stored[host].id # 0 BY <2>1, <2>3 DEF Sound
  <3>2. g = Goals!Paused(stored[host]) BY <1>0, <1>2, <2>3
  <3>3. Sound(g) /\ g.id = stored[host].id BY <2>1, <3>1, <3>2, PausedIs
  <3>4. ~slipped => Ceiling(g) BY <2>1, <3>1, <3>2, PausedWithin
  <3>5. g \in GoalT BY <3>3 DEF Sound
  <3>. QED BY <1>0, <2>1, <2>3, <3>2, <3>3, <3>4, <3>5 DEF IsOf
 <2>. QED BY <1>1, <2>2, <2>3
<1>4. DataTypes'
 <2>1. failed' \in BOOLEAN /\ sessionID' \in Sessions /\ Sound(goal)' /\ Sound(persisted)'
   BY <1>0, <1>1, <1>2, <1>3 DEF Sound
 <2>2. \A s \in Sessions : Sound(stored[s])' BY <1>0, <1>2, <1>3 DEF DataTypes, Sound
 <2>. QED BY <1>0, <1>3, <2>1, <2>2 DEF DataTypes
<1>5. Ledger' /\ Memory' BY <1>0, <1>1 DEF Ledger, Memory
<1>6. Homes' BY <1>0, <1>1, <1>2, <1>3 DEF Homes, IsOf
<1>7. Agreed' BY <1>0, <1>1, <1>2, <1>3 DEF Agreed, Ceiling, Within
<1>. QED BY <1>4, <1>5, <1>6, <1>7 DEF DataInv

\* The goals that were started are those up to the last one.
LEMMA StartedIs ==
  ASSUME GoalParameters, Ledger
  PROVE  /\ Goals!Started \in 0..MaxGoals
         /\ \A g \in 1..MaxGoals : (home[g] # "none" <=> g <= Goals!Started) /\ (home[g] = "none" => requests[g] = 0)
<1>1. PICK n \in 0..MaxGoals : \A g \in 1..MaxGoals : (home[g] # "none" <=> g <= n) /\ (home[g] = "none" => requests[g] = 0)
  BY DEF Ledger
<1>2. {g \in 1..MaxGoals : home[g] # "none"} = 1..n BY <1>1 DEF GoalParameters
<1>3. Cardinality(1..n) = n
 <2>1. n \in Nat /\ 1 \in Int /\ n \in Int BY <1>1 DEF GoalParameters
 <2>2. Cardinality(1..n) = IF 1 > n THEN 0 ELSE n - 1 + 1 BY <2>1, FS_Interval
 <2>. QED BY <2>1, <2>2
<1>. QED BY <1>1, <1>2, <1>3, SameCardinality DEF Goals!Started

LEMMA NewGoalIs ==
  ASSUME GoalParameters, Ledger, NEW m \in Limits \cup {0}, Goals!Started < MaxGoals
  PROVE  /\ Sound(Goals!NewGoal(m)) /\ Goals!NewGoal(m).id = Goals!Started + 1 /\ Goals!NewGoal(m).status = "active" /\ Goals!NewGoal(m).max = m
         /\ Goals!NewGoal(m).steps = 0 /\ Goals!NewGoal(m).turns = 0 /\ Goals!Started + 1 \in 1..MaxGoals
<1>1. Goals!Started \in Nat /\ Goals!Started + 1 \in 1..MaxGoals /\ Goals!Started + 1 \in 0..MaxGoals
  BY StartedIs DEF GoalParameters
<1>2. PICK k : k = Goals!Started + 1 OBVIOUS
<1>3. PICK g : g = Goals!NewGoal(m) OBVIOUS
<1>4. Goals!None \in GoalT BY DEF Goals!None, GoalT, Goals!Statuses, GoalParameters
<1>5. g = [Goals!None EXCEPT !.id = k, !.status = "active", !.max = m]
  BY <1>2, <1>3 DEF Goals!NewGoal
<1>6. g \in GoalT /\ g.id = k /\ g.status = "active" /\ g.max = m
  BY <1>1, <1>2, <1>4, <1>5 DEF GoalT, Goals!Statuses
<1>7. g.steps = 0 /\ g.turns = 0 BY <1>5 DEF Goals!None
<1>. QED BY <1>1, <1>2, <1>3, <1>6, <1>7 DEF Sound

\* A goal that starts is in the session of the front end, or nothing is recorded.
LEMMA StartIs ==
  ASSUME GoalParameters, DataInv, NEW m \in Limits \cup {0}, NEW followUp \in BOOLEAN, Goals!StartGoal(m, followUp)
  PROVE  /\ Goals!Started < MaxGoals
         /\ \/ Written(Goals!NewGoal(m)) /\ home' = [home EXCEPT ![Goals!Started + 1] = sessionID]
               /\ command' = IF followUp THEN [command EXCEPT !.at = "follow up"] ELSE command
            \/ Refused(persisted) /\ home' = home
               /\ command' = IF followUp THEN Goals!NoCommand ELSE command
<1>0. DataTypes /\ Ledger /\ Homes BY DEF DataInv
<1>1. Goals!Started < MaxGoals /\ Goals!Persist(Goals!NewGoal(m), Goals!Keep) BY DEF Goals!StartGoal
<1>2. Written(Goals!NewGoal(m)) \/ Refused(persisted)
 <2>1. failed \in BOOLEAN BY <1>0 DEF DataTypes
 <2>. QED BY <1>1, <2>1, PersistIs
<1>3. Goals!NewGoal(m).id = Goals!Started + 1 /\ Goals!Started + 1 \in 1..MaxGoals /\ Goals!Started \in Nat
  BY <1>0, <1>1, NewGoalIs, StartedIs DEF GoalParameters
<1>4. stored[host] # Goals!NewGoal(m)
 <2>1. host \in Sessions /\ IsOf(stored[host], host) BY <1>0 DEF DataTypes, Homes
 <2>2. home[Goals!Started + 1] = "none" BY <1>0, <1>3, StartedIs
 <2>3. Goals!Started + 1 # 0 /\ host # "none" BY <1>3, <2>1 DEF GoalParameters
 <2>. QED BY <1>3, <2>1, <2>2, <2>3 DEF IsOf
<1>5. CASE Written(Goals!NewGoal(m))
 <2>1. Goals!Recorded(Goals!NewGoal(m)) BY <1>0, <1>5 DEF Written, Goals!Recorded, DataTypes
 <2>. QED BY <1>1, <1>5, <2>1, Zenon DEF Goals!StartGoal
<1>6. CASE Refused(persisted)
 <2>1. ~Goals!Recorded(Goals!NewGoal(m)) BY <1>4, <1>6 DEF Refused, Goals!Recorded
 <2>. QED BY <1>1, <1>6, <2>1, Zenon DEF Goals!StartGoal
<1>. QED BY <1>2, <1>5, <1>6

LEMMA StartKeeps ==
  ASSUME GoalParameters, DataInv, NEW m \in Limits \cup {0}, NEW followUp \in BOOLEAN, Goals!StartGoal(m, followUp),
         UNCHANGED <<sessionID, host, hook>>
  PROVE  DataInv'
<1>0. DataTypes /\ Ledger /\ Homes /\ Memory /\ Agreed BY DEF DataInv
<1>1. UNCHANGED <<requests, slipped>> BY DEF Goals!StartGoal
<1>2. PICK new : new = Goals!NewGoal(m) OBVIOUS
<1>3. PICK k : k = Goals!Started + 1 OBVIOUS
<1>4. /\ Goals!Started < MaxGoals
      /\ \/ Written(new) /\ home' = [home EXCEPT ![k] = sessionID]
         \/ Refused(persisted) /\ home' = home
  BY <1>2, <1>3, StartIs
<1>5. /\ Sound(new) /\ new.id = k /\ new.status = "active" /\ new.max = m
      /\ new.steps = 0 /\ new.turns = 0 /\ k \in 1..MaxGoals
  BY <1>0, <1>2, <1>3, <1>4, NewGoalIs
<1>6. /\ k = Goals!Started + 1 /\ Goals!Started \in 0..MaxGoals
      /\ \A g \in 1..MaxGoals : (home[g] # "none" <=> g <= Goals!Started) /\ (home[g] = "none" => requests[g] = 0)
  BY <1>0, <1>3, StartedIs
<1>7. new \in GoalT /\ host \in Sessions /\ stored \in [Sessions -> GoalT] /\ sessionID \in Sessions /\ sessionID # "none"
  BY <1>0, <1>5 DEF Sound, DataTypes, GoalParameters
<1>8. CASE Written(new) /\ home' = [home EXCEPT ![k] = sessionID]
 <2>1. stored' \in [Sessions -> GoalT] /\ stored'[host] = new /\ \A s \in Sessions : s # host => stored'[s] = stored[s]
   BY <1>7, <1>8 DEF Written
 <2>2. /\ home' \in [1..MaxGoals -> Sessions \cup {"none"}] /\ home'[k] = sessionID
       /\ \A g \in 1..MaxGoals : g # k => home'[g] = home[g]
   BY <1>0, <1>5, <1>7, <1>8 DEF DataTypes
 <2>3. DataTypes' BY <1>0, <1>1, <1>5, <1>8, <2>1, <2>2 DEF DataTypes, Written
 <2>4. home[k] = "none" /\ requests[k] = 0 BY <1>5, <1>6
 <2>5. Ledger'
  <3>1. k \in 0..MaxGoals /\ \A g \in 1..MaxGoals : (home'[g] # "none" <=> g <= k) /\ (home'[g] = "none" => requests'[g] = 0)
   <4>1. k \in 0..MaxGoals BY <1>5 DEF GoalParameters
   <4>2. ASSUME NEW g \in 1..MaxGoals PROVE (home'[g] # "none" <=> g <= k) /\ (home'[g] = "none" => requests'[g] = 0)
    <5>1. CASE g = k BY <1>5, <1>7, <2>2, <5>1
    <5>2. CASE g # k
     <6>1. g <= Goals!Started <=> g <= k BY <1>6, <5>2
     <6>2. home'[g] = home[g] /\ requests'[g] = requests[g] BY <1>1, <2>2, <5>2
     <6>. QED BY <1>6, <6>1, <6>2
    <5>. QED BY <5>1, <5>2
   <4>. QED BY <4>1, <4>2
  <3>. QED BY <3>1 DEF Ledger
 <2>6. \A g : (Sound(g) /\ \E s \in Sessions : IsOf(g, s)) => g.id # k
  <3> SUFFICES ASSUME NEW g, Sound(g), NEW s \in Sessions, IsOf(g, s), g.id = k PROVE FALSE
    OBVIOUS
  <3>1. k # 0 /\ s # "none" BY <1>5 DEF GoalParameters
  <3>. QED BY <2>4, <3>1 DEF IsOf
 <2>7. \A g, s : Sound(g) /\ s \in Sessions /\ IsOf(g, s) => IsOf(g, s)'
  <3> SUFFICES ASSUME NEW g, NEW s \in Sessions, Sound(g), IsOf(g, s), g.id # 0 PROVE home'[g.id] = s
    BY DEF IsOf
  <3>1. g.id # k /\ g.id \in 1..MaxGoals BY <2>6 DEF Sound, GoalT, GoalParameters
  <3>. QED BY <2>2, <3>1 DEF IsOf
 <2>8. Homes'
  <3>1. \A s \in Sessions : IsOf(stored[s], s)'
   <4> TAKE s \in Sessions
   <4>1. CASE s = host BY <1>5, <1>8, <2>1, <2>2, <4>1 DEF IsOf, Written
   <4>2. CASE s # host
    <5>1. PICK g : g = stored[s] OBVIOUS
    <5>2. Sound(g) /\ IsOf(g, s) BY <1>0, <5>1 DEF DataTypes, Homes
    <5>3. IsOf(g, s)' /\ stored'[s] = g BY <2>1, <2>7, <4>2, <5>1, <5>2
    <5>. QED BY <5>3
   <4>. QED BY <4>1, <4>2
  <3>2. IsOf(persisted, sessionID)' BY <1>5, <1>8, <2>2 DEF IsOf, Written
  <3>3. hook.at = "read" => IsOf(hook.loaded, hook.id)'
   <4> SUFFICES ASSUME hook.at = "read" PROVE IsOf(hook.loaded, hook.id)'
     OBVIOUS
   <4>1. PICK g, s : g = hook.loaded /\ s = hook.id OBVIOUS
   <4>2. Sound(g) /\ s \in Sessions /\ IsOf(g, s) BY <1>0, <4>1 DEF DataTypes, Homes, HookT
   <4>3. IsOf(g, s)' BY <2>7, <4>2
   <4>. QED BY <4>1, <4>3
  <3>. QED BY <1>0, <3>1, <3>2, <3>3 DEF Homes
 <2>9. Memory' BY <1>8 DEF Memory, Written
 <2>10. \A s \in Sessions : ~slipped => Ceiling(stored[s])'
  <3> TAKE s \in Sessions
  <3>1. CASE s = host
   <4>1. m \in Nat BY DEF GoalParameters
   <4>2. PICK w : w = m * TurnsPerStep OBVIOUS
   <4>3. w \in Nat BY <4>1, <4>2 DEF GoalParameters
   <4>4. requests'[k] = 0 /\ stored'[s] = new BY <1>1, <2>1, <2>4, <3>1
   <4>5. Within(new)' BY <1>1, <1>5, <2>4, <4>1, <4>2, <4>3 DEF Within
   <4>. QED BY <4>4, <4>5 DEF Ceiling
  <3>2. CASE s # host BY <1>0, <1>1, <2>1, <3>2 DEF Agreed, Ceiling, Within
  <3>. QED BY <3>1, <3>2
 <2>11. Agreed' BY <1>1, <1>8, <2>1, <2>10 DEF Agreed, Written
 <2>. QED BY <2>3, <2>5, <2>8, <2>9, <2>11 DEF DataInv
<1>9. CASE Refused(persisted) /\ home' = home
 <2>1. goal' = persisted /\ persisted' = persisted /\ stored' = stored /\ (failed' => failed) /\ (failed => failed')
       /\ failed' \in BOOLEAN
   BY <1>9 DEF Refused
 <2>2. DataTypes' /\ Ledger' /\ Homes' /\ Memory'
   BY <1>0, <1>1, <1>9, <2>1 DEF DataTypes, Ledger, Homes, Memory, IsOf
 <2>3. Agreed' BY <1>0, <1>1, <1>9, <2>1 DEF Agreed, Ceiling, Within
 <2>. QED BY <2>2, <2>3 DEF DataInv
<1>. QED BY <1>4, <1>8, <1>9

\* A request is counted in the goal before it goes out.
LEMMA TurnIs ==
  ASSUME GoalParameters, DataInv, goal.id # 0, Goals!BeforeGoalTurn
  PROVE  LET new == [goal EXCEPT !.turns = @ + 1]
             more == [requests EXCEPT ![goal.id] = @ + 1]
         IN /\ UNCHANGED <<sessionID, Goals!flags, home, slipped>>
            /\ \/ Written(new) /\ run' = Goals!Requesting /\ requests' = more
               \/ Refused(persisted) /\ run' = Goals!Ending("error") /\ requests' = requests
               \/ slipped /\ Refused(persisted) /\ run' = Goals!Requesting /\ requests' = more
<1> DEFINE new == [goal EXCEPT !.turns = @ + 1]
           more == [requests EXCEPT ![goal.id] = @ + 1]
<1>0. DataTypes /\ Homes /\ Agreed BY DEF DataInv
<1>1. Goals!Persist(new, Goals!Keep) /\ UNCHANGED <<sessionID, Goals!flags, home, slipped>>
  BY DEF Goals!BeforeGoalTurn
<1>2. IF Goals!Recorded(new) THEN run' = Goals!Requesting /\ requests' = more ELSE run' = Goals!Ending("error") /\ UNCHANGED requests
  BY DEF Goals!BeforeGoalTurn
<1>3. Written(new) \/ Refused(persisted)
 <2>1. failed \in BOOLEAN BY <1>0 DEF DataTypes
 <2>. QED BY <1>1, <2>1, PersistIs
<1>4. Written(new) => Goals!Recorded(new) BY <1>0 DEF Written, Goals!Recorded, DataTypes
<1>5. ~slipped /\ Refused(persisted) => ~Goals!Recorded(new)
 <2> SUFFICES ASSUME ~slipped, Refused(persisted) PROVE stored[host] # new
   BY DEF Refused, Goals!Recorded
 <2>1. Sound(goal) /\ IsOf(goal, sessionID) /\ goal.turns = persisted.turns BY GoalIs
 <2>2. new.id = goal.id /\ new.turns = goal.turns + 1 /\ goal.turns \in Nat BY <2>1 DEF Sound, GoalT
 <2> HIDE DEF new
 <2>3. CASE host = sessionID
  <3>1. persisted = stored[host] BY <1>0, <2>3 DEF Agreed
  <3>. QED BY <2>1, <2>2, <3>1
 <2>4. CASE host # sessionID BY <1>0, <2>1, <2>2, <2>4 DEF Homes, IsOf, DataTypes
 <2>. QED BY <2>3, <2>4
<1> HIDE DEF new, more
<1>6. /\ UNCHANGED <<sessionID, Goals!flags, home, slipped>>
            /\ \/ Written(new) /\ run' = Goals!Requesting /\ requests' = more
               \/ Refused(persisted) /\ run' = Goals!Ending("error") /\ requests' = requests
               \/ slipped /\ Refused(persisted) /\ run' = Goals!Requesting /\ requests' = more
  BY <1>1, <1>2, <1>3, <1>4, <1>5
<1>. QED BY <1>6 DEF new, more

LEMMA TurnKeeps ==
  ASSUME GoalParameters, DataInv, goal.status = "active", Goals!BeforeGoalTurn,
         goal.max > 0 => goal.turns < goal.max * TurnsPerStep, UNCHANGED <<host, hook>>
  PROVE  DataInv'
<1>0. DataTypes /\ Ledger /\ Homes /\ Memory /\ Agreed BY DEF DataInv
<1>1. /\ Sound(goal) /\ IsOf(goal, sessionID) /\ goal.id # 0 /\ goal.id \in 1..MaxGoals
      /\ ~slipped => Ceiling(goal)
  BY GoalIs DEF Sound
<1>2. PICK new : new = [goal EXCEPT !.turns = @ + 1] OBVIOUS
<1>3. PICK more : more = [requests EXCEPT ![goal.id] = @ + 1] OBVIOUS
<1>4. /\ UNCHANGED <<sessionID, home, slipped>>
      /\ \/ Written(new) /\ requests' = more
         \/ Refused(persisted) /\ requests' = requests
         \/ slipped /\ Refused(persisted) /\ requests' = more
  BY <1>1, <1>2, <1>3, TurnIs
<1>5. /\ Sound(new) /\ new.id = goal.id /\ new.status = "active" /\ new.max = goal.max /\ new.steps = goal.steps
      /\ new.turns = goal.turns + 1 /\ goal.turns \in Nat /\ goal.max \in Nat /\ new \in GoalT
  BY <1>1, <1>2 DEF Sound, GoalT, GoalParameters
<1>6. /\ more \in [1..MaxGoals -> Nat] /\ more[goal.id] = requests[goal.id] + 1 /\ requests[goal.id] \in Nat
      /\ \A g \in 1..MaxGoals : g # goal.id => more[g] = requests[g]
  BY <1>0, <1>1, <1>3 DEF DataTypes
<1>7. host \in Sessions /\ stored \in [Sessions -> GoalT] /\ sessionID \in Sessions /\ sessionID # "none"
  BY <1>0 DEF DataTypes, GoalParameters
<1>8. Ledger'
 <2>1. PICK n \in 0..MaxGoals : \A g \in 1..MaxGoals : (home[g] # "none" <=> g <= n) /\ (home[g] = "none" => requests[g] = 0)
   BY <1>0 DEF Ledger
 <2>2. home[goal.id] # "none" BY <1>1, <1>7 DEF IsOf
 <2>3. \A g \in 1..MaxGoals : (home'[g] # "none" <=> g <= n) /\ (home'[g] = "none" => requests'[g] = 0)
   BY <1>4, <1>6, <2>1, <2>2
 <2>. QED BY <2>3 DEF Ledger
<1>9. requests' \in [1..MaxGoals -> Nat] BY <1>0, <1>4, <1>6 DEF DataTypes
<1>10. CASE Written(new) /\ requests' = more
 <2>1. stored' \in [Sessions -> GoalT] /\ stored'[host] = new /\ \A s \in Sessions : s # host => stored'[s] = stored[s]
   BY <1>5, <1>7, <1>10 DEF Written
 <2>2. DataTypes' BY <1>0, <1>4, <1>5, <1>9, <1>10, <2>1 DEF DataTypes, Written
 <2>3. Homes' BY <1>0, <1>1, <1>4, <1>5, <1>10, <2>1 DEF Homes, Written, IsOf
 <2>4. Memory' BY <1>10 DEF Memory, Written
 <2>5. ASSUME NEW s \in Sessions, ~slipped PROVE Ceiling(stored[s])'
  <3>1. CASE s = host
   <4>1. PICK w \in Nat : w = goal.max * TurnsPerStep
    <5>1. goal.max * TurnsPerStep \in Nat BY <1>5 DEF GoalParameters
    <5>. QED BY <5>1
   <4>2. /\ requests[goal.id] <= goal.turns /\ (goal.max > 0 => goal.steps <= goal.max /\ goal.turns < w)
         /\ goal.max = 0 \/ goal.steps < goal.max
     BY <1>1, <2>5, <4>1 DEF Ceiling, Within
   <4>3. new.max * TurnsPerStep = w /\ requests'[new.id] = requests[goal.id] + 1
     BY <1>5, <1>6, <1>10, <4>1
   <4>4. Within(new)' BY <1>5, <1>6, <4>1, <4>2, <4>3 DEF Within
   <4>. QED BY <2>1, <3>1, <4>4 DEF Ceiling
  <3>2. CASE s # host
   <4>1. stored'[s] = stored[s] /\ Sound(stored[s]) /\ IsOf(stored[s], s) /\ Ceiling(stored[s])
     BY <1>0, <2>1, <2>5, <3>2 DEF DataTypes, Homes, Agreed
   <4>2. stored[s].id # 0 => stored[s].id # goal.id /\ stored[s].id \in 1..MaxGoals
     BY <1>1, <1>10, <3>2, <4>1 DEF IsOf, Written, Sound, GoalT, GoalParameters
   <4>3. stored[s].id # 0 => requests'[stored[s].id] = requests[stored[s].id] BY <1>6, <1>10, <4>2
   <4>. QED BY <4>1, <4>3 DEF Ceiling, Within
  <3>. QED BY <3>1, <3>2
 <2>6. Agreed' BY <1>4, <1>10, <2>1, <2>5 DEF Agreed, Written
 <2>. QED BY <1>8, <2>2, <2>3, <2>4, <2>6 DEF DataInv
<1>11. CASE Refused(persisted) /\ (slipped \/ requests' = requests)
 <2>1. goal' = persisted /\ persisted' = persisted /\ stored' = stored /\ (failed' => failed) /\ (failed => failed')
       /\ failed' \in BOOLEAN
   BY <1>11 DEF Refused
 <2>2. DataTypes' BY <1>0, <1>4, <1>9, <1>11, <2>1 DEF DataTypes
 <2>3. Homes' /\ Memory' BY <1>0, <1>4, <2>1 DEF Homes, Memory, IsOf
 <2>4. Agreed' BY <1>0, <1>4, <1>11, <2>1 DEF Agreed, Ceiling, Within
 <2>. QED BY <1>8, <2>2, <2>3, <2>4 DEF DataInv
<1>. QED BY <1>4, <1>10, <1>11

\* The hook and the session of the front end change alone.
LEMMA SessionKeeps ==
  ASSUME GoalParameters, DataInv, NEW s \in Sessions, Goals!SessionChanges(s)
  PROVE  DataInv'
<1>0. DataTypes /\ Ledger /\ Homes /\ Memory /\ Agreed BY DEF DataInv
<1>1. /\ host' = s /\ s # "none"
      /\ hook' = IF hook.at = "none" THEN [Goals!NoHook EXCEPT !.at = "event", !.id = s]
                 ELSE IF hook.at = "event" THEN [hook EXCEPT !.id = s] ELSE [hook EXCEPT !.next = s]
      /\ UNCHANGED <<stored, goal, persisted, sessionID, failed, requests, home, slipped>>
  BY DEF Goals!SessionChanges, Goals!fields, Goals!ghosts, Goals!flags, GoalParameters
<1>2. Goals!None \in GoalT /\ Sound(Goals!None)
  BY DEF Goals!None, GoalT, Goals!Statuses, GoalParameters, Sound
<1>3. Goals!NoHook \in HookT /\ Goals!NoHook.at = "none" /\ Goals!NoHook.next = "none" /\ Goals!NoHook.loaded = Goals!None
  BY <1>2 DEF Goals!NoHook, HookT
<1>4. /\ hook' \in HookT
      /\ \/ hook'.at = "event" /\ hook'.id = s /\ hook'.next \in {"none", hook.next} /\ hook.at # "read"
            /\ hook'.loaded \in {Goals!None, hook.loaded}
         \/ hook.at = "read" /\ hook'.at = "read" /\ hook'.id = hook.id /\ hook'.next = s /\ hook'.loaded = hook.loaded
 <2>0. hook \in HookT BY <1>0 DEF DataTypes
 <2>1. CASE hook.at = "none"
  <3>1. hook' = [Goals!NoHook EXCEPT !.at = "event", !.id = s] BY <1>1, <2>1
  <3>. QED BY <1>3, <2>1, <3>1 DEF HookT
 <2>2. CASE hook.at = "event"
  <3>1. hook' = [hook EXCEPT !.id = s] BY <1>1, <2>2
  <3>. QED BY <2>0, <2>2, <3>1 DEF HookT
 <2>3. CASE hook.at = "read"
  <3>1. hook' = [hook EXCEPT !.next = s] BY <1>1, <2>3
  <3>. QED BY <2>0, <2>3, <3>1 DEF HookT
 <2>. QED BY <2>0, <2>1, <2>2, <2>3 DEF HookT
<1>5. DataTypes'
 <2>1. Sound(hook'.loaded) BY <1>0, <1>2, <1>4 DEF DataTypes
 <2>. QED BY <1>0, <1>1, <1>4, <2>1 DEF DataTypes
<1>6. Homes' BY <1>0, <1>1, <1>4 DEF Homes, IsOf
<1>7. Ledger' /\ Memory' /\ Agreed'
  BY <1>0, <1>1 DEF Ledger, Memory, Agreed, Ceiling, Within, Goals!Paused
<1>. QED BY <1>5, <1>6, <1>7 DEF DataInv

LEMMA HookReadsKeeps ==
  ASSUME GoalParameters, DataInv, Goals!HookReads
  PROVE  DataInv'
<1>0. DataTypes /\ Ledger /\ Homes /\ Memory /\ Agreed BY DEF DataInv
<1>1. /\ hook.at = "event" /\ hook' = [hook EXCEPT !.at = "read", !.loaded = stored[host]]
      /\ UNCHANGED <<stored, goal, persisted, sessionID, failed, host, requests, home, slipped>>
  BY DEF Goals!HookReads, Goals!fields, Goals!ghosts, Goals!flags
<1>2. /\ host \in Sessions /\ host # "none" /\ stored[host] \in GoalT /\ Sound(stored[host]) /\ IsOf(stored[host], host)
      /\ hook \in HookT /\ hook.id = host
  BY <1>0, <1>1 DEF DataTypes, Homes, GoalParameters
<1>3. /\ hook' \in HookT /\ hook'.at = "read" /\ hook'.id = host /\ hook'.next = hook.next
      /\ hook'.loaded = stored[host]
  BY <1>1, <1>2 DEF HookT
<1>5. DataTypes' BY <1>0, <1>1, <1>2, <1>3 DEF DataTypes
<1>6. Homes' BY <1>0, <1>1, <1>2, <1>3 DEF Homes, IsOf
<1>7. Ledger' /\ Memory' /\ Agreed'
  BY <1>0, <1>1 DEF Ledger, Memory, Agreed, Ceiling, Within, Goals!Paused
<1>. QED BY <1>5, <1>6, <1>7 DEF DataInv

\* What the late event does: nothing, or memory becomes what was read, paused when it was active.
LEMMA AppliesIs ==
  ASSUME GoalParameters, DataInv, Goals!HookApplies
  PROVE  /\ hook.at = "read" /\ UNCHANGED <<host, command, wake, run, requests, home>>
         /\ hook' = IF hook.next = "none" THEN Goals!NoHook ELSE [Goals!NoHook EXCEPT !.at = "event", !.id = hook.next]
         /\ \/ UNCHANGED <<stored, Goals!fields, slipped>>
            \/ /\ sessionID' = hook.id /\ ~haltRun' /\ ~completionRun' /\ ~finalTurn'
               /\ persisted' = goal' /\ failed' \in BOOLEAN
               /\ slipped' = (slipped \/ hook.loaded # stored[hook.id] \/ goal'.status = "active"
                                    \/ haltRun \/ completionRun)
               /\ \/ stored' = stored /\ goal' = hook.loaded
                  \/ /\ hook.id = host /\ hook.loaded.status = "active" /\ goal' = Goals!Paused(hook.loaded)
                     /\ stored' = [stored EXCEPT ![host] = Goals!Paused(hook.loaded)]
<1>1. failed \in BOOLEAN BY DEF DataInv, DataTypes
<1>2. CASE sessionID = hook.id /\ goal.id # 0 /\ goal.id = hook.loaded.id /\ goal.status = "active"
  BY <1>2 DEF Goals!HookApplies
<1>3. CASE ~(sessionID = hook.id /\ goal.id # 0 /\ goal.id = hook.loaded.id /\ goal.status = "active")
 <2>1. /\ sessionID' = hook.id /\ ~haltRun' /\ ~completionRun' /\ ~finalTurn'
       /\ slipped' = (slipped \/ hook.loaded # stored[hook.id] \/ goal'.status = "active"
                                   \/ haltRun \/ completionRun)
   BY <1>3 DEF Goals!HookApplies
 <2>2. CASE hook.loaded.status = "active"
  <3>1. Goals!PersistAs(hook.id, Goals!Paused(hook.loaded), hook.loaded, Goals!Keep)
    BY <1>3, <2>2 DEF Goals!HookApplies
  <3>2. /\ persisted' = goal' /\ failed' \in BOOLEAN
        /\ \/ stored' = stored /\ goal' = hook.loaded
           \/ /\ hook.id = host /\ goal' = Goals!Paused(hook.loaded)
              /\ stored' = [stored EXCEPT ![host] = Goals!Paused(hook.loaded)]
    BY <1>1, <3>1 DEF Goals!PersistAs, Goals!Keep
  <3>. QED BY <2>1, <2>2, <3>2 DEF Goals!HookApplies
 <2>3. CASE hook.loaded.status # "active" BY <1>3, <2>1, <2>3 DEF Goals!HookApplies
 <2>. QED BY <2>2, <2>3
<1>. QED BY <1>2, <1>3

LEMMA HookAppliesKeeps ==
  ASSUME GoalParameters, DataInv, Goals!HookApplies
  PROVE  DataInv'
<1>0. DataTypes /\ Ledger /\ Homes /\ Memory /\ Agreed BY DEF DataInv
<1>1. /\ hook.at = "read" /\ UNCHANGED <<host, requests, home>>
      /\ hook' = IF hook.next = "none" THEN Goals!NoHook ELSE [Goals!NoHook EXCEPT !.at = "event", !.id = hook.next]
  BY AppliesIs
<1>2. Goals!None \in GoalT /\ Sound(Goals!None)
  BY DEF Goals!None, GoalT, Goals!Statuses, GoalParameters, Sound
<1>3. Goals!NoHook \in HookT /\ Goals!NoHook.at = "none" /\ Goals!NoHook.next = "none" /\ Goals!NoHook.loaded = Goals!None
  BY <1>2 DEF Goals!NoHook, HookT
<1>4. /\ hook' \in HookT /\ hook'.at \in {"none", "event"} /\ hook'.next = "none" /\ hook'.loaded = Goals!None
      /\ hook'.at = "event" => hook'.id = host
 <2>1. CASE hook.next = "none" BY <1>1, <1>3, <2>1
 <2>2. CASE hook.next # "none"
  <3>1. hook.next = host /\ host \in Sessions BY <1>0, <2>2 DEF Homes, DataTypes
  <3>2. hook' = [Goals!NoHook EXCEPT !.at = "event", !.id = host] BY <1>1, <2>2, <3>1
  <3>. QED BY <1>3, <3>1, <3>2 DEF HookT
 <2>. QED BY <2>1, <2>2
<1>5. CASE UNCHANGED <<stored, Goals!fields, slipped>>
 <2>1. UNCHANGED <<stored, goal, persisted, sessionID, failed, slipped>> BY <1>5 DEF Goals!fields
 <2>2. DataTypes' BY <1>0, <1>1, <1>2, <1>4, <2>1 DEF DataTypes
 <2>3. Homes' BY <1>0, <1>1, <1>4, <2>1 DEF Homes, IsOf
 <2>4. Ledger' /\ Memory' /\ Agreed'
   BY <1>0, <1>1, <2>1 DEF Ledger, Memory, Agreed, Ceiling, Within, Goals!Paused
 <2>. QED BY <2>2, <2>3, <2>4 DEF DataInv
<1>6. CASE /\ sessionID' = hook.id
               /\ persisted' = goal' /\ failed' \in BOOLEAN
               /\ slipped' = (slipped \/ hook.loaded # stored[hook.id] \/ goal'.status = "active"
                                    \/ haltRun \/ completionRun)
               /\ \/ stored' = stored /\ goal' = hook.loaded
                  \/ /\ hook.id = host /\ hook.loaded.status = "active" /\ goal' = Goals!Paused(hook.loaded)
                     /\ stored' = [stored EXCEPT ![host] = Goals!Paused(hook.loaded)]
 <2>1. PICK g : g = hook.loaded OBVIOUS
 <2>2. /\ Sound(g) /\ IsOf(g, hook.id) /\ hook.id \in Sessions /\ host \in Sessions
       /\ stored \in [Sessions -> GoalT]
   BY <1>0, <1>1, <2>1 DEF DataTypes, Homes, HookT
 <2>3. g.status = "active" => Sound(Goals!Paused(g)) /\ IsOf(Goals!Paused(g), hook.id) /\ Goals!Paused(g) \in GoalT
   BY <2>2, PausedIs DEF IsOf, Sound
 <2>4. CASE stored' = stored /\ goal' = g
  <3>1. DataTypes' BY <1>0, <1>1, <1>2, <1>4, <1>6, <2>2, <2>4 DEF DataTypes
  <3>2. Homes' BY <1>0, <1>1, <1>4, <1>6, <2>2, <2>4 DEF Homes, IsOf
  <3>3. Ledger' /\ Memory' BY <1>0, <1>1, <1>6 DEF Ledger, Memory
  <3>4. Agreed' BY <1>0, <1>1, <1>6, <2>1, <2>4 DEF Agreed, Ceiling, Within
  <3>. QED BY <3>1, <3>2, <3>3, <3>4 DEF DataInv
 <2>5. CASE hook.id = host /\ g.status = "active" /\ goal' = Goals!Paused(g) /\ stored' = [stored EXCEPT ![host] = Goals!Paused(g)]
  <3>0. PICK h : h = Goals!Paused(g) OBVIOUS
  <3>1. /\ stored' \in [Sessions -> GoalT] /\ stored'[host] = h /\ \A s \in Sessions : s # host => stored'[s] = stored[s]
        /\ goal' = h /\ Sound(h) /\ IsOf(h, host)
    BY <2>2, <2>3, <2>5, <3>0
  <3>2. DataTypes' BY <1>0, <1>1, <1>2, <1>4, <1>6, <2>2, <3>1 DEF DataTypes
  <3>3. Homes' BY <1>0, <1>1, <1>4, <1>6, <2>5, <3>1 DEF Homes, IsOf
  <3>4. Ledger' /\ Memory' BY <1>0, <1>1, <1>6 DEF Ledger, Memory
  <3>5. ASSUME ~slipped' PROVE Ceiling(h)
   <4>1. ~slipped /\ g = stored[host] BY <1>0, <1>6, <2>1, <2>5, <3>5 DEF DataTypes
   <4>2. Ceiling(g) /\ g.id # 0 BY <1>0, <2>2, <2>5, <4>1 DEF Agreed, Sound
   <4>. QED BY <2>2, <3>0, <4>2, PausedWithin
  <3>6. Agreed' BY <1>0, <1>1, <1>6, <2>5, <3>1, <3>5 DEF Agreed, Ceiling, Within, DataTypes
  <3>. QED BY <3>2, <3>3, <3>4, <3>6 DEF DataInv
 <2>. QED BY <1>6, <2>1, <2>4, <2>5
<1>. QED BY <1>5, <1>6, AppliesIs

\* A process that starts restores the goal of its session, paused.
LEMMA RestartKeeps ==
  ASSUME GoalParameters, DataInv, NEW s \in Sessions, NEW stops \in BOOLEAN, Goals!Restarts(s, stops)
  PROVE  DataInv' /\ goal' = persisted' /\ persisted'.status # "active"
<1>0. DataTypes /\ Ledger /\ Homes /\ Memory /\ Agreed BY DEF DataInv
<1>1. PICK left : left = IF stops /\ goal.status = "active" /\ sessionID = host
                         THEN [stored EXCEPT ![host] = Goals!Paused(goal)] ELSE stored
  OBVIOUS
<1>2. PICK now : now = Goals!Restored(left[s]) OBVIOUS
<1>3. /\ host' = s /\ sessionID' = s /\ stored' = [left EXCEPT ![s] = now] /\ goal' = now /\ persisted' = now
      /\ failed' = FALSE /\ hook' = Goals!NoHook /\ UNCHANGED <<requests, home, slipped>>
  BY <1>1, <1>2 DEF Goals!Restarts, Goals!ghosts
<1>4. /\ host \in Sessions /\ stored \in [Sessions -> GoalT]
      /\ \A t \in Sessions : Sound(stored[t]) /\ IsOf(stored[t], t) /\ (~slipped => Ceiling(stored[t]))
  BY <1>0 DEF DataTypes, Homes, Agreed
<1>5. /\ Sound(goal) /\ IsOf(goal, sessionID) /\ (~slipped => Ceiling(goal))
      /\ goal.status = "active" => goal.id # 0
  BY GoalIs
<1>6. left \in [Sessions -> GoalT] /\ \A t \in Sessions : Sound(left[t]) /\ IsOf(left[t], t) /\ (~slipped => Ceiling(left[t]))
 <2>1. CASE left = stored BY <1>4, <2>1
 <2>2. CASE left = [stored EXCEPT ![host] = Goals!Paused(goal)] /\ goal.status = "active" /\ sessionID = host
  <3>1. PICK h : h = Goals!Paused(goal) OBVIOUS
  <3>2. Sound(h) /\ IsOf(h, host) /\ (~slipped => Ceiling(h)) /\ h \in GoalT
    BY <1>5, <2>2, <3>1, PausedIs, PausedWithin DEF IsOf, Sound
  <3>3. left = [stored EXCEPT ![host] = h] BY <2>2, <3>1
  <3>. QED BY <1>4, <3>2, <3>3
 <2>. QED BY <1>1, <2>1, <2>2
<1>7. Sound(now) /\ IsOf(now, s) /\ (~slipped => Ceiling(now)) /\ now \in GoalT /\ now.status # "active"
 <2>1. CASE left[s].status = "active"
  <3>1. left[s].id # 0 /\ now = Goals!Paused(left[s]) BY <1>2, <1>6, <2>1 DEF Sound, Goals!Restored
  <3>. QED BY <1>6, <3>1, PausedIs, PausedWithin DEF IsOf, Sound
 <2>2. CASE left[s].status # "active" BY <1>2, <1>6, <2>2 DEF Goals!Restored
 <2>. QED BY <2>1, <2>2
<1>8. stored' \in [Sessions -> GoalT] /\ stored'[s] = now /\ \A t \in Sessions : t # s => stored'[t] = left[t]
  BY <1>3, <1>6, <1>7
<1>9. Goals!None \in GoalT /\ Sound(Goals!None)
  BY DEF Goals!None, GoalT, Goals!Statuses, GoalParameters, Sound
<1>10. Goals!NoHook \in HookT /\ Goals!NoHook.at = "none" /\ Goals!NoHook.next = "none" /\ Goals!NoHook.loaded = Goals!None
  BY <1>9 DEF Goals!NoHook, HookT
<1>11. DataTypes'
 <2>1. \A t \in Sessions : Sound(stored[t])' BY <1>6, <1>7, <1>8 DEF Sound
 <2>. QED BY <1>0, <1>3, <1>7, <1>8, <1>9, <1>10, <2>1 DEF DataTypes
<1>12. Homes' BY <1>3, <1>6, <1>7, <1>8, <1>10 DEF Homes, IsOf
<1>13. Ledger' /\ Memory' BY <1>0, <1>3 DEF Ledger, Memory
<1>14. Agreed' BY <1>3, <1>6, <1>7, <1>8 DEF Agreed, Ceiling, Within
<1>. QED BY <1>3, <1>7, <1>11, <1>12, <1>13, <1>14 DEF DataInv

----------------------------------------
(* Goal mode, the inductive invariant: the run, the command and the flags. *)

ControlTypes ==
  /\ run \in RunT /\ command \in CommandT /\ wake \in BOOLEAN
  /\ haltRun \in BOOLEAN /\ completionRun \in BOOLEAN /\ finalTurn \in BOOLEAN

\* A command that starts or resumes holds the front end until the message waits.
Sending == command.at \in {"follow up", "pause"}
Commands ==
  /\ command.op \in {"start", "resume"} => run.at = "idle"
  /\ Sending => command.op \in {"start", "resume"}

\* A run that was halted is stopped before its next request, or has one left.
Halting ==
  /\ run.at = "idle" => run.halted = "none"
  /\ ~slipped =>
       /\ run.halted \in {"cleared", "denied"} /\ run.at \in {"before", "turn", "agent_end"} => haltRun
       /\ run.at = "refreshed" => run.halted \in {"none", "completed"} /\ ~haltRun
       /\ run.halted = "completed" /\ run.at \notin {"idle", "ending"} =>
            haltRun \/ (completionRun /\ (finalTurn => run.after = 0))
       /\ run.halted = "completed" => run.after <= 1
       /\ run.halted # "completed" => run.after = 0

\* Where a pause that was not recorded is, and where no active goal is left behind.
Working ==
  ~slipped =>
    /\ goal # persisted => run.at \in {"idle", "ending", "before"} \/ (run.at = "turn" /\ run.halted = "denied")
    /\ run.at = "ending" /\ run.stop = "end_turn" => goal.status # "active" /\ persisted.status # "active"
    /\ run.at = "idle" /\ ~wake /\ ~Sending /\ ~failed /\ ~haltRun => persisted.status # "active"

ControlInv == ControlTypes /\ Commands /\ Halting /\ Working
GoalInv == DataInv /\ ControlInv

LEMMA GoalInit == GoalParameters /\ Goals!Init => GoalInv
<1> SUFFICES ASSUME GoalParameters, Goals!Init PROVE GoalInv
  OBVIOUS
<1>1. Goals!None \in GoalT /\ Sound(Goals!None) /\ Goals!None.id = 0 /\ Goals!None.status = "none"
  BY DEF Goals!None, GoalT, Goals!Statuses, GoalParameters, Sound
<1>2. Goals!NoHook \in HookT /\ Goals!NoHook.at = "none" /\ Goals!NoHook.next = "none" /\ Goals!NoHook.loaded = Goals!None
  BY <1>1 DEF Goals!NoHook, HookT
<1>3. DataTypes BY <1>1, <1>2 DEF Goals!Init, DataTypes
<1>4. Ledger
 <2>1. 0 \in 0..MaxGoals /\ \A g \in 1..MaxGoals : (home[g] # "none" <=> g <= 0) /\ (home[g] = "none" => requests[g] = 0)
   BY DEF Goals!Init, GoalParameters
 <2>. QED BY <2>1 DEF Ledger
<1>5. Homes /\ Memory BY <1>1, <1>2 DEF Goals!Init, Homes, Memory, IsOf
<1>6. Agreed BY <1>1 DEF Goals!Init, Agreed, Ceiling
<1>7. ControlTypes
 <2>1. Goals!NoRun \in RunT /\ Goals!NoCommand \in CommandT
   BY DEF RunT, CommandT, Goals!NoRun, Goals!NoCommand, Stops
 <2>. QED BY <2>1 DEF Goals!Init, ControlTypes
<1>8. Commands /\ Halting /\ Working
  BY <1>1 DEF Goals!Init, Commands, Halting, Working, Goals!NoRun, Goals!NoCommand, Sending
<1>. QED BY <1>3, <1>4, <1>5, <1>6, <1>7, <1>8 DEF GoalInv, DataInv, ControlInv

\* The data of the invariant, for a step of the front end or of the agent.
LEMMA Facts ==
  ASSUME GoalParameters, GoalInv
  PROVE  /\ DataInv /\ ControlTypes /\ Commands /\ Halting /\ Working
         /\ run \in RunT /\ command \in CommandT /\ failed \in BOOLEAN /\ slipped \in BOOLEAN
         /\ Sound(goal) /\ Sound(persisted) /\ goal \in GoalT /\ host \in Sessions /\ sessionID \in Sessions
         /\ stored \in [Sessions -> GoalT] /\ Sound(stored[host])
         /\ goal # persisted => goal.status = "paused"
         /\ goal.status # "none" => goal.id # 0
         /\ ~slipped => persisted = stored[sessionID] /\ (goal # persisted => failed) /\ Ceiling(goal)
  BY GoalIs DEF GoalInv, DataInv, ControlInv, DataTypes, ControlTypes, Agreed, Sound

LEMMA StillWithin ==
  ASSUME GoalParameters, GoalInv, NEW new \in GoalT, new.id = goal.id, goal.id # 0, new.status # "none",
         new.turns = goal.turns, new.max = goal.max,
         ~slipped /\ Ceiling(goal) /\ goal.max > 0 => new.steps <= goal.max,
         ~slipped /\ Ceiling(goal) /\ new.status = "active" => goal.max = 0 \/ new.steps < goal.max
  PROVE  Sound(new) /\ (~slipped => Ceiling(new))
<1>1. Sound(new) BY DEF Sound
<1>2. ASSUME ~slipped PROVE Ceiling(new)
 <2>1. Within(goal) BY <1>2, Facts DEF Ceiling
 <2>2. Ceiling(goal) BY <1>2, Facts
 <2>. QED BY <1>2, <2>1, <2>2 DEF Ceiling, Within
<1>. QED BY <1>1, <1>2

\* A pause of the goal in memory is within its limits, and so is the goal.
LEMMA PauseIs ==
  ASSUME GoalParameters, GoalInv, goal.id # 0
  PROVE  /\ Sound(goal) /\ (~slipped => Ceiling(goal)) /\ goal.id = goal.id
         /\ Sound(Goals!Paused(goal)) /\ (~slipped => Ceiling(Goals!Paused(goal))) /\ Goals!Paused(goal).id = goal.id
         /\ Goals!Paused(goal).status = "paused"
  BY Facts, PausedIs, PausedWithin

\* What memory is when the pause of what was persisted stands in for it.
LEMMA PersistedPauseIs ==
  ASSUME GoalParameters, GoalInv, goal.id # 0
  PROVE  /\ Goals!Paused(persisted).status = "paused" /\ persisted.id # 0
         /\ persisted.status = "active" => Goals!Paused(persisted) # persisted
         /\ Goals!Paused(persisted).id = persisted.id
<1>1. persisted.id = goal.id /\ Sound(persisted) BY GoalIs, Facts
<1>. QED BY <1>1, PausedIs

----------------------------------------
(* Goal mode: the steps.                                                   *)

LEMMA RunIs ==
  ASSUME GoalParameters, GoalInv
  PROVE  /\ \A stop \in Stops : /\ Goals!Ending(stop) \in RunT /\ Goals!Ending(stop).at = "ending" /\ Goals!Ending(stop).stop = stop
                                /\ Goals!Ending(stop).halted = run.halted /\ Goals!Ending(stop).after = run.after
         /\ Goals!Requesting \in RunT /\ Goals!Requesting.at = "turn" /\ Goals!Requesting.halted = run.halted
         /\ Goals!Requesting.after = IF run.halted = "none" THEN 0 ELSE run.after + 1
         /\ \A at \in {"before", "refreshed", "agent_end"} :
              /\ [run EXCEPT !.at = at] \in RunT /\ [run EXCEPT !.at = at].at = at
              /\ [run EXCEPT !.at = at].halted = run.halted /\ [run EXCEPT !.at = at].after = run.after
         /\ \A halted \in {"cleared", "denied", "completed"} :
              LET r == [run EXCEPT !.halted = halted, !.after = 0]
              IN r \in RunT /\ r.at = run.at /\ r.stop = run.stop /\ r.halted = halted /\ r.after = 0
<1>1. run \in RunT /\ run.after \in Nat BY Facts DEF RunT
<1>2. ASSUME NEW stop \in Stops
      PROVE  /\ Goals!Ending(stop) \in RunT /\ Goals!Ending(stop).at = "ending" /\ Goals!Ending(stop).stop = stop
             /\ Goals!Ending(stop).halted = run.halted /\ Goals!Ending(stop).after = run.after
  BY <1>1 DEF Goals!Ending, RunT
<1>3. /\ Goals!Requesting \in RunT /\ Goals!Requesting.at = "turn" /\ Goals!Requesting.halted = run.halted
      /\ Goals!Requesting.after = IF run.halted = "none" THEN 0 ELSE run.after + 1
 <2>1. PICK n \in Nat : n = IF run.halted = "none" THEN 0 ELSE run.after + 1 BY <1>1
 <2>2. Goals!Requesting = [run EXCEPT !.at = "turn", !.after = n]
   BY <1>1, <2>1 DEF Goals!Requesting, RunT
 <2>. QED BY <1>1, <2>1, <2>2 DEF RunT
<1>4. ASSUME NEW at \in {"before", "refreshed", "agent_end"}
      PROVE  /\ [run EXCEPT !.at = at] \in RunT /\ [run EXCEPT !.at = at].at = at
             /\ [run EXCEPT !.at = at].halted = run.halted /\ [run EXCEPT !.at = at].after = run.after
  BY <1>1 DEF RunT
<1>5. ASSUME NEW halted \in {"cleared", "denied", "completed"}
      PROVE  LET r == [run EXCEPT !.halted = halted, !.after = 0]
             IN r \in RunT /\ r.at = run.at /\ r.stop = run.stop /\ r.halted = halted /\ r.after = 0
  BY <1>1 DEF RunT
<1>. QED BY <1>2, <1>3, <1>4, <1>5

\* Commands and messages of the user: only the command, the message, the run and the bounds change.
LEMMA UserKeeps ==
  ASSUME GoalParameters, GoalInv,
         \/ \E op \in {"start", "resume", "clear"} : Goals!UserCommand(op)
         \/ Goals!CommandFollowsUp
         \/ \E byWake \in BOOLEAN : Goals!RunStarts(byWake)
         \/ UNCHANGED Goals!vars
  PROVE  GoalInv'
<1>0. /\ DataInv /\ ControlTypes /\ Commands /\ Halting /\ Working
      /\ run \in RunT /\ command \in CommandT
  BY Facts
<1>1. /\ UNCHANGED <<stored, goal, persisted, sessionID, failed, host, hook, requests, home, slipped>>
      /\ UNCHANGED <<haltRun, completionRun, finalTurn>>
  BY DEF Goals!UserCommand, Goals!CommandFollowsUp, Goals!RunStarts, Goals!fields,
         Goals!ghosts, Goals!flags, Goals!vars
<1>2. DataInv' BY <1>0, <1>1, SameData
<1>3. ASSUME NEW op \in {"start", "resume", "clear"}, Goals!UserCommand(op)
      PROVE  ControlInv'
 <2>1. PICK m \in Limits \cup {0} : command' = [op |-> op, at |-> "refresh", max |-> m]
   BY <1>3 DEF Goals!UserCommand
 <2>2. command' \in CommandT /\ command'.at = "refresh" /\ command'.op = op BY <2>1 DEF CommandT
 <2>3. /\ run' = run /\ wake' = wake /\ (op # "clear" => run.at = "idle" /\ ~wake)
       /\ command.at = "none"
   BY <1>3 DEF Goals!UserCommand, Goals!NoCommand
 <2>. QED
   BY <1>0, <1>1, <2>2, <2>3 DEF ControlInv, ControlTypes, Commands, Halting, Working, Sending
<1>4. ASSUME Goals!CommandFollowsUp PROVE ControlInv'
 <2>1. command.at = "follow up" /\ run' = run /\ command.op \in {"start", "resume"} /\ run.at = "idle"
   BY <1>0, <1>4 DEF Goals!CommandFollowsUp, Commands, Sending
 <2>2. CASE wake' = TRUE /\ command' = Goals!NoCommand
  <3>1. Goals!NoCommand \in CommandT /\ Goals!NoCommand.at = "none" /\ Goals!NoCommand.op = "none"
    BY DEF Goals!NoCommand, CommandT
  <3>. QED BY <1>0, <1>1, <2>1, <2>2, <3>1
       DEF ControlInv, ControlTypes, Commands, Halting, Working, Sending
 <2>3. CASE command' = [command EXCEPT !.at = "pause"] /\ UNCHANGED wake
  <3>1. command' \in CommandT /\ command'.at = "pause" /\ command'.op = command.op
    BY <1>0, <2>3 DEF CommandT
  <3>. QED BY <1>0, <1>1, <2>1, <2>3, <3>1
       DEF ControlInv, ControlTypes, Commands, Halting, Working, Sending
 <2>. QED BY <1>4, <2>2, <2>3 DEF Goals!CommandFollowsUp
<1>5. ASSUME NEW byWake \in BOOLEAN, Goals!RunStarts(byWake) PROVE ControlInv'
 <2>1. /\ run.at = "idle" /\ command.op \in {"none", "clear"} /\ command' = command /\ wake' \in BOOLEAN
       /\ run' = [Goals!NoRun EXCEPT !.at = "before"]
   BY <1>0, <1>5 DEF Goals!RunStarts, ControlTypes
 <2>2. run' \in RunT /\ run'.at = "before" /\ run'.halted = "none" /\ run'.after = 0
   BY <2>1 DEF Goals!NoRun, RunT, Stops
 <2>. QED
   BY <1>0, <1>1, <2>1, <2>2 DEF ControlInv, ControlTypes, Commands, Halting, Working, Sending
<1>6. ASSUME UNCHANGED Goals!vars PROVE ControlInv'
 <2>1. UNCHANGED <<run, command, wake>> BY <1>6 DEF Goals!vars
 <2>. QED
   BY ZenonT(40), <1>0, <1>1, <2>1 DEF ControlInv, ControlTypes, Commands, Halting, Working, Sending
<1>. QED BY <1>2, <1>3, <1>4, <1>5, <1>6 DEF GoalInv

LEMMA CommandRefreshesKeeps ==
  ASSUME GoalParameters, GoalInv, Goals!CommandRefreshes
  PROVE  GoalInv'
<1>0. /\ DataInv /\ ControlTypes /\ Commands /\ Halting /\ Working
      /\ run \in RunT /\ command \in CommandT /\ command.at = "refresh"
      /\ UNCHANGED <<host, hook, wake, run, requests, home>>
  BY Facts DEF Goals!CommandRefreshes
<1>1. Goals!NoCommand \in CommandT /\ Goals!NoCommand.at = "none" /\ Goals!NoCommand.op = "none"
  BY DEF Goals!NoCommand, CommandT
<1>2. CASE failed
 <2>1. command' = Goals!NoCommand /\ UNCHANGED <<stored, goal, persisted, sessionID, failed, slipped, haltRun, completionRun, finalTurn>>
   BY <1>2 DEF Goals!CommandRefreshes, Goals!fields
 <2>2. DataInv' BY <1>0, <2>1, SameData
 <2>. QED BY ZenonT(40), <1>0, <1>1, <1>2, <2>1, <2>2
      DEF GoalInv, ControlInv, ControlTypes, Commands, Halting, Working, Sending
<1>3. CASE ~failed
 <2>1. /\ Goals!Refresh /\ command' = IF Goals!RefreshFailed THEN Goals!NoCommand ELSE [command EXCEPT !.at = "act"]
       /\ slipped' = (slipped \/ Goals!RefreshFailed) /\ UNCHANGED <<haltRun, completionRun, finalTurn>>
   BY <1>3 DEF Goals!CommandRefreshes, Goals!flags
 <2>2. /\ persisted' = goal' /\ (failed' \in BOOLEAN)
       /\ \/ Goals!RefreshFailed
          \/ host = sessionID /\ goal' = stored[host]
          \/ goal'.status # "active"
  <3>1. /\ sessionID' = host /\ persisted' = goal' /\ goal' = stored'[host]
        /\ \/ stored' = stored /\ failed' = failed /\ (Goals!RefreshFailed \/ host = sessionID \/ stored[host].status # "active")
           \/ /\ stored[host].status = "active" /\ host # sessionID /\ failed' = FALSE
              /\ stored' = [stored EXCEPT ![host] = Goals!Paused(stored[host])]
    BY <2>1, Facts, RefreshIs
  <3>2. CASE stored' = stored /\ failed' = failed /\ (Goals!RefreshFailed \/ host = sessionID \/ stored[host].status # "active")
    BY <3>1, <3>2, Facts
  <3>3. CASE /\ stored[host].status = "active" /\ host # sessionID /\ failed' = FALSE
             /\ stored' = [stored EXCEPT ![host] = Goals!Paused(stored[host])]
   <4>1. goal' = Goals!Paused(stored[host]) /\ stored[host].id # 0 /\ Sound(stored[host])
     BY <3>1, <3>3, Facts DEF Sound
   <4>. QED BY <3>1, <3>3, <4>1, PausedIs
  <3>. QED BY <3>1, <3>2, <3>3
 <2>3. PICK b \in BOOLEAN : b <=> Goals!RefreshFailed OBVIOUS
 <2>4. slipped' = (slipped \/ b) BY <2>1, <2>3
 <2>5. slipped' \in BOOLEAN /\ (slipped => slipped') /\ (b => slipped') /\ (slipped' => slipped \/ b)
   BY <2>4, Facts
 <2>6. DataInv' BY <1>0, <2>1, <2>5, RefreshKeeps
 <2>7. command' \in CommandT /\ command'.op \in {command.op, "none"} /\ command'.at \in {"none", "act"}
  <3>1. CASE b BY <1>1, <2>1, <2>3, <3>1
  <3>2. CASE ~b
   <4>1. command' = [command EXCEPT !.at = "act"] BY <2>1, <2>3, <3>2
   <4>. QED BY <1>0, <4>1 DEF CommandT
  <3>. QED BY <3>1, <3>2
 <2>8. ~slipped' => persisted'.status # "active" \/ persisted' = persisted
  <3>1. ~slipped /\ host = sessionID => stored[host] = persisted BY Facts
  <3>. QED BY <2>2, <2>3, <2>5, <3>1
 <2>9. Working' BY <1>0, <1>3, <2>1, <2>2, <2>5, <2>7, <2>8 DEF Working, Sending
 <2>. QED BY <1>0, <2>1, <2>5, <2>6, <2>7, <2>9
      DEF GoalInv, ControlInv, ControlTypes, Commands, Halting, Sending
<1>. QED BY <1>2, <1>3

LEMMA CommandStartsKeeps ==
  ASSUME GoalParameters, GoalInv, Goals!CommandStarts
  PROVE  GoalInv'
<1>0. /\ DataInv /\ ControlTypes /\ Commands /\ Halting /\ Working /\ run.at = "idle"
      /\ run \in RunT /\ command \in CommandT /\ command.at = "act" /\ command.op = "start"
      /\ UNCHANGED <<host, hook, wake, run>>
  BY Facts DEF Goals!CommandStarts, Commands
<1>1. Goals!NoCommand \in CommandT /\ Goals!NoCommand.at = "none" /\ Goals!NoCommand.op = "none"
  BY DEF Goals!NoCommand, CommandT
<1>2. CASE goal.status = "active"
 <2>1. /\ command' = Goals!NoCommand
       /\ UNCHANGED <<stored, goal, persisted, sessionID, failed, slipped, haltRun, completionRun, finalTurn, requests, home>>
   BY <1>2 DEF Goals!CommandStarts, Goals!fields, Goals!ghosts
 <2>2. DataInv' BY <1>0, <2>1, SameData
 <2>. QED BY <1>0, <1>1, <2>1, <2>2
      DEF GoalInv, ControlInv, ControlTypes, Commands, Halting, Working, Sending
<1>3. CASE goal.status # "active"
 <2>1. PICK m \in Limits \cup {0} : m = command.max BY <1>0 DEF CommandT
 <2>2. Goals!StartGoal(m, TRUE) /\ UNCHANGED sessionID BY <1>3, <2>1 DEF Goals!CommandStarts
 <2>3. DataInv' BY <1>0, <2>2, StartKeeps
 <2>4. UNCHANGED <<haltRun, completionRun, finalTurn, slipped>>
   BY <2>2 DEF Goals!StartGoal, Goals!flags
 <2>5. \/ Written(Goals!NewGoal(m)) /\ command' = [command EXCEPT !.at = "follow up"]
       \/ Refused(persisted) /\ command' = Goals!NoCommand
   BY <1>0, <2>2, StartIs
 <2>6. CASE Written(Goals!NewGoal(m)) /\ command' = [command EXCEPT !.at = "follow up"]
  <3>1. command' \in CommandT /\ command'.at = "follow up" /\ command'.op = "start"
    BY <1>0, <2>6 DEF CommandT
  <3>2. goal' = persisted' BY <2>6 DEF Written
  <3>. QED BY <1>0, <2>3, <2>4, <3>1, <3>2
       DEF GoalInv, ControlInv, ControlTypes, Commands, Halting, Working, Sending
 <2>7. CASE Refused(persisted) /\ command' = Goals!NoCommand
  <3>1. goal' = persisted /\ persisted' = persisted /\ (failed => failed') /\ (failed' => failed)
    BY <2>7 DEF Refused
  <3>. QED BY <1>0, <1>1, <2>3, <2>4, <2>7, <3>1
       DEF GoalInv, ControlInv, ControlTypes, Commands, Halting, Working, Sending
 <2>. QED BY <2>5, <2>6, <2>7
<1>. QED BY <1>2, <1>3

\* A step that records a change of the goal: what memory is after it.
LEMMA Recording ==
  ASSUME GoalParameters, GoalInv, goal.id # 0, NEW new, Sound(new), new.id = goal.id, ~slipped => Ceiling(new),
         Goals!Persist(new, Goals!Keep), UNCHANGED <<sessionID, host, hook, requests, home, slipped>>
  PROVE  /\ DataInv' /\ goal' = persisted' /\ failed' \in BOOLEAN
         /\ \/ goal' = new /\ ~failed'
            \/ persisted' = persisted /\ failed' = failed
<1>1. Written(new) \/ Refused(persisted) BY Facts, PersistIs
<1>2. DataInv' BY <1>1, Facts, RecordKeeps
<1>. QED BY <1>1, <1>2, Facts DEF Written, Refused

LEMMA Pausing ==
  ASSUME GoalParameters, GoalInv, goal.id # 0, NEW new, Sound(new), new.id = goal.id, ~slipped => Ceiling(new),
         Goals!Persist(new, Goals!Paused), UNCHANGED <<sessionID, host, hook, requests, home, slipped>>
  PROVE  /\ DataInv' /\ failed' \in BOOLEAN
         /\ \/ goal' = new /\ persisted' = new /\ ~failed'
            \/ /\ persisted' = persisted /\ goal' = Goals!Paused(persisted) /\ goal'.status = "paused" /\ (failed => failed')
               /\ goal' # persisted => failed'
               /\ persisted.status = "active" => failed'
<1>1. Written(new) \/ Refused(Goals!Paused(persisted)) BY Facts, PausingIs
<1>2. DataInv' BY <1>1, Facts, RecordKeeps
<1>. QED BY <1>1, <1>2, Facts, PersistedPauseIs DEF Written, Refused

LEMMA CommandResumesKeeps ==
  ASSUME GoalParameters, GoalInv, Goals!CommandResumes
  PROVE  GoalInv'
<1>0. /\ DataInv /\ ControlTypes /\ Commands /\ Halting /\ Working /\ run.at = "idle"
      /\ run \in RunT /\ command \in CommandT /\ command.at = "act" /\ command.op = "resume"
      /\ UNCHANGED <<host, hook, wake, run, requests, home, slipped>>
  BY Facts DEF Goals!CommandResumes, Commands, Goals!ghosts
<1>1. Goals!NoCommand \in CommandT /\ Goals!NoCommand.at = "none" /\ Goals!NoCommand.op = "none"
  BY DEF Goals!NoCommand, CommandT
<1>2. CASE goal.status # "paused" \/ Goals!Exhausted(goal)
 <2>1. /\ command' = Goals!NoCommand
       /\ UNCHANGED <<stored, goal, persisted, sessionID, failed, haltRun, completionRun, finalTurn>>
   BY <1>2 DEF Goals!CommandResumes, Goals!fields
 <2>2. DataInv' BY <1>0, <2>1, SameData
 <2>. QED BY <1>0, <1>1, <2>1, <2>2
      DEF GoalInv, ControlInv, ControlTypes, Commands, Halting, Working, Sending
<1>3. CASE goal.status = "paused" /\ ~Goals!Exhausted(goal)
 <2>1. PICK new : new = [goal EXCEPT !.status = "active", !.idle = 0] OBVIOUS
 <2>2. /\ haltRun' = FALSE /\ Goals!Persist(new, Goals!Keep) /\ UNCHANGED <<sessionID, completionRun, finalTurn>>
       /\ command' = IF goal'.status = "active" THEN [command EXCEPT !.at = "follow up"] ELSE Goals!NoCommand
   BY <1>3, <2>1 DEF Goals!CommandResumes
 <2>3. /\ new \in GoalT /\ new.id = goal.id /\ new.status = "active" /\ new.turns = goal.turns /\ new.max = goal.max
       /\ new.steps = goal.steps /\ goal.id # 0 /\ goal.max \in Nat /\ goal.steps \in Nat
  <3>1. goal \in GoalT /\ goal.id # 0 BY <1>3, Facts
  <3>2. goal.max \in Nat /\ goal.steps \in Nat BY <3>1, GoalNumbers
  <3>3. new \in GoalT BY <2>1, <3>1 DEF GoalT, Goals!Statuses
  <3>. QED BY <2>1, <3>1, <3>2, <3>3 DEF GoalT
 <2>4. ~slipped /\ goal.max > 0 => goal.steps < goal.max BY <1>3, <2>3 DEF Goals!Exhausted
 <2>5. Sound(new) /\ (~slipped => Ceiling(new)) BY <2>3, <2>4, StillWithin
 <2>6. /\ DataInv' /\ goal' = persisted' /\ failed' \in BOOLEAN
       /\ \/ goal' = new /\ ~failed'
          \/ persisted' = persisted /\ failed' = failed
   BY <1>0, <2>2, <2>3, <2>5, Recording
 <2>7. command' \in CommandT /\ command'.op \in {"resume", "none"} /\ (command'.at = "follow up" \/ goal'.status # "active")
       /\ (command'.at = "follow up" => command'.op = "resume") /\ command'.at # "pause"
  <3>1. CASE goal'.status = "active"
   <4>1. command' = [command EXCEPT !.at = "follow up"] BY <2>2, <3>1
   <4>. QED BY <1>0, <4>1 DEF CommandT
  <3>2. CASE goal'.status # "active" BY <1>1, <2>2, <3>2
  <3>. QED BY <3>1, <3>2
 <2>. QED BY <1>0, <2>2, <2>6, <2>7
      DEF GoalInv, ControlInv, ControlTypes, Commands, Halting, Working, Sending
<1>. QED BY <1>2, <1>3

LEMMA CommandClearsKeeps ==
  ASSUME GoalParameters, GoalInv, Goals!CommandClears, run.at # "refreshed"
  PROVE  GoalInv'
<1>0. /\ DataInv /\ ControlTypes /\ Commands /\ Halting /\ Working
      /\ run \in RunT /\ command \in CommandT /\ command.at = "act" /\ ~Sending
      /\ UNCHANGED <<host, hook, wake, requests, home, slipped>> /\ command' = Goals!NoCommand
  BY Facts DEF Goals!CommandClears, Goals!ghosts, Sending
<1>1. command' \in CommandT /\ command'.at = "none" /\ command'.op = "none" /\ ~Sending'
  BY <1>0 DEF Goals!NoCommand, CommandT, Sending
<1>2. CASE goal.status \in {"none", "cleared"}
 <2>1. UNCHANGED <<stored, goal, persisted, sessionID, failed, haltRun, completionRun, finalTurn, run>>
   BY <1>2 DEF Goals!CommandClears, Goals!fields
 <2>2. DataInv' BY <1>0, <2>1, SameData
 <2>. QED
   BY <1>0, <1>1, <2>1, <2>2 DEF GoalInv, ControlInv, ControlTypes, Commands, Halting, Working
<1>3. CASE goal.status \notin {"none", "cleared"}
 <2>1. PICK new : new = [goal EXCEPT !.status = "cleared"] OBVIOUS
 <2>2. /\ haltRun' = (haltRun \/ goal.status = "active") /\ Goals!Persist(new, Goals!Keep)
       /\ UNCHANGED <<sessionID, completionRun, finalTurn>>
       /\ run' = IF goal.status = "active" /\ run.at # "idle" THEN [run EXCEPT !.halted = "cleared", !.after = 0] ELSE run
   BY <1>3, <2>1 DEF Goals!CommandClears
 <2>3. /\ new \in GoalT /\ new.id = goal.id /\ new.status = "cleared" /\ new.turns = goal.turns /\ new.max = goal.max
       /\ new.steps = goal.steps /\ goal.id # 0 /\ goal.max \in Nat
   BY <1>3, <2>1, Facts DEF GoalT, Goals!Statuses, GoalParameters
 <2>4. Sound(new) /\ (~slipped => Ceiling(new)) BY <2>3, StillWithin DEF Ceiling, Within
 <2>5. /\ DataInv' /\ goal' = persisted' /\ failed' \in BOOLEAN
       /\ \/ goal' = new /\ ~failed'
          \/ persisted' = persisted /\ failed' = failed
   BY <1>0, <2>2, <2>3, <2>4, Recording
 <2>6. PICK b \in BOOLEAN : b <=> goal.status = "active" OBVIOUS
 <2>7. haltRun' \in BOOLEAN /\ (haltRun => haltRun') /\ (haltRun' => haltRun \/ b) /\ (b => haltRun')
   BY <1>0, <2>2, <2>6 DEF ControlTypes
 <2>8. /\ run' \in RunT /\ run'.at = run.at /\ run'.stop = run.stop
       /\ \/ run' = run
          \/ run'.halted = "cleared" /\ run'.after = 0 /\ b /\ run.at # "idle"
   BY <1>0, <2>2, <2>6, RunIs
 <2>9. Working' BY <1>0, <1>1, <2>3, <2>5, <2>7, <2>8 DEF Working
 <2>10. Halting' BY <1>0, <2>2, <2>7, <2>8 DEF Halting
 <2>. QED BY <1>0, <1>1, <2>2, <2>5, <2>7, <2>8, <2>9, <2>10
      DEF GoalInv, ControlInv, ControlTypes, Commands
<1>. QED BY <1>2, <1>3

LEMMA CommandPausesKeeps ==
  ASSUME GoalParameters, GoalInv, Goals!CommandPauses
  PROVE  GoalInv'
<1>0. /\ DataInv /\ ControlTypes /\ Commands /\ Halting /\ Working /\ run.at = "idle"
      /\ run \in RunT /\ command \in CommandT /\ command.at = "pause"
      /\ UNCHANGED <<host, hook, wake, run, requests, home, slipped>> /\ command' = Goals!NoCommand
  BY Facts DEF Goals!CommandPauses, Goals!ghosts, Sending, Commands
<1>1. command' \in CommandT /\ command'.at = "none" /\ command'.op = "none" /\ ~Sending'
  BY <1>0 DEF Goals!NoCommand, CommandT, Sending
<1>2. CASE goal.status # "active"
 <2>1. UNCHANGED <<stored, goal, persisted, sessionID, failed, haltRun, completionRun, finalTurn>>
   BY <1>2 DEF Goals!CommandPauses, Goals!fields
 <2>2. DataInv' BY <1>0, <2>1, SameData
 <2>3. ~slipped /\ ~failed => persisted.status # "active" BY <1>2, Facts
 <2>. QED BY <1>0, <1>1, <2>1, <2>2, <2>3
      DEF GoalInv, ControlInv, ControlTypes, Commands, Halting, Working
<1>3. CASE goal.status = "active"
 <2>1. goal.id # 0 /\ haltRun' = TRUE /\ Goals!Persist(Goals!Paused(goal), Goals!Keep) /\ UNCHANGED <<sessionID, completionRun, finalTurn>>
   BY <1>3, Facts DEF Goals!CommandPauses
 <2>2. DataInv' /\ goal' = persisted' BY <1>0, <2>1, PauseIs, Recording
 <2>. QED
   BY <1>0, <1>1, <2>1, <2>2 DEF GoalInv, ControlInv, ControlTypes, Commands, Halting, Working
<1>. QED BY <1>2, <1>3

LEMMA BeforeAgentKeeps ==
  ASSUME GoalParameters, GoalInv, Goals!BeforeAgent
  PROVE  GoalInv'
<1>0. /\ DataInv /\ ControlTypes /\ Commands /\ Halting /\ Working /\ run.at = "before"
      /\ run \in RunT /\ command \in CommandT
      /\ UNCHANGED <<host, hook, command, wake>>
  BY Facts DEF Goals!BeforeAgent
<1>1. CASE haltRun
 <2>1. /\ haltRun' = FALSE /\ run' = Goals!Ending("goal_paused")
       /\ UNCHANGED <<stored, goal, persisted, sessionID, completionRun, finalTurn, failed, requests, home, slipped>>
   BY <1>1 DEF Goals!BeforeAgent, Goals!ghosts
 <2>2. run' \in RunT /\ run'.at = "ending" /\ run'.stop = "goal_paused" /\ run'.halted = run.halted /\ run'.after = run.after
   BY <2>1, RunIs DEF Stops
 <2>3. DataInv' BY <1>0, <2>1, SameData
 <2>. QED BY <1>0, <2>1, <2>2, <2>3
      DEF GoalInv, ControlInv, ControlTypes, Commands, Halting, Working, Sending
<1>2. CASE ~haltRun /\ failed
 <2>1. /\ run' = Goals!Ending("goal_state_error")
       /\ UNCHANGED <<stored, goal, persisted, sessionID, haltRun, completionRun, finalTurn, failed, requests, home, slipped>>
   BY <1>2 DEF Goals!BeforeAgent, Goals!ghosts, Goals!fields
 <2>2. run' \in RunT /\ run'.at = "ending" /\ run'.stop = "goal_state_error" /\ run'.halted = run.halted /\ run'.after = run.after
   BY <2>1, RunIs DEF Stops
 <2>3. DataInv' BY <1>0, <2>1, SameData
 <2>. QED BY <1>0, <2>1, <2>2, <2>3
      DEF GoalInv, ControlInv, ControlTypes, Commands, Halting, Working, Sending
<1>3. CASE ~haltRun /\ ~failed
 <2>1. /\ Goals!Refresh /\ run' = IF Goals!RefreshFailed THEN Goals!Ending("error") ELSE [run EXCEPT !.at = "refreshed"]
       /\ UNCHANGED <<haltRun, completionRun, finalTurn, requests, home, slipped>>
   BY <1>3 DEF Goals!BeforeAgent, Goals!ghosts, Goals!flags
 <2>2. persisted' = goal' BY <2>1, Facts, RefreshIs
 <2>3. DataInv' BY <1>0, <2>1, Facts, RefreshKeeps
 <2>4. /\ run' \in RunT /\ run'.halted = run.halted /\ run'.after = run.after
       /\ (run'.at = "ending" /\ run'.stop = "error") \/ run'.at = "refreshed"
   BY <2>1, RunIs DEF Stops
 <2>5. run.halted \in {"none", "cleared", "denied", "completed"} BY <1>0 DEF RunT
 <2>6. Halting' BY <1>0, <1>3, <2>1, <2>4, <2>5 DEF Halting
 <2>. QED BY <1>0, <1>3, <2>1, <2>2, <2>3, <2>4, <2>6
      DEF GoalInv, ControlInv, ControlTypes, Commands, Working, Sending
<1>. QED BY <1>1, <1>2, <1>3

LEMMA BeforeAgentRefreshedKeeps ==
  ASSUME GoalParameters, GoalInv, Goals!BeforeAgentRefreshed
  PROVE  GoalInv'
<1>0. /\ DataInv /\ ControlTypes /\ Commands /\ Halting /\ Working /\ run.at = "refreshed"
      /\ run \in RunT /\ command \in CommandT /\ run.after \in Nat
      /\ UNCHANGED <<host, hook, command, wake>>
  BY Facts DEF Goals!BeforeAgentRefreshed, RunT
<1>1. ~slipped => goal = persisted BY <1>0 DEF Working
<1>2. /\ Goals!Requesting \in RunT /\ Goals!Requesting.at = "turn" /\ Goals!Requesting.halted = run.halted
      /\ Goals!Requesting.after = IF run.halted = "none" THEN 0 ELSE run.after + 1
  BY RunIs
<1>3. /\ ~slipped => run.halted \in {"none", "completed"} /\ (run.halted = "none" => run.after = 0)
      /\ ~slipped /\ run.halted = "completed" => completionRun /\ (finalTurn => run.after = 0)
  BY <1>0 DEF Halting
<1>4. CASE /\ completionRun /\ finalTurn /\ finalTurn' = FALSE /\ run' = Goals!Requesting
           /\ UNCHANGED <<stored, goal, persisted, sessionID, haltRun, completionRun, failed, used, Goals!ghosts>>
 <2>1. UNCHANGED <<requests, home, slipped>> BY <1>4 DEF Goals!ghosts
 <2>2. DataInv' BY <1>0, <1>4, <2>1, SameData
 <2>3. Halting' BY <1>0, <1>2, <1>3, <1>4, <2>1 DEF Halting
 <2>4. Working' BY <1>0, <1>1, <1>2, <1>4, <2>1 DEF Working
 <2>. QED BY <1>0, <1>2, <1>4, <2>1, <2>2, <2>3, <2>4
      DEF GoalInv, ControlInv, ControlTypes, Commands, Sending
<1>5. CASE completionRun /\ ~finalTurn /\ run' = Goals!Ending("goal_completed") /\ UNCHANGED <<stored, Goals!fields, used, Goals!ghosts>>
 <2>1. UNCHANGED <<stored, goal, persisted, sessionID, failed, haltRun, completionRun, finalTurn, requests, home, slipped>>
   BY <1>5 DEF Goals!ghosts, Goals!fields
 <2>2. run' \in RunT /\ run'.at = "ending" /\ run'.stop = "goal_completed" /\ run'.halted = run.halted /\ run'.after = run.after
   BY <1>5, RunIs DEF Stops
 <2>3. DataInv' BY <1>0, <2>1, SameData
 <2>. QED BY <1>0, <1>1, <2>1, <2>2, <2>3
      DEF GoalInv, ControlInv, ControlTypes, Commands, Halting, Working, Sending
<1>6. CASE ~completionRun /\ goal.status # "active" /\ run' = Goals!Requesting /\ UNCHANGED <<stored, Goals!fields, used, Goals!ghosts>>
 <2>1. UNCHANGED <<stored, goal, persisted, sessionID, failed, haltRun, completionRun, finalTurn, requests, home, slipped>>
   BY <1>6 DEF Goals!ghosts, Goals!fields
 <2>2. DataInv' BY <1>0, <2>1, SameData
 <2>3. Halting' BY <1>0, <1>2, <1>3, <1>6, <2>1 DEF Halting
 <2>4. Working' BY <1>0, <1>1, <1>2, <1>6, <2>1 DEF Working
 <2>. QED BY <1>0, <1>2, <1>6, <2>1, <2>2, <2>3, <2>4
      DEF GoalInv, ControlInv, ControlTypes, Commands, Sending
<1>7. CASE /\ ~completionRun /\ goal.status = "active" /\ Goals!Persist(Goals!Paused(goal), Goals!Paused)
           /\ run' = Goals!Ending("goal_turn_limit") /\ UNCHANGED <<sessionID, Goals!flags, Goals!ghosts>>
 <2>1. UNCHANGED <<sessionID, haltRun, completionRun, finalTurn, requests, home, slipped>> /\ goal.id # 0
   BY <1>7, Facts DEF Goals!ghosts, Goals!flags
 <2>2. DataInv' BY <1>0, <1>7, <2>1, PauseIs, Pausing
 <2>3. run' \in RunT /\ run'.at = "ending" /\ run'.stop = "goal_turn_limit" /\ run'.halted = run.halted /\ run'.after = run.after
   BY <1>7, RunIs DEF Stops
 <2>. QED BY <1>0, <2>1, <2>2, <2>3
      DEF GoalInv, ControlInv, ControlTypes, Commands, Halting, Working, Sending
<1>8. CASE /\ ~completionRun /\ goal.status = "active"
           /\ goal.max > 0 => goal.turns < goal.max * TurnsPerStep
           /\ Goals!BeforeGoalTurn
 <2>1. goal.id # 0 BY <1>8, Facts
 <2>2. DataInv' BY <1>0, <1>8, TurnKeeps
 <2>3. PICK new, more :
         /\ UNCHANGED <<sessionID, Goals!flags, home, slipped>>
         /\ \/ Written(new) /\ run' = Goals!Requesting /\ requests' = more
            \/ Refused(persisted) /\ run' = Goals!Ending("error") /\ requests' = requests
            \/ slipped /\ Refused(persisted) /\ run' = Goals!Requesting /\ requests' = more
   BY <1>0, <1>8, <2>1, TurnIs
 <2>4. UNCHANGED <<haltRun, completionRun, finalTurn, slipped>> /\ goal' = persisted'
   BY <2>3 DEF Goals!flags, Written, Refused
 <2>5. CASE run' = Goals!Requesting
  <3>1. Halting' BY <1>0, <1>2, <1>3, <1>8, <2>4, <2>5 DEF Halting
  <3>. QED BY <1>0, <1>2, <2>2, <2>4, <2>5, <3>1
       DEF GoalInv, ControlInv, ControlTypes, Commands, Working, Sending
 <2>6. CASE run' = Goals!Ending("error")
  <3>1. run' \in RunT /\ run'.at = "ending" /\ run'.stop = "error" /\ run'.halted = run.halted /\ run'.after = run.after
    BY <2>6, RunIs DEF Stops
  <3>. QED BY <1>0, <2>2, <2>4, <3>1
       DEF GoalInv, ControlInv, ControlTypes, Commands, Halting, Working, Sending
 <2>. QED BY <2>3, <2>5, <2>6
<1>. QED BY <1>4, <1>5, <1>6, <1>7, <1>8 DEF Goals!BeforeAgentRefreshed

LEMMA StartToolKeeps ==
  ASSUME GoalParameters, GoalInv, Goals!StartTool
  PROVE  GoalInv'
<1>0. /\ DataInv /\ ControlTypes /\ Commands /\ Halting /\ Working /\ run.at = "turn"
      /\ run \in RunT /\ command \in CommandT /\ UNCHANGED <<sessionID, host, hook, wake, run>>
  BY Facts DEF Goals!StartTool
<1>1. PICK m \in Limits : Goals!StartGoal(m, FALSE) BY DEF Goals!StartTool
<1>2. DataInv' BY <1>0, <1>1, StartKeeps
<1>3. UNCHANGED <<haltRun, completionRun, finalTurn, slipped>>
  BY <1>1 DEF Goals!StartGoal, Goals!flags
<1>4. command' = command /\ (Written(Goals!NewGoal(m)) \/ Refused(persisted)) BY <1>0, <1>1, StartIs
<1>5. goal' = persisted' BY <1>4 DEF Written, Refused
<1>. QED BY <1>0, <1>2, <1>3, <1>4, <1>5
     DEF GoalInv, ControlInv, ControlTypes, Commands, Halting, Working, Sending

LEMMA ProgressToolKeeps ==
  ASSUME GoalParameters, GoalInv, Goals!ProgressTool
  PROVE  GoalInv'
<1>0. /\ DataInv /\ ControlTypes /\ Commands /\ Halting /\ Working /\ run.at = "turn"
      /\ UNCHANGED <<sessionID, haltRun, completionRun, finalTurn, host, hook, command, wake, run, requests, home, slipped>>
  BY Facts DEF Goals!ProgressTool, Goals!flags, Goals!ghosts
<1>1. PICK new : new = [goal EXCEPT !.news = TRUE, !.progress = TRUE] OBVIOUS
<1>2. Goals!Persist(new, Goals!Keep) /\ goal.id # 0 /\ goal.status = "active"
  BY <1>1, Facts DEF Goals!ProgressTool
<1>3. /\ new \in GoalT /\ new.id = goal.id /\ new.status = goal.status /\ new.turns = goal.turns /\ new.max = goal.max
      /\ new.steps = goal.steps /\ goal.max \in Nat
  BY <1>1, Facts, GoalNumbers DEF GoalT
<1>4. Sound(new) /\ (~slipped => Ceiling(new)) BY <1>2, <1>3, StillWithin DEF Ceiling, Within
<1>5. DataInv' /\ goal' = persisted' BY <1>0, <1>2, <1>3, <1>4, Recording
<1>. QED BY <1>0, <1>5 DEF GoalInv, ControlInv, ControlTypes, Commands, Halting, Working, Sending

LEMMA CompleteToolKeeps ==
  ASSUME GoalParameters, GoalInv, Goals!CompleteTool
  PROVE  GoalInv'
<1>0. /\ DataInv /\ ControlTypes /\ Commands /\ Halting /\ Working /\ run.at = "turn" /\ run \in RunT
      /\ UNCHANGED <<sessionID, haltRun, host, hook, command, wake, requests, home, slipped>>
  BY Facts DEF Goals!CompleteTool, Goals!ghosts
<1>1. PICK new : new = [goal EXCEPT !.status = "completed"] OBVIOUS
<1>2. /\ Goals!Persist(new, Goals!Keep) /\ goal.id # 0 /\ goal.status = "active"
      /\ IF goal'.status = "completed"
         THEN /\ completionRun' = TRUE /\ finalTurn' = TRUE
              /\ run' = [run EXCEPT !.halted = "completed", !.after = 0]
         ELSE UNCHANGED <<completionRun, finalTurn, run>>
  BY <1>1, Facts DEF Goals!CompleteTool
<1>3. /\ new \in GoalT /\ new.id = goal.id /\ new.status = "completed" /\ new.turns = goal.turns /\ new.max = goal.max
      /\ new.steps = goal.steps /\ goal.max \in Nat
  BY <1>1, Facts, GoalNumbers DEF GoalT, Goals!Statuses
<1>4. Sound(new) /\ (~slipped => Ceiling(new)) BY <1>2, <1>3, StillWithin DEF Ceiling, Within
<1>5. DataInv' /\ goal' = persisted' BY <1>0, <1>2, <1>3, <1>4, Recording
<1>6. CASE goal'.status = "completed"
 <2>1. run' \in RunT /\ run'.at = "turn" /\ run'.halted = "completed" /\ run'.after = 0
   BY <1>0, <1>2, <1>6, RunIs
 <2>2. /\ completionRun' = TRUE /\ finalTurn' = TRUE /\ command.op \notin {"start", "resume"}
       /\ UNCHANGED <<haltRun, command, wake, slipped>>
   BY <1>0, <1>2, <1>6 DEF Commands
 <2>3. ControlTypes' BY <1>0, <2>1, <2>2 DEF ControlTypes
 <2>4. Commands' BY <1>0, <2>2 DEF Commands, Sending
 <2>5. Halting' BY <2>1, <2>2 DEF Halting
 <2>6. Working' BY <1>5, <2>1 DEF Working
 <2>. QED BY <1>5, <2>3, <2>4, <2>5, <2>6 DEF GoalInv, ControlInv
<1>7. CASE goal'.status # "completed"
  BY <1>0, <1>2, <1>5, <1>7
     DEF GoalInv, ControlInv, ControlTypes, Commands, Halting, Working, Sending
<1>. QED BY <1>6, <1>7

LEMMA ToolDeniedKeeps ==
  ASSUME GoalParameters, GoalInv, Goals!ToolDenied
  PROVE  GoalInv'
<1>0. /\ DataInv /\ ControlTypes /\ Commands /\ Halting /\ Working /\ run.at = "turn" /\ run \in RunT
      /\ haltRun' = TRUE /\ completionRun' = FALSE /\ finalTurn' = FALSE
      /\ UNCHANGED <<sessionID, host, hook, command, wake, requests, home, slipped>>
  BY Facts DEF Goals!ToolDenied, Goals!ghosts
<1>1. Goals!Persist(Goals!Paused(goal), Goals!Paused) /\ run' = [run EXCEPT !.halted = "denied", !.after = 0] /\ goal.id # 0
  BY Facts DEF Goals!ToolDenied
<1>2. DataInv' BY <1>0, <1>1, PauseIs, Pausing
<1>3. run' \in RunT /\ run'.at = "turn" /\ run'.halted = "denied" /\ run'.after = 0
  BY <1>0, <1>1, RunIs
<1>. QED
  BY <1>0, <1>2, <1>3 DEF GoalInv, ControlInv, ControlTypes, Commands, Halting, Working, Sending

LEMMA TurnKeepsRun ==
  ASSUME GoalParameters, GoalInv, Goals!TurnEnds \/ Goals!TurnStops
  PROVE  GoalInv'
<1>0. /\ DataInv /\ ControlTypes /\ Commands /\ Halting /\ Working /\ run.at = "turn" /\ run \in RunT
      /\ UNCHANGED <<stored, goal, persisted, sessionID, failed, host, hook, requests, home, slipped>>
      /\ UNCHANGED <<haltRun, completionRun, finalTurn, command, wake>>
  BY Facts DEF Goals!TurnEnds, Goals!TurnStops, Goals!ghosts, Goals!fields
<1>1. /\ run' \in RunT /\ run'.halted = run.halted /\ run'.after = run.after
      /\ \/ run'.at = "before"
         \/ run'.at = "agent_end" /\ run.halted # "denied"
         \/ run'.at = "ending" /\ run'.stop \in {"canceled", "error"}
 <2>1. CASE run' = [run EXCEPT !.at = "before"] BY <2>1, RunIs
 <2>2. CASE run' = [run EXCEPT !.at = "agent_end"] /\ run.halted # "denied" BY <2>2, RunIs
 <2>3. ASSUME NEW stop \in {"canceled", "error"}, run' = Goals!Ending(stop)
       PROVE  run' \in RunT /\ run'.halted = run.halted /\ run'.after = run.after /\ run'.at = "ending" /\ run'.stop = stop
   BY <2>3, RunIs DEF Stops
 <2>. QED BY <2>1, <2>2, <2>3 DEF Goals!TurnEnds, Goals!TurnStops
<1>2. DataInv' BY <1>0, SameData
<1>3. Halting' BY <1>0, <1>1 DEF Halting
<1>4. Working' BY <1>0, <1>1 DEF Working
<1>. QED BY <1>0, <1>1, <1>2, <1>3, <1>4 DEF GoalInv, ControlInv, ControlTypes, Commands, Sending

\* A step of the goal that was recorded is the one the agent goes on with.
LEMMA AgentEndKeeps ==
  ASSUME GoalParameters, GoalInv, Goals!AgentEnd
  PROVE  GoalInv'
<1>0. /\ DataInv /\ ControlTypes /\ Commands /\ Halting /\ Working /\ run.at = "agent_end" /\ run \in RunT
      /\ UNCHANGED <<sessionID, haltRun, completionRun, finalTurn, host, hook, command, wake, requests, home, slipped>>
  BY Facts DEF Goals!AgentEnd, Goals!ghosts, Goals!flags, Goals!fields
<1>1. ~slipped => goal = persisted BY <1>0 DEF Working
<1>2. /\ \A stop \in {"error", "end_turn"} :
           /\ Goals!Ending(stop) \in RunT /\ Goals!Ending(stop).at = "ending" /\ Goals!Ending(stop).stop = stop
           /\ Goals!Ending(stop).halted = run.halted /\ Goals!Ending(stop).after = run.after
      /\ [run EXCEPT !.at = "before"] \in RunT /\ [run EXCEPT !.at = "before"].at = "before"
      /\ [run EXCEPT !.at = "before"].halted = run.halted /\ [run EXCEPT !.at = "before"].after = run.after
  BY RunIs DEF Stops
<1>3. CASE goal.status # "active"
 <2>1. /\ run' \in {[run EXCEPT !.at = "before"], Goals!Ending("end_turn")}
       /\ UNCHANGED <<stored, goal, persisted, failed>>
   BY <1>3 DEF Goals!AgentEnd, Goals!fields
 <2>2. DataInv' BY <1>0, <2>1, SameData
 <2>3. /\ run' \in RunT /\ run'.halted = run.halted /\ run'.after = run.after
       /\ run'.at \in {"before", "ending"}
   BY <1>2, <2>1
 <2>. QED BY <1>0, <1>1, <1>3, <2>1, <2>2, <2>3
      DEF GoalInv, ControlInv, ControlTypes, Commands, Halting, Working, Sending
<1>4. CASE goal.status = "active"
 <2>1. PICK new : new = Goals!Stepped(goal) OBVIOUS
 <2>2. /\ Goals!Persist(new, Goals!Keep) /\ goal.id # 0
       /\ run' \in IF ~Goals!Recorded(new) THEN {Goals!Ending("error")}
                   ELSE IF goal'.status = "active" THEN {[run EXCEPT !.at = "before"]}
                   ELSE {[run EXCEPT !.at = "before"], Goals!Ending("end_turn")}
   BY <1>4, <2>1, Facts DEF Goals!AgentEnd
 <2>3. /\ new \in GoalT /\ new.id = goal.id /\ new.status \in {"active", "paused"} /\ new.turns = goal.turns
       /\ new.max = goal.max /\ new.steps = goal.steps + 1 /\ goal.steps \in Nat /\ goal.max \in Nat
       /\ new.status = "active" => goal.max = 0 \/ goal.steps + 1 < goal.max
  <3>1. PICK n \in Nat : n = IF goal.news THEN 0 ELSE goal.idle + 1 BY Facts, GoalNumbers
  <3>2. PICK b \in BOOLEAN : b <=> ((goal.max > 0 /\ goal.steps + 1 >= goal.max) \/ n >= NoProgressLimit)
    OBVIOUS
  <3>3. PICK st \in {"active", "paused"} : st = IF b THEN "paused" ELSE "active" OBVIOUS
  <3>4. new = [goal EXCEPT !.steps = @ + 1, !.news = FALSE, !.idle = n, !.status = st]
    BY <2>1, <3>1, <3>2, <3>3 DEF Goals!Stepped
  <3>5. goal \in GoalT /\ goal.steps \in Nat /\ goal.max \in Nat /\ goal.steps + 1 \in Nat
    BY Facts, GoalNumbers
  <3>6. /\ new \in GoalT /\ new.id = goal.id /\ new.status = st /\ new.turns = goal.turns
        /\ new.max = goal.max /\ new.steps = goal.steps + 1
    BY <3>1, <3>3, <3>4, <3>5 DEF GoalT, Goals!Statuses
  <3>7. st = "active" => goal.max = 0 \/ goal.steps + 1 < goal.max BY <3>2, <3>3, <3>5
  <3>. QED BY <3>5, <3>6, <3>7
 <2>4. ~slipped /\ Ceiling(goal) /\ goal.max > 0 => goal.steps < goal.max
   BY <1>4, <2>2, <2>3 DEF Ceiling, Within
 <2>5. Sound(new) /\ (~slipped => Ceiling(new)) BY <2>2, <2>3, <2>4, StillWithin
 <2>6. /\ DataInv' /\ goal' = persisted' /\ failed' \in BOOLEAN
       /\ \/ goal' = new /\ ~failed'
          \/ persisted' = persisted /\ failed' = failed
   BY <1>0, <2>2, <2>3, <2>5, Recording
 <2>7. /\ run' \in RunT /\ run'.halted = run.halted /\ run'.after = run.after
       /\ \/ run'.at = "before"
          \/ run'.at = "ending" /\ (run'.stop = "error" \/ goal'.status # "active")
   BY <1>2, <2>2
 <2>. QED BY <1>0, <2>6, <2>7
      DEF GoalInv, ControlInv, ControlTypes, Commands, Halting, Working, Sending
<1>. QED BY <1>3, <1>4

LEMMA RunEndKeeps ==
  ASSUME GoalParameters, GoalInv, Goals!RunEnd
  PROVE  GoalInv'
<1>0. /\ DataInv /\ ControlTypes /\ Commands /\ Halting /\ Working /\ run.at = "ending" /\ run \in RunT
      /\ haltRun' = FALSE /\ completionRun' = FALSE /\ finalTurn' = FALSE /\ run' = Goals!NoRun
      /\ UNCHANGED <<sessionID, host, hook, command, wake, requests, home, slipped>>
  BY Facts DEF Goals!RunEnd, Goals!ghosts
<1>1. Goals!NoRun \in RunT /\ Goals!NoRun.at = "idle" /\ Goals!NoRun.halted = "none" /\ Goals!NoRun.after = 0
  BY DEF Goals!NoRun, RunT, Stops
<1>2. DataInv' /\ (~slipped /\ ~failed' => persisted'.status # "active")
 <2>1. CASE goal.status \in {"none", "cleared"}
  <3>1. UNCHANGED <<stored, goal, persisted, failed>> BY <2>1 DEF Goals!RunEnd
  <3>2. goal = persisted BY <2>1, Facts
  <3>. QED BY <1>0, <2>1, <3>1, <3>2, SameData
 <2>2. CASE goal.status \notin {"none", "cleared"}
  <3>1. PICK new : new = IF goal.status = "active" /\ run.stop # "end_turn" THEN Goals!Paused(goal) ELSE goal
    OBVIOUS
  <3>2. Goals!Persist(new, Goals!Paused) /\ goal.id # 0 BY <2>2, <3>1, Facts DEF Goals!RunEnd
  <3>3. Sound(new) /\ (~slipped => Ceiling(new)) /\ new.id = goal.id BY <3>1, <3>2, PauseIs
  <3>4. ~slipped => new.status # "active" BY <1>0, <3>1, <3>2, PauseIs DEF Working
  <3>5. /\ DataInv' /\ failed' \in BOOLEAN
        /\ \/ goal' = new /\ persisted' = new /\ ~failed'
           \/ /\ persisted' = persisted
              /\ persisted.status = "active" => failed'
    BY <1>0, <3>2, <3>3, Pausing
  <3>. QED BY <3>4, <3>5
 <2>. QED BY <2>1, <2>2
<1>. QED
  BY <1>0, <1>1, <1>2 DEF GoalInv, ControlInv, ControlTypes, Commands, Halting, Working, Sending

LEMMA SessionStepKeeps ==
  ASSUME GoalParameters, GoalInv, Goals!HookReads \/ \E s \in Sessions : Goals!SessionChanges(s)
  PROVE  GoalInv'
<1>0. /\ DataInv /\ ControlTypes /\ Commands /\ Halting /\ Working
      /\ UNCHANGED <<goal, persisted, failed, slipped, haltRun, completionRun, finalTurn, command, wake, run>>
  BY Facts DEF Goals!HookReads, Goals!SessionChanges, Goals!fields, Goals!ghosts
<1>1. DataInv' BY <1>0, HookReadsKeeps, SessionKeeps
<1>. QED
  BY ZenonT(40), <1>0, <1>1 DEF GoalInv, ControlInv, ControlTypes, Commands, Halting, Working, Sending

LEMMA HookAppliesStep ==
  ASSUME GoalParameters, GoalInv, Goals!HookApplies
  PROVE  GoalInv'
<1>0. /\ DataInv /\ ControlTypes /\ Commands /\ Halting /\ Working /\ slipped \in BOOLEAN
      /\ UNCHANGED <<command, wake, run>>
  BY Facts, AppliesIs
<1>1. DataInv' BY <1>0, HookAppliesKeeps
<1>a. \/ UNCHANGED <<stored, Goals!fields, slipped>>
      \/ /\ ~haltRun' /\ ~completionRun' /\ ~finalTurn' /\ persisted' = goal'
         /\ slipped' = (slipped \/ hook.loaded # stored[hook.id] \/ goal'.status = "active"
                                  \/ haltRun \/ completionRun)
  BY <1>0, AppliesIs
<1>2. CASE UNCHANGED <<stored, Goals!fields, slipped>>
 <2>1. UNCHANGED <<goal, persisted, failed, slipped, haltRun, completionRun, finalTurn>>
   BY <1>2 DEF Goals!fields
 <2>. QED BY ZenonT(40), <1>0, <1>1, <2>1
      DEF GoalInv, ControlInv, ControlTypes, Commands, Halting, Working, Sending
<1>3. CASE /\ ~haltRun' /\ ~completionRun' /\ ~finalTurn' /\ persisted' = goal'
           /\ slipped' = (slipped \/ hook.loaded # stored[hook.id] \/ goal'.status = "active"
                                    \/ haltRun \/ completionRun)
 <2>1. ~slipped' => ~slipped /\ ~haltRun /\ ~completionRun /\ goal'.status # "active" BY <1>0, <1>3
 <2>2. ControlTypes'
  <3>1. UNCHANGED <<command, wake, run>> /\ haltRun' \in BOOLEAN /\ completionRun' \in BOOLEAN /\ finalTurn' \in BOOLEAN
    BY <1>0, AppliesIs DEF Goals!HookApplies, Goals!fields, ControlTypes
  <3>. QED BY <1>0, <3>1 DEF ControlTypes
 <2>3. Halting' BY <1>0, <1>3, <2>1 DEF Halting
 <2>4. Working' BY <1>0, <1>3, <2>1 DEF Working
 <2>. QED BY <1>0, <1>1, <2>2, <2>3, <2>4 DEF GoalInv, ControlInv, Commands, Sending
<1>. QED BY <1>a, <1>2, <1>3

LEMMA RestartsStep ==
  ASSUME GoalParameters, GoalInv, NEW s \in Sessions, NEW stops \in BOOLEAN, Goals!Restarts(s, stops)
  PROVE  GoalInv'
<1>1. DataInv' /\ goal' = persisted' /\ persisted'.status # "active" BY Facts, RestartKeeps
<1>2. /\ haltRun' = FALSE /\ completionRun' = FALSE /\ finalTurn' = FALSE
      /\ command' = Goals!NoCommand /\ wake' = FALSE /\ run' = Goals!NoRun
  BY DEF Goals!Restarts
<1>3. /\ Goals!NoRun \in RunT /\ Goals!NoRun.at = "idle" /\ Goals!NoRun.halted = "none" /\ Goals!NoRun.after = 0
      /\ Goals!NoCommand \in CommandT /\ Goals!NoCommand.op = "none" /\ Goals!NoCommand.at = "none"
  BY DEF Goals!NoRun, RunT, Stops, Goals!NoCommand, CommandT
<1>. QED
  BY <1>1, <1>2, <1>3 DEF GoalInv, ControlInv, ControlTypes, Commands, Halting, Working, Sending

LEMMA GoalNext == GoalParameters /\ GoalInv /\ [Goals!Next]_(Goals!vars) => GoalInv'
<1> SUFFICES ASSUME GoalParameters, GoalInv, [Goals!Next]_(Goals!vars) PROVE GoalInv'
  OBVIOUS
<1>1. CASE UNCHANGED Goals!vars \/ Goals!Quiet BY <1>1, UserKeeps DEF Goals!Quiet
<1>2. CASE Goals!BeforeAgentRefreshed BY <1>2, BeforeAgentRefreshedKeeps
<1>3. ASSUME NEW op \in {"start", "resume", "clear"}, Goals!UserCommand(op) PROVE GoalInv'
  BY <1>3, UserKeeps
<1>4. ASSUME NEW byWake \in BOOLEAN, Goals!RunStarts(byWake) PROVE GoalInv'
  BY <1>4, UserKeeps
<1>5. CASE Goals!CommandRefreshes BY <1>5, CommandRefreshesKeeps
<1>6. CASE Goals!CommandStarts BY <1>6, CommandStartsKeeps
<1>7. CASE Goals!CommandResumes BY <1>7, CommandResumesKeeps
<1>8. CASE Goals!CommandClears /\ run.at # "refreshed" BY <1>8, CommandClearsKeeps
<1>9. CASE Goals!CommandFollowsUp BY <1>9, UserKeeps
<1>10. CASE Goals!CommandPauses BY <1>10, CommandPausesKeeps
<1>11. CASE Goals!BeforeAgent BY <1>11, BeforeAgentKeeps
<1>12. CASE Goals!StartTool BY <1>12, StartToolKeeps
<1>13. CASE Goals!ProgressTool BY <1>13, ProgressToolKeeps
<1>14. CASE Goals!CompleteTool BY <1>14, CompleteToolKeeps
<1>15. CASE Goals!ToolDenied BY <1>15, ToolDeniedKeeps
<1>16. CASE Goals!TurnEnds \/ Goals!TurnStops BY <1>16, TurnKeepsRun
<1>17. CASE Goals!AgentEnd BY <1>17, AgentEndKeeps
<1>18. CASE Goals!RunEnd BY <1>18, RunEndKeeps
<1>19. ASSUME NEW s \in Sessions, Goals!SessionChanges(s) PROVE GoalInv'
  BY <1>19, SessionStepKeeps
<1>20. ASSUME NEW s \in Sessions, NEW stops \in BOOLEAN, Goals!Restarts(s, stops) PROVE GoalInv'
  BY <1>20, RestartsStep
<1>21. CASE Goals!HookReads BY <1>21, SessionStepKeeps
<1>22. CASE Goals!HookApplies BY <1>22, HookAppliesStep
<1>. QED BY <1>1, <1>2, <1>3, <1>4, <1>5, <1>6, <1>7, <1>8, <1>9, <1>10, <1>11, <1>12, <1>13, <1>14,
<1>15, <1>16,
<1>17, <1>18, <1>19, <1>20, <1>21, <1>22 DEF Goals!Next

LEMMA GoalImplies == GoalParameters /\ GoalInv => Goals!GoalSafe /\ Goals!ActiveIsWorkedOn
<1> SUFFICES ASSUME GoalParameters, GoalInv PROVE Goals!GoalSafe /\ Goals!ActiveIsWorkedOn
  OBVIOUS
<1>0. DataTypes /\ Homes /\ Agreed /\ ControlTypes /\ Halting /\ Working
  BY DEF GoalInv, DataInv, ControlInv
<1>1. Goals!TypeOK
 <2>1. \A g : Sound(g) => g.status \in Goals!Statuses /\ g.id \in 0..MaxGoals BY DEF Sound, GoalT
 <2>2. hook.at \in {"none", "event", "read"} /\ run.at \in {"idle", "before", "refreshed", "turn", "agent_end", "ending"}
   BY <1>0 DEF DataTypes, ControlTypes, HookT, RunT
 <2>. QED BY <1>0, <2>1, <2>2 DEF Goals!TypeOK, DataTypes, ControlTypes
<1>2. Goals!GoalStaysHome BY <1>0 DEF Goals!GoalStaysHome, Homes, IsOf
<1>3. ~slipped => Goals!MemoryIsRecorded BY <1>0, Facts DEF Goals!MemoryIsRecorded, Agreed
<1>4. ~slipped => Goals!CeilingsHold
 <2> SUFFICES ASSUME ~slipped, NEW s \in Sessions, stored[s].id # 0
              PROVE  LET g == stored[s] IN
                       /\ requests[g.id] <= g.turns
                       /\ g.max > 0 => /\ g.steps <= g.max
                                       /\ requests[g.id] <= g.max * TurnsPerStep
                       /\ g.status = "active" => g.max = 0 \/ g.steps < g.max
   BY DEF Goals!CeilingsHold
 <2>1. Within(stored[s]) BY <1>0 DEF Agreed, Ceiling
 <2>. QED BY <2>1 DEF Within
<1>5. ~slipped => Goals!HaltsInTime
 <2>1. run.after \in Nat BY <1>0 DEF ControlTypes, RunT
 <2>. QED BY <1>0, <2>1 DEF Goals!HaltsInTime, Halting
<1>6. Goals!ActiveIsWorkedOn
 <2> SUFFICES ASSUME ~slipped, run.at = "idle", ~wake, command = Goals!NoCommand, sessionID = host, ~failed, ~haltRun
              PROVE  stored[host].status # "active"
   BY DEF Goals!ActiveIsWorkedOn
 <2>1. ~Sending BY DEF Goals!NoCommand, Sending
 <2>. QED BY <1>0, <2>1 DEF Working, Agreed
<1>. QED BY <1>1, <1>2, <1>3, <1>4, <1>5, <1>6 DEF Goals!GoalSafe

\* Over every order of commands, hooks, late session events, failing appends and deaths, a goal keeps its limits and
\* its session, a run that was told to stop makes no further request, and no goal stays active with nobody at work.
THEOREM GoalsAreSafe ==
  ASSUME GoalParameters
  PROVE  Goals!Spec => [](Goals!GoalSafe /\ Goals!ActiveIsWorkedOn)
<1>1. Goals!Init => GoalInv BY GoalInit
<1>2. GoalInv /\ [Goals!Next]_(Goals!vars) => GoalInv' BY GoalNext
<1>3. GoalInv => Goals!GoalSafe /\ Goals!ActiveIsWorkedOn BY GoalImplies
<1>. QED BY <1>1, <1>2, <1>3, PTL DEF Goals!Spec

----------------------------------------
(* The monitors of monitor.go: the inductive invariant.                    *)

MonitorParameters == "no" \notin Mon

RecordT == [status : {"none", "running", "triggered", "completed", "failed", "cancelled"},
            completed : BOOLEAN, triggered : BOOLEAN]
Hook == [event : {"monitor_start", "monitor_end"}, of : Mon]

MonitorTypes ==
  /\ record \in [Mon -> RecordT] /\ listed \subseteq Mon
  /\ process \in [Mon -> {"none", "running", "killed", "failed", "succeeded"}]
  /\ open \in [Mon -> BOOLEAN]
  /\ starter \in [Mon -> {"idle", "spawned", "registered", "announced", "over"}]
  /\ watch \in [Mon -> {"no", "loop", "wake", "matched", "drained", "last wake", "over"}]
  /\ stopper \in [Mon -> {"idle", "marked", "over"}]
  /\ flight \subseteq Hook
  /\ reported \in [Mon -> [monitor_start : Nat, monitor_end : Nat]]
  /\ wakes \in [Mon -> {0, 1}]

MonitorBegun(m) == [event |-> "monitor_start", of |-> m]
Ended(m) == [event |-> "monitor_end", of |-> m]

\* Nobody has told of the end of m yet.
EndUntold(m) == reported[m].monitor_end = 0 /\ Ended(m) \notin flight

\* A monitor exists once it is listed, and its process before that.
Started(m) ==
  /\ starter[m] # "idle" => process[m] # "none"
  /\ starter[m] \in {"idle", "spawned"} =>
       m \notin listed /\ record[m].status = "none" /\ ~record[m].completed /\ ~record[m].triggered
  /\ starter[m] # "over" => watch[m] = "no"
  /\ starter[m] \notin {"announced", "over"} => reported[m].monitor_start = 0 /\ MonitorBegun(m) \notin flight
  /\ reported[m].monitor_start <= 1 /\ (reported[m].monitor_start = 1 => MonitorBegun(m) \notin flight)

\* Who completes a monitor is the one that tells of its end.
EndedOnce(m) ==
  /\ ~record[m].completed => EndUntold(m) /\ stopper[m] = "idle" /\ m \notin closing
  /\ stopper[m] = "marked" => EndUntold(m) /\ m \notin closing
  /\ m \in closing => EndUntold(m)
  /\ reported[m].monitor_end <= 1 /\ (reported[m].monitor_end = 1 => Ended(m) \notin flight)
  /\ stopper[m] # "idle" => record[m].status = "cancelled"
  /\ stopper[m] = "over" => Mons!Exited(m)

\* The agent is woken by whoever has set triggered.
WokenOnce(m) ==
  /\ wakes[m] = 1 => record[m].triggered /\ watch[m] \in {"drained", "over"}
  /\ watch[m] \in {"wake", "last wake"} => record[m].triggered
  /\ watch[m] \in {"no", "loop", "matched"} => ~record[m].triggered
  /\ watch[m] \in {"last wake", "over"} => record[m].completed
  /\ Mons!Active(m) => m \in listed

MonitorInv == MonitorTypes /\ \A m \in Mon : Started(m) /\ EndedOnce(m) /\ WokenOnce(m)

LEMMA MonitorInit == MonitorParameters /\ Mons!Init => MonitorInv
<1> SUFFICES ASSUME MonitorParameters, Mons!Init PROVE MonitorInv
  OBVIOUS
<1>1. MonitorTypes BY DEF Mons!Init, MonitorTypes, RecordT
<1>2. ASSUME NEW m \in Mon PROVE Started(m) /\ EndedOnce(m) /\ WokenOnce(m)
  BY DEF Mons!Init, MonitorParameters, Started, EndedOnce, WokenOnce, EndUntold,
         Mons!Active
<1>. QED BY <1>1, <1>2 DEF MonitorInv

\* The hooks of event e of monitor n run.
LEMMA HookTold ==
  ASSUME MonitorInv, NEW f \in flight, flight' = flight \ {f}, reported' = [reported EXCEPT ![f.of][f.event] = @ + 1]
  PROVE  /\ flight' \subseteq Hook /\ reported' \in [Mon -> [monitor_start : Nat, monitor_end : Nat]]
         /\ \A m \in Mon :
              /\ \/ f = MonitorBegun(m) /\ reported'[m].monitor_start = reported[m].monitor_start + 1 /\ MonitorBegun(m) \notin flight'
                 \/ f # MonitorBegun(m) /\ reported'[m].monitor_start = reported[m].monitor_start
              /\ \/ f = Ended(m) /\ reported'[m].monitor_end = reported[m].monitor_end + 1 /\ Ended(m) \notin flight'
                 \/ f # Ended(m) /\ reported'[m].monitor_end = reported[m].monitor_end
<1>1. f \in Hook /\ flight \subseteq Hook /\ reported \in [Mon -> [monitor_start : Nat, monitor_end : Nat]]
  BY DEF MonitorInv, MonitorTypes
<1> DEFINE r == reported[f.of]
           new == [r EXCEPT ![f.event] = @ + 1]
<1>2. reported' = [reported EXCEPT ![f.of] = new] OBVIOUS
<1>3. r \in [monitor_start : Nat, monitor_end : Nat] /\ f.of \in Mon BY <1>1 DEF Hook
<1>4. CASE f.event = "monitor_start"
 <2>1. \A m \in Mon : f # Ended(m) /\ (f = MonitorBegun(m) <=> m = f.of)
   BY <1>1, <1>4 DEF Hook, MonitorBegun, Ended
 <2>2. /\ new.monitor_start = r.monitor_start + 1 /\ new.monitor_end = r.monitor_end
       /\ new \in [monitor_start : Nat, monitor_end : Nat]
   BY <1>3, <1>4
 <2> HIDE DEF new
 <2>. QED BY <1>1, <1>2, <1>3, <2>1, <2>2
<1>5. CASE f.event = "monitor_end"
 <2>1. \A m \in Mon : f # MonitorBegun(m) /\ (f = Ended(m) <=> m = f.of)
   BY <1>1, <1>5 DEF Hook, MonitorBegun, Ended
 <2>2. /\ new.monitor_end = r.monitor_end + 1 /\ new.monitor_start = r.monitor_start
       /\ new \in [monitor_start : Nat, monitor_end : Nat]
   BY <1>3, <1>5
 <2> HIDE DEF new
 <2>. QED BY <1>1, <1>2, <1>3, <2>1, <2>2
<1>. QED BY <1>1, <1>4, <1>5 DEF Hook

\* What is cancelled is over, if it was ever begun; nothing else changes.
LEMMA CancelEffect ==
  ASSUME MonitorTypes, NEW ms, Mons!Cancel(ms) \/ UNCHANGED process
  PROVE  /\ process' \in [Mon -> {"none", "running", "killed", "failed", "succeeded"}]
         /\ \A m \in Mon : process[m] # "none" => process'[m] # "none"
         /\ \A m \in Mon : Mons!Exited(m) => Mons!Exited(m)'
         /\ Mons!Cancel(ms) => \A m \in Mon : m \in ms /\ process[m] # "none" => Mons!Exited(m)'
<1>1. process \in [Mon -> {"none", "running", "killed", "failed", "succeeded"}] BY DEF MonitorTypes
<1>2. CASE UNCHANGED process /\ ~Mons!Cancel(ms) BY <1>1, <1>2 DEF Mons!Exited
<1>3. CASE Mons!Cancel(ms)
 <2>1. process' = [m \in Mon |-> IF m \in ms /\ process[m] = "running" THEN "killed" ELSE process[m]]
   BY <1>3 DEF Mons!Cancel
 <2>2. ASSUME NEW m \in Mon
       PROVE  /\ process'[m] \in {"none", "running", "killed", "failed", "succeeded"}
              /\ process[m] # "none" => process'[m] # "none"
              /\ process'[m] = process[m] \/ (process[m] = "running" /\ process'[m] = "killed")
              /\ m \in ms => process'[m] # "running"
   BY <1>1, <2>1
 <2>3. process' \in [Mon -> {"none", "running", "killed", "failed", "succeeded"}] BY <2>1, <2>2
 <2>. QED BY <2>2, <2>3 DEF Mons!Exited
<1>. QED BY <1>2, <1>3

\* What stop_monitor and the shutdown do to records.
LEMMA StoppedEffect ==
  ASSUME MonitorTypes, NEW ms \in SUBSET Mon, Mons!Stopped(ms)
  PROVE  /\ record' \in [Mon -> RecordT] /\ \A m \in Mon : m \notin ms => record'[m] = record[m]
         /\ \A m \in ms : /\ record'[m].status = "cancelled" /\ record'[m].completed
                         /\ record'[m].triggered = record[m].triggered
<1> DEFINE halted(m) == [record[m] EXCEPT !.status = "cancelled", !.completed = TRUE]
<1>1. /\ record' = [m \in Mon |-> IF m \in ms THEN halted(m) ELSE record[m]]
      /\ record \in [Mon -> RecordT]
  BY DEF MonitorTypes, Mons!Stopped
<1>2. ASSUME NEW m \in Mon
      PROVE  /\ halted(m) \in RecordT /\ halted(m).status = "cancelled" /\ halted(m).completed
             /\ halted(m).triggered = record[m].triggered
 <2>1. record[m] \in RecordT BY <1>1
 <2>. QED BY <2>1 DEF RecordT
<1> HIDE DEF halted
<1>. QED BY <1>1, <1>2

\* A step keeps it.
LEMMA MonitorNext == MonitorParameters /\ MonitorInv /\ [Mons!Next]_(Mons!vars) => MonitorInv'
<1> SUFFICES ASSUME MonitorParameters, MonitorInv, [Mons!Next]_(Mons!vars) PROVE MonitorInv'
  OBVIOUS
<1> USE DEF Mons!World, Mons!Hooks
<1>0. MonitorTypes /\ \A m \in Mon : Started(m) /\ EndedOnce(m) /\ WokenOnce(m) BY DEF MonitorInv
<1>1. CASE Mons!HooksRun
 <2>1. PICK f \in flight : flight' = flight \ {f} /\ reported' = [reported EXCEPT ![f.of][f.event] = @ + 1]
   BY <1>1 DEF Mons!HooksRun
 <2>2. UNCHANGED <<record, listed, order, kind, process, open, matched, starter, watch, stopper, closing, wakes>>
   BY <1>1 DEF Mons!HooksRun
 <2>3. /\ flight' \subseteq Hook /\ reported' \in [Mon -> [monitor_start : Nat, monitor_end : Nat]]
        /\ \A m \in Mon :
             /\ \/ f = MonitorBegun(m) /\ reported'[m].monitor_start = reported[m].monitor_start + 1 /\ MonitorBegun(m) \notin flight'
                \/ f # MonitorBegun(m) /\ reported'[m].monitor_start = reported[m].monitor_start
             /\ \/ f = Ended(m) /\ reported'[m].monitor_end = reported[m].monitor_end + 1 /\ Ended(m) \notin flight'
                \/ f # Ended(m) /\ reported'[m].monitor_end = reported[m].monitor_end
   BY <2>1, HookTold
 <2>4. MonitorTypes' BY <2>2, <2>3 DEF MonitorInv, MonitorTypes
 <2>5. ASSUME NEW m \in Mon PROVE Started(m)' /\ EndedOnce(m)' /\ WokenOnce(m)'
  <3>1. reported[m].monitor_start \in Nat /\ reported[m].monitor_end \in Nat
    BY DEF MonitorInv, MonitorTypes
  <3>2. Started(m)' BY <1>0, <2>1, <2>2, <2>3, <3>1 DEF Started
  <3>3. EndedOnce(m)' BY <1>0, <2>1, <2>2, <2>3, <3>1 DEF EndedOnce, EndUntold, Mons!Exited
  <3>4. WokenOnce(m)' BY <1>0, <2>2 DEF WokenOnce, Mons!Active
  <3>. QED BY <3>2, <3>3, <3>4
 <2>. QED BY <2>4, <2>5 DEF MonitorInv
<1>2. ASSUME NEW n \in Mon, Mons!Spawn(n) PROVE MonitorInv'
 <2>1. /\ starter[n] = "idle" /\ starter' = [starter EXCEPT ![n] = "spawned"]
       /\ process' = [process EXCEPT ![n] = "running"] /\ open' = [open EXCEPT ![n] = TRUE]
       /\ UNCHANGED <<record, listed, kind, matched, watch, stopper, closing, flight, reported, wakes>>
   BY <1>2 DEF Mons!Spawn
 <2>2. MonitorTypes' BY <1>0, <2>1 DEF MonitorTypes
 <2>3. ASSUME NEW m \in Mon PROVE Started(m)' /\ EndedOnce(m)' /\ WokenOnce(m)'
  <3>1. Started(m)' BY <1>0, <2>1 DEF MonitorTypes, Started
  <3>2. EndedOnce(m)' BY <1>0, <2>1 DEF MonitorTypes, Started, EndedOnce, EndUntold, Mons!Exited
  <3>3. WokenOnce(m)' BY <1>0, <2>1 DEF WokenOnce, Mons!Active
  <3>. QED BY <3>1, <3>2, <3>3
 <2>. QED BY <2>2, <2>3 DEF MonitorInv
<1>3. ASSUME NEW n \in Mon, Mons!List(n) PROVE MonitorInv'
 <2>1. /\ starter[n] = "spawned" /\ starter' = [starter EXCEPT ![n] = "registered"]
       /\ record' = [record EXCEPT ![n].status = "running"] /\ listed' = listed \cup {n}
       /\ UNCHANGED <<kind, process, open, matched, watch, stopper, closing, flight, reported, wakes>>
   BY <1>3 DEF Mons!List
 <2>2. /\ record' \in [Mon -> RecordT] /\ \A m \in Mon : m # n => record'[m] = record[m]
       /\ record'[n].status = "running" /\ record'[n].completed = record[n].completed
       /\ record'[n].triggered = record[n].triggered
  <3> DEFINE new == [record[n] EXCEPT !.status = "running"]
  <3>1. record \in [Mon -> RecordT] /\ record[n] \in RecordT BY <1>0 DEF MonitorTypes
  <3>2. /\ new \in RecordT /\ new.status = "running" /\ new.completed = record[n].completed
        /\ new.triggered = record[n].triggered
    BY <3>1 DEF RecordT
  <3>3. record' = [record EXCEPT ![n] = new] BY <2>1
  <3> HIDE DEF new
  <3>. QED BY <3>1, <3>2, <3>3
 <2>3. starter'[n] = "registered" /\ \A m \in Mon : m # n => starter'[m] = starter[m]
   BY <1>0, <2>1 DEF MonitorTypes
 <2>4. MonitorTypes' BY <1>0, <2>1, <2>2 DEF MonitorTypes
 <2>5. ASSUME NEW m \in Mon PROVE Started(m)' /\ EndedOnce(m)' /\ WokenOnce(m)'
  <3>1. Started(m)' BY <1>0, <2>1, <2>2, <2>3 DEF Started
  <3>2. EndedOnce(m)' BY <1>0, <2>1, <2>2 DEF Started, EndedOnce, EndUntold, Mons!Exited
  <3>3. WokenOnce(m)' BY <1>0, <2>1, <2>2 DEF Started, WokenOnce, Mons!Active
  <3>. QED BY <3>1, <3>2, <3>3
 <2>. QED BY <2>4, <2>5 DEF MonitorInv
<1>4. ASSUME NEW n \in Mon, Mons!Announce(n) PROVE MonitorInv'
 <2>1. /\ starter[n] = "registered" /\ starter' = [starter EXCEPT ![n] = "announced"]
       /\ flight' = flight \cup {MonitorBegun(n)}
       /\ UNCHANGED <<record, listed, kind, process, open, matched, watch, stopper, closing, reported, wakes>>
   BY <1>4 DEF Mons!Announce, Mons!Emit, MonitorBegun
 <2>2. MonitorBegun(n) \in Hook /\ \A m \in Mon : Ended(m) # MonitorBegun(n) /\ (MonitorBegun(m) = MonitorBegun(n) => m = n)
   BY DEF MonitorBegun, Ended, Hook
 <2>3. starter'[n] = "announced" /\ \A m \in Mon : m # n => starter'[m] = starter[m]
   BY <1>0, <2>1 DEF MonitorTypes
 <2>4. MonitorTypes' BY <1>0, <2>1, <2>2 DEF MonitorTypes
 <2>5. ASSUME NEW m \in Mon PROVE Started(m)' /\ EndedOnce(m)' /\ WokenOnce(m)'
  <3>1. Started(m)' BY <1>0, <2>1, <2>2, <2>3 DEF Started
  <3>2. EndedOnce(m)' BY <1>0, <2>1, <2>2 DEF EndedOnce, EndUntold, Mons!Exited
  <3>3. WokenOnce(m)' BY <1>0, <2>1 DEF WokenOnce, Mons!Active
  <3>. QED BY <3>1, <3>2, <3>3
 <2>. QED BY <2>4, <2>5 DEF MonitorInv
<1>5. ASSUME NEW n \in Mon, Mons!Watch(n) PROVE MonitorInv'
 <2>1. /\ starter[n] = "announced" /\ starter' = [starter EXCEPT ![n] = "over"]
       /\ watch' = [watch EXCEPT ![n] = "loop"]
       /\ UNCHANGED <<record, listed, kind, process, open, matched, stopper, closing, flight, reported, wakes>>
   BY <1>5 DEF Mons!Watch
 <2>2. /\ starter'[n] = "over" /\ \A m \in Mon : m # n => starter'[m] = starter[m]
       /\ watch'[n] = "loop" /\ \A m \in Mon : m # n => watch'[m] = watch[m]
   BY <1>0, <2>1 DEF MonitorTypes
 <2>3. MonitorTypes' BY <1>0, <2>1 DEF MonitorTypes
 <2>4. ASSUME NEW m \in Mon PROVE Started(m)' /\ EndedOnce(m)' /\ WokenOnce(m)'
  <3>1. Started(m)' BY <1>0, <2>1, <2>2 DEF Started
  <3>2. EndedOnce(m)' BY <1>0, <2>1 DEF EndedOnce, EndUntold, Mons!Exited
  <3>3. WokenOnce(m)' BY <1>0, <2>1, <2>2 DEF Started, WokenOnce, Mons!Active
  <3>. QED BY <3>1, <3>2, <3>3
 <2>. QED BY <2>3, <2>4 DEF MonitorInv
<1>6. ASSUME NEW n \in Mon, Mons!Trigger(n) PROVE MonitorInv'
 <2>1. /\ watch[n] = "loop" /\ kind[n].trigger = "output_match" /\ Mons!Fires(n)
       /\ watch' = [watch EXCEPT ![n] = IF record' # record THEN "wake" ELSE "matched"]
       /\ UNCHANGED <<listed, kind, process, open, matched, starter, stopper, closing, flight, reported, wakes>>
   BY <1>6 DEF Mons!Trigger
 <2>2. ~record[n].triggered /\ record[n] \in RecordT /\ wakes[n] = 0 /\ starter[n] = "over"
  <3>1. record[n] \in RecordT /\ wakes[n] \in {0, 1} BY <1>0 DEF MonitorTypes
  <3>2. starter[n] = "over" BY <1>0, <2>1 DEF Started
  <3>. QED BY <1>0, <2>1, <3>1, <3>2 DEF WokenOnce
 <2>3. CASE Mons!Active(n)
  <3>1. record' = [record EXCEPT ![n] = [@ EXCEPT !.triggered = TRUE, !.status = "triggered"]]
    BY <1>0, <2>1, <2>2, <2>3 DEF Mons!Fires, MonitorTypes, RecordT
  <3>2. /\ record' \in [Mon -> RecordT] /\ \A m \in Mon : m # n => record'[m] = record[m]
        /\ record'[n].status = "triggered" /\ record'[n].completed = record[n].completed /\ record'[n].triggered
    BY <1>0, <2>2, <3>1 DEF MonitorTypes, RecordT
  <3>3. watch' = [watch EXCEPT ![n] = "wake"] BY <2>1, <2>2, <3>2
  <3>4. watch'[n] = "wake" /\ \A m \in Mon : m # n => watch'[m] = watch[m]
    BY <1>0, <3>3 DEF MonitorTypes
  <3>5. MonitorTypes' BY <1>0, <2>1, <3>2, <3>3 DEF MonitorTypes
  <3>6. ASSUME NEW m \in Mon PROVE Started(m)' /\ EndedOnce(m)' /\ WokenOnce(m)'
   <4>1. Started(m)' BY <1>0, <2>1, <2>2, <3>2, <3>4 DEF Started
   <4>2. EndedOnce(m)' BY <1>0, <2>1, <2>3, <3>2 DEF EndedOnce, EndUntold, Mons!Exited, Mons!Active
   <4>3. WokenOnce(m)' BY <1>0, <2>1, <2>2, <2>3, <3>2, <3>4 DEF WokenOnce, Mons!Active
   <4>. QED BY <4>1, <4>2, <4>3
  <3>. QED BY <3>5, <3>6 DEF MonitorInv
 <2>4. CASE ~Mons!Active(n)
  <3>1. record' = record /\ watch' = [watch EXCEPT ![n] = "matched"] BY <2>1, <2>4 DEF Mons!Fires
  <3>2. watch'[n] = "matched" /\ \A m \in Mon : m # n => watch'[m] = watch[m]
    BY <1>0, <3>1 DEF MonitorTypes
  <3>3. MonitorTypes' BY <1>0, <2>1, <3>1 DEF MonitorTypes
  <3>4. ASSUME NEW m \in Mon PROVE Started(m)' /\ EndedOnce(m)' /\ WokenOnce(m)'
   <4>1. Started(m)' BY <1>0, <2>1, <2>2, <3>1, <3>2 DEF Started
   <4>2. EndedOnce(m)' BY <1>0, <2>1, <3>1 DEF EndedOnce, EndUntold, Mons!Exited
   <4>3. WokenOnce(m)' BY <1>0, <2>1, <2>2, <3>1, <3>2 DEF WokenOnce, Mons!Active
   <4>. QED BY <4>1, <4>2, <4>3
  <3>. QED BY <3>3, <3>4 DEF MonitorInv
 <2>. QED BY <2>3, <2>4
<1>7. ASSUME NEW n \in Mon, Mons!WakeUp(n) PROVE MonitorInv'
 <2>1. /\ watch[n] \in {"wake", "matched"} /\ watch' = [watch EXCEPT ![n] = "drained"]
       /\ wakes' = IF watch[n] = "wake" THEN [wakes EXCEPT ![n] = @ + 1] ELSE wakes
       /\ IF kind[n].stop THEN Mons!Cancel({n}) ELSE UNCHANGED process
       /\ UNCHANGED <<record, listed, kind, open, matched, starter, stopper, closing, flight, reported>>
   BY <1>7 DEF Mons!WakeUp
 <2>2. /\ process' \in [Mon -> {"none", "running", "killed", "failed", "succeeded"}]
       /\ \A m \in Mon : process[m] # "none" => process'[m] # "none"
       /\ \A m \in Mon : Mons!Exited(m) => Mons!Exited(m)'
   BY <1>0, <2>1, CancelEffect
 <2>3. /\ watch'[n] = "drained" /\ \A m \in Mon : m # n => watch'[m] = watch[m]
   BY <1>0, <2>1 DEF MonitorTypes
 <2>4. /\ wakes' \in [Mon -> {0, 1}] /\ \A m \in Mon : m # n => wakes'[m] = wakes[m]
       /\ wakes'[n] = wakes[n] \/ watch[n] = "wake"
  <3>1. wakes \in [Mon -> {0, 1}] /\ (watch[n] = "wake" => wakes[n] = 0)
    BY <1>0 DEF MonitorTypes, WokenOnce
  <3>2. CASE watch[n] = "wake"
   <4>1. wakes' = [wakes EXCEPT ![n] = 1] BY <2>1, <3>1, <3>2
   <4>. QED BY <3>1, <3>2, <4>1
  <3>. QED BY <2>1, <3>1, <3>2
 <2>5. MonitorTypes' BY <1>0, <2>1, <2>2, <2>4 DEF MonitorTypes
 <2>6. ASSUME NEW m \in Mon PROVE Started(m)' /\ EndedOnce(m)' /\ WokenOnce(m)'
  <3>1. Started(m)' BY <1>0, <2>1, <2>2, <2>3 DEF Started
  <3>2. EndedOnce(m)' BY <1>0, <2>1, <2>2 DEF EndedOnce, EndUntold
  <3>3. WokenOnce(m)' BY <1>0, <2>1, <2>3, <2>4 DEF WokenOnce, Mons!Active
  <3>. QED BY <3>1, <3>2, <3>3
 <2>. QED BY <2>5, <2>6 DEF MonitorInv
<1>8. ASSUME NEW n \in Mon, Mons!Finish(n) PROVE MonitorInv'
 <2>1. /\ watch[n] \in {"drained", "loop"}
       /\ record' = [record EXCEPT ![n] = Mons!AfterFinish(n)]
       /\ IF record[n].completed THEN UNCHANGED flight ELSE flight' = flight \cup {Ended(n)}
       /\ watch' = [watch EXCEPT ![n] = IF Mons!Notifies(n) THEN "last wake" ELSE "over"]
       /\ UNCHANGED <<kind, process, open, matched, starter, stopper, closing, reported, wakes>>
   BY <1>8 DEF Mons!Finish, Mons!Emit, Ended
 <2>2. listed' \subseteq listed /\ \A m \in listed : m \notin listed' => m = n \/ ~Mons!Active(m)
   BY <1>8 DEF Mons!Finish
 <2>3. /\ record' \in [Mon -> RecordT] /\ \A m \in Mon : m # n => record'[m] = record[m]
       /\ record'[n].completed /\ (record[n].status = "cancelled" => record'[n].status = "cancelled")
       /\ record'[n].triggered = (record[n].triggered \/ Mons!Notifies(n))
  <3>1. record[n] \in RecordT /\ record \in [Mon -> RecordT] /\ Mons!Notifies(n) \in BOOLEAN
    BY <1>0 DEF MonitorTypes, Mons!Notifies
  <3>2. /\ Mons!AfterFinish(n) \in RecordT /\ Mons!AfterFinish(n).completed
        /\ (record[n].status = "cancelled" => Mons!AfterFinish(n).status = "cancelled")
        /\ Mons!AfterFinish(n).triggered = (record[n].triggered \/ Mons!Notifies(n))
    BY <3>1 DEF Mons!AfterFinish, RecordT
  <3>. QED BY <2>1, <3>1, <3>2
 <2>4. /\ watch'[n] = IF Mons!Notifies(n) THEN "last wake" ELSE "over"
       /\ \A m \in Mon : m # n => watch'[m] = watch[m]
   BY <1>0, <2>1 DEF MonitorTypes
 <2>5. Ended(n) \in Hook /\ \A m \in Mon : Ended(n) # MonitorBegun(m) /\ (Ended(m) = Ended(n) => m = n)
   BY DEF MonitorBegun, Ended, Hook
 <2>6. MonitorTypes'
  <3>1. flight' \subseteq Hook /\ listed' \subseteq Mon BY <1>0, <2>1, <2>2, <2>5 DEF MonitorTypes
  <3>2. watch' \in [Mon -> {"no", "loop", "wake", "matched", "drained", "last wake", "over"}]
    BY <1>0, <2>1 DEF MonitorTypes
  <3>. QED BY <1>0, <2>1, <2>3, <3>1, <3>2 DEF MonitorTypes
 <2>7. starter[n] = "over" BY <1>0, <2>1 DEF Started
 <2>8. ASSUME NEW m \in Mon PROVE Started(m)' /\ EndedOnce(m)' /\ WokenOnce(m)'
  <3>1. Started(m)'
   <4>1. MonitorBegun(m) \in flight' <=> MonitorBegun(m) \in flight BY <2>1, <2>5
   <4>. QED BY ZenonT(40), <1>0, <2>1, <2>2, <2>3, <2>4, <2>7, <4>1 DEF Started
  <3>2. EndedOnce(m)'
   <4>1. Mons!Exited(m)' <=> Mons!Exited(m) BY <2>1 DEF Mons!Exited
   <4>2. CASE m = n
    <5>1. record[n].completed => EndedOnce(n)'
      BY <1>0, <2>1, <2>3, <4>1, <4>2 DEF EndedOnce, EndUntold
    <5>2. CASE ~record[n].completed
     <6>1. reported[n].monitor_end = 0 /\ stopper[n] = "idle" /\ n \notin closing
       BY <1>0, <5>2 DEF EndedOnce, EndUntold
     <6>2. reported'[n].monitor_end = 0 /\ stopper'[n] = "idle" /\ n \notin closing' /\ record'[n].completed
       BY <2>1, <2>3, <6>1
     <6>. QED BY <4>2, <6>2 DEF EndedOnce
    <5>. QED BY <4>2, <5>1, <5>2
   <4>3. CASE m # n
    <5>1. Ended(m) \in flight' <=> Ended(m) \in flight BY <2>1, <2>5, <4>3
    <5>. QED BY <1>0, <2>1, <2>3, <4>1, <4>3, <5>1 DEF EndedOnce, EndUntold
   <4>. QED BY <4>2, <4>3
  <3>3. WokenOnce(m)'
   <4>1. wakes[m] \in {0, 1} BY <1>0 DEF MonitorTypes
   <4>2. CASE m = n
    <5>1. Mons!Notifies(n) => wakes[n] # 1 BY <1>0, <4>1, <4>2 DEF WokenOnce, Mons!Notifies
    <5>2. wakes[n] = 1 => record[n].triggered BY <1>0 DEF WokenOnce
    <5>3. (record[n].triggered => record'[n].triggered) /\ (Mons!Notifies(n) => record'[n].triggered)
      BY <2>3
    <5>4. record'[n].completed /\ wakes'[n] = wakes[n] /\ watch'[n] \in {"last wake", "over"}
      BY <2>1, <2>3, <2>4
    <5>5. watch'[n] = "last wake" => Mons!Notifies(n) BY <2>4
    <5>6. Mons!Notifies(n) \/ watch'[n] = "over" BY <2>4
    <5>. QED BY <4>2, <5>1, <5>2, <5>3, <5>4, <5>5, <5>6 DEF WokenOnce, Mons!Active
   <4>3. CASE m # n BY <1>0, <2>1, <2>2, <2>3, <2>4, <4>3 DEF WokenOnce, Mons!Active
   <4>. QED BY <4>2, <4>3
  <3>. QED BY <3>1, <3>2, <3>3
 <2>. QED BY <2>6, <2>8 DEF MonitorInv
<1>9. ASSUME NEW n \in Mon, Mons!LastWake(n) PROVE MonitorInv'
 <2>1. /\ watch[n] = "last wake" /\ wakes' = [wakes EXCEPT ![n] = @ + 1] /\ watch' = [watch EXCEPT ![n] = "over"]
       /\ UNCHANGED <<record, listed, kind, process, open, matched, starter, stopper, closing, flight, reported>>
   BY <1>9 DEF Mons!LastWake
 <2>2. /\ watch'[n] = "over" /\ \A m \in Mon : m # n => watch'[m] = watch[m] /\ wakes'[m] = wakes[m]
       /\ wakes' \in [Mon -> {0, 1}]
  <3>1. wakes[n] = 0 BY <1>0, <2>1 DEF MonitorTypes, WokenOnce
  <3>2. wakes' = [wakes EXCEPT ![n] = 1]
   <4>1. wakes[n] + 1 = 1 BY <3>1
   <4>. QED BY <2>1, <4>1, Zenon
  <3>. QED BY <1>0, <2>1, <3>2 DEF MonitorTypes
 <2>3. MonitorTypes' BY <1>0, <2>1, <2>2 DEF MonitorTypes
 <2>4. ASSUME NEW m \in Mon PROVE Started(m)' /\ EndedOnce(m)' /\ WokenOnce(m)'
  <3>1. Started(m)' BY <1>0, <2>1, <2>2 DEF Started
  <3>2. EndedOnce(m)' BY <1>0, <2>1 DEF EndedOnce, EndUntold, Mons!Exited
  <3>3. WokenOnce(m)' BY <1>0, <2>1, <2>2 DEF WokenOnce, Mons!Active
  <3>. QED BY <3>1, <3>2, <3>3
 <2>. QED BY <2>3, <2>4 DEF MonitorInv
<1>10. ASSUME NEW n \in Mon, Mons!Stop(n) PROVE MonitorInv'
 <2>1. /\ stopper[n] = "idle" /\ n \in listed /\ Mons!Active(n) /\ Mons!Stopped({n}) /\ stopper' = [stopper EXCEPT ![n] = "marked"]
       /\ UNCHANGED <<listed, kind, process, open, matched, starter, watch, closing, flight, reported, wakes>>
   BY <1>10 DEF Mons!Stop
 <2>2. /\ record' \in [Mon -> RecordT] /\ \A m \in Mon : m # n => record'[m] = record[m]
       /\ record'[n].status = "cancelled" /\ record'[n].completed /\ record'[n].triggered = record[n].triggered
  <3>1. MonitorTypes /\ {n} \in SUBSET Mon /\ n \in {n} /\ \A m \in Mon : m # n => m \notin {n}
    BY <1>0
  <3>. QED BY <2>1, <3>1, StoppedEffect
 <2>3. stopper'[n] = "marked" /\ \A m \in Mon : m # n => stopper'[m] = stopper[m]
   BY <1>0, <2>1 DEF MonitorTypes
 <2>4. MonitorTypes' BY <1>0, <2>1, <2>2 DEF MonitorTypes
 <2>5. ~record[n].completed BY <2>1 DEF Mons!Active
 <2>6. ASSUME NEW m \in Mon PROVE Started(m)' /\ EndedOnce(m)' /\ WokenOnce(m)'
  <3>1. Started(m)' BY <1>0, <2>1, <2>2 DEF Started
  <3>2. EndedOnce(m)' BY <1>0, <2>1, <2>2, <2>3, <2>5 DEF EndedOnce, EndUntold, Mons!Exited
  <3>3. WokenOnce(m)' BY <1>0, <2>1, <2>2 DEF WokenOnce, Mons!Active
  <3>. QED BY <3>1, <3>2, <3>3
 <2>. QED BY <2>4, <2>6 DEF MonitorInv
<1>11. CASE Mons!Close
 <2>1. /\ closing = {"no"} /\ closing' = Mons!ActiveOnes /\ Mons!Stopped(Mons!ActiveOnes)
       /\ UNCHANGED <<listed, kind, process, open, matched, starter, watch, stopper, flight, reported, wakes>>
   BY <1>11 DEF Mons!Close
 <2>2. Mons!ActiveOnes \subseteq Mon BY <1>0 DEF Mons!ActiveOnes, MonitorTypes
 <2>3. /\ record' \in [Mon -> RecordT] /\ \A m \in Mon : m \notin Mons!ActiveOnes => record'[m] = record[m]
       /\ \A m \in Mons!ActiveOnes : /\ record'[m].status = "cancelled" /\ record'[m].completed
                                     /\ record'[m].triggered = record[m].triggered
   BY <1>0, <2>1, <2>2, StoppedEffect
 <2>4. MonitorTypes' BY <1>0, <2>1, <2>3 DEF MonitorTypes
 <2>5. ASSUME NEW m \in Mon PROVE Started(m)' /\ EndedOnce(m)' /\ WokenOnce(m)'
  <3>1. m \in Mons!ActiveOnes => m \in listed /\ ~record[m].completed
    BY DEF Mons!ActiveOnes, Mons!Active
  <3>2. Started(m)' BY <1>0, <2>1, <2>3, <3>1 DEF Started
  <3>3. EndedOnce(m)'
   <4>1. CASE m \in Mons!ActiveOnes
     BY <1>0, <2>1, <2>3, <3>1, <4>1 DEF EndedOnce, EndUntold, Mons!Exited
   <4>2. CASE m \notin Mons!ActiveOnes
     BY <1>0, <2>1, <2>3, <4>2 DEF EndedOnce, EndUntold, Mons!Exited
   <4>. QED BY <4>1, <4>2
  <3>4. WokenOnce(m)'
   <4>1. CASE m \in Mons!ActiveOnes BY <1>0, <2>1, <2>3, <3>1, <4>1 DEF WokenOnce, Mons!Active
   <4>2. CASE m \notin Mons!ActiveOnes BY <1>0, <2>1, <2>3, <4>2 DEF WokenOnce, Mons!Active
   <4>. QED BY <4>1, <4>2
  <3>. QED BY <3>2, <3>3, <3>4
 <2>. QED BY <2>4, <2>5 DEF MonitorInv
<1>12. ASSUME NEW n \in Mon, Mons!StopCancels(n) \/ Mons!CloseCancels(n) PROVE MonitorInv'
 <2>1. /\ flight' = flight \cup {Ended(n)} /\ Mons!Cancel({n})
       /\ UNCHANGED <<record, listed, kind, open, matched, starter, watch, reported, wakes>>
       /\ \/ stopper[n] = "marked" /\ stopper' = [stopper EXCEPT ![n] = "over"] /\ closing' = closing
          \/ n \in closing /\ closing' = closing \ {n} /\ stopper' = stopper
   BY <1>12 DEF Mons!StopCancels, Mons!CloseCancels, Mons!Emit, Ended
 <2>2. /\ process' \in [Mon -> {"none", "running", "killed", "failed", "succeeded"}]
       /\ \A m \in Mon : process[m] # "none" => process'[m] # "none"
       /\ \A m \in Mon : Mons!Exited(m) => Mons!Exited(m)'
       /\ process[n] # "none" => Mons!Exited(n)'
   BY <1>0, <2>1, CancelEffect
 <2>3. /\ EndUntold(n) /\ record[n].completed /\ n \notin closing' /\ stopper'[n] # "marked"
       /\ stopper[n] = "idle" => stopper'[n] = "idle"
       /\ \A m \in Mon : m # n => stopper'[m] = stopper[m]
       /\ \A m \in Mon : m # n => (m \in closing' <=> m \in closing)
  <3>1. stopper \in [Mon -> {"idle", "marked", "over"}] BY <1>0 DEF MonitorTypes
  <3>2. CASE stopper[n] = "marked" /\ stopper' = [stopper EXCEPT ![n] = "over"] /\ closing' = closing
   <4>1. stopper'[n] = "over" /\ \A m \in Mon : m # n => stopper'[m] = stopper[m] BY <3>1, <3>2
   <4>2. EndUntold(n) /\ record[n].completed /\ n \notin closing BY <1>0, <3>2 DEF EndedOnce
   <4>. QED BY <3>2, <4>1, <4>2
  <3>3. CASE n \in closing /\ closing' = closing \ {n} /\ stopper' = stopper
   <4>1. EndUntold(n) /\ record[n].completed /\ stopper[n] # "marked" BY <1>0, <3>3 DEF EndedOnce
   <4>. QED BY <3>3, <4>1
  <3>. QED BY <2>1, <3>2, <3>3
 <2>4. stopper' \in [Mon -> {"idle", "marked", "over"}]
  <3>1. stopper \in [Mon -> {"idle", "marked", "over"}] BY <1>0 DEF MonitorTypes
  <3>2. [stopper EXCEPT ![n] = "over"] \in [Mon -> {"idle", "marked", "over"}] BY <3>1
  <3>. QED BY <2>1, <3>1, <3>2
 <2>5. Ended(n) \in Hook /\ \A m \in Mon : Ended(n) # MonitorBegun(m) /\ (Ended(m) = Ended(n) => m = n)
   BY DEF MonitorBegun, Ended, Hook
 <2>6. MonitorTypes' BY <1>0, <2>1, <2>2, <2>4, <2>5 DEF MonitorTypes
 <2>7. process[n] # "none" \/ stopper[n] = "idle" BY <1>0 DEF Started, EndedOnce
 <2>8. ASSUME NEW m \in Mon PROVE Started(m)' /\ EndedOnce(m)' /\ WokenOnce(m)'
  <3>1. Started(m)'
   <4>1. MonitorBegun(m) \in flight' <=> MonitorBegun(m) \in flight BY <2>1, <2>5
   <4>. QED BY <1>0, <2>1, <2>2, <4>1 DEF Started
  <3>2. EndedOnce(m)'
   <4>1. CASE m = n
    <5>1. reported[n].monitor_end = 0 BY <2>3 DEF EndUntold
    <5>2. stopper[n] # "idle" => record[n].status = "cancelled" BY <1>0 DEF EndedOnce
    <5>. QED BY <2>1, <2>2, <2>3, <2>7, <4>1, <5>1, <5>2 DEF EndedOnce
   <4>2. CASE m # n
    <5>1. Ended(m) \in flight' <=> Ended(m) \in flight BY <2>1, <2>5, <4>2
    <5>. QED BY <1>0, <2>1, <2>2, <2>3, <4>2, <5>1 DEF EndedOnce, EndUntold
   <4>. QED BY <4>1, <4>2
  <3>3. WokenOnce(m)' BY <1>0, <2>1 DEF WokenOnce, Mons!Active
  <3>. QED BY <3>1, <3>2, <3>3
 <2>. QED BY <2>6, <2>8 DEF MonitorInv
<1>13. ASSUME NEW n \in Mon, Mons!Output(n) \/ Mons!Exit(n) \/ Mons!LetGo(n) PROVE MonitorInv'
 <2>1. UNCHANGED <<record, listed, kind, starter, watch, stopper, closing, flight, reported, wakes>>
   BY <1>13 DEF Mons!Output, Mons!Exit, Mons!LetGo
 <2>2. /\ process' \in [Mon -> {"none", "running", "killed", "failed", "succeeded"}]
       /\ open' \in [Mon -> BOOLEAN]
       /\ \A m \in Mon : process[m] # "none" => process'[m] # "none"
       /\ \A m \in Mon : Mons!Exited(m) => Mons!Exited(m)'
   BY <1>0, <1>13 DEF MonitorTypes, Mons!Output, Mons!Exit, Mons!LetGo, Mons!Exited
 <2>3. MonitorTypes' BY <1>0, <2>1, <2>2 DEF MonitorTypes
 <2>4. ASSUME NEW m \in Mon PROVE Started(m)' /\ EndedOnce(m)' /\ WokenOnce(m)'
   BY <1>0, <2>1, <2>2 DEF Started, EndedOnce, EndUntold, WokenOnce, Mons!Active
 <2>. QED BY <2>3, <2>4 DEF MonitorInv
<1>14. CASE UNCHANGED Mons!vars
 <2>1. UNCHANGED <<record, listed, kind, process, open, matched, starter, watch, stopper, closing, flight, reported, wakes>>
   BY <1>14 DEF Mons!vars
 <2>2. MonitorTypes' BY <1>0, <2>1 DEF MonitorTypes
 <2>3. ASSUME NEW m \in Mon PROVE Started(m)' /\ EndedOnce(m)' /\ WokenOnce(m)'
   BY <1>0, <2>1 DEF Started, EndedOnce, EndUntold, WokenOnce, Mons!Active, Mons!Exited
 <2>. QED BY <2>2, <2>3 DEF MonitorInv
<1>. QED BY <1>1, <1>2, <1>3, <1>4, <1>5, <1>6, <1>7, <1>8, <1>9, <1>10, <1>11, <1>12, <1>13, <1>14
     DEF Mons!Next, Mons!Goroutines, Mons!Done

LEMMA MonitorImplies == MonitorParameters /\ MonitorInv => Mons!MonitorSafe
<1> SUFFICES ASSUME MonitorInv PROVE Mons!MonitorSafe
  OBVIOUS
<1>0. MonitorTypes /\ \A m \in Mon : Started(m) /\ EndedOnce(m) /\ WokenOnce(m) BY DEF MonitorInv
<1>1. Mons!TypeOK BY <1>0 DEF Mons!TypeOK, MonitorTypes, RecordT
<1>2. ASSUME NEW m \in Mon
      PROVE  /\ wakes[m] <= 1 /\ reported[m].monitor_start <= 1
             /\ reported[m].monitor_end + Cardinality({f \in flight : f.of = m /\ f.event = "monitor_end"}) <= 1
 <2> DEFINE S == {f \in flight : f.of = m /\ f.event = "monitor_end"}
 <2>1. wakes[m] \in {0, 1} /\ reported[m].monitor_start <= 1 /\ reported[m].monitor_end <= 1 /\ reported[m].monitor_end \in Nat
   BY <1>0 DEF MonitorTypes, Started, EndedOnce
 <2>a. ASSUME NEW f \in flight, f.of = m, f.event = "monitor_end" PROVE f = Ended(m)
  <3>1. f \in Hook BY <1>0 DEF MonitorTypes
  <3>. QED BY <2>a, <3>1 DEF Hook, Ended
 <2>b. Ended(m).of = m /\ Ended(m).event = "monitor_end" BY DEF Ended
 <2>2. Ended(m) \notin flight => S = {} BY <2>a
 <2>3. Ended(m) \in flight => S = {Ended(m)}
  <3>1. Ended(m) \in flight => Ended(m) \in S BY <2>b
  <3>2. \A f \in S : f = Ended(m) BY <2>a
  <3>. QED BY <3>1, <3>2
 <2>4. Cardinality({}) = 0 /\ Cardinality({Ended(m)}) = 1 BY FS_EmptySet, FS_Singleton
 <2>5. reported[m].monitor_end = 1 => Ended(m) \notin flight BY <1>0 DEF EndedOnce
 <2> HIDE DEF S
 <2>6. reported[m].monitor_end + Cardinality(S) <= 1 BY <2>1, <2>2, <2>3, <2>4, <2>5
 <2>. QED BY <2>1, <2>6 DEF S
<1>3. Mons!StoppedStays BY <1>0 DEF Mons!StoppedStays, EndedOnce
<1>4. Mons!ActiveIsManaged BY <1>0 DEF Mons!ActiveIsManaged, WokenOnce, Mons!Active
<1>. QED BY <1>1, <1>2, <1>3, <1>4, SameCardinality DEF Mons!MonitorSafe, Mons!OnceEach

\* However the trigger, the exit, a stop and the shutdown race, a monitor is ended
\* and its agent woken at most once, and one that is stopped stays stopped.
THEOREM MonitorsAreSafe ==
  ASSUME MonitorParameters
  PROVE  Mons!Spec => []Mons!MonitorSafe
<1>1. Mons!Init => MonitorInv BY MonitorInit
<1>2. MonitorInv /\ [Mons!Next]_(Mons!vars) => MonitorInv' BY MonitorNext
<1>3. MonitorInv => Mons!MonitorSafe BY MonitorImplies
<1>. QED BY <1>1, <1>2, <1>3, PTL DEF Mons!Spec

----------------------------------------
(* The reporter of herdr.go: the inductive invariant.                      *)

\* The model an agent starts with is one of its models, which 0 is not.
HerdrParameters == IsFiniteSet(Question) /\ 1 \in Model /\ Pane!NoHook \notin Model

SessionT == [id : Id \cup {0}, model : Model \cup {0}]
ReportT == [state : {"none", "idle", "working", "blocked"}, session : SessionT, seq : Nat]

HerdrTypes ==
  /\ agent \in [runs : BOOLEAN, model : Model, hook : Model \cup {Pane!NoHook}, turns : Nat]
  /\ question \in [Question -> {"new", "asked", "answered"}]
  /\ reporter \in [state : {"idle", "working"}, session : SessionT, blocks : Nat]
  /\ release \in {"no", "closed", "canceled", "released"}
  /\ queue \in Seq(ReportT) /\ Len(queue) <= 1
  /\ worker \in [at : {"idle", "sending", "failing", "done"}, report : ReportT]
  /\ seq \in Nat
  /\ pane \in [shows : ReportT, heard : BOOLEAN]

\* What the fields say of the agent and of its questions.
FieldsInv ==
  /\ reporter.blocks = Cardinality(Pane!Asked)
  /\ agent.hook = Pane!NoHook => reporter.state = IF agent.runs THEN "working" ELSE "idle"
  /\ agent.hook # Pane!NoHook => agent.runs
  /\ ~Pane!Started => ~agent.runs /\ agent.hook = Pane!NoHook /\ Pane!Asked = {}

\* r is what the fields say: of the session only while nothing blocks, since a
\* change of it between two questions is told when the last one ends.
Tells(r, session) ==
  /\ r.state = Pane!Report(reporter).state
  /\ reporter.blocks = 0 => r.session = session

\* The last report on its way, or that has arrived, tells what the fields say.
LastInv ==
  Pane!Started /\ release = "no" =>
    /\ queue # <<>> => Tells(queue[1], reporter.session)
    /\ queue = <<>> /\ worker.at = "sending" => Tells(worker.report, reporter.session)
    /\ queue = <<>> /\ worker.at = "idle" /\ pane.heard
         => Tells(pane.shows, Pane!Shown(Pane!Report(reporter)).session)

\* Commands are numbered in the order they are sent, none is after the release,
\* and until Close they may succeed.
WorkerInv ==
  /\ pane.shows.seq <= seq /\ worker.report.seq <= seq
  /\ release = "no" => worker.at \in {"idle", "sending"}
  /\ worker.at = "done" => release \in {"canceled", "released"}
  /\ release = "released" => worker.at = "done" /\ (pane.heard => pane.shows.state = "none")

HerdrInv == HerdrTypes /\ FieldsInv /\ LastInv /\ WorkerInv

\* It holds at the beginning.
LEMMA HerdrInit == HerdrParameters /\ Pane!Init => HerdrInv
<1> SUFFICES ASSUME HerdrParameters, Pane!Init PROVE HerdrInv
  OBVIOUS
<1>1. Pane!None \in ReportT BY DEF Pane!None, ReportT, SessionT
<1>2. Pane!Asked = {} /\ Cardinality({}) = 0 BY FS_EmptySet DEF Pane!Init, Pane!Asked
<1>. QED BY <1>1, <1>2
     DEF HerdrParameters, Pane!Init, HerdrInv, HerdrTypes, FieldsInv, LastInv, WorkerInv,
         Pane!NoHook, SessionT,
     Pane!Started, Pane!None

\* What the reporter tells is a report.
LEMMA ReportType ==
  ASSUME NEW r \in [state : {"idle", "working"}, session : SessionT, blocks : Nat]
  PROVE  Pane!Report(r) \in ReportT /\ Pane!Report(r).session = r.session
  BY DEF Pane!Report, ReportT

\* While the reporter has a report to give, it is in the queue.
LEMMA Told ==
  ASSUME HerdrInv, NEW r \in [state : {"idle", "working"}, session : SessionT, blocks : Nat], Pane!Becomes(r),
         UNCHANGED <<release, worker, pane>>
  PROVE  LastInv' /\ queue' \in Seq(ReportT) /\ Len(queue') <= 1
<1>1. Pane!Report(r) \in ReportT /\ Pane!Report(r).session = r.session BY ReportType
<1>2. reporter' = r /\ queue' = IF release = "no" THEN <<Pane!Report(r)>> ELSE queue
  BY DEF Pane!Becomes, Pane!Enqueue
<1>3. CASE release = "no"
 <2>1. queue' = <<Pane!Report(r)>> /\ queue' # <<>> /\ queue'[1] = Pane!Report(r) BY <1>2, <1>3
 <2>2. LastInv' BY <1>1, <1>2, <2>1 DEF LastInv, Tells
 <2>3. queue' \in Seq(ReportT) /\ Len(queue') <= 1 BY <1>1, <2>1
 <2>. QED BY <2>2, <2>3
<1>4. CASE release # "no" BY <1>2, <1>4 DEF LastInv, HerdrInv, HerdrTypes
<1>. QED BY <1>3, <1>4

\* A change that is not told is one that no report would show.
LEMMA NotTold ==
  ASSUME HerdrInv, Pane!Started, reporter'.blocks > 0, reporter.blocks > 0,
         UNCHANGED <<release, queue, worker, pane>>
  PROVE  LastInv'
  BY DEF HerdrInv, HerdrTypes, LastInv, Tells, Pane!Report, Pane!Started

\* The same for the end of a question and the changes of a run.
LEMMA ToldBetween ==
  ASSUME HerdrInv, Pane!Started, NEW r \in [state : {"idle", "working"}, session : SessionT, blocks : Nat],
         Pane!BecomesUnblocked(r), r.blocks <= reporter.blocks, UNCHANGED <<release, worker, pane>>
  PROVE  LastInv' /\ queue' \in Seq(ReportT) /\ Len(queue') <= 1 /\ reporter' = r
<1>1. CASE r.blocks = 0
 <2>1. Pane!Becomes(r) BY <1>1 DEF Pane!BecomesUnblocked, Pane!Becomes
 <2>. QED BY <2>1, Told DEF Pane!Becomes
<1>2. CASE r.blocks # 0
 <2>1. reporter' = r /\ queue' = queue /\ reporter'.blocks > 0 /\ reporter.blocks > 0
   BY <1>2 DEF Pane!BecomesUnblocked, HerdrInv, HerdrTypes
 <2>. QED BY <2>1, NotTold DEF HerdrInv, HerdrTypes
<1>. QED BY <1>1, <1>2

\* One question more is asked, or one less.
LEMMA AskedNext ==
  ASSUME HerdrParameters, HerdrInv, NEW q \in Question, NEW v \in {"asked", "answered"},
         question' = [question EXCEPT ![q] = v],
         question[q] = IF v = "asked" THEN "new" ELSE "asked"
  PROVE  /\ question' \in [Question -> {"new", "asked", "answered"}]
         /\ Cardinality(Pane!Asked') = IF v = "asked" THEN Cardinality(Pane!Asked) + 1 ELSE Cardinality(Pane!Asked) - 1
         /\ Cardinality(Pane!Asked) \in Nat /\ (v = "answered" => Cardinality(Pane!Asked) > 0)
<1>1. question \in [Question -> {"new", "asked", "answered"}] BY DEF HerdrInv, HerdrTypes
<1>2. IsFiniteSet(Pane!Asked) BY FS_Subset DEF HerdrParameters, Pane!Asked
<1>3. CASE v = "asked"
 <2>1. Pane!Asked' = Pane!Asked \cup {q} /\ q \notin Pane!Asked BY <1>1, <1>3 DEF Pane!Asked
 <2>. QED BY <1>1, <1>2, <1>3, <2>1, FS_AddElement, FS_CardinalityType
<1>4. CASE v = "answered"
 <2>1. Pane!Asked' = Pane!Asked \ {q} /\ q \in Pane!Asked BY <1>1, <1>4 DEF Pane!Asked
 <2>2. Cardinality(Pane!Asked) # 0 BY <1>2, <2>1, FS_EmptySet
 <2>. QED BY <1>1, <1>2, <1>4, <2>1, <2>2, FS_RemoveElement, FS_CardinalityType
<1>. QED BY <1>3, <1>4

\* A step keeps it.
LEMMA HerdrNext == HerdrParameters /\ HerdrInv /\ [Pane!Next]_(Pane!vars) => HerdrInv'
<1> SUFFICES ASSUME HerdrParameters, HerdrInv, [Pane!Next]_(Pane!vars) PROVE HerdrInv'
  OBVIOUS
<1>0. /\ agent \in [runs : BOOLEAN, model : Model, hook : Model \cup {Pane!NoHook}, turns : Nat]
      /\ reporter \in [state : {"idle", "working"}, session : SessionT, blocks : Nat]
      /\ worker \in [at : {"idle", "sending", "failing", "done"}, report : ReportT] /\ seq \in Nat
      /\ queue \in Seq(ReportT) /\ Len(queue) <= 1 /\ pane \in [shows : ReportT, heard : BOOLEAN]
  BY DEF HerdrInv, HerdrTypes
<1>1. CASE Pane!StartReporter
 <2> DEFINE r(i) == [reporter EXCEPT !.state = "idle", !.session = [id |-> i, model |-> agent.model]]
 <2>1. PICK i \in Id : Pane!Becomes(r(i)) BY <1>1 DEF Pane!StartReporter
 <2>2. r(i) \in [state : {"idle", "working"}, session : SessionT, blocks : Nat] /\ r(i).state = "idle"
       /\ r(i).blocks = reporter.blocks /\ r(i).session.model = agent.model
   BY <1>0 DEF SessionT
 <2> HIDE DEF r
 <2>3. reporter' = r(i) /\ UNCHANGED <<agent, question, release, worker, seq, pane>> /\ ~Pane!Started
   BY <1>1, <2>1 DEF Pane!StartReporter, Pane!Becomes
 <2>4. LastInv' /\ queue' \in Seq(ReportT) /\ Len(queue') <= 1 BY <2>1, <2>2, <2>3, Told
 <2>5. FieldsInv' BY <2>2, <2>3 DEF HerdrInv, FieldsInv, Pane!Asked, Pane!Started
 <2>6. WorkerInv' /\ HerdrTypes' BY <2>2, <2>3, <2>4 DEF HerdrInv, HerdrTypes, WorkerInv
 <2>. QED BY <2>4, <2>5, <2>6 DEF HerdrInv
<1>2. CASE Pane!SetSessionID
 <2> DEFINE r(i) == [reporter EXCEPT !.session.id = i]
 <2>1. PICK i \in Id : Pane!Becomes(r(i)) BY <1>2 DEF Pane!SetSessionID
 <2>2. r(i) \in [state : {"idle", "working"}, session : SessionT, blocks : Nat] /\ r(i).state = reporter.state
       /\ r(i).blocks = reporter.blocks /\ r(i).session.model = reporter.session.model
   BY <1>0 DEF SessionT
 <2> HIDE DEF r
 <2>3. reporter' = r(i) /\ UNCHANGED <<agent, question, release, worker, seq, pane>> /\ Pane!Started
   BY <1>2, <2>1 DEF Pane!SetSessionID, Pane!Becomes
 <2>4. LastInv' /\ queue' \in Seq(ReportT) /\ Len(queue') <= 1 BY <2>1, <2>2, <2>3, Told
 <2>5. FieldsInv' BY <2>2, <2>3 DEF HerdrInv, FieldsInv, Pane!Asked, Pane!Started
 <2>6. WorkerInv' /\ HerdrTypes' BY <2>2, <2>3, <2>4 DEF HerdrInv, HerdrTypes, WorkerInv
 <2>. QED BY <2>4, <2>5, <2>6 DEF HerdrInv
<1>3. CASE Pane!SetModel
 <2> DEFINE r(m) == [reporter EXCEPT !.session.model = m]
 <2>1. PICK m \in Model : Pane!Becomes(r(m)) /\ agent' = [agent EXCEPT !.model = m]
   BY <1>3 DEF Pane!SetModel
 <2>2. r(m) \in [state : {"idle", "working"}, session : SessionT, blocks : Nat] /\ r(m).state = reporter.state
       /\ r(m).blocks = reporter.blocks /\ r(m).session.model = m
   BY <1>0 DEF SessionT
 <2>3. /\ agent' \in [runs : BOOLEAN, model : Model, hook : Model \cup {Pane!NoHook}, turns : Nat]
       /\ agent'.runs = agent.runs /\ agent'.hook = agent.hook
   BY <1>0, <2>1
 <2> HIDE DEF r
 <2>4. reporter' = r(m) /\ UNCHANGED <<question, release, worker, seq, pane>> /\ Pane!Started /\ m # 0
   BY <1>3, <2>1 DEF Pane!SetModel, Pane!Becomes, HerdrParameters, Pane!NoHook
 <2>5. LastInv' /\ queue' \in Seq(ReportT) /\ Len(queue') <= 1 BY <2>1, <2>2, <2>4, Told
 <2>6. FieldsInv' BY <2>2, <2>3, <2>4 DEF HerdrInv, FieldsInv, Pane!Asked, Pane!Started
 <2>7. WorkerInv' /\ HerdrTypes' BY <2>2, <2>3, <2>4, <2>5 DEF HerdrInv, HerdrTypes, WorkerInv
 <2>. QED BY <2>5, <2>6, <2>7 DEF HerdrInv
<1>4. CASE Pane!TurnBegins
 <2>0. /\ agent' = [agent EXCEPT !.runs = TRUE, !.hook = agent.model, !.turns = @ + 1] /\ Pane!Started
       /\ UNCHANGED <<question, reporter, release, queue, worker, seq, pane>>
   BY <1>4 DEF Pane!TurnBegins
 <2>1. /\ agent' \in [runs : BOOLEAN, model : Model, hook : Model \cup {Pane!NoHook}, turns : Nat]
       /\ agent'.runs /\ agent'.hook = agent.model /\ agent'.hook # Pane!NoHook
  <3>1. agent.model \in Model /\ agent.model # Pane!NoHook /\ agent.turns + 1 \in Nat
    BY <1>0 DEF HerdrParameters
  <3>. QED BY <1>0, <2>0, <3>1
 <2>2. FieldsInv' /\ LastInv'
   BY <2>0, <2>1 DEF HerdrInv, FieldsInv, LastInv, Tells, Pane!Asked, Pane!Started
 <2>. QED BY <2>0, <2>1, <2>2 DEF HerdrInv, HerdrTypes, WorkerInv
<1>5. CASE Pane!BeginRun
 <2> DEFINE r == [reporter EXCEPT !.state = "working", !.session.model = agent.hook]
 <2>1. Pane!BecomesUnblocked(r) /\ agent' = [agent EXCEPT !.hook = Pane!NoHook] /\ agent.hook # Pane!NoHook
       /\ UNCHANGED <<question, release, worker, seq, pane>>
   BY <1>5 DEF Pane!BeginRun
 <2>2. r \in [state : {"idle", "working"}, session : SessionT, blocks : Nat] /\ r.state = "working"
       /\ r.blocks = reporter.blocks /\ r.session.model = agent.hook
   BY <1>0, <2>1 DEF SessionT
 <2>3. /\ agent' \in [runs : BOOLEAN, model : Model, hook : Model \cup {Pane!NoHook}, turns : Nat]
       /\ agent'.runs = agent.runs /\ agent'.hook = Pane!NoHook
   BY <1>0, <2>1
 <2>4. Pane!Started /\ agent.runs /\ agent.hook # 0 BY <2>1 DEF HerdrInv, FieldsInv, Pane!NoHook
 <2> HIDE DEF r
 <2>5. LastInv' /\ queue' \in Seq(ReportT) /\ Len(queue') <= 1 /\ reporter' = r
   BY <1>0, <2>1, <2>2, <2>4, ToldBetween
 <2>6. FieldsInv' BY <2>1, <2>2, <2>3, <2>4, <2>5 DEF HerdrInv, FieldsInv, Pane!Asked, Pane!Started
 <2>7. WorkerInv' /\ HerdrTypes' BY <2>1, <2>2, <2>3, <2>5 DEF HerdrInv, HerdrTypes, WorkerInv
 <2>. QED BY <2>5, <2>6, <2>7 DEF HerdrInv
<1>6. CASE Pane!RunEnds
 <2> DEFINE r == [reporter EXCEPT !.state = "idle"]
 <2>1. Pane!BecomesUnblocked(r) /\ agent' = [agent EXCEPT !.runs = FALSE] /\ agent.runs /\ agent.hook = Pane!NoHook
       /\ UNCHANGED <<question, release, worker, seq, pane>>
   BY <1>6 DEF Pane!RunEnds
 <2>2. r \in [state : {"idle", "working"}, session : SessionT, blocks : Nat] /\ r.state = "idle"
       /\ r.blocks = reporter.blocks /\ r.session = reporter.session
   BY <1>0
 <2>3. /\ agent' \in [runs : BOOLEAN, model : Model, hook : Model \cup {Pane!NoHook}, turns : Nat]
       /\ ~agent'.runs /\ agent'.hook = Pane!NoHook
   BY <1>0, <2>1
 <2>4. Pane!Started BY <2>1 DEF HerdrInv, FieldsInv
 <2> HIDE DEF r
 <2>5. LastInv' /\ queue' \in Seq(ReportT) /\ Len(queue') <= 1 /\ reporter' = r
   BY <1>0, <2>1, <2>2, <2>4, ToldBetween
 <2>6. FieldsInv' BY <2>1, <2>2, <2>3, <2>4, <2>5 DEF HerdrInv, FieldsInv, Pane!Asked, Pane!Started
 <2>7. WorkerInv' /\ HerdrTypes' BY <2>1, <2>2, <2>3, <2>5 DEF HerdrInv, HerdrTypes, WorkerInv
 <2>. QED BY <2>5, <2>6, <2>7 DEF HerdrInv
<1>7. ASSUME NEW q \in Question, Pane!BeginBlock(q) PROVE HerdrInv'
 <2> DEFINE r == [reporter EXCEPT !.blocks = @ + 1]
 <2>1. /\ Pane!Started /\ question[q] = "new" /\ question' = [question EXCEPT ![q] = "asked"] /\ reporter' = r
       /\ IF r.blocks = 1 THEN Pane!Enqueue(r) ELSE UNCHANGED queue
       /\ UNCHANGED <<agent, release, worker, seq, pane>>
   BY <1>7 DEF Pane!BeginBlock
 <2>2. r \in [state : {"idle", "working"}, session : SessionT, blocks : Nat] /\ r.state = reporter.state
       /\ r.blocks = reporter.blocks + 1 /\ r.session = reporter.session
   BY <1>0
 <2> HIDE DEF r
 <2>3. /\ question' \in [Question -> {"new", "asked", "answered"}]
       /\ Cardinality(Pane!Asked') = Cardinality(Pane!Asked) + 1
   BY <2>1, AskedNext
 <2>4. LastInv' /\ queue' \in Seq(ReportT) /\ Len(queue') <= 1
  <3>1. CASE r.blocks = 1 BY <2>1, <2>2, <3>1, Told DEF Pane!Becomes
  <3>2. CASE r.blocks # 1 BY <1>0, <2>1, <2>2, <3>2, NotTold
  <3>. QED BY <3>1, <3>2
 <2>5. FieldsInv' BY <2>1, <2>2, <2>3 DEF HerdrInv, FieldsInv, Pane!Started
 <2>6. WorkerInv' /\ HerdrTypes' BY <2>1, <2>2, <2>3, <2>4 DEF HerdrInv, HerdrTypes, WorkerInv
 <2>. QED BY <2>4, <2>5, <2>6 DEF HerdrInv
<1>8. ASSUME NEW q \in Question, Pane!EndBlock(q) PROVE HerdrInv'
 <2> DEFINE r == [reporter EXCEPT !.blocks = IF @ > 0 THEN @ - 1 ELSE 0]
 <2>1. /\ question[q] = "asked" /\ question' = [question EXCEPT ![q] = "answered"] /\ Pane!BecomesUnblocked(r)
       /\ UNCHANGED <<agent, release, worker, seq, pane>>
   BY <1>8 DEF Pane!EndBlock
 <2>2. /\ question' \in [Question -> {"new", "asked", "answered"}]
       /\ Cardinality(Pane!Asked') = Cardinality(Pane!Asked) - 1 /\ Cardinality(Pane!Asked) > 0
   BY <2>1, AskedNext
 <2>3. r \in [state : {"idle", "working"}, session : SessionT, blocks : Nat] /\ r.state = reporter.state
       /\ r.blocks = reporter.blocks - 1 /\ r.session = reporter.session
   BY <1>0, <2>2 DEF HerdrInv, FieldsInv
 <2> HIDE DEF r
 <2>4. Pane!Started BY <2>1 DEF HerdrInv, FieldsInv, Pane!Asked
 <2>5. LastInv' /\ queue' \in Seq(ReportT) /\ Len(queue') <= 1 /\ reporter' = r
   BY <1>0, <2>1, <2>3, <2>4, ToldBetween
 <2>6. FieldsInv' BY <2>1, <2>2, <2>3, <2>4, <2>5 DEF HerdrInv, FieldsInv, Pane!Started
 <2>7. WorkerInv' /\ HerdrTypes' BY <2>1, <2>2, <2>3, <2>5 DEF HerdrInv, HerdrTypes, WorkerInv
 <2>. QED BY <2>5, <2>6, <2>7 DEF HerdrInv
<1>9. CASE Pane!Work
 <2>1. UNCHANGED <<agent, question, reporter, release, pane>> /\ worker.at = "idle"
   BY <1>9 DEF Pane!Work
 <2>2. FieldsInv' BY <2>1 DEF HerdrInv, FieldsInv, Pane!Asked, Pane!Started
 <2>3. CASE /\ release \in {"canceled", "released"}
            /\ worker' = [worker EXCEPT !.at = "done"] /\ UNCHANGED <<queue, seq>>
  <3>1. worker' \in [at : {"idle", "sending", "failing", "done"}, report : ReportT]
        /\ worker'.at = "done" /\ worker'.report = worker.report
    BY <1>0, <2>3
  <3>. QED BY <2>1, <2>2, <2>3, <3>1 DEF HerdrInv, HerdrTypes, WorkerInv, LastInv
 <2>4. CASE /\ queue # <<>> /\ seq' = seq + 1 /\ queue' = <<>>
            /\ worker' = [at |-> IF release = "canceled" THEN "failing" ELSE "sending",
                          report |-> [Head(queue) EXCEPT !.seq = seq + 1]]
  <3>1. Head(queue) \in ReportT /\ Head(queue) = queue[1] BY <1>0, <2>4
  <3>2. /\ worker' \in [at : {"idle", "sending", "failing", "done"}, report : ReportT]
        /\ worker'.at = IF release = "canceled" THEN "failing" ELSE "sending"
        /\ worker'.report.state = queue[1].state /\ worker'.report.session = queue[1].session
        /\ worker'.report.seq = seq + 1
    BY <1>0, <2>4, <3>1 DEF ReportT
  <3>3. <<>> \in Seq(ReportT) /\ Len(<<>>) = 0 /\ pane.shows.seq \in Nat BY <1>0 DEF ReportT
  <3>4. LastInv' BY <2>1, <2>4, <3>2 DEF HerdrInv, LastInv, Tells, Pane!Started
  <3>5. HerdrTypes' BY <1>0, <2>1, <2>4, <3>2, <3>3 DEF HerdrInv, HerdrTypes
  <3>6. WorkerInv' BY <1>0, <2>1, <2>4, <3>2, <3>3 DEF HerdrInv, WorkerInv
  <3>. QED BY <2>2, <3>4, <3>5, <3>6 DEF HerdrInv
 <2>. QED BY <1>9, <2>3, <2>4 DEF Pane!Work
<1>10. CASE Pane!Send
 <2>1. /\ UNCHANGED <<agent, question, reporter, release, queue, seq>> /\ worker.at \in {"sending", "failing"}
       /\ worker' = [at |-> "idle", report |-> Pane!None]
       /\ \/ worker.at = "sending" /\ pane' = [shows |-> Pane!Shown(worker.report), heard |-> TRUE]
          \/ pane' = [pane EXCEPT !.heard = FALSE]
   BY <1>10 DEF Pane!Send
 <2>2. Pane!None \in ReportT /\ Pane!None.seq = 0 BY DEF Pane!None, ReportT, SessionT
 <2>3. worker' \in [at : {"idle", "sending", "failing", "done"}, report : ReportT]
       /\ worker'.at = "idle" /\ worker'.report.seq <= seq
   BY <1>0, <2>1, <2>2
 <2>4. /\ Pane!Shown(worker.report) \in ReportT /\ Pane!Shown(worker.report).state = worker.report.state
       /\ Pane!Shown(worker.report).seq = worker.report.seq
       /\ worker.report.session = reporter.session
            => Pane!Shown(worker.report).session = Pane!Shown(Pane!Report(reporter)).session
   BY <1>0, ReportType DEF Pane!Shown, ReportT, SessionT
 <2>5. pane' \in [shows : ReportT, heard : BOOLEAN] /\ pane'.shows.seq <= seq /\ pane'.shows.seq \in Nat
  <3>1. worker.report.seq <= seq /\ pane.shows.seq <= seq /\ worker.report.seq \in Nat /\ pane.shows.seq \in Nat
    BY <1>0 DEF HerdrInv, WorkerInv, ReportT
  <3>2. CASE pane' = [shows |-> Pane!Shown(worker.report), heard |-> TRUE] BY <2>4, <3>1, <3>2
  <3>3. CASE pane' = [pane EXCEPT !.heard = FALSE] BY <1>0, <3>1, <3>3
  <3>. QED BY <2>1, <3>2, <3>3
 <2>6. pane'.heard => worker.at = "sending" /\ pane'.shows = Pane!Shown(worker.report) BY <1>0, <2>1
 <2>7. FieldsInv' BY <2>1 DEF HerdrInv, FieldsInv, Pane!Asked, Pane!Started
 <2>8. LastInv' BY <2>1, <2>3, <2>4, <2>6 DEF HerdrInv, LastInv, Tells, Pane!Started
 <2>9. HerdrTypes' BY <2>1, <2>3, <2>5 DEF HerdrInv, HerdrTypes
 <2>10. WorkerInv' BY <2>1, <2>3, <2>5 DEF HerdrInv, WorkerInv
 <2>. QED BY <2>7, <2>8, <2>9, <2>10 DEF HerdrInv
<1>11. CASE Pane!CloseBegins \/ Pane!CloseCancels
 <2>1. /\ release' \in {"closed", "canceled"} /\ release # "released"
       /\ release' = "canceled" \/ (release = "no" /\ release' = "closed")
       /\ UNCHANGED <<agent, question, reporter, queue, worker, seq, pane>>
   BY <1>11 DEF Pane!CloseBegins, Pane!CloseCancels
 <2>2. HerdrTypes' /\ FieldsInv' /\ LastInv'
   BY <2>1 DEF HerdrInv, HerdrTypes, FieldsInv, LastInv, Pane!Asked, Pane!Started
 <2>3. WorkerInv' BY <2>1 DEF HerdrInv, WorkerInv
 <2>. QED BY <2>2, <2>3 DEF HerdrInv
<1>12. CASE Pane!Release
 <2>1. /\ release = "canceled" /\ worker.at = "done" /\ release' = "released" /\ seq' = seq + 1
       /\ UNCHANGED <<agent, question, reporter, queue, worker>>
       /\ \/ pane' = [shows |-> [Pane!None EXCEPT !.seq = seq + 1], heard |-> TRUE]
          \/ pane' = [pane EXCEPT !.heard = FALSE]
   BY <1>12 DEF Pane!Release
 <2>2. pane' \in [shows : ReportT, heard : BOOLEAN] /\ pane'.shows.seq <= seq + 1
       /\ (pane'.heard => pane'.shows.state = "none")
  <3>0. pane.shows.seq <= seq /\ pane.shows.seq \in Nat /\ seq \in Nat
    BY <1>0 DEF HerdrInv, WorkerInv, ReportT
  <3>1. pane.shows.seq <= seq + 1 /\ seq + 1 <= seq + 1 /\ seq + 1 \in Nat BY <3>0
  <3>2. /\ [Pane!None EXCEPT !.seq = seq + 1] \in ReportT /\ [Pane!None EXCEPT !.seq = seq + 1].seq = seq + 1
        /\ [Pane!None EXCEPT !.seq = seq + 1].state = "none"
    BY <3>1 DEF Pane!None, ReportT, SessionT
  <3>3. CASE pane' = [shows |-> [Pane!None EXCEPT !.seq = seq + 1], heard |-> TRUE]
   <4>1. pane'.shows = [Pane!None EXCEPT !.seq = seq + 1] /\ pane'.heard = TRUE BY <3>3
   <4>2. pane' \in [shows : ReportT, heard : BOOLEAN] BY <3>2, <3>3
   <4>. QED BY <3>1, <3>2, <4>1, <4>2
  <3>4. CASE pane' = [pane EXCEPT !.heard = FALSE]
   <4>1. pane'.shows = pane.shows /\ pane'.heard = FALSE /\ pane' \in [shows : ReportT, heard : BOOLEAN]
     BY <1>0, <3>4
   <4>. QED BY <3>1, <4>1
  <3>. QED BY <2>1, <3>3, <3>4
 <2>3. worker.report.seq \in Nat /\ worker.report.seq <= seq + 1
   BY <1>0 DEF ReportT, HerdrInv, WorkerInv
 <2>. QED BY <1>0, <2>1, <2>2, <2>3
      DEF HerdrInv, HerdrTypes, FieldsInv, LastInv, WorkerInv, Pane!Asked, Pane!Started
<1>13. CASE UNCHANGED Pane!vars
  BY <1>13
     DEF Pane!vars, HerdrInv, HerdrTypes, FieldsInv, LastInv, WorkerInv, Tells, Pane!Asked,
         Pane!Started
<1>. QED BY <1>1, <1>2, <1>3, <1>4, <1>5, <1>6, <1>7, <1>8, <1>9, <1>10, <1>11, <1>12, <1>13
     DEF Pane!Next, Pane!Close

\* It implies what the reporter promises.
LEMMA HerdrImplies == HerdrParameters /\ HerdrInv => Pane!HerdrSafe
<1> SUFFICES ASSUME HerdrParameters, HerdrInv PROVE Pane!HerdrSafe
  OBVIOUS
<1>1. IsFiniteSet(Pane!Asked) /\ Cardinality(Pane!Asked) \in Nat /\ (Pane!Asked = {} <=> Cardinality(Pane!Asked) = 0)
  BY FS_Subset, FS_CardinalityType, FS_EmptySet DEF HerdrParameters, Pane!Asked
<1>2. Cardinality(Question) \in Nat /\ Cardinality(Pane!Asked) <= Cardinality(Question)
  BY FS_Subset, FS_CardinalityType DEF HerdrParameters, Pane!Asked
<1>3. Pane!TypeOK BY <1>1, <1>2, SameCardinality DEF Pane!TypeOK, HerdrInv, HerdrTypes, FieldsInv
<1>4. Pane!ShowsTheAgent
  BY <1>1
     DEF HerdrInv, HerdrTypes, FieldsInv, LastInv, Tells, Pane!Report, Pane!ShowsTheAgent,
         Pane!StateOfAgent
<1>5. Pane!ReleasedLast BY DEF HerdrInv, WorkerInv, Pane!ReleasedLast
<1>. QED BY <1>3, <1>4, <1>5 DEF Pane!HerdrSafe

\* However hooks, questions, switches and Close meet in the queue of one report, the
\* pane shows what the agent does when all is quiet, and it is released last.
THEOREM PanesAreSafe ==
  ASSUME HerdrParameters
  PROVE  Pane!Spec => []Pane!HerdrSafe
<1>1. Pane!Init => HerdrInv BY HerdrInit
<1>2. HerdrInv /\ [Pane!Next]_(Pane!vars) => HerdrInv' BY HerdrNext
<1>3. HerdrInv => Pane!HerdrSafe BY HerdrImplies
<1>. QED BY <1>1, <1>2, <1>3, PTL DEF Pane!Spec

----------------------------------------
(* The precedence of semantic versions, as the standard states it, and that*)
(* the comparison of semver.go agrees with it.                             *)

Identifier == [numeric : BOOLEAN, value : Nat]

IsVersion(v) ==
  /\ v.core \in Seq(Nat) /\ Len(v.core) = 3 /\ v.pre \in Seq(Identifier)
  /\ \A i \in DOMAIN v.pre : v.pre[i].numeric => v.pre[i].value <= MaxUint

IdentifierBefore(a, b) == IF a.numeric = b.numeric THEN a.value < b.value ELSE a.numeric

SameBelow(f, g, k) == \A j \in 1..(k - 1) : f[j] = g[j]

CoreBefore(v, w) == \E k \in 1..3 : SameBelow(v.core, w.core, k) /\ v.core[k] < w.core[k]

PreBefore(v, w) ==
  \/ v.pre # <<>> /\ w.pre = <<>>
  \/ /\ v.pre # <<>> /\ w.pre # <<>>
     /\ \/ \E k \in DOMAIN v.pre \cap DOMAIN w.pre :
             SameBelow(v.pre, w.pre, k) /\ IdentifierBefore(v.pre[k], w.pre[k])
        \/ Len(v.pre) < Len(w.pre) /\ SameBelow(v.pre, w.pre, Len(v.pre) + 1)

Precedes(v, w) == CoreBefore(v, w) \/ (SameBelow(v.core, w.core, 4) /\ PreBefore(v, w))

LEMMA LeastOfNat == \A T \in SUBSET Nat : T # {} => \E x \in T : \A y \in T : x <= y
<1> SUFFICES ASSUME NEW T \in SUBSET Nat, T # {} PROVE \E x \in T : \A y \in T : x <= y
  OBVIOUS
<1>1. PICK x \in T : \A y \in T : ~(<<y, x>> \in OpToRel(<, Nat))
  BY WFMin, NatLessThanWellFounded, Zenon
<1>2. \A y \in T : ~(y < x) BY <1>1 DEF OpToRel
<1>. QED BY <1>2

LEMMA FirstDifferenceIs ==
  ASSUME NEW f, NEW g, NEW n \in Nat \ {0}
  PROVE  LET k == Ups!FirstDifference(f, g, n)
         IN  k \in 1..n /\ SameBelow(f, g, k) /\ (k < n => f[k] # g[k])
<1> DEFINE D == {i \in 1..(n - 1) : f[i] # g[i]}
<1>1. CASE D = {}
 <2>1. Ups!FirstDifference(f, g, n) = n BY <1>1 DEF Ups!FirstDifference
 <2>2. \A j \in 1..(n - 1) : f[j] = g[j] BY <1>1
 <2>. QED BY <2>1, <2>2 DEF SameBelow
<1>2. CASE D # {}
 <2> DEFINE k == CHOOSE i \in D : \A j \in D : i <= j
 <2>1. Ups!FirstDifference(f, g, n) = k BY <1>2 DEF Ups!FirstDifference
 <2>2. D \in SUBSET Nat OBVIOUS
 <2>3. \E i \in D : \A j \in D : i <= j BY <1>2, <2>2, LeastOfNat
 <2>4. k \in D /\ \A j \in D : k <= j BY <2>3
 <2> HIDE DEF k
 <2>5. k \in 1..(n - 1) /\ f[k] # g[k] BY <2>4
 <2>6. ASSUME NEW j \in 1..(k - 1) PROVE f[j] = g[j]
  <3>1. j \in 1..(n - 1) /\ ~(k <= j) BY <2>5
  <3>2. j \notin D BY <2>4, <3>1
  <3>. QED BY <3>1, <3>2
 <2>. QED BY <2>1, <2>5, <2>6 DEF SameBelow
<1>. QED BY <1>1, <1>2

LEMMA SignIs == \A a, b \in Int : Ups!Sign(a - b) < 0 => a < b
  BY DEF Ups!Sign

LEMMA ElementOfSeq ==
  ASSUME NEW S, NEW f \in Seq(S), NEW n \in Nat, Len(f) = n, NEW j \in 1..n
  PROVE  f[j] \in S
  OBVIOUS

LEMMA CompareIsPrecedence ==
  ASSUME MaxUint \in Nat, NEW v, NEW w, IsVersion(v), IsVersion(w), Ups!Compare(v, w) < 0
  PROVE  Precedes(v, w)
<1> DEFINE k == Ups!FirstDifference(v.core, w.core, 4)
           s == Ups!Shorter(v.pre, w.pre)
           i == Ups!FirstDifference(v.pre, w.pre, s + 1)
<1>1. k \in 1..4 /\ SameBelow(v.core, w.core, k) BY FirstDifferenceIs, 4 \in Nat \ {0}
<1>2. /\ v.core \in Seq(Nat) /\ w.core \in Seq(Nat) /\ Len(v.core) = 3 /\ Len(w.core) = 3
      /\ v.pre \in Seq(Identifier) /\ w.pre \in Seq(Identifier)
  BY DEF IsVersion
<1>3. /\ Len(v.pre) \in Nat /\ Len(w.pre) \in Nat /\ DOMAIN v.pre = 1..Len(v.pre) /\ DOMAIN w.pre = 1..Len(w.pre)
      /\ v.pre = <<>> <=> Len(v.pre) = 0
      /\ w.pre = <<>> <=> Len(w.pre) = 0
  BY <1>2
<1>4. s \in Nat /\ s <= Len(v.pre) /\ s <= Len(w.pre) /\ (s = Len(v.pre) \/ s = Len(w.pre))
  BY <1>3 DEF Ups!Shorter
<1> HIDE DEF s
<1>5. i \in 1..(s + 1) /\ SameBelow(v.pre, w.pre, i) /\ (i < s + 1 => v.pre[i] # w.pre[i])
 <2>1. s + 1 \in Nat \ {0} BY <1>4
 <2>. QED BY <2>1, FirstDifferenceIs
<1> DEFINE core == Ups!Sign(v.core[k] - w.core[k])
           released == Ups!Sign(Len(w.pre) - Len(v.pre))
           identifier == Ups!CompareIdentifiers(v.pre[i], w.pre[i])
           length == Ups!Sign(Len(v.pre) - Len(w.pre))
<1>6. Ups!Compare(v, w) =
        CASE k < 4 -> core
          [] k = 4 /\ (v.pre = <<>> \/ w.pre = <<>>) -> released
          [] k = 4 /\ v.pre # <<>> /\ w.pre # <<>> /\ i <= s -> identifier
          [] OTHER -> length
  BY DEF Ups!Compare, s
<1> HIDE DEF k, i, core, released, identifier, length
<1>7. CASE k < 4
 <2>1. k \in 1..3 /\ v.core[k] \in Nat /\ w.core[k] \in Nat BY SMTT(40), <1>1, <1>2, <1>7
 <2>2. Ups!Sign(v.core[k] - w.core[k]) < 0
  <3>1. core < 0 BY <1>1, <1>4, <1>5, <1>6, <1>7
  <3>. QED BY <3>1 DEF core
 <2>3. v.core[k] < w.core[k] BY <2>1, <2>2 DEF Ups!Sign
 <2>. QED BY <1>1, <2>1, <2>3 DEF Precedes, CoreBefore
<1>8. CASE k = 4 /\ (v.pre = <<>> \/ w.pre = <<>>)
 <2>1. Ups!Sign(Len(w.pre) - Len(v.pre)) < 0
  <3>1. released < 0 BY <1>1, <1>4, <1>5, <1>6, <1>8
  <3>. QED BY <3>1 DEF released
 <2>2. Len(w.pre) < Len(v.pre)
  <3>1. Len(v.pre) \in Int /\ Len(w.pre) \in Int BY <1>3
  <3>. QED BY <2>1, <3>1, SignIs, Zenon
 <2>3. v.pre # <<>> /\ w.pre = <<>> BY <1>3, <1>8, <2>2
 <2>. QED BY <1>1, <1>8, <2>3 DEF Precedes, PreBefore
<1>9. CASE k = 4 /\ v.pre # <<>> /\ w.pre # <<>> /\ i <= s
 <2>1. Ups!CompareIdentifiers(v.pre[i], w.pre[i]) < 0
  <3>1. identifier < 0 BY <1>1, <1>4, <1>5, <1>6, <1>9
  <3>. QED BY <3>1 DEF identifier
 <2>2. i \in DOMAIN v.pre \cap DOMAIN w.pre BY <1>3, <1>4, <1>5, <1>9
 <2> DEFINE x == v.pre[i]
            y == w.pre[i]
 <2>3. /\ x \in Identifier /\ y \in Identifier
       /\ (x.numeric => x.value <= MaxUint) /\ (y.numeric => y.value <= MaxUint)
   BY <1>2, <2>2 DEF IsVersion
 <2> HIDE DEF x, y
 <2>4. Ups!CompareIdentifiers(x, y) < 0 BY <2>1 DEF x, y
 <2>5. IdentifierBefore(x, y)
  <3>1. x.numeric \in BOOLEAN /\ y.numeric \in BOOLEAN /\ x.value \in Nat /\ y.value \in Nat
    BY <2>3 DEF Identifier
  <3>2. CASE x.numeric /\ y.numeric
    BY <2>3, <2>4, <3>1, <3>2
       DEF Ups!CompareIdentifiers, IdentifierBefore, Ups!Parsed
  <3>3. CASE x.numeric /\ ~y.numeric BY <3>1, <3>3 DEF IdentifierBefore
  <3>4. CASE ~x.numeric /\ y.numeric BY <2>4, <3>1, <3>4 DEF Ups!CompareIdentifiers
  <3>5. CASE ~x.numeric /\ ~y.numeric
    BY <2>4, <3>1, <3>5 DEF Ups!CompareIdentifiers, IdentifierBefore
  <3>. QED BY <3>1, <3>2, <3>3, <3>4, <3>5
 <2>6. IdentifierBefore(v.pre[i], w.pre[i]) BY <2>5 DEF x, y
 <2>. QED BY <1>1, <1>5, <1>9, <2>2, <2>6 DEF Precedes, PreBefore
<1>10. CASE k = 4 /\ v.pre # <<>> /\ w.pre # <<>> /\ ~(i <= s)
 <2>1. Ups!Sign(Len(v.pre) - Len(w.pre)) < 0
  <3>1. length < 0 BY <1>1, <1>4, <1>5, <1>6, <1>10
  <3>. QED BY <3>1 DEF length
 <2>2. Len(v.pre) < Len(w.pre)
  <3>1. Len(v.pre) \in Int /\ Len(w.pre) \in Int BY <1>3
  <3>. QED BY <2>1, <3>1, SignIs, Zenon
 <2>3. s = Len(v.pre) /\ i = s + 1 BY <1>3, <1>4, <1>5, <1>10, <2>2
 <2>. QED BY <1>1, <1>5, <1>10, <2>2, <2>3 DEF Precedes, PreBefore
<1>. QED BY <1>1, <1>7, <1>8, <1>9, <1>10

LEMMA PrecedenceIsStrict ==
  ASSUME NEW v, NEW w, IsVersion(v), IsVersion(w), Precedes(v, w), Precedes(w, v)
  PROVE  FALSE
<1>1. /\ \A j \in 1..3 : v.core[j] \in Nat /\ w.core[j] \in Nat
      /\ v.pre \in Seq(Identifier) /\ w.pre \in Seq(Identifier)
 <2>1. ASSUME NEW f \in Seq(Nat), Len(f) = 3, NEW j \in 1..3 PROVE f[j] \in Nat
   BY <2>1, ElementOfSeq, Zenon
 <2>. QED BY <2>1 DEF IsVersion
<1>2. /\ Len(v.pre) \in Nat /\ Len(w.pre) \in Nat /\ DOMAIN v.pre = 1..Len(v.pre) /\ DOMAIN w.pre = 1..Len(w.pre)
      /\ \A j \in DOMAIN v.pre : v.pre[j].numeric \in BOOLEAN /\ v.pre[j].value \in Nat
      /\ \A j \in DOMAIN w.pre : w.pre[j].numeric \in BOOLEAN /\ w.pre[j].value \in Nat
 <2>1. \A f \in Seq(Identifier) : /\ Len(f) \in Nat /\ DOMAIN f = 1..Len(f)
                                 /\ \A j \in DOMAIN f : f[j] \in Identifier
   OBVIOUS
 <2>2. \A d \in Identifier : d.numeric \in BOOLEAN /\ d.value \in Nat BY DEF Identifier
 <2>. QED BY <1>1, <2>1, <2>2
<1>3. ~(CoreBefore(v, w) /\ CoreBefore(w, v))
 <2> SUFFICES ASSUME NEW k \in 1..3, SameBelow(v.core, w.core, k), v.core[k] < w.core[k],
                     NEW l \in 1..3, SameBelow(w.core, v.core, l), w.core[l] < v.core[l]
              PROVE  FALSE
   BY DEF CoreBefore
 <2>1. CASE k < l
  <3>1. k \in 1..(l - 1) BY <2>1
  <3>2. w.core[k] = v.core[k] BY <3>1 DEF SameBelow
  <3>. QED BY <1>1, <3>2
 <2>2. CASE l < k
  <3>1. l \in 1..(k - 1) BY <2>2
  <3>2. w.core[l] = v.core[l] BY <3>1 DEF SameBelow
  <3>. QED BY <1>1, <3>2
 <2>3. CASE k = l BY SMTT(40), <1>1, <2>3
 <2>. QED BY <2>1, <2>2, <2>3
<1>4. ~(CoreBefore(v, w) /\ SameBelow(w.core, v.core, 4)) /\ ~(CoreBefore(w, v) /\ SameBelow(v.core, w.core, 4))
  BY <1>1 DEF CoreBefore, SameBelow
<1>5. ~(PreBefore(v, w) /\ PreBefore(w, v))
 <2> SUFFICES ASSUME PreBefore(v, w), PreBefore(w, v) PROVE FALSE
   OBVIOUS
 <2>1. /\ \/ \E k \in DOMAIN v.pre \cap DOMAIN w.pre :
               SameBelow(v.pre, w.pre, k) /\ IdentifierBefore(v.pre[k], w.pre[k])
          \/ Len(v.pre) < Len(w.pre) /\ SameBelow(v.pre, w.pre, Len(v.pre) + 1)
       /\ \/ \E k \in DOMAIN v.pre \cap DOMAIN w.pre :
               SameBelow(w.pre, v.pre, k) /\ IdentifierBefore(w.pre[k], v.pre[k])
          \/ Len(w.pre) < Len(v.pre) /\ SameBelow(w.pre, v.pre, Len(w.pre) + 1)
   BY DEF PreBefore
 <2>2. ASSUME NEW k \in DOMAIN v.pre \cap DOMAIN w.pre, IdentifierBefore(v.pre[k], w.pre[k])
       PROVE  v.pre[k] # w.pre[k] /\ ~IdentifierBefore(w.pre[k], v.pre[k])
  <3>1. /\ v.pre[k].numeric \in BOOLEAN /\ v.pre[k].value \in Nat
        /\ w.pre[k].numeric \in BOOLEAN /\ w.pre[k].value \in Nat
    BY <1>2
  <3>. QED BY <2>2, <3>1 DEF IdentifierBefore
 <2>3. ASSUME NEW k \in DOMAIN v.pre \cap DOMAIN w.pre, IdentifierBefore(w.pre[k], v.pre[k])
       PROVE  v.pre[k] # w.pre[k]
  <3>1. /\ v.pre[k].numeric \in BOOLEAN /\ v.pre[k].value \in Nat
        /\ w.pre[k].numeric \in BOOLEAN /\ w.pre[k].value \in Nat
    BY <1>2
  <3>. QED BY <2>3, <3>1 DEF IdentifierBefore
 <2>4. CASE \E k \in DOMAIN v.pre \cap DOMAIN w.pre :
               SameBelow(v.pre, w.pre, k) /\ IdentifierBefore(v.pre[k], w.pre[k])
  <3>1. PICK k \in DOMAIN v.pre \cap DOMAIN w.pre :
              SameBelow(v.pre, w.pre, k) /\ IdentifierBefore(v.pre[k], w.pre[k])
    BY <2>4
  <3>2. CASE Len(w.pre) < Len(v.pre) /\ SameBelow(w.pre, v.pre, Len(w.pre) + 1)
   <4>1. k \in 1..(Len(w.pre) + 1 - 1) BY <1>2
   <4>. QED BY <2>2, <3>1, <3>2, <4>1 DEF SameBelow
  <3>3. ASSUME NEW l \in DOMAIN v.pre \cap DOMAIN w.pre, SameBelow(w.pre, v.pre, l),
               IdentifierBefore(w.pre[l], v.pre[l])
        PROVE  FALSE
   <4>1. k \in Nat /\ l \in Nat /\ 1 <= k /\ 1 <= l BY <1>2
   <4>2. CASE k < l BY <2>2, <3>1, <3>3, <4>1, <4>2 DEF SameBelow
   <4>3. CASE l < k BY <2>3, <3>1, <3>3, <4>1, <4>3 DEF SameBelow
   <4>4. CASE k = l BY <2>2, <3>1, <3>3, <4>4
   <4>. QED BY <4>1, <4>2, <4>3, <4>4
  <3>. QED BY <2>1, <3>2, <3>3
 <2>5. CASE Len(v.pre) < Len(w.pre) /\ SameBelow(v.pre, w.pre, Len(v.pre) + 1)
  <3>1. ASSUME NEW l \in DOMAIN v.pre \cap DOMAIN w.pre, IdentifierBefore(w.pre[l], v.pre[l])
        PROVE  FALSE
   <4>1. l \in 1..(Len(v.pre) + 1 - 1) BY <1>2
   <4>. QED BY <2>3, <2>5, <3>1, <4>1 DEF SameBelow
  <3>. QED BY <1>2, <2>1, <2>5, <3>1
 <2>. QED BY <2>1, <2>4, <2>5
<1>6. SameBelow(v.core, w.core, 4) <=> SameBelow(w.core, v.core, 4) BY DEF SameBelow
<1>. QED BY <1>3, <1>4, <1>5, <1>6 DEF Precedes

----------------------------------------
(* The upgrades of upgrade.go: the inductive invariant.                    *)

\* Releases are listed in their precedence, and their numbers are read as they are.
UpgradeParameters ==
  /\ MaxUint \in Nat /\ MaxClock \in Nat /\ Release \in Seq({Release[i] : i \in DOMAIN Release})
  /\ \A i \in DOMAIN Release : Release[i].semver /\ IsVersion(Release[i])
  /\ \A i, j \in DOMAIN Release : i < j => Precedes(Release[i], Release[j])

FileT == [version : Ups!Version \cup {<<>>}, id : Nat \cup {-1}, whole : BOOLEAN, synced : BOOLEAN]
StampT == [kind : {"none", "corrupt", "time"}, at : 0..MaxClock]

\* The stages at which a process has a temporary file, and those of Windows only.
Temporary == {"write", "sync", "replace", "clear", "aside", "in", "undo"}
Moving == {"clear", "aside", "in", "undo", "drop"}

ProcT ==
  [at : {"out", "runs", "start", "stamp", "restamp", "lookup", "download", "create", "drop", "updated"} \cup Temporary,
   auto : BOOLEAN, force : BOOLEAN, target : 0..Len(Release), image : FileT, run : Nat, now : 0..MaxClock,
   pick : 0..Len(Release), archive : {"none", "whole", "cut"}]

UpgradeTypes ==
  /\ os \in {"unix", "windows"} /\ clock \in 0..MaxClock /\ stamp \in StampT /\ starts \in Nat
  /\ exe \in FileT /\ backup \in FileT /\ temps \subseteq FileT
  /\ proc \in [Upgrader -> ProcT]

\* What has the name of the executable, or its backup, is a whole synced version.
UpgradeSound(file) ==
  file = Ups!NoFile \/ (file.id \in Nat /\ file.version \in Ups!Version /\ file.whole /\ file.synced)

Installed ==
  /\ UpgradeSound(exe) /\ UpgradeSound(backup)
  /\ Ups!Here(exe) \/ (os = "windows" /\ Ups!Here(backup))

OwnFiles ==
  /\ \A f \in temps : f.id \in 1..starts /\ f.version \in Ups!Version
  /\ \A f, g \in temps : f.id = g.id => f = g

\* What holds of a process with record r.
Holds(r) ==
  /\ r.at = "out" => r.run = 0
  /\ r.at # "out" => r.run \in 1..starts /\ r.image.id \in Nat /\ r.image.version \in Ups!Version
  /\ r.at # "out" /\ os = "windows" => r.image.id \in {exe.id, backup.id}
  /\ r.at \in Temporary =>
       \E f \in temps : /\ f.id = r.run /\ (r.at # "write" => f.whole)
                        /\ (r.at \notin {"write", "sync"} => f.synced)
  /\ r.at \notin Temporary \cup {"out"} => \A f \in temps : f.id # r.run
  /\ r.at \in {"create", "write"} => r.archive = "whole"
  /\ r.at \in {"download", "create"} => r.pick # 0
  /\ r.at = "replace" => os = "unix"
  /\ r.at \in Moving => os = "windows"
  /\ r.pick # 0 /\ ~r.force /\ r.image.version \notin Dev =>
       \E i \in DOMAIN Release : Release[i] = r.image.version /\ i < r.pick

OwnRuns == \A p, q \in Upgrader : p # q /\ proc[p].at # "out" /\ proc[q].at # "out" => proc[p].run # proc[q].run

UpgradeInv ==
  UpgradeTypes /\ Installed /\ OwnFiles /\ OwnRuns /\ \A p \in Upgrader : Holds(proc[p])

LEMMA NoFileIs == Ups!NoFile \in FileT /\ Ups!NoFile.id = -1 /\ Ups!NoFile.version = <<>> /\ UpgradeSound(Ups!NoFile)
  BY DEF Ups!NoFile, FileT, UpgradeSound

LEMMA OutIs ==
  ASSUME UpgradeParameters
  PROVE  /\ Ups!Out \in ProcT /\ Ups!Out.at = "out" /\ Ups!Out.pick = 0 /\ Ups!Out.archive = "none" /\ ~Ups!Out.force
         /\ Ups!Out.image = Ups!NoFile /\ Ups!Out.run = 0
<1>1. 0 \in 0..Len(Release) /\ 0 \in 0..MaxClock
 <2>1. Len(Release) \in Nat BY DEF UpgradeParameters
 <2>. QED BY <2>1 DEF UpgradeParameters
<1>2. Ups!NoFile \in FileT BY NoFileIs
<1> HIDE DEF UpgradeParameters
<1>. QED BY <1>1, <1>2 DEF Ups!Out, ProcT

LEMMA OutHolds == UpgradeParameters => Holds(Ups!Out)
  BY OutIs DEF Holds, Temporary, Moving

LEMMA UpgradeInit == UpgradeParameters /\ Ups!Init => UpgradeInv
<1> SUFFICES ASSUME UpgradeParameters, Ups!Init PROVE UpgradeInv
  OBVIOUS
<1>1. PICK v \in Ups!Version : exe = [version |-> v, id |-> 0, whole |-> TRUE, synced |-> TRUE]
  BY DEF Ups!Init
<1>2. exe \in FileT /\ exe.id = 0 /\ exe.version \in Ups!Version /\ exe.whole /\ exe.synced
  BY <1>1 DEF FileT
<1>3. stamp \in StampT /\ clock \in 0..MaxClock
  BY DEF Ups!Init, StampT, Ups!NoStamp, Ups!Corrupt, UpgradeParameters
<1>4. UpgradeTypes BY <1>2, <1>3, OutIs, NoFileIs DEF Ups!Init, UpgradeTypes
<1>5. Installed BY <1>2, NoFileIs DEF Ups!Init, Installed, UpgradeSound, Ups!Here
<1>6. OwnFiles /\ OwnRuns BY OutIs DEF Ups!Init, OwnFiles, OwnRuns
<1>7. \A p \in Upgrader : Holds(proc[p]) BY OutHolds DEF Ups!Init
<1>. QED BY <1>4, <1>5, <1>6, <1>7 DEF UpgradeInv

\* A step of process p, which becomes r: the others keep what holds of them.
LEMMA OneProcess ==
  ASSUME UpgradeParameters, UpgradeInv, NEW p \in Upgrader, NEW r \in ProcT,
         proc' = [proc EXCEPT ![p] = r], os' = os, starts' \in {starts, starts + 1},
         clock' = clock, stamp' \in StampT, exe' \in FileT, backup' \in FileT, temps' \subseteq FileT,
         Installed', OwnFiles', Holds(r)',
         \A f : f.id # proc[p].run => (f \in temps' <=> f \in temps),
         \A q \in Upgrader : q # p /\ proc[q].at # "out" /\ os = "windows" =>
           proc[q].image.id \in {exe'.id, backup'.id},
         r.at # "out" => \/ r.run = proc[p].run /\ proc[p].at # "out"
                         \/ r.run = starts + 1 /\ starts' = starts + 1
  PROVE  UpgradeInv'
<1>0. UpgradeTypes /\ OwnRuns /\ \A q \in Upgrader : Holds(proc[q]) BY DEF UpgradeInv
<1>1. /\ proc' \in [Upgrader -> ProcT] /\ proc'[p] = r /\ \A q \in Upgrader : q # p => proc'[q] = proc[q]
      /\ starts \in Nat
  BY <1>0 DEF UpgradeTypes
<1>2. UpgradeTypes' BY <1>0, <1>1 DEF UpgradeTypes
<1>3. \A q \in Upgrader : (proc[q].at # "out" => proc[q].run \in 1..starts) /\ (proc[q].at = "out" => proc[q].run = 0)
  BY <1>0 DEF Holds
<1>4. \A q \in Upgrader : q # p /\ r.at # "out" /\ proc[q].at # "out" => proc[q].run # r.run
 <2> SUFFICES ASSUME NEW q \in Upgrader, q # p, r.at # "out", proc[q].at # "out" PROVE proc[q].run # r.run
   OBVIOUS
 <2>1. CASE r.run = proc[p].run /\ proc[p].at # "out" BY <1>0, <2>1 DEF OwnRuns
 <2>2. CASE r.run = starts + 1 BY <1>1, <1>3, <2>2
 <2>. QED BY <2>1, <2>2
<1>5. OwnRuns' BY <1>0, <1>1, <1>4 DEF OwnRuns
<1>6. ASSUME NEW q \in Upgrader PROVE Holds(proc[q])'
 <2>1. CASE q = p BY <1>1, <2>1
 <2>2. CASE q # p
  <3> PICK s \in ProcT : s = proc[q] BY <1>0 DEF UpgradeTypes
  <3>1. Holds(s) /\ proc'[q] = s BY <1>0, <1>1, <2>2
  <3>2. s.at # "out" => s.run # proc[p].run BY <1>0, <1>3, <2>2 DEF OwnRuns
  <3>3. s.at # "out" => \A f : f.id = s.run => (f \in temps' <=> f \in temps) BY <3>2
  <3>4. s.at # "out" => s.run \in 1..starts' BY <1>1, <1>3
  <3>5. s.at # "out" /\ os = "windows" => s.image.id \in {exe'.id, backup'.id} BY <2>2
  <3>6. s.at \in Temporary => s.at # "out" BY DEF Temporary
  <3>7. Holds(s)' BY <3>1, <3>3, <3>4, <3>5, <3>6 DEF Holds
  <3>. QED BY <3>1, <3>7
 <2>. QED BY <2>1, <2>2
<1>. QED BY <1>2, <1>5, <1>6 DEF UpgradeInv

LEMMA OneIs ==
  ASSUME UpgradeInv, NEW p \in Upgrader
  PROVE  /\ proc[p] \in ProcT /\ Holds(proc[p]) /\ proc \in [Upgrader -> ProcT]
         /\ starts \in Nat /\ stamp \in StampT /\ exe \in FileT /\ backup \in FileT /\ temps \subseteq FileT
         /\ Installed /\ OwnFiles
  BY DEF UpgradeInv, UpgradeTypes

\* The temporary file of a process.
LEMMA TempIs ==
  ASSUME UpgradeInv, NEW p \in Upgrader, proc[p].at \in Temporary
  PROVE  /\ Ups!Temp(p) \in temps /\ Ups!Temp(p) \in FileT /\ Ups!Temp(p).id = proc[p].run /\ Ups!Temp(p).id \in 1..starts
         /\ Ups!Temp(p).version \in Ups!Version
         /\ \A f \in temps : f.id = proc[p].run => f = Ups!Temp(p)
         /\ proc[p].at # "write" => Ups!Temp(p).whole
         /\ proc[p].at \notin {"write", "sync"} => Ups!Temp(p).synced
<1>1. PICK f \in temps : /\ f.id = proc[p].run /\ (proc[p].at # "write" => f.whole)
                         /\ (proc[p].at \notin {"write", "sync"} => f.synced)
  BY OneIs DEF Holds
<1>2. Ups!Temp(p) \in temps /\ Ups!Temp(p).id = proc[p].run BY <1>1 DEF Ups!Temp
<1>3. \A g \in temps : g.id = proc[p].run => g = Ups!Temp(p) BY <1>2, OneIs DEF OwnFiles
<1>4. f = Ups!Temp(p) BY <1>1, <1>3
<1>. QED BY <1>1, <1>2, <1>3, <1>4, OneIs DEF OwnFiles

\* A step of a process that touches no file of the executable.
LEMMA FilesKept ==
  ASSUME UpgradeParameters, UpgradeInv, NEW p \in Upgrader, NEW r \in ProcT,
         proc' = [proc EXCEPT ![p] = r], UNCHANGED <<os, clock, exe, backup, temps>>,
         starts' \in {starts, starts + 1}, stamp' \in StampT, Holds(r)',
         r.at # "out" => \/ r.run = proc[p].run /\ proc[p].at # "out"
                         \/ r.run = starts + 1 /\ starts' = starts + 1
  PROVE  UpgradeInv'
<1>1. Installed' BY OneIs DEF Installed, Ups!Here
<1>2. OwnFiles' BY OneIs DEF OwnFiles
<1>3. \A q \in Upgrader : proc[q].at # "out" /\ os = "windows" => proc[q].image.id \in {exe'.id, backup'.id}
  BY OneIs DEF Holds
<1>. QED BY <1>1, <1>2, <1>3, OneIs, OneProcess

\* A session begins, or a command ends, with no temporary file of its own.
LEMMA OverKeeps ==
  ASSUME UpgradeParameters, UpgradeInv, NEW p \in Upgrader, proc[p].at # "out", Ups!Over(p),
         UNCHANGED <<os, clock, starts>>, stamp' \in StampT, exe' \in FileT, backup' \in FileT, Installed',
         \A q \in Upgrader : proc[q].at # "out" /\ os = "windows" => proc[q].image.id \in {exe'.id, backup'.id},
         temps' = {f \in temps : f.id # proc[p].run}
  PROVE  UpgradeInv'
<1>1. PICK r : r = [Ups!Out EXCEPT !.at = "runs", !.image = proc[p].image, !.run = proc[p].run]
  OBVIOUS
<1>2. /\ r \in ProcT /\ r.at = "runs" /\ r.image = proc[p].image /\ r.run = proc[p].run
      /\ r.pick = 0
 <2>1. proc[p].image \in FileT /\ proc[p].run \in Nat BY OneIs DEF ProcT
 <2>. QED BY <1>1, <2>1, OutIs DEF ProcT
<1>3. proc' = [proc EXCEPT ![p] = r] BY <1>1 DEF Ups!Over
<1>4. r.run \in 1..starts /\ r.image.id \in Nat /\ r.image.version \in Ups!Version
  BY <1>2, OneIs DEF Holds
<1>5. Holds(r)' BY <1>2, <1>4 DEF Holds, Temporary, Moving
<1>6. OwnFiles' /\ temps' \subseteq FileT BY OneIs DEF OwnFiles
<1>. QED BY <1>2, <1>3, <1>5, <1>6, OneIs, OneProcess

\* A process goes to its next stage: the other fields stay.
LEMMA GoToIs ==
  ASSUME UpgradeInv, NEW p \in Upgrader, NEW stage, Ups!GoTo(p, stage),
         stage \in {"lookup", "restamp", "write", "updated", "drop", "undo", "in", "aside", "sync", "replace", "clear"}
  PROVE  \E r \in ProcT :
           /\ proc' = [proc EXCEPT ![p] = r] /\ r.at = stage /\ r.auto = proc[p].auto /\ r.force = proc[p].force
           /\ r.image = proc[p].image /\ r.run = proc[p].run /\ r.pick = proc[p].pick /\ r.archive = proc[p].archive
<1>1. PICK r : r = [proc[p] EXCEPT !.at = stage] OBVIOUS
<1>2. /\ r \in ProcT /\ r.at = stage /\ r.auto = proc[p].auto /\ r.force = proc[p].force
      /\ r.image = proc[p].image /\ r.run = proc[p].run /\ r.pick = proc[p].pick /\ r.archive = proc[p].archive
  BY ZenonT(40), <1>1, OneIs DEF ProcT, Temporary
<1>3. proc' = [proc EXCEPT ![p] = r] BY <1>1 DEF Ups!GoTo
<1>. QED BY <1>2, <1>3

\* A process that becomes the executable, in the session of an upgrade or as a new one.
LEMMA BeginKeeps ==
  ASSUME UpgradeParameters, UpgradeInv, NEW p \in Upgrader,
         NEW how \in [auto : BOOLEAN, force : BOOLEAN, target : 0..Len(Release)],
         Ups!Begin(p, how), UNCHANGED <<os, clock, stamp, exe, backup, temps>>
  PROVE  UpgradeInv'
<1>1. PICK r : r = [Ups!Out EXCEPT !.image = exe, !.run = starts + 1, !.auto = how.auto, !.force = how.force,
                                        !.target = how.target, !.at = IF how.auto THEN "start" ELSE "lookup"]
  OBVIOUS
<1>2. /\ r \in ProcT /\ r.at \in {"start", "lookup"} /\ r.image = exe /\ r.run = starts + 1 /\ r.pick = 0
 <2> PICK at : at = IF how.auto THEN "start" ELSE "lookup" OBVIOUS
 <2>1. at \in {"start", "lookup"} OBVIOUS
 <2>2. how.auto \in BOOLEAN /\ how.force \in BOOLEAN /\ how.target \in 0..Len(Release) OBVIOUS
 <2>3. starts + 1 \in Nat /\ exe \in FileT BY OneIs
 <2>4. r = [Ups!Out EXCEPT !.image = exe, !.run = starts + 1, !.auto = how.auto, !.force = how.force,
                                !.target = how.target, !.at = at]
   BY <1>1
 <2>. QED BY ZenonT(40), <2>1, <2>2, <2>3, <2>4, OutIs DEF ProcT
<1>3. proc' = [proc EXCEPT ![p] = r] /\ starts' = starts + 1 /\ Ups!Here(exe) BY <1>1 DEF Ups!Begin
<1>4. exe.id \in Nat /\ exe.version \in Ups!Version
  BY <1>3, OneIs DEF Installed, UpgradeSound, Ups!Here
<1>5. \A f \in temps : f.id # r.run BY <1>2, OneIs DEF OwnFiles
<1>6. Holds(r)' BY <1>2, <1>3, <1>4, <1>5, OneIs DEF Holds, Temporary, Moving
<1>. QED BY <1>2, <1>3, <1>6, OneIs, FilesKept

\* Whether a release is later than another is what the comparison of the code says.
LEMMA ComparedIsLater ==
  ASSUME UpgradeParameters, NEW i \in DOMAIN Release, NEW j \in DOMAIN Release,
         Ups!Compare(Release[i], Release[j]) < 0
  PROVE  i < j
<1>1. Precedes(Release[i], Release[j]) BY CompareIsPrecedence DEF UpgradeParameters
<1>2. i \in Nat /\ j \in Nat BY DEF UpgradeParameters
<1>3. CASE i = j BY <1>1, <1>3, PrecedenceIsStrict DEF UpgradeParameters
<1>4. CASE j < i
 <2>1. Precedes(Release[j], Release[i]) BY <1>4 DEF UpgradeParameters
 <2>. QED BY <1>1, <2>1, PrecedenceIsStrict DEF UpgradeParameters
<1>. QED BY <1>2, <1>3, <1>4

LEMMA LookupKeeps ==
  ASSUME UpgradeParameters, UpgradeInv, NEW p \in Upgrader, Ups!Lookup(p)
  PROVE  UpgradeInv'
<1>0. proc[p].at = "lookup" /\ proc[p].at # "out" /\ \A f \in temps : f.id # proc[p].run
  BY OneIs DEF Ups!Lookup, Ups!At, Holds, Temporary
<1>1. CASE Ups!Over(p)
 <2>1. temps' = {f \in temps : f.id # proc[p].run} BY <1>0 DEF Ups!Lookup
 <2>2. UNCHANGED <<os, clock, stamp, exe, backup, starts>> BY DEF Ups!Lookup
 <2>3. Installed' /\ \A q \in Upgrader : proc[q].at # "out" /\ os = "windows" => proc[q].image.id \in {exe'.id, backup'.id}
   BY <2>2, OneIs DEF Installed, Ups!Here, Holds
 <2>. QED BY <1>0, <1>1, <2>1, <2>2, <2>3, OneIs, OverKeeps
<1>2. ASSUME NEW i \in DOMAIN Release, Ups!Wanted(p, i),
             proc' = [proc EXCEPT ![p].at = "download", ![p].pick = i, ![p].target = 0]
      PROVE  UpgradeInv'
 <2>1. PICK r : r = [proc[p] EXCEPT !.at = "download", !.pick = i, !.target = 0] OBVIOUS
 <2>2. i \in 1..Len(Release) /\ i \in 0..Len(Release) /\ 0 \in 0..Len(Release)
   BY DEF UpgradeParameters
 <2>3. /\ r \in ProcT /\ r.at = "download" /\ r.force = proc[p].force /\ r.image = proc[p].image
       /\ r.run = proc[p].run /\ r.pick = i
   BY ZenonT(40), <2>1, <2>2, OneIs DEF ProcT
 <2>4. proc' = [proc EXCEPT ![p] = r] BY <1>2, <2>1
 <2>5. UNCHANGED <<os, clock, stamp, exe, backup, temps, starts>> BY DEF Ups!Lookup
 <2>6. r.run \in 1..starts /\ r.image.id \in Nat /\ r.image.version \in Ups!Version
   BY <1>0, <2>3, OneIs DEF Holds
 <2>7. ASSUME ~r.force, r.image.version \notin Dev
       PROVE  \E j \in DOMAIN Release : Release[j] = r.image.version /\ j < r.pick
  <3>1. PICK j \in DOMAIN Release : Release[j] = r.image.version BY <2>6, <2>7 DEF Ups!Version
  <3>2. Release[j].semver BY DEF UpgradeParameters
  <3>3. Ups!Compare(Release[j], Release[i]) < 0 BY <1>2, <2>3, <2>7, <3>1, <3>2 DEF Ups!Wanted
  <3>. QED BY <2>3, <3>1, <3>3, ComparedIsLater
 <2>8. os = "windows" => r.image.id \in {exe.id, backup.id} BY <1>0, <2>3, OneIs DEF Holds
 <2>9. Holds(r)' BY <1>0, <2>2, <2>3, <2>5, <2>6, <2>7, <2>8 DEF Holds, Temporary, Moving
 <2>. QED BY <1>0, <2>3, <2>4, <2>5, <2>9, OneIs, FilesKept
<1>. QED BY ZenonT(40), <1>1, <1>2 DEF Ups!Lookup

\* A step that ends in a session leaves what is installed as it is.
LEMMA OverWith ==
  ASSUME UpgradeParameters, UpgradeInv, NEW p \in Upgrader, proc[p].at # "out", Ups!Over(p),
         UNCHANGED <<os, clock, starts, exe, backup>>, stamp' \in StampT,
         \/ temps' = {f \in temps : f.id # proc[p].run}
         \/ UNCHANGED temps /\ proc[p].at \notin Temporary
  PROVE  UpgradeInv'
<1>1. temps' = {f \in temps : f.id # proc[p].run} BY OneIs DEF Holds
<1>2. Installed' /\ \A q \in Upgrader : proc[q].at # "out" /\ os = "windows" => proc[q].image.id \in {exe'.id, backup'.id}
  BY OneIs DEF Installed, Ups!Here, Holds
<1>. QED BY <1>1, <1>2, OneIs, OverKeeps

\* A process that goes out leaves its temporary file behind.
LEMMA OutKeeps ==
  ASSUME UpgradeParameters, UpgradeInv, NEW p \in Upgrader, proc' = [proc EXCEPT ![p] = Ups!Out],
         UNCHANGED <<os, clock, stamp, exe, backup, temps, starts>>
  PROVE  UpgradeInv'
<1>1. PICK r : r = Ups!Out OBVIOUS
<1>2. Holds(r)' /\ r \in ProcT /\ r.at = "out" BY <1>1, OutIs DEF Holds, Temporary, Moving
<1>. QED BY <1>1, <1>2, OneIs, FilesKept

\* The steps before the archive is there.
LEMMA EarlyKeeps ==
  ASSUME UpgradeParameters, UpgradeInv, NEW p \in Upgrader,
         Ups!Automatic(p) \/ Ups!WriteStamp(p) \/ Ups!RetryStamp(p) \/ Ups!Download(p)
  PROVE  UpgradeInv'
<1>0. /\ proc[p].at \in {"start", "stamp", "restamp", "download"} /\ proc[p].at \notin Temporary
      /\ UNCHANGED <<os, clock, exe, backup, temps, starts>>
  BY DEF Ups!Automatic, Ups!WriteStamp, Ups!RetryStamp, Ups!Download,
         Ups!At, Temporary
<1>1. Ups!NoStamp \in StampT /\ stamp \in StampT BY OneIs DEF Ups!NoStamp, StampT, UpgradeParameters
<1>2. proc[p].run \in 1..starts /\ proc[p].image.id \in Nat /\ proc[p].image.version \in Ups!Version
  BY <1>0, OneIs DEF Holds
<1>3. CASE Ups!Over(p) /\ stamp' \in StampT BY <1>0, <1>3, OverWith
<1>4. ASSUME NEW r \in ProcT, proc' = [proc EXCEPT ![p] = r], stamp' \in StampT,
             r.at \in {"stamp", "restamp", "lookup", "create"}, r.run = proc[p].run, r.image = proc[p].image,
             r.force = proc[p].force, r.pick = proc[p].pick,
             r.at = "create" => r.archive = "whole" /\ proc[p].at = "download"
      PROVE  UpgradeInv'
 <2>1. os = "windows" => r.image.id \in {exe.id, backup.id} BY <1>0, <1>4, OneIs DEF Holds
 <2>2. \A f \in temps : f.id # r.run BY <1>0, <1>4, OneIs DEF Holds
 <2>3. /\ r.pick # 0 /\ ~r.force /\ r.image.version \notin Dev =>
            \E i \in DOMAIN Release : Release[i] = r.image.version /\ i < r.pick
       /\ r.at = "create" => r.pick # 0
   BY <1>4, OneIs DEF Holds
 <2>4. Holds(r)' BY <1>0, <1>2, <1>4, <2>1, <2>2, <2>3 DEF Holds, Temporary, Moving
 <2>. QED BY <1>0, <1>4, <2>4, OneIs, FilesKept
<1>5. CASE Ups!Automatic(p)
 <2>1. stamp' = stamp BY <1>5 DEF Ups!Automatic
 <2>2. CASE proc' = [proc EXCEPT ![p].at = "stamp", ![p].now = clock]
  <3>1. PICK r : r = [proc[p] EXCEPT !.at = "stamp", !.now = clock] OBVIOUS
  <3>2. clock \in 0..MaxClock BY DEF UpgradeInv, UpgradeTypes
  <3>3. /\ r \in ProcT /\ r.at = "stamp" /\ r.force = proc[p].force /\ r.image = proc[p].image
        /\ r.run = proc[p].run /\ r.pick = proc[p].pick
    BY ZenonT(40), <3>1, <3>2, OneIs DEF ProcT
  <3>4. proc' = [proc EXCEPT ![p] = r] BY <2>2, <3>1
  <3>. QED BY <1>1, <1>4, <2>1, <3>3, <3>4
 <2>. QED BY <1>1, <1>3, <1>5, <2>1, <2>2 DEF Ups!Automatic
<1>6. ASSUME NEW stage \in {"lookup", "restamp"}, Ups!GoTo(p, stage), stamp' \in StampT
      PROVE  UpgradeInv'
 <2>1. PICK r \in ProcT :
          /\ proc' = [proc EXCEPT ![p] = r] /\ r.at = stage /\ r.auto = proc[p].auto /\ r.force = proc[p].force
          /\ r.image = proc[p].image /\ r.run = proc[p].run /\ r.pick = proc[p].pick /\ r.archive = proc[p].archive
   BY <1>6, GoToIs
 <2>. QED BY <1>4, <1>6, <2>1
<1>7. Ups!Record(p) => stamp' \in StampT /\ Ups!GoTo(p, "lookup")
 <2>1. proc[p].now \in 0..MaxClock BY OneIs DEF ProcT
 <2>. QED BY <2>1 DEF Ups!Record, StampT
<1>8. CASE Ups!WriteStamp(p) BY <1>1, <1>3, <1>6, <1>7, <1>8 DEF Ups!WriteStamp
<1>9. CASE Ups!RetryStamp(p) BY <1>1, <1>3, <1>6, <1>7, <1>9 DEF Ups!RetryStamp
<1>10. CASE Ups!Download(p)
 <2>1. stamp' = stamp BY <1>10 DEF Ups!Download
 <2>2. CASE proc' = [proc EXCEPT ![p].at = "create", ![p].archive = "whole"]
  <3>1. PICK r : r = [proc[p] EXCEPT !.at = "create", !.archive = "whole"] OBVIOUS
  <3>3. /\ r \in ProcT /\ r.at = "create" /\ r.force = proc[p].force /\ r.image = proc[p].image
        /\ r.run = proc[p].run /\ r.pick = proc[p].pick /\ r.archive = "whole"
    BY ZenonT(40), <3>1, OneIs DEF ProcT
  <3>4. proc' = [proc EXCEPT ![p] = r] BY <2>2, <3>1
  <3>. QED BY <1>1, <1>4, <1>10, <2>1, <3>3, <3>4 DEF Ups!Download, Ups!At
 <2>. QED BY <1>1, <1>3, <1>10, <2>1, <2>2 DEF Ups!Download
<1>. QED BY <1>5, <1>8, <1>9, <1>10

\* A step of a process with its temporary file, or with the executable.
LEMMA FileStep ==
  ASSUME UpgradeParameters, UpgradeInv, NEW p \in Upgrader, proc[p].at # "out",
         NEW stage \in {"write", "updated", "drop", "undo", "in", "aside", "sync", "replace", "clear"}, Ups!GoTo(p, stage),
         UNCHANGED <<os, clock, stamp, starts>>, exe' \in FileT, backup' \in FileT, temps' \subseteq FileT,
         Installed', OwnFiles', \A f : f.id # proc[p].run => (f \in temps' <=> f \in temps),
         \A q \in Upgrader : proc[q].at # "out" /\ os = "windows" => proc[q].image.id \in {exe'.id, backup'.id},
         stage \in Temporary =>
           \E f \in temps' : /\ f.id = proc[p].run /\ (stage # "write" => f.whole)
                             /\ (stage \notin {"write", "sync"} => f.synced),
         stage \notin Temporary => \A f \in temps' : f.id # proc[p].run,
         stage = "write" => proc[p].archive = "whole",
         stage = "replace" => os = "unix", stage \in Moving => os = "windows"
  PROVE  UpgradeInv'
<1>1. PICK r \in ProcT :
           /\ proc' = [proc EXCEPT ![p] = r] /\ r.at = stage /\ r.auto = proc[p].auto /\ r.force = proc[p].force
           /\ r.image = proc[p].image /\ r.run = proc[p].run /\ r.pick = proc[p].pick /\ r.archive = proc[p].archive
  BY GoToIs
<1>2. proc[p].run \in 1..starts /\ proc[p].image.id \in Nat /\ proc[p].image.version \in Ups!Version
  BY OneIs DEF Holds
<1>3. /\ r.pick # 0 /\ ~r.force /\ r.image.version \notin Dev =>
           \E i \in DOMAIN Release : Release[i] = r.image.version /\ i < r.pick
  BY <1>1, OneIs DEF Holds
<1>4. os = "windows" => r.image.id \in {exe'.id, backup'.id} BY <1>1
<1>5. stage \in Temporary =>
           \E f \in temps' : /\ f.id = r.run /\ (r.at # "write" => f.whole)
                             /\ (r.at \notin {"write", "sync"} => f.synced)
  BY <1>1
<1>6. stage \notin Temporary => \A f \in temps' : f.id # r.run BY <1>1
<1>7. Holds(r)' BY <1>1, <1>2, <1>3, <1>4, <1>5, <1>6 DEF Holds
<1>. QED BY <1>1, <1>7, OneIs, OneProcess

LEMMA CreateKeeps ==
  ASSUME UpgradeParameters, UpgradeInv, NEW p \in Upgrader, Ups!Create(p)
  PROVE  UpgradeInv'
<1>0. /\ proc[p].at = "create" /\ proc[p].at \notin Temporary /\ proc[p].run \in 1..starts /\ proc[p].archive = "whole"
      /\ proc[p].pick # 0 /\ UNCHANGED <<os, clock, stamp, exe, backup, starts>>
      /\ \A f \in temps : f.id # proc[p].run
  BY OneIs DEF Ups!Create, Ups!At, Temporary, Holds
<1>1. CASE Ups!Over(p) /\ UNCHANGED temps BY <1>0, <1>1, OneIs, OverWith
<1>2. CASE Ups!GoTo(p, "write") /\ temps' = temps \cup {[version |-> Release[proc[p].pick], id |-> proc[p].run,
                                                         whole |-> FALSE, synced |-> FALSE]}
 <2>1. PICK f : f = [version |-> Release[proc[p].pick], id |-> proc[p].run, whole |-> FALSE, synced |-> FALSE]
   OBVIOUS
 <2>2. proc[p].pick \in DOMAIN Release
  <3>1. proc[p].pick \in 0..Len(Release) BY OneIs DEF ProcT
  <3>. QED BY <1>0, <3>1 DEF UpgradeParameters
 <2>3. Release[proc[p].pick] \in Ups!Version BY <2>2 DEF Ups!Version
 <2>4. f \in FileT /\ f.id = proc[p].run /\ f.version \in Ups!Version
   BY <1>0, <2>1, <2>3, OneIs DEF FileT
 <2>5. temps' = temps \cup {f} BY <1>2, <2>1
 <2>6. OwnFiles' BY <1>0, <2>4, <2>5, OneIs DEF OwnFiles
 <2>7. Installed' /\ \A q \in Upgrader : proc[q].at # "out" /\ os = "windows" => proc[q].image.id \in {exe'.id, backup'.id}
   BY <1>0, OneIs DEF Installed, Ups!Here, Holds
 <2>8. temps' \subseteq FileT /\ exe' \in FileT /\ backup' \in FileT BY <1>0, <2>4, <2>5, OneIs
 <2>. QED BY <1>0, <1>2, <2>4, <2>5, <2>6, <2>7, <2>8, FileStep DEF Temporary, Moving
<1>. QED BY <1>1, <1>2 DEF Ups!Create

LEMMA FileKeeps ==
  ASSUME UpgradeParameters, UpgradeInv, NEW p \in Upgrader, Ups!Write(p) \/ Ups!Sync(p)
  PROVE  UpgradeInv'
<1>0. /\ proc[p].at \in {"write", "sync"} /\ proc[p].at \in Temporary /\ proc[p].at # "out" /\ proc[p].run \in 1..starts
      /\ UNCHANGED <<os, clock, stamp, exe, backup, starts>>
      /\ proc[p].at = "write" => proc[p].archive = "whole"
  BY OneIs DEF Ups!Write, Ups!Sync, Ups!At, Temporary, Holds
<1>1. CASE Ups!CleanUp(p) BY <1>0, <1>1, OneIs, OverWith DEF Ups!CleanUp
<1>2. ASSUME NEW f \in FileT, NEW stage \in {"sync", "replace", "clear"}, Ups!Becomes(p, f, stage),
             f.id = Ups!Temp(p).id, f.version = Ups!Temp(p).version, f.whole, stage # "sync" => f.synced,
             stage = "replace" => os = "unix", stage = "clear" => os = "windows"
      PROVE  UpgradeInv'
 <2>1. temps' = (temps \ {Ups!Temp(p)}) \cup {f} /\ Ups!GoTo(p, stage) /\ temps' \subseteq FileT
   BY <1>2, OneIs DEF Ups!Becomes
 <2>2. f.id = proc[p].run /\ f.version \in Ups!Version BY <1>0, <1>2, TempIs
 <2>3. OwnFiles' BY <1>0, <2>1, <2>2, OneIs, TempIs DEF OwnFiles
 <2>4. \A g : g.id # proc[p].run => (g \in temps' <=> g \in temps) BY <1>0, <2>1, <2>2, TempIs
 <2>7. Installed' /\ \A q \in Upgrader : proc[q].at # "out" /\ os = "windows" => proc[q].image.id \in {exe'.id, backup'.id}
   BY <1>0, OneIs DEF Installed, Ups!Here, Holds
 <2>8. exe' \in FileT /\ backup' \in FileT BY <1>0, OneIs
 <2>9. \E g \in temps' : g.id = proc[p].run /\ g.whole /\ (stage # "sync" => g.synced)
   BY <1>2, <2>1, <2>2
 <2>. QED BY <1>0, <1>2, <2>1, <2>3, <2>4, <2>7, <2>8, <2>9, FileStep DEF Temporary, Moving
<1>3. CASE Ups!Write(p) /\ ~Ups!CleanUp(p)
 <2>1. proc[p].archive = "whole" BY <1>0, <1>3 DEF Ups!Write, Ups!At
 <2>2. Ups!Becomes(p, [Ups!Temp(p) EXCEPT !.whole = TRUE], "sync")
   BY <1>3, <2>1, Zenon DEF Ups!Write
 <2>3. PICK f : f = [Ups!Temp(p) EXCEPT !.whole = TRUE] OBVIOUS
 <2>4. f \in FileT /\ f.id = Ups!Temp(p).id /\ f.version = Ups!Temp(p).version /\ f.whole
   BY <1>0, <2>3, TempIs DEF FileT
 <2>5. Ups!Becomes(p, f, "sync") BY <2>2, <2>3
 <2>. QED BY <1>2, <2>4, <2>5
<1>4. CASE Ups!Sync(p) /\ ~Ups!CleanUp(p)
 <2>1. PICK stage : stage = IF os = "unix" THEN "replace" ELSE "clear" OBVIOUS
 <2>2. /\ stage \in {"sync", "replace", "clear"}
       /\ (stage = "replace" => os = "unix") /\ (stage = "clear" => os = "windows")
   BY <2>1 DEF UpgradeInv, UpgradeTypes
 <2>3. PICK f : f = [Ups!Temp(p) EXCEPT !.synced = TRUE] OBVIOUS
 <2>4. f \in FileT /\ f.id = Ups!Temp(p).id /\ f.version = Ups!Temp(p).version /\ f.synced /\ f.whole
  <3>1. Ups!Temp(p).whole BY <1>0, <1>4, TempIs DEF Ups!Sync, Ups!At
  <3>. QED BY <1>0, <2>3, <3>1, TempIs DEF FileT
 <2>5. Ups!Becomes(p, f, stage) BY <1>4, <2>1, <2>3 DEF Ups!Sync
 <2>. QED BY <1>2, <2>2, <2>4, <2>5
<1>. QED BY <1>1, <1>3, <1>4

\* The executable is replaced by the temporary file of a process.
LEMMA TakenIs ==
  ASSUME UpgradeParameters, UpgradeInv, NEW p \in Upgrader, proc[p].at \in Temporary \ {"write", "sync"},
         UNCHANGED starts, temps' = temps \ {Ups!Temp(p)}
  PROVE  /\ UpgradeSound(Ups!Temp(p)) /\ Ups!Here(Ups!Temp(p)) /\ Ups!Temp(p) \in FileT /\ OwnFiles' /\ temps' \subseteq FileT
         /\ \A f \in temps' : f.id # proc[p].run
         /\ \A f : f.id # proc[p].run => (f \in temps' <=> f \in temps)
<1>1. UpgradeSound(Ups!Temp(p)) /\ Ups!Here(Ups!Temp(p)) /\ Ups!Temp(p) \in FileT
  BY TempIs, NoFileIs, OneIs DEF UpgradeSound, Ups!Here
<1>2. OwnFiles' /\ temps' \subseteq FileT BY OneIs DEF OwnFiles
<1>3. \A f \in temps' : f.id # proc[p].run BY TempIs
<1>4. \A f : f.id # proc[p].run => (f \in temps' <=> f \in temps) BY TempIs
<1>. QED BY <1>1, <1>2, <1>3, <1>4

LEMMA ReplaceKeeps ==
  ASSUME UpgradeParameters, UpgradeInv, NEW p \in Upgrader, Ups!Replace(p)
  PROVE  UpgradeInv'
<1>0. /\ proc[p].at = "replace" /\ proc[p].at \in Temporary \ {"write", "sync"} /\ proc[p].at # "out"
      /\ os = "unix" /\ UNCHANGED <<os, clock, stamp, backup, starts>>
  BY OneIs DEF Ups!Replace, Ups!At, Temporary, Holds
<1>1. CASE Ups!CleanUp(p) /\ UNCHANGED exe BY <1>0, <1>1, OneIs, OverWith DEF Ups!CleanUp
<1>2. CASE exe' = Ups!Temp(p) /\ Ups!Taken(p)
 <2>1. temps' = temps \ {Ups!Temp(p)} /\ Ups!GoTo(p, "updated") BY <1>2 DEF Ups!Taken
 <2>2. /\ UpgradeSound(Ups!Temp(p)) /\ Ups!Here(Ups!Temp(p)) /\ Ups!Temp(p) \in FileT /\ OwnFiles' /\ temps' \subseteq FileT
       /\ \A f \in temps' : f.id # proc[p].run
       /\ \A f : f.id # proc[p].run => (f \in temps' <=> f \in temps)
   BY <1>0, <2>1, TakenIs
 <2>3. Installed' /\ exe' \in FileT /\ backup' \in FileT
   BY <1>0, <1>2, <2>2, OneIs DEF Installed, Ups!Here, UpgradeSound
 <2>. QED BY <1>0, <2>1, <2>2, <2>3, FileStep DEF Temporary, Moving
<1>. QED BY <1>1, <1>2 DEF Ups!Replace

\* On Windows, a live process runs from the executable or from its backup.
LEMMA AliveRuns ==
  ASSUME UpgradeInv, os = "windows", NEW q \in Upgrader, proc[q].at # "out"
  PROVE  /\ proc[q].image.id \in {exe.id, backup.id} /\ proc[q].image.id \in Nat
         /\ ~Ups!Busy(exe) => proc[q].image.id = backup.id
         /\ ~Ups!Busy(backup) => proc[q].image.id = exe.id
  BY OneIs DEF Holds, Ups!Busy

\* While one runs, what it runs from is there.
LEMMA RunsFrom ==
  ASSUME UpgradeInv, os = "windows", NEW q \in Upgrader, proc[q].at # "out"
  PROVE  /\ ~Ups!Busy(exe) => Ups!Here(backup)
         /\ ~Ups!Busy(backup) => Ups!Here(exe)
<1>1. ~Ups!Here(exe) => exe.id = -1 BY NoFileIs DEF Ups!Here
<1>2. ~Ups!Here(backup) => backup.id = -1 BY NoFileIs DEF Ups!Here
<1>. QED BY <1>1, <1>2, AliveRuns

LEMMA BackupKeeps ==
  ASSUME UpgradeParameters, UpgradeInv, NEW p \in Upgrader, Ups!ClearBackup(p) \/ Ups!DropBackup(p)
  PROVE  UpgradeInv'
<1>0. /\ proc[p].at # "out" /\ os = "windows" /\ UNCHANGED <<os, clock, stamp, exe, temps, starts>>
      /\ proc[p].at = "clear" \/ (proc[p].at = "drop" /\ \A f \in temps : f.id # proc[p].run)
  BY OneIs DEF Ups!ClearBackup, Ups!DropBackup, Ups!At, Moving, Holds, Temporary
<1>1. backup' = backup \/ (~Ups!Busy(backup) /\ backup' = Ups!NoFile)
  BY DEF Ups!ClearBackup, Ups!DropBackup
<1>2. Installed' BY <1>0, <1>1, OneIs, RunsFrom, NoFileIs DEF Installed, Ups!Here, UpgradeSound
<1>3. backup' \in FileT /\ exe' \in FileT /\ temps' \subseteq FileT BY <1>0, <1>1, NoFileIs, OneIs
<1>4. \A q \in Upgrader : proc[q].at # "out" /\ os = "windows" => proc[q].image.id \in {exe'.id, backup'.id}
  BY <1>0, <1>1, AliveRuns
<1>5. OwnFiles' BY <1>0, OneIs DEF OwnFiles
<1>6. CASE Ups!ClearBackup(p)
 <2>1. Ups!GoTo(p, "aside") /\ proc[p].at = "clear" BY <1>6 DEF Ups!ClearBackup, Ups!At
 <2>2. \E f \in temps' : f.id = proc[p].run /\ f.whole /\ f.synced
   BY <1>0, <2>1, OneIs DEF Holds, Temporary
 <2>. QED BY <1>0, <1>2, <1>3, <1>4, <1>5, <2>1, <2>2, FileStep DEF Temporary, Moving
<1>7. CASE Ups!DropBackup(p)
 <2>1. Ups!GoTo(p, "updated") /\ proc[p].at = "drop" BY <1>7 DEF Ups!DropBackup, Ups!At
 <2>. QED BY <1>0, <1>2, <1>3, <1>4, <1>5, <2>1, FileStep DEF Temporary, Moving
<1>. QED BY <1>6, <1>7

LEMMA MoveAsideKeeps ==
  ASSUME UpgradeParameters, UpgradeInv, NEW p \in Upgrader, Ups!MoveAside(p)
  PROVE  UpgradeInv'
<1>0. /\ proc[p].at = "aside" /\ proc[p].at # "out" /\ os = "windows" /\ UNCHANGED <<os, clock, stamp, starts>>
  BY OneIs DEF Ups!MoveAside, Ups!At, Moving, Holds
<1>1. CASE Ups!CleanUp(p) /\ UNCHANGED <<exe, backup>>
  BY <1>0, <1>1, OneIs, OverWith DEF Ups!CleanUp
<1>2. CASE Ups!Here(exe) /\ ~Ups!Busy(backup) /\ backup' = exe /\ exe' = Ups!NoFile /\ Ups!GoTo(p, "in") /\ UNCHANGED temps
 <2>1. Installed' /\ backup' \in FileT /\ exe' \in FileT /\ temps' \subseteq FileT
   BY <1>0, <1>2, OneIs, NoFileIs DEF Installed, Ups!Here, UpgradeSound
 <2>2. \A q \in Upgrader : proc[q].at # "out" /\ os = "windows" => proc[q].image.id \in {exe'.id, backup'.id}
   BY <1>0, <1>2, AliveRuns
 <2>3. OwnFiles' BY <1>0, <1>2, OneIs DEF OwnFiles
 <2>4. \E f \in temps' : f.id = proc[p].run /\ f.whole /\ f.synced
   BY <1>0, <1>2, OneIs DEF Holds, Temporary
 <2>. QED BY <1>0, <1>2, <2>1, <2>2, <2>3, <2>4, FileStep DEF Temporary, Moving
<1>. QED BY <1>1, <1>2 DEF Ups!MoveAside

LEMMA MoveInKeeps ==
  ASSUME UpgradeParameters, UpgradeInv, NEW p \in Upgrader, Ups!MoveIn(p)
  PROVE  UpgradeInv'
<1>0. /\ proc[p].at = "in" /\ proc[p].at \in Temporary \ {"write", "sync"} /\ proc[p].at # "out"
      /\ os = "windows" /\ UNCHANGED <<os, clock, stamp, backup, starts>>
  BY OneIs DEF Ups!MoveIn, Ups!At, Moving, Holds, Temporary
<1>1. CASE UNCHANGED <<exe, temps>> /\ Ups!GoTo(p, "undo")
 <2>1. Installed' /\ OwnFiles' /\ backup' \in FileT /\ exe' \in FileT /\ temps' \subseteq FileT
   BY <1>0, <1>1, OneIs DEF Installed, Ups!Here, OwnFiles
 <2>2. \A q \in Upgrader : proc[q].at # "out" /\ os = "windows" => proc[q].image.id \in {exe'.id, backup'.id}
   BY <1>0, <1>1, AliveRuns
 <2>4. \E f \in temps' : f.id = proc[p].run /\ f.whole /\ f.synced
   BY <1>0, <1>1, OneIs DEF Holds, Temporary
 <2>. QED BY <1>0, <1>1, <2>1, <2>2, <2>4, FileStep DEF Temporary, Moving
<1>2. CASE ~Ups!Busy(exe) /\ exe' = Ups!Temp(p) /\ temps' = temps \ {Ups!Temp(p)} /\ Ups!GoTo(p, "drop")
 <2>1. /\ UpgradeSound(Ups!Temp(p)) /\ Ups!Here(Ups!Temp(p)) /\ Ups!Temp(p) \in FileT /\ OwnFiles' /\ temps' \subseteq FileT
       /\ \A f \in temps' : f.id # proc[p].run
       /\ \A f : f.id # proc[p].run => (f \in temps' <=> f \in temps)
   BY <1>0, <1>2, TakenIs
 <2>2. Installed' /\ exe' \in FileT /\ backup' \in FileT
   BY <1>0, <1>2, <2>1, OneIs DEF Installed, Ups!Here, UpgradeSound
 <2>3. \A q \in Upgrader : proc[q].at # "out" /\ os = "windows" => proc[q].image.id \in {exe'.id, backup'.id}
   BY <1>0, <1>2, AliveRuns
 <2>. QED BY <1>0, <1>2, <2>1, <2>2, <2>3, FileStep DEF Temporary, Moving
<1>. QED BY <1>1, <1>2 DEF Ups!MoveIn

LEMMA UndoKeeps ==
  ASSUME UpgradeParameters, UpgradeInv, NEW p \in Upgrader, Ups!Undo(p)
  PROVE  UpgradeInv'
<1>0. /\ proc[p].at = "undo" /\ proc[p].at # "out" /\ os = "windows" /\ UNCHANGED <<os, clock, stamp, starts>>
      /\ Ups!CleanUp(p)
  BY OneIs DEF Ups!Undo, Ups!At, Moving, Holds
<1>1. CASE UNCHANGED <<exe, backup>> BY <1>0, <1>1, OneIs, OverWith DEF Ups!CleanUp
<1>2. CASE Ups!Here(backup) /\ ~Ups!Busy(exe) /\ exe' = backup /\ backup' = Ups!NoFile
 <2>1. Installed' /\ backup' \in FileT /\ exe' \in FileT
   BY <1>0, <1>2, OneIs, NoFileIs DEF Installed, Ups!Here, UpgradeSound
 <2>2. \A q \in Upgrader : proc[q].at # "out" /\ os = "windows" => proc[q].image.id \in {exe'.id, backup'.id}
   BY <1>0, <1>2, AliveRuns
 <2>. QED BY <1>0, <2>1, <2>2, OneIs, OverKeeps DEF Ups!CleanUp
<1>. QED BY <1>1, <1>2 DEF Ups!Undo

LEMMA RelaunchKeeps ==
  ASSUME UpgradeParameters, UpgradeInv, NEW p \in Upgrader, Ups!Relaunch(p)
  PROVE  UpgradeInv'
<1>0. /\ proc[p].at = "updated" /\ proc[p].at # "out" /\ proc[p].at \notin Temporary
      /\ UNCHANGED <<os, clock, stamp, exe, backup, temps>>
  BY DEF Ups!Relaunch, Ups!At, Temporary
<1>1. CASE Ups!Over(p) /\ UNCHANGED starts BY <1>0, <1>1, OneIs, OverWith
<1>2. CASE Ups!Begin(p, [auto |-> TRUE, force |-> FALSE, target |-> 0])
 <2>1. PICK how \in [auto : BOOLEAN, force : BOOLEAN, target : 0..Len(Release)] :
         how = [auto |-> TRUE, force |-> FALSE, target |-> 0]
  <3>1. 0 \in 0..Len(Release) BY DEF UpgradeParameters
  <3>. QED BY <3>1
 <2>2. Ups!Begin(p, how) BY <1>2, <2>1
 <2>. QED BY <1>0, <2>2, BeginKeeps
<1>. QED BY <1>1, <1>2 DEF Ups!Relaunch

\* What was synced is not lost with the power, and no process is left.
LEMMA PowerLossKeeps ==
  ASSUME UpgradeParameters, UpgradeInv, Ups!PowerLoss
  PROVE  UpgradeInv'
<1>0. UpgradeTypes /\ Installed /\ OwnFiles BY DEF UpgradeInv
<1>1. exe' = exe BY <1>0 DEF Ups!PowerLoss, Ups!Torn, Installed, UpgradeSound, Ups!Here
<1>2. backup' = backup BY <1>0 DEF Ups!PowerLoss, Ups!Torn, Installed, UpgradeSound, Ups!Here
<1>3. UNCHANGED <<os, clock, temps, starts>> /\ proc' = [p \in Upgrader |-> Ups!Out]
  BY DEF Ups!PowerLoss
<1>4. stamp' \in StampT
  BY <1>0 DEF Ups!PowerLoss, StampT, Ups!Corrupt, UpgradeTypes, UpgradeParameters
<1>5. UpgradeTypes' BY <1>0, <1>1, <1>2, <1>3, <1>4, OutIs DEF UpgradeTypes
<1>6. Installed' /\ OwnFiles' BY <1>0, <1>1, <1>2, <1>3 DEF Installed, OwnFiles, Ups!Here
<1>7. OwnRuns' BY <1>3, OutIs DEF OwnRuns
<1>8. \A p \in Upgrader : Holds(proc[p])'
 <2> TAKE p \in Upgrader
 <2>1. PICK r : r = Ups!Out OBVIOUS
 <2>2. Holds(r)' /\ proc'[p] = r BY <1>3, <2>1, OutIs DEF Holds, Temporary, Moving
 <2>. QED BY <2>2
<1>. QED BY <1>5, <1>6, <1>7, <1>8 DEF UpgradeInv

\* Nothing but the clock or the stamp: the invariant does not say what time it is.
LEMMA SameKeeps ==
  ASSUME UpgradeInv, UNCHANGED <<os, stamp, exe, backup, temps, proc, starts>>, clock' \in 0..MaxClock
  PROVE  UpgradeInv'
<1>1. UpgradeTypes' /\ Installed' /\ OwnFiles' /\ OwnRuns'
  BY DEF UpgradeInv, UpgradeTypes, Installed, OwnFiles, OwnRuns, Ups!Here
<1>2. \A p \in Upgrader : Holds(proc[p])'
 <2> TAKE p \in Upgrader
 <2>1. PICK r : r = proc[p] OBVIOUS
 <2>2. Holds(r)' BY <2>1 DEF UpgradeInv, Holds
 <2>. QED BY <2>1, <2>2
<1>. QED BY <1>1, <1>2 DEF UpgradeInv

LEMMA UpgradeNext == UpgradeParameters /\ UpgradeInv /\ [Ups!Next]_(Ups!vars) => UpgradeInv'
<1> SUFFICES ASSUME UpgradeParameters, UpgradeInv, [Ups!Next]_(Ups!vars) PROVE UpgradeInv'
  OBVIOUS
<1>0. UpgradeTypes BY DEF UpgradeInv
<1>1. CASE UNCHANGED Ups!vars BY <1>0, <1>1, SameKeeps DEF Ups!vars, UpgradeTypes
<1>2. CASE Ups!Tick
 <2>1. clock' \in 0..MaxClock BY <1>0, <1>2 DEF Ups!Tick, UpgradeTypes, UpgradeParameters
 <2>. QED BY <1>2, <2>1, SameKeeps DEF Ups!Tick
<1>3. CASE Ups!PowerLoss BY <1>3, PowerLossKeeps
<1>4. ASSUME NEW p \in Upgrader, Ups!Start(p) PROVE UpgradeInv'
 <2>1. PICK how \in [auto : {TRUE}, force : {FALSE}, target : {0}]
             \cup [auto : {FALSE}, force : BOOLEAN, target : 0..Len(Release)] : Ups!Begin(p, how)
   BY <1>4 DEF Ups!Start
 <2>2. 0 \in 0..Len(Release) BY DEF UpgradeParameters
 <2>3. how \in [auto : BOOLEAN, force : BOOLEAN, target : 0..Len(Release)] BY <2>2
 <2>4. UNCHANGED <<os, clock, stamp, exe, backup, temps>> BY <1>4 DEF Ups!Start
 <2>. QED BY <2>1, <2>3, <2>4, BeginKeeps
<1>5. ASSUME NEW p \in Upgrader, Ups!Exit(p) \/ Ups!Die(p) PROVE UpgradeInv'
  BY <1>5, OutKeeps DEF Ups!Exit, Ups!Die
<1>6. ASSUME NEW p \in Upgrader, Ups!Automatic(p) \/ Ups!WriteStamp(p) \/ Ups!RetryStamp(p) \/ Ups!Download(p) PROVE UpgradeInv'
  BY <1>6, EarlyKeeps
<1>7. ASSUME NEW p \in Upgrader, Ups!Lookup(p) PROVE UpgradeInv'
  BY <1>7, LookupKeeps
<1>8. ASSUME NEW p \in Upgrader, Ups!Create(p) PROVE UpgradeInv'
  BY <1>8, CreateKeeps
<1>9. ASSUME NEW p \in Upgrader, Ups!Write(p) \/ Ups!Sync(p) PROVE UpgradeInv'
  BY <1>9, FileKeeps
<1>10. ASSUME NEW p \in Upgrader, Ups!Replace(p) PROVE UpgradeInv'
  BY <1>10, ReplaceKeeps
<1>11. ASSUME NEW p \in Upgrader, Ups!ClearBackup(p) \/ Ups!DropBackup(p) PROVE UpgradeInv'
  BY <1>11, BackupKeeps
<1>12. ASSUME NEW p \in Upgrader, Ups!MoveAside(p) PROVE UpgradeInv'
  BY <1>12, MoveAsideKeeps
<1>13. ASSUME NEW p \in Upgrader, Ups!MoveIn(p) PROVE UpgradeInv'
  BY <1>13, MoveInKeeps
<1>14. ASSUME NEW p \in Upgrader, Ups!Undo(p) PROVE UpgradeInv'
  BY <1>14, UndoKeeps
<1>15. ASSUME NEW p \in Upgrader, Ups!Relaunch(p) PROVE UpgradeInv'
  BY <1>15, RelaunchKeeps
<1>. QED BY <1>1, <1>2, <1>3, <1>4, <1>5, <1>6, <1>7, <1>8, <1>9, <1>10, <1>11, <1>12, <1>13, <1>14,
<1>15 DEF Ups!Next

LEMMA UpgradeImplies == UpgradeParameters /\ UpgradeInv => Ups!UpgradeSafe
<1> SUFFICES ASSUME UpgradeParameters, UpgradeInv PROVE Ups!UpgradeSafe
  OBVIOUS
<1>1. Ups!TypeOK BY DEF UpgradeInv, UpgradeTypes, Ups!TypeOK, StampT, ProcT
<1>2. Ups!Runnable BY DEF UpgradeInv, Installed, UpgradeSound, Ups!Runnable, Ups!Here
<1>3. Ups!Later BY DEF UpgradeInv, Holds, Ups!Later
<1>4. Ups!Swept BY DEF UpgradeInv, Holds, Ups!Swept, Temporary
<1>. QED BY <1>1, <1>2, <1>3, <1>4 DEF Ups!UpgradeSafe

\* The installed executable is always a whole verified binary, on Unix and on Windows, whichever process dies and
\* whatever is lost with the power; without force only a later release is installed, and what an upgrade that is
\* over has created is gone.
THEOREM UpgradesAreSafe ==
  ASSUME UpgradeParameters
  PROVE  Ups!Spec => []Ups!UpgradeSafe
<1>1. Ups!Init => UpgradeInv BY UpgradeInit
<1>2. UpgradeInv /\ [Ups!Next]_(Ups!vars) => UpgradeInv' BY UpgradeNext
<1>3. UpgradeInv => Ups!UpgradeSafe BY UpgradeImplies
<1>. QED BY <1>1, <1>2, <1>3, PTL DEF Ups!Spec

----------------------------------------
(* The prices of service.go: the inductive invariant.                      *)

PricesParameters == "free" \notin Caller /\ Ttl \in Nat

Stage(c) == call[c].stage

PricesTypes ==
  /\ moment \in Nat /\ offer \in Nat /\ lock \in Caller \cup {"free"} /\ fetched \in Seq(Nat)
  /\ snapshot \in [version : Nat, at : Nat] /\ snap \in [version : Nat, at : Nat]
  /\ call \in [Caller -> [stage : {"idle", "waiting", "fetching", "writing", "storing"},
                          force : BOOLEAN, got : Nat]]
  /\ DOMAIN asked = Estimator

\* Who is past the mutex has it.
Holding == \A c \in Caller : Stage(c) \notin {"idle", "waiting"} => lock = c

\* Versions are offered before they are fetched, written before they are used.
Versions ==
  /\ snap.version <= snapshot.version /\ snapshot.version <= offer /\ 0 < offer
  /\ snap.at <= moment /\ snapshot.at <= moment
  /\ \A c \in Caller : Stage(c) = "writing" => 0 < call[c].got /\ snapshot.version <= call[c].got /\ call[c].got <= offer
  /\ \A c \in Caller : Stage(c) = "storing" => 0 < call[c].got /\ call[c].got = snapshot.version

\* Between a write and its store the file is ahead of the memory, otherwise never.
Behind ==
  (\A c \in Caller : Stage(c) # "storing") =>
    snapshot.at <= snap.at /\ (snap.version = 0 => snapshot.version = 0)

\* Whoever fetches without force does so for a snapshot that is old enough.
Spaced ==
  /\ snapshot.version = 0 => fetched = <<>>
  /\ \A i \in DOMAIN fetched : fetched[i] <= snapshot.at
  /\ \A c \in Caller : Stage(c) \in {"fetching", "writing"} /\ ~call[c].force =>
       \A i \in DOMAIN fetched : moment - fetched[i] >= Ttl
  /\ Costs!OncePerTtl

PricesInv == PricesTypes /\ Holding /\ Versions /\ Behind /\ Spaced /\ Costs!PriceIsOfVersion

LEMMA PricesInit == PricesParameters /\ Costs!Init => PricesInv
<1> SUFFICES ASSUME Costs!Init PROVE PricesInv
  OBVIOUS
<1>1. \A c \in Caller : call[c].stage = "idle" BY DEF Costs!Init, Costs!Idle
<1>2. PricesTypes BY DEF Costs!Init, PricesTypes, Costs!Idle, Costs!Nothing
<1>3. Holding /\ Behind /\ Spaced /\ Costs!PriceIsOfVersion
  BY <1>1
     DEF Costs!Init, Holding, Behind, Spaced, Costs!PriceIsOfVersion, Costs!OncePerTtl, Stage,
         Costs!Nothing, Costs!Unasked
<1>4. Versions BY <1>1 DEF Costs!Init, Versions, Costs!Nothing, Stage
<1>. QED BY <1>2, <1>3, <1>4 DEF PricesInv

\* What a step of caller c does to the calls.
LEMMA CallMoves ==
  ASSUME PricesTypes, NEW c \in Caller, NEW r, call' = [call EXCEPT ![c] = r],
         r \in [stage : {"idle", "waiting", "fetching", "writing", "storing"}, force : BOOLEAN, got : Nat]
  PROVE  /\ call' \in [Caller -> [stage : {"idle", "waiting", "fetching", "writing", "storing"},
                                  force : BOOLEAN, got : Nat]]
         /\ call'[c] = r /\ \A d \in Caller : d # c => call'[d] = call[d]
  BY DEF PricesTypes

LEMMA Goes_ ==
  ASSUME PricesTypes, NEW c \in Caller, NEW s \in {"fetching", "writing", "storing"}, Costs!Goes(c, s)
  PROVE  /\ call' = [call EXCEPT ![c] = [stage |-> s, force |-> call[c].force, got |-> call[c].got]]
         /\ call[c].force \in BOOLEAN /\ call[c].got \in Nat
<1> DEFINE r == call[c]
<1>1. r \in [stage : {"idle", "waiting", "fetching", "writing", "storing"}, force : BOOLEAN, got : Nat]
  BY DEF PricesTypes
<1>2. call' = [call EXCEPT ![c] = [r EXCEPT !.stage = s]] BY DEF Costs!Goes
<1> HIDE DEF r
<1>3. [r EXCEPT !.stage = s] = [stage |-> s, force |-> r.force, got |-> r.got] BY <1>1
<1>. QED BY <1>1, <1>2, <1>3 DEF r

\* An estimate of e leaves the others alone.
LEMMA PricesNext == PricesParameters /\ PricesInv /\ [Costs!Next]_(Costs!vars) => PricesInv'
<1> SUFFICES ASSUME PricesParameters, PricesInv, [Costs!Next]_(Costs!vars) PROVE PricesInv'
  OBVIOUS
<1>0. PricesTypes /\ Holding /\ Versions /\ Behind /\ Spaced /\ Costs!PriceIsOfVersion
  BY DEF PricesInv
<1>t. /\ moment \in Nat /\ offer \in Nat /\ fetched \in Seq(Nat) /\ snap.version \in Nat /\ snap.at \in Nat
      /\ snapshot.version \in Nat /\ snapshot.at \in Nat /\ Ttl \in Nat
      /\ \A c \in Caller : call[c].got \in Nat /\ call[c].force \in BOOLEAN
      /\ \A i \in DOMAIN fetched : fetched[i] \in Nat
  BY <1>0 DEF PricesTypes, PricesParameters
<1>1. ASSUME NEW c \in Caller, NEW force \in BOOLEAN, Costs!Refresh(c, force) PROVE PricesInv'
 <2>1. /\ call' = [call EXCEPT ![c] = [stage |-> "waiting", force |-> force, got |-> 0]]
       /\ call[c].stage = "idle" /\ UNCHANGED <<moment, offer, snapshot, snap, lock, asked, fetched, fetchFailures>>
   BY <1>1 DEF Costs!Refresh
 <2>2. /\ call' \in [Caller -> [stage : {"idle", "waiting", "fetching", "writing", "storing"},
                                 force : BOOLEAN, got : Nat]]
       /\ call'[c].stage = "waiting" /\ \A d \in Caller : d # c => call'[d] = call[d]
   BY <1>0, <2>1, CallMoves
 <2>. QED BY <1>0, <1>t, <2>1, <2>2
      DEF PricesInv, PricesTypes, Holding, Versions, Behind, Spaced, Costs!PriceIsOfVersion, Costs!OncePerTtl, Stage
<1>2. ASSUME NEW c \in Caller, Costs!Lock(c) PROVE PricesInv'
 <2>0. /\ call[c].stage = "waiting" /\ lock = "free" /\ UNCHANGED <<moment, offer, snapshot, snap, asked, fetched, fetchFailures>>
   BY <1>2 DEF Costs!Lock
 <2>a. \A d \in Caller : Stage(d) \in {"idle", "waiting"}
   BY <1>0, <2>0 DEF Holding, PricesParameters
 <2>b. snapshot.at <= snap.at /\ (snap.version = 0 => snapshot.version = 0) BY <1>0, <2>a DEF Behind
 <2>1. CASE Costs!Fresh /\ ~call[c].force
  <3>1. lock' = "free" /\ call' = [call EXCEPT ![c] = Costs!Idle]
    BY <1>2, <2>1 DEF Costs!Lock, Costs!Ends
  <3>2. /\ call' \in [Caller -> [stage : {"idle", "waiting", "fetching", "writing", "storing"},
                                force : BOOLEAN, got : Nat]]
        /\ call'[c].stage = "idle" /\ \A d \in Caller : d # c => call'[d] = call[d]
    BY <1>0, <3>1, CallMoves,
       Costs!Idle \in [stage : {"idle", "waiting", "fetching", "writing", "storing"},
                                force : BOOLEAN, got : Nat] DEF Costs!Idle
  <3>. QED BY ZenonT(40), <1>0, <1>t, <2>0, <2>a, <2>b, <3>1, <3>2
       DEF PricesInv, PricesTypes, Holding, Versions, Behind, Spaced, Costs!PriceIsOfVersion, Costs!OncePerTtl, Stage
 <2>2. CASE ~(Costs!Fresh /\ ~call[c].force)
  <3>1. lock' = c /\ Costs!Goes(c, "fetching") BY <1>2, <2>2 DEF Costs!Lock
  <3>2. call' = [call EXCEPT ![c] = [stage |-> "fetching", force |-> call[c].force, got |-> call[c].got]]
    BY <1>0, <3>1, Goes_
  <3>3. /\ call' \in [Caller -> [stage : {"idle", "waiting", "fetching", "writing", "storing"},
                                force : BOOLEAN, got : Nat]]
        /\ call'[c].stage = "fetching" /\ call'[c].force = call[c].force
        /\ \A d \in Caller : d # c => call'[d] = call[d]
    BY <1>0, <1>t, <3>2, CallMoves
  <3>4. ~call[c].force => \A i \in DOMAIN fetched : moment - fetched[i] >= Ttl
   <4> SUFFICES ASSUME ~call[c].force, NEW i \in DOMAIN fetched PROVE moment - fetched[i] >= Ttl
     OBVIOUS
   <4>1. snap.version = 0 \/ ~(moment - snap.at < Ttl) BY <2>2 DEF Costs!Fresh
   <4>2. CASE snap.version = 0 BY <1>0, <2>b, <4>2 DEF Spaced
   <4>3. CASE ~(moment - snap.at < Ttl)
    <5>1. fetched[i] <= snapshot.at BY <1>0 DEF Spaced
    <5>. QED BY <1>t, <2>b, <4>3, <5>1
   <4>. QED BY <4>1, <4>2, <4>3
  <3>. QED BY ZenonT(40), <1>0, <1>t, <2>0, <2>a, <2>b, <3>1, <3>3, <3>4
       DEF PricesInv, PricesTypes, Holding, Versions, Behind, Spaced, Costs!PriceIsOfVersion, Costs!OncePerTtl, Stage
 <2>. QED BY <2>1, <2>2
<1>3. ASSUME NEW c \in Caller, Costs!Fetch(c) PROVE PricesInv'
 <2> DEFINE r == call[c]
            s == [r EXCEPT !.stage = "writing", !.got = offer]
 <2>0. r \in [stage : {"idle", "waiting", "fetching", "writing", "storing"}, force : BOOLEAN, got : Nat]
   BY <1>0 DEF PricesTypes
 <2>1. /\ r.stage = "fetching" /\ call' = [call EXCEPT ![c] = s]
       /\ UNCHANGED <<moment, offer, snapshot, snap, lock, asked, fetched, fetchFailures>>
   BY <1>3 DEF Costs!Fetch
 <2>a. /\ s \in [stage : {"idle", "waiting", "fetching", "writing", "storing"}, force : BOOLEAN, got : Nat]
       /\ s.stage = "writing" /\ s.force = r.force /\ s.got = offer
   BY <1>t, <2>0
 <2> HIDE DEF s
 <2>2. /\ call' \in [Caller -> [stage : {"idle", "waiting", "fetching", "writing", "storing"},
                                 force : BOOLEAN, got : Nat]]
       /\ call'[c].stage = "writing" /\ call'[c].force = call[c].force /\ call'[c].got = offer
       /\ \A d \in Caller : d # c => call'[d] = call[d]
   BY <1>0, <1>t, <2>1, <2>a, CallMoves
 <2>3. PricesTypes' /\ Holding' /\ Behind' /\ Costs!PriceIsOfVersion'
   BY <1>0, <2>1, <2>2 DEF PricesTypes, Holding, Behind, Costs!PriceIsOfVersion, Stage
 <2>4. Versions' BY <1>0, <1>t, <2>1, <2>2 DEF Versions, Stage
 <2>5. Spaced' BY <1>0, <2>1, <2>2 DEF Spaced, Costs!OncePerTtl, Stage
 <2>. QED BY <2>3, <2>4, <2>5 DEF PricesInv
<1>4. ASSUME NEW c \in Caller, Costs!Fails(c) PROVE PricesInv'
 <2>1. /\ call[c].stage \in {"fetching", "writing"} /\ UNCHANGED <<moment, offer, snapshot, snap, asked, fetched>>
       /\ lock' = "free" /\ call' = [call EXCEPT ![c] = Costs!Idle]
   BY <1>4 DEF Costs!Fails, Costs!Ends
 <2>2. /\ call' \in [Caller -> [stage : {"idle", "waiting", "fetching", "writing", "storing"},
                                 force : BOOLEAN, got : Nat]]
       /\ call'[c].stage = "idle" /\ \A d \in Caller : d # c => call'[d] = call[d]
   BY <1>0, <2>1, CallMoves,
      Costs!Idle \in [stage : {"idle", "waiting", "fetching", "writing", "storing"},
                                 force : BOOLEAN, got : Nat] DEF Costs!Idle
 <2>3. \A d \in Caller : d # c => Stage(d) \in {"idle", "waiting"} BY <1>0, <2>1 DEF Holding, Stage
 <2>. QED BY <1>0, <1>t, <2>1, <2>2, <2>3
      DEF PricesInv, PricesTypes, Holding, Versions, Behind, Spaced, Costs!PriceIsOfVersion, Costs!OncePerTtl, Stage
<1>5. ASSUME NEW c \in Caller, Costs!Write(c) PROVE PricesInv'
 <2>1. /\ call[c].stage = "writing" /\ UNCHANGED <<moment, offer, snap, lock, asked, fetchFailures>>
       /\ snapshot' = [version |-> call[c].got, at |-> moment] /\ Costs!Goes(c, "storing")
       /\ fetched' = IF call[c].force THEN fetched ELSE Append(fetched, moment)
   BY <1>5 DEF Costs!Write
 <2>2. call' = [call EXCEPT ![c] = [stage |-> "storing", force |-> call[c].force, got |-> call[c].got]]
   BY <1>0, <2>1, Goes_
 <2>3. /\ call' \in [Caller -> [stage : {"idle", "waiting", "fetching", "writing", "storing"},
                                 force : BOOLEAN, got : Nat]]
       /\ call'[c].stage = "storing" /\ call'[c].got = call[c].got
       /\ \A d \in Caller : d # c => call'[d] = call[d]
   BY <1>0, <1>t, <2>2, CallMoves
 <2>4. \A d \in Caller : d # c => Stage(d) \in {"idle", "waiting"} BY <1>0, <2>1 DEF Holding, Stage
 <2>5. 0 < call[c].got /\ snapshot.version <= call[c].got /\ call[c].got <= offer
   BY <1>0, <2>1 DEF Versions, Stage
 <2>6. /\ fetched' \in Seq(Nat) /\ \A i \in DOMAIN fetched' : fetched'[i] <= moment
       /\ \A i, j \in DOMAIN fetched' : i < j => fetched'[j] - fetched'[i] >= Ttl
  <3>0. \A i \in DOMAIN fetched : fetched[i] <= moment BY <1>0, <1>t DEF Spaced, Versions
  <3>1. CASE call[c].force BY <1>0, <1>t, <2>1, <3>0, <3>1 DEF Spaced, Costs!OncePerTtl
  <3>2. CASE ~call[c].force
   <4>1. fetched' = Append(fetched, moment) BY <2>1, <3>2
   <4>2. /\ DOMAIN fetched' = 1..(Len(fetched) + 1) /\ DOMAIN fetched = 1..Len(fetched) /\ Len(fetched) \in Nat
         /\ fetched'[Len(fetched) + 1] = moment /\ \A i \in DOMAIN fetched : fetched'[i] = fetched[i]
         /\ fetched' \in Seq(Nat)
     BY <1>t, <4>1
   <4>3. \A i \in DOMAIN fetched : moment - fetched[i] >= Ttl BY <1>0, <2>1, <3>2 DEF Spaced, Stage
   <4>4. \A i \in DOMAIN fetched' : i \in DOMAIN fetched \/ i = Len(fetched) + 1 BY <4>2
   <4>5. ASSUME NEW i \in DOMAIN fetched', NEW j \in DOMAIN fetched', i < j
         PROVE  fetched'[j] - fetched'[i] >= Ttl
    <5>1. i \in DOMAIN fetched BY <4>2, <4>5
    <5>2. CASE j \in DOMAIN fetched BY <1>0, <4>2, <4>5, <5>1, <5>2 DEF Spaced, Costs!OncePerTtl
    <5>3. CASE j = Len(fetched) + 1 BY <4>2, <4>3, <5>1, <5>3
    <5>. QED BY <4>4, <5>2, <5>3
   <4>. QED BY SMTT(40), <1>t, <3>0, <4>2, <4>4, <4>5
  <3>. QED BY <1>t, <3>1, <3>2
 <2>7. snapshot'.version = call[c].got /\ snapshot'.at = moment /\ snapshot' \in [version : Nat, at : Nat]
   BY <1>t, <2>1
 <2>8. PricesTypes' /\ Holding' /\ Behind' /\ Costs!PriceIsOfVersion'
   BY <1>0, <2>1, <2>3, <2>4, <2>6, <2>7
      DEF PricesTypes, Holding, Behind, Costs!PriceIsOfVersion, Stage
 <2>a. \A d \in Caller : call'[d].stage = "storing" <=> d = c BY <2>3, <2>4 DEF Stage
 <2>b. \A d \in Caller : call'[d].stage \notin {"writing", "fetching"} BY <2>3, <2>4 DEF Stage
 <2>9. Versions'
  <3>1. /\ snap'.version = snap.version /\ snap'.at = snap.at /\ offer' = offer /\ moment' = moment
        /\ snap.version <= snapshot.version /\ snap.at <= moment /\ 0 < offer
    BY <1>0, <2>1 DEF Versions
  <3>2. snap.version <= call[c].got BY <1>t, <2>5, <3>1
  <3>. QED BY <1>t, <2>3, <2>5, <2>7, <2>a, <2>b, <3>1, <3>2 DEF Versions, Stage
 <2>10. Spaced'
  <3>1. snapshot'.version # 0 BY <1>t, <2>5, <2>7
  <3>. QED BY <2>6, <2>7, <2>b, <3>1 DEF Spaced, Costs!OncePerTtl, Stage
 <2>. QED BY <2>8, <2>9, <2>10 DEF PricesInv
<1>6. ASSUME NEW c \in Caller, Costs!Store(c) PROVE PricesInv'
 <2>1. /\ call[c].stage = "storing" /\ UNCHANGED <<moment, offer, snapshot, asked, fetched, fetchFailures>>
       /\ snap' = [version |-> call[c].got, at |-> moment] /\ lock' = "free" /\ call' = [call EXCEPT ![c] = Costs!Idle]
   BY <1>6 DEF Costs!Store, Costs!Ends
 <2>2. /\ call' \in [Caller -> [stage : {"idle", "waiting", "fetching", "writing", "storing"},
                                 force : BOOLEAN, got : Nat]]
       /\ call'[c].stage = "idle" /\ \A d \in Caller : d # c => call'[d] = call[d]
   BY <1>0, <2>1, CallMoves,
      Costs!Idle \in [stage : {"idle", "waiting", "fetching", "writing", "storing"},
                                 force : BOOLEAN, got : Nat] DEF Costs!Idle
 <2>3. \A d \in Caller : d # c => Stage(d) \in {"idle", "waiting"} BY <1>0, <2>1 DEF Holding, Stage
 <2>4. 0 < call[c].got /\ call[c].got = snapshot.version BY <1>0, <2>1 DEF Versions, Stage
 <2>5. snap'.version = call[c].got /\ snap'.at = moment /\ snap' \in [version : Nat, at : Nat]
   BY <1>t, <2>1
 <2>6. \A d \in Caller : call'[d].stage \in {"idle", "waiting"} BY <2>2, <2>3 DEF Stage
 <2>7. PricesTypes' /\ Holding' /\ Costs!PriceIsOfVersion'
   BY <1>0, <2>1, <2>2, <2>5, <2>6 DEF PricesTypes, Holding, Costs!PriceIsOfVersion, Stage
 <2>8. Versions' /\ Behind'
  <3>1. \A d \in Caller : Stage(d)' # "writing" /\ Stage(d)' # "storing" BY <2>6 DEF Stage
  <3>2. /\ snapshot.version <= offer /\ 0 < offer /\ snapshot.at <= moment BY <1>0 DEF Versions
  <3>3. snap'.version = snapshot.version /\ snap'.at = moment /\ snapshot' = snapshot /\ offer' = offer /\ moment' = moment
    BY <2>1, <2>4, <2>5
  <3>4. Versions' BY <1>t, <3>1, <3>2, <3>3 DEF Versions
  <3>5. Behind' BY <1>t, <3>2, <3>3 DEF Behind
  <3>. QED BY <3>4, <3>5
 <2>9. Spaced' BY <1>0, <2>1, <2>6 DEF Spaced, Costs!OncePerTtl, Stage
 <2>. QED BY <2>7, <2>8, <2>9 DEF PricesInv
<1>7. ASSUME NEW e \in Estimator, Costs!TakeSnapshot(e) \/ \E known \in BOOLEAN : Costs!Price(e, known) PROVE PricesInv'
 <2>1. UNCHANGED <<moment, offer, snapshot, snap, lock, call, fetched, fetchFailures>>
   BY <1>7 DEF Costs!TakeSnapshot, Costs!Price
 <2>2. DOMAIN asked = Estimator BY <1>0 DEF PricesTypes
 <2>3. PICK r : asked' = [asked EXCEPT ![e] = r] /\ (r.stage = "told" => r.version = r.priced)
  <3>1. CASE Costs!TakeSnapshot(e)
   <4> DEFINE r == [Costs!Unasked EXCEPT !.stage = "taken", !.current = snap.version]
   <4>1. asked' = [asked EXCEPT ![e] = r] BY <3>1 DEF Costs!TakeSnapshot
   <4>2. r.stage = "taken" BY DEF Costs!Unasked
   <4>. QED BY <4>1, <4>2
  <3>2. ASSUME NEW known \in BOOLEAN, Costs!Price(e, known)
        PROVE  \E r : asked' = [asked EXCEPT ![e] = r] /\ (r.stage = "told" => r.version = r.priced)
   <4> DEFINE v == IF known /\ asked[e].current # 0 THEN asked[e].current ELSE Bundled
              r == [asked[e] EXCEPT !.stage = "told", !.priced = v, !.version = v]
   <4>1. asked' = [asked EXCEPT ![e] = r] BY <3>2 DEF Costs!Price
   <4>2. r.version = r.priced OBVIOUS
   <4>. QED BY <4>1, <4>2
  <3>. QED BY <1>7, <3>1, <3>2
 <2>4. Costs!PriceIsOfVersion' /\ DOMAIN asked' = Estimator
   BY <1>0, <2>2, <2>3 DEF Costs!PriceIsOfVersion
 <2>. QED BY <1>0, <2>1, <2>4
      DEF PricesInv, PricesTypes, Holding, Versions, Behind, Spaced, Costs!OncePerTtl, Stage
<1>8. CASE Costs!Tick
 <2>1. moment' = moment + 1 /\ UNCHANGED <<offer, snapshot, snap, lock, call, asked, fetched, fetchFailures>>
   BY <1>8 DEF Costs!Tick
 <2>. QED BY SMTT(40), <1>0, <1>t, <2>1
      DEF PricesInv, PricesTypes, Holding, Versions, Behind, Spaced, Costs!PriceIsOfVersion, Costs!OncePerTtl, Stage
<1>9. CASE Costs!Publish
 <2>1. offer' = offer + 1 /\ UNCHANGED <<moment, snapshot, snap, lock, call, asked, fetched, fetchFailures>>
   BY <1>9 DEF Costs!Publish
 <2>. QED BY <1>0, <1>t, <2>1
      DEF PricesInv, PricesTypes, Holding, Versions, Behind, Spaced, Costs!PriceIsOfVersion, Costs!OncePerTtl, Stage
<1>10. CASE Costs!Restart
 <2>1. /\ snap' = snapshot /\ lock' = "free" /\ UNCHANGED <<moment, offer, snapshot, fetched>>
       /\ call' = [c \in Caller |-> Costs!Idle] /\ asked' = [e \in Estimator |-> Costs!Unasked]
   BY <1>10 DEF Costs!Restart
 <2>2. /\ call' \in [Caller -> [stage : {"idle", "waiting", "fetching", "writing", "storing"},
                                 force : BOOLEAN, got : Nat]]
       /\ \A c \in Caller : call'[c].stage = "idle"
   BY <2>1 DEF Costs!Idle
 <2>3. Costs!PriceIsOfVersion' /\ DOMAIN asked' = Estimator
   BY <2>1 DEF Costs!PriceIsOfVersion, Costs!Unasked
 <2>. QED BY SMTT(40), <1>0, <1>t, <2>1, <2>2, <2>3
      DEF PricesInv, PricesTypes, Holding, Versions, Behind, Spaced, Costs!OncePerTtl, Stage
<1>11. CASE UNCHANGED Costs!vars
  BY <1>0, <1>11
     DEF Costs!vars, PricesInv, PricesTypes, Holding, Versions, Behind, Spaced, Costs!PriceIsOfVersion, Costs!OncePerTtl, Stage
<1>. QED BY <1>1, <1>2, <1>3, <1>4, <1>5, <1>6, <1>7, <1>8, <1>9, <1>10, <1>11 DEF Costs!Next

LEMMA PricesImplies == PricesInv => Costs!PricesSafe
<1> SUFFICES ASSUME PricesInv PROVE Costs!PricesSafe
  OBVIOUS
<1>1. Costs!TypeOK BY DEF PricesInv, PricesTypes, Costs!TypeOK, Versions, Holding, Stage
<1>. QED BY <1>1 DEF PricesInv, Costs!PricesSafe, Versions, Spaced, Costs!MemoryIsKept

\* Prices are fetched at most once per TTL, however many calls ask at once and
\* whenever the program dies, and are told with the version they are of.
THEOREM PricesAreSafe ==
  ASSUME PricesParameters
  PROVE  Costs!Spec => []Costs!PricesSafe
<1>1. Costs!Init => PricesInv BY PricesInit
<1>2. PricesInv /\ [Costs!Next]_(Costs!vars) => PricesInv' BY PricesNext
<1>3. PricesInv => Costs!PricesSafe BY PricesImplies
<1>. QED BY <1>1, <1>2, <1>3, PTL DEF Costs!Spec

----------------------------------------
(* The lists of models of registry.go: the inductive invariant.            *)

CacheParameters ==
  /\ Builtin \notin Nat /\ MaxOffers \in Nat \ {0} /\ Fresh \in Nat
  /\ Call \subseteq [of : Program, scope : Scope]

EntryT == [list : Nat, at : Nat]
MemoryT == [loaded : BOOLEAN, cache : [Scope -> EntryT], failed : BOOLEAN]
CallT == [stage : {"idle", "asking", "found", "told"}, seen : EntryT, got : 0..MaxOffers \cup {Builtin},
          error : BOOLEAN]

CacheTypes ==
  /\ today \in Nat /\ models \in [Scope -> 1..MaxOffers] /\ readable \in BOOLEAN /\ listFailures \in Nat
  /\ lists \in [Scope -> EntryT]
  /\ mem \in [Program -> MemoryT]
  /\ listing \in [Call -> CallT]

\* A list has been offered, at a time that has been.
Kept(entry, s) == entry.list <= models[s] /\ entry.at <= today /\ (entry.list = 0 => entry = Listed!NoEntry)

AllKept == \A s \in Scope : Kept(lists[s], s) /\ \A p \in Program : Kept(mem[p].cache[s], s)

\* What a call has discovered is a list that was offered, what it tells was known.
CallHolds(c) ==
  /\ listing[c].stage = "found" => listing[c].got \in 1..models[c.scope]
  /\ listing[c].stage = "told" => listing[c].got # 0 /\ (listing[c].got = Builtin => listing[c].seen = Listed!NoEntry)
  /\ listing[c].seen.list = 0 => listing[c].seen = Listed!NoEntry
  /\ listing[c].seen.list <= models[c.scope]
  /\ listing[c].seen.list # 0 =>
       mem[c.of].cache[c.scope].list # 0 /\ mem[c.of].cache[c.scope].at >= listing[c].seen.at
  /\ listing[c].stage # "idle" => mem[c.of].loaded

\* The cache of a program is empty until its first call.
LoadedOnce == \A p \in Program : ~mem[p].loaded => mem[p].cache = Listed!Empty

CacheInv ==
  /\ CacheTypes /\ AllKept /\ LoadedOnce /\ \A c \in Call : CallHolds(c)
  /\ saver # {} => readable
  /\ Listed!RestartListsTheSame

LEMMA CacheInit == CacheParameters /\ Listed!Init => CacheInv
<1> SUFFICES ASSUME CacheParameters, Listed!Init PROVE CacheInv
  OBVIOUS
<1>1. Listed!NoEntry \in EntryT /\ Listed!Empty \in [Scope -> EntryT] /\ Listed!NoEntry.list = 0 /\ Listed!NoEntry.at = 0
  BY DEF Listed!NoEntry, EntryT, Listed!Empty
<1>2. Listed!Unloaded \in MemoryT /\ Listed!Unloaded.cache = Listed!Empty /\ ~Listed!Unloaded.loaded
  BY <1>1 DEF Listed!Unloaded, MemoryT
<1>3. Listed!Idle \in CallT /\ Listed!Idle.stage = "idle" /\ Listed!Idle.seen = Listed!NoEntry
  BY <1>1 DEF Listed!Idle, CallT, CacheParameters
<1>4. CacheTypes BY <1>1, <1>2, <1>3 DEF Listed!Init, CacheTypes, CacheParameters
<1>5. AllKept BY <1>1, <1>2 DEF Listed!Init, AllKept, Kept, Listed!Empty
<1>6. ASSUME NEW c \in Call PROVE CallHolds(c)
  BY <1>1, <1>3, <1>4 DEF Listed!Init, CallHolds, CacheTypes, CacheParameters
<1>. QED BY <1>2, <1>4, <1>5, <1>6 DEF CacheInv, Listed!RestartListsTheSame, LoadedOnce, Listed!Init

\* Only the call of c changes.
LEMMA OneCall ==
  ASSUME CacheParameters, CacheInv, NEW c \in Call, NEW r \in CallT, listing' = [listing EXCEPT ![c] = r],
         UNCHANGED <<today, models, lists, readable, mem, saver>>, listFailures' \in {listFailures, listFailures + 1},
         r.stage # "idle" => listing[c].stage # "idle",
         r.stage = "found" => r.got \in 1..models[c.scope],
         r.stage = "told" => r.got # 0 /\ (r.got = Builtin => r.seen = Listed!NoEntry),
         r.seen = listing[c].seen \/ r.seen = Listed!NoEntry
  PROVE  CacheInv'
<1>0. CacheTypes /\ AllKept /\ \A d \in Call : CallHolds(d) BY DEF CacheInv
<1>1. /\ UNCHANGED <<today, models, lists, readable, mem, saver>> /\ listFailures' \in Nat
      /\ (listFailures' = 0 => listFailures = 0)
  BY <1>0 DEF CacheTypes
<1>2. listing' \in [Call -> CallT] /\ listing'[c] = r /\ \A d \in Call : d # c => listing'[d] = listing[d]
  BY <1>0 DEF CacheTypes
<1>3. CacheTypes' /\ AllKept' BY <1>0, <1>1, <1>2 DEF CacheTypes, AllKept, Kept
<1>4. c.scope \in Scope /\ models[c.scope] \in Nat /\ Listed!NoEntry.list = 0 /\ 0 <= models[c.scope]
  BY <1>0 DEF CacheTypes, CacheParameters, Listed!NoEntry
<1>5. ASSUME NEW d \in Call PROVE CallHolds(d)'
 <2>1. CASE d = c
  <3>1. CallHolds(c) BY <1>0
  <3>2. /\ r.seen.list = 0 => r.seen = Listed!NoEntry
        /\ r.seen.list <= models[c.scope]
        /\ r.seen.list # 0 =>
             mem[c.of].cache[c.scope].list # 0 /\ mem[c.of].cache[c.scope].at >= r.seen.at
    BY <1>4, <3>1 DEF CallHolds
  <3>3. r.stage # "idle" => mem[c.of].loaded BY <3>1 DEF CallHolds
  <3>. QED BY <1>1, <1>2, <2>1, <3>2, <3>3 DEF CallHolds
 <2>2. CASE d # c BY <1>0, <1>1, <1>2, <2>2 DEF CallHolds
 <2>. QED BY <2>1, <2>2
<1>6. Listed!RestartListsTheSame' /\ (saver' # {} => readable') /\ LoadedOnce'
  BY <1>1 DEF CacheInv, Listed!RestartListsTheSame, LoadedOnce
<1>. QED BY <1>3, <1>5, <1>6 DEF CacheInv

LEMMA CacheNext == CacheParameters /\ CacheInv /\ [Listed!Next]_(Listed!vars) => CacheInv'
<1> SUFFICES ASSUME CacheParameters, CacheInv, [Listed!Next]_(Listed!vars) PROVE CacheInv'
  OBVIOUS
<1>0. /\ CacheTypes /\ AllKept /\ LoadedOnce /\ (\A c \in Call : CallHolds(c))
      /\ (saver # {} => readable) /\ Listed!RestartListsTheSame
  BY DEF CacheInv
<1>t. /\ today \in Nat /\ listFailures \in Nat /\ \A s \in Scope : models[s] \in 1..MaxOffers
      /\ Builtin \notin Nat /\ MaxOffers \in Nat
      /\ \A c \in Call : c.of \in Program /\ c.scope \in Scope /\ listing[c] \in CallT
      /\ \A p \in Program : mem[p] \in MemoryT
  BY <1>0 DEF CacheTypes, CacheParameters
<1>n. /\ Listed!NoEntry \in EntryT /\ Listed!Empty \in [Scope -> EntryT] /\ Listed!NoEntry.list = 0 /\ Listed!NoEntry.at = 0
      /\ \A s \in Scope : Listed!Empty[s] = Listed!NoEntry
  BY DEF Listed!NoEntry, EntryT, Listed!Empty
<1>i. Listed!Idle \in CallT /\ Listed!Idle.stage = "idle" /\ Listed!Idle.seen = Listed!NoEntry
  BY <1>n, <1>t DEF Listed!Idle, CallT
<1>1. ASSUME NEW c \in Call, NEW force \in BOOLEAN, NEW discovers \in BOOLEAN, Listed!Look(c, force, discovers)
      PROVE  CacheInv'
 <2> DEFINE m == Listed!Loaded(c.of)
            entry == m.cache[c.scope]
            told == [stage |-> "told", seen |-> entry, got |-> Listed!Fallback(entry), error |-> m.failed]
            asks == [stage |-> "asking", seen |-> entry, got |-> 0, error |-> m.failed]
            r == IF (Listed!Fresh(entry) /\ ~force) \/ ~discovers THEN told ELSE asks
 <2>1. /\ mem' = [mem EXCEPT ![c.of] = m] /\ UNCHANGED <<today, models, lists, readable, saver, listFailures>>
       /\ listing' = [listing EXCEPT ![c] = r]
   BY <1>1 DEF Listed!Look
 <2>2. m \in MemoryT /\ m.loaded BY <1>0, <1>t, <1>n DEF Listed!Loaded, MemoryT, CacheTypes
 <2>3. /\ \A s \in Scope : Kept(m.cache[s], s)
       /\ mem[c.of].loaded => m = mem[c.of]
       /\ ~mem[c.of].loaded /\ readable => m.cache = lists
  <3>1. CASE mem[c.of].loaded BY <1>0, <1>t, <3>1 DEF Listed!Loaded, AllKept
  <3>2. CASE ~mem[c.of].loaded /\ readable BY <1>0, <3>2 DEF Listed!Loaded, AllKept
  <3>3. CASE ~mem[c.of].loaded /\ ~readable BY <1>t, <1>n, <3>3 DEF Listed!Loaded, Kept
  <3>. QED BY <3>1, <3>2, <3>3
 <2>p. c.of \in Program /\ c.scope \in Scope BY <1>t
 <2>4. entry \in EntryT /\ Kept(entry, c.scope) /\ m.failed \in BOOLEAN
   BY <2>2, <2>3, <2>p DEF MemoryT
 <2>5. /\ r \in CallT /\ r.seen = entry /\ r.stage \in {"told", "asking"}
       /\ r.stage = "told" => r.got # 0 /\ (r.got = Builtin => r.seen = Listed!NoEntry)
  <3> HIDE DEF m, entry
  <3>1. /\ Listed!Fallback(entry) \in 0..MaxOffers \cup {Builtin} /\ Listed!Fallback(entry) # 0
        /\ (Listed!Fallback(entry) = Builtin => entry = Listed!NoEntry)
    BY <1>t, <2>4, <2>p DEF Listed!Fallback, Kept, EntryT
  <3>2. told \in CallT /\ asks \in CallT BY <1>t, <2>4, <3>1 DEF CallT
  <3>. QED BY <3>1, <3>2
 <2> HIDE DEF m, entry, told, asks, r
 <2>6. /\ mem' \in [Program -> MemoryT] /\ mem'[c.of] = m
       /\ \A p \in Program : p # c.of => mem'[p] = mem[p]
   BY <1>0, <2>1, <2>2, <2>p DEF CacheTypes
 <2>7. listing' \in [Call -> CallT] /\ listing'[c] = r /\ \A d \in Call : d # c => listing'[d] = listing[d]
   BY <1>0, <2>1, <2>5 DEF CacheTypes
 <2>8. CacheTypes' BY <1>0, <2>1, <2>6, <2>7 DEF CacheTypes
 <2>9. AllKept' BY <1>0, <2>1, <2>3, <2>6 DEF AllKept, Kept
 <2>10. LoadedOnce' BY <1>0, <2>2, <2>6 DEF LoadedOnce
 <2>11. ASSUME NEW d \in Call PROVE CallHolds(d)'
  <3>1. CASE d = c
   <4>1. r.seen = m.cache[c.scope] BY <2>5 DEF entry
   <4>2. r.seen.at \in Nat /\ r.seen.at >= r.seen.at BY <2>4, <2>5 DEF EntryT
   <4>3. r.seen.list <= models[c.scope] /\ (r.seen.list = 0 => r.seen = Listed!NoEntry)
     BY <2>4, <2>5 DEF Kept
   <4>. QED BY <2>1, <2>2, <2>5, <2>6, <2>7, <3>1, <4>1, <4>2, <4>3 DEF CallHolds
  <3>2. CASE d # c
   <4>1. CallHolds(d) /\ d.of \in Program /\ d.scope \in Scope BY <1>0, <1>t
   <4>2. CASE d.of # c.of \/ mem[c.of].loaded
    <5>1. mem'[d.of] = mem[d.of] BY <2>3, <2>6, <4>1, <4>2
    <5>. QED BY <2>1, <2>7, <3>2, <4>1, <5>1 DEF CallHolds
   <4>3. CASE d.of = c.of /\ ~mem[c.of].loaded
    <5>1. mem[d.of].cache[d.scope].list = 0 BY <1>0, <1>n, <4>1, <4>3 DEF LoadedOnce
    <5>. QED BY <2>1, <2>2, <2>6, <2>7, <3>2, <4>1, <4>3, <5>1 DEF CallHolds
   <4>. QED BY <4>2, <4>3
  <3>. QED BY <3>1, <3>2
 <2>12. Listed!RestartListsTheSame'
  <3> SUFFICES ASSUME NEW p \in Program, saver = {p}, mem'[p].loaded, listFailures = 0 PROVE lists = mem'[p].cache
    BY <2>1 DEF Listed!RestartListsTheSame
  <3>1. CASE mem[p].loaded BY <1>0, <2>3, <2>6, <3>1 DEF Listed!RestartListsTheSame
  <3>2. CASE ~mem[p].loaded BY <1>0, <2>3, <2>6, <3>2
  <3>. QED BY <3>1, <3>2
 <2>. QED BY <1>0, <2>1, <2>8, <2>9, <2>10, <2>11, <2>12 DEF CacheInv
<1>2. ASSUME NEW c \in Call, Listed!Discover(c) PROVE CacheInv'
 <2> DEFINE r == [listing[c] EXCEPT !.stage = "found", !.got = models[c.scope]]
 <2>1. /\ listing[c].stage = "asking" /\ listing' = [listing EXCEPT ![c] = r]
       /\ UNCHANGED <<today, models, lists, readable, mem, saver, listFailures>>
   BY <1>2 DEF Listed!Discover
 <2>2. listing[c] \in CallT /\ models[c.scope] \in 1..MaxOffers BY <1>t
 <2>3. r \in CallT /\ r.stage = "found" /\ r.got = models[c.scope] /\ r.seen = listing[c].seen
  <3> DEFINE q == listing[c]
             n == models[c.scope]
  <3>1. q \in CallT /\ n \in 0..MaxOffers \cup {Builtin} BY <1>t, <2>2
  <3> HIDE DEF q, n
  <3>2. LET s == [q EXCEPT !.stage = "found", !.got = n]
        IN  s \in CallT /\ s.stage = "found" /\ s.got = n /\ s.seen = q.seen
    BY <3>1 DEF CallT
  <3>. QED BY <3>2 DEF q, n
 <2> HIDE DEF r
 <2>4. r.got \in 1..models[c.scope] BY <1>t, <2>2, <2>3
 <2>. QED BY <2>1, <2>3, <2>4, OneCall
<1>3. ASSUME NEW c \in Call, Listed!DiscoverFails(c) PROVE CacheInv'
 <2> DEFINE r == [listing[c] EXCEPT !.stage = "told", !.got = Listed!Fallback(listing[c].seen), !.error = TRUE]
 <2>1. /\ listing[c].stage = "asking" /\ listing' = [listing EXCEPT ![c] = r] /\ listFailures' = listFailures + 1
       /\ UNCHANGED <<today, models, lists, readable, mem, saver>>
   BY <1>3 DEF Listed!DiscoverFails
 <2>2. listing[c] \in CallT /\ CallHolds(c) /\ listing[c].seen \in EntryT /\ models[c.scope] \in 1..MaxOffers
   BY <1>0, <1>t DEF CallT
 <2>3. /\ Listed!Fallback(listing[c].seen) \in 0..MaxOffers \cup {Builtin} /\ Listed!Fallback(listing[c].seen) # 0
       /\ (Listed!Fallback(listing[c].seen) = Builtin => listing[c].seen = Listed!NoEntry)
   BY <1>t, <2>2 DEF Listed!Fallback, CallHolds, EntryT
 <2>4. r \in CallT /\ r.stage = "told" /\ r.got = Listed!Fallback(listing[c].seen) /\ r.seen = listing[c].seen
   BY <2>2, <2>3 DEF CallT
 <2> HIDE DEF r
 <2>. QED BY <2>1, <2>3, <2>4, OneCall
<1>4. ASSUME NEW c \in Call, Listed!Store(c) PROVE CacheInv'
 <2> DEFINE new == [list |-> listing[c].got, at |-> today]
            cache == Listed!Remembered(c, new)
            saved == [loaded |-> TRUE, cache |-> cache, failed |-> FALSE]
            unsaved == [mem[c.of] EXCEPT !.cache = cache]
            ok == [listing[c] EXCEPT !.stage = "told"]
            bad == [listing[c] EXCEPT !.stage = "told", !.error = TRUE]
 <2>1. listing[c].stage = "found" /\ UNCHANGED <<today, models>> BY <1>4 DEF Listed!Store
 <2>2. \/ /\ mem' = [mem EXCEPT ![c.of] = saved] /\ lists' = cache /\ readable' = TRUE
          /\ saver' = saver \cup {c.of} /\ listing' = [listing EXCEPT ![c] = ok] /\ UNCHANGED listFailures
       \/ /\ mem' = [mem EXCEPT ![c.of] = unsaved] /\ listFailures' = listFailures + 1
          /\ listing' = [listing EXCEPT ![c] = bad] /\ UNCHANGED <<lists, readable, saver>>
   BY <1>4 DEF Listed!Store
 <2>3. /\ listing[c] \in CallT /\ CallHolds(c) /\ listing[c].got \in 1..models[c.scope] /\ mem[c.of].loaded
       /\ c.of \in Program /\ c.scope \in Scope /\ mem[c.of] \in MemoryT /\ models[c.scope] \in 1..MaxOffers
   BY <1>0, <1>t, <2>1 DEF CallHolds
 <2>4. new \in EntryT /\ Kept(new, c.scope) /\ new.list # 0 /\ new.at = today
   BY <1>t, <2>3 DEF EntryT, Kept
 <2> HIDE DEF new
 <2>5. /\ cache \in [Scope -> EntryT] /\ cache[c.scope] = new
       /\ \A s \in Scope : s # c.scope => cache[s] = mem[c.of].cache[s]
   BY <2>3, <2>4 DEF Listed!Remembered, MemoryT
 <2>6. \A s \in Scope : Kept(cache[s], s) BY <1>0, <2>3, <2>4, <2>5 DEF AllKept
 <2> HIDE DEF cache
 <2>7. /\ saved \in MemoryT /\ saved.loaded /\ saved.cache = cache
       /\ unsaved \in MemoryT /\ unsaved.loaded /\ unsaved.cache = cache
   BY <2>3, <2>5 DEF MemoryT
 <2>8. /\ ok \in CallT /\ ok.stage = "told" /\ ok.seen = listing[c].seen /\ ok.got = listing[c].got
       /\ bad \in CallT /\ bad.stage = "told" /\ bad.seen = listing[c].seen /\ bad.got = listing[c].got
   BY <2>3 DEF CallT
 <2> HIDE DEF saved, unsaved, ok, bad
 <2>9. /\ mem' \in [Program -> MemoryT] /\ mem'[c.of].loaded /\ mem'[c.of].cache = cache
       /\ \A p \in Program : p # c.of => mem'[p] = mem[p]
   BY <1>0, <2>2, <2>3, <2>7 DEF CacheTypes
 <2>10. /\ listing' \in [Call -> CallT] /\ \A d \in Call : d # c => listing'[d] = listing[d]
        /\ listing'[c].stage = "told" /\ listing'[c].seen = listing[c].seen /\ listing'[c].got = listing[c].got
   BY <1>0, <2>2, <2>8 DEF CacheTypes
 <2>11. CacheTypes'
  <3>1. lists' \in [Scope -> EntryT] /\ readable' \in BOOLEAN /\ listFailures' \in Nat
   <4>1. lists \in [Scope -> EntryT] /\ readable \in BOOLEAN BY <1>0 DEF CacheTypes
   <4>2. lists' \in {cache, lists} /\ readable' \in {TRUE, readable} /\ listFailures' \in {listFailures, listFailures + 1}
     BY <2>2
   <4>3. listFailures + 1 \in Nat BY <1>t
   <4>. QED BY <1>t, <2>5, <4>1, <4>2, <4>3
  <3>. QED BY <1>0, <2>1, <2>9, <2>10, <3>1 DEF CacheTypes
 <2>12. AllKept'
  <3>1. ASSUME NEW s \in Scope PROVE Kept(lists'[s], s) /\ \A p \in Program : Kept(mem'[p].cache[s], s)
    BY <1>0, <2>2, <2>6, <2>9 DEF AllKept
  <3>. QED BY <2>1, <3>1 DEF AllKept, Kept
 <2>13. LoadedOnce' /\ (saver' # {} => readable') BY <1>0, <2>2, <2>9 DEF LoadedOnce
 <2>14. ASSUME NEW d \in Call PROVE CallHolds(d)'
  <3>1. CallHolds(d) /\ d.of \in Program /\ d.scope \in Scope /\ listing[d].seen \in EntryT
    BY <1>0, <1>t DEF CallT
  <3>2. /\ listing'[d].seen = listing[d].seen /\ (listing'[d].stage = "idle" <=> listing[d].stage = "idle")
    BY <2>1, <2>10
  <3>3. /\ listing'[d].stage = "found" => listing'[d].got \in 1..models[d.scope]
        /\ listing'[d].stage = "told" => listing'[d].got # 0 /\ (listing'[d].got = Builtin => listing'[d].seen = Listed!NoEntry)
   <4>1. CASE d = c BY <1>t, <2>3, <2>10, <4>1
   <4>2. CASE d # c BY <2>10, <3>1, <4>2 DEF CallHolds
   <4>. QED BY <4>1, <4>2
  <3>4. listing[d].seen.list # 0 =>
           mem'[d.of].cache[d.scope].list # 0 /\ mem'[d.of].cache[d.scope].at >= listing[d].seen.at
   <4> SUFFICES ASSUME listing[d].seen.list # 0
                PROVE  mem'[d.of].cache[d.scope].list # 0 /\ mem'[d.of].cache[d.scope].at >= listing[d].seen.at
     OBVIOUS
   <4>1. mem[d.of].cache[d.scope].list # 0 /\ mem[d.of].cache[d.scope].at >= listing[d].seen.at
     BY <3>1 DEF CallHolds
   <4>2. CASE d.of = c.of /\ d.scope = c.scope
    <5>1. Kept(mem[d.of].cache[d.scope], d.scope) /\ mem[d.of].cache[d.scope].at \in Nat
      BY <1>0, <1>t, <3>1 DEF AllKept, MemoryT, EntryT
    <5>2. listing[d].seen.at <= today /\ listing[d].seen.at \in Nat
      BY <1>t, <3>1, <4>1, <5>1 DEF Kept, EntryT
    <5>. QED BY <1>t, <2>4, <2>5, <2>9, <4>2, <5>2
   <4>3. CASE d.of # c.of BY <2>9, <3>1, <4>1, <4>3
   <4>4. CASE d.of = c.of /\ d.scope # c.scope BY <2>5, <2>9, <3>1, <4>1, <4>4
   <4>. QED BY <4>2, <4>3, <4>4
  <3>5. listing[d].stage # "idle" => mem'[d.of].loaded BY <2>9, <3>1 DEF CallHolds
  <3>. QED BY <2>1, <3>1, <3>2, <3>3, <3>4, <3>5 DEF CallHolds
 <2>15. Listed!RestartListsTheSame'
  <3> SUFFICES ASSUME NEW p \in Program, saver' = {p}, mem'[p].loaded, listFailures' = 0 PROVE lists' = mem'[p].cache
    BY DEF Listed!RestartListsTheSame
  <3>1. /\ lists' = cache /\ saver' = saver \cup {c.of} BY <1>t, <2>2
  <3>2. p = c.of BY <3>1
  <3>. QED BY <2>9, <3>1, <3>2
 <2>. QED BY <2>11, <2>12, <2>13, <2>14, <2>15 DEF CacheInv
<1>5. ASSUME NEW c \in Call, Listed!Again(c) PROVE CacheInv'
 <2>1. /\ listing[c].stage = "told" /\ listing' = [listing EXCEPT ![c] = Listed!Idle]
       /\ UNCHANGED <<today, models, lists, readable, mem, saver, listFailures>>
   BY <1>5 DEF Listed!Again
 <2>. QED BY <1>i, <2>1, OneCall
<1>6. ASSUME NEW q \in Program, Listed!Restart(q) PROVE CacheInv'
 <2>1. /\ listFailures' = listFailures + 1 /\ UNCHANGED <<today, models, lists, readable, saver>>
       /\ mem' = [mem EXCEPT ![q] = Listed!Unloaded]
       /\ listing' = [c \in Call |-> IF c.of = q THEN Listed!Idle ELSE listing[c]]
   BY <1>6 DEF Listed!Restart
 <2>2. Listed!Unloaded \in MemoryT /\ Listed!Unloaded.cache = Listed!Empty /\ ~Listed!Unloaded.loaded
   BY <1>n DEF Listed!Unloaded, MemoryT
 <2>3. mem' \in [Program -> MemoryT] /\ mem'[q] = Listed!Unloaded /\ \A p \in Program : p # q => mem'[p] = mem[p]
   BY <1>0, <2>1, <2>2 DEF CacheTypes
 <2>4. /\ listing' \in [Call -> CallT] /\ \A c \in Call : c.of = q => listing'[c] = Listed!Idle
       /\ \A c \in Call : c.of # q => listing'[c] = listing[c]
   BY <1>i, <1>t, <2>1
 <2>5. CacheTypes' BY <1>0, <1>t, <2>1, <2>3, <2>4 DEF CacheTypes
 <2>6. AllKept' /\ LoadedOnce' BY <1>0, <1>n, <1>t, <2>1, <2>2, <2>3 DEF AllKept, Kept, LoadedOnce
 <2>7. ASSUME NEW c \in Call PROVE CallHolds(c)'
  <3>1. CASE c.of = q BY <1>i, <1>n, <1>t, <2>1, <2>4, <3>1 DEF CallHolds
  <3>2. CASE c.of # q BY <1>0, <1>t, <2>1, <2>3, <2>4, <3>2 DEF CallHolds
  <3>. QED BY <3>1, <3>2
 <2>8. Listed!RestartListsTheSame' /\ (saver' # {} => readable')
   BY <1>0, <1>t, <2>1 DEF Listed!RestartListsTheSame
 <2>. QED BY <2>5, <2>6, <2>7, <2>8 DEF CacheInv
<1>7. CASE Listed!Tick
 <2>1. today' = today + 1 /\ UNCHANGED <<models, lists, readable, mem, listing, saver, listFailures>>
   BY <1>7 DEF Listed!Tick
 <2>2. CacheTypes' BY <1>0, <2>1 DEF CacheTypes
 <2>3. AllKept'
  <3>1. ASSUME NEW s \in Scope, NEW e \in EntryT, Kept(e, s) PROVE Kept(e, s)'
    BY <1>t, <2>1, <3>1 DEF Kept, EntryT
  <3>. QED BY <1>0, <1>t, <2>1, <3>1 DEF AllKept, CacheTypes, MemoryT
 <2>4. LoadedOnce' /\ (\A c \in Call : CallHolds(c)') /\ Listed!RestartListsTheSame' /\ (saver' # {} => readable')
   BY <1>0, <2>1 DEF LoadedOnce, CallHolds, Listed!RestartListsTheSame
 <2>. QED BY <2>2, <2>3, <2>4 DEF CacheInv
<1>8. ASSUME NEW t \in Scope, Listed!Offers(t) PROVE CacheInv'
 <2>1. /\ models[t] < MaxOffers /\ models' = [models EXCEPT ![t] = @ + 1]
       /\ UNCHANGED <<today, lists, readable, mem, listing, saver, listFailures>>
   BY <1>8 DEF Listed!Offers
 <2>2. models' \in [Scope -> 1..MaxOffers] /\ \A s \in Scope : models'[s] \in {models[s], models[s] + 1}
   BY <1>0, <1>t, <2>1 DEF CacheTypes
 <2>3. CacheTypes' BY <1>0, <2>1, <2>2 DEF CacheTypes
 <2>4. AllKept'
  <3>1. ASSUME NEW s \in Scope, NEW e \in EntryT, Kept(e, s) PROVE Kept(e, s)'
    BY <1>t, <2>1, <2>2, <3>1 DEF Kept, EntryT
  <3>. QED BY <1>0, <1>t, <2>1, <3>1 DEF AllKept, CacheTypes, MemoryT
 <2>5. ASSUME NEW c \in Call PROVE CallHolds(c)'
  <3>1. CallHolds(c) /\ c.scope \in Scope /\ listing[c].seen.list \in Nat
    BY <1>0, <1>t DEF CallT, EntryT
  <3>2. models[c.scope] \in 1..MaxOffers /\ models'[c.scope] \in {models[c.scope], models[c.scope] + 1}
    BY <1>t, <2>2, <3>1
  <3>3. listing[c].seen.list <= models[c.scope] => listing[c].seen.list <= models'[c.scope]
    BY <1>t, <3>1, <3>2
  <3>4. listing[c].got \in 1..models[c.scope] => listing[c].got \in 1..models'[c.scope]
    BY <1>t, <3>2
  <3>. QED BY <2>1, <3>1, <3>3, <3>4 DEF CallHolds
 <2>6. LoadedOnce' /\ Listed!RestartListsTheSame' /\ (saver' # {} => readable')
   BY SMTT(40), <1>0, <2>1 DEF LoadedOnce, Listed!RestartListsTheSame
 <2>. QED BY <2>3, <2>4, <2>5, <2>6 DEF CacheInv
<1>9. CASE UNCHANGED Listed!vars
  BY <1>0, <1>9
     DEF Listed!vars, CacheInv, CacheTypes, AllKept, Kept, LoadedOnce, CallHolds,
         Listed!RestartListsTheSame
<1>. QED BY <1>1, <1>2, <1>3, <1>4, <1>5, <1>6, <1>7, <1>8, <1>9 DEF Listed!Next

LEMMA CacheImplies == CacheParameters /\ CacheInv => Listed!CacheSafe
<1> SUFFICES ASSUME CacheParameters, CacheInv PROVE Listed!CacheSafe
  OBVIOUS
<1>0. CacheTypes /\ AllKept /\ (\A c \in Call : CallHolds(c)) /\ Listed!RestartListsTheSame
  BY DEF CacheInv
<1>1. Listed!TypeOK
 <2>1. ASSUME NEW p \in Program, NEW s \in Scope
       PROVE  mem[p].cache[s].list \in 0..models[s] /\ mem[p].cache[s].at <= today
  <3>1. mem[p].cache[s] \in EntryT /\ Kept(mem[p].cache[s], s) /\ models[s] \in Nat
    BY <1>0 DEF CacheTypes, AllKept, MemoryT
  <3>. QED BY <3>1 DEF EntryT, Kept
 <2>2. \A c \in Call : listing[c].got \in 0..MaxOffers \cup {Builtin} BY <1>0 DEF CacheTypes, CallT
 <2>. QED BY <2>1, <2>2 DEF Listed!TypeOK
<1>. QED
  BY <1>0, <1>1 DEF Listed!CacheSafe, CallHolds, Listed!AnswersAreKnown, Listed!NothingForgotten

\* Whatever a provider, another program or a death does between the look and the
\* store of a call, it is told a list and no list that is known is forgotten.
THEOREM ListsAreKept ==
  ASSUME CacheParameters
  PROVE  Listed!Spec => []Listed!CacheSafe
<1>1. Listed!Init => CacheInv BY CacheInit
<1>2. CacheInv /\ [Listed!Next]_(Listed!vars) => CacheInv' BY CacheNext
<1>3. CacheInv => Listed!CacheSafe BY CacheImplies
<1>. QED BY <1>1, <1>2, <1>3, PTL DEF Listed!Spec

=============================================================================
