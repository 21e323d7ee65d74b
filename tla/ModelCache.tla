----------------------------- MODULE ModelCache -----------------------------
(* The registry of models, internal/modelregistry/registry.go: programs that  *)
(* share a cache file list the models of a provider while others discover     *)
(* them, with stale and bundled lists to fall back on.                        *)
EXTENDS Integers, FiniteSets

CONSTANTS
  Program,      \* the programs that share the file
  Call,         \* calls of List: record [of, scope], of its program
  Scope,        \* the endpoints of providers
  Bundled,      \* the list of the program, Builtin
  Ttl,          \* for how long a list is fresh
  MaxTime,      \* bound on the clock
  MaxOffers,    \* bound on the lists that a provider offers
  MaxFailures   \* bound on failing discoveries, saves and on deaths

VARIABLES
  now,      \* the clock
  offer,    \* scope -> the number of the list the provider offers
  file,     \* the cache file: scope -> [list, at], list 0 if it has none
  readable, \* the file can be read and decoded
  mem,      \* program -> [loaded, cache, failed]
  call,     \* call -> [stage, seen, got, error]
  saver,    \* who has saved since the file was made
  failures

vars == <<now, offer, file, readable, mem, call, saver, failures>>

NoEntry == [list |-> 0, at |-> 0]
Empty == [s \in Scope |-> NoEntry]
Unloaded == [loaded |-> FALSE, cache |-> Empty, failed |-> FALSE]
Idle == [stage |-> "idle", seen |-> NoEntry, got |-> 0, error |-> FALSE]

(* loadLocked: once; a file that cannot be read leaves an empty cache.        *)
Loaded(p) ==
  IF mem[p].loaded THEN mem[p]
  ELSE [loaded |-> TRUE, cache |-> IF readable THEN file ELSE Empty, failed |-> ~readable]

Fresh(entry) == entry.list # 0 /\ now - entry.at < Ttl

Fallback(entry) == IF entry.list = 0 THEN Bundled ELSE entry.list

(* List as far as the first unlock; Cached has no way to discover.            *)
Look(c, force, discovers) ==
  /\ call[c].stage = "idle"
  /\ LET m == Loaded(c.of)  entry == m.cache[c.scope] IN
       /\ mem' = [mem EXCEPT ![c.of] = m]
       /\ call' = [call EXCEPT ![c] =
            IF (Fresh(entry) /\ ~force) \/ ~discovers
            THEN [stage |-> "told", seen |-> entry, got |-> Fallback(entry), error |-> m.failed]
            ELSE [stage |-> "asking", seen |-> entry, got |-> 0, error |-> m.failed]]
  /\ UNCHANGED <<now, offer, file, readable, saver, failures>>

Discover(c) ==
  /\ call[c].stage = "asking" /\ call' = [call EXCEPT ![c].stage = "found", ![c].got = offer[c.scope]]
  /\ UNCHANGED <<now, offer, file, readable, mem, saver, failures>>

(* The provider fails, or returns no models.                                  *)
DiscoverFails(c) ==
  /\ call[c].stage = "asking" /\ failures < MaxFailures /\ failures' = failures + 1
  /\ call' = [call EXCEPT ![c].stage = "told", ![c].got = Fallback(call[c].seen), ![c].error = TRUE]
  /\ UNCHANGED <<now, offer, file, readable, mem, saver>>

(* Mutant: what was looked up before the discovery is put back with it.       *)
MemoryAtLook(c, entry) == [Empty EXCEPT ![c.scope] = entry]

Remembered(c, entry) == [mem[c.of].cache EXCEPT ![c.scope] = entry]

(* The whole cache of the program replaces the file.                          *)
Store(c) ==
  /\ call[c].stage = "found"
  /\ LET cache == Remembered(c, [list |-> call[c].got, at |-> now]) IN
     \/ /\ mem' = [mem EXCEPT ![c.of] = [loaded |-> TRUE, cache |-> cache, failed |-> FALSE]]
        /\ file' = cache /\ readable' = TRUE /\ saver' = saver \cup {c.of}
        /\ call' = [call EXCEPT ![c].stage = "told"] /\ UNCHANGED failures
     \/ /\ mem' = [mem EXCEPT ![c.of].cache = cache]
        /\ failures < MaxFailures /\ failures' = failures + 1
        /\ call' = [call EXCEPT ![c].stage = "told", ![c].error = TRUE]
        /\ UNCHANGED <<file, readable, saver>>
  /\ UNCHANGED <<now, offer>>

Again(c) ==
  /\ call[c].stage = "told" /\ call' = [call EXCEPT ![c] = Idle]
  /\ UNCHANGED <<now, offer, file, readable, mem, saver, failures>>

(* A program dies and starts anew; a temporary file that it leaves is nobody's.*)
Restart(p) ==
  /\ failures < MaxFailures /\ failures' = failures + 1
  /\ mem' = [mem EXCEPT ![p] = Unloaded]
  /\ call' = [c \in Call |-> IF c.of = p THEN Idle ELSE call[c]]
  /\ UNCHANGED <<now, offer, file, readable, saver>>

Tick == now < MaxTime /\ now' = now + 1 /\ UNCHANGED <<offer, file, readable, mem, call, saver, failures>>

Offers(s) ==
  /\ offer[s] < MaxOffers /\ offer' = [offer EXCEPT ![s] = @ + 1]
  /\ UNCHANGED <<now, file, readable, mem, call, saver, failures>>

(* At first there is no file, or one that cannot be decoded.                  *)
Init ==
  /\ now = 0 /\ offer = [s \in Scope |-> 1] /\ file = Empty /\ readable \in BOOLEAN
  /\ mem = [p \in Program |-> Unloaded] /\ call = [c \in Call |-> Idle] /\ saver = {} /\ failures = 0

Next ==
  \/ \E c \in Call : \/ \E force, discovers \in BOOLEAN : Look(c, force, discovers)
                     \/ Discover(c) \/ DiscoverFails(c) \/ Store(c) \/ Again(c)
  \/ \E p \in Program : Restart(p)
  \/ \E s \in Scope : Offers(s)
  \/ Tick

Spec == Init /\ [][Next]_vars

-----------------------------------------------------------------------------
(* Lists and times are those that have been (registry.go: cacheFile).         *)
TypeOK ==
  /\ \A p \in Program : \A s \in Scope : mem[p].cache[s].list \in 0..offer[s] /\ mem[p].cache[s].at <= now
  /\ \A c \in Call : call[c].got \in 0..MaxOffers \cup {Bundled}

(* Whoever asks is told some list, and the bundled one only if nothing was    *)
(* known when the call looked (registry.go: List).                            *)
AnswersAreKnown ==
  \A c \in Call : call[c].stage = "told" => call[c].got # 0 /\ (call[c].got = Bundled => call[c].seen = NoEntry)

(* What a program has listed once it knows: neither a failing discovery nor   *)
(* one of another scope that ends meanwhile takes it away (List).             *)
NothingForgotten ==
  \A c \in Call :
    call[c].seen.list # 0 => mem[c.of].cache[c.scope].list # 0 /\ mem[c.of].cache[c.scope].at >= call[c].seen.at

(* The file has what the only program that saves has in memory, unless a save *)
(* has failed: a restart lists the same (saveLocked, loadLocked).             *)
RestartListsTheSame ==
  \A p \in Program : saver = {p} /\ mem[p].loaded /\ failures = 0 => file = mem[p].cache

CacheSafe == TypeOK /\ AnswersAreKnown /\ NothingForgotten /\ RestartListsTheSame
=============================================================================
