------------------------------- MODULE Prices -------------------------------
(* Prices of models, internal/pricing/service.go: a snapshot of the API that  *)
(* is refreshed at most once per TTL by calls that may come at once, kept in  *)
(* a file over restarts, and used by estimates meanwhile.                     *)
EXTENDS Integers, Sequences, FiniteSets

CONSTANTS
  Caller,       \* who refreshes
  Estimator,    \* who asks for a price
  Bundled,      \* pricing.Version, the table of the program
  Ttl,          \* for how long a snapshot is fresh
  MaxTime,      \* bound on the clock
  MaxVersions,  \* bound on what the API offers
  MaxFailures   \* bound on failing requests, writes and deaths

VARIABLES
  now,      \* the clock
  offer,    \* the version the API offers
  file,     \* the cache: its version and modification time, 0 if there is none
  snap,     \* snapshot with updated: the same, of the memory
  lock,     \* who has refreshMu, or "free"
  call,     \* caller -> [stage, force, got]
  asked,    \* estimator -> [stage, current, version, priced]
  fetched,  \* when snapshots were written that no call had forced
  failures

vars == <<now, offer, file, snap, lock, call, asked, fetched, failures>>

Nothing == [version |-> 0, at |-> 0]
Idle == [stage |-> "idle", force |-> FALSE, got |-> 0]
Unasked == [stage |-> "idle", current |-> 0, version |-> Bundled, priced |-> Bundled]

Goes(c, stage) == call' = [call EXCEPT ![c].stage = stage]

(* The end of a refresh gives the mutex up.                                   *)
Ends(c) == call' = [call EXCEPT ![c] = Idle] /\ lock' = "free"

Fresh == snap.version # 0 /\ now - snap.at < Ttl

-----------------------------------------------------------------------------
Refresh(c, force) ==
  /\ call[c].stage = "idle" /\ call' = [call EXCEPT ![c] = [stage |-> "waiting", force |-> force, got |-> 0]]
  /\ UNCHANGED <<now, offer, file, snap, lock, asked, fetched, failures>>

(* Mutant: whether the snapshot is fresh is not asked again under the mutex.  *)
LockToFetch(c) ==
  /\ call[c].stage = "waiting" /\ lock = "free" /\ lock' = c /\ Goes(c, "fetching")
  /\ UNCHANGED <<now, offer, file, snap, asked, fetched, failures>>

Lock(c) ==
  /\ call[c].stage = "waiting" /\ lock = "free"
  /\ IF Fresh /\ ~call[c].force THEN Ends(c) ELSE lock' = c /\ Goes(c, "fetching")
  /\ UNCHANGED <<now, offer, file, snap, asked, fetched, failures>>

Fetch(c) ==
  /\ call[c].stage = "fetching"
  /\ call' = [call EXCEPT ![c].stage = "writing", ![c].got = offer]
  /\ UNCHANGED <<now, offer, file, snap, lock, asked, fetched, failures>>

(* No answer, not status 200, too long, or no valid price in it; or the file  *)
(* cannot be replaced.                                                        *)
Fails(c) ==
  /\ call[c].stage \in {"fetching", "writing"} /\ failures < MaxFailures /\ failures' = failures + 1
  /\ Ends(c) /\ UNCHANGED <<now, offer, file, snap, asked, fetched>>

Write(c) ==
  /\ call[c].stage = "writing" /\ file' = [version |-> call[c].got, at |-> now] /\ Goes(c, "storing")
  /\ fetched' = IF call[c].force THEN fetched ELSE Append(fetched, now)
  /\ UNCHANGED <<now, offer, snap, lock, asked, failures>>

Store(c) ==
  /\ call[c].stage = "storing" /\ snap' = [version |-> call[c].got, at |-> now] /\ Ends(c)
  /\ UNCHANGED <<now, offer, file, asked, fetched, failures>>

-----------------------------------------------------------------------------
(* Estimate takes the snapshot once; if that has no price for the model the   *)
(* bundled table has one, or nobody.                                          *)
TakeSnapshot(e) ==
  /\ asked[e].stage = "idle"
  /\ asked' = [asked EXCEPT ![e] = [Unasked EXCEPT !.stage = "taken", !.current = snap.version]]
  /\ UNCHANGED <<now, offer, file, snap, lock, call, fetched, failures>>

(* Mutant: the version is that of the snapshot when the estimate ends.        *)
PriceOfLast(e, known) ==
  /\ asked[e].stage = "taken"
  /\ asked' = [asked EXCEPT ![e].stage = "told",
       ![e].priced = IF known /\ asked[e].current # 0 THEN asked[e].current ELSE Bundled,
       ![e].version = IF known /\ asked[e].current # 0 THEN snap.version ELSE Bundled]
  /\ UNCHANGED <<now, offer, file, snap, lock, call, fetched, failures>>

Price(e, known) ==
  /\ asked[e].stage = "taken"
  /\ LET version == IF known /\ asked[e].current # 0 THEN asked[e].current ELSE Bundled
     IN asked' = [asked EXCEPT ![e].stage = "told", ![e].priced = version, ![e].version = version]
  /\ UNCHANGED <<now, offer, file, snap, lock, call, fetched, failures>>

-----------------------------------------------------------------------------
Tick == now < MaxTime /\ now' = now + 1 /\ UNCHANGED <<offer, file, snap, lock, call, asked, fetched, failures>>

Publish ==
  /\ offer < MaxVersions /\ offer' = offer + 1
  /\ UNCHANGED <<now, file, snap, lock, call, asked, fetched, failures>>

(* The program dies, and starts with what it finds (NewService).              *)
Restart ==
  /\ failures < MaxFailures /\ failures' = failures + 1
  /\ snap' = file /\ lock' = "free" /\ call' = [c \in Caller |-> Idle] /\ asked' = [e \in Estimator |-> Unasked]
  /\ UNCHANGED <<now, offer, file, fetched>>

Init ==
  /\ now = 0 /\ offer = 1 /\ file = Nothing /\ snap = Nothing /\ lock = "free"
  /\ call = [c \in Caller |-> Idle] /\ asked = [e \in Estimator |-> Unasked]
  /\ fetched = <<>> /\ failures = 0

Next ==
  \/ \E c \in Caller : \/ \E force \in BOOLEAN : Refresh(c, force)
                       \/ Lock(c) \/ Fetch(c) \/ Fails(c) \/ Write(c) \/ Store(c)
  \/ \E e \in Estimator : TakeSnapshot(e) \/ \E known \in BOOLEAN : Price(e, known)
  \/ Tick \/ Publish \/ Restart

Spec == Init /\ [][Next]_vars

-----------------------------------------------------------------------------
(* Versions are those that were offered, and who works has the mutex          *)
(* (service.go: Refresh).                                                     *)
TypeOK ==
  /\ snap.version \in 0..offer /\ file.version \in 0..offer
  /\ lock \in Caller \cup {"free"} /\ \A c \in Caller : call[c].stage \notin {"idle", "waiting"} => lock = c

(* Calls that were not forced bring one snapshot per TTL, however many come   *)
(* at once, over failures and restarts (service.go: Refresh).                 *)
OncePerTtl ==
  \A i, j \in DOMAIN fetched : i < j => fetched[j] - fetched[i] >= Ttl

(* What is in memory is in the file, or a newer fetch is (writeSnapshot first).*)
MemoryIsKept == snap.version <= file.version /\ snap.at <= now

(* The version that is told with a price is that of the rates it was computed *)
(* with, whatever is refreshed meanwhile, and never of another table (Estimate).*)
PriceIsOfVersion == \A e \in Estimator : asked[e].stage = "told" => asked[e].version = asked[e].priced

PricesSafe == TypeOK /\ OncePerTtl /\ MemoryIsKept /\ PriceIsOfVersion
=============================================================================
