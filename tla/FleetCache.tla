----------------------------- MODULE FleetCache -----------------------------
(***************************************************************************)
(* GET /fleet-status of app/dashboard.py: request threads that share one   *)
(* cached fleet status under fleet_lock, and of which at most one at a     *)
(* time, the holder of fleet_refresh_lock, asks the peers.                 *)
(*                                                                         *)
(* A fleet is a value of Keys: the (name, ip, port) tuples of the list as  *)
(* the request read it.  A result is the fleet that was asked and the      *)
(* moment it was asked at.  A section under fleet_lock does no I/O and is  *)
(* one step; everything between two sections is a step's worth of delay.   *)
(*                                                                         *)
(* Time is time.monotonic().  Two assumptions about it are in Tick: asking *)
(* a fleet takes at most FetchMax (each peer has an absolute two-second    *)
(* deadline, and at most MAX_PIS peers share eight workers), and a thread  *)
(* that is in a request and not waiting for peers runs at least every      *)
(* Pause.                                                                  *)
(***************************************************************************)
EXTENDS Integers

CONSTANTS
    Readers,    \* request threads
    Nobody,     \* no thread
    Keys,       \* fleets
    NoKey,      \* None: nothing was cached yet
    Ttl,        \* 5 seconds
    FetchMax, Pause,
    MaxNow      \* bound: the last moment looked at

ASSUME ReadersAssumption == Nobody \notin Readers
ASSUME KeysAssumption == NoKey \notin Keys
ASSUME TimesAssumption ==
    Ttl \in Nat \ {0} /\ FetchMax \in Nat /\ Pause \in Nat /\ MaxNow \in Nat

VARIABLES
    now,        \* the clock
    list,       \* the fleet in pi_list.json
    cache,      \* fleet_cache
    refresh,    \* fleet_refresh_lock: its holder, or Nobody
    pc,         \* per thread: position
    key,        \* per thread: key
    asked,      \* per thread: now, as captured before the cache is looked at, until it is
    since,      \* per thread in a request: when it came to where it is
    results,    \* per thread: results, until they are stored
    ans         \* per thread: the answer

vars == <<now, list, cache, refresh, pc, key, asked, since, results, ans>>

NoResult == [key |-> NoKey, at |-> 0]
NoCache  == [key |-> NoKey, updated |-> 0, results |-> NoResult]
NoAnswer == [via |-> "none", results |-> NoResult, at |-> 0]

Init ==
    /\ now = 0 /\ list \in Keys
    /\ cache = NoCache /\ refresh = Nobody
    /\ pc = [c \in Readers |-> "idle"] /\ key = [c \in Readers |-> NoKey]
    /\ asked = [c \in Readers |-> 0] /\ since = [c \in Readers |-> 0]
    /\ results = [c \in Readers |-> NoResult]
    /\ ans = [c \in Readers |-> NoAnswer]

-----------------------------------------------------------------------------
Goto(c, where) ==
    /\ pc' = [pc EXCEPT ![c] = where]
    /\ since' = [since EXCEPT ![c] = now]

Answer(c, via, r) ==
    /\ Goto(c, "reply")
    /\ ans' = [ans EXCEPT ![c] = [via |-> via, results |-> r, at |-> now]]

(* 500 or 503                                                              *)
NoStatus(c) == Answer(c, "failure", NoResult)

(* The list is read under data_lock; one that cannot be read is a 500.     *)
Request(c) ==
    /\ pc[c] = "idle"
    /\ \/ /\ key' = [key EXCEPT ![c] = list]
          /\ asked' = [asked EXCEPT ![c] = now]
          /\ Goto(c, "check")
          /\ UNCHANGED ans
       \/ NoStatus(c) /\ UNCHANGED <<key, asked>>
    /\ UNCHANGED <<now, list, cache, refresh, results>>

(* Slip: any fleet will do.                                                *)
FreshAny(c) == asked[c] - cache.updated < Ttl

Fresh(c) == cache.key = key[c] /\ asked[c] - cache.updated < Ttl

(* Slip: a hit renews the cache.                                           *)
CheckRenews(c) ==
    /\ pc[c] = "check"
    /\ \/ /\ Fresh(c) /\ Answer(c, "fresh", cache.results)
          /\ cache' = [cache EXCEPT !.updated = now]
       \/ ~Fresh(c) /\ Goto(c, "acquire") /\ UNCHANGED <<ans, cache>>
    /\ asked' = [asked EXCEPT ![c] = 0]
    /\ UNCHANGED <<now, list, refresh, key, results>>

Check(c) ==
    /\ pc[c] = "check"
    /\ \/ Fresh(c) /\ Answer(c, "fresh", cache.results)
       \/ ~Fresh(c) /\ Goto(c, "acquire") /\ UNCHANGED ans
    /\ asked' = [asked EXCEPT ![c] = 0]                  \* not used again
    /\ UNCHANGED <<now, list, cache, refresh, key, results>>

(* Slip: the request waits for the lock.                                   *)
AcquireBlocking(c) ==
    /\ pc[c] = "acquire"
    /\ refresh = Nobody /\ refresh' = c /\ Goto(c, "fetch")
    /\ UNCHANGED <<now, list, cache, key, asked, results, ans>>

Acquire(c) ==
    /\ pc[c] = "acquire"
    /\ \/ refresh = Nobody /\ refresh' = c /\ Goto(c, "fetch")
       \/ refresh # Nobody /\ Goto(c, "busy") /\ UNCHANGED refresh
    /\ UNCHANGED <<now, list, cache, key, asked, results, ans>>

(* Someone else is asking the peers: the cached status will do, whatever   *)
(* its age, if it is of this fleet.                                        *)
Busy(c) ==
    /\ pc[c] = "busy"
    /\ \/ cache.key = key[c] /\ Answer(c, "busy", cache.results)
       \/ cache.key # key[c] /\ NoStatus(c)
    /\ UNCHANGED <<now, list, cache, refresh, key, asked, results>>

(* The peers have answered, or a worker has raised; finally releases.      *)
Fetched(c) ==
    /\ pc[c] = "fetch"
    /\ refresh' = Nobody
    /\ \/ /\ results' = [results EXCEPT ![c] = [key |-> key[c], at |-> since[c]]]
          /\ Goto(c, "store")
          /\ UNCHANGED ans
       \/ NoStatus(c) /\ UNCHANGED results
    /\ UNCHANGED <<now, list, cache, key, asked>>

(* Slip: the time is that of the fetch, less the lifetime.                 *)
StoreExpired(c) ==
    /\ pc[c] = "store"
    /\ cache' = [key |-> key[c], updated |-> since[c] - Ttl, results |-> results[c]]
    /\ Answer(c, "own", results[c])
    /\ UNCHANGED <<now, list, refresh, key, asked, results>>

Store(c) ==
    /\ pc[c] = "store"
    /\ cache' = [key |-> key[c], updated |-> now, results |-> results[c]]
    /\ Answer(c, "own", results[c])
    /\ UNCHANGED <<now, list, refresh, key, asked, results>>

Reply(c) ==
    /\ pc[c] = "reply"
    /\ pc' = [pc EXCEPT ![c] = "idle"] /\ since' = [since EXCEPT ![c] = 0]
    /\ key' = [key EXCEPT ![c] = NoKey]
    /\ results' = [results EXCEPT ![c] = NoResult]
    /\ ans' = [ans EXCEPT ![c] = NoAnswer]
    /\ UNCHANGED <<now, list, cache, refresh, asked>>

-----------------------------------------------------------------------------
(* The list is edited, here or through another dashboard's installer.      *)
Edit ==
    /\ \E l \in Keys : l # list /\ list' = l
    /\ UNCHANGED <<now, cache, refresh, pc, key, asked, since, results, ans>>

(* The service is restarted: requests, cache and locks are gone.           *)
Restart ==
    /\ cache' = NoCache /\ refresh' = Nobody
    /\ pc' = [c \in Readers |-> "idle"] /\ key' = [c \in Readers |-> NoKey]
    /\ asked' = [c \in Readers |-> 0] /\ since' = [c \in Readers |-> 0]
    /\ results' = [c \in Readers |-> NoResult]
    /\ ans' = [c \in Readers |-> NoAnswer]
    /\ UNCHANGED <<now, list>>

Limit(c) == IF pc[c] = "fetch" THEN FetchMax ELSE Pause

Tick ==
    /\ now < MaxNow
    /\ \A c \in Readers : pc[c] # "idle" => now - since[c] < Limit(c)
    /\ now' = now + 1
    /\ UNCHANGED <<list, cache, refresh, pc, key, asked, since, results, ans>>

Step(c) == Check(c) \/ Acquire(c) \/ Busy(c) \/ Fetched(c) \/ Store(c) \/ Reply(c)
Next    == (\E c \in Readers : Request(c) \/ Step(c)) \/ Edit \/ Restart \/ Tick

Spec == Init /\ [][Next]_vars

(* A thread in a request goes on; the workers always come back.            *)
FairSpec == Spec /\ \A c \in Readers : WF_vars(Step(c))

-----------------------------------------------------------------------------
(* Properties.                                                             *)

Results == [key : Keys \cup {NoKey}, at : Nat]

(* The types of all variables of the fleet status.                         *)
TypeOK ==
    /\ now \in Nat /\ list \in Keys
    /\ cache \in [key : Keys \cup {NoKey}, updated : Nat, results : Results]
    /\ refresh \in Readers \cup {Nobody}
    /\ pc \in [Readers -> {"idle", "check", "acquire", "busy", "fetch", "store", "reply"}]
    /\ key \in [Readers -> Keys \cup {NoKey}]
    /\ asked \in [Readers -> Nat] /\ since \in [Readers -> Nat]
    /\ results \in [Readers -> Results]
    /\ ans \in [Readers -> [via : {"none", "fresh", "busy", "own", "failure"},
                            results : Results, at : Nat]]

Served(c) == ans[c].via \in {"fresh", "busy", "own"}

(* A status that is served is of the fleet this very request read, however *)
(* the list was edited and the cache replaced in the meantime.             *)
OwnFleet == \A c \in Readers : Served(c) => ans[c].results.key = key[c]

(* Only the holder of fleet_refresh_lock waits for peers: the eight        *)
(* workers serve one refresh at a time, and no error keeps the lock.       *)
OneRefresh == \A c \in Readers : pc[c] = "fetch" <=> refresh = c

(* What a request serves as fresh, or fetched itself, was asked of the     *)
(* peers no longer ago than the cache's time, one refresh and two pauses - *)
(* even when a slow thread stores older results over newer ones.           *)
FreshIsRecent ==
    \A c \in Readers : ans[c].via \in {"fresh", "own"} =>
        ans[c].at - ans[c].results.at < Ttl + FetchMax + 2 * Pause

(* The cached status is of the cached fleet, and was asked for no longer   *)
(* before it was stored than a refresh and a pause.                        *)
CacheSound ==
    /\ cache.results.key = cache.key
    /\ cache.results.at <= cache.updated /\ cache.updated <= now
    /\ cache.updated - cache.results.at <= FetchMax + Pause

(* Where a thread is bounds how long ago it did what.                      *)
InTime(c) ==
    /\ pc[c] # "idle" => since[c] <= now /\ now - since[c] <= Limit(c)
    /\ pc[c] = "check" => asked[c] = since[c]
    /\ pc[c] = "store" => /\ results[c].key = key[c] /\ results[c].at <= since[c]
                         /\ since[c] - results[c].at <= FetchMax
    /\ ans[c].via # "none" => pc[c] = "reply"

IInv == TypeOK /\ OwnFleet /\ OneRefresh /\ FreshIsRecent /\ CacheSound
        /\ \A c \in Readers : InTime(c)

(* No request waits for another one's refresh, and none is left behind.    *)
AllAnswered == \A c \in Readers : pc[c] # "idle" ~> pc[c] = "idle"
=============================================================================
