------------------------------ MODULE Sessions ------------------------------
(***************************************************************************)
(* Login sessions: SessionStore of app/auth.py as the request threads of   *)
(* app/dashboard.py use it, against `auth.py reset' run by an              *)
(* administrator while they do.                                            *)
(*                                                                         *)
(* A record of the auth file is its version, which stands for st_mtime_ns  *)
(* (two records never share one) and for its password.  Each locked        *)
(* section is one step; what a thread read before it took the lock - the   *)
(* version and the clock - is kept in the thread's locals until then.      *)
(***************************************************************************)
EXTENDS Integers, FiniteSets

CONSTANTS
    Threads,        \* request threads
    Tokens,         \* session tokens, each issued at most once
    NoToken,        \* a thread without a request
    MaxSessions,    \* MAX_SESSIONS
    Ttl,            \* ttl, in ticks of the monotonic clock
    MaxVersion,     \* bound: records ever written
    MaxClock        \* bound: ticks

ASSUME CapacityAssumption == MaxSessions \in Nat \ {0}
ASSUME TtlAssumption == Ttl \in Nat \ {0}
ASSUME BoundAssumption == MaxVersion \in Nat \ {0} /\ MaxClock \in Nat
ASSUME TokensAssumption == IsFiniteSet(Tokens) /\ NoToken \notin Tokens

VARIABLES
    version,    \* the record in auth.json
    group,      \* its group: "auth" lets the dashboard read it, "root" does not
    reset,      \* a running reset: "none", or the group it will restore
    clock,      \* time.monotonic()
    stored,     \* keys of _sessions
    expiry,     \* values of _sessions
    authMtime,  \* _auth_mtime, 0 for None
    pc, kind, token, mtime, now,    \* per thread: position and locals
    \* history
    begun,      \* per thread: the record in place when its request came in
    issued,     \* per token: the record its login was checked against, or 0
    known,      \* tokens handed to a client
    loggedOut   \* tokens whose logout request was answered

file    == <<version, group, reset>>
store   == <<stored, expiry, authMtime>>
locals  == <<pc, kind, token, mtime, now, begun>>
history == <<issued, known, loggedOut>>
vars    == <<file, clock, store, locals, history>>

Init ==
    /\ version = 1 /\ group = "auth" /\ reset = "none"
    /\ clock = 0
    /\ stored = {} /\ expiry = [k \in Tokens |-> 0] /\ authMtime = 0
    /\ pc = [t \in Threads |-> "idle"] /\ kind = [t \in Threads |-> "call"]
    /\ token = [t \in Threads |-> NoToken]
    /\ mtime = [t \in Threads |-> 0] /\ now = [t \in Threads |-> 0]
    /\ begun = [t \in Threads |-> 0]
    /\ issued = [k \in Tokens |-> 0] /\ known = {} /\ loggedOut = {}

Goto(t, l) == pc' = [pc EXCEPT ![t] = l]

(* The requests of the threads in ts are answered: their locals are gone.  *)
Forget(ts) ==
    /\ pc' = [t \in Threads |-> IF t \in ts THEN "idle" ELSE pc[t]]
    /\ kind' = [t \in Threads |-> IF t \in ts THEN "call" ELSE kind[t]]
    /\ token' = [t \in Threads |-> IF t \in ts THEN NoToken ELSE token[t]]
    /\ mtime' = [t \in Threads |-> IF t \in ts THEN 0 ELSE mtime[t]]
    /\ now' = [t \in Threads |-> IF t \in ts THEN 0 ELSE now[t]]
    /\ begun' = [t \in Threads |-> IF t \in ts THEN 0 ELSE begun[t]]

(* _purge(now)                                                             *)
Unexpired(keys, at) == {k \in keys : expiry[k] > at}

-----------------------------------------------------------------------------
(* SessionStore.login                                                      *)

(* load_password_record: the record and its mtime, from one descriptor.    *)
LoginLoad(t) ==
    /\ pc[t] = "idle" /\ group = "auth"
    /\ mtime' = [mtime EXCEPT ![t] = version]
    /\ Goto(t, "verify")
    /\ UNCHANGED <<file, clock, store, kind, token, now, begun, history>>

(* The slow key derivation; then the clock, still outside the lock.        *)
LoginVerify(t) ==
    /\ pc[t] = "verify"
    /\ \/ /\ now' = [now EXCEPT ![t] = clock]
          /\ Goto(t, "insert")
          /\ UNCHANGED <<kind, token, mtime, begun>>
       \/ Forget({t})                                      \* wrong password
    /\ UNCHANGED <<file, clock, store, history>>

(* Slip: min over the tokens themselves, not over when they expire.        *)
OldestByToken(keys) == keys

(* One of the sessions that expire first; which of several equals depends  *)
(* on the order of insertion and is left open.                             *)
Oldest(keys) == {k \in keys : \A other \in keys : expiry[k] <= expiry[other]}

(* secrets.token_urlsafe: a token nobody had before.                       *)
Fresh == {k \in Tokens : issued[k] = 0}

(* A session of a new token, beside those kept; one is evicted if they are *)
(* as many as the store may hold.                                          *)
Insert(t, kept, capacity, lifetime) ==
    /\ pc[t] = "insert"
    /\ LET alive == Unexpired(kept, now[t])
       IN  \E k \in Fresh,
              evicted \in IF Cardinality(alive) >= capacity
                          THEN {{o} : o \in Oldest(alive)} ELSE {{}} :
              /\ stored' = (alive \ evicted) \cup {k}
              /\ expiry' = [expiry EXCEPT ![k] = now[t] + lifetime]
              /\ issued' = [issued EXCEPT ![k] = mtime[t]]
              /\ known' = known \cup {k}
    /\ authMtime' = mtime[t]
    /\ Forget({t})
    /\ UNCHANGED <<file, clock, loggedOut>>

Kept(t) == IF authMtime = mtime[t] THEN stored ELSE {}

(* Slip: the lifetime is added twice.                                      *)
LoginInsertLong(t) == Insert(t, Kept(t), MaxSessions, 2 * Ttl)

(* Slip: the store is full only when it holds one too many.                *)
LoginInsertLate(t) == Insert(t, Kept(t), MaxSessions + 1, Ttl)

(* login, from the lock on.                                                *)
LoginInsert(t) == Insert(t, Kept(t), MaxSessions, Ttl)

-----------------------------------------------------------------------------
(* SessionStore.valid under require_session, and the logout endpoint       *)

(* A request with a token arrives: an ordinary one, or POST /auth/logout.  *)
Arrive(t) ==
    /\ pc[t] = "idle"
    /\ \E k \in known, what \in {"call", "logout"} :
          /\ token' = [token EXCEPT ![t] = k]
          /\ kind' = [kind EXCEPT ![t] = what]
    /\ begun' = [begun EXCEPT ![t] = version]
    /\ Goto(t, "stat")
    /\ UNCHANGED <<file, clock, store, mtime, now, history>>

(* Slip: the cached record is taken for the one on disk.                   *)
ValidStatCached(t) ==
    /\ pc[t] = "stat"
    /\ mtime' = [mtime EXCEPT ![t] = IF authMtime = 0 THEN version ELSE authMtime]
    /\ Goto(t, "clock")
    /\ UNCHANGED <<file, clock, store, kind, token, now, begun, history>>

ValidStat(t) ==
    /\ pc[t] = "stat"
    /\ mtime' = [mtime EXCEPT ![t] = version]
    /\ Goto(t, "clock")
    /\ UNCHANGED <<file, clock, store, kind, token, now, begun, history>>

ValidClock(t) ==
    /\ pc[t] = "clock"
    /\ now' = [now EXCEPT ![t] = clock]
    /\ Goto(t, "check")
    /\ UNCHANGED <<file, clock, store, kind, token, mtime, begun, history>>

ValidCheck(t) ==
    /\ pc[t] = "check"
    /\ IF authMtime \notin {0, mtime[t]}
       THEN /\ stored' = {} /\ authMtime' = mtime[t]
            /\ Forget({t})
       ELSE /\ stored' = Unexpired(stored, now[t])
            /\ UNCHANGED authMtime
            /\ IF token[t] \in stored'
               THEN Goto(t, "served") /\ UNCHANGED <<kind, token, mtime, now, begun>>
               ELSE Forget({t})
    /\ UNCHANGED <<file, clock, expiry, history>>

(* The endpoint behind require_session; only logout touches the store.     *)
Serve(t) ==
    /\ pc[t] = "served"
    /\ IF kind[t] = "logout"
       THEN /\ stored' = stored \ {token[t]}
            /\ loggedOut' = loggedOut \cup {token[t]}
       ELSE UNCHANGED <<stored, loggedOut>>
    /\ Forget({t})
    /\ UNCHANGED <<file, clock, expiry, authMtime, issued, known>>

-----------------------------------------------------------------------------
(* create_auth_file(force=True)                                            *)

(* os.replace puts the new record in place, in root's group.               *)
ResetReplace ==
    /\ reset = "none" /\ version < MaxVersion
    /\ version' = version + 1 /\ group' = "root" /\ reset' = group
    /\ UNCHANGED <<clock, store, locals, history>>

(* os.chown gives it the group the old file had - or fails, or the process *)
(* is killed before it.                                                    *)
ResetChown ==
    /\ reset # "none"
    /\ group' \in {reset, "root"} /\ reset' = "none"
    /\ UNCHANGED <<version, clock, store, locals, history>>

Tick ==
    /\ clock < MaxClock /\ clock' = clock + 1
    /\ UNCHANGED <<file, store, locals, history>>

(* The web service is restarted: sessions live in its memory only.         *)
Restart ==
    /\ stored' = {} /\ authMtime' = 0
    /\ Forget(Threads)
    /\ UNCHANGED <<file, clock, expiry, history>>

Next ==
    \/ \E t \in Threads :
          \/ LoginLoad(t) \/ LoginVerify(t) \/ LoginInsert(t)
          \/ Arrive(t) \/ ValidStat(t) \/ ValidClock(t) \/ ValidCheck(t) \/ Serve(t)
    \/ ResetReplace \/ ResetChown \/ Tick \/ Restart

Spec == Init /\ [][Next]_vars

-----------------------------------------------------------------------------
(* Properties.                                                             *)

(* The types of all variables of the session store and its threads.        *)
TypeOK ==
    /\ version \in 1 .. MaxVersion /\ group \in {"auth", "root"}
    /\ reset \in {"none", "auth", "root"} /\ clock \in 0 .. MaxClock
    /\ stored \in SUBSET Tokens /\ authMtime \in 0 .. version
    /\ expiry \in [Tokens -> 0 .. (MaxClock + Ttl)]
    /\ pc \in [Threads -> {"idle", "verify", "insert", "stat", "clock", "check", "served"}]
    /\ kind \in [Threads -> {"call", "logout"}] /\ token \in [Threads -> Tokens \cup {NoToken}]
    /\ mtime \in [Threads -> 0 .. version] /\ now \in [Threads -> 0 .. clock]
    /\ begun \in [Threads -> 0 .. version]
    /\ issued \in [Tokens -> 0 .. version]
    /\ known \in SUBSET Tokens /\ loggedOut \in SUBSET known

(* Every session in the store was opened with the password of the one      *)
(* record _auth_mtime names, whichever threads raced to fill and clear it. *)
OneRecord ==
    \A k \in stored : issued[k] = authMtime /\ k \in known

(* README.md:72, "invalidates existing sessions": a request that comes in  *)
(* after a reset is never served on a session older than it, nor on one    *)
(* past its expiry - although version and clock were read before the lock. *)
AcceptedIsCurrent ==
    \A t \in Threads : pc[t] = "served" =>
        /\ issued[token[t]] >= begun[t]
        /\ expiry[token[t]] > now[t]

(* A record seen by a thread on its way to the lock is at least as new as  *)
(* the request: the part that makes AcceptedIsCurrent inductive.           *)
SeenInOrder ==
    \A t \in Threads :
        /\ pc[t] \in {"verify", "insert"} => mtime[t] > 0
        /\ pc[t] \in {"stat", "clock", "check", "served"} => token[t] \in known
        /\ pc[t] \in {"clock", "check", "served"} => mtime[t] >= begun[t] /\ mtime[t] > 0
        /\ pc[t] = "served" => issued[token[t]] = mtime[t] /\ expiry[token[t]] > now[t]

IssuedIsKnown == \A k \in Tokens : k \in known <=> issued[k] > 0

IInv == TypeOK /\ OneRecord /\ SeenInOrder /\ IssuedIsKnown

(* The store never outgrows MAX_SESSIONS, however many threads log in at   *)
(* once and whatever record and clock each of them saw before the lock.    *)
Bounded == Cardinality(stored) <= MaxSessions

(* Logout is final: after its answer no request with the token is served,  *)
(* whatever was in flight - except those checked before it.                *)
LogoutIsFinal == loggedOut \cap stored = {}

(* A login of thread t evicts session k: the store is full of sessions     *)
(* that are good by the record and the clock t saw, and none that it keeps *)
(* would expire before k.                                                  *)
Evicts(t, k) ==
    /\ pc[t] = "insert" /\ pc'[t] = "idle" /\ known' # known
    /\ Cardinality(Unexpired(stored, now[t])) >= MaxSessions
    /\ \A other \in stored \cap stored' : expiry[k] <= expiry[other]

(* A session ends only for a reason: its expiry as some thread saw the     *)
(* clock, its own logout, eviction as the first to expire of a store still *)
(* full after the purge, a thread that read another record, or a restart   *)
(* of the service.                                                         *)
EndsForAReason ==
    [][\A k \in stored \ stored' :
          \/ \E t \in Threads : pc[t] \in {"insert", "check"} /\ expiry[k] <= now[t]
          \/ k \in loggedOut'
          \/ \E t \in Threads : Evicts(t, k)
          \/ \E t \in Threads : pc[t] \in {"insert", "check"} /\ mtime[t] # authMtime
          \/ Restart]_vars
=============================================================================
