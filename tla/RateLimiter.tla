---------------------------- MODULE RateLimiter ----------------------------
(***************************************************************************)
(* RateLimiter of app/dashboard.py, which every request passes: a deque of *)
(* time stamps per key (an address and a kind of endpoint), each kind with *)
(* its limit and window, shared by all threads under one lock.             *)
(*                                                                         *)
(* A thread reads the clock before it takes the lock, so stamps can be     *)
(* appended out of order; and when there are many keys, a caller drops the *)
(* deques of others by the window of its own.  The one assumption about    *)
(* time is in Tick: a thread that has read the clock is through with its   *)
(* call within Pause.  An entry of requests that holds no stamp is as good *)
(* as none, and none is left behind (Limit is positive).                   *)
(***************************************************************************)
EXTENDS Integers, Sequences, FiniteSets

CONSTANTS
    Threads,
    Keys, NoKey,
    Limit, Window,  \* of each key: the arguments rate_limit_request gives
    MaxKeys,        \* 1024
    Pause,
    MaxNow          \* bound: the last moment looked at

ASSUME KeysAssumption == NoKey \notin Keys /\ IsFiniteSet(Keys)
ASSUME LimitsAssumption ==
    Limit \in [Keys -> Nat \ {0}] /\ Window \in [Keys -> Nat \ {0}]
ASSUME NumbersAssumption == MaxKeys \in Nat /\ Pause \in Nat /\ MaxNow \in Nat

Times == 0 .. MaxNow

VARIABLES
    now,        \* the clock
    calls,      \* per thread: the call it is in, with its now
    requests,   \* per key: its deque
    passed,     \* per key: the stamps of all requests let through, as appended
    purges      \* windows of the calls that dropped other keys

vars == <<now, calls, requests, passed, purges>>

Idle == [key |-> NoKey, now |-> 0]

Init ==
    /\ now = 0
    /\ calls = [t \in Threads |-> Idle]
    /\ requests = [k \in Keys |-> <<>>]
    /\ passed = [k \in Keys |-> <<>>]
    /\ purges = {}

Last(events) == events[Len(events)]

-----------------------------------------------------------------------------

(* The head of the deque is dropped while it is older than the cutoff.     *)
Popped(events, cutoff) ==
    LET live == {i \in DOMAIN events : events[i] >= cutoff}
    IN  IF live = {} THEN <<>>
        ELSE SubSeq(events, CHOOSE i \in live : \A j \in live : i <= j, Len(events))

(* Slip: one stamp too many.                                               *)
FullLate(k, events) == Len(events) > Limit[k]

Full(k, events) == Len(events) >= Limit[k]

(* Slip: a deque goes when its oldest stamp is old.                        *)
ExpiredByFirst(events, cutoff) == events # <<>> /\ events[1] < cutoff

Expired(events, cutoff) == events # <<>> /\ Last(events) < cutoff

Known(deques) == {k \in Keys : deques[k] # <<>>}

(* Purge of the keys whose last stamp is old - by the window of the caller.*)
Purged(deques, cutoff) ==
    IF Cardinality(Known(deques)) > MaxKeys
    THEN [k \in Keys |-> IF Expired(deques[k], cutoff) THEN <<>> ELSE deques[k]]
    ELSE deques

(* rate_limit_request, and allow up to its lock.                           *)
Arrive(t) ==
    /\ calls[t] = Idle
    /\ \E k \in Keys : calls' = [calls EXCEPT ![t] = [key |-> k, now |-> now]]
    /\ UNCHANGED <<now, requests, passed, purges>>

Cutoff(t) == calls[t].now - Window[calls[t].key]

Events(t) == Popped(requests[calls[t].key], Cutoff(t))

(* Slip: what is refused counts, too.                                      *)
RefuseCounts(t) ==
    /\ calls[t] # Idle /\ Full(calls[t].key, Events(t))
    /\ requests' = [requests EXCEPT ![calls[t].key] = Append(Tail(Events(t)), calls[t].now)]
    /\ calls' = [calls EXCEPT ![t] = Idle]
    /\ UNCHANGED <<now, passed, purges>>

(* allow under the lock, when it returns False: 429.                       *)
Refuse(t) ==
    /\ calls[t] # Idle /\ Full(calls[t].key, Events(t))
    /\ requests' = [requests EXCEPT ![calls[t].key] = Events(t)]
    /\ calls' = [calls EXCEPT ![t] = Idle]
    /\ UNCHANGED <<now, passed, purges>>

(* allow under the lock, when it returns True.                             *)
Allow(t) ==
    LET k        == calls[t].key
        appended == [requests EXCEPT ![k] = Append(Events(t), calls[t].now)]
    IN  /\ calls[t] # Idle /\ ~Full(k, Events(t))
        /\ requests' = Purged(appended, Cutoff(t))
        /\ purges' = IF Cardinality(Known(appended)) > MaxKeys THEN purges \cup {Window[k]} ELSE purges
        /\ passed' = [passed EXCEPT ![k] = Append(@, calls[t].now)]
        /\ calls' = [calls EXCEPT ![t] = Idle]
        /\ UNCHANGED now

Tick ==
    /\ now < MaxNow
    /\ \A t \in Threads : calls[t] # Idle => now - calls[t].now < Pause
    /\ now' = now + 1
    /\ UNCHANGED <<calls, requests, passed, purges>>

Next == Tick \/ \E t \in Threads : Arrive(t) \/ Allow(t) \/ Refuse(t)

Spec == Init /\ [][Next]_vars

-----------------------------------------------------------------------------
(* Properties.                                                             *)

(* The types of the limiter and its threads; no deque outgrows its limit.  *)
TypeOK ==
    /\ now \in Times
    /\ calls \in [Threads -> [key : Keys \cup {NoKey}, now : Times]]
    /\ requests \in [Keys -> Seq(Times)]
    /\ passed \in [Keys -> Seq(Times)]
    /\ purges \subseteq {Window[k] : k \in Keys}
    /\ \A k \in Keys : Len(requests[k]) <= Limit[k]

(* Stamps of k up to this age are still in its deque when a thread looks:  *)
(* its window says so, and that of each caller that dropped other deques;  *)
(* those go by their last stamp, which need not be the latest.             *)
Remembers(k, age) ==
    /\ age + Pause <= Window[k]
    /\ \A w \in purges : age + 2 * Pause <= w

(* The requests of k let through no more than age before its last.         *)
Counted(k, age) == {i \in DOMAIN passed[k] : passed[k][i] >= Last(passed[k]) - age}

(* However threads overtake one another between the clock and the lock, no *)
(* window lets more than the limit through, up to the pause of a thread;   *)
(* a purge may cut the window of k down to that of the caller, no further. *)
WindowKept ==
    \A k \in Keys : passed[k] # <<>> =>
        \A age \in Times :
            Remembers(k, age) => Cardinality(Counted(k, age)) <= Limit[k]

(* A request is refused only when the limit was used up by requests that   *)
(* were let through in the window before it (a pause more or less); those  *)
(* that were refused do not count.                                         *)
RefusedForAReason ==
    [][\A t \in Threads :
          Refuse(t) => LET k == calls[t].key
                       IN  Cardinality({i \in DOMAIN passed[k] :
                               passed[k][i] >= Cutoff(t) - Pause}) >= Limit[k]]_vars

-----------------------------------------------------------------------------
(* The inductive invariant.                                                *)

(* A thread in its call read the clock within Pause.                       *)
InTime ==
    \A t \in Threads : calls[t] # Idle =>
        /\ calls[t].key \in Keys
        /\ calls[t].now <= now /\ now <= calls[t].now + Pause

(* d is the end of p.                                                      *)
EndOf(d, p) ==
    /\ Len(d) <= Len(p)
    /\ \A i \in 1 .. Len(d) : d[i] = p[Len(p) - Len(d) + i]

(* What p has before d went for its age, or in a purge; n is now.          *)
Gone(k, d, p, n, windows) ==
    \A i \in 1 .. (Len(p) - Len(d)) :
        \/ p[i] + Window[k] < n
        \/ \E w \in windows : p[i] + w < n + Pause

(* Stamps are of the past, and out of order by no more than Pause.         *)
InOrder(p, n) ==
    \A i, j \in 1 .. Len(p) :
        /\ p[i] <= n
        /\ i < j => p[i] <= p[j] + Pause

DequesKept ==
    \A k \in Keys :
        /\ EndOf(requests[k], passed[k])
        /\ Gone(k, requests[k], passed[k], now, purges)
        /\ InOrder(passed[k], now)

IInv == TypeOK /\ InTime /\ DequesKept /\ WindowKept
=============================================================================
