-------------------------- MODULE FleetCacheProofs --------------------------
(***************************************************************************)
(* Theorems about FleetCache, for every number of request threads, every   *)
(* set of fleets and every choice of the times.                            *)
(***************************************************************************)
EXTENDS FleetCache, TLAPS

(* What the inductive invariant says of one thread.                        *)
Mine(c) ==
    /\ Served(c) => ans[c].results.key = key[c]
    /\ pc[c] = "fetch" <=> refresh = c
    /\ ans[c].via \in {"fresh", "own"} =>
          ans[c].at - ans[c].results.at < Ttl + FetchMax + 2 * Pause
    /\ InTime(c)

LEMMA Split == IInv <=> TypeOK /\ CacheSound /\ \A c \in Readers : Mine(c)
    BY DEF IInv, Mine, OwnFleet, OneRefresh, FreshIsRecent

LEMMA InitIInv == Init => IInv
<1> SUFFICES ASSUME Init PROVE IInv
    OBVIOUS
<1>1. NoResult \in Results /\ NoAnswer.results = NoResult
    BY DEF NoResult, Results, NoAnswer
<1>2. TypeOK
    BY <1>1 DEF Init, TypeOK, NoCache, NoAnswer
<1>3. CacheSound
    BY TimesAssumption DEF Init, CacheSound, NoCache, NoResult
<1>4. \A c \in Readers : Mine(c)
    BY ReadersAssumption DEF Init, Mine, Served, InTime, NoAnswer
<1> QED
    BY <1>2, <1>3, <1>4, Split

-----------------------------------------------------------------------------
(* Types.                                                                  *)

LEMMA GotoType ==
    ASSUME TypeOK, NEW c \in Readers,
           NEW where \in {"idle", "check", "acquire", "busy", "fetch", "store", "reply"},
           Goto(c, where)
    PROVE  /\ pc' \in [Readers -> {"idle", "check", "acquire", "busy", "fetch", "store", "reply"}]
           /\ since' \in [Readers -> Nat]
    BY DEF TypeOK, Goto

LEMMA AnswerType ==
    ASSUME TypeOK, NEW c \in Readers, NEW via \in {"fresh", "busy", "own", "failure"},
           NEW r \in Results, Answer(c, via, r)
    PROVE  /\ pc' \in [Readers -> {"idle", "check", "acquire", "busy", "fetch", "store", "reply"}]
           /\ since' \in [Readers -> Nat]
           /\ ans' \in [Readers -> [via : {"none", "fresh", "busy", "own", "failure"},
                                    results : Results, at : Nat]]
<1>1. [via |-> via, results |-> r, at |-> now] \in
        [via : {"none", "fresh", "busy", "own", "failure"}, results : Results, at : Nat]
    BY DEF TypeOK
<1> QED
    BY <1>1, GotoType DEF Answer, TypeOK

LEMMA NoStatusType ==
    ASSUME TypeOK, NEW c \in Readers, NoStatus(c)
    PROVE  /\ pc' \in [Readers -> {"idle", "check", "acquire", "busy", "fetch", "store", "reply"}]
           /\ since' \in [Readers -> Nat]
           /\ ans' \in [Readers -> [via : {"none", "fresh", "busy", "own", "failure"},
                                    results : Results, at : Nat]]
<1>1. NoResult \in Results /\ now \in Nat
    BY DEF TypeOK, NoResult, Results
<1> QED
    BY <1>1, AnswerType DEF NoStatus

LEMMA NextType == TypeOK /\ [Next]_vars => TypeOK'
<1> SUFFICES ASSUME TypeOK, [Next]_vars PROVE TypeOK'
    OBVIOUS
<1>1. CASE UNCHANGED vars
    BY <1>1 DEF vars, TypeOK
<1>2. ASSUME NEW c \in Readers, Request(c) PROVE TypeOK'
    <2>1. CASE NoStatus(c) /\ UNCHANGED <<key, asked>>
        BY <1>2, <2>1, NoStatusType DEF Request, TypeOK
    <2>2. CASE /\ key' = [key EXCEPT ![c] = list]
               /\ asked' = [asked EXCEPT ![c] = now]
               /\ Goto(c, "check") /\ UNCHANGED ans
        BY <1>2, <2>2, GotoType DEF Request, TypeOK
    <2> QED
        BY <1>2, <2>1, <2>2 DEF Request
<1>3. ASSUME NEW c \in Readers, Check(c) PROVE TypeOK'
    <2>1. CASE Answer(c, "fresh", cache.results)
        BY <1>3, <2>1, AnswerType DEF Check, TypeOK
    <2>2. CASE Goto(c, "acquire") /\ UNCHANGED ans
        BY <1>3, <2>2, GotoType DEF Check, TypeOK
    <2> QED
        BY <1>3, <2>1, <2>2 DEF Check
<1>4. ASSUME NEW c \in Readers, Acquire(c) PROVE TypeOK'
    BY <1>4, GotoType DEF Acquire, TypeOK
<1>5. ASSUME NEW c \in Readers, Busy(c) PROVE TypeOK'
    <2>1. CASE Answer(c, "busy", cache.results)
        BY <1>5, <2>1, AnswerType DEF Busy, TypeOK
    <2> QED
        BY <1>5, <2>1, NoStatusType DEF Busy, TypeOK
<1>6. ASSUME NEW c \in Readers, Fetched(c) PROVE TypeOK'
    <2>1. CASE NoStatus(c) /\ UNCHANGED results
        BY <1>6, <2>1, NoStatusType DEF Fetched, TypeOK
    <2>2. CASE /\ results' = [results EXCEPT ![c] = [key |-> key[c], at |-> since[c]]]
               /\ Goto(c, "store") /\ UNCHANGED ans
        <3>1. [key |-> key[c], at |-> since[c]] \in Results
            BY DEF TypeOK, Results
        <3> QED
            BY <1>6, <2>2, <3>1, GotoType DEF Fetched, TypeOK
    <2> QED
        BY <1>6, <2>1, <2>2 DEF Fetched
<1>7. ASSUME NEW c \in Readers, Store(c) PROVE TypeOK'
    BY <1>7, AnswerType DEF Store, TypeOK
<1>8. ASSUME NEW c \in Readers, Reply(c) PROVE TypeOK'
    <2>1. NoResult \in Results /\ NoAnswer.results = NoResult
        BY DEF NoResult, Results, NoAnswer
    <2>2. NoAnswer \in [via : {"none", "fresh", "busy", "own", "failure"},
                        results : Results, at : Nat]
        BY <2>1 DEF NoAnswer
    <2> QED
        BY <1>8, <2>1, <2>2, GotoType DEF Reply, TypeOK
<1>9. CASE Edit
    BY <1>9 DEF Edit, TypeOK
<1>10. CASE Restart
    <2>1. NoResult \in Results
        BY DEF NoResult, Results
    <2> QED
        BY <1>10, <2>1 DEF Restart, TypeOK, NoCache, NoAnswer
<1>11. CASE Tick
    BY <1>11 DEF Tick, TypeOK
<1> QED
    BY <1>1, <1>2, <1>3, <1>4, <1>5, <1>6, <1>7, <1>8, <1>9, <1>10, <1>11 DEF Next, Step

-----------------------------------------------------------------------------
(* The cache.                                                              *)

LEMMA CacheKept ==
    ASSUME IInv, [Next]_vars
    PROVE  CacheSound'
<1> USE DEF IInv
<1>1. CASE \E c \in Readers : Store(c)
    <2> PICK c \in Readers : Store(c)
        BY <1>1
    <2>1. /\ results[c].key = key[c] /\ results[c].at <= since[c]
          /\ since[c] - results[c].at <= FetchMax
          /\ since[c] <= now /\ now - since[c] <= Pause
        BY DEF Store, InTime, Limit
    <2>2. results[c].at \in Nat /\ since[c] \in Nat /\ now \in Nat
        BY DEF TypeOK, Results
    <2>3. /\ cache'.key = key[c] /\ cache'.updated = now /\ cache'.results = results[c]
          /\ now' = now
        BY DEF Store
    <2> QED
        BY <2>1, <2>2, <2>3, TimesAssumption DEF CacheSound
<1>2. CASE Restart
    BY <1>2, TimesAssumption DEF Restart, CacheSound, NoCache, NoResult, TypeOK
<1>3. CASE Tick
    BY <1>3 DEF Tick, CacheSound, TypeOK
<1>4. CASE UNCHANGED <<cache, now>>
    BY <1>4 DEF CacheSound
<1>5. ~(\E c \in Readers : Store(c)) /\ ~Restart /\ ~Tick => UNCHANGED <<cache, now>>
    BY DEF Next, Step, Request, Check, Acquire, Busy, Fetched, Reply, Edit, vars
<1> QED
    BY <1>1, <1>2, <1>3, <1>4, <1>5

-----------------------------------------------------------------------------
(* The threads.                                                            *)

(* A step of one thread leaves the others as they are.                     *)
LEMMA OthersKept ==
    ASSUME IInv, NEW c \in Readers, Request(c) \/ Step(c), NEW d \in Readers, d # c
    PROVE  Mine(d)'
<1>1. /\ pc'[d] = pc[d] /\ since'[d] = since[d] /\ key'[d] = key[d]
      /\ asked'[d] = asked[d] /\ results'[d] = results[d] /\ ans'[d] = ans[d]
      /\ now' = now
    BY DEF IInv, TypeOK, Step, Request, Check, Acquire, Busy, Fetched, Store, Reply,
           Goto, Answer, NoStatus
<1>2. refresh' = d <=> refresh = d
    BY ReadersAssumption DEF IInv, OneRefresh, Step, Request, Check, Acquire, Busy,
           Fetched, Store, Reply
<1>3. Mine(d)
    BY Split
<1> QED
    BY <1>1, <1>2, <1>3 DEF Mine, Served, InTime, Limit

LEMMA OwnStep ==
    ASSUME IInv, NEW c \in Readers, Request(c) \/ Step(c)
    PROVE  Mine(c)'
<1> USE DEF IInv
<1>0. /\ now \in Nat /\ since[c] \in Nat /\ asked[c] \in Nat /\ cache.updated \in Nat
      /\ cache.results.at \in Nat /\ results[c].at \in Nat
    BY DEF TypeOK, Results
<1>1. InTime(c) /\ (pc[c] = "fetch" <=> refresh = c) /\ CacheSound
    BY DEF OneRefresh
<1>2. CASE Request(c)
    BY <1>0, <1>1, <1>2, TimesAssumption
    DEF Request, NoStatus, Goto, Answer, Mine, Served, InTime, Limit, TypeOK
<1>3. CASE Check(c)
    <2>1. CASE Fresh(c) /\ Answer(c, "fresh", cache.results)
        <3>1. /\ ans'[c] = [via |-> "fresh", results |-> cache.results,
                             at |-> now]
              /\ pc'[c] = "reply" /\ since'[c] = now /\ key'[c] = key[c]
              /\ refresh' = refresh /\ now' = now /\ pc[c] = "check"
            BY <1>3, <2>1 DEF Check, Answer, Goto, TypeOK
        <3>2. now - asked[c] <= Pause /\ asked[c] - cache.updated < Ttl
            BY <1>1, <2>1, <3>1 DEF InTime, Limit, Fresh
        <3>3. cache.updated - cache.results.at <= FetchMax + Pause
            BY <1>1 DEF CacheSound
        <3>4. now - cache.results.at < Ttl + FetchMax + 2 * Pause
            BY <3>2, <3>3, <1>0, TimesAssumption
        <3>5. cache.results.key = key[c]
            BY <1>1, <2>1 DEF Fresh, CacheSound
        <3> QED
            BY <1>0, <1>1, <3>1, <3>4, <3>5, TimesAssumption DEF Mine, Served, InTime, Limit
    <2>2. CASE Goto(c, "acquire") /\ UNCHANGED ans
        BY <1>0, <1>1, <1>3, <2>2, TimesAssumption
        DEF Check, Goto, Mine, Served, InTime, Limit, TypeOK
    <2> QED
        BY <1>3, <2>1, <2>2 DEF Check
<1>4. CASE Acquire(c)
    BY <1>0, <1>1, <1>4, TimesAssumption, ReadersAssumption
    DEF Acquire, Goto, Mine, Served, InTime, Limit, TypeOK
<1>5. CASE Busy(c)
    BY <1>0, <1>1, <1>5, TimesAssumption
    DEF Busy, NoStatus, Answer, Goto, Mine, Served, InTime, Limit, TypeOK, CacheSound
<1>6. CASE Fetched(c)
    BY <1>0, <1>1, <1>6, TimesAssumption, ReadersAssumption
    DEF Fetched, NoStatus, Answer, Goto, Mine, Served, InTime, Limit, TypeOK
<1>7. CASE Store(c)
    <2>1. /\ ans'[c] = [via |-> "own", results |-> results[c], at |-> now]
          /\ pc'[c] = "reply" /\ since'[c] = now /\ key'[c] = key[c]
          /\ refresh' = refresh /\ now' = now /\ pc[c] = "store"
        BY <1>7 DEF Store, Answer, Goto, TypeOK
    <2>2. /\ results[c].key = key[c] /\ since[c] - results[c].at <= FetchMax
          /\ now - since[c] <= Pause
        BY <1>1, <2>1 DEF InTime, Limit
    <2>3. now - results[c].at < Ttl + FetchMax + 2 * Pause
        BY <2>2, <1>0, TimesAssumption
    <2> QED
        BY <1>0, <1>1, <2>1, <2>2, <2>3, TimesAssumption DEF Mine, Served, InTime, Limit
<1>8. CASE Reply(c)
    BY <1>0, <1>1, <1>8, TimesAssumption
    DEF Reply, Goto, NoAnswer, Mine, Served, InTime, Limit, TypeOK
<1> QED
    BY <1>2, <1>3, <1>4, <1>5, <1>6, <1>7, <1>8 DEF Step

LEMMA NextIInv == IInv /\ [Next]_vars => IInv'
<1>0. SUFFICES ASSUME IInv, [Next]_vars PROVE IInv'
    OBVIOUS
<1>5. TypeOK' /\ CacheSound'
    BY <1>0, NextType, CacheKept DEF IInv
<1>6. SUFFICES ASSUME NEW d \in Readers PROVE Mine(d)'
    BY <1>5 DEF IInv, Mine, OwnFleet, OneRefresh, FreshIsRecent
<1> USE <1>0
<1>1. CASE \E c \in Readers : Request(c) \/ Step(c)
    BY <1>1, OthersKept, OwnStep
<1>2. CASE Edit \/ UNCHANGED vars
    BY <1>2, Split DEF Edit, vars, Mine, Served, InTime, Limit
<1>3. CASE Restart
    BY <1>3, ReadersAssumption
    DEF Restart, Mine, Served, InTime, NoAnswer
<1>4. CASE Tick
    <2>1. now \in Nat /\ since[d] \in Nat
        BY DEF IInv, TypeOK
    <2>2. Mine(d)
        BY Split
    <2> QED
        BY <1>4, <2>1, <2>2, TimesAssumption DEF Tick, Mine, Served, InTime, Limit
<1> QED
    BY <1>1, <1>2, <1>3, <1>4 DEF Next

THEOREM IInvHolds == Spec => []IInv
    BY InitIInv, NextIInv, PTL DEF Spec

(* The fleet status and its threads keep their types.                      *)
THEOREM TypeCorrect == Spec => []TypeOK
<1>1. IInv => TypeOK
    BY DEF IInv
<1> QED
    BY <1>1, IInvHolds, PTL

(* No request ever shows the peers of another list than the one it read.   *)
THEOREM ServesOwnFleet == Spec => []OwnFleet
<1>1. IInv => OwnFleet
    BY DEF IInv
<1> QED
    BY <1>1, IInvHolds, PTL

(* The workers never serve two refreshes, and the lock is never orphaned.  *)
THEOREM SingleRefresh == Spec => []OneRefresh
<1>1. IInv => OneRefresh
    BY DEF IInv
<1> QED
    BY <1>1, IInvHolds, PTL

(* A fresh answer is at most a lifetime, a refresh and two pauses old.     *)
THEOREM BoundedAge == Spec => []FreshIsRecent
<1>1. IInv => FreshIsRecent
    BY DEF IInv
<1> QED
    BY <1>1, IInvHolds, PTL
=============================================================================
