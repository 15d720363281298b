--------------------------- MODULE SessionsProofs ---------------------------
(***************************************************************************)
(* Theorems about Sessions, for every number of threads and tokens, every  *)
(* capacity and lifetime.                                                  *)
(***************************************************************************)
EXTENDS Sessions, FiniteSetTheorems, TLAPS

(* What any login does to the store, whichever sessions it drops.          *)
LEMMA InsertEffect ==
    ASSUME NEW t \in Threads, LoginInsert(t)
    PROVE  \E k \in Fresh, alive \in SUBSET stored, evicted \in SUBSET stored :
              /\ authMtime # mtime[t] => alive = {}
              /\ evicted \subseteq alive
              /\ Cardinality(alive) >= MaxSessions => \E o \in alive : evicted = {o}
              /\ stored' = (alive \ evicted) \cup {k}
              /\ expiry' = [expiry EXCEPT ![k] = now[t] + Ttl]
              /\ issued' = [issued EXCEPT ![k] = mtime[t]]
              /\ known' = known \cup {k}
<1> DEFINE kept  == IF authMtime = mtime[t] THEN stored ELSE {}
           alive == Unexpired(kept, now[t])
<1>1. PICK k \in Fresh,
           evicted \in IF Cardinality(alive) >= MaxSessions
                       THEN {{o} : o \in Oldest(alive)} ELSE {{}} :
              /\ stored' = (alive \ evicted) \cup {k}
              /\ expiry' = [expiry EXCEPT ![k] = now[t] + Ttl]
              /\ issued' = [issued EXCEPT ![k] = mtime[t]]
              /\ known' = known \cup {k}
    BY DEF LoginInsert, Insert, Kept
<1>2. alive \in SUBSET stored /\ (authMtime # mtime[t] => alive = {})
    BY DEF Unexpired
<1>3. CASE Cardinality(alive) >= MaxSessions
    <2>1. PICK o \in Oldest(alive) : evicted = {o}
        BY <1>1, <1>3
    <2>2. o \in alive /\ evicted \in SUBSET alive
        BY <2>1 DEF Oldest
    <2> HIDE DEF alive
    <2> QED
        BY <1>1, <1>2, <2>1, <2>2
<1>4. CASE ~(Cardinality(alive) >= MaxSessions)
    <2>1. evicted = {}
        BY <1>1, <1>4
    <2>2. evicted \in SUBSET stored /\ evicted \subseteq alive
        BY <2>1
    <2> HIDE DEF alive
    <2> QED
        BY <1>1, <1>2, <1>4, <2>2, Zenon
<1> QED
    BY <1>3, <1>4

LEMMA ForgetTypes ==
    ASSUME TypeOK, NEW ts, Forget(ts), version' >= version, clock' >= clock,
           version' \in Nat, clock' \in Nat
    PROVE  /\ pc' \in [Threads -> {"idle", "verify", "insert", "stat", "clock", "check", "served"}]
           /\ kind' \in [Threads -> {"call", "logout"}]
           /\ token' \in [Threads -> Tokens \cup {NoToken}]
           /\ mtime' \in [Threads -> 0 .. version'] /\ now' \in [Threads -> 0 .. clock']
           /\ begun' \in [Threads -> 0 .. version']
<1> USE DEF TypeOK, Forget
<1>1. pc' \in [Threads -> {"idle", "verify", "insert", "stat", "clock", "check", "served"}]
      /\ kind' \in [Threads -> {"call", "logout"}]
    OBVIOUS
<1>2. token' \in [Threads -> Tokens \cup {NoToken}]
    OBVIOUS
<1>3. mtime' \in [Threads -> 0 .. version'] /\ begun' \in [Threads -> 0 .. version']
    OBVIOUS
<1>4. now' \in [Threads -> 0 .. clock']
    OBVIOUS
<1> QED
    BY <1>1, <1>2, <1>3, <1>4

(* A thread that answers its request satisfies SeenInOrder trivially, and  *)
(* the others keep it as long as what is known and issued only grows.      *)
LEMMA ForgetSeen ==
    ASSUME TypeOK, SeenInOrder, IssuedIsKnown, NEW ts, Forget(ts), known \subseteq known',
           \A k \in known : issued'[k] = issued[k] /\ expiry'[k] = expiry[k]
    PROVE  SeenInOrder'
<1> SUFFICES ASSUME NEW t \in Threads
             PROVE  /\ pc'[t] \in {"verify", "insert"} => mtime'[t] > 0
                    /\ pc'[t] \in {"stat", "clock", "check", "served"} => token'[t] \in known'
                    /\ pc'[t] \in {"clock", "check", "served"} => mtime'[t] >= begun'[t] /\ mtime'[t] > 0
                    /\ pc'[t] = "served" => issued'[token'[t]] = mtime'[t] /\ expiry'[token'[t]] > now'[t]
    BY DEF SeenInOrder
<1>1. CASE t \in ts
    BY <1>1 DEF Forget
<1>2. CASE t \notin ts
    BY <1>2 DEF Forget, SeenInOrder
<1> QED
    BY <1>1, <1>2

LEMMA InitIInv == Init => IInv
    BY BoundAssumption, TtlAssumption
       DEF Init, IInv, TypeOK, OneRecord, SeenInOrder, IssuedIsKnown

LEMMA NextIInv == IInv /\ [Next]_vars => IInv'
<1> SUFFICES ASSUME IInv, [Next]_vars PROVE IInv'
    OBVIOUS
<1> USE DEF IInv
<1>0. version \in Nat /\ clock \in Nat /\ MaxVersion \in Nat /\ MaxClock \in Nat /\ Ttl \in Nat
    BY BoundAssumption, TtlAssumption DEF TypeOK
<1>1. CASE \E t \in Threads : LoginLoad(t)
    <2> PICK t \in Threads : LoginLoad(t)
        BY <1>1
    <2>1. TypeOK'
        BY <1>0 DEF LoginLoad, Goto, TypeOK, file, store, history
    <2>2. OneRecord' /\ IssuedIsKnown'
        BY DEF LoginLoad, OneRecord, IssuedIsKnown, store, history
    <2>3. SeenInOrder'
        BY <1>0 DEF LoginLoad, Goto, SeenInOrder, TypeOK, store, history
    <2> QED
        BY <2>1, <2>2, <2>3
<1>2. CASE \E t \in Threads : LoginVerify(t)
    <2> PICK t \in Threads : LoginVerify(t)
        BY <1>2
    <2>1. OneRecord' /\ IssuedIsKnown'
        BY DEF LoginVerify, OneRecord, IssuedIsKnown, store, history
    <2>2. CASE Forget({t})
        <3>1. TypeOK'
            BY <2>2, ForgetTypes, <1>0 DEF LoginVerify, TypeOK, file, store, history
        <3>2. SeenInOrder'
            BY <2>2, ForgetSeen DEF LoginVerify, store, history
        <3> QED
            BY <2>1, <3>1, <3>2
    <2>3. CASE /\ now' = [now EXCEPT ![t] = clock] /\ Goto(t, "insert")
               /\ UNCHANGED <<kind, token, mtime, begun>>
        <3>1. TypeOK'
            BY <2>3, <1>0 DEF LoginVerify, Goto, TypeOK, file, store, history
        <3>2. SeenInOrder'
            BY <2>3 DEF LoginVerify, Goto, SeenInOrder, TypeOK, store, history
        <3> QED
            BY <2>1, <3>1, <3>2
    <2> QED
        BY <2>2, <2>3 DEF LoginVerify
<1>3. CASE \E t \in Threads : LoginInsert(t)
    <2> PICK t \in Threads : LoginInsert(t)
        BY <1>3
    <2>1. PICK k \in Fresh, alive \in SUBSET stored, evicted \in SUBSET stored :
              /\ authMtime # mtime[t] => alive = {}
              /\ stored' = (alive \ evicted) \cup {k}
              /\ expiry' = [expiry EXCEPT ![k] = now[t] + Ttl]
              /\ issued' = [issued EXCEPT ![k] = mtime[t]]
              /\ known' = known \cup {k}
        BY InsertEffect
    <2>2. /\ pc[t] = "insert" /\ authMtime' = mtime[t] /\ Forget({t})
          /\ UNCHANGED <<file, clock, loggedOut>>
        BY DEF LoginInsert, Insert, Kept
    <2>3. k \in Tokens /\ issued[k] = 0 /\ k \notin known
        BY <1>0 DEF Fresh, IssuedIsKnown
    <2>4. mtime[t] \in 1 .. version /\ now[t] \in 0 .. clock
        BY <2>2, <1>0 DEF SeenInOrder, TypeOK
    <2>5. TypeOK'
        <3>1. stored' \in SUBSET Tokens /\ known' \in SUBSET Tokens /\ loggedOut' \in SUBSET known'
            BY <2>1, <2>2, <2>3 DEF TypeOK
        <3>2. expiry' \in [Tokens -> 0 .. (MaxClock + Ttl)]
            BY <2>1, <2>3, <2>4, <1>0 DEF TypeOK
        <3>3. issued' \in [Tokens -> 0 .. version] /\ authMtime' \in 0 .. version
            BY <2>1, <2>2, <2>3, <2>4, <1>0 DEF TypeOK
        <3>4. version' = version /\ clock' = clock
            BY <2>2 DEF file
        <3> QED
            BY <3>1, <3>2, <3>3, <3>4, <2>2, ForgetTypes, <1>0 DEF TypeOK, file
    <2>6. OneRecord'
        <3>1. issued'[k] = mtime[t] /\ k \in known'
            BY <2>1, <2>3 DEF TypeOK
        <3>2. ASSUME NEW x \in alive PROVE issued'[x] = mtime[t] /\ x \in known'
            BY <2>1, <2>3, <3>2 DEF OneRecord, TypeOK
        <3> QED
            BY <2>1, <2>2, <3>1, <3>2 DEF OneRecord
    <2>7. IssuedIsKnown'
        BY <2>1, <2>3, <2>4 DEF IssuedIsKnown, TypeOK
    <2>8. SeenInOrder'
        <3>1. \A x \in known : issued'[x] = issued[x] /\ expiry'[x] = expiry[x]
            BY <2>1, <2>3 DEF TypeOK
        <3> QED
            BY <3>1, <2>1, <2>2, ForgetSeen
    <2> QED
        BY <2>5, <2>6, <2>7, <2>8
<1>4. CASE \E t \in Threads : Arrive(t)
    <2> PICK t \in Threads : Arrive(t)
        BY <1>4
    <2>1. PICK k \in known, what \in {"call", "logout"} :
              token' = [token EXCEPT ![t] = k] /\ kind' = [kind EXCEPT ![t] = what]
        BY DEF Arrive
    <2>2. TypeOK'
        BY <2>1, <1>0 DEF Arrive, Goto, TypeOK, file, store, history
    <2>3. OneRecord' /\ IssuedIsKnown'
        BY DEF Arrive, OneRecord, IssuedIsKnown, store, history
    <2>4. SeenInOrder'
        BY <2>1 DEF Arrive, Goto, SeenInOrder, TypeOK, store, history
    <2> QED
        BY <2>2, <2>3, <2>4
<1>5. CASE \E t \in Threads : ValidStat(t)
    <2> PICK t \in Threads : ValidStat(t)
        BY <1>5
    <2>1. TypeOK'
        BY <1>0 DEF ValidStat, Goto, TypeOK, file, store, history
    <2>2. OneRecord' /\ IssuedIsKnown'
        BY DEF ValidStat, OneRecord, IssuedIsKnown, store, history
    <2>3. SeenInOrder'
        BY <1>0 DEF ValidStat, Goto, SeenInOrder, TypeOK, store, history
    <2> QED
        BY <2>1, <2>2, <2>3
<1>6. CASE \E t \in Threads : ValidClock(t)
    <2> PICK t \in Threads : ValidClock(t)
        BY <1>6
    <2>1. TypeOK'
        BY <1>0 DEF ValidClock, Goto, TypeOK, file, store, history
    <2>2. OneRecord' /\ IssuedIsKnown'
        BY DEF ValidClock, OneRecord, IssuedIsKnown, store, history
    <2>3. SeenInOrder'
        BY DEF ValidClock, Goto, SeenInOrder, TypeOK, store, history
    <2> QED
        BY <2>1, <2>2, <2>3
<1>7. CASE \E t \in Threads : ValidCheck(t)
    <2> PICK t \in Threads : ValidCheck(t)
        BY <1>7
    <2>0. pc[t] = "check" /\ UNCHANGED <<file, clock, expiry, history>>
        BY DEF ValidCheck
    <2>1. IssuedIsKnown'
        BY <2>0 DEF IssuedIsKnown, history
    <2>2. /\ mtime[t] \in 1 .. version /\ mtime[t] >= begun[t] /\ token[t] \in known
          /\ now[t] \in 0 .. clock
        BY <2>0, <1>0 DEF SeenInOrder, TypeOK
    <2>3. CASE authMtime \notin {0, mtime[t]}
        <3>1. stored' = {} /\ authMtime' = mtime[t] /\ Forget({t})
            BY <2>3 DEF ValidCheck
        <3>2. TypeOK'
            BY <3>1, <2>0, <2>2, ForgetTypes, <1>0 DEF TypeOK, file, history
        <3>3. OneRecord'
            BY <3>1 DEF OneRecord
        <3>4. SeenInOrder'
            BY <3>1, <2>0, ForgetSeen DEF history
        <3> QED
            BY <2>1, <3>2, <3>3, <3>4
    <2>4. CASE authMtime \in {0, mtime[t]}
        <3>1. stored' = Unexpired(stored, now[t]) /\ authMtime' = authMtime
            BY <2>4 DEF ValidCheck
        <3>2. OneRecord'
            BY <3>1, <2>0 DEF OneRecord, Unexpired, history
        <3>3. CASE token[t] \notin stored'
            <4>1. Forget({t})
                BY <2>4, <3>3 DEF ValidCheck
            <4>2. TypeOK'
                BY <4>1, <3>1, <2>0, ForgetTypes, <1>0 DEF TypeOK, Unexpired, file, history
            <4>3. SeenInOrder'
                BY <4>1, <2>0, ForgetSeen DEF history
            <4> QED
                BY <2>1, <3>2, <4>2, <4>3
        <3>4. CASE token[t] \in stored'
            <4>1. Goto(t, "served") /\ UNCHANGED <<kind, token, mtime, now, begun>>
                BY <2>4, <3>4 DEF ValidCheck
            <4>2. TypeOK'
                BY <4>1, <3>1, <2>0 DEF TypeOK, Goto, Unexpired, file, history
            <4>3. issued[token[t]] = mtime[t] /\ expiry[token[t]] > now[t]
                <5>1. issued[token[t]] = authMtime /\ token[t] \in stored /\ expiry[token[t]] > now[t]
                    BY <3>4, <3>1 DEF Unexpired, OneRecord
                <5>2. issued[token[t]] > 0
                    BY <2>2 DEF IssuedIsKnown, TypeOK
                <5> QED
                    BY <5>1, <5>2, <2>4
            <4>4. SeenInOrder'
                BY <4>1, <4>3, <2>0 DEF Goto, SeenInOrder, TypeOK, history
            <4> QED
                BY <2>1, <3>2, <4>2, <4>4
        <3> QED
            BY <3>3, <3>4
    <2> QED
        BY <2>3, <2>4
<1>8. CASE \E t \in Threads : Serve(t)
    <2> PICK t \in Threads : Serve(t)
        BY <1>8
    <2>1. /\ pc[t] = "served" /\ Forget({t}) /\ stored' \subseteq stored
          /\ loggedOut' \subseteq loggedOut \cup {token[t]}
          /\ UNCHANGED <<file, clock, expiry, authMtime, issued, known>>
        BY DEF Serve
    <2>2. token[t] \in known
        BY <2>1 DEF SeenInOrder
    <2>3. TypeOK'
        BY <2>1, <2>2, ForgetTypes, <1>0 DEF TypeOK, file
    <2>4. OneRecord' /\ IssuedIsKnown'
        BY <2>1 DEF OneRecord, IssuedIsKnown
    <2>5. SeenInOrder'
        BY <2>1, ForgetSeen
    <2> QED
        BY <2>3, <2>4, <2>5
<1>9. CASE ResetReplace
    <2>1. UNCHANGED <<clock, store, locals, history>> /\ version' = version + 1
          /\ version < MaxVersion /\ group' = "root" /\ reset' = group
        BY <1>9 DEF ResetReplace
    <2>2. OneRecord' /\ IssuedIsKnown' /\ SeenInOrder'
        BY <2>1 DEF OneRecord, IssuedIsKnown, SeenInOrder, store, locals, history
    <2>3. TypeOK'
        BY <2>1, <1>0 DEF TypeOK, store, locals, history
    <2> QED
        BY <2>2, <2>3
<1>10. CASE ResetChown
    BY <1>10 DEF ResetChown, TypeOK, OneRecord, SeenInOrder, IssuedIsKnown, store, locals, history
<1>11. CASE Tick
    <2>1. OneRecord' /\ IssuedIsKnown' /\ SeenInOrder'
        BY <1>11 DEF Tick, OneRecord, IssuedIsKnown, SeenInOrder, store, locals, history
    <2>2. TypeOK'
        BY <1>11, <1>0 DEF Tick, TypeOK, file, store, locals, history
    <2> QED
        BY <2>1, <2>2
<1>12. CASE Restart
    <2>1. stored' = {} /\ authMtime' = 0 /\ Forget(Threads) /\ UNCHANGED <<file, clock, expiry, history>>
        BY <1>12 DEF Restart
    <2>2. OneRecord' /\ IssuedIsKnown'
        BY <2>1 DEF OneRecord, IssuedIsKnown, history
    <2>3. SeenInOrder'
        BY <2>1, ForgetSeen DEF history
    <2>4. TypeOK'
        BY <2>1, ForgetTypes, <1>0 DEF TypeOK, file, history
    <2> QED
        BY <2>2, <2>3, <2>4
<1>13. CASE UNCHANGED vars
    BY <1>13 DEF vars, file, store, locals, history, TypeOK, OneRecord, SeenInOrder, IssuedIsKnown
<1> QED
    BY <1>1, <1>2, <1>3, <1>4, <1>5, <1>6, <1>7, <1>8, <1>9, <1>10, <1>11, <1>12, <1>13 DEF Next

THEOREM IInvHolds == Spec => []IInv
    BY InitIInv, NextIInv, PTL DEF Spec

(* The session store and its threads keep their types.                     *)
THEOREM TypeCorrect == Spec => []TypeOK
<1>1. IInv => TypeOK
    BY DEF IInv
<1> QED
    BY <1>1, IInvHolds, PTL

(* All sessions in the store belong to the record it last saw.             *)
THEOREM StoreOfOneRecord == Spec => []OneRecord
<1>1. IInv => OneRecord
    BY DEF IInv
<1> QED
    BY <1>1, IInvHolds, PTL

(* A reset ends every older session for requests that come after it.       *)
THEOREM ResetInvalidates == Spec => []AcceptedIsCurrent
<1>1. IInv => AcceptedIsCurrent
    BY DEF IInv, SeenInOrder, AcceptedIsCurrent, TypeOK
<1> QED
    BY <1>1, IInvHolds, PTL

-----------------------------------------------------------------------------
(* The capacity, and logout.                                               *)

LEMMA StoredSteps ==
    ASSUME IInv, [Next]_vars, ~(\E t \in Threads : LoginInsert(t))
    PROVE  stored' \subseteq stored
    BY DEF Next, LoginLoad, LoginVerify, Arrive, ValidStat, ValidClock, ValidCheck, Serve,
           ResetReplace, ResetChown, Tick, Restart, Unexpired, store, vars

(* The store holds at most MAX_SESSIONS sessions, at every moment.         *)
THEOREM CapacityKept == Spec => []Bounded
<1>1. Init => Bounded
    BY FS_EmptySet, CapacityAssumption DEF Init, Bounded
<1>2. IInv /\ Bounded /\ [Next]_vars => Bounded'
    <2> SUFFICES ASSUME IInv, Bounded, [Next]_vars PROVE Bounded'
        OBVIOUS
    <2>1. stored \in SUBSET Tokens /\ IsFiniteSet(stored)
        BY FS_Subset, TokensAssumption DEF IInv, TypeOK
    <2>2. CASE \E t \in Threads : LoginInsert(t)
        <3>1. PICK k \in Fresh, alive \in SUBSET stored, evicted \in SUBSET stored :
                  /\ Cardinality(alive) >= MaxSessions => \E o \in alive : evicted = {o}
                  /\ stored' = (alive \ evicted) \cup {k}
            BY <2>2, InsertEffect
        <3>2. /\ IsFiniteSet(alive) /\ Cardinality(alive) <= Cardinality(stored)
              /\ Cardinality(alive) \in Nat /\ Cardinality(stored) \in Nat
            BY <2>1, FS_Subset, FS_CardinalityType
        <3> DEFINE rest == alive \ evicted
        <3>3. IsFiniteSet(rest) /\ Cardinality(rest) \in Nat /\ Cardinality(rest) <= Cardinality(alive)
            BY <3>2, FS_Subset, FS_CardinalityType
        <3>4. Cardinality(rest) + 1 <= MaxSessions
            <4>1. CASE Cardinality(alive) >= MaxSessions
                <5>1. PICK o \in alive : evicted = {o}
                    BY <3>1, <4>1
                <5>2. Cardinality(rest) = Cardinality(alive) - 1
                    BY <5>1, <3>2, FS_RemoveElement
                <5> QED
                    BY <5>2, <3>2, CapacityAssumption DEF Bounded
            <4>2. CASE ~(Cardinality(alive) >= MaxSessions)
                BY <4>2, <3>2, <3>3, CapacityAssumption
            <4> QED
                BY <4>1, <4>2
        <3>5. Cardinality(rest \cup {k}) <= Cardinality(rest) + 1 /\ Cardinality(rest \cup {k}) \in Nat
            <4> HIDE DEF rest
            <4>1. /\ IsFiniteSet(rest \cup {k})
                  /\ Cardinality(rest \cup {k}) =
                        IF k \in rest THEN Cardinality(rest) ELSE Cardinality(rest) + 1
                BY <3>3, FS_AddElement, Zenon
            <4> QED
                BY <4>1, <3>3
        <3>6. stored' = rest \cup {k}
            BY <3>1
        <3> HIDE DEF rest
        <3> QED
            BY <3>3, <3>4, <3>5, <3>6, CapacityAssumption DEF Bounded
    <2>3. CASE ~(\E t \in Threads : LoginInsert(t))
        <3>1. stored' \in SUBSET stored
            BY <2>3, StoredSteps
        <3>2. Cardinality(stored') <= Cardinality(stored) /\ Cardinality(stored') \in Nat
              /\ Cardinality(stored) \in Nat
            BY <3>1, <2>1, FS_Subset, FS_CardinalityType
        <3> QED
            BY <3>2, CapacityAssumption DEF Bounded
    <2> QED
        BY <2>2, <2>3
<1> QED
    BY <1>1, <1>2, IInvHolds, PTL DEF Spec

(* After logout answered, its token is never in the store again.           *)
THEOREM LogoutForGood == Spec => []LogoutIsFinal
<1>1. Init => LogoutIsFinal
    BY DEF Init, LogoutIsFinal
<1>2. IInv /\ LogoutIsFinal /\ [Next]_vars => LogoutIsFinal'
    <2> SUFFICES ASSUME IInv, LogoutIsFinal, [Next]_vars PROVE LogoutIsFinal'
        OBVIOUS
    <2>1. CASE \E t \in Threads : LoginInsert(t)
        <3>1. PICK k \in Fresh, alive \in SUBSET stored, evicted \in SUBSET stored :
                  stored' = (alive \ evicted) \cup {k}
            BY <2>1, InsertEffect
        <3>2. k \notin loggedOut
            BY DEF Fresh, IInv, IssuedIsKnown, TypeOK
        <3>3. loggedOut' = loggedOut
            BY <2>1 DEF LoginInsert, Insert, Kept
        <3> QED
            BY <3>1, <3>2, <3>3 DEF LogoutIsFinal
    <2>2. CASE \E t \in Threads : Serve(t)
        BY <2>2 DEF Serve, LogoutIsFinal
    <2>3. CASE /\ ~(\E t \in Threads : LoginInsert(t))
               /\ ~(\E t \in Threads : Serve(t))
        <3>1. stored' \subseteq stored
            BY <2>3, StoredSteps
        <3>2. loggedOut' = loggedOut
            BY <2>3 DEF Next, LoginLoad, LoginVerify, Arrive, ValidStat, ValidClock, ValidCheck,
                ResetReplace, ResetChown, Tick, Restart, history, vars
        <3> QED
            BY <3>1, <3>2 DEF LogoutIsFinal
    <2> QED
        BY <2>1, <2>2, <2>3
<1> QED
    BY <1>1, <1>2, IInvHolds, PTL DEF Spec

-----------------------------------------------------------------------------
(* Why a session ends.                                                     *)

(* A login drops a session because the thread has read another record, saw *)
(* the session expired, or evicted it: then as the first to expire of as   *)
(* many good sessions as the store may hold.                               *)
LEMMA InsertDrops ==
    ASSUME NEW t \in Threads, LoginInsert(t), NEW x \in stored \ stored',
           authMtime = mtime[t], ~(expiry[x] <= now[t]), expiry[x] \in Int, now[t] \in Int,
           \A k \in Fresh : k \notin stored
    PROVE  /\ Cardinality(Unexpired(stored, now[t])) >= MaxSessions
           /\ \A other \in stored \cap stored' : expiry[x] <= expiry[other]
<1> DEFINE alive == Unexpired(stored, now[t])
<1>1. PICK k \in Fresh,
           evicted \in IF Cardinality(alive) >= MaxSessions
                       THEN {{o} : o \in Oldest(alive)} ELSE {{}} :
              stored' = (alive \ evicted) \cup {k}
    BY DEF LoginInsert, Insert, Kept
<1>2. x \in alive
    BY DEF Unexpired
<1> HIDE DEF alive
<1>3. x \in evicted
    BY <1>1, <1>2
<1>4. Cardinality(alive) >= MaxSessions
    BY <1>1, <1>3
<1>5. x \in Oldest(alive)
    BY <1>1, <1>3, <1>4
<1>6. \A other \in stored \cap stored' : other \in alive
    BY <1>1
<1>7. \A other \in stored \cap stored' : expiry[x] <= expiry[other]
    BY <1>5, <1>6 DEF Oldest
<1> QED
    BY <1>4, <1>7 DEF alive

(* A session leaves the store only for a reason that README and code name: *)
(* expiry, logout, eviction as the first to expire of a store that is full *)
(* after the purge, another record, a restart.                             *)
THEOREM EndingsHaveReasons == Spec => EndsForAReason
<1>1. IInv /\ [Next]_vars =>
        [\A k \in stored \ stored' :
            \/ \E t \in Threads : pc[t] \in {"insert", "check"} /\ expiry[k] <= now[t]
            \/ k \in loggedOut'
            \/ \E t \in Threads : Evicts(t, k)
            \/ \E t \in Threads : pc[t] \in {"insert", "check"} /\ mtime[t] # authMtime
            \/ Restart]_vars
    <2> SUFFICES ASSUME IInv, Next, NEW x \in stored \ stored'
                 PROVE  \/ \E t \in Threads : pc[t] \in {"insert", "check"} /\ expiry[x] <= now[t]
                        \/ x \in loggedOut'
                        \/ \E t \in Threads : Evicts(t, x)
                        \/ \E t \in Threads : pc[t] \in {"insert", "check"} /\ mtime[t] # authMtime
                        \/ Restart
        OBVIOUS
    <2>0. x \in Tokens /\ expiry[x] \in Int /\ version \in Nat /\ clock \in Nat
          /\ MaxClock \in Nat /\ Ttl \in Nat
        BY BoundAssumption, TtlAssumption DEF IInv, TypeOK
    <2>1. CASE \E t \in Threads : LoginInsert(t)
        <3> PICK t \in Threads : LoginInsert(t)
            BY <2>1
        <3>1. pc[t] = "insert" /\ now[t] \in Int
            BY <2>0 DEF LoginInsert, Insert, IInv, TypeOK
        <3>2. CASE authMtime # mtime[t]
            BY <3>1, <3>2
        <3>3. CASE expiry[x] <= now[t]
            BY <3>1, <3>3
        <3>4. CASE authMtime = mtime[t] /\ ~(expiry[x] <= now[t])
            <4>1. \A k \in Fresh : k \notin stored /\ k \notin known
                BY DEF Fresh, IInv, IssuedIsKnown, OneRecord, TypeOK
            <4>2. /\ Cardinality(Unexpired(stored, now[t])) >= MaxSessions
                  /\ \A other \in stored \cap stored' : expiry[x] <= expiry[other]
                BY <3>1, <3>4, <2>0, <4>1, InsertDrops
            <4>3. PICK k \in Fresh : known' = known \cup {k}
                BY InsertEffect
            <4>4. known' # known
                BY <4>1, <4>3
            <4>5. pc'[t] = "idle"
                BY DEF LoginInsert, Insert, Forget
            <4> QED
                BY <3>1, <4>2, <4>4, <4>5 DEF Evicts
        <3> QED
            BY <3>2, <3>3, <3>4
    <2>2. CASE \E t \in Threads : ValidCheck(t)
        <3> PICK t \in Threads : ValidCheck(t)
            BY <2>2
        <3>1. pc[t] = "check" /\ now[t] \in Int
            BY <2>0 DEF ValidCheck, IInv, TypeOK
        <3>2. CASE authMtime # mtime[t]
            BY <3>1, <3>2
        <3>3. CASE authMtime = mtime[t]
            <4>1. stored' = Unexpired(stored, now[t])
                BY <3>3 DEF ValidCheck
            <4>2. ~(expiry[x] > now[t])
                BY <4>1 DEF Unexpired
            <4> QED
                BY <4>2, <3>1, <2>0
        <3> QED
            BY <3>2, <3>3
    <2>3. CASE \E t \in Threads : Serve(t)
        BY <2>3 DEF Serve
    <2>4. CASE Restart
        BY <2>4
    <2>5. CASE \/ \E t \in Threads : \/ LoginLoad(t) \/ LoginVerify(t) \/ Arrive(t)
                                      \/ ValidStat(t) \/ ValidClock(t)
               \/ ResetReplace \/ ResetChown \/ Tick
        <3>1. stored' = stored
            BY <2>5 DEF LoginLoad, LoginVerify, Arrive, ValidStat, ValidClock,
                        ResetReplace, ResetChown, Tick, store
        <3> QED
            BY <3>1
    <2> QED
        BY <2>1, <2>2, <2>3, <2>4, <2>5 DEF Next
<1> QED
    BY <1>1, IInvHolds, PTL DEF Spec, EndsForAReason
=============================================================================
