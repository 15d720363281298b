---------------------------- MODULE PiListProofs ----------------------------
(***************************************************************************)
(* Theorems about PiList, for all entries, capacities and request threads. *)
(***************************************************************************)
EXTENDS PiList, FiniteSetTheorems, TLAPS

-----------------------------------------------------------------------------
(* Lists.                                                                  *)

LEMMA SmallerList ==
    ASSUME NEW l, NEW k, ValidList(l), k \subseteq l
    PROVE  /\ ValidList(k) /\ IsFiniteSet(k) /\ IsFiniteSet(l)
           /\ Cardinality(k) \in Nat /\ Cardinality(l) \in Nat
           /\ Cardinality(k) <= Cardinality(l)
           /\ k # l => Cardinality(k) < Cardinality(l)
<1>1. IsFiniteSet(l)
    BY EntriesAssumption, FS_Subset DEF ValidList
<1>2. /\ IsFiniteSet(k) /\ Cardinality(k) <= Cardinality(l)
      /\ Cardinality(l) = Cardinality(k) => l = k
    BY <1>1, FS_Subset
<1>3. Cardinality(k) \in Nat /\ Cardinality(l) \in Nat
    BY <1>1, <1>2, FS_CardinalityType
<1>4. Cardinality(k) <= MaxPis
    BY <1>2, <1>3, MaxPisAssumption DEF ValidList
<1>5. ValidList(k)
    BY <1>4 DEF ValidList
<1> QED
    BY <1>1, <1>2, <1>3, <1>5

(* An entry without conflicts may join a list that has room.               *)
LEMMA JoinList ==
    ASSUME NEW l, NEW e \in Entries, ValidList(l), Cardinality(l) < MaxPis,
           \A p \in l : ~Conflict(p, e)
    PROVE  ValidList(l \cup {e})
<1>1. IsFiniteSet(l) /\ Cardinality(l) \in Nat
    BY SmallerList
<1>2. Cardinality(l \cup {e}) = IF e \in l THEN Cardinality(l) ELSE Cardinality(l) + 1
    BY <1>1, FS_AddElement, Zenon
<1>3. Cardinality(l \cup {e}) <= MaxPis
    BY <1>1, <1>2, MaxPisAssumption
<1>4. ASSUME NEW p \in l \cup {e}, NEW q \in l \cup {e}, Conflict(p, q) PROVE p = q
    <2>1. CASE p \in l /\ q \in l
        BY <2>1, <1>4 DEF ValidList
    <2>2. CASE p = e /\ q \in l
        <3>1. Conflict(q, e)
            BY <1>4, <2>2 DEF Conflict
        <3> QED
            BY <3>1, <2>2
    <2>3. CASE q = e /\ p \in l
        BY <1>4, <2>3
    <2> QED
        BY <1>4, <2>1, <2>2, <2>3
<1> QED
    BY <1>3, <1>4 DEF ValidList

(* A request that is not refused leaves a valid list valid.                *)
THEOREM EffectValid ==
    ASSUME NEW l, ValidList(l), NEW r \in Request, ~Refused(r, l)
    PROVE  ValidList(Effect(r, l))
<1>1. CASE r.op = "add"
    <2>1. r.entry \in Entries
        BY <1>1 DEF Request
    <2>2. ~(Cardinality(l) >= MaxPis) /\ \A p \in l : ~Conflict(p, r.entry)
        BY <1>1 DEF Refused
    <2>3. Cardinality(l) < MaxPis
        BY <2>2, SmallerList, MaxPisAssumption
    <2>4. ValidList(l \cup {r.entry})
        BY <2>1, <2>2, <2>3, JoinList
    <2> QED
        BY <1>1, <2>4 DEF Effect
<1>2. CASE r.op = "edit"
    <2> DEFINE k == l \ At(r.ip, l)
    <2>1. r.entry \in Entries
        BY <1>2 DEF Request
    <2>2. At(r.ip, l) # {} /\ \A p \in k : ~Conflict(p, r.entry)
        BY <1>2 DEF Refused
    <2>3. k \subseteq l /\ k # l
        BY <2>2 DEF At
    <2> HIDE DEF k
    <2>4. ValidList(k) /\ Cardinality(k) < MaxPis
        BY <2>3, SmallerList, MaxPisAssumption DEF ValidList
    <2>5. ValidList(k \cup {r.entry})
        BY <2>1, <2>2, <2>4, JoinList
    <2> QED
        BY <1>2, <2>5 DEF Effect, k
<1>3. CASE r.op = "delete"
    <2>1. ValidList(l \ At(r.ip, l))
        BY SmallerList
    <2> QED
        BY <1>3, <2>1 DEF Effect
<1>4. CASE r.op = "get"
    BY <1>4 DEF Effect
<1> QED
    BY <1>1, <1>2, <1>3, <1>4 DEF Request

-----------------------------------------------------------------------------
(* The inductive invariant, with every writer at work.                     *)

LEMMA NoRequestIsRequest == NoRequest \in Request
    BY DEF NoRequest, Request

LEMMA InitIInv == Init => IInv
<1> SUFFICES ASSUME Init PROVE IInv
    OBVIOUS
<1>1. TypeOK
    BY NoRequestIsRequest DEF Init, TypeOK, Lists
<1>2. FileValid
    BY DEF Init, FileValid, Usable, Lists
<1>3. Exclusive /\ HandsValid
    BY SentinelAssumption DEF Init, Exclusive, HandsValid
<1> QED
    BY <1>1, <1>2, <1>3 DEF IInv

LEMMA NextIInv == IInv /\ [Next]_vars => IInv'
<1> SUFFICES ASSUME IInv, [Next]_vars PROVE IInv'
    OBVIOUS
<1> USE DEF IInv
<1>1. CASE \E c \in Clients : Call(c)
    <2> PICK c \in Clients : Call(c)
        BY <1>1
    <2>1. TypeOK'
        BY DEF Call, TypeOK
    <2>2. FileValid' /\ Exclusive' /\ HandsValid'
        BY DEF Call, FileValid, Exclusive, HandsValid, TypeOK
    <2> QED
        BY <2>1, <2>2
<1>2. CASE \E c \in Clients : Enter(c)
    <2> PICK c \in Clients : Enter(c)
        BY <1>2
    <2>1. CASE UNCHANGED <<lock, seen>> /\ \E a \in {"ok", "refused", "error"} : Respond(c, a)
        <3>1. TypeOK'
            BY <2>1 DEF Enter, Respond, TypeOK
        <3>2. FileValid' /\ Exclusive' /\ HandsValid'
            BY <2>1 DEF Enter, Respond, FileValid, Exclusive, HandsValid, TypeOK
        <3> QED
            BY <3>1, <3>2
    <2>2. CASE /\ Usable(file) /\ ~Refused(req[c], file) /\ req[c].op # "get"
               /\ lock' = c /\ seen' = [seen EXCEPT ![c] = file]
               /\ pc' = [pc EXCEPT ![c] = "write"] /\ UNCHANGED res
        <3>1. lock = Nobody /\ UNCHANGED <<file, req, inst, instSeen>>
            BY DEF Enter
        <3>2. ValidList(file) /\ file \in SUBSET Entries
            BY <2>2 DEF FileValid, ValidList
        <3>3. TypeOK'
            BY <2>2, <3>1, <3>2 DEF TypeOK
        <3>4. FileValid' /\ Exclusive'
            BY <2>2, <3>1, SentinelAssumption DEF FileValid, Exclusive, TypeOK
        <3>5. HandsValid'
            BY <2>2, <3>1, <3>2 DEF HandsValid, TypeOK
        <3> QED
            BY <3>3, <3>4, <3>5
    <2> QED
        BY <2>1, <2>2 DEF Enter
<1>3. CASE \E c \in Clients : Write(c)
    <2> PICK c \in Clients : Write(c)
        BY <1>3
    <2>1. ValidList(seen[c]) /\ ~Refused(req[c], seen[c]) /\ req[c] \in Request /\ lock = c
        BY DEF Write, HandsValid, TypeOK, Exclusive
    <2>2. ValidList(Effect(req[c], seen[c]))
        BY <2>1, EffectValid
    <2>3. Effect(req[c], seen[c]) \in SUBSET Entries
        BY <2>2 DEF ValidList
    <2>4. TypeOK'
        BY <2>3 DEF Write, Respond, TypeOK
    <2>5. FileValid'
        BY <2>2 DEF Write, FileValid
    <2>6. Exclusive'
        BY <2>1, SentinelAssumption DEF Write, Respond, Exclusive, TypeOK
    <2>7. HandsValid'
        BY DEF Write, Respond, HandsValid, TypeOK
    <2> QED
        BY <2>4, <2>5, <2>6, <2>7
<1>4. CASE \E c \in Clients : Sync(c)
    <2> PICK c \in Clients : Sync(c)
        BY <1>4
    <2>1. TypeOK'
        BY DEF Sync, Respond, TypeOK
    <2>2. FileValid' /\ HandsValid'
        BY DEF Sync, Respond, FileValid, HandsValid, TypeOK
    <2>3. Exclusive'
        BY SentinelAssumption DEF Sync, Respond, Exclusive, TypeOK
    <2> QED
        BY <2>1, <2>2, <2>3
<1>5. CASE \E c \in Clients : Reply(c)
    <2> PICK c \in Clients : Reply(c)
        BY <1>5
    <2>1. TypeOK'
        BY NoRequestIsRequest DEF Reply, TypeOK
    <2>2. FileValid' /\ Exclusive' /\ HandsValid'
        BY DEF Reply, FileValid, Exclusive, HandsValid, TypeOK
    <2> QED
        BY <2>1, <2>2
<1>6. CASE Crash
    <2>1. TypeOK'
        BY <1>6, NoRequestIsRequest DEF Crash, TypeOK
    <2>2. FileValid' /\ Exclusive' /\ HandsValid'
        BY <1>6, SentinelAssumption DEF Crash, FileValid, Exclusive, HandsValid
    <2> QED
        BY <2>1, <2>2
<1>3a. CASE SelfRead
    <2> DEFINE items == IF file = Missing THEN {} ELSE file
               kept == Others(Self, items)
    <2>1. Cardinality(kept) < MaxPis /\ instSeen' = kept /\ inst' = "write" /\ file # Bad
          /\ UNCHANGED <<file, threads>>
        BY <1>3a DEF SelfRead
    <2>2. ValidList(items)
        <3>1. CASE file = Missing
            BY <3>1, FS_EmptySet, MaxPisAssumption DEF ValidList
        <3>2. CASE file # Missing
            BY <3>2, <2>1 DEF FileValid, Usable
        <3> QED
            BY <3>1, <3>2
    <2>3. kept \subseteq items /\ \A p \in kept : ~Conflict(p, Self)
        BY DEF Others
    <2> HIDE DEF kept, items
    <2>4. ValidList(kept)
        BY <2>2, <2>3, SmallerList
    <2>5. ValidList(kept \cup {Self})
        BY <2>1, <2>3, <2>4, SelfAssumption, JoinList
    <2>6. TypeOK'
        BY <2>1, <2>4 DEF TypeOK, threads, ValidList
    <2>7. FileValid' /\ Exclusive' /\ HandsValid'
        BY <2>1, <2>5 DEF FileValid, Exclusive, HandsValid, threads
    <2> QED
        BY <2>6, <2>7
<1>8. CASE SelfWrite
    <2>1. ValidList(instSeen \cup {Self}) /\ instSeen \cup {Self} \in SUBSET Entries
        BY <1>8 DEF SelfWrite, HandsValid, ValidList
    <2>2. TypeOK'
        BY <1>8, <2>1 DEF SelfWrite, TypeOK, threads
    <2>3. FileValid'
        BY <1>8, <2>1 DEF SelfWrite, FileValid
    <2>4. Exclusive' /\ HandsValid'
        BY <1>8 DEF SelfWrite, Exclusive, HandsValid, threads
    <2> QED
        BY <2>2, <2>3, <2>4
<1>9. CASE Tamper
    <2>1. TypeOK'
        BY <1>9 DEF Tamper, TypeOK, Lists, threads
    <2>2. FileValid'
        BY <1>9 DEF Tamper, FileValid, Lists, Usable
    <2>3. Exclusive' /\ HandsValid'
        BY <1>9 DEF Tamper, Exclusive, HandsValid, threads
    <2> QED
        BY <2>1, <2>2, <2>3
<1>10. CASE UNCHANGED vars
    BY <1>10 DEF vars, threads, TypeOK, FileValid, Exclusive, HandsValid
<1> QED
    BY <1>1, <1>2, <1>3, <1>4, <1>5, <1>6, <1>3a, <1>8, <1>9, <1>10 DEF Next, Web

THEOREM IInvHolds == Spec => []IInv
    BY InitIInv, NextIInv, PTL DEF Spec

(* The list and its writers keep their types.                              *)
THEOREM TypeCorrect == Spec => []TypeOK
<1>1. IInv => TypeOK
    BY DEF IInv
<1> QED
    BY <1>1, IInvHolds, PTL

(* No interleaving of the web service, crashes, the installer and hand     *)
(* edits makes this code write a list that the next read rejects.          *)
THEOREM ListStaysValid == Spec => []FileValid
<1>1. IInv => FileValid
    BY DEF IInv
<1> QED
    BY <1>1, IInvHolds, PTL

(* data_lock excludes: at most one thread is between read and write.       *)
THEOREM OneWriter == Spec => []Exclusive
<1>1. IInv => Exclusive
    BY DEF IInv
<1> QED
    BY <1>1, IInvHolds, PTL

(* A damaged list is never read as if it were one, and it is only replaced *)
(* by a hand or by a writer that had read the list before the damage.      *)
THEOREM DamageIsKept == Spec => BadIsKept
<1>1. IInv /\ [Next]_vars =>
        [file = Bad =>
            /\ inst' = "write" => inst = "write"
            /\ \A c \in Clients : pc'[c] = "write" => pc[c] = "write"
            /\ file' # Bad => \/ Tamper \/ inst = "write"
                             \/ \E c \in Clients : pc[c] = "write"]_vars
    <2> SUFFICES ASSUME IInv, Next, file = Bad
                 PROVE  /\ inst' = "write" => inst = "write"
                        /\ \A c \in Clients : pc'[c] = "write" => pc[c] = "write"
                        /\ file' # Bad => \/ Tamper \/ inst = "write"
                                         \/ \E c \in Clients : pc[c] = "write"
        OBVIOUS
    <2> USE DEF IInv, TypeOK
    <2>1. CASE \E c \in Clients : Enter(c)
        BY <2>1 DEF Enter, Respond, Usable
    <2>2. CASE \E c \in Clients : Write(c)
        BY <2>2 DEF Write, Respond
    <2>3. CASE \E c \in Clients : Call(c) \/ Sync(c) \/ Reply(c)
        BY <2>3 DEF Call, Sync, Reply, Respond
    <2>4. CASE Crash
        BY <2>4 DEF Crash
    <2>5. CASE SelfRead \/ SelfWrite
        BY <2>5 DEF SelfRead, SelfWrite, threads
    <2>6. CASE Tamper
        BY <2>6 DEF Tamper, threads
    <2> QED
        BY <2>1, <2>2, <2>3, <2>4, <2>5, <2>6 DEF Next, Web
<1> QED
    BY <1>1, IInvHolds, PTL DEF Spec, BadIsKept

-----------------------------------------------------------------------------
(* Without other writers: no lost update, and an atomic registry.          *)

LEMMA AloneInit == Init => FileIsSeen
    BY DEF Init, FileIsSeen

LEMMA AloneNext ==
    ASSUME ~Installer, ~Tampering, IInv, FileIsSeen, [Next]_vars
    PROVE  FileIsSeen'
<1> USE DEF IInv
<1>1. CASE \E c \in Clients : Enter(c)
    <2> PICK c \in Clients : Enter(c)
        BY <1>1
    <2> QED
        BY DEF Enter, Respond, FileIsSeen, TypeOK
<1>2. CASE \E c \in Clients : Write(c)
    <2> PICK c \in Clients : Write(c)
        BY <1>2
    <2>1. \A d \in Clients : d # c => pc[d] # "write"
        BY DEF Write, Exclusive
    <2> QED
        BY <2>1 DEF Write, Respond, FileIsSeen, TypeOK
<1>3. CASE \E c \in Clients : Call(c) \/ Sync(c) \/ Reply(c)
    BY <1>3 DEF Call, Sync, Reply, Respond, FileIsSeen, TypeOK
<1>4. CASE Crash \/ UNCHANGED vars
    BY <1>4 DEF Crash, FileIsSeen, vars, threads
<1>5. ~SelfRead /\ ~SelfWrite /\ ~Tamper
    BY DEF SelfRead, SelfWrite, Tamper, FileIsSeen
<1> QED
    BY <1>1, <1>2, <1>3, <1>4, <1>5 DEF Next, Web

(* Every write of an endpoint applies its request to the current list.     *)
THEOREM WritesAreAtomic ==
    ASSUME ~Installer, ~Tampering
    PROVE  Spec => NoLostUpdate
<1>1. IInv /\ FileIsSeen /\ [Next]_vars =>
        [\A c \in Clients :
            pc[c] = "write" /\ pc'[c] = "sync" => file' = Effect(req[c], file)]_vars
    <2> SUFFICES ASSUME IInv, FileIsSeen, Next, NEW c \in Clients,
                        pc[c] = "write", pc'[c] = "sync"
                 PROVE  file' = Effect(req[c], file)
        OBVIOUS
    <2>1. Write(c)
        <3>1. ASSUME NEW d \in Clients, d # c
              PROVE  ~(Call(d) \/ Enter(d) \/ Write(d) \/ Sync(d) \/ Reply(d))
            BY <3>1 DEF Call, Enter, Write, Sync, Reply, Respond, IInv, TypeOK
        <3>2. ~Crash
            BY DEF Crash
        <3>3. ~SelfRead /\ ~SelfWrite /\ ~Tamper
            BY DEF SelfRead, SelfWrite, Tamper, FileIsSeen
        <3>4. ~Call(c) /\ ~Enter(c) /\ ~Sync(c) /\ ~Reply(c)
            BY DEF Call, Enter, Sync, Reply
        <3> QED
            BY <3>1, <3>2, <3>3, <3>4 DEF Next, Web
    <2>2. pc'[c] # "reply"
        OBVIOUS
    <2>3. file' = Effect(req[c], seen[c])
        BY <2>1, <2>2 DEF Write, Respond, IInv, TypeOK
    <2> QED
        BY <2>3 DEF FileIsSeen
<1>2. IInv /\ FileIsSeen /\ [Next]_vars => FileIsSeen'
    BY AloneNext
<1> QED
    BY <1>1, <1>2, AloneInit, IInvHolds, PTL DEF Spec, NoLostUpdate

LEMMA SameOperators ==
    ASSUME NEW r, NEW l
    PROVE  /\ Registry!Refused(r, l) <=> Refused(r, l)
           /\ Registry!Effect(r, l) = Effect(r, l)
           /\ Registry!Usable(l) <=> Usable(l)
           /\ Registry!ValidList(l) <=> ValidList(l)
           /\ Registry!Request = Request
<1>1. Registry!Request = Request /\ (Registry!Usable(l) <=> Usable(l))
    BY Zenon DEF Registry!Request, Request, Registry!Usable, Usable
<1>2. \A p, q : Registry!Conflict(p, q) <=> Conflict(p, q)
    BY Zenon DEF Registry!Conflict, Conflict
<1>3. \A ip : Registry!At(ip, l) = At(ip, l)
    BY Zenon DEF Registry!At, At
<1>3a. Registry!Cardinality(l) = Cardinality(l)
    BY Zenon DEF Registry!Cardinality, Cardinality
<1>4. Registry!ValidList(l) <=> ValidList(l)
    BY Zenon, <1>2, <1>3a DEF Registry!ValidList, ValidList
<1>5. Registry!Effect(r, l) = Effect(r, l)
    BY Zenon, <1>3 DEF Registry!Effect, Effect
<1>6. Registry!Refused(r, l) <=> Refused(r, l)
    BY Zenon, <1>2, <1>3, <1>3a DEF Registry!Refused, Refused
<1> QED
    BY <1>1, <1>4, <1>5, <1>6

(* One thread's phase moves while the others keep theirs.                  *)
LEMMA MoveOne ==
    ASSUME NEW c \in Clients, NEW from, NEW to, Phase(c) = from,
           \A d \in Clients : Phase(d)' = IF d = c THEN to ELSE Phase(d)
    PROVE  Registry!Move(c, from, to)
    BY DEF Registry!Move

(* The endpoints implement the registry: each request is atomic to its     *)
(* client, and a failing one leaves the list either way.                   *)
THEOREM Implementation ==
    ASSUME ~Installer, ~Tampering
    PROVE  Spec => ImplementsRegistry
<1>1. Init => Registry!Init
    BY SameOperators DEF Init, Registry!Init, Phase, Lists, NoRequest
<1>2. IInv /\ FileIsSeen /\ [Next]_vars => [Registry!Next]_(Registry!vars)
    <2> SUFFICES ASSUME IInv, FileIsSeen, [Next]_vars
                 PROVE  Registry!Next \/ UNCHANGED Registry!vars
        OBVIOUS
    <2> USE DEF IInv
    <2>1. CASE \E c \in Clients : Call(c)
        <3> PICK c \in Clients : Call(c)
            BY <2>1
        <3>1. Phase(c) = "idle" /\ \A d \in Clients : Phase(d)' = IF d = c THEN "called" ELSE Phase(d)
            BY DEF Call, Phase, TypeOK
        <3>2. Registry!Move(c, "idle", "called")
            BY <3>1, MoveOne
        <3>3. Registry!Call(c)
            BY <3>2, SameOperators DEF Registry!Call, Call
        <3> QED
            BY <3>3 DEF Registry!Next
    <2>2. CASE \E c \in Clients : Enter(c)
        <3> PICK c \in Clients : Enter(c)
            BY <2>2
        <3>0. pc[c] = "enter" /\ Phase(c) = "called" /\ UNCHANGED <<file, req>>
            BY DEF Enter, Phase
        <3>1. CASE ~Usable(file) /\ Respond(c, "error")
            <4>1. \A d \in Clients : Phase(d)' = IF d = c THEN "failed" ELSE Phase(d)
                BY <3>1, <3>0 DEF Respond, Phase, TypeOK
            <4>2. Registry!Fail(c)
                BY <4>1, <3>0, MoveOne DEF Registry!Fail
            <4> QED
                BY <4>2 DEF Registry!Next
        <3>2. CASE Usable(file) /\ Refused(req[c], file) /\ Respond(c, "refused")
            <4>1. \A d \in Clients : Phase(d)' = IF d = c THEN "refused" ELSE Phase(d)
                BY <3>2, <3>0 DEF Respond, Phase, TypeOK
            <4>2. Registry!Refuse(c)
                BY <4>1, <3>0, <3>2, MoveOne, SameOperators DEF Registry!Refuse
            <4> QED
                BY <4>2 DEF Registry!Next
        <3>3. CASE Usable(file) /\ req[c].op = "get" /\ Respond(c, "ok")
            <4>1. \A d \in Clients : Phase(d)' = IF d = c THEN "taken" ELSE Phase(d)
                BY <3>3, <3>0 DEF Respond, Phase, TypeOK
            <4>2. ~Refused(req[c], file) /\ Effect(req[c], file) = file
                BY <3>3 DEF Refused, Effect
            <4>3. Registry!Take(c)
                BY <4>1, <4>2, <3>0, <3>3, MoveOne, SameOperators DEF Registry!Take
            <4> QED
                BY <4>3 DEF Registry!Next
        <3>4. CASE pc' = [pc EXCEPT ![c] = "write"] /\ UNCHANGED res
            <4>1. \A d \in Clients : Phase(d)' = Phase(d)
                BY <3>4, <3>0 DEF Phase, TypeOK
            <4> QED
                BY <4>1, <3>0 DEF Registry!vars
        <3> QED
            BY <3>1, <3>2, <3>3, <3>4 DEF Enter
    <2>3. CASE \E c \in Clients : Write(c)
        <3> PICK c \in Clients : Write(c)
            BY <2>3
        <3>0. /\ pc[c] = "write" /\ Phase(c) = "called" /\ req' = req
              /\ file = seen[c] /\ Usable(file) /\ ~Refused(req[c], file)
            BY DEF Write, Phase, FileIsSeen, HandsValid
        <3>1. CASE file' = Effect(req[c], seen[c]) /\ pc' = [pc EXCEPT ![c] = "sync"] /\ res' = res
            <4>1. \A d \in Clients : Phase(d)' = IF d = c THEN "taken" ELSE Phase(d)
                BY <3>1 DEF Phase, TypeOK
            <4>2. Registry!Take(c)
                BY <4>1, <3>0, <3>1, MoveOne, SameOperators DEF Registry!Take
            <4> QED
                BY <4>2 DEF Registry!Next
        <3>2. CASE Respond(c, "error") /\ UNCHANGED file
            <4>1. \A d \in Clients : Phase(d)' = IF d = c THEN "failed" ELSE Phase(d)
                BY <3>2, <3>0 DEF Respond, Phase, TypeOK
            <4>2. Registry!Fail(c)
                BY <4>1, <3>0, <3>2, MoveOne DEF Registry!Fail
            <4> QED
                BY <4>2 DEF Registry!Next
        <3> QED
            BY <3>1, <3>2 DEF Write
    <2>4. CASE \E c \in Clients : Sync(c)
        <3> PICK c \in Clients : Sync(c)
            BY <2>4
        <3>0. pc[c] = "sync" /\ Phase(c) = "taken" /\ UNCHANGED <<file, req>>
            BY DEF Sync, Phase
        <3>1. CASE Respond(c, "ok")
            <4>1. \A d \in Clients : Phase(d)' = Phase(d)
                BY <3>1, <3>0 DEF Respond, Phase, TypeOK
            <4> QED
                BY <4>1, <3>0 DEF Registry!vars
        <3>2. CASE Respond(c, "error")
            <4>1. \A d \in Clients : Phase(d)' = IF d = c THEN "failed" ELSE Phase(d)
                BY <3>2, <3>0 DEF Respond, Phase, TypeOK
            <4>2. Registry!Fail(c)
                BY <4>1, <3>0, MoveOne DEF Registry!Fail
            <4> QED
                BY <4>2 DEF Registry!Next
        <3> QED
            BY <3>1, <3>2 DEF Sync
    <2>5. CASE \E c \in Clients : Reply(c)
        <3> PICK c \in Clients : Reply(c)
            BY <2>5
        <3>1. /\ Phase(c) \in {"taken", "refused", "failed"}
              /\ \A d \in Clients : Phase(d)' = IF d = c THEN "idle" ELSE Phase(d)
            BY DEF Reply, Phase, TypeOK
        <3>2. \E p \in {"taken", "refused", "failed"} : Registry!Move(c, p, "idle")
            BY <3>1, MoveOne
        <3>3. Registry!Answer(c)
            BY <3>2 DEF Registry!Answer, Reply, NoRequest
        <3> QED
            BY <3>3 DEF Registry!Next
    <2>6. CASE Crash
        <3>1. \A d \in Clients : Phase(d)' = "idle"
            BY <2>6 DEF Crash, Phase
        <3>2. Registry!Crash
            BY <3>1, <2>6 DEF Registry!Crash, Crash, NoRequest
        <3> QED
            BY <3>2 DEF Registry!Next
    <2>7. CASE UNCHANGED vars
        BY <2>7 DEF vars, threads, Registry!vars, Phase
    <2>8. ~SelfRead /\ ~SelfWrite /\ ~Tamper
        BY DEF SelfRead, SelfWrite, Tamper, FileIsSeen
    <2> QED
        BY <2>1, <2>2, <2>3, <2>4, <2>5, <2>6, <2>7, <2>8 DEF Next, Web
<1>3. IInv /\ FileIsSeen /\ [Next]_vars => FileIsSeen'
    BY AloneNext
<1> QED
    BY <1>1, <1>2, <1>3, AloneInit, IInvHolds, PTL DEF Spec, ImplementsRegistry, Registry!Spec
=============================================================================
