------------------------- MODULE RateLimiterProofs -------------------------
(***************************************************************************)
(* Theorems about RateLimiter, for every number of threads and keys, all   *)
(* limits and windows, and every pause.                                    *)
(***************************************************************************)
EXTENDS RateLimiter, TLAPS, SequenceTheorems, FiniteSetTheorems, WellFoundedInduction

-----------------------------------------------------------------------------
(* Deques.                                                                 *)

(* A set of numbers that is not empty has a least one.                     *)
LEMMA Least ==
    ASSUME NEW S, S \subseteq Nat, S # {}
    PROVE  \E x \in S : \A y \in S : x <= y
<1> DEFINE R == OpToRel(<, Nat)
<1>1. IsWellFoundedOn(R, Nat)
    BY NatLessThanWellFounded
<1>2. PICK x \in S : \A y \in S : <<y, x>> \notin R
    <2> HIDE DEF R
    <2> QED
        BY <1>1, WFMin
<1>3. \A y \in S : y < x => <<y, x>> \in R
    BY DEF OpToRel
<1>4. \A y \in S : ~(y < x)
    BY <1>2, <1>3, Zenon
<1>5. \A y \in S : y \in Nat
    OBVIOUS
<1>6. \A y \in S : x <= y
    BY <1>4, <1>5
<1> QED
    BY <1>6, Zenon

(* popleft drops stamps older than the cutoff from the head, no other, and *)
(* leaves a deque that starts with one that is not.                        *)
LEMMA PoppedEnd ==
    ASSUME NEW d \in Seq(Times), NEW cutoff \in Int
    PROVE  /\ Popped(d, cutoff) \in Seq(Times)
           /\ EndOf(Popped(d, cutoff), d)
           /\ \A i \in 1 .. (Len(d) - Len(Popped(d, cutoff))) : d[i] < cutoff
           /\ Len(Popped(d, cutoff)) > 0 => Popped(d, cutoff)[1] >= cutoff
<1> DEFINE live == {i \in DOMAIN d : d[i] >= cutoff}
<1> DEFINE first == CHOOSE i \in live : \A j \in live : i <= j
<1>1. /\ Len(d) \in Nat /\ DOMAIN d = 1 .. Len(d)
      /\ \A i \in 1 .. Len(d) : d[i] \in Times /\ d[i] \in Nat
    BY LenProperties, ElementOfSeq, NumbersAssumption DEF Times
<1>2. CASE live = {}
    <2>1. Popped(d, cutoff) = <<>>
        BY <1>2 DEF Popped
    <2>2. <<>> \in Seq(Times) /\ Len(<<>>) = 0
        BY EmptySeq
    <2>3. \A i \in 1 .. Len(d) : d[i] < cutoff
        BY <1>1, <1>2
    <2> QED
        BY <1>1, <2>1, <2>2, <2>3 DEF EndOf
<1>3. CASE live # {}
    <2>1. live \subseteq Nat
        BY <1>1
    <2>2. \E i \in live : \A j \in live : i <= j
        <3> HIDE DEF live
        <3> QED
            BY <1>3, <2>1, Least
    <2>3. first \in live /\ \A j \in live : first <= j
        <3> HIDE DEF live
        <3> QED
            BY <2>2
    <2>4. Popped(d, cutoff) = SubSeq(d, first, Len(d))
        BY <1>3 DEF Popped
    <2>5. first \in 1 .. Len(d) /\ d[first] >= cutoff
        BY <1>1, <2>3
    <2>6. \A i \in 1 .. Len(d) : i < first => d[i] < cutoff
        <3> SUFFICES ASSUME NEW i \in 1 .. Len(d), i < first, d[i] >= cutoff PROVE FALSE
            BY <1>1
        <3>1. i \in live
            BY <1>1
        <3> QED
            BY <1>1, <2>3, <2>5, <3>1
    <2> DEFINE p == SubSeq(d, first, Len(d))
    <2> HIDE DEF first, live
    <2>7. /\ p \in Seq(Times)
          /\ Len(p) = Len(d) - first + 1
          /\ \A i \in 1 .. Len(d) - first + 1 : p[i] = d[first + i - 1]
        <3>1. \A i \in first .. Len(d) : d[i] \in Times
            BY <1>1, <2>5
        <3>2. first \in Int /\ Len(d) \in Int /\ first <= Len(d)
            BY <1>1, <2>5
        <3> QED
            BY <3>1, <3>2, SubSeqProperties
    <2> HIDE DEF p
    <2>8. EndOf(p, d)
        BY <1>1, <2>5, <2>7 DEF EndOf
    <2>9. p[1] >= cutoff
        BY <1>1, <2>5, <2>7
    <2>10. Popped(d, cutoff) = p
        BY <2>4 DEF p
    <2> QED
        BY <1>1, <2>5, <2>6, <2>7, <2>8, <2>9, <2>10
<1> QED
    BY <1>2, <1>3

(* The end of an end is an end.                                            *)
LEMMA EndOfEnd ==
    ASSUME NEW c \in Seq(Times), NEW d \in Seq(Times), NEW p \in Seq(Times),
           EndOf(c, d), EndOf(d, p)
    PROVE  EndOf(c, p)
<1>1. Len(c) \in Nat /\ Len(d) \in Nat /\ Len(p) \in Nat
    BY LenProperties
<1>2. ASSUME NEW i \in 1 .. Len(c) PROVE c[i] = p[Len(p) - Len(c) + i]
    <2>1. c[i] = d[Len(d) - Len(c) + i]
        BY <1>2 DEF EndOf
    <2>2. Len(d) - Len(c) + i \in 1 .. Len(d)
        BY <1>1, <1>2 DEF EndOf
    <2>3. d[Len(d) - Len(c) + i] = p[Len(p) - Len(d) + (Len(d) - Len(c) + i)]
        BY <2>2 DEF EndOf
    <2>4. Len(p) - Len(d) + (Len(d) - Len(c) + i) = Len(p) - Len(c) + i
        BY <1>1, <1>2
    <2> QED
        BY <2>1, <2>3, <2>4
<1> QED
    BY <1>1, <1>2 DEF EndOf

LEMMA EndAppended ==
    ASSUME NEW d \in Seq(Times), NEW p \in Seq(Times), NEW n \in Times, EndOf(d, p)
    PROVE  EndOf(Append(d, n), Append(p, n))
<1>1. Len(d) \in Nat /\ Len(p) \in Nat /\ Len(d) <= Len(p)
    BY LenProperties DEF EndOf
<1>2. Len(Append(d, n)) = Len(d) + 1 /\ Len(Append(p, n)) = Len(p) + 1
    BY AppendProperties
<1>3. ASSUME NEW i \in 1 .. (Len(d) + 1)
      PROVE  Append(d, n)[i] = Append(p, n)[Len(p) - Len(d) + i]
    <2>1. CASE i = Len(d) + 1
        <3>1. Len(p) - Len(d) + i = Len(p) + 1
            BY <1>1, <2>1
        <3> QED
            BY <2>1, <3>1, AppendProperties
    <2>2. CASE i \in 1 .. Len(d)
        <3>1. Len(p) - Len(d) + i \in 1 .. Len(p)
            BY <1>1, <2>2
        <3>2. Append(d, n)[i] = d[i]
            BY <2>2, AppendProperties
        <3>3. Append(p, n)[Len(p) - Len(d) + i] = p[Len(p) - Len(d) + i]
            BY <3>1, AppendProperties
        <3> QED
            BY <2>2, <3>2, <3>3 DEF EndOf
    <2>3. i = Len(d) + 1 \/ i \in 1 .. Len(d)
        BY <1>1, <1>3
    <2> QED
        BY <2>1, <2>2, <2>3, Zenon
<1>4. Len(Append(p, n)) - Len(Append(d, n)) = Len(p) - Len(d)
    BY <1>1, <1>2
<1>5. Len(Append(d, n)) <= Len(Append(p, n))
    BY <1>1, <1>2
<1> QED
    BY <1>2, <1>3, <1>4, <1>5 DEF EndOf

LEMMA Stamps ==
    ASSUME NEW d \in Seq(Times)
    PROVE  /\ Len(d) \in Nat
           /\ DOMAIN d = 1 .. Len(d)
           /\ \A i \in 1 .. Len(d) : d[i] \in Nat
           /\ d # <<>> => Len(d) > 0
<1>1. \A i \in 1 .. Len(d) : d[i] \in Times
    BY ElementOfSeq
<1>2. d # <<>> => Len(d) \in Nat \ {0}
    BY EmptySeq
<1> QED
    BY <1>1, <1>2, LenProperties, NumbersAssumption DEF Times

-----------------------------------------------------------------------------
(* What a call makes of one deque d of a key k with the stamps p.          *)

(* Time goes on, and more keys are dropped: what is gone has gone for the  *)
(* same reason.                                                            *)
LEMMA GoneStays ==
    ASSUME NEW k \in Keys, NEW d \in Seq(Times), NEW p \in Seq(Times),
           NEW m \in Nat, NEW n \in Nat, m <= n,
           NEW v \in SUBSET Nat, NEW w \in SUBSET Nat, v \subseteq w,
           Gone(k, d, p, m, v)
    PROVE  Gone(k, d, p, n, w)
<1> SUFFICES ASSUME NEW i \in 1 .. (Len(p) - Len(d))
             PROVE  \/ p[i] + Window[k] < n
                    \/ \E x \in w : p[i] + x < n + Pause
    BY DEF Gone
<1>1. p[i] \in Nat
    BY Stamps
<1>2. Window[k] \in Nat /\ Pause \in Nat
    BY LimitsAssumption, NumbersAssumption
<1>3. CASE p[i] + Window[k] < m
    BY <1>1, <1>2, <1>3
<1>4. CASE \E x \in v : p[i] + x < m + Pause
    <2>1. PICK x \in v : p[i] + x < m + Pause
        BY <1>4
    <2>2. x \in w /\ x \in Nat
        OBVIOUS
    <2>3. p[i] + x < n + Pause
        BY <1>1, <1>2, <2>1, <2>2
    <2> QED
        BY <2>2, <2>3
<1> QED
    BY <1>3, <1>4 DEF Gone

LEMMA OrderStays ==
    ASSUME NEW p \in Seq(Times), NEW m \in Nat, NEW n \in Nat, m <= n, InOrder(p, m)
    PROVE  InOrder(p, n)
<1> SUFFICES ASSUME NEW i \in 1 .. Len(p), NEW j \in 1 .. Len(p)
             PROVE  p[i] <= n /\ (i < j => p[i] <= p[j] + Pause)
    BY DEF InOrder
<1>1. p[i] \in Nat
    BY Stamps
<1>2. p[i] <= m /\ (i < j => p[i] <= p[j] + Pause)
    BY DEF InOrder
<1> QED
    BY <1>1, <1>2

(* Old stamps at the head of the deque are dropped.                        *)
LEMMA GonePopped ==
    ASSUME NEW k \in Keys, NEW d \in Seq(Times), NEW p \in Seq(Times),
           NEW m \in Nat, NEW n \in Nat, n <= m, NEW w \in SUBSET Nat,
           EndOf(d, p), Gone(k, d, p, m, w)
    PROVE  Gone(k, Popped(d, n - Window[k]), p, m, w)
<1> DEFINE e == Popped(d, n - Window[k])
<1>1. Window[k] \in Nat /\ n - Window[k] \in Int
    BY LimitsAssumption
<1>2. /\ e \in Seq(Times) /\ EndOf(e, d)
      /\ \A i \in 1 .. (Len(d) - Len(e)) : d[i] < n - Window[k]
    BY <1>1, PoppedEnd
<1> HIDE DEF e
<1> SUFFICES ASSUME NEW i \in 1 .. (Len(p) - Len(e))
             PROVE  \/ p[i] + Window[k] < m
                    \/ \E x \in w : p[i] + x < m + Pause
    BY DEF Gone, e
<1>3. Len(d) \in Nat /\ Len(p) \in Nat /\ Len(e) \in Nat /\ Len(d) <= Len(p)
    BY <1>2, Stamps DEF EndOf
<1>4. CASE i \in 1 .. (Len(p) - Len(d))
    BY <1>4 DEF Gone
<1>5. CASE i > Len(p) - Len(d)
    <2> DEFINE h == i - (Len(p) - Len(d))
    <2>1. h \in 1 .. Len(d) /\ h \in 1 .. (Len(d) - Len(e)) /\ Len(p) - Len(d) + h = i
        BY <1>3, <1>5
    <2> HIDE DEF h
    <2>2. d[h] = p[i]
        BY <2>1 DEF EndOf
    <2>3. d[h] < n - Window[k] /\ d[h] \in Nat
        BY <1>2, <2>1, Stamps
    <2> QED
        BY <1>1, <2>2, <2>3
<1> QED
    BY <1>3, <1>4, <1>5

(* A stamp is appended.                                                    *)
LEMMA GoneAppended ==
    ASSUME NEW k \in Keys, NEW d \in Seq(Times), NEW p \in Seq(Times), NEW s \in Times,
           NEW m \in Nat, NEW w \in SUBSET Nat, EndOf(d, p), Gone(k, d, p, m, w)
    PROVE  Gone(k, Append(d, s), Append(p, s), m, w)
<1>1. Len(d) \in Nat /\ Len(p) \in Nat
    BY Stamps
<1>2. Len(Append(d, s)) = Len(d) + 1 /\ Len(Append(p, s)) = Len(p) + 1
    BY AppendProperties
<1>3. Len(Append(p, s)) - Len(Append(d, s)) = Len(p) - Len(d)
    BY <1>1, <1>2
<1>4. \A i \in 1 .. (Len(p) - Len(d)) : i \in 1 .. Len(p)
    BY <1>1
<1>5. \A i \in 1 .. (Len(p) - Len(d)) : Append(p, s)[i] = p[i]
    BY <1>4, AppendProperties
<1> QED
    BY <1>3, <1>5 DEF Gone

LEMMA OrderAppended ==
    ASSUME NEW p \in Seq(Times), NEW s \in Times, NEW m \in Nat, s <= m, m <= s + Pause,
           InOrder(p, m)
    PROVE  InOrder(Append(p, s), m)
<1>1. Len(p) \in Nat /\ s \in Nat /\ Pause \in Nat
    BY Stamps, NumbersAssumption DEF Times
<1>2. /\ Len(Append(p, s)) = Len(p) + 1 /\ Append(p, s)[Len(p) + 1] = s
      /\ \A i \in 1 .. Len(p) : Append(p, s)[i] = p[i]
    BY AppendProperties
<1>3. \A i \in 1 .. Len(p) : p[i] \in Nat
    BY Stamps
<1> SUFFICES ASSUME NEW i \in 1 .. (Len(p) + 1), NEW j \in 1 .. (Len(p) + 1)
             PROVE  /\ Append(p, s)[i] <= m
                    /\ i < j => Append(p, s)[i] <= Append(p, s)[j] + Pause
    BY <1>2 DEF InOrder
<1>4. CASE i = Len(p) + 1
    BY <1>1, <1>2, <1>4
<1>5. CASE i \in 1 .. Len(p)
    <2>1. Append(p, s)[i] = p[i] /\ p[i] \in Nat /\ p[i] <= m
        BY <1>2, <1>3, <1>5 DEF InOrder
    <2>2. CASE j = Len(p) + 1
        BY <1>1, <1>2, <2>1, <2>2
    <2>3. CASE j \in 1 .. Len(p)
        <3>1. Append(p, s)[j] = p[j]
            BY <1>2, <2>3
        <3>2. i < j => p[i] <= p[j] + Pause
            BY <1>5, <2>3 DEF InOrder
        <3> QED
            BY <2>1, <3>1, <3>2
    <2> QED
        BY <1>1, <2>2, <2>3
<1> QED
    BY <1>1, <1>4, <1>5

(* A caller whose window is x drops the whole deque.                       *)
LEMMA GonePurged ==
    ASSUME NEW k \in Keys, NEW d \in Seq(Times), NEW p \in Seq(Times),
           NEW m \in Nat, NEW n \in Nat, n <= m, NEW w \in SUBSET Nat, NEW x \in w,
           EndOf(d, p), Gone(k, d, p, m, w), InOrder(p, m), Expired(d, n - x)
    PROVE  EndOf(<<>>, p) /\ Gone(k, <<>>, p, m, w)
<1>1. /\ Len(d) \in Nat /\ Len(p) \in Nat /\ Len(d) <= Len(p)
      /\ \A i \in 1 .. Len(p) : p[i] \in Nat
      /\ Pause \in Nat /\ x \in Nat
    BY Stamps, NumbersAssumption DEF EndOf
<1>2. Len(d) > 0 /\ d[Len(d)] < n - x
    BY Stamps DEF Expired, Last
<1>3. d[Len(d)] = p[Len(p)]
    <2>1. Len(d) \in 1 .. Len(d) /\ Len(p) - Len(d) + Len(d) = Len(p)
        BY <1>1, <1>2
    <2> QED
        BY <2>1 DEF EndOf
<1>4. ASSUME NEW i \in 1 .. Len(p) PROVE p[i] + x < m + Pause
    <2>1. p[i] <= p[Len(p)] + Pause
        <3>1. Len(p) \in 1 .. Len(p)
            BY <1>1, <1>4
        <3>2. CASE i = Len(p)
            BY <1>1, <3>1, <3>2
        <3>3. CASE i < Len(p)
            BY <1>4, <3>1, <3>3 DEF InOrder
        <3> QED
            BY <1>1, <1>4, <3>2, <3>3
    <2>2. p[Len(p)] \in Nat /\ p[i] \in Nat
        BY <1>1, <1>4
    <2> QED
        BY <1>1, <1>2, <1>3, <2>1, <2>2
<1>5. Len(<<>>) = 0
    BY EmptySeq
<1>6. EndOf(<<>>, p)
    BY <1>1, <1>5 DEF EndOf
<1>7. Gone(k, <<>>, p, m, w)
    BY <1>1, <1>4, <1>5 DEF Gone
<1> QED
    BY <1>6, <1>7

-----------------------------------------------------------------------------
(* A call.                                                                 *)

LEMMA CallFacts ==
    ASSUME IInv, NEW t \in Threads, calls[t] # Idle
    PROVE  /\ calls[t].key \in Keys
           /\ calls[t].now \in Times /\ calls[t].now \in Nat /\ now \in Nat
           /\ calls[t].now <= now /\ now <= calls[t].now + Pause
           /\ purges \in SUBSET Nat
           /\ Window[calls[t].key] \in Nat /\ Window[calls[t].key] > 0
           /\ Limit[calls[t].key] \in Nat /\ Limit[calls[t].key] > 0
<1>1. /\ calls[t].key \in Keys
      /\ calls[t].now <= now /\ now <= calls[t].now + Pause
    BY DEF IInv, InTime
<1>2. calls[t].now \in Times /\ now \in Times
    BY DEF IInv, TypeOK
<1>3. \A k \in Keys : Window[k] \in Nat \ {0} /\ Limit[k] \in Nat \ {0}
    BY LimitsAssumption
<1>4. purges \in SUBSET Nat
    BY <1>3 DEF IInv, TypeOK
<1> QED
    BY <1>1, <1>2, <1>3, <1>4, NumbersAssumption DEF Times

LEMMA EventsFacts ==
    ASSUME IInv, NEW t \in Threads, calls[t] # Idle
    PROVE  LET k == calls[t].key
           IN  /\ Events(t) \in Seq(Times)
               /\ EndOf(Events(t), requests[k])
               /\ EndOf(Events(t), passed[k])
               /\ Gone(k, Events(t), passed[k], now, purges)
               /\ Len(Events(t)) > 0 => Events(t)[1] >= Cutoff(t)
<1> DEFINE k == calls[t].key
<1>1. /\ k \in Keys /\ calls[t].now \in Nat /\ now \in Nat /\ calls[t].now <= now
      /\ purges \in SUBSET Nat /\ Window[k] \in Nat
    BY CallFacts
<1>2. requests[k] \in Seq(Times) /\ passed[k] \in Seq(Times)
    BY <1>1 DEF IInv, TypeOK
<1>3. EndOf(requests[k], passed[k]) /\ Gone(k, requests[k], passed[k], now, purges)
    BY <1>1 DEF IInv, DequesKept
<1>4. Cutoff(t) = calls[t].now - Window[k] /\ Cutoff(t) \in Int
    BY <1>1 DEF Cutoff
<1>5. Events(t) = Popped(requests[k], Cutoff(t))
    BY DEF Events
<1> HIDE DEF k
<1>6. /\ Events(t) \in Seq(Times) /\ EndOf(Events(t), requests[k])
      /\ Len(Events(t)) > 0 => Events(t)[1] >= Cutoff(t)
    BY <1>2, <1>4, <1>5, PoppedEnd
<1>7. EndOf(Events(t), passed[k])
    BY <1>2, <1>3, <1>6, EndOfEnd
<1>8. Gone(k, Events(t), passed[k], now, purges)
    BY <1>1, <1>2, <1>3, <1>4, <1>5, GonePopped
<1> QED
    BY <1>6, <1>7, <1>8 DEF k

(* What Allow makes of the deques.                                         *)
LEMMA AllowFacts ==
    ASSUME IInv, NEW t \in Threads, Allow(t)
    PROVE  LET k == calls[t].key
               n == calls[t].now
           IN  /\ calls[t] # Idle
               /\ Len(Events(t)) < Limit[k]
               /\ requests' \in [Keys -> Seq(Times)]
               /\ requests'[k] = Append(Events(t), n)
               /\ \A j \in Keys \ {k} :
                     \/ requests'[j] = requests[j]
                     \/ /\ requests'[j] = <<>>
                        /\ Expired(requests[j], n - Window[k])
                        /\ Window[k] \in purges'
               /\ purges \subseteq purges' /\ purges' \subseteq purges \cup {Window[k]}
<1> DEFINE k == calls[t].key
<1> DEFINE n == calls[t].now
<1> DEFINE A == [requests EXCEPT ![k] = Append(Events(t), n)]
<1>1. /\ calls[t] # Idle
      /\ ~Full(k, Events(t))
      /\ requests' = Purged(A, Cutoff(t))
      /\ purges' = IF Cardinality(Known(A)) > MaxKeys THEN purges \cup {Window[k]} ELSE purges
    BY DEF Allow
<1>2. /\ k \in Keys /\ n \in Times /\ n \in Nat
      /\ Window[k] \in Nat /\ Window[k] > 0 /\ Limit[k] \in Nat
    BY <1>1, CallFacts
<1>3. Events(t) \in Seq(Times)
    BY <1>1, EventsFacts
<1>4. Len(Events(t)) < Limit[k]
    BY <1>1, <1>2, <1>3, Stamps DEF Full
<1>5. /\ Append(Events(t), n) \in Seq(Times)
      /\ Last(Append(Events(t), n)) = n
    BY <1>2, <1>3, AppendProperties DEF Last
<1>6. Cutoff(t) = n - Window[k]
    BY DEF Cutoff
<1>7. A \in [Keys -> Seq(Times)]
    BY <1>2, <1>5 DEF IInv, TypeOK
<1>8. A[k] = Append(Events(t), n) /\ \A j \in Keys \ {k} : A[j] = requests[j]
    BY <1>2 DEF IInv, TypeOK
<1>9. ~Expired(A[k], n - Window[k])
    <2> HIDE DEF A, k, n
    <2>1. ~(n < n - Window[k])
        BY <1>2
    <2> QED
        BY <1>5, <1>8, <2>1, Zenon DEF Expired
<1> HIDE DEF A, k, n
<1>10. CASE Cardinality(Known(A)) > MaxKeys
    <2>1. requests' = [j \in Keys |-> IF Expired(A[j], n - Window[k]) THEN <<>> ELSE A[j]]
        BY <1>1, <1>6, <1>10 DEF Purged
    <2>2. purges' = purges \cup {Window[k]}
        BY <1>1, <1>10
    <2>3. <<>> \in Seq(Times)
        BY EmptySeq
    <2>4. requests' \in [Keys -> Seq(Times)]
        BY <1>7, <2>1, <2>3
    <2>5. requests'[k] = Append(Events(t), n)
        BY <1>2, <1>8, <1>9, <2>1
    <2>6. \A j \in Keys \ {k} :
             \/ requests'[j] = requests[j]
             \/ requests'[j] = <<>> /\ Expired(requests[j], n - Window[k])
        BY <1>8, <2>1
    <2> QED
        BY <1>1, <1>4, <2>2, <2>4, <2>5, <2>6 DEF k, n
<1>11. CASE ~(Cardinality(Known(A)) > MaxKeys)
    <2>1. requests' = A /\ purges' = purges
        BY <1>1, <1>11 DEF Purged
    <2> QED
        BY <1>1, <1>4, <1>7, <1>8, <2>1 DEF k, n
<1> QED
    BY <1>10, <1>11

-----------------------------------------------------------------------------
(* Types.                                                                  *)

LEMMA TypeNext == IInv /\ [Next]_vars => TypeOK'
<1> SUFFICES ASSUME IInv, [Next]_vars PROVE TypeOK'
    OBVIOUS
<1>1. CASE UNCHANGED vars
    BY <1>1 DEF vars, IInv, TypeOK
<1>2. CASE Tick
    <2>1. now' \in Times
        BY <1>2, NumbersAssumption DEF Tick, IInv, TypeOK, Times
    <2> QED
        BY <1>2, <2>1 DEF Tick, IInv, TypeOK
<1>3. ASSUME NEW t \in Threads, Arrive(t) PROVE TypeOK'
    BY <1>3 DEF Arrive, IInv, TypeOK
<1>4. ASSUME NEW t \in Threads, Refuse(t) PROVE TypeOK'
    <2>1. calls[t] # Idle /\ calls[t].key \in Keys
        BY <1>4, CallFacts DEF Refuse
    <2>2. Events(t) \in Seq(Times) /\ EndOf(Events(t), requests[calls[t].key])
        BY <2>1, EventsFacts
    <2>3. Idle \in [key : Keys \cup {NoKey}, now : Times]
        BY NumbersAssumption DEF Idle, Times
    <2>4. calls' \in [Threads -> [key : Keys \cup {NoKey}, now : Times]]
        BY <1>4, <2>3 DEF Refuse, IInv, TypeOK
    <2>5. requests' \in [Keys -> Seq(Times)]
        BY <1>4, <2>1, <2>2 DEF Refuse, IInv, TypeOK
    <2>6. ASSUME NEW k \in Keys PROVE Len(requests'[k]) <= Limit[k]
        <3>1. Len(requests[k]) <= Limit[k]
            BY DEF IInv, TypeOK
        <3>2. CASE k = calls[t].key
            <4>1. requests'[k] = Events(t)
                BY <1>4, <3>2, <2>1 DEF Refuse, IInv, TypeOK
            <4>2. Len(Events(t)) <= Len(requests[k])
                BY <2>2, <3>2 DEF EndOf
            <4>3. requests[k] \in Seq(Times)
                BY DEF IInv, TypeOK
            <4>4. Len(Events(t)) \in Nat /\ Len(requests[k]) \in Nat
                BY <2>2, <4>3, Stamps
            <4>5. Limit[k] \in Nat
                BY LimitsAssumption
            <4> QED
                BY <3>1, <4>1, <4>2, <4>4, <4>5
        <3>3. CASE k # calls[t].key
            BY <1>4, <3>1, <3>3 DEF Refuse, IInv, TypeOK
        <3> QED
            BY <3>2, <3>3
    <2> QED
        BY <1>4, <2>4, <2>5, <2>6 DEF Refuse, IInv, TypeOK
<1>5. ASSUME NEW t \in Threads, Allow(t) PROVE TypeOK'
    <2> DEFINE k == calls[t].key
    <2>1. calls[t] # Idle
        BY <1>5 DEF Allow
    <2>2. k \in Keys /\ calls[t].now \in Times /\ Limit[k] \in Nat
        BY <2>1, CallFacts
    <2>3. /\ requests' \in [Keys -> Seq(Times)] /\ Len(Events(t)) < Limit[k]
          /\ requests'[k] = Append(Events(t), calls[t].now)
          /\ \A j \in Keys \ {k} : requests'[j] = requests[j] \/ requests'[j] = <<>>
          /\ purges' \subseteq purges \cup {Window[k]}
        BY <1>5, AllowFacts
    <2>4. Idle \in [key : Keys \cup {NoKey}, now : Times]
        BY NumbersAssumption DEF Idle, Times
    <2>5. calls' \in [Threads -> [key : Keys \cup {NoKey}, now : Times]]
        BY <1>5, <2>4 DEF Allow, IInv, TypeOK
    <2>6. passed' \in [Keys -> Seq(Times)]
        <3>1. passed[k] \in Seq(Times)
            BY <2>2 DEF IInv, TypeOK
        <3>2. Append(passed[k], calls[t].now) \in Seq(Times)
            BY <2>2, <3>1, AppendProperties
        <3>3. passed' = [passed EXCEPT ![k] = Append(passed[k], calls[t].now)]
            BY <1>5 DEF Allow
        <3> HIDE DEF k
        <3> QED
            BY <3>2, <3>3 DEF IInv, TypeOK
    <2>7. ASSUME NEW j \in Keys PROVE Len(requests'[j]) <= Limit[j]
        <3>1. Events(t) \in Seq(Times) /\ Len(Events(t)) \in Nat
            BY <2>1, EventsFacts, Stamps
        <3>2. CASE j = k
            <4>1. Len(requests'[j]) = Len(Events(t)) + 1
                BY <2>2, <2>3, <3>1, <3>2, AppendProperties
            <4> QED
                BY <2>2, <2>3, <3>1, <3>2, <4>1
        <3>3. CASE requests'[j] = requests[j]
            BY <3>3 DEF IInv, TypeOK
        <3>4. CASE requests'[j] = <<>>
            <4>1. Len(requests'[j]) = 0
                BY <3>4, EmptySeq
            <4>2. Limit[j] \in Nat
                BY LimitsAssumption
            <4> QED
                BY <4>1, <4>2
        <3> QED
            BY <2>3, <3>2, <3>3, <3>4
    <2>8. purges' \subseteq {Window[j] : j \in Keys}
        BY <2>2, <2>3 DEF IInv, TypeOK
    <2>9. now' \in Times
        BY <1>5 DEF Allow, IInv, TypeOK
    <2> QED
        BY <2>3, <2>5, <2>6, <2>7, <2>8, <2>9 DEF TypeOK
<1> QED
    BY <1>1, <1>2, <1>3, <1>4, <1>5 DEF Next

-----------------------------------------------------------------------------
(* Time, and the deques.                                                   *)

LEMMA InTimeNext == IInv /\ [Next]_vars => InTime'
<1> SUFFICES ASSUME IInv, [Next]_vars PROVE InTime'
    OBVIOUS
<1> USE DEF InTime
<1>1. CASE UNCHANGED vars
    BY <1>1 DEF vars, IInv
<1>2. CASE Tick
    <2> SUFFICES ASSUME NEW u \in Threads, calls[u] # Idle
                 PROVE  calls[u].key \in Keys /\ calls[u].now <= now + 1
                        /\ now + 1 <= calls[u].now + Pause
        BY <1>2 DEF Tick
    <2>1. now - calls[u].now < Pause
        BY <1>2 DEF Tick
    <2>2. calls[u].key \in Keys /\ calls[u].now \in Nat /\ now \in Nat /\ calls[u].now <= now
        BY CallFacts
    <2> QED
        BY <2>1, <2>2, NumbersAssumption
<1>3. ASSUME NEW t \in Threads, Arrive(t) PROVE InTime'
    <2>1. PICK k \in Keys : calls' = [calls EXCEPT ![t] = [key |-> k, now |-> now]]
        BY <1>3 DEF Arrive
    <2>2. now' = now /\ now \in Nat
        BY <1>3, NumbersAssumption DEF Arrive, IInv, TypeOK, Times
    <2>3. now <= now /\ now <= now + Pause
        BY <2>2, NumbersAssumption
    <2> QED
        BY <2>1, <2>2, <2>3 DEF IInv, TypeOK
<1>4. ASSUME NEW t \in Threads, Refuse(t) PROVE InTime'
    BY <1>4 DEF Refuse, IInv, TypeOK
<1>5. ASSUME NEW t \in Threads, Allow(t) PROVE InTime'
    BY <1>5 DEF Allow, IInv, TypeOK
<1> QED
    BY <1>1, <1>2, <1>3, <1>4, <1>5 DEF Next

LEMMA DequesNext == IInv /\ [Next]_vars => DequesKept'
<1> SUFFICES ASSUME IInv, [Next]_vars, NEW j \in Keys
             PROVE  /\ EndOf(requests'[j], passed'[j])
                    /\ Gone(j, requests'[j], passed'[j], now', purges')
                    /\ InOrder(passed'[j], now')
    BY DEF DequesKept
<1>1. /\ requests[j] \in Seq(Times) /\ passed[j] \in Seq(Times)
      /\ EndOf(requests[j], passed[j])
      /\ Gone(j, requests[j], passed[j], now, purges)
      /\ InOrder(passed[j], now)
    BY DEF IInv, TypeOK, DequesKept
<1>2. now \in Nat /\ purges \in SUBSET Nat
    <2>1. now \in Nat
        BY NumbersAssumption DEF IInv, TypeOK, Times
    <2>2. \A k \in Keys : Window[k] \in Nat
        BY LimitsAssumption
    <2>3. purges \in SUBSET Nat
        BY <2>2 DEF IInv, TypeOK
    <2> QED
        BY <2>1, <2>3
<1>3. CASE UNCHANGED <<now, requests, passed, purges>>
    BY <1>1, <1>3
<1>4. CASE Tick
    <2>1. /\ now' \in Nat /\ now <= now'
          /\ requests' = requests /\ passed' = passed /\ purges' = purges
        BY <1>2, <1>4 DEF Tick
    <2>2. Gone(j, requests[j], passed[j], now', purges)
        BY <1>1, <1>2, <2>1, GoneStays
    <2>3. InOrder(passed[j], now')
        BY <1>1, <1>2, <2>1, OrderStays
    <2> QED
        BY <1>1, <2>1, <2>2, <2>3
<1>5. ASSUME NEW t \in Threads, Refuse(t)
      PROVE  /\ EndOf(requests'[j], passed'[j])
             /\ Gone(j, requests'[j], passed'[j], now', purges')
             /\ InOrder(passed'[j], now')
    <2>1. /\ calls[t] # Idle /\ now' = now /\ passed' = passed /\ purges' = purges
          /\ requests' = [requests EXCEPT ![calls[t].key] = Events(t)]
        BY <1>5 DEF Refuse
    <2>2. CASE j = calls[t].key
        <3>1. requests'[j] = Events(t)
            BY <2>1, <2>2 DEF IInv, TypeOK
        <3>2. EndOf(Events(t), passed[j]) /\ Gone(j, Events(t), passed[j], now, purges)
            BY <2>1, <2>2, EventsFacts
        <3> QED
            BY <1>1, <2>1, <3>1, <3>2
    <2>3. CASE j # calls[t].key
        BY <1>1, <2>1, <2>3 DEF IInv, TypeOK
    <2> QED
        BY <2>2, <2>3
<1>6. ASSUME NEW t \in Threads, Allow(t)
      PROVE  /\ EndOf(requests'[j], passed'[j])
             /\ Gone(j, requests'[j], passed'[j], now', purges')
             /\ InOrder(passed'[j], now')
    <2> DEFINE k == calls[t].key
    <2> DEFINE n == calls[t].now
    <2>1. /\ calls[t] # Idle /\ now' = now
          /\ passed' = [passed EXCEPT ![k] = Append(passed[k], n)]
        BY <1>6 DEF Allow
    <2>2. /\ k \in Keys /\ n \in Times /\ n \in Nat /\ n <= now /\ now <= n + Pause
          /\ Window[k] \in Nat
        BY <2>1, CallFacts
    <2>3. /\ requests'[k] = Append(Events(t), n)
          /\ \A i \in Keys \ {k} :
                \/ requests'[i] = requests[i]
                \/ /\ requests'[i] = <<>>
                   /\ Expired(requests[i], n - Window[k])
                   /\ Window[k] \in purges'
          /\ purges \subseteq purges' /\ purges' \subseteq purges \cup {Window[k]}
        BY <1>6, AllowFacts
    <2>4. purges' \in SUBSET Nat
        BY <1>2, <2>2, <2>3
    <2>5. now <= now
        BY <1>2
    <2>6. CASE j = k
        <3>1. passed'[j] = Append(passed[j], n) /\ requests'[j] = Append(Events(t), n)
            BY <2>1, <2>3, <2>6 DEF IInv, TypeOK
        <3>2. /\ Events(t) \in Seq(Times) /\ EndOf(Events(t), passed[j])
              /\ Gone(j, Events(t), passed[j], now, purges)
            BY <2>1, <2>6, EventsFacts
        <3> HIDE DEF k, n
        <3>3. Gone(j, Events(t), passed[j], now, purges')
            BY <1>1, <1>2, <2>3, <2>4, <2>5, <3>2, GoneStays
        <3>4. Gone(j, Append(Events(t), n), Append(passed[j], n), now, purges')
            BY <1>1, <1>2, <2>2, <2>4, <3>2, <3>3, GoneAppended
        <3>5. EndOf(Append(Events(t), n), Append(passed[j], n))
            BY <1>1, <2>2, <3>2, EndAppended
        <3>6. InOrder(Append(passed[j], n), now)
            BY <1>1, <1>2, <2>2, OrderAppended
        <3> QED
            BY <2>1, <3>1, <3>4, <3>5, <3>6
    <2>7. CASE j # k
        <3>1. passed'[j] = passed[j]
            BY <2>1, <2>7 DEF IInv, TypeOK
        <3> HIDE DEF k, n
        <3>2. Gone(j, requests[j], passed[j], now, purges')
            BY <1>1, <1>2, <2>3, <2>4, <2>5, GoneStays
        <3>3. CASE requests'[j] = requests[j]
            BY <1>1, <2>1, <3>1, <3>2, <3>3
        <3>4. CASE /\ requests'[j] = <<>>
                   /\ Expired(requests[j], n - Window[k])
                   /\ Window[k] \in purges'
            <4>1. EndOf(<<>>, passed[j]) /\ Gone(j, <<>>, passed[j], now, purges')
                BY <1>1, <1>2, <2>2, <2>4, <3>2, <3>4, GonePurged
            <4> QED
                BY <1>1, <2>1, <3>1, <3>4, <4>1
        <3> QED
            BY <2>3, <2>7, <3>3, <3>4
    <2> QED
        BY <2>6, <2>7
<1>7. CASE \E t \in Threads : Arrive(t)
    BY <1>3, <1>7 DEF Arrive
<1> QED
    BY <1>3, <1>4, <1>5, <1>6, <1>7 DEF Next, vars

-----------------------------------------------------------------------------
(* The window.                                                             *)

(* The stamps no older than age before the last one are all in the deque.  *)
LEMMA WindowOfKey ==
    ASSUME NEW k \in Keys, NEW d \in Seq(Times), NEW p \in Seq(Times), NEW s \in Times,
           NEW m \in Nat, s <= m, m <= s + Pause, NEW w \in SUBSET Nat,
           EndOf(d, p), Gone(k, d, p, m, w), Last(p) = s, Len(d) <= Limit[k],
           NEW age \in Times, age + Pause <= Window[k],
           \A x \in w : age + 2 * Pause <= x
    PROVE  Cardinality({i \in DOMAIN p : p[i] >= Last(p) - age}) <= Limit[k]
<1> DEFINE counted == {i \in DOMAIN p : p[i] >= Last(p) - age}
<1> DEFINE first == Len(p) - Len(d) + 1
<1>1. /\ Len(d) \in Nat /\ Len(p) \in Nat /\ Len(d) <= Len(p)
      /\ DOMAIN p = 1 .. Len(p) /\ \A i \in 1 .. Len(p) : p[i] \in Nat
      /\ s \in Nat /\ age \in Nat /\ Pause \in Nat /\ Limit[k] \in Nat /\ Window[k] \in Nat
    BY Stamps, NumbersAssumption, LimitsAssumption DEF EndOf, Times
<1>2. ASSUME NEW i \in 1 .. (Len(p) - Len(d)) PROVE p[i] < s - age
    <2>1. p[i] \in Nat
        BY <1>1
    <2>2. CASE p[i] + Window[k] < m
        BY <1>1, <2>1, <2>2
    <2>3. CASE \E x \in w : p[i] + x < m + Pause
        <3>1. PICK x \in w : p[i] + x < m + Pause
            BY <2>3
        <3>2. x \in Nat /\ age + 2 * Pause <= x
            OBVIOUS
        <3> QED
            BY <1>1, <2>1, <3>1, <3>2
    <2> QED
        BY <2>2, <2>3 DEF Gone
<1>3. counted \in SUBSET (first .. Len(p))
    <2> SUFFICES ASSUME NEW i \in counted PROVE i \in first .. Len(p)
        OBVIOUS
    <2>1. i \in 1 .. Len(p) /\ ~(p[i] < s - age)
        BY <1>1
    <2>2. i \notin 1 .. (Len(p) - Len(d))
        BY <1>2, <2>1
    <2> QED
        BY <1>1, <2>1, <2>2
<1>4. IsFiniteSet(first .. Len(p)) /\ Cardinality(first .. Len(p)) = Len(d)
    <2>1. first \in Int /\ Len(p) \in Int
        BY <1>1
    <2>2. (IF first > Len(p) THEN 0 ELSE Len(p) - first + 1) = Len(d)
        BY <1>1
    <2> HIDE DEF first
    <2> QED
        BY <2>1, <2>2, FS_Interval
<1> HIDE DEF counted, first
<1>5. Cardinality(counted) <= Len(d) /\ IsFiniteSet(counted)
    BY <1>3, <1>4, FS_Subset
<1>6. Cardinality(counted) \in Nat
    BY <1>5, FS_CardinalityType
<1> QED
    BY <1>1, <1>5, <1>6 DEF counted

LEMMA WindowNext == IInv /\ [Next]_vars => WindowKept'
<1> SUFFICES ASSUME IInv, [Next]_vars, NEW j \in Keys, passed'[j] # <<>>,
                    NEW age \in Times, age + Pause <= Window[j],
                    \A w \in purges' : age + 2 * Pause <= w
             PROVE  Cardinality({i \in DOMAIN passed'[j] :
                                    passed'[j][i] >= Last(passed'[j]) - age}) <= Limit[j]
    BY DEF WindowKept, Remembers, Counted
<1>1. CASE passed'[j] = passed[j] /\ purges \subseteq purges'
    BY <1>1 DEF IInv, WindowKept, Remembers, Counted
<1>2. ASSUME NEW t \in Threads, Allow(t), j = calls[t].key
      PROVE  Cardinality({i \in DOMAIN passed'[j] :
                             passed'[j][i] >= Last(passed'[j]) - age}) <= Limit[j]
    <2> DEFINE n == calls[t].now
    <2>1. calls[t] # Idle /\ passed' = [passed EXCEPT ![j] = Append(passed[j], n)]
          /\ now' = now
        BY <1>2 DEF Allow
    <2>2. n \in Times /\ now \in Nat /\ n <= now /\ now <= n + Pause
        BY <2>1, CallFacts
    <2>3. passed[j] \in Seq(Times) /\ passed'[j] = Append(passed[j], n)
        BY <2>1 DEF IInv, TypeOK
    <2>4. passed'[j] \in Seq(Times) /\ Last(passed'[j]) = n
        BY <2>2, <2>3, AppendProperties DEF Last
    <2>5. TypeOK' /\ DequesKept'
        BY TypeNext, DequesNext
    <2>6. /\ requests'[j] \in Seq(Times) /\ Len(requests'[j]) <= Limit[j]
          /\ EndOf(requests'[j], passed'[j])
          /\ Gone(j, requests'[j], passed'[j], now, purges')
        BY <2>1, <2>5 DEF TypeOK, DequesKept
    <2>7. purges' \in SUBSET Nat
        <3>1. \A k \in Keys : Window[k] \in Nat
            BY LimitsAssumption
        <3> QED
            BY <2>5, <3>1 DEF TypeOK
    <2> HIDE DEF n
    <2> QED
        BY <2>2, <2>4, <2>6, <2>7, WindowOfKey
<1>3. ASSUME NEW t \in Threads, Allow(t), j # calls[t].key
      PROVE  passed'[j] = passed[j] /\ purges \subseteq purges'
    BY <1>3, AllowFacts DEF Allow, IInv, TypeOK
<1>4. CASE UNCHANGED vars
    BY <1>1, <1>4 DEF vars
<1>5. CASE Tick
    BY <1>1, <1>5 DEF Tick
<1>6. ASSUME NEW t \in Threads, Arrive(t) \/ Refuse(t)
      PROVE  passed'[j] = passed[j] /\ purges \subseteq purges'
    BY <1>6 DEF Arrive, Refuse
<1> QED
    BY <1>1, <1>2, <1>3, <1>4, <1>5, <1>6 DEF Next

LEMMA InitIInv == Init => IInv
<1> SUFFICES ASSUME Init PROVE IInv
    OBVIOUS
<1>1. 0 \in Times /\ Idle \in [key : Keys \cup {NoKey}, now : Times]
    BY NumbersAssumption DEF Times, Idle
<1>2. <<>> \in Seq(Times) /\ Len(<<>>) = 0
    BY EmptySeq
<1>3. \A k \in Keys : 0 <= Limit[k]
    BY LimitsAssumption
<1>4. TypeOK
    BY <1>1, <1>2, <1>3 DEF Init, TypeOK
<1>5. InTime
    BY DEF Init, InTime
<1>6. DequesKept
    BY <1>2 DEF Init, DequesKept, EndOf, Gone, InOrder
<1>7. WindowKept
    BY DEF Init, WindowKept
<1> QED
    BY <1>4, <1>5, <1>6, <1>7 DEF IInv

(* The inductive invariant of the limiter: each deque is the end of what   *)
(* was let through, and what is missing was too old for its window.        *)
THEOREM IInvHolds == Spec => []IInv
<1>1. IInv /\ [Next]_vars => IInv'
    BY TypeNext, InTimeNext, DequesNext, WindowNext, Zenon DEF IInv
<1> QED
    BY InitIInv, <1>1, PTL DEF Spec

(* The deques and the threads keep their types; no deque outgrows its      *)
(* limit.                                                                  *)
THEOREM TypeCorrect == Spec => []TypeOK
<1>1. IInv => TypeOK
    BY DEF IInv
<1> QED
    BY <1>1, IInvHolds, PTL

(* No window lets more than the limit through, up to the pause of a thread *)
(* and the purges of others.                                               *)
THEOREM WindowAlwaysKept == Spec => []WindowKept
<1>1. IInv => WindowKept
    BY DEF IInv
<1> QED
    BY <1>1, IInvHolds, PTL

LEMMA RefuseStep ==
    ASSUME IInv, NEW t \in Threads, Refuse(t)
    PROVE  LET k == calls[t].key
           IN  Cardinality({i \in DOMAIN passed[k] : passed[k][i] >= Cutoff(t) - Pause})
                   >= Limit[k]
<1> DEFINE k == calls[t].key
<1> DEFINE p == passed[k]
<1> DEFINE e == Events(t)
<1> DEFINE recent == {i \in DOMAIN p : p[i] >= Cutoff(t) - Pause}
<1> DEFINE first == Len(p) - Len(e) + 1
<1>1. calls[t] # Idle /\ Full(k, e)
    BY DEF Refuse
<1>2. /\ k \in Keys /\ Limit[k] \in Nat /\ Limit[k] > 0
      /\ Cutoff(t) \in Int /\ Pause \in Nat
    BY <1>1, CallFacts, NumbersAssumption DEF Cutoff
<1>3. /\ e \in Seq(Times) /\ EndOf(e, p)
      /\ Len(e) > 0 => e[1] >= Cutoff(t)
    BY <1>1, EventsFacts
<1>4. p \in Seq(Times) /\ InOrder(p, now)
    BY <1>2 DEF IInv, TypeOK, DequesKept
<1>5. Len(e) >= Limit[k]
    BY <1>1 DEF Full
<1> HIDE DEF k, p, e
<1>6. /\ Len(e) \in Nat /\ Len(p) \in Nat /\ Len(e) <= Len(p) /\ Len(e) > 0
      /\ DOMAIN p = 1 .. Len(p) /\ \A i \in 1 .. Len(p) : p[i] \in Nat
    BY <1>2, <1>3, <1>4, <1>5, Stamps DEF EndOf
<1>7. first \in 1 .. Len(p) /\ p[first] >= Cutoff(t)
    <2>1. 1 \in 1 .. Len(e) /\ Len(p) - Len(e) + 1 = first
        BY <1>6
    <2>2. e[1] = p[first]
        BY <1>3, <2>1 DEF EndOf
    <2> QED
        BY <1>3, <1>6, <2>2
<1>8. ASSUME NEW i \in first .. Len(p) PROVE i \in recent
    <2>1. i \in 1 .. Len(p) /\ p[i] \in Nat /\ p[first] \in Nat
        BY <1>6, <1>7
    <2>2. CASE i = first
        BY <1>2, <1>6, <1>7, <2>1, <2>2
    <2>3. CASE first < i
        <3>1. p[first] <= p[i] + Pause
            BY <1>4, <1>7, <2>1, <2>3 DEF InOrder
        <3> QED
            BY <1>2, <1>6, <1>7, <2>1, <3>1
    <2> QED
        BY <1>6, <2>2, <2>3
<1>9. IsFiniteSet(first .. Len(p)) /\ Cardinality(first .. Len(p)) = Len(e)
    <2>1. first \in Int /\ Len(p) \in Int
        BY <1>6
    <2>2. (IF first > Len(p) THEN 0 ELSE Len(p) - first + 1) = Len(e)
        BY <1>6
    <2> HIDE DEF first
    <2> QED
        BY <2>1, <2>2, FS_Interval
<1>10. IsFiniteSet(recent)
    <2>1. IsFiniteSet(1 .. Len(p))
        BY <1>6, FS_Interval
    <2>2. recent \in SUBSET (1 .. Len(p))
        BY <1>6
    <2> HIDE DEF recent
    <2> QED
        BY <2>1, <2>2, FS_Subset
<1>11. first .. Len(p) \in SUBSET recent
    BY <1>8
<1> HIDE DEF recent, first
<1>12. Cardinality(first .. Len(p)) <= Cardinality(recent) /\ Cardinality(recent) \in Nat
    BY <1>10, <1>11, FS_Subset, FS_CardinalityType
<1> QED
    BY <1>2, <1>5, <1>6, <1>9, <1>12 DEF recent, p, k

(* A request is refused only when requests that were let through in the    *)
(* window before it used up the limit.                                     *)
THEOREM RefusalsHaveReason == Spec => RefusedForAReason
<1>1. IInv /\ [Next]_vars =>
        [\A t \in Threads :
            Refuse(t) => LET k == calls[t].key
                         IN  Cardinality({i \in DOMAIN passed[k] :
                                 passed[k][i] >= Cutoff(t) - Pause}) >= Limit[k]]_vars
    BY RefuseStep
<1> QED
    BY <1>1, IInvHolds, PTL DEF Spec, RefusedForAReason
=============================================================================
