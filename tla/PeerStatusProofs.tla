-------------------------- MODULE PeerStatusProofs --------------------------
(***************************************************************************)
(* Theorems about PeerStatus, for all limits, deadlines and pauses and for *)
(* every set of other programs that may answer.                            *)
(***************************************************************************)
EXTENDS PeerStatus, TLAPS

LEMMA Constants ==
    /\ Chunk \in Nat /\ Chunk > 0 /\ MaxHead \in Nat /\ Term \in Nat /\ Term > 0
    /\ MaxBody \in Nat /\ OwnHead \in Nat /\ OwnHead + Term <= MaxHead + 1
    /\ OwnBody \in Nat /\ OwnBody <= MaxBody
    /\ Deadline \in Nat /\ Deadline > 0 /\ Stale \in Nat /\ Pause \in Nat
    /\ MaxSetBack \in Nat /\ MaxNow \in Nat
BY SizesAssumption, TimesAssumption

LEMMA NoAnswerIsOne == NoAnswer \in Answers /\ ~NoAnswer.own
BY DEF NoAnswer, Answers

(* An answer of /status is one, and says what OwnIsOwn says of it.         *)
LEMMA OwnAnswerIsOne ==
    ASSUME TypeOK, NEW n \in 1 .. (OwnHead + Term + OwnBody)
    PROVE  LET a == OwnAnswer(n)
           IN  /\ a \in Answers
               /\ a.head = OwnHead /\ a.declared = OwnBody /\ a.sent = n
               /\ a.closes /\ a.own /\ a.valid = a.ok
               /\ a.ok => now - a.at <= Stale + a.setBack
<1> DEFINE a == OwnAnswer(n)
<1>1. n \in Nat
    BY Constants
<1>2. Fresh \in BOOLEAN
    BY Zenon DEF Fresh
<1>3. Fresh => file \in Nat /\ now - file - setBack <= Stale
    BY Constants DEF Fresh, TypeOK, NoFile
<1>4. (IF Fresh THEN file ELSE 0) \in Nat /\ (IF Fresh THEN setBack ELSE 0) \in Int
    BY <1>3, Constants DEF TypeOK
<1>5. a \in Answers
    BY <1>1, <1>2, <1>4, Constants DEF OwnAnswer, Answers
<1>6. /\ a.head = OwnHead /\ a.declared = OwnBody /\ a.sent = n
      /\ a.closes = TRUE /\ a.own = TRUE /\ a.valid = Fresh /\ a.ok = Fresh
      /\ Fresh => a.at = file /\ a.setBack = setBack
    BY DEF OwnAnswer
<1>7. Fresh => now - file <= Stale + setBack
    BY <1>3, Constants DEF TypeOK
<1> QED
    BY <1>5, <1>6, <1>7

LEMMA AnswerTypes ==
    ASSUME NEW a \in Answers
    PROVE  /\ a.head \in Nat /\ a.sent \in Nat /\ a.declared \in Int /\ a.at \in Nat
           /\ a.setBack \in Int /\ a.ok \in BOOLEAN /\ a.valid \in BOOLEAN
           /\ a.own \in BOOLEAN /\ a.closes \in BOOLEAN
BY DEF Answers

-----------------------------------------------------------------------------
(* Where a turn of the loop leads.                                         *)

LEMMA TurnGoes ==
    ASSUME NEW a \in Answers, NEW had \in Nat, NEW n \in Nat
    PROVE  /\ Turn(a, had, n) \in {"refused", "parse", "check"}
           /\ Turn(a, had, n) = "check" => had + n <= MaxHead + Term + MaxBody
           /\ Turn(a, had, n) \in {"check", "parse"} /\ HeadKnown(a, had + n) =>
                 HeadKnown(a, had) \/ ~HeadRefused(a)
           /\ Turn(a, had, n) = "parse" =>
                 HeadKnown(a, had + n) /\ had + n >= a.head + Term + a.declared
           /\ Turn(a, had, n) = "refused" =>
                 \/ ~HeadKnown(a, had + n) /\ had + n > MaxHead
                 \/ HeadEnds(a, had, n) /\ HeadRefused(a)
                 \/ had + n > MaxHead + Term + MaxBody
<1>1. a.head \in Nat /\ a.declared \in Int
    BY AnswerTypes
<1>2. HeadKnown(a, had + n) => HeadKnown(a, had) \/ HeadEnds(a, had, n)
    BY <1>1, Constants DEF HeadKnown, HeadEnds
<1>3. ~(had + n > MaxHead + Term + MaxBody) => had + n <= MaxHead + Term + MaxBody
    BY Constants
<1>4. Enough(a, had + n) => HeadKnown(a, had + n) /\ had + n >= a.head + Term + a.declared
    BY <1>1, Constants DEF Enough
<1> QED
    BY <1>2, <1>3, <1>4, SMT DEF Turn

-----------------------------------------------------------------------------
(* The steps.                                                              *)

LEMMA TypeStep ==
    ASSUME TypeOK, InTime, BytesKnown, [Next]_vars
    PROVE  TypeOK'
<1> USE Constants
<1>1. CASE Publish
    BY <1>1 DEF Publish, TypeOK
<1>2. CASE Remove
    BY <1>2 DEF Remove, TypeOK
<1>3. CASE SetClock
    BY <1>3 DEF SetClock, TypeOK
<1>4. CASE Answered
    <2>1. answer' \in Answers
        <3>1. CASE answer' \in Foreign
            BY <3>1, ForeignAssumption
        <3>2. CASE answer' \in {OwnAnswer(n) : n \in 1 .. (OwnHead + Term + OwnBody)}
            BY <3>2, OwnAnswerIsOne
        <3> QED
            BY <1>4, <3>1, <3>2 DEF Answered
    <2> QED
        BY <1>4, <2>1 DEF Answered, TypeOK, pi
<1>5. CASE Begin
    BY <1>5 DEF Begin, GoTo, TypeOK, pi, Running
<1>6. CASE Connect
    BY <1>6 DEF Connect, GoTo, TypeOK, pi, Blocked
<1>7. CASE Connected
    BY <1>7 DEF Connected, GoTo, TypeOK, pi, Running
<1>8. CASE Send
    <2>1. pc' \in {"late", "check"}
        BY <1>8, Zenon DEF Send, GoTo
    <2> QED
        BY <1>8, <2>1 DEF Send, GoTo, TypeOK, pi, Running, Finished
<1>9. CASE Check
    <2>1. pc' \in {"late", "arm"}
        BY <1>9, Zenon DEF Check, GoTo
    <2>2. remaining' \in 0 .. Deadline
        BY <1>9 DEF Check, Remaining, TypeOK, InTime
    <2> QED
        BY <1>9, <2>1, <2>2 DEF Check, GoTo, TypeOK, pi, Running, Finished
<1>10. CASE Arm
    BY <1>10 DEF Arm, GoTo, TypeOK, pi, Blocked
<1>11. CASE Receive
    <2>1. PICK n \in 1 .. Chunk :
             /\ got + n <= answer.sent
             /\ GoTo(Turn(answer, got, n)) /\ got' = got + n
        BY <1>11, Zenon DEF Receive
    <2>2. pc' \in Running \cup Finished
        <3>1. pc' = Turn(answer, got, n)
            BY <2>1, Zenon DEF GoTo
        <3>2. answer \in Answers /\ got \in Nat /\ n \in Nat
            BY DEF TypeOK
        <3>3. pc' \in {"refused", "parse", "check"}
            BY <3>1, <3>2, TurnGoes
        <3> QED
            BY <3>3 DEF Running, Finished
    <2>3. got' \in 0 .. (MaxHead + Term + MaxBody + Chunk)
        BY <1>11, <2>1 DEF Receive, BytesKnown, TypeOK
    <2>4. until' = 0 /\ since' = now /\ UNCHANGED <<now, pi, began, remaining, answer>>
        BY <1>11, <2>1, Zenon DEF Receive, GoTo
    <2> QED
        BY <2>2, <2>3, <2>4 DEF TypeOK, pi
<1>12. CASE Closed
    BY <1>12 DEF Closed, GoTo, TypeOK, pi, Running
<1>13. CASE Timeout
    BY <1>13 DEF Timeout, GoTo, TypeOK, pi, Finished
<1>14. CASE Broken
    BY <1>14 DEF Broken, GoTo, TypeOK, pi, Finished
<1>15. CASE Parse
    <2>1. pc' \in {"accepted", "refused"}
        BY <1>15, Zenon DEF Parse, GoTo
    <2> QED
        BY <1>15, <2>1 DEF Parse, GoTo, TypeOK, pi, Finished
<1>16. CASE Tick
    BY <1>16 DEF Tick, TypeOK, pi
<1>17. CASE UNCHANGED vars
    BY <1>17 DEF vars, pi, TypeOK
<1> QED
    BY <1>1, <1>2, <1>3, <1>4, <1>5, <1>6, <1>7, <1>8, <1>9, <1>10, <1>11, <1>12,
       <1>13, <1>14, <1>15, <1>16, <1>17, Zenon DEF Next, Fetching

(* The clock only moves in Tick, and Tick does not move the thread: so     *)
(* every other step is judged where it arrives.                            *)
LEMMA TimeStep ==
    ASSUME TypeOK, InTime, [Next]_vars
    PROVE  InTime'
<1> USE Constants DEF TypeOK, InTime
<1>1. CASE Publish \/ Remove \/ SetClock \/ Answered \/ UNCHANGED vars
    <2>1. UNCHANGED <<now, pc, began, since, remaining, until>>
        BY <1>1 DEF Publish, Remove, SetClock, Answered, vars
    <2> QED
        BY <2>1 DEF Blocked, Finished
<1>2. CASE Begin
    BY <1>2 DEF Begin, GoTo, Blocked, Finished
<1>3. CASE Connect
    BY <1>3 DEF Connect, GoTo, Blocked, Finished
<1>4. CASE Connected
    BY <1>4 DEF Connected, GoTo, Blocked, Finished
<1>5. CASE Send
    <2>1. CASE Remaining <= 0
        BY <1>5, <2>1 DEF Send, GoTo, Blocked, Finished
    <2>2. CASE ~(Remaining <= 0)
        BY <1>5, <2>2 DEF Send, GoTo, Remaining, Blocked, Finished
    <2> QED
        BY <2>1, <2>2, Zenon
<1>6. CASE Check
    <2>1. CASE Remaining <= 0
        BY <1>6, <2>1 DEF Check, GoTo, Blocked, Finished
    <2>2. CASE ~(Remaining <= 0)
        BY <1>6, <2>2 DEF Check, GoTo, Remaining, Blocked, Finished
    <2> QED
        BY <2>1, <2>2, Zenon
<1>7. CASE Arm
    BY <1>7 DEF Arm, GoTo, Blocked, Finished
<1>8. CASE Receive
    <2>1. PICK n \in 1 .. Chunk :
             /\ got + n <= answer.sent
             /\ GoTo(Turn(answer, got, n)) /\ got' = got + n
        BY <1>8, Zenon DEF Receive
    <2>2. pc' = Turn(answer, got, n) /\ answer \in Answers /\ got \in Nat /\ n \in Nat
        BY <2>1 DEF GoTo
    <2>3. pc' \in {"refused", "parse", "check"}
        BY <2>2, TurnGoes
    <2>4. pc = "recv" /\ since' = now /\ UNCHANGED <<now, began, remaining>>
        BY <1>8, <2>1, Zenon DEF Receive, GoTo
    <2> QED
        BY <2>3, <2>4 DEF Blocked, Finished
<1>9. CASE Closed
    BY <1>9 DEF Closed, GoTo, Blocked, Finished
<1>10. CASE Timeout
    BY <1>10 DEF Timeout, GoTo, Blocked, Finished
<1>11. CASE Broken
    BY <1>11 DEF Broken, GoTo, Blocked, Finished
<1>12. CASE Parse
    <2>1. pc' \in {"accepted", "refused"}
        BY <1>12, Zenon DEF Parse, GoTo
    <2> QED
        BY <1>12, <2>1 DEF Parse, GoTo, Blocked, Finished
<1>13. CASE Tick
    BY <1>13 DEF Tick, Running, Blocked, Finished
<1> QED
    BY <1>1, <1>2, <1>3, <1>4, <1>5, <1>6, <1>7, <1>8, <1>9, <1>10, <1>11, <1>12,
       <1>13, Zenon DEF Next, Fetching

(* An answer is made once, of the file as it is then; and it was asked for *)
(* no sooner than the thread began.                                        *)
LEMMA OwnStep ==
    ASSUME TypeOK, InTime, BytesKnown, OwnIsOwn, [Next]_vars
    PROVE  OwnIsOwn'
<1> USE Constants
<1>1. CASE Answered
    <2>1. CASE answer' \in Foreign
        BY <2>1, ForeignAssumption DEF OwnIsOwn
    <2>2. CASE answer' \in {OwnAnswer(n) : n \in 1 .. (OwnHead + Term + OwnBody)}
        <3>1. PICK n \in 1 .. (OwnHead + Term + OwnBody) : answer' = OwnAnswer(n)
            BY <2>2
        <3> DEFINE a == OwnAnswer(n)
        <3>2. /\ a \in Answers
              /\ a.head = OwnHead /\ a.declared = OwnBody /\ a.sent = n
              /\ a.closes /\ a.own /\ a.valid = a.ok
              /\ a.ok => now - a.at <= Stale + a.setBack
            BY OwnAnswerIsOne
        <3>3. a.at \in Nat /\ a.setBack \in Int
            BY <3>2, AnswerTypes
        <3>4. began' = began /\ began <= now /\ began \in Nat /\ now \in Nat
            BY <1>1 DEF Answered, InTime, TypeOK
        <3> HIDE DEF a
        <3>5. answer' = a
            BY <3>1 DEF a
        <3> QED
            BY <3>2, <3>3, <3>4, <3>5 DEF OwnIsOwn
    <2> QED
        BY <1>1, <2>1, <2>2 DEF Answered
<1>2. CASE Begin
    <2>1. ~answer.own /\ answer' = answer
        BY <1>2, NoAnswerIsOne DEF Begin, BytesKnown
    <2> QED
        BY <2>1 DEF OwnIsOwn
<1>3. CASE ~Answered /\ ~Begin
    <2>1. answer' = answer /\ began' = began
        BY <1>3 DEF Next, Fetching, Publish, Remove, SetClock, Connect, Connected, Send,
           Check, Arm, Receive, Closed, Timeout, Broken, Parse, Tick, vars
    <2> QED
        BY <2>1 DEF OwnIsOwn
<1> QED
    BY <1>1, <1>2, <1>3

-----------------------------------------------------------------------------
(* The loop.                                                               *)

(* All of an answer of /status that came is exactly that answer.           *)
LEMMA OwnWhole ==
    ASSUME TypeOK, OwnIsOwn, answer.own, NEW had \in Nat, had <= answer.sent,
           had >= OwnHead + Term + OwnBody
    PROVE  Whole(answer, had)
<1>1. answer.head = OwnHead /\ answer.declared = OwnBody /\ answer.sent <= OwnHead + Term + OwnBody
    BY DEF OwnIsOwn
<1>2. answer.sent \in Nat
    BY AnswerTypes DEF TypeOK
<1> QED
    BY <1>1, <1>2, Constants DEF Whole, HeadKnown

(* No turn refuses a good answer of /status.                               *)
LEMMA OwnNotRefused ==
    ASSUME TypeOK, OwnIsOwn, answer.own, answer.ok,
           NEW had \in Nat, NEW n \in Nat, had + n <= answer.sent
    PROVE  Turn(answer, had, n) # "refused"
<1>1. /\ answer.head = OwnHead /\ answer.declared = OwnBody
      /\ answer.sent <= OwnHead + Term + OwnBody /\ answer.sent \in Nat
    BY AnswerTypes DEF OwnIsOwn, TypeOK
<1>2. ~HeadRefused(answer)
    BY <1>1, Constants DEF HeadRefused
<1>3. ~HeadKnown(answer, had + n) => had + n <= MaxHead
    BY <1>1, Constants DEF HeadKnown
<1>4. had + n <= MaxHead + Term + MaxBody
    BY <1>1, Constants
<1>5. ~(had + n > MaxHead + Term + MaxBody) /\ (had + n <= MaxHead => ~(had + n > MaxHead))
    BY <1>4, Constants
<1> QED
    BY <1>2, <1>3, <1>5, TurnGoes, Zenon DEF TypeOK

LEMMA BytesStep ==
    ASSUME TypeOK, BytesKnown, OwnIsOwn, [Next]_vars
    PROVE  BytesKnown'
<1> USE Constants
<1>1. CASE UNCHANGED <<pc, answer, got>>
    BY <1>1 DEF BytesKnown, HeadKnown, HeadRefused, Whole
<1>2. CASE Answered
    <2>1. pc' = pc /\ got' = got /\ pc \in {"check", "arm", "recv"} /\ answer = NoAnswer
        BY <1>2 DEF Answered
    <2>2. got = 0
        BY <2>1 DEF BytesKnown, NoAnswer, TypeOK
    <2>3. answer' \in Answers
        <3>1. CASE answer' \in Foreign
            BY <3>1, ForeignAssumption
        <3>2. CASE answer' \in {OwnAnswer(n) : n \in 1 .. (OwnHead + Term + OwnBody)}
            BY <3>2, OwnAnswerIsOne
        <3> QED
            BY <1>2, <3>1, <3>2 DEF Answered
    <2>4. answer'.sent \in Nat /\ answer'.head \in Nat
        BY <2>3, AnswerTypes
    <2>5. ~HeadKnown(answer', got')
        BY <2>1, <2>2, <2>4 DEF HeadKnown
    <2> QED
        BY <2>1, <2>2, <2>4, <2>5 DEF BytesKnown, HeadKnown
<1>3. CASE Begin \/ Connect \/ Connected
    BY <1>3 DEF Begin, Connect, Connected, GoTo, BytesKnown
<1>4. CASE Send
    <2>1. pc' \in {"late", "check"} /\ answer' = NoAnswer /\ got' = got /\ got = 0
        BY <1>4 DEF Send, GoTo, BytesKnown, TypeOK, NoAnswer
    <2>2. ~HeadKnown(answer', got')
        BY <2>1 DEF HeadKnown, NoAnswer
    <2>3. answer'.sent = 0
        BY <2>1 DEF NoAnswer
    <2> QED
        BY <2>1, <2>2, <2>3 DEF BytesKnown, HeadKnown
<1>5. CASE Check
    <2>1. pc' \in {"late", "arm"} /\ UNCHANGED <<answer, got>> /\ pc = "check"
        BY <1>5, Zenon DEF Check, GoTo
    <2> QED
        BY <2>1 DEF BytesKnown, HeadKnown, HeadRefused
<1>6. CASE Arm
    BY <1>6 DEF Arm, GoTo, BytesKnown, HeadKnown, HeadRefused
<1>7. CASE Receive
    <2>1. PICK n \in 1 .. Chunk :
             /\ got + n <= answer.sent
             /\ GoTo(Turn(answer, got, n)) /\ got' = got + n
        BY <1>7, Zenon DEF Receive
    <2>2. pc = "recv" /\ answer' = answer /\ pc' = Turn(answer, got, n)
        BY <1>7, <2>1, Zenon DEF Receive, GoTo
    <2>3. answer \in Answers /\ got \in Nat /\ n \in Nat
        BY DEF TypeOK
    <2>4. /\ pc' \in {"refused", "parse", "check"}
          /\ pc' = "check" => got' <= MaxHead + Term + MaxBody
          /\ pc' \in {"check", "parse"} /\ HeadKnown(answer, got') =>
                HeadKnown(answer, got) \/ ~HeadRefused(answer)
          /\ pc' = "parse" => HeadKnown(answer, got') /\ got' >= answer.head + Term + answer.declared
        BY <2>1, <2>2, <2>3, TurnGoes
    <2>5. HeadKnown(answer, got) => ~HeadRefused(answer)
        BY <2>2 DEF BytesKnown
    <2>6. pc' = "parse" /\ answer.own => Whole(answer, got')
        <3> SUFFICES ASSUME pc' = "parse", answer.own PROVE Whole(answer, got')
            OBVIOUS
        <3>1. got' >= OwnHead + Term + OwnBody
            BY <2>4 DEF OwnIsOwn
        <3> QED
            BY <2>1, <2>3, <3>1, OwnWhole
    <2>7. got' <= answer'.sent
        BY <2>1, <2>2
    <2>8. /\ HeadKnown(answer, got)' <=> HeadKnown(answer, got')
          /\ HeadRefused(answer)' <=> HeadRefused(answer)
          /\ Whole(answer, got)' <=> Whole(answer, got')
        BY <2>2 DEF HeadKnown, HeadRefused, Whole
    <2> HIDE DEF HeadKnown, HeadRefused, Whole
    <2> QED
        BY <2>2, <2>4, <2>5, <2>6, <2>7, <2>8 DEF BytesKnown
<1>8. CASE Closed
    <2>1. pc = "recv" /\ pc' = "parse" /\ UNCHANGED <<answer, got>> /\ got = answer.sent
        BY <1>8, Zenon DEF Closed, GoTo
    <2>2. answer.own /\ answer.sent >= OwnHead + Term + OwnBody => Whole(answer, got)
        BY <2>1, OwnWhole DEF TypeOK
    <2> QED
        BY <2>1, <2>2 DEF BytesKnown, HeadKnown, HeadRefused, Whole
<1>9. CASE Timeout \/ Broken
    BY <1>9 DEF Timeout, Broken, GoTo, BytesKnown
<1>10. CASE Parse
    <2>1. pc' \in {"accepted", "refused"} /\ UNCHANGED <<answer, got>>
        BY <1>10, Zenon DEF Parse, GoTo
    <2> QED
        BY <2>1 DEF BytesKnown
<1>11. CASE Publish \/ Remove \/ SetClock \/ Tick \/ UNCHANGED vars
    <2>1. UNCHANGED <<pc, answer, got>>
        BY <1>11 DEF Publish, Remove, SetClock, Tick, vars
    <2> QED
        BY <1>1, <2>1
<1> QED
    BY <1>2, <1>3, <1>4, <1>5, <1>6, <1>7, <1>8, <1>9, <1>10, <1>11, Zenon DEF Next, Fetching

LEMMA JudgedStep ==
    ASSUME TypeOK, BytesKnown, OwnIsOwn, JudgedRight, [Next]_vars
    PROVE  JudgedRight'
<1> USE Constants
<1>1. CASE Receive
    <2>1. PICK n \in 1 .. Chunk :
             /\ got + n <= answer.sent
             /\ GoTo(Turn(answer, got, n)) /\ got' = got + n
        BY <1>1, Zenon DEF Receive
    <2>2. answer' = answer /\ pc' = Turn(answer, got, n)
        BY <1>1, <2>1, Zenon DEF Receive, GoTo
    <2>3. answer \in Answers /\ got \in Nat /\ n \in Nat
        BY DEF TypeOK
    <2>4. pc' # "accepted"
        BY <2>2, <2>3, TurnGoes
    <2>5. answer.own /\ answer.ok => pc' # "refused"
        BY <2>1, <2>2, <2>3, OwnNotRefused
    <2> QED
        BY <2>2, <2>4, <2>5 DEF JudgedRight
<1>2. CASE Parse
    <2>1. pc = "parse" /\ UNCHANGED <<answer, got>>
          /\ pc' = IF Whole(answer, got) /\ answer.valid THEN "accepted" ELSE "refused"
        BY <1>2, Zenon DEF Parse, GoTo
    <2>2. CASE Whole(answer, got) /\ answer.valid
        <3>1. ~HeadRefused(answer)
            BY <2>1, <2>2 DEF BytesKnown, Whole
        <3>2. got = answer.head + Term + answer.declared
            <4>1. answer.head \in Nat /\ answer.declared \in Int /\ got \in Nat
                BY AnswerTypes DEF TypeOK
            <4> QED
                BY <2>2, <4>1 DEF Whole
        <3>3. /\ answer.ok /\ answer.head <= MaxHead /\ answer.declared \in 0 .. MaxBody
            BY <3>1, AnswerTypes DEF HeadRefused, TypeOK
        <3>4. pc' = "accepted"
            BY <2>1, <2>2, Zenon
        <3> QED
            BY <2>1, <2>2, <3>2, <3>3, <3>4 DEF JudgedRight
    <2>3. CASE ~(Whole(answer, got) /\ answer.valid)
        <3>1. pc' = "refused"
            BY <2>1, <2>3, Zenon
        <3>2. answer.own /\ answer.ok => answer.valid
            BY DEF OwnIsOwn
        <3>3. answer.own /\ answer.ok => ~(answer.sent >= OwnHead + Term + OwnBody)
            BY <2>1, <2>3, <3>2 DEF BytesKnown
        <3>4. answer.sent \in Nat
            BY AnswerTypes DEF TypeOK
        <3> QED
            BY <2>1, <3>1, <3>3, <3>4 DEF JudgedRight
    <2> QED
        BY <2>2, <2>3, Zenon
<1>3. CASE UNCHANGED <<pc, answer, got>>
    BY <1>3 DEF JudgedRight
<1>4. CASE pc' \notin {"accepted", "refused"}
    BY <1>4 DEF JudgedRight
<1>5. CASE Begin \/ Connect \/ Connected \/ Arm \/ Closed \/ Timeout \/ Broken \/ Answered
    <2>1. pc' \notin {"accepted", "refused"}
        BY <1>5 DEF Begin, Connect, Connected, Arm, Closed, Timeout, Broken, Answered, GoTo
    <2> QED
        BY <1>4, <2>1
<1>6. CASE Send
    <2>1. pc' \in {"late", "check"}
        BY <1>6, Zenon DEF Send, GoTo
    <2> QED
        BY <1>4, <2>1
<1>7. CASE Check
    <2>1. pc' \in {"late", "arm"}
        BY <1>7, Zenon DEF Check, GoTo
    <2> QED
        BY <1>4, <2>1
<1>8. CASE Publish \/ Remove \/ SetClock \/ Tick \/ UNCHANGED vars
    <2>1. UNCHANGED <<pc, answer, got>>
        BY <1>8 DEF Publish, Remove, SetClock, Tick, vars
    <2> QED
        BY <1>3, <2>1
<1> QED
    BY <1>1, <1>2, <1>5, <1>6, <1>7, <1>8, Zenon DEF Next, Fetching

-----------------------------------------------------------------------------
(* Theorems.                                                               *)

(* The inductive invariant: the distance of the thread from its first look *)
(* at the clock, what it knows of the bytes it has, and what an answer of  *)
(* /status is, with the verdict of fetch_pi_status itself.                 *)
THEOREM IInvHolds == Spec => []IInv
<1>1. Init => IInv
    <2> SUFFICES ASSUME Init PROVE IInv
        OBVIOUS
    <2> USE Constants, NoAnswerIsOne DEF Init
    <2>1. TypeOK
        BY DEF TypeOK
    <2>2. InTime
        BY DEF InTime, Blocked, Finished
    <2>3. BytesKnown
        BY DEF BytesKnown, NoAnswer
    <2>4. OwnIsOwn /\ JudgedRight
        BY DEF OwnIsOwn, JudgedRight
    <2> QED
        BY <2>1, <2>2, <2>3, <2>4 DEF IInv
<1>2. IInv /\ [Next]_vars => IInv'
    BY TypeStep, TimeStep, BytesStep, OwnStep, JudgedStep DEF IInv
<1> QED
    BY <1>1, <1>2, PTL DEF Spec

(* All variables keep their types: the bytes kept of an answer, whoever    *)
(* sends it, are bounded, and recv is never given a negative timeout       *)
(* (fetch_pi_status).                                                      *)
THEOREM TypeCorrect == Spec => []TypeOK
<1>1. IInv => TypeOK
    BY DEF IInv
<1> QED
    BY <1>1, IInvHolds, PTL

(* fetch_pi_status is through by two pauses after its deadline, however    *)
(* slowly or endlessly the other end sends.                                *)
THEOREM AlwaysEndsInTime == Spec => []EndsInTime
<1>1. IInv => EndsInTime
    <2> SUFFICES ASSUME IInv, pc # "idle"
                 PROVE  (IF pc \in Finished THEN since ELSE now) - began <= Deadline + 2 * Pause
        BY DEF EndsInTime
    <2>1. CASE pc \in Finished
        BY <2>1, Constants DEF IInv, InTime, TypeOK
    <2>2. CASE pc \notin Finished
        <3>1. pc \in Running \cup Blocked
            BY <2>2 DEF IInv, TypeOK
        <3>2. now <= began + Deadline + 2 * Pause
            BY <3>1, Constants DEF IInv, InTime, TypeOK, Running, Blocked
        <3> QED
            BY <2>2, <3>2, Constants DEF IInv, TypeOK
    <2> QED
        BY <2>1, <2>2, Zenon
<1> QED
    BY <1>1, IInvHolds, PTL

(* What is accepted is one whole answer within the limits, and an answer   *)
(* of /status that came whole is not refused, at any cut (the loop of      *)
(* fetch_pi_status).                                                       *)
THEOREM AlwaysJudgedRight == Spec => []JudgedRight
<1>1. IInv => JudgedRight
    BY DEF IInv
<1> QED
    BY <1>1, IInvHolds, PTL

(* An accepted status of a dashboard is no older than the limit of /status *)
(* and the time of the request, but for a clock that was set back (status, *)
(* fetch_pi_status).                                                       *)
THEOREM AgeAlwaysBounded == Spec => []AgeBounded
<1>1. IInv => AgeBounded
    <2> SUFFICES ASSUME IInv, pc = "accepted", answer.own
                 PROVE  since - answer.at <= Stale + answer.setBack + Deadline + 2 * Pause
        BY DEF AgeBounded
    <2>1. answer.ok
        BY DEF IInv, JudgedRight
    <2>2. began - answer.at <= Stale + answer.setBack
        BY <2>1 DEF IInv, OwnIsOwn
    <2>3. since <= began + Deadline + 2 * Pause /\ since \in Nat /\ began \in Nat
        BY DEF IInv, InTime, TypeOK, Finished
    <2>4. answer.at \in Nat /\ answer.setBack \in Int
        BY AnswerTypes DEF IInv, TypeOK
    <2> QED
        BY <2>2, <2>3, <2>4, Constants
<1> QED
    BY <1>1, IInvHolds, PTL
=============================================================================
