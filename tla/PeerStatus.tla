----------------------------- MODULE PeerStatus -----------------------------
(***************************************************************************)
(* How a dashboard learns the status of one Pi: fetch_pi_status of         *)
(* app/dashboard.py reads bytes from a socket against a deadline; at the   *)
(* other end /status answers from the file the fan controller writes, and  *)
(* judges its age by a wall clock that may be set; or something else       *)
(* answers that is no dashboard at all.                                    *)
(*                                                                         *)
(* now is time.monotonic(), of both ends.  Of time.time() only differences *)
(* are used, so of the wall clock of the Pi the model keeps by how much it *)
(* was set back since the last status was published.  An answer is known   *)
(* by its numbers of bytes: the network cuts it anywhere.  The assumptions *)
(* about time are in Tick: a blocking call returns by its timeout, and a   *)
(* thread that is not blocked runs within Pause.                           *)
(***************************************************************************)
EXTENDS Integers

CONSTANTS
    Chunk,          \* the argument of recv
    MaxHead, Term, MaxBody,     \* limits: header, and body; length of the terminator
    Deadline, Stale,    \* 2 and 20 seconds
    Pause,
    Foreign,        \* answers of other programs
    OwnHead, OwnBody,   \* sizes of an answer of /status
    MaxSetBack, MaxNow  \* bounds: settings of the wall clock, last moment

ASSUME SizesAssumption ==
    /\ Chunk \in Nat \ {0} /\ MaxHead \in Nat /\ Term \in Nat \ {0} /\ MaxBody \in Nat
    /\ OwnHead \in 0 .. (MaxHead - Term + 1) /\ OwnBody \in 0 .. MaxBody
ASSUME TimesAssumption ==
    {Deadline, Stale, Pause, MaxSetBack, MaxNow} \subseteq Nat /\ Deadline > 0

(* An answer: the bytes before the terminator of its header, whether that  *)
(* says 200 and can be parsed, its content-length, the bytes that are sent *)
(* of all, whether the connection is closed then, and whether the body is  *)
(* a status that clean_remote_status accepts.  An answer of /status knows  *)
(* when the status was published, and by how much the clock was set back   *)
(* between that and its answer.                                            *)
Answers == [head : Nat, ok : BOOLEAN, declared : Int, sent : Nat, closes : BOOLEAN,
            valid : BOOLEAN, own : BOOLEAN, at : Nat, setBack : Int]

ASSUME ForeignAssumption == Foreign \subseteq {a \in Answers : ~a.own}

VARIABLES
    now,
    file,       \* when status.json was written, or NoFile
    setBack,    \* by how much the wall clock was set back since
    pc,         \* where the thread in fetch_pi_status is, or what it came to
    began,      \* when it read the clock first
    since,      \* when it came to pc
    remaining,  \* of the deadline, as it was set last
    until,      \* when the blocking call it is in times out
    answer,     \* of the other end, once it has been asked
    got         \* len(response)

pi     == <<file, setBack>>
vars   == <<now, pi, pc, began, since, remaining, until, answer, got>>

NoFile   == -1
NoAnswer == [head |-> 0, ok |-> FALSE, declared |-> 0, sent |-> 0, closes |-> FALSE,
             valid |-> FALSE, own |-> FALSE, at |-> 0, setBack |-> 0]

Init ==
    /\ now = 0 /\ file = NoFile /\ setBack = 0
    /\ pc = "idle" /\ began = 0 /\ since = 0 /\ remaining = 0 /\ until = 0
    /\ answer = NoAnswer /\ got = 0

Running  == {"start", "send", "check", "arm", "parse"}
Blocked  == {"connect", "recv"}
Finished == {"accepted", "refused", "late", "lost"}

-----------------------------------------------------------------------------
(* The Pi.  What happens there after its answer is of no consequence.      *)

Unanswered == answer = NoAnswer /\ pc \notin Finished

(* write_status of the controller.                                         *)
Publish ==
    /\ Unanswered
    /\ file' = now /\ setBack' = 0
    /\ UNCHANGED <<now, pc, began, since, remaining, until, answer, got>>

(* The controller's service stops: its directory goes.                     *)
Remove ==
    /\ Unanswered
    /\ file' = NoFile /\ setBack' = 0
    /\ UNCHANGED <<now, pc, began, since, remaining, until, answer, got>>

SetClock ==
    /\ Unanswered /\ file # NoFile
    /\ setBack' \in -MaxSetBack .. MaxSetBack
    /\ UNCHANGED <<now, file, pc, began, since, remaining, until, answer, got>>

(* Slip: any status is good.                                               *)
FreshAny == file # NoFile

(* /status: the age of the file by the wall clock.                         *)
Fresh == file # NoFile /\ now - file - setBack <= Stale

(* An answer of /status, 200 or 503, of which n bytes are sent.            *)
OwnAnswer(n) ==
    [head |-> OwnHead, ok |-> Fresh, declared |-> OwnBody, sent |-> n,
     closes |-> TRUE, valid |-> Fresh, own |-> TRUE,
     at |-> IF Fresh THEN file ELSE 0, setBack |-> IF Fresh THEN setBack ELSE 0]

(* The request is answered; a server that dies closes the connection.      *)
Answered ==
    /\ pc \in {"check", "arm", "recv"} /\ answer = NoAnswer
    /\ answer' \in Foreign \cup {OwnAnswer(n) : n \in 1 .. (OwnHead + Term + OwnBody)}
    /\ UNCHANGED <<now, pi, pc, began, since, remaining, until, got>>

-----------------------------------------------------------------------------
(* fetch_pi_status.                                                        *)

GoTo(where) == pc' = where /\ since' = now /\ UNCHANGED <<now, pi>>

Begin ==
    /\ pc = "idle" /\ GoTo("start")
    /\ began' = now
    /\ UNCHANGED <<remaining, until, answer, got>>

Connect ==
    /\ pc = "start" /\ GoTo("connect")
    /\ until' = now + Deadline
    /\ UNCHANGED <<began, remaining, answer, got>>

Connected ==
    /\ pc = "connect" /\ GoTo("send")
    /\ until' = 0
    /\ UNCHANGED <<began, remaining, answer, got>>

Remaining == began + Deadline - now

(* A request is so short that sendall does not block.                      *)
Send ==
    /\ pc = "send" /\ GoTo(IF Remaining <= 0 THEN "late" ELSE "check")
    /\ UNCHANGED <<began, remaining, until, answer, got>>

(* Slip: time may have run out when it is set as a timeout.                *)
CheckUnguarded ==
    /\ pc = "check" /\ GoTo("arm")
    /\ remaining' = Remaining
    /\ UNCHANGED <<began, until, answer, got>>

Check ==
    /\ pc = "check" /\ GoTo(IF Remaining <= 0 THEN "late" ELSE "arm")
    /\ remaining' = IF Remaining <= 0 THEN 0 ELSE Remaining
    /\ UNCHANGED <<began, until, answer, got>>

(* Slip: every recv gets all of the two seconds.                           *)
ArmAll ==
    /\ pc = "arm" /\ GoTo("recv")
    /\ until' = now + Deadline /\ remaining' = 0
    /\ UNCHANGED <<began, answer, got>>

Arm ==
    /\ pc = "arm" /\ GoTo("recv")
    /\ until' = now + remaining /\ remaining' = 0
    /\ UNCHANGED <<began, answer, got>>

(* The terminator is found once all of it is there.                        *)
HeadEnds(a, had, n) == had < a.head + Term /\ had + n >= a.head + Term

(* The header, with its terminator found: its status, its lines, lengths.  *)
HeadRefused(a) == a.head > MaxHead \/ ~a.ok \/ a.declared \notin 0 .. MaxBody

HeadKnown(a, had) == had >= a.head + Term

(* The header, and as many bytes after it as it says.                      *)
Enough(a, had) == HeadKnown(a, had) /\ had - a.head - Term >= a.declared

(* Slip: what came is measured before its terminator is looked for.        *)
TurnHasty(a, had, n) ==
    IF \/ ~HeadKnown(a, had) /\ had + n > MaxHead
       \/ HeadEnds(a, had, n) /\ HeadRefused(a) THEN "refused"
    ELSE IF Enough(a, had + n) THEN "parse"
    ELSE "check"

(* One turn of the loop, after recv gave n more bytes.                     *)
Turn(a, had, n) ==
    IF \/ ~HeadKnown(a, had + n) /\ had + n > MaxHead
       \/ HeadEnds(a, had, n) /\ HeadRefused(a) THEN "refused"
    ELSE IF Enough(a, had + n) THEN "parse"
    ELSE IF had + n > MaxHead + Term + MaxBody THEN "refused"
    ELSE "check"

Receive ==
    /\ pc = "recv"
    /\ \E n \in 1 .. Chunk :
          /\ got + n <= answer.sent
          /\ GoTo(Turn(answer, got, n)) /\ got' = got + n
    /\ until' = 0
    /\ UNCHANGED <<began, remaining, answer>>

(* recv gives nothing: the other end has closed.                           *)
Closed ==
    /\ pc = "recv" /\ answer.closes /\ got = answer.sent
    /\ GoTo("parse") /\ until' = 0
    /\ UNCHANGED <<began, remaining, answer, got>>

Timeout ==
    /\ pc \in Blocked /\ now >= until /\ GoTo("late")
    /\ UNCHANGED <<began, remaining, until, answer, got>>

(* The connection is refused or broken.                                    *)
Broken ==
    /\ pc \in Blocked /\ GoTo("lost")
    /\ UNCHANGED <<began, remaining, until, answer, got>>

Whole(a, had) == HeadKnown(a, had) /\ had - a.head - Term = a.declared

(* The body, and clean_remote_status.                                      *)
Parse ==
    /\ pc = "parse"
    /\ GoTo(IF Whole(answer, got) /\ answer.valid THEN "accepted" ELSE "refused")
    /\ UNCHANGED <<began, remaining, until, answer, got>>

Fetching ==
    \/ Begin \/ Connect \/ Connected \/ Send \/ Check \/ Arm \/ Receive \/ Closed
    \/ Timeout \/ Broken \/ Parse

Tick ==
    /\ now < MaxNow /\ pc \notin Finished
    /\ pc \in Running => now - since < Pause
    /\ pc \in Blocked => now < until
    /\ now' = now + 1
    /\ UNCHANGED <<pi, pc, began, since, remaining, until, answer, got>>

Next == Publish \/ Remove \/ SetClock \/ Answered \/ Fetching \/ Tick

Spec == Init /\ [][Next]_vars

-----------------------------------------------------------------------------
(* Properties.                                                             *)

(* The types; whatever answers, the bytes that are kept are bounded.       *)
TypeOK ==
    /\ now \in 0 .. MaxNow
    /\ file \in 0 .. MaxNow \cup {NoFile} /\ setBack \in -MaxSetBack .. MaxSetBack
    /\ pc \in Running \cup Blocked \cup Finished \cup {"idle"}
    /\ began \in 0 .. MaxNow /\ since \in 0 .. MaxNow
    /\ remaining \in 0 .. Deadline /\ until \in 0 .. (MaxNow + Deadline)
    /\ answer \in Answers
    /\ got \in 0 .. (MaxHead + Term + MaxBody + Chunk)

(* However slowly a peer sends, and wherever the thread is held up, it is  *)
(* through two pauses after the deadline at the latest.                    *)
EndsInTime ==
    pc # "idle" =>
        (IF pc \in Finished THEN since ELSE now) - began <= Deadline + 2 * Pause

(* What is accepted is one whole, exact answer within the limits; and an   *)
(* answer of /status that came whole is never refused, wherever the        *)
(* network cut it.                                                         *)
JudgedRight ==
    LET a == answer
    IN  /\ pc = "accepted" =>
              /\ a.ok /\ a.valid
              /\ a.head <= MaxHead /\ a.declared \in 0 .. MaxBody
              /\ got = a.head + Term + a.declared
        /\ pc = "refused" /\ a.own /\ a.ok => a.sent < OwnHead + Term + OwnBody

(* A status that is accepted is no older than the limit of /status and the *)
(* time of the request, unless the clock of the Pi was set back between    *)
(* its publication and its answer: then by as much.                        *)
AgeBounded ==
    pc = "accepted" /\ answer.own =>
        since - answer.at <= Stale + answer.setBack + Deadline + 2 * Pause

-----------------------------------------------------------------------------
(* The inductive invariant.                                                *)

(* How far from its first look at the clock the thread can be.             *)
InTime ==
    /\ began <= since /\ since <= now
    /\ pc = "start" => since = began /\ now <= since + Pause
    /\ pc \in {"send", "check", "arm", "parse"} =>
          since <= began + Deadline + Pause /\ now <= since + Pause
    /\ pc = "arm" => remaining = began + Deadline - since
    /\ pc \in Blocked => until <= began + Deadline + Pause /\ now <= until
    /\ pc \in Finished => since <= began + Deadline + 2 * Pause

(* What the thread knows of the bytes it has.                              *)
BytesKnown ==
    /\ got <= answer.sent
    /\ pc \in {"idle", "start", "connect", "send"} => answer = NoAnswer
    /\ pc \in {"check", "arm", "recv"} => got <= MaxHead + Term + MaxBody
    /\ pc \in {"check", "arm", "recv", "parse"} /\ HeadKnown(answer, got) => ~HeadRefused(answer)
    /\ pc = "parse" /\ answer.own /\ answer.ok /\ answer.sent >= OwnHead + Term + OwnBody =>
          Whole(answer, got)

(* An answer of /status is one, and was fresh by the clock of the Pi.      *)
OwnIsOwn ==
    answer.own =>
        /\ answer.head = OwnHead /\ answer.declared = OwnBody /\ answer.closes
        /\ answer.sent <= OwnHead + Term + OwnBody
        /\ answer.valid = answer.ok
        /\ answer.ok => began - answer.at <= Stale + answer.setBack

IInv == TypeOK /\ InTime /\ BytesKnown /\ OwnIsOwn /\ JudgedRight
=============================================================================
