------------------------------- MODULE PiList -------------------------------
(***************************************************************************)
(* The managed Pi list: its file, the endpoints of app/dashboard.py that   *)
(* read and rewrite it under data_lock, atomic_write_json of app/config.py *)
(* with its failures, and the writers that know nothing of that lock - the *)
(* installer's update_self (install.sh runs it after it has restarted the  *)
(* web service) and a hand that edits the file.                            *)
(***************************************************************************)
EXTENDS PiEntries

CONSTANTS
    Clients,        \* request threads
    Nobody,         \* no thread
    Missing, Bad,   \* the file does not exist; the file is not a valid list
    Self,           \* the entry the installer writes
    Installer,      \* does an installer run?
    Tampering       \* is the file edited by hand?

ASSUME SentinelAssumption ==
    /\ Missing # Bad /\ \A l \in SUBSET Entries : l # Missing /\ l # Bad
    /\ Nobody \notin Clients
ASSUME SelfAssumption == Self \in Entries
ASSUME SwitchAssumption == Installer \in BOOLEAN /\ Tampering \in BOOLEAN

VARIABLES
    file,       \* pi_list.json: a list, Missing or Bad
    lock,       \* data_lock: its holder, or Nobody
    pc, req,    \* per thread: position and request
    seen,       \* per thread: pis, as read under the lock
    res,        \* per thread: the answer
    inst,       \* where update_self is: "idle" or "write"
    instSeen    \* the entries update_self keeps

threads == <<lock, pc, req, seen, res>>
vars    == <<file, threads, inst, instSeen>>

Usable(l) == l \notin {Missing, Bad}
Lists     == {l \in SUBSET Entries : ValidList(l)}
NoRequest == [op |-> "get"]

Init ==
    /\ file \in {Missing, Bad} \cup Lists
    /\ lock = Nobody
    /\ pc = [c \in Clients |-> "idle"] /\ req = [c \in Clients |-> NoRequest]
    /\ seen = [c \in Clients |-> {}] /\ res = [c \in Clients |-> "none"]
    /\ inst = "idle" /\ instSeen = {}

-----------------------------------------------------------------------------
(* The web service.                                                        *)

Call(c) ==
    /\ pc[c] = "idle"
    /\ \E r \in Request : req' = [req EXCEPT ![c] = r]
    /\ pc' = [pc EXCEPT ![c] = "enter"]
    /\ UNCHANGED <<file, lock, seen, res, inst, instSeen>>

Respond(c, answer) ==
    /\ pc' = [pc EXCEPT ![c] = "reply"]
    /\ res' = [res EXCEPT ![c] = answer]

(* Slip: the list is read without the lock.                                *)
EnterUnlocked(c) ==
    /\ pc[c] = "enter" /\ Usable(file)
    /\ \/ /\ Refused(req[c], file) \/ req[c].op = "get"
          /\ Respond(c, IF Refused(req[c], file) THEN "refused" ELSE "ok")
          /\ UNCHANGED <<lock, seen>>
       \/ /\ ~Refused(req[c], file) /\ req[c].op # "get"
          /\ lock' = c
          /\ seen' = [seen EXCEPT ![c] = file]
          /\ pc' = [pc EXCEPT ![c] = "write"]
          /\ UNCHANGED res
    /\ UNCHANGED <<file, req, inst, instSeen>>

(* Take the lock, read the list, decide.  Unless there is something to     *)
(* write, the with block is left at once.                                  *)
Enter(c) ==
    /\ pc[c] = "enter" /\ lock = Nobody
    /\ \/ /\ ~Usable(file)
          /\ Respond(c, "error")
          /\ UNCHANGED <<lock, seen>>
       \/ /\ Usable(file) /\ Refused(req[c], file)
          /\ Respond(c, "refused")
          /\ UNCHANGED <<lock, seen>>
       \/ /\ Usable(file) /\ req[c].op = "get"
          /\ Respond(c, "ok")
          /\ UNCHANGED <<lock, seen>>
       \/ /\ Usable(file) /\ ~Refused(req[c], file) /\ req[c].op # "get"
          /\ lock' = c
          /\ seen' = [seen EXCEPT ![c] = file]
          /\ pc' = [pc EXCEPT ![c] = "write"]
          /\ UNCHANGED res
    /\ UNCHANGED <<file, req, inst, instSeen>>

(* Slip: a write that fails keeps the lock.                                *)
WriteKeepsLock(c) ==
    /\ pc[c] = "write"
    /\ \/ file' = Effect(req[c], seen[c]) /\ pc' = [pc EXCEPT ![c] = "sync"] /\ UNCHANGED res
       \/ Respond(c, "error") /\ UNCHANGED file
    /\ UNCHANGED <<lock, req, seen, inst, instSeen>>

(* atomic_write_json up to os.replace; it can fail before (disk full).     *)
Write(c) ==
    /\ pc[c] = "write"
    /\ \/ /\ file' = Effect(req[c], seen[c])
          /\ pc' = [pc EXCEPT ![c] = "sync"]
          /\ UNCHANGED <<lock, res>>
       \/ /\ Respond(c, "error")
          /\ lock' = Nobody
          /\ UNCHANGED file
    /\ UNCHANGED <<req, seen, inst, instSeen>>

(* The fsync of the directory; its failure is reported although the new    *)
(* list is in place.                                                       *)
Sync(c) ==
    /\ pc[c] = "sync"
    /\ \E answer \in {"ok", "error"} : Respond(c, answer)
    /\ lock' = Nobody
    /\ UNCHANGED <<file, req, seen, inst, instSeen>>

Reply(c) ==
    /\ pc[c] = "reply"
    /\ pc' = [pc EXCEPT ![c] = "idle"] /\ req' = [req EXCEPT ![c] = NoRequest]
    /\ seen' = [seen EXCEPT ![c] = {}] /\ res' = [res EXCEPT ![c] = "none"]
    /\ UNCHANGED <<file, lock, inst, instSeen>>

(* The process is killed or restarted.                                     *)
Crash ==
    /\ lock' = Nobody
    /\ pc' = [c \in Clients |-> "idle"] /\ req' = [c \in Clients |-> NoRequest]
    /\ seen' = [c \in Clients |-> {}] /\ res' = [c \in Clients |-> "none"]
    /\ UNCHANGED <<file, inst, instSeen>>

-----------------------------------------------------------------------------
(* Writers outside the lock.                                               *)

(* Slip: a damaged list is taken for an empty one.                         *)
SelfReadForgiving ==
    /\ Installer /\ inst = "idle"
    /\ LET kept == Others(Self, IF file \in {Missing, Bad} THEN {} ELSE file)
       IN  Cardinality(kept) < MaxPis /\ instSeen' = kept
    /\ inst' = "write"
    /\ UNCHANGED <<file, threads>>

(* update_self reads; on a bad list, or when there is no room, it raises.  *)
SelfRead ==
    /\ Installer /\ inst = "idle" /\ file # Bad
    /\ LET kept == Others(Self, IF file = Missing THEN {} ELSE file)
       IN  /\ Cardinality(kept) < MaxPis
           /\ instSeen' = kept
    /\ inst' = "write"
    /\ UNCHANGED <<file, threads>>

SelfWrite ==
    /\ inst = "write"
    /\ file' \in {file, instSeen \cup {Self}}       \* file: the write fails
    /\ inst' = "idle" /\ instSeen' = {}
    /\ UNCHANGED threads

Tamper ==
    /\ Tampering
    /\ file' \in {Missing, Bad} \cup Lists
    /\ UNCHANGED <<threads, inst, instSeen>>

Web  == (\E c \in Clients : Call(c) \/ Enter(c) \/ Write(c) \/ Sync(c) \/ Reply(c)) \/ Crash
Next == Web \/ SelfRead \/ SelfWrite \/ Tamper

Spec == Init /\ [][Next]_vars

(* A thread in the with block runs on (no fairness for anything else).     *)
FairSpec == Spec /\ \A c \in Clients : WF_vars(Write(c)) /\ WF_vars(Sync(c))

-----------------------------------------------------------------------------
(* Properties.                                                             *)

(* The types of all variables of the list and its writers; the entries of  *)
(* the file are entries that a request or the installer came with.         *)
TypeOK ==
    /\ file \in {Missing, Bad} \cup SUBSET Entries
    /\ lock \in Clients \cup {Nobody}
    /\ pc \in [Clients -> {"idle", "enter", "write", "sync", "reply"}]
    /\ req \in [Clients -> Request]
    /\ seen \in [Clients -> SUBSET Entries]
    /\ res \in [Clients -> {"none", "ok", "refused", "error"}]
    /\ inst \in {"idle", "write"} /\ instSeen \in SUBSET Entries

(* Whatever the interleaving of requests, crashes, the installer and hand  *)
(* edits: no writer of this code leaves a list that the next read rejects  *)
(* (repeated address, repeated name up to case, too many).                 *)
FileValid == Usable(file) => ValidList(file)

(* One request at a time is between its read and the end of its write.     *)
Exclusive ==
    \A c \in Clients : pc[c] \in {"write", "sync"} <=> lock = c

(* What the writers keep in hand is fit to be written back.                *)
HandsValid ==
    /\ \A c \in Clients : pc[c] = "write" =>
          ValidList(seen[c]) /\ ~Refused(req[c], seen[c])
    /\ inst = "write" => ValidList(instSeen \cup {Self})

(* Without other writers, what a thread read is still there when it writes.*)
FileIsSeen ==
    /\ inst = "idle"
    /\ \A c \in Clients : pc[c] = "write" => file = seen[c] /\ Usable(file)

IInv == TypeOK /\ FileValid /\ Exclusive /\ HandsValid

(* A damaged list is kept for a human to look at (state.py:79, "without    *)
(* discarding bad state"): no endpoint and no update_self takes it as its  *)
(* starting point, and only one that had read the list before the damage   *)
(* can still replace it.                                                   *)
BadIsKept ==
    [][file = Bad =>
          /\ inst' = "write" => inst = "write"
          /\ \A c \in Clients : pc'[c] = "write" => pc[c] = "write"
          /\ file' # Bad => \/ Tamper \/ inst = "write"
                           \/ \E c \in Clients : pc[c] = "write"]_vars

(* Each write of an endpoint is the effect of its request on the list as   *)
(* it is at that moment: no acknowledged change of another writer is lost. *)
NoLostUpdate ==
    [][\A c \in Clients :
          pc[c] = "write" /\ pc'[c] = "sync" => file' = Effect(req[c], file)]_vars

(* The endpoints are an atomic registry to their clients, as long as no    *)
(* one else writes the file.                                               *)
Phase(c) ==
    IF pc[c] \in {"enter", "write"} THEN "called"
    ELSE IF pc[c] = "sync" \/ (pc[c] = "reply" /\ res[c] = "ok") THEN "taken"
    ELSE IF pc[c] = "idle" THEN "idle"
    ELSE IF res[c] = "refused" THEN "refused" ELSE "failed"

Registry == INSTANCE PiRegistry
    WITH list <- file, phase <- [c \in Clients |-> Phase(c)]

ImplementsRegistry == Registry!Spec

(* A failing write never leaves data_lock behind, so the next request gets *)
(* its turn.                                                               *)
LockReleased == lock # Nobody ~> lock = Nobody
=============================================================================
