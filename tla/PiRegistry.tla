----------------------------- MODULE PiRegistry -----------------------------
(***************************************************************************)
(* What the Pi-list endpoints promise their clients: a request takes       *)
(* effect at one moment between its call and its answer, or not at all.    *)
(* "Refused" means it had no effect; an error leaves open whether it had.  *)
(* A list that is missing or damaged stays as it is.                       *)
(***************************************************************************)
EXTENDS PiEntries

CONSTANTS Clients, Missing, Bad

VARIABLES list, phase, req
vars == <<list, phase, req>>

Usable(l) == l \notin {Missing, Bad}

Init ==
    /\ list \in {Missing, Bad} \cup {l \in SUBSET Entries : ValidList(l)}
    /\ phase = [c \in Clients |-> "idle"]
    /\ req = [c \in Clients |-> [op |-> "get"]]

Move(c, from, to) == phase[c] = from /\ phase' = [phase EXCEPT ![c] = to]

Call(c) ==
    /\ Move(c, "idle", "called")
    /\ \E r \in Request : req' = [req EXCEPT ![c] = r]
    /\ UNCHANGED list

Take(c) ==
    /\ Usable(list) /\ ~Refused(req[c], list)
    /\ list' = Effect(req[c], list)
    /\ Move(c, "called", "taken")
    /\ UNCHANGED req

Refuse(c) ==
    /\ Usable(list) /\ Refused(req[c], list)
    /\ Move(c, "called", "refused")
    /\ UNCHANGED <<list, req>>

Fail(c) ==
    /\ Move(c, "called", "failed") \/ Move(c, "taken", "failed")
    /\ UNCHANGED <<list, req>>

(* "taken" is answered with success, "refused" with 409 or 404, "failed"   *)
(* with 500.                                                               *)
Answer(c) ==
    /\ \E p \in {"taken", "refused", "failed"} : Move(c, p, "idle")
    /\ req' = [req EXCEPT ![c] = [op |-> "get"]]
    /\ UNCHANGED list

(* The service goes down: nobody gets an answer.                           *)
Crash ==
    /\ phase' = [c \in Clients |-> "idle"]
    /\ req' = [c \in Clients |-> [op |-> "get"]]
    /\ UNCHANGED list

Next ==
    \/ \E c \in Clients : Call(c) \/ Take(c) \/ Refuse(c) \/ Fail(c) \/ Answer(c)
    \/ Crash

Spec == Init /\ [][Next]_vars
=============================================================================
