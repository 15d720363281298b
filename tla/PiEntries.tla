------------------------------ MODULE PiEntries ------------------------------
(***************************************************************************)
(* Lists of managed Pis and what one request does to a list: app/state.py  *)
(* and the bodies of the Pi-list endpoints of app/dashboard.py.            *)
(*                                                                         *)
(* An entry is what normalize_pi accepts, its port left out: no rule looks *)
(* at it.  A list is the set of its entries: normalize_pi_list rejects     *)
(* repetitions, and no rule looks at the order.                            *)
(***************************************************************************)
EXTENDS Integers, FiniteSets

CONSTANTS
    Names,      \* names NAME_PATTERN accepts
    Ips,        \* canonical private addresses
    Fold,       \* casefold
    Entries,    \* the entries requests are made with
    MaxPis      \* MAX_PIS

ASSUME EntriesAssumption ==
    /\ Entries \subseteq [name : Names, ip : Ips]
    /\ IsFiniteSet(Entries)
ASSUME MaxPisAssumption == MaxPis \in Nat \ {0}

Conflict(p, q) == p.ip = q.ip \/ Fold[p.name] = Fold[q.name]

(* What normalize_pi_list accepts.                                         *)
ValidList(l) ==
    /\ l \subseteq Entries
    /\ Cardinality(l) <= MaxPis
    /\ \A p, q \in l : Conflict(p, q) => p = q

(* GET /get_pi_list (and the read of /fleet-status), POST /add_pi,         *)
(* /edit_pi and /delete_pi, once the input was found well formed.          *)
Request == [op : {"get"}] \cup [op : {"add"}, entry : Entries]
           \cup [op : {"edit"}, ip : Ips, entry : Entries] \cup [op : {"delete"}, ip : Ips]

At(ip, l) == {p \in l : p.ip = ip}

(* Slip: an added entry is not counted.                                    *)
RefusedUncounted(r, l) ==
    \/ r.op = "add" /\ \E p \in l : Conflict(p, r.entry)
    \/ /\ r.op = "edit"
       /\ At(r.ip, l) = {} \/ \E p \in l \ At(r.ip, l) : Conflict(p, r.entry)
    \/ r.op = "delete" /\ At(r.ip, l) = {}

(* The 409 and 404 answers.                                                *)
Refused(r, l) ==
    \/ /\ r.op = "add"
       /\ Cardinality(l) >= MaxPis \/ \E p \in l : Conflict(p, r.entry)
    \/ /\ r.op = "edit"
       /\ At(r.ip, l) = {} \/ \E p \in l \ At(r.ip, l) : Conflict(p, r.entry)
    \/ r.op = "delete" /\ At(r.ip, l) = {}

(* Slip: an edit renames an entry and leaves its address.                  *)
EffectRenames(r, l) ==
    IF r.op = "add" THEN l \cup {r.entry}
    ELSE IF r.op = "edit" THEN (l \ At(r.ip, l)) \cup {[r.entry EXCEPT !.ip = r.ip]}
    ELSE IF r.op = "delete" THEN l \ At(r.ip, l) ELSE l

Effect(r, l) ==
    IF r.op = "add" THEN l \cup {r.entry}
    ELSE IF r.op = "edit" THEN (l \ At(r.ip, l)) \cup {r.entry}
    ELSE IF r.op = "delete" THEN l \ At(r.ip, l) ELSE l

(* update_self: the entries it keeps beside its own.                       *)
Others(self, l) == {p \in l : ~Conflict(p, self)}
=============================================================================
