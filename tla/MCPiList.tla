------------------------------ MODULE MCPiList ------------------------------
(* Small instances of PiList: two spellings of one name, a pair that       *)
(* shares an address, and more entries than a list may hold.               *)
EXTENDS PiList, TLC

MCNames   == {"attic", "Attic", "barn", "cellar"}
MCIps     == {1, 2, 3}
MCFold    == [n \in MCNames |-> IF n = "Attic" THEN "attic" ELSE n]
MCEntries == {[name |-> "attic", ip |-> 1], [name |-> "Attic", ip |-> 2],
              [name |-> "barn", ip |-> 2], [name |-> "cellar", ip |-> 3]}
MCSelf    == [name |-> "barn", ip |-> 2]
Symmetry  == Permutations(Clients)
=============================================================================
