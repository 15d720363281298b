---------------------------- MODULE MCPeerStatus ----------------------------
(* A small instance of PeerStatus.                                         *)
EXTENDS PeerStatus

Plain == [head |-> 1, ok |-> TRUE, declared |-> 1, sent |-> 2 + Term, closes |-> FALSE,
          valid |-> TRUE, own |-> FALSE, at |-> 0, setBack |-> 0]

\* a program that never ends its header, one with a header at its limit,
\* one whose body is longer than it says, one that is too long to take,
\* one that says no length
Others ==
    {[Plain EXCEPT !.head = 20, !.sent = 20], [Plain EXCEPT !.head = MaxHead, !.sent = MaxHead + Term + 1],
     [Plain EXCEPT !.sent = @ + 2],
     [Plain EXCEPT !.declared = MaxBody + 1, !.sent = MaxBody + 2 + Term],
     [Plain EXCEPT !.declared = -1, !.closes = TRUE]}
=============================================================================
