------------------------------- MODULE MCMain -------------------------------
(***************************************************************************)
(* Main for TLC: configurations that start, and each reason not to.         *)
(***************************************************************************)
EXTENDS Main

Plain == [incoming |-> {}, quic |-> {}, outgoing |-> {}, target |-> TRUE,
          fds |-> <<>>, names |-> <<>>]
Sock(name) == [listening |-> TRUE, type |-> "stream", family |-> "inet", name |-> name]
\* A datagram socket never listens, so it is skipped.
Dgram(name) == [listening |-> FALSE, type |-> "dgram", family |-> "inet", name |-> name]
Passed(fds) == [Plain EXCEPT !.fds = fds, !.names = [i \in 1..Len(fds) |-> fds[i].name]]

Seqpacket(name) == [Sock(name) EXCEPT !.type = "other", !.family = "unix"]

MCSetups ==
    {[Plain EXCEPT !.quic = {1}],
     Passed(<<Dgram("in"), Sock("out")>>),
     Passed(<<Seqpacket("other"), Sock("in")>>),
     [Plain EXCEPT !.incoming = {1}, !.outgoing = {1}, !.target = FALSE],
     Passed(<<Sock("out"), Sock("other")>>),
     [Passed(<<Sock("in")>>) EXCEPT !.names = <<>>],
     Plain}
=============================================================================
