----------------------------- MODULE MCOutgoing -----------------------------
(***************************************************************************)
(* Outgoing for TLC: what a domain's records may look like once sorted, and *)
(* how its servers may behave.                                              *)
(***************************************************************************)
EXTENDS Outgoing

Record(kind, ips, twice) == [kind |-> kind, ips |-> ips, twice |-> twice]

\* A StartTLS server with two addresses, one with Direct TLS, and a WebSocket
\* that the old host-meta names under a host of its own, which sorts last.
MCRecords == << Record("StartTLS", 2, FALSE), Record("DirectTLS", 1, FALSE),
                Record("WebSocket", 1, TRUE) >>

\* Byte streams only.
MCStreamRecords == << Record("StartTLS", 2, FALSE), Record("QUIC", 1, FALSE),
                      Record("WebTransport", 1, TRUE) >>

Net(records, good, faults) == [records |-> records, good |-> good, faults |-> faults]

\* A WebSocket before a byte stream.
MCMessageRecords == << Record("WebSocket", 1, FALSE), Record("DirectTLS", 1, FALSE) >>

\* Servers that refuse, hang up and say the unexpected before the good one, the
\* last; servers that also break off anywhere; and ones that send messages
\* which are too long.
MCNets == {Net(MCRecords, {3}, {}), Net(MCStreamRecords, {}, {"partial", "write"}),
           Net(MCMessageRecords, {}, {"partial", "long"})}

MCBreaking == {Net(MCRecords, {2}, {"partial"})}
MCCalm == {Net(MCRecords, {3}, {})}
=============================================================================
