------------------------------ MODULE Outgoing ------------------------------
(***************************************************************************)
(* One outgoing connection: handle_outgoing_connection (outgoing.rs) up to  *)
(* the relay, srv_connect and XmppConnection::connect (srv.rs) and          *)
(* starttls_connect (tls/outgoing.rs).                                      *)
(*                                                                         *)
(* The point of interest is in_filter.  The filter that reads the client is *)
(* lent to every attempt to reach a server, reads the servers' answers, and *)
(* goes back to reading the client.  It is modelled by its contract.        *)
(***************************************************************************)
EXTENDS StanzaContract, Integers, Sequences

CONSTANTS
    Nets    \* what the client's domain may look like: [records, good, faults]

\* records: srvs, sorted and never empty (Srv!Finish), each with its number of
\* addresses and whether a failed address is tried twice.  good: those whose servers all answer as XMPP
\* servers do.  faults: what other servers may do.  "partial": the stream ends,
\* breaks, turns illegal or grows too long inside a stanza; "long": a WebSocket
\* message is longer than the filter's buffer, though not than ws_cfg lets in;
\* "write": writing to the server fails after it was connected to.  Without
\* them a server may still refuse any step, hang up between stanzas, or send
\* stanzas that are not expected.
ASSUME NetsAssumption ==
    \A n \in Nets :
        /\ n.records \in Seq([kind : {"StartTLS", "DirectTLS", "QUIC", "WebTransport", "WebSocket"},
                              ips : Nat \ {0}, twice : BOOLEAN]) \ {<<>>}
        /\ \A i \in DOMAIN n.records :
              n.records[i].twice => n.records[i].kind \in {"WebTransport", "WebSocket"}
        /\ n.good \subseteq DOMAIN n.records
        /\ n.faults \subseteq {"partial", "long", "write"}

VARIABLES
    net,       \* the one of Nets it is
    client,    \* how the client connected: "stream" or "websocket"
    pc,        \* where handle_outgoing_connection is
    rec,       \* srv_connect: index of the record being tried
    ip,        \* connect: which of its addresses
    try,       \* connect: 2 on the second try of a WebSocket or WebTransport
    what,      \* the stanza in in_filter: what it starts with
    from,      \* whose bytes it is made of
    response,  \* stream_preamble's stream_open: whose bytes it is made of
    given      \* the last stanza relayed to the server: what it starts with,
               \* whose bytes it is, whether its end_of_first_tag is not its own

ovars == <<net, client, pc, rec, ip, try, what, from, response, given>>
vars == <<cvars, ovars>>

Records == net.records
GoodRecords == net.good
Faults == net.faults

Client == <<0, 0>>
Server == <<rec, ip>>
Kind == Records[rec].kind

\* The code tells stanzas apart by what they start with.
Stanzas == {"xml", "open", "features", "proceed", "other"}

Init ==
    /\ CInit
    /\ net \in Nets
    /\ client \in {"stream", "websocket"}
    /\ pc = "client_open"
    /\ rec = 0 /\ ip = 0 /\ try = 1
    /\ what = "other"
    /\ from = {}
    /\ response = {}
    /\ given = [kind |-> "open", from |-> {Client}, stale |-> FALSE]

-----------------------------------------------------------------------------
(* Reading through in_filter.                                              *)

\* Whose bytes the handler waits for, and whether they go through the filter:
\* WebSocketRead only borrows its buffer.
Peer == IF pc \in {"pre_tls", "response"} THEN Server ELSE Client
Streamed ==
    \/ pc = "pre_tls"
    \/ pc = "response" /\ Kind # "WebSocket"
    \/ pc \in {"client_open", "relay"} /\ client = "stream"
Messages ==
    \/ pc = "response" /\ Kind = "WebSocket"
    \/ pc \in {"client_open", "relay"} /\ client = "websocket"

\* A good server answers as it should and does not hang up.
Trusted == pc \in {"pre_tls", "response"} /\ rec \in GoodRecords
MayBreak == ~Trusted /\ (Peer = Client \/ "partial" \in Faults)
Mixed == mid /\ from # {Peer}
Says == CASE ~Trusted -> Stanzas
          [] Trusted /\ pc = "pre_tls" -> Stanzas \ {"other"}
          [] Trusted /\ pc = "response" -> {"xml", "open"}

\* StanzaRead::next reads a byte stream with next_eoft.  A mutant: with next.
StanzaRead_Next == "next"
StanzaRead == "next_eoft"

\* Bytes that complete nothing yet.
Feed ==
    /\ Streamed
    /\ \/ Skip /\ UNCHANGED <<what, from>>
       \/ Begin /\ ~full' /\ what' \in Says /\ from' = {Peer}
       \/ Continue /\ ~full' /\ from' = from \union {Peer} /\ UNCHANGED what
    /\ UNCHANGED <<pc, rec, ip, try, response, given>>

\* A read returns a stanza that starts with k.  One made of the bytes of two
\* peers may not start as the first of them meant it to.
Returns(k, reader) ==
    \/ /\ Streamed
       /\ Complete(reader)
       /\ from' = from \union {Peer}
       /\ k = what \/ (k = "other" /\ Mixed)
       /\ UNCHANGED what
    \/ /\ Messages
       /\ k \in Says
       /\ from' = IF mid THEN from \union {Peer} ELSE from
       /\ UNCHANGED <<cvars, what>>

\* Whose bytes that stanza is made of.
Returned == IF Streamed THEN from' ELSE {Peer}

\* A read returns None or an error; starttls_connect and stream_preamble do
\* not tell them apart.
ReturnsNothing ==
    /\ \/ /\ Streamed /\ (Mixed \/ MayBreak)
          /\ Refuse \/ (Continue /\ full')
          /\ from' = from \union {Peer}
       \/ /\ Streamed /\ ~Trusted /\ (mid => MayBreak)
          /\ End
          /\ UNCHANGED from
       \/ /\ Messages /\ ~Trusted
          /\ UNCHANGED <<cvars, from>>
    /\ UNCHANGED what

\* Reading on with a buffer that an earlier peer filled, and
\* filter.buf[0..stanza.len()] of a message longer than the buffer.  What a
\* client's own message brings down is only that client's connection.
ReadPanics ==
    /\ \/ Streamed /\ Panic /\ pc' = "panic"
       \/ /\ Messages /\ UNCHANGED cvars
          /\ \/ Peer = Client /\ pc' = "gone"
             \/ Peer = Server /\ ~Trusted /\ "long" \in Faults /\ pc' = "panic"
    /\ UNCHANGED <<rec, ip, try, what, from, response, given>>

-----------------------------------------------------------------------------
(* handle_outgoing_connection: the client's <stream:stream>.               *)

\* stream_preamble; a missing to=, or no record found, also ends here.
ClientOpen ==
    /\ pc = "client_open"
    /\ \/ Returns("xml", StanzaRead) /\ UNCHANGED <<pc, rec, ip>>
       \/ /\ Returns("open", StanzaRead)
          /\ \/ pc' = "gone" /\ UNCHANGED <<rec, ip>>
             \/ pc' = "connect" /\ rec' = 1 /\ ip' = 1
       \/ /\ \E k \in {"features", "proceed", "other"} : Returns(k, StanzaRead)
          /\ pc' = "gone" /\ UNCHANGED <<rec, ip>>
       \/ ReturnsNothing /\ pc' = "gone" /\ UNCHANGED <<rec, ip>>
    /\ UNCHANGED <<try, response, given>>

-----------------------------------------------------------------------------
(* srv_connect and what it calls.                                          *)

\* Mutants: the last record is not tried; one is tried that is not there.
NextRecord_OneLess ==
    /\ try' = 1
    /\ \/ rec < Len(Records) - 1 /\ pc' = "connect" /\ rec' = rec + 1 /\ ip' = 1
       \/ rec >= Len(Records) - 1 /\ pc' = "failed" /\ UNCHANGED <<rec, ip>>
NextRecord_OneMore ==
    try' = 1 /\ pc' = "connect" /\ rec' = rec + 1 /\ ip' = 1

\* The for loop over the records.
NextRecord ==
    /\ try' = 1
    /\ \/ rec < Len(Records) /\ pc' = "connect" /\ rec' = rec + 1 /\ ip' = 1
       \/ rec = Len(Records) /\ pc' = "failed" /\ UNCHANGED <<rec, ip>>

\* A mutant: the second try does not count.
NextAddress_Again ==
    \/ Records[rec].twice /\ try' = 3 - try /\ pc' = "connect" /\ UNCHANGED <<rec, ip>>
    \/ /\ ~Records[rec].twice
       /\ \/ /\ ip < Records[rec].ips
             /\ ip' = ip + 1 /\ try' = 1 /\ pc' = "connect" /\ UNCHANGED rec
          \/ ip = Records[rec].ips /\ NextRecord

\* connect: this address failed.  A secure WebSocket or WebTransport is tried
\* once more under the other name; then the loop over the addresses goes on.
NextAddress ==
    \/ Records[rec].twice /\ try = 1 /\ try' = 2 /\ pc' = "connect" /\ UNCHANGED <<rec, ip>>
    \/ /\ ~(Records[rec].twice /\ try = 1)
       /\ \/ /\ ip < Records[rec].ips
             /\ ip' = ip + 1 /\ try' = 1 /\ pc' = "connect" /\ UNCHANGED rec
          \/ ip = Records[rec].ips /\ NextRecord

\* A step of an attempt at an address: it leads to pc = then, or fails.  Under
\* the first of two names even a good server may refuse.
Step(then) ==
    \/ pc' = then /\ UNCHANGED <<rec, ip, try>>
    \/ /\ rec \notin GoodRecords \/ (Records[rec].twice /\ try = 1)
       /\ NextAddress

\* Up to where the server has to answer: the TCP connection, which the system
\* gives up on by itself, or a QUIC endpoint.  The open that starttls_connect
\* writes first may fail here; waiting for room for it is waiting in pre_tls.
StarttlsConnect == Kind = "StartTLS" /\ Step("pre_tls")
TlsConnect == Kind = "DirectTLS" /\ Step("handshake")
QuicConnect == Kind = "QUIC" /\ Step("handshake")
WebTransportConnect == Kind = "WebTransport" /\ Step("handshake")
WebSocketConnect == Kind = "WebSocket" /\ Step("handshake")

\* connect: the target is resolved first, which may fail; then the match on the
\* type of the connection.
Connect ==
    /\ pc = "connect"
    /\ \/ StarttlsConnect \/ TlsConnect \/ QuicConnect
       \/ WebTransportConnect \/ WebSocketConnect
       \/ rec \notin GoodRecords /\ ip = 1 /\ try = 1 /\ NextRecord
    /\ UNCHANGED <<cvars, what, from, response, given>>

\* starttls_connect: the conversation before TLS.
PreTls ==
    /\ pc = "pre_tls"
    /\ \/ /\ \E k \in {"xml", "open"} : Returns(k, "next")
          /\ UNCHANGED <<pc, rec, ip, try>>
       \/ /\ Returns("features", "next")
          /\ \/ UNCHANGED <<pc, rec, ip, try>>
             \/ "write" \in Faults /\ ~Trusted /\ NextAddress
       \/ Returns("proceed", "next") /\ pc' = "handshake" /\ UNCHANGED <<rec, ip, try>>
       \/ Returns("other", "next") /\ NextAddress
       \/ ReturnsNothing /\ NextAddress
    /\ UNCHANGED <<response, given>>

\* What the server has a part in, and as much time for as it likes: TLS; QUIC
\* and a stream; QUIC, a session and a stream; TLS and the upgrade.
TlsHandshake == Kind \in {"StartTLS", "DirectTLS"} /\ Step("send_open")
QuicHandshake == Kind = "QUIC" /\ Step("send_open")
WebTransportHandshake == Kind = "WebTransport" /\ Step("send_open")
WebSocketHandshake == Kind = "WebSocket" /\ Step("send_open")

Handshake ==
    /\ pc = "handshake"
    /\ \/ TlsHandshake \/ QuicHandshake
       \/ WebTransportHandshake \/ WebSocketHandshake
    /\ UNCHANGED <<cvars, what, from, response, given>>

\* A mutant: the response of the last server is still there.
SendOpen_Keeps ==
    /\ pc = "send_open"
    /\ pc' = "response"
    /\ UNCHANGED <<cvars, rec, ip, try, what, from, response, given>>

\* write_all(stream_open)?, flush()?: an error leaves srv_connect.  Then
\* stream_preamble starts with an empty stream_open.
SendOpen ==
    /\ pc = "send_open"
    /\ \/ pc' = "response" /\ response' = {}
       \/ /\ "write" \in Faults /\ rec \notin GoodRecords
          /\ pc' = "failed" /\ UNCHANGED response
    /\ UNCHANGED <<cvars, rec, ip, try, what, from, given>>

\* stream_preamble on the server's side.
Response ==
    /\ pc = "response"
    /\ \/ /\ Returns("xml", StanzaRead)
          /\ response' = response \union Returned /\ UNCHANGED <<pc, rec, ip, try>>
       \/ /\ Returns("open", StanzaRead)
          /\ response' = response \union Returned
          /\ pc' = "reply" /\ UNCHANGED <<rec, ip, try>>
       \/ /\ \E k \in {"features", "proceed", "other"} : Returns(k, StanzaRead)
          /\ NextRecord /\ UNCHANGED response
       \/ ReturnsNothing /\ NextRecord /\ UNCHANGED response
    /\ UNCHANGED given

-----------------------------------------------------------------------------
\* The server's <stream:stream> goes to the client, and the relay begins.
Reply ==
    /\ pc = "reply"
    /\ pc' \in {"relay", "gone"}
    /\ UNCHANGED <<cvars, rec, ip, try, what, from, response, given>>

\* The relay's first use of in_filter: the client's stanzas go to the server,
\* with the end_of_first_tag that next_eoft returned (0 for a WebSocket).
Relay ==
    /\ pc = "relay"
    /\ \E k \in Stanzas :
          /\ Returns(k, StanzaRead)
          /\ given' = [kind |-> k, from |-> Returned, stale |-> Streamed /\ stale]
    /\ UNCHANGED <<pc, rec, ip, try, response>>

Next ==
    /\ \/ Feed \/ ReadPanics
       \/ ClientOpen
       \/ Connect \/ PreTls \/ Handshake \/ SendOpen \/ Response
       \/ Reply \/ Relay
    /\ UNCHANGED <<net, client>>

\* tokio runs the task, and lookups and TCP connects are given up by themselves.
\* Everything else waits for a server or for the client, which need not answer
\* in a handshake, say anything, or read what is written.
Fairness == WF_vars(Connect /\ UNCHANGED <<net, client>>)

Spec == Init /\ [][Next]_vars /\ Fairness

-----------------------------------------------------------------------------
\* Every variable stays in its range; the record and the address being tried
\* are among srvs and its ips; what goes to the client is not its own.
TypeOK ==
    /\ {mid, full, marked, stale} \subseteq BOOLEAN
    /\ res \in {"none", "stanza", "err", "eof", "panic"}
    /\ pc \in {"client_open", "connect", "pre_tls", "handshake", "send_open",
               "response", "reply", "relay", "failed", "gone", "panic"}
    /\ rec \in 0..Len(Records)
    /\ rec # 0 => ip \in 1..Records[rec].ips
    /\ try \in {1, 2}
    /\ client \in {"stream", "websocket"}
    /\ what \in Stanzas
    /\ Client \notin response

\* "fallback to next SRV target or defaults as required to fully connect"
\* (README.orig.md:30): srv_connect gives up only when no record leads to a
\* server that answers properly.
FallbackReachesGoodServer ==
    pc \in {"failed", "panic"} => GoodRecords = {}

\* As long as no server breaks off inside a stanza, the <stream:stream> the
\* client gets is the connected server's alone, whatever earlier servers sent.
ResponseIsOneServers ==
    (pc = "reply" /\ "partial" \notin Faults) => response = {Server}

\* What a server that reads a byte stream gets in the relay is the client's
\* stanza and nothing else, with the end of its own first tag, even after
\* servers that broke off inside a stanza read through the same filter.
RelaysClientStanzas ==
    (pc = "relay" /\ Kind # "WebSocket") =>
        /\ given.from = {Client} /\ ~given.stale
        /\ Streamed /\ mid => from = {Client}

\* The walk over records, addresses and names ends: if nobody keeps the proxy
\* waiting for good, a client that asked to be connected gets an answer or is
\* hung up on.  The condition is needed, since no timeout guards a handshake,
\* the conversation with a server, or a write (tls/outgoing.rs:15, 36, 58,
\* websocket/outgoing.rs:25, 32, srv.rs:556, 559, outgoing.rs:38).
WalkEnds ==
    []<>(pc \notin {"pre_tls", "handshake", "send_open", "response", "reply"}) =>
        (pc = "connect" ~> pc \in {"relay", "failed", "gone", "panic"})

\* "otherwise add proper xmlns before end of tag" (websocket/mod.rs:97):
\* to_ws_new is handed the position where the first tag of this very stanza
\* ends.
XmlnsGoesBeforeEndOfTag ==
    (pc = "relay" /\ Kind = "WebSocket" /\ given.kind \notin {"xml", "open"}) => ~given.stale
=============================================================================
