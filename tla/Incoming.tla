------------------------------ MODULE Incoming ------------------------------
(***************************************************************************)
(* One incoming connection, up to and into the relay to the XMPP server     *)
(* behind the proxy: handle_tls_connection (tls/incoming.rs: Direct TLS,    *)
(* STARTTLS, WebSocket), handle_quic_session and                            *)
(* handle_webtransport_session (streams of one connection), then            *)
(* shuffle_rd_wr_filter and open_incoming (common/incoming.rs).             *)
(*                                                                         *)
(* One in_filter reads the plaintext before STARTTLS, lends its buffer to   *)
(* the sniffers and the PROXY header, and reads the stanzas inside TLS that *)
(* the server behind will take for authenticated.  It is modelled by its    *)
(* contract.                                                                *)
(***************************************************************************)
EXTENDS StanzaContract, Integers, Sequences

CONSTANTS
    Domains,      \* what a peer may claim in from=
    MaxNames,     \* bound: places in an open that look like a from=
    Targets,      \* which of c2s_target, s2s_target are configured
    Proxy,        \* config.proxy
    MaxRelayed    \* bound: stanzas relayed

ASSUME IncomingAssumption ==
    /\ "none" \notin Domains /\ "no_from" \notin Domains
    /\ MaxNames \in Nat
    /\ Targets \subseteq {"c2s", "s2s"}
    /\ Proxy \in BOOLEAN
    /\ MaxRelayed \in Nat

VARIABLES
    transport,   \* "tcp", or "quic" or "webtransport": many streams, one handshake
    pc,          \* where the handler is
    ws,          \* the stream is a WebSocket
    what,        \* the stanza in in_filter: what it starts with
    from,        \* how its bytes came: {"plain"}, {"tls"} or both
    cert,        \* server_certs: the domains the peer's certificate is valid for,
                 \* or {"none"} if it sent none
    is_c2s,      \* from the stream's xmlns
    names,       \* the places of stream_open that look like a from=, in order
    open,        \* stream_preamble's stream_open: how its bytes came
    sent         \* what was written to the server behind

ivars == <<transport, pc, ws, what, from, cert, is_c2s, names, open, sent>>
vars == <<cvars, ivars>>

Stanzas == {"xml", "open", "starttls", "other"}
Certs == (SUBSET Domains) \union {{"none"}}
NoDomain == "no_from"

\* A place that looks like a from=.  is: the attribute itself, or some other
\* text, such as the value of another attribute.  needle: which of the two
\* needles is found there, " from='" or " from=" and a double quote; "no": neither,
\* the attribute being written with other blanks, which XML allows.
Place == [is : {"from"}, needle : {"apos", "quot", "no"}, domain : Domains]
           \union [is : {"text"}, needle : {"apos", "quot"}, domain : Domains]

\* What the declaration and the open may hold; an attribute stands there once.
Opens == {o \in UNION {[1..n -> Place] : n \in 0..MaxNames} :
            \A i, j \in DOMAIN o : o[i].is = "from" /\ o[j].is = "from" => i = j}

Init ==
    /\ CInit
    /\ transport \in {"tcp", "quic", "webtransport"}
    /\ pc = IF transport = "tcp" THEN "sniff" ELSE "accept"
    /\ ws = FALSE
    /\ what = "other" /\ from = {}
    /\ cert = {"none"}
    /\ is_c2s = TRUE /\ names = <<>>
    /\ open = {} /\ sent = <<>>

-----------------------------------------------------------------------------
(* Reading through in_filter.                                              *)

Channel == IF pc = "pre_tls" THEN "plain" ELSE "tls"
Streamed == pc = "pre_tls" \/ (pc \in {"preamble", "relay"} /\ ~ws)
Messages == pc \in {"preamble", "relay"} /\ ws

Feed ==
    /\ Streamed
    /\ \/ Skip /\ UNCHANGED <<what, from>>
       \/ Begin /\ ~full' /\ what' \in Stanzas /\ from' = {Channel}
       \/ Continue /\ ~full' /\ from' = from \union {Channel} /\ UNCHANGED what
    /\ UNCHANGED <<transport, pc, ws, cert, is_c2s, names, open, sent>>

\* A read returns a stanza that starts with k, made of what came over `by`.
Returns(k, by, reader) ==
    \/ /\ Streamed
       /\ Complete(reader)
       /\ k = what
       /\ by = from \union {Channel}
       /\ from' = by /\ UNCHANGED what
    \/ /\ Messages
       /\ by = {"tls"}
       /\ UNCHANGED <<cvars, what, from>>

\* A read returns None or an error, which the callers do not tell apart.  A
\* message longer than the buffer panics, which also ends the task.
ReturnsNothing ==
    \/ /\ Streamed
       /\ \/ (Refuse \/ (Continue /\ full')) /\ from' = from \union {Channel}
          \/ End /\ UNCHANGED from
       /\ UNCHANGED what
    \/ Messages /\ UNCHANGED <<cvars, what, from>>

By == {{"plain"}, {"tls"}, {"plain", "tls"}}

-----------------------------------------------------------------------------
(* handle_tls_connection.                                                  *)

\* Three bytes are peeked at, in the filter's buffer.
Sniff ==
    /\ pc = "sniff"
    /\ pc' \in {"accept", "pre_tls", "closed"}
    /\ UNCHANGED <<cvars, transport, ws, what, from, cert, is_c2s, names, open, sent>>

\* A mutant: the loop's end is not checked for proceed_sent.
PreTls_Unchecked ==
    /\ pc = "pre_tls"
    /\ \/ \E k \in {"xml", "open"} : Returns(k, {"plain"}, "next") /\ UNCHANGED pc
       \/ Returns("starttls", {"plain"}, "next") /\ pc' = "discard"
       \/ ReturnsNothing /\ pc' = "discard"
    /\ UNCHANGED <<transport, ws, cert, is_c2s, names, open, sent>>

\* The STARTTLS conversation.  Every answer is written and flushed, which may
\* fail.
PreTls ==
    /\ pc = "pre_tls"
    /\ \/ \E k \in {"xml", "open"} : Returns(k, {"plain"}, "next") /\ pc' \in {"pre_tls", "closed"}
       \/ Returns("starttls", {"plain"}, "next") /\ pc' \in {"discard", "closed"}
       \/ Returns("other", {"plain"}, "next") /\ pc' = "closed"
       \/ ReturnsNothing /\ pc' = "closed"
    /\ UNCHANGED <<transport, ws, cert, is_c2s, names, open, sent>>

\* Bytes before the TLS handshake are read into the filter's buffer and
\* dropped; peeking at the next may fail.
Discard ==
    /\ pc = "discard"
    /\ pc' \in {"discard", "accept", "closed"}
    /\ UNCHANGED <<cvars, transport, ws, what, from, cert, is_c2s, names, open, sent>>

\* The handshake, with a certificate, any certificate, or none.
Accept ==
    /\ pc = "accept" /\ transport = "tcp"
    /\ \/ cert' \in Certs /\ pc' = "sniff_ws"
       \/ pc' = "refused" /\ UNCHANGED cert
    /\ UNCHANGED <<cvars, transport, ws, what, from, is_c2s, names, open, sent>>

\* "GET" inside TLS makes it a WebSocket.
SniffWs ==
    /\ pc = "sniff_ws"
    /\ \/ ws' \in BOOLEAN /\ pc' = IF ws' THEN "accept_ws" ELSE "preamble"
       \/ pc' = "closed" /\ UNCHANGED ws
    /\ UNCHANGED <<cvars, transport, what, from, cert, is_c2s, names, open, sent>>

\* handle_websocket_connection: the upgrade, then on with the same filter.
AcceptWs ==
    /\ pc = "accept_ws"
    /\ pc' \in {"preamble", "closed"}
    /\ UNCHANGED <<cvars, transport, ws, what, from, cert, is_c2s, names, open, sent>>

-----------------------------------------------------------------------------
(* QUIC and WebTransport.                                                  *)

\* The handshake; the ALPN says which of the two it is.
AcceptQuic ==
    /\ pc = "accept" /\ transport # "tcp"
    /\ \/ cert' \in Certs /\ pc' = IF transport = "quic" THEN "preamble" ELSE "session"
       \/ pc' = "refused" /\ UNCHANGED cert
    /\ UNCHANGED <<cvars, transport, ws, what, from, is_c2s, names, open, sent>>

\* handle_webtransport_session: the request, and our answer to it.
AcceptSession ==
    /\ pc = "session"
    /\ pc' \in {"preamble", "refused"}
    /\ UNCHANGED <<cvars, transport, ws, what, from, cert, is_c2s, names, open, sent>>

\* A QUIC or WebTransport connection brings another stream: a task of its own
\* with a filter of its own (shuffle_rd_wr), and the same server_certs.
NewStream ==
    /\ transport # "tcp" /\ pc \notin {"accept", "session", "refused"}
    /\ pc' = "preamble"
    /\ mid' = FALSE /\ full' = FALSE /\ marked' = FALSE /\ stale' = FALSE /\ res' = "none"
    /\ what' = "other" /\ from' = {}
    /\ is_c2s' = TRUE /\ names' = <<>>
    /\ open' = {} /\ sent' = <<>>
    /\ UNCHANGED <<transport, ws, cert>>

-----------------------------------------------------------------------------
(* shuffle_rd_wr_filter.                                                   *)

\* stream_preamble: the stream's open says whether this is c2s or s2s and, in
\* from=, who calls; nobody has parsed it.
Preamble ==
    /\ pc = "preamble"
    /\ \/ \E by \in By : /\ Returns("xml", by, "next_eoft")
                         /\ open' = open \union by
                         /\ UNCHANGED <<pc, is_c2s, names>>
       \/ \E by \in By : /\ Returns("open", by, "next_eoft")
                         /\ open' = open \union by
                         /\ is_c2s' \in BOOLEAN
                         /\ names' \in Opens
                         /\ pc' = IF is_c2s' THEN "connect" ELSE "verify"
       \/ /\ \E k \in {"starttls", "other"}, by \in By : Returns(k, by, "next_eoft")
          /\ pc' = "closed" /\ UNCHANGED <<is_c2s, names, open>>
       \/ ReturnsNothing /\ pc' = "closed" /\ UNCHANGED <<is_c2s, names, open>>
    /\ UNCHANGED <<transport, ws, cert, sent>>

\* extract_between: what follows the first of the needles.
Found(needle) == {i \in DOMAIN names : names[i].needle = needle}
First(needle) == names[CHOOSE i \in Found(needle) : \A j \in Found(needle) : i <= j].domain

\* The domain that is looked up and verified: the first " from='" anywhere in
\* the declaration and the open, or else the first with a double quote.
Domain ==
    CASE Found("apos") # {} -> First("apos")
      [] Found("apos") = {} /\ Found("quot") # {} -> First("quot")
      [] OTHER -> NoDomain

\* A mutant: any certificate that is valid will do.
Verify_AnyDomain ==
    /\ pc = "verify"
    /\ \/ Domain # NoDomain /\ cert # {"none"} /\ cert # {} /\ pc' = "connect"
       \/ pc' = "closed"
    /\ UNCHANGED <<cvars, transport, ws, what, from, cert, is_c2s, names, open, sent>>

\* s2s: the certificate must be there and be valid for that domain, as
\* get_xmpp_connections and verify_cert find out; the lookups may fail.
Verify ==
    /\ pc = "verify"
    /\ \/ Domain # NoDomain /\ Domain \in cert /\ pc' = "connect"
       \/ pc' = "closed"
    /\ UNCHANGED <<cvars, transport, ws, what, from, cert, is_c2s, names, open, sent>>

\* open_incoming, in its three steps: connect to the target ...
Connect ==
    /\ pc = "connect"
    /\ \/ /\ (IF is_c2s THEN "c2s" ELSE "s2s") \in Targets
          /\ pc' = IF Proxy THEN "send_proxy" ELSE "send_open"
       \/ pc' = "closed"
    /\ UNCHANGED <<cvars, transport, ws, what, from, cert, is_c2s, names, open, sent>>

\* A mutant: the header is written once more.
SendProxy_Again ==
    /\ pc = "send_proxy"
    /\ \/ pc' \in {"send_proxy", "send_open"} /\ sent' = Append(sent, [is |-> "proxy", by |-> {}])
       \/ pc' = "closed" /\ UNCHANGED sent
    /\ UNCHANGED <<cvars, transport, ws, what, from, cert, is_c2s, names, open>>

\* ... write the PROXY header, put together in the filter's buffer ...
SendProxy ==
    /\ pc = "send_proxy"
    /\ \/ pc' = "send_open" /\ sent' = Append(sent, [is |-> "proxy", by |-> {}])
       \/ pc' = "closed" /\ UNCHANGED sent
    /\ UNCHANGED <<cvars, transport, ws, what, from, cert, is_c2s, names, open>>

\* ... and the peer's own stream open.
SendOpen ==
    /\ pc = "send_open"
    /\ \/ pc' = "relay" /\ sent' = Append(sent, [is |-> "open", by |-> open])
       \/ pc' = "closed" /\ UNCHANGED sent
    /\ UNCHANGED <<cvars, transport, ws, what, from, cert, is_c2s, names, open>>

\* The relay's first use of in_filter: the peer's stanzas.
Relay ==
    /\ pc = "relay"
    /\ \E k \in Stanzas, by \in By :
          /\ Returns(k, by, "next_eoft")
          /\ Len(sent) < MaxRelayed + 2
          /\ sent' = Append(sent, [is |-> "stanza", by |-> by])
    /\ UNCHANGED <<transport, pc, ws, cert, is_c2s, names, open>>

\* The end of the stream ends the relay; after an error it may read on, which
\* panics if the stanza filled the buffer.
RelayFails ==
    /\ pc = "relay"
    /\ \/ ReturnsNothing
       \/ Streamed /\ Panic /\ UNCHANGED <<what, from>>
    /\ pc' \in {"relay", "closed"}
    /\ Streamed /\ res' \in {"eof", "panic"} => pc' = "closed"
    /\ UNCHANGED <<transport, ws, cert, is_c2s, names, open, sent>>

Next ==
    \/ Feed
    \/ Sniff \/ PreTls \/ Discard \/ Accept \/ SniffWs \/ AcceptWs
    \/ AcceptQuic \/ AcceptSession \/ NewStream
    \/ Preamble \/ Verify \/ Connect \/ SendProxy \/ SendOpen
    \/ Relay \/ RelayFails

Spec == Init /\ [][Next]_vars
-----------------------------------------------------------------------------
\* Every variable stays in its range; the server behind gets the PROXY header
\* first, if at all, and once, then the stream's open, then stanzas.
TypeOK ==
    /\ {mid, full, marked, stale, ws, is_c2s} \subseteq BOOLEAN
    /\ pc \in {"sniff", "pre_tls", "discard", "accept", "sniff_ws", "accept_ws",
               "session", "preamble", "verify", "connect", "send_proxy", "send_open",
               "relay", "closed", "refused"}
    /\ what \in Stanzas
    /\ from \subseteq {"plain", "tls"}
    /\ cert \in Certs
    /\ names \in Opens
    /\ \A i \in DOMAIN sent :
          sent[i].is = (CASE Proxy /\ i = 1 -> "proxy"
                          [] i = (IF Proxy THEN 2 ELSE 1) -> "open"
                          [] OTHER -> "stanza")

\* The from= that the server behind reads in the open, which is an XML parser
\* and gets it as it is.
Claims == {names[i].domain : i \in {j \in DOMAIN names : names[j].is = "from"}}

\* "for s2s require a client cert and validate it correctly"
\* (README.orig.md:20): the server behind never hears of an s2s stream whose
\* domain, as the proxy reads it, the peer's certificate is not valid for, not
\* even on a later stream of a connection whose first stream was in order.  The
\* server behind reads the same domain, in whatever quotes and blanks it is
\* written, if nothing else in the open looks like a from=; the condition is
\* needed, as the search takes such a text for the attribute
\* (common/incoming.rs:138-141).
S2sIsAuthenticated ==
    (sent # <<>> /\ ~is_c2s) =>
        /\ Domain \in cert
        /\ (\A i \in DOMAIN names : names[i].is = "from") => Claims = {Domain}

\* Nothing that came before TLS is part of what the server behind is told, nor
\* of a stanza that is still to be completed inside TLS: the filter that read
\* it holds none of it once the handshake begins.
PlaintextStaysOut ==
    /\ \A i \in DOMAIN sent : "plain" \notin sent[i].by
    /\ pc \in {"preamble", "relay"} /\ mid => from = {"tls"}

\* Whenever the filter's buffer is borrowed (by a peek, for a dropped byte, for
\* the PROXY header, for a WebSocket message) no stanza is in progress in it.
\* This is what StanzaFilter!ScratchUse assumes.
ScratchIsUnused ==
    pc \in {"sniff", "discard", "send_proxy"} \/ Messages => ~mid
=============================================================================
