--------------------------- MODULE IncomingProofs ---------------------------
(***************************************************************************)
(* Proofs about Incoming, for every set of domains, every choice of targets *)
(* and any number of stanzas relayed.                                       *)
(***************************************************************************)
EXTENDS Incoming, SequenceTheorems, TLAPS

\* What is written to the server behind, and how its bytes came.
Message == [is : {"proxy", "open", "stanza"}, by : SUBSET {"tls"}]

\* What was written to the server behind, by where the handler is.
SentInv ==
    /\ sent \in Seq(Message)
    /\ pc \in {"sniff", "pre_tls", "discard", "accept", "sniff_ws", "accept_ws", "session",
               "preamble", "verify", "connect", "send_proxy"} => sent = <<>>
    /\ pc = "send_proxy" => Proxy
    /\ pc = "send_open" => Len(sent) = IF Proxy THEN 1 ELSE 0
    /\ pc = "relay" => Len(sent) >= IF Proxy THEN 2 ELSE 1

\* Past the verification of an s2s stream its domain is a certified one.
AuthInv ==
    ~is_c2s /\ (pc \in {"connect", "send_proxy", "send_open", "relay"} \/ sent # <<>>)
        => Domain \in cert /\ Domain # NoDomain

\* A stanza is in progress only while one is read, and inside TLS it came
\* inside TLS.
MidInv ==
    mid => /\ pc \in {"pre_tls", "preamble", "relay", "closed"}
           /\ pc \in {"preamble", "relay"} => ~ws /\ from = {"tls"}

\* The stream's open is kept from bytes that came inside TLS.
OpenInv == open \subseteq {"tls"}

\* The inductive invariant.
IndInv == TypeOK /\ SentInv /\ AuthInv /\ MidInv /\ OpenInv

-----------------------------------------------------------------------------
(* Lemmas.                                                                  *)

\* What appending one message does to the messages written.
LEMMA Appended ==
    ASSUME SentInv, NEW m \in Message, sent' = Append(sent, m)
    PROVE  /\ sent' \in Seq(Message) /\ Len(sent') = Len(sent) + 1
           /\ Len(sent) \in Nat /\ DOMAIN sent = 1..Len(sent)
           /\ DOMAIN sent' = 1..(Len(sent) + 1)
           /\ \A i \in DOMAIN sent : sent'[i] = sent[i]
           /\ sent'[Len(sent) + 1] = m
           /\ sent' # <<>>
  BY AppendProperties, LenProperties DEF SentInv

\* The messages come in the order TypeOK names.
Is(i) == CASE Proxy /\ i = 1 -> "proxy"
           [] i = (IF Proxy THEN 2 ELSE 1) -> "open"
           [] OTHER -> "stanza"

LEMMA AppendedInOrder ==
    ASSUME TypeOK, SentInv, NEW m \in Message, sent' = Append(sent, m),
           m.is = Is(Len(sent) + 1)
    PROVE  \A i \in DOMAIN sent' : sent'[i].is = Is(i)
  <1>1. \A i \in DOMAIN sent : sent[i].is = Is(i)
    BY DEF TypeOK, Is
  <1> QED
    BY <1>1, Appended

\* A read leaves the filter, and what is known of its stanza, in range; a
\* stanza that it returns inside TLS came inside TLS.
ReadOK ==
    /\ {mid, full, marked, stale} \subseteq BOOLEAN
    /\ what \in Stanzas
    /\ from \subseteq {"plain", "tls"}

LEMMA ReturnsKeeps ==
    ASSUME TypeOK, MidInv, NEW k, NEW by, NEW reader, Returns(k, by, reader)
    PROVE  /\ ReadOK'
           /\ pc # "pre_tls" => by = {"tls"}
           /\ ~mid'
  <1>1. CASE Streamed /\ Complete(reader) /\ by = from \union {Channel} /\ from' = by
             /\ UNCHANGED what
    <2>1. mid /\ ~mid' /\ full' = full /\ stale' = stale /\ marked' \in BOOLEAN
      BY <1>1 DEF Complete
    <2>2. Channel \in {"plain", "tls"} /\ (pc # "pre_tls" => Channel = "tls" /\ from = {"tls"})
      BY <1>1, <2>1 DEF Channel, Streamed, MidInv
    <2>3. mid' \in BOOLEAN
      BY <1>1 DEF Complete
    <2> QED
      BY <1>1, <2>1, <2>2, <2>3 DEF TypeOK, ReadOK
  <1>2. CASE Messages /\ by = {"tls"} /\ UNCHANGED <<cvars, what, from>>
    BY <1>2 DEF TypeOK, ReadOK, MidInv, Messages, cvars
  <1> QED
    BY <1>1, <1>2 DEF Returns

LEMMA ReturnsNothingKeeps ==
    ASSUME TypeOK, MidInv, ReturnsNothing
    PROVE  /\ ReadOK'
           /\ pc # "pre_tls" /\ mid' => ~ws /\ from' = {"tls"}
  BY DEF TypeOK, ReadOK, MidInv, ReturnsNothing, Refuse, Continue, End, Streamed, Messages,
         Channel, cvars

-----------------------------------------------------------------------------
(* The inductive invariant.                                                 *)

\* Nothing was written yet.
LEMMA NothingSent ==
    ASSUME NEW q, q = <<>>
    PROVE  q \in Seq(Message) /\ DOMAIN q = {} /\ Len(q) = 0
  BY EmptySeq

\* No open was read yet: nothing in it looks like a from=.
LEMMA NoNames == <<>> \in Opens
  <1>1. <<>> \in [1..0 -> Place] /\ DOMAIN <<>> = {}
    OBVIOUS
  <1>2. 0 \in 0..MaxNames
    BY IncomingAssumption
  <1> QED
    BY <1>1, <1>2 DEF Opens

\* The domain verified is a matter of the open alone.
LEMMA DomainStays == ASSUME UNCHANGED names PROVE Domain' = Domain
  BY DEF Domain, First, Found

LEMMA InitIndInv == Init => IndInv
  <1> SUFFICES ASSUME Init
               PROVE  IndInv
    OBVIOUS
  <1>1. sent \in Seq(Message) /\ DOMAIN sent = {}
    BY NothingSent DEF Init
  <1>2. TypeOK
    BY <1>1, NoNames DEF Init, CInit, TypeOK, Stanzas, Certs
  <1>3. SentInv /\ AuthInv /\ MidInv /\ OpenInv
    BY <1>1 DEF Init, CInit, SentInv, AuthInv, MidInv, OpenInv
  <1> QED
    BY <1>2, <1>3 DEF IndInv

LEMMA NextIndInv == IndInv /\ [Next]_vars => IndInv'
  <1> SUFFICES ASSUME IndInv, [Next]_vars
               PROVE  IndInv'
    OBVIOUS
  <1> USE IncomingAssumption DEF IndInv
  <1>1. CASE Sniff
    BY <1>1, DomainStays, EmptySeq DEF Sniff, cvars, TypeOK, SentInv, AuthInv, MidInv, OpenInv, Certs, Stanzas
  <1>2. CASE Discard
    BY <1>2, DomainStays, EmptySeq DEF Discard, cvars, TypeOK, SentInv, AuthInv, MidInv, OpenInv, Certs, Stanzas
  <1>3. CASE Accept
    BY <1>3, DomainStays, EmptySeq DEF Accept, cvars, TypeOK, SentInv, AuthInv, MidInv, OpenInv, Certs, Stanzas
  <1>4. CASE SniffWs
    BY <1>4, DomainStays, EmptySeq DEF SniffWs, cvars, TypeOK, SentInv, AuthInv, MidInv, OpenInv, Certs, Stanzas
  <1>5. CASE AcceptWs
    BY <1>5, DomainStays, EmptySeq DEF AcceptWs, cvars, TypeOK, SentInv, AuthInv, MidInv, OpenInv, Certs, Stanzas
  <1>6. CASE AcceptQuic
    BY <1>6, DomainStays, EmptySeq DEF AcceptQuic, cvars, TypeOK, SentInv, AuthInv, MidInv, OpenInv, Certs, Stanzas
  <1>7. CASE AcceptSession
    BY <1>7, DomainStays, EmptySeq DEF AcceptSession, cvars, TypeOK, SentInv, AuthInv, MidInv, OpenInv, Certs, Stanzas
  <1>8. CASE NewStream
    <2>1. sent' \in Seq(Message) /\ DOMAIN sent' = {}
      BY <1>8, NothingSent DEF NewStream
    <2>2. TypeOK'
      BY <1>8, <2>1, NoNames DEF NewStream, TypeOK, Stanzas
    <2>3. SentInv' /\ AuthInv' /\ MidInv' /\ OpenInv'
      BY <1>8, <2>1 DEF NewStream, SentInv, AuthInv, MidInv, OpenInv
    <2> QED
      BY <2>2, <2>3
  <1>9. CASE Verify
    BY <1>9, DomainStays, EmptySeq DEF Verify, cvars, TypeOK, SentInv, AuthInv, MidInv, OpenInv, Certs, Stanzas
  <1>10. CASE Connect
    BY <1>10, DomainStays, EmptySeq DEF Connect, cvars, TypeOK, SentInv, AuthInv, MidInv, OpenInv, Certs, Stanzas
  <1>11. CASE Feed
    <2>1. TypeOK' /\ OpenInv'
      BY <1>11 DEF Feed, Skip, Begin, Continue, Channel, TypeOK, OpenInv
    <2>2. SentInv' /\ AuthInv'
      BY <1>11, DomainStays DEF Feed, SentInv, AuthInv
    <2>3. MidInv'
      BY <1>11 DEF Feed, Skip, Begin, Continue, Channel, Streamed, MidInv
    <2> QED
      BY <2>1, <2>2, <2>3
  <1>12. CASE PreTls
    <2>1. ReadOK' /\ (pc' = "closed" \/ ~mid')
      BY <1>12, ReturnsKeeps, ReturnsNothingKeeps DEF PreTls
    <2>2. TypeOK' /\ OpenInv'
      BY <1>12, <2>1 DEF PreTls, ReadOK, TypeOK, OpenInv
    <2>3. SentInv' /\ AuthInv'
      BY <1>12, DomainStays DEF PreTls, SentInv, AuthInv
    <2>4. MidInv'
      BY <1>12, <2>1 DEF PreTls, MidInv
    <2> QED
      BY <2>2, <2>3, <2>4
  <1>13. CASE Preamble
    <2>1. /\ ReadOK' /\ (pc' = "closed" \/ ~mid')
          /\ open' \subseteq open \union {"tls"}
      BY <1>13, ReturnsKeeps, ReturnsNothingKeeps DEF Preamble
    <2>2. TypeOK'
      BY <1>13, <2>1 DEF Preamble, ReadOK, TypeOK
    <2>3. SentInv' /\ AuthInv'
      BY <1>13 DEF Preamble, SentInv, AuthInv
    <2>4. MidInv' /\ OpenInv'
      BY <1>13, <2>1 DEF Preamble, MidInv, OpenInv
    <2> QED
      BY <2>2, <2>3, <2>4
  <1>14. CASE SendProxy
    <2>1. CASE pc' = "closed" /\ UNCHANGED sent
      BY <1>14, <2>1, DomainStays DEF SendProxy, cvars, TypeOK, SentInv, AuthInv, MidInv, OpenInv
    <2>2. CASE pc' = "send_open" /\ sent' = Append(sent, [is |-> "proxy", by |-> {}])
      <3>1. [is |-> "proxy", by |-> {}] \in Message /\ Proxy /\ Len(sent) = 0
        BY <1>14, NothingSent DEF SendProxy, Message, SentInv
      <3>2. /\ sent' \in Seq(Message) /\ Len(sent') = 1
            /\ \A i \in DOMAIN sent' : sent'[i].is = Is(i)
        BY <2>2, <3>1, Appended, AppendedInOrder DEF Is
      <3>3. TypeOK'
        BY <1>14, <2>2, <3>2 DEF SendProxy, cvars, TypeOK, Is
      <3>4. SentInv' /\ AuthInv' /\ MidInv' /\ OpenInv'
        BY <1>14, <2>2, <3>1, <3>2, DomainStays DEF SendProxy, cvars, SentInv, AuthInv, MidInv, OpenInv
      <3> QED
        BY <3>3, <3>4
    <2> QED
      BY <1>14, <2>1, <2>2 DEF SendProxy
  <1>15. CASE SendOpen
    <2>1. CASE pc' = "closed" /\ UNCHANGED sent
      BY <1>15, <2>1, DomainStays DEF SendOpen, cvars, TypeOK, SentInv, AuthInv, MidInv, OpenInv
    <2>2. CASE pc' = "relay" /\ sent' = Append(sent, [is |-> "open", by |-> open])
      <3>1. [is |-> "open", by |-> open] \in Message /\ Len(sent) = IF Proxy THEN 1 ELSE 0
        BY <1>15 DEF SendOpen, Message, SentInv, OpenInv
      <3>2. /\ sent' \in Seq(Message) /\ Len(sent') = IF Proxy THEN 2 ELSE 1
            /\ \A i \in DOMAIN sent' : sent'[i].is = Is(i)
        BY <2>2, <3>1, Appended, AppendedInOrder DEF Is
      <3>3. TypeOK'
        BY <1>15, <2>2, <3>2 DEF SendOpen, cvars, TypeOK, Is
      <3>4. SentInv' /\ AuthInv' /\ MidInv' /\ OpenInv'
        BY <1>15, <2>2, <3>1, <3>2, DomainStays DEF SendOpen, cvars, SentInv, AuthInv, MidInv, OpenInv
      <3> QED
        BY <3>3, <3>4
    <2> QED
      BY <1>15, <2>1, <2>2 DEF SendOpen
  <1>16. CASE Relay
    <2>1. PICK k \in Stanzas, by \in By :
             /\ Returns(k, by, "next_eoft")
             /\ sent' = Append(sent, [is |-> "stanza", by |-> by])
      BY <1>16 DEF Relay
    <2>2. ReadOK' /\ by = {"tls"} /\ ~mid'
      BY <1>16, <2>1, ReturnsKeeps DEF Relay
    <2>3. /\ [is |-> "stanza", by |-> by] \in Message
          /\ Len(sent) \in Nat /\ Len(sent) >= IF Proxy THEN 2 ELSE 1
      BY <1>16, <2>2, LenProperties DEF Relay, Message, SentInv
    <2>4. /\ sent' \in Seq(Message) /\ Len(sent') = Len(sent) + 1 /\ sent' # <<>>
          /\ \A i \in DOMAIN sent' : sent'[i].is = Is(i)
      BY <2>1, <2>3, Appended, AppendedInOrder DEF Is
    <2>5. TypeOK'
      BY <1>16, <2>2, <2>4 DEF Relay, ReadOK, TypeOK, Is
    <2>6. SentInv' /\ AuthInv' /\ MidInv' /\ OpenInv'
      BY <1>16, <2>2, <2>3, <2>4, DomainStays DEF Relay, SentInv, AuthInv, MidInv, OpenInv
    <2> QED
      BY <2>5, <2>6
  <1>17. CASE RelayFails
    <2>1. ReadOK' /\ (mid' => ~ws /\ from' = {"tls"})
      BY <1>17, ReturnsNothingKeeps DEF RelayFails, Panic, TypeOK, ReadOK, MidInv
    <2>2. TypeOK' /\ OpenInv'
      BY <1>17, <2>1 DEF RelayFails, ReadOK, TypeOK, OpenInv
    <2>3. SentInv' /\ AuthInv' /\ MidInv'
      BY <1>17, <2>1, DomainStays DEF RelayFails, SentInv, AuthInv, MidInv
    <2> QED
      BY <2>2, <2>3
  <1>18. CASE UNCHANGED vars
    BY <1>18, DomainStays DEF vars, cvars, ivars, TypeOK, SentInv, AuthInv, MidInv, OpenInv
  <1> QED
    BY <1>1, <1>2, <1>3, <1>4, <1>5, <1>6, <1>7, <1>8, <1>9, <1>10, <1>11, <1>12, <1>13,
       <1>14, <1>15, <1>16, <1>17, <1>18 DEF Next

-----------------------------------------------------------------------------
(* What it implies.                                                         *)

LEMMA IndInvHolds == Spec => []IndInv
  BY InitIndInv, NextIndInv, PTL DEF Spec

\* The server behind gets the PROXY header first, if at all, and once, then
\* the stream's open, then stanzas (open_incoming, common/incoming.rs:164-206).
THEOREM TypeCorrect == Spec => []TypeOK
  <1>1. IndInv => TypeOK
    BY DEF IndInv
  <1> QED
    BY <1>1, IndInvHolds, PTL

\* No s2s stream reaches the server behind, on any stream of a connection,
\* unless the certificate of its handshake is valid for the domain that the
\* search finds in its open; and where nothing but the attribute looks like a
\* from=, that is the domain the server behind reads (common/incoming.rs:136-148,
\* 204).
THEOREM S2sAuthenticated == Spec => []S2sIsAuthenticated
  <1>1. IndInv => S2sIsAuthenticated
    <2> SUFFICES ASSUME IndInv, sent # <<>>, ~is_c2s
                 PROVE  /\ Domain \in cert
                        /\ (\A i \in DOMAIN names : names[i].is = "from") => Claims = {Domain}
      BY DEF S2sIsAuthenticated
    <2>1. Domain \in cert /\ Domain # NoDomain
      BY DEF IndInv, AuthInv
    <2>2. ASSUME \A i \in DOMAIN names : names[i].is = "from"
          PROVE  Claims = {Domain}
      <3>1. \A i, j \in DOMAIN names : i = j
        BY <2>2 DEF IndInv, TypeOK, Opens
      <3>2. PICK needle \in {"apos", "quot"} : Found(needle) # {} /\ Domain = First(needle)
        BY <2>1 DEF Domain
      <3>3. PICK i \in DOMAIN names : i \in Found(needle)
        BY <3>2 DEF Found
      <3>4. DOMAIN names \subseteq Int
        BY DEF IndInv, TypeOK, Opens
      <3>5. Found(needle) = {i}
        BY <3>1, <3>3 DEF Found
      <3>6. Domain = names[i].domain
        BY <3>2, <3>3, <3>4, <3>5 DEF First
      <3> QED
        BY <2>2, <3>1, <3>3, <3>6 DEF Claims
    <2> QED
      BY <2>1, <2>2
  <1> QED
    BY <1>1, IndInvHolds, PTL

\* Nothing that was sent before TLS gets into what is relayed, nor into a
\* stanza in progress inside TLS (tls/incoming.rs:60-134).
THEOREM PlaintextOut == Spec => []PlaintextStaysOut
  <1>1. IndInv => PlaintextStaysOut
    <2> SUFFICES ASSUME IndInv
                 PROVE  PlaintextStaysOut
      OBVIOUS
    <2>1. \A i \in DOMAIN sent : sent[i] \in Message
      BY ElementOfSeq, LenProperties DEF IndInv, SentInv
    <2>2. \A i \in DOMAIN sent : "plain" \notin sent[i].by
      BY <2>1 DEF Message
    <2>3. pc \in {"preamble", "relay"} /\ mid => from = {"tls"}
      BY DEF IndInv, MidInv
    <2> QED
      BY <2>2, <2>3 DEF PlaintextStaysOut
  <1> QED
    BY <1>1, IndInvHolds, PTL

\* The filter's buffer is borrowed only while no stanza is in it
\* (tls/incoming.rs:55, 118, common/incoming.rs:191, in_out.rs:97).
THEOREM ScratchUnused == Spec => []ScratchIsUnused
  <1>1. IndInv => ScratchIsUnused
    BY DEF IndInv, MidInv, Messages, ScratchIsUnused
  <1> QED
    BY <1>1, IndInvHolds, PTL
=============================================================================
