--------------------------- MODULE OutgoingProofs ---------------------------
(***************************************************************************)
(* Proofs about Outgoing, for every domain: any records, any number of      *)
(* addresses, and servers that do whatever Nets lets them.                  *)
(***************************************************************************)
EXTENDS Outgoing, SequenceTheorems, TLAPS

\* Between the client's open and the relay: the record being tried exists.
Walking == pc \in {"connect", "pre_tls", "handshake", "send_open", "response", "reply"}
PlaceInv ==
    /\ net \in Nets
    /\ pc = "client_open" => rec = 0
    /\ Walking \/ pc = "relay" => rec # 0

\* The client's open has left nothing in the filter when the walk begins, so
\* that no server's answer holds any of it.
ClientInv ==
    /\ pc = "client_open" /\ mid => client = "stream"
    /\ Walking /\ mid => Client \notin from

\* A server that reads a byte stream answered through the filter, and left
\* neither a stanza nor an end_of_first_tag in it.
ReplyInv ==
    /\ pc \notin {"relay", "panic", "gone"} \/ Kind # "WebSocket" => given.from = {Client} /\ ~given.stale
    /\ pc = "reply" /\ Kind # "WebSocket" => ~mid /\ ~marked
    /\ pc = "relay" /\ Kind # "WebSocket" =>
          /\ mid => client = "stream" /\ ~stale /\ from = {Client}
          /\ ~mid => ~marked

\* Where no server breaks off inside a stanza, one in progress is of the peer
\* being read, and the answer of the server being tried.
CleanInv ==
    "partial" \notin Faults =>
        /\ mid /\ pc # "gone" => Streamed /\ from = {Peer}
        /\ full => pc = "gone"
        /\ pc = "response" => response \subseteq {Server}
        /\ pc = "reply" => response = {Server}

\* Where nothing else fails either, no good record is passed over.
WalkInv ==
    Faults = {} =>
        /\ Walking => \A g \in GoodRecords : rec <= g
        /\ mid /\ Trusted => what \in Says
        /\ pc = "failed" => GoodRecords = {}
        /\ pc # "panic"

\* The inductive invariant.
IndInv == TypeOK /\ PlaceInv /\ ClientInv /\ ReplyInv /\ CleanInv /\ WalkInv

-----------------------------------------------------------------------------
(* Lemmas.                                                                  *)

\* What is known of the domain's records.
LEMMA NetFacts ==
    ASSUME PlaceInv
    PROVE  /\ Len(Records) \in Nat \ {0}
           /\ DOMAIN Records = 1..Len(Records)
           /\ \A r \in 1..Len(Records) : /\ Records[r].ips \in Nat \ {0}
                                         /\ Records[r].twice \in BOOLEAN
           /\ GoodRecords \subseteq 1..Len(Records)
  <1> DEFINE R == [kind : {"StartTLS", "DirectTLS", "QUIC", "WebTransport", "WebSocket"},
                   ips : Nat \ {0}, twice : BOOLEAN]
  <1>1. Records \in Seq(R) /\ Records # <<>> /\ GoodRecords \subseteq DOMAIN Records
    BY NetsAssumption DEF PlaceInv, Records, GoodRecords
  <1>2. Len(Records) \in Nat /\ DOMAIN Records = 1..Len(Records)
    BY <1>1, LenProperties
  <1>3. Len(Records) # 0
    BY <1>1, <1>2, EmptySeq
  <1>4. \A r \in 1..Len(Records) : Records[r] \in R
    BY <1>1, <1>2, ElementOfSeq
  <1> QED
    BY <1>1, <1>2, <1>3, <1>4

\* Where the walk goes when an address, or a record, has failed.
LEMMA WalkFacts ==
    ASSUME TypeOK, PlaceInv, Walking, UNCHANGED net, NextAddress \/ NextRecord
    PROVE  /\ pc' \in {"connect", "failed"}
           /\ rec' \in 1..Len(Records) /\ ip' \in 1..Records[rec'].ips /\ try' \in {1, 2}
           /\ pc' = "connect" => rec' \in {rec, rec + 1}
           /\ pc' = "failed" => rec = Len(Records)
  BY NetFacts DEF TypeOK, PlaceInv, NextAddress, NextRecord, Records

\* The filter and its stanza stay in range.
ReadOK ==
    /\ {mid, full, marked, stale} \subseteq BOOLEAN
    /\ res \in {"none", "stanza", "err", "eof", "panic"}
    /\ what \in Stanzas

LEMMA ReturnsFacts ==
    ASSUME TypeOK, NEW k, NEW reader, Returns(k, reader)
    PROVE  /\ ReadOK' /\ what' = what /\ full' = full /\ stale' = stale
           /\ Streamed \/ Messages
           /\ Streamed => /\ mid /\ ~full /\ ~mid' /\ from' = from \union {Peer}
                          /\ reader # "next" => ~marked'
                          /\ k = what \/ Mixed
           /\ Messages => k \in Says /\ UNCHANGED <<mid, marked>>
           /\ mid' => from' = from \union {Peer}
  <1>1. ~(Streamed /\ Messages)
    BY DEF Streamed, Messages
  <1>2. CASE Streamed /\ Complete(reader) /\ from' = from \union {Peer} /\ UNCHANGED what
             /\ (k = what \/ (k = "other" /\ Mixed))
    <2>1. mid /\ ~full /\ mid' = FALSE /\ full' = full /\ stale' = stale /\ marked' \in BOOLEAN
          /\ res' = "stanza" /\ (reader # "next" => ~marked')
      BY <1>2 DEF Complete
    <2> QED
      BY <1>1, <1>2, <2>1 DEF TypeOK, ReadOK
  <1>3. CASE Messages /\ k \in Says /\ UNCHANGED <<cvars, what>>
             /\ from' = IF mid THEN from \union {Peer} ELSE from
    BY <1>1, <1>3 DEF TypeOK, ReadOK, cvars
  <1> QED
    BY <1>2, <1>3 DEF Returns

LEMMA ReturnsNothingFacts ==
    ASSUME TypeOK, ReturnsNothing
    PROVE  /\ ReadOK' /\ what' = what
           /\ from' \in {from, from \union {Peer}}
           /\ ~Trusted \/ Mixed
           /\ mid' = mid
           /\ ~full' \/ full \/ Mixed \/ MayBreak
           /\ Mixed \/ MayBreak \/ ~mid \/ Messages
  BY DEF TypeOK, ReadOK, ReturnsNothing, Refuse, Continue, End, cvars, MayBreak

\* Going on to the next address or record keeps the invariant, where the
\* filter is left as the next server may find it.
LEMMA WalkKeepsIndInv ==
    ASSUME IndInv, Walking, NextAddress \/ NextRecord,
           UNCHANGED <<net, client, response, given>>, ReadOK',
           mid' => Client \notin from',
           "partial" \notin Faults => ~mid' /\ ~full',
           Faults = {} => rec \notin GoodRecords \/ (rec' = rec /\ pc' = "connect")
    PROVE  IndInv'
  <1>1. /\ pc' \in {"connect", "failed"}
        /\ rec' \in 1..Len(Records) /\ ip' \in 1..Records[rec'].ips /\ try' \in {1, 2}
        /\ pc' = "connect" => rec' \in {rec, rec + 1}
        /\ pc' = "failed" => rec = Len(Records)
    BY WalkFacts DEF IndInv
  <1>2. TypeOK'
    BY <1>1, NetFacts DEF IndInv, TypeOK, ReadOK, Records
  <1>3. PlaceInv' /\ ClientInv' /\ ReplyInv'
    BY <1>1, NetFacts DEF IndInv, PlaceInv, ClientInv, ReplyInv, Walking
  <1>4. CleanInv'
    BY <1>1 DEF CleanInv, Faults
  <1>5. WalkInv'
    <2>1. rec \in Nat /\ GoodRecords \subseteq 1..Len(Records) /\ Len(Records) \in Nat
      BY NetFacts DEF IndInv, TypeOK
    <2>2. Faults = {} => \A g \in GoodRecords : g \in Nat /\ rec <= g /\ g <= Len(Records)
      BY <2>1 DEF IndInv, WalkInv
    <2>3. Faults = {} /\ Walking' => \A g \in GoodRecords : rec' <= g
      BY <1>1, <2>1, <2>2 DEF Walking
    <2>4. Faults = {} /\ pc' = "failed" => GoodRecords = {}
      BY <1>1, <2>1, <2>2
    <2> QED
      BY <1>1, <2>3, <2>4 DEF WalkInv, Faults, GoodRecords, Trusted
  <1> QED
    BY <1>2, <1>3, <1>4, <1>5 DEF IndInv

-----------------------------------------------------------------------------
(* The inductive invariant.                                                 *)

LEMMA InitIndInv == Init => IndInv
  <1> SUFFICES ASSUME Init
               PROVE  IndInv
    OBVIOUS
  <1>1. PlaceInv
    BY DEF Init, PlaceInv, Walking
  <1>2. TypeOK
    <2>1. {mid, full, marked, stale} \subseteq BOOLEAN
      BY DEF Init, CInit
    <2>2. rec = 0 /\ rec \in 0..Len(Records)
      BY <1>1, NetFacts DEF Init
    <2> QED
      BY <2>1, <2>2 DEF Init, CInit, TypeOK, Stanzas
  <1>3. ClientInv /\ ReplyInv /\ CleanInv /\ WalkInv
    <2>1. mid = FALSE /\ full = FALSE /\ pc = "client_open" /\ given.from = {Client} /\ ~given.stale
      BY DEF Init, CInit
    <2> QED
      BY <2>1 DEF ClientInv, ReplyInv, CleanInv, WalkInv, Walking
  <1> QED
    BY <1>1, <1>2, <1>3 DEF IndInv

LEMMA NextIndInv == IndInv /\ [Next]_vars => IndInv'
  <1> SUFFICES ASSUME IndInv, [Next]_vars
               PROVE  IndInv'
    OBVIOUS
  <1>a. CASE UNCHANGED vars
    <2>1. /\ UNCHANGED <<cvars, net, client, pc, rec, ip, try, what, from, response, given>>
          /\ UNCHANGED <<Records, GoodRecords, Faults, Server, Kind>>
      BY <1>a DEF vars, ovars, Records, GoodRecords, Faults, Server, Kind
    <2>2. UNCHANGED <<Peer, Streamed, Trusted, Walking>>
      BY <2>1 DEF Peer, Streamed, Trusted, Walking
    <2>3. UNCHANGED Says
      BY <2>1, <2>2 DEF Says
    <2> QED
      BY <2>1, <2>2, <2>3 DEF cvars, IndInv, TypeOK, PlaceInv, ClientInv, ReplyInv, CleanInv, WalkInv
  <1> SUFFICES ASSUME Next
               PROVE  IndInv'
    BY <1>a
  <1>0. UNCHANGED <<net, client>> /\ Records' = Records /\ GoodRecords' = GoodRecords
        /\ Faults' = Faults
    BY DEF Next, Records, GoodRecords, Faults
  <1>1. CASE Feed
    <2>a. Says \subseteq Stanzas
      BY DEF Says, Stanzas, Trusted
    <2>1. ReadOK'
      BY <1>1, <2>a DEF Feed, Skip, Begin, Continue, IndInv, TypeOK, ReadOK
    <2>2. TypeOK' /\ PlaceInv'
      BY <1>0, <1>1, <2>1 DEF Feed, IndInv, TypeOK, ReadOK, PlaceInv, Walking
    <2>3. UNCHANGED <<Peer, Streamed, Trusted, Says, Kind, Walking, Server>>
      BY <1>0, <1>1 DEF Feed, Peer, Streamed, Trusted, Says, Kind, Walking, Server
    <2>4. Walking => Peer = Server /\ Peer # Client
      BY <1>1 DEF Feed, Peer, Streamed, Walking, Server, Client, IndInv, PlaceInv
    <2>5. ClientInv'
      BY <1>0, <1>1, <2>3, <2>4 DEF Feed, Skip, Begin, Continue, IndInv, ClientInv, Streamed
    <2>6. ReplyInv'
      BY <1>0, <1>1, <2>3 DEF Feed, Skip, Begin, Continue, IndInv, ReplyInv, Streamed, Peer
    <2>7. CleanInv'
      BY <1>0, <1>1, <2>3 DEF Feed, Skip, Begin, Continue, IndInv, CleanInv
    <2>8. WalkInv'
      BY <1>0, <1>1, <2>3 DEF Feed, Skip, Begin, Continue, IndInv, WalkInv
    <2> QED
      BY <2>2, <2>5, <2>6, <2>7, <2>8 DEF IndInv
  <1>2. CASE ReadPanics
    <2>1. /\ UNCHANGED <<rec, ip, try, what, from, response, given>> /\ pc \notin {"gone", "panic"}
          /\ UNCHANGED <<mid, full, marked, stale>> /\ ReadOK' /\ Kind' = Kind
      BY <1>0, <1>2 DEF ReadPanics, Panic, cvars, Kind, IndInv, TypeOK, ReadOK, Streamed, Messages
    <2>2. \/ /\ pc' = "panic" /\ (pc = "relay" => Streamed)
             /\ ("partial" \in Faults /\ Streamed) \/ ("long" \in Faults /\ Messages)
          \/ pc' = "gone"
      BY <1>2 DEF ReadPanics, Panic, IndInv, CleanInv, Streamed, Messages, Peer, Client, Server,
                  PlaceInv
    <2>3. TypeOK' /\ PlaceInv' /\ ClientInv'
      BY <1>0, <2>1, <2>2 DEF IndInv, TypeOK, ReadOK, PlaceInv, ClientInv, Walking
    <2>4. ReplyInv'
      BY <1>0, <2>1, <2>2 DEF IndInv, ReplyInv
    <2>5. CleanInv'
      <3>1. Messages => ~Streamed
        BY DEF Messages, Streamed
      <3> QED
        BY <1>0, <2>1, <2>2, <3>1 DEF IndInv, CleanInv
    <2>6. WalkInv'
      BY <1>0, <2>2 DEF WalkInv, Walking, Trusted
    <2> QED
      BY <2>3, <2>4, <2>5, <2>6 DEF IndInv
  <1>3. CASE ClientOpen
    <2>1. /\ pc = "client_open" /\ UNCHANGED <<try, response, given>> /\ rec = 0 /\ Peer = Client
          /\ ~Trusted /\ (Messages <=> client = "websocket")
      BY <1>3 DEF ClientOpen, IndInv, PlaceInv, Peer, Trusted, Messages, TypeOK
    <2>2. CASE \E k : Returns(k, StanzaRead) /\ (pc' = "connect" => rec' = 1 /\ ip' = 1)
                      /\ (pc' # "connect" => UNCHANGED <<rec, ip>>)
                      /\ pc' \in {"client_open", "gone", "connect"}
      <3>1. ReadOK' /\ ~mid' /\ full' = full
        BY <2>1, <2>2, ReturnsFacts DEF IndInv, ClientInv, TypeOK
      <3>2. TypeOK'
        BY <1>0, <2>1, <2>2, <3>1, NetFacts DEF IndInv, TypeOK, ReadOK
      <3>3. PlaceInv' /\ ClientInv' /\ ReplyInv' /\ CleanInv'
        BY <1>0, <2>1, <2>2, <3>1 DEF IndInv, PlaceInv, ClientInv, ReplyInv, CleanInv, Walking
      <3>4. WalkInv'
        BY <1>0, <2>1, <2>2, <3>1, NetFacts DEF IndInv, WalkInv
      <3> QED
        BY <3>2, <3>3, <3>4 DEF IndInv
    <2>3. CASE ReturnsNothing /\ pc' = "gone" /\ UNCHANGED <<rec, ip>>
      <3>1. ReadOK'
        BY <2>3, ReturnsNothingFacts DEF IndInv
      <3>2. TypeOK'
        BY <1>0, <2>1, <2>3, <3>1 DEF IndInv, TypeOK, ReadOK
      <3>3. PlaceInv' /\ ClientInv' /\ ReplyInv' /\ CleanInv' /\ WalkInv'
        BY <1>0, <2>1, <2>3 DEF IndInv, PlaceInv, ClientInv, ReplyInv, CleanInv, WalkInv, Walking,
                                Trusted
      <3> QED
        BY <3>2, <3>3 DEF IndInv
    <2> QED
      BY <1>3, <2>1, <2>2, <2>3 DEF ClientOpen
  <1>4. CASE Connect
    <2>1. /\ pc = "connect" /\ Walking /\ UNCHANGED <<what, from, response, given>>
          /\ UNCHANGED <<mid, full, marked, stale, res>> /\ ReadOK'
      BY <1>4 DEF Connect, cvars, Walking, IndInv, TypeOK, ReadOK
    <2>2. ~Streamed /\ ("partial" \notin Faults => ~mid /\ ~full) /\ (mid => Client \notin from)
      BY <2>1 DEF Streamed, IndInv, CleanInv, ClientInv
    <2>3. CASE pc' \in {"pre_tls", "handshake"} /\ UNCHANGED <<rec, ip, try>>
      <3>1. TypeOK' /\ PlaceInv' /\ ClientInv' /\ ReplyInv'
        BY <1>0, <2>1, <2>2, <2>3 DEF IndInv, TypeOK, PlaceInv, ClientInv, ReplyInv, Walking
      <3>2. CleanInv' /\ WalkInv'
        BY <1>0, <2>1, <2>2, <2>3 DEF IndInv, CleanInv, WalkInv, Walking
      <3> QED
        BY <3>1, <3>2 DEF IndInv
    <2>4. CASE /\ NextAddress \/ NextRecord
               /\ rec \notin GoodRecords \/ (Records[rec].twice /\ try = 1 /\ NextAddress)
      <3>1. rec \notin GoodRecords \/ (rec' = rec /\ pc' = "connect")
        BY <2>4 DEF NextAddress
      <3> QED
        BY <1>0, <2>1, <2>2, <2>4, <3>1, WalkKeepsIndInv
    <2> QED
      BY <1>4, <2>3, <2>4 DEF Connect, StarttlsConnect, TlsConnect, QuicConnect,
                              WebTransportConnect, WebSocketConnect, Step
  <1>5. CASE PreTls
    <2>1. /\ pc = "pre_tls" /\ Walking /\ Streamed /\ ~Messages /\ UNCHANGED <<response, given>>
          /\ Peer = Server /\ Peer # Client
      BY <1>5 DEF PreTls, Walking, Streamed, Messages, Peer, Server, Client, IndInv, PlaceInv
    <2>2. "partial" \notin Faults => ~Mixed /\ ~MayBreak /\ ~full
      BY <2>1 DEF IndInv, CleanInv, Mixed, MayBreak
    <2>3. CASE \E k : Returns(k, "next") /\ pc' \in {"pre_tls", "handshake"}
                      /\ UNCHANGED <<rec, ip, try>>
      <3>1. ReadOK' /\ ~mid' /\ full' = full
        BY <2>1, <2>3, ReturnsFacts DEF IndInv
      <3>2. TypeOK'
        BY <1>0, <2>1, <2>3, <3>1 DEF IndInv, TypeOK, ReadOK
      <3>3. PlaceInv' /\ ClientInv' /\ ReplyInv'
        BY <1>0, <2>1, <2>3, <3>1 DEF IndInv, PlaceInv, ClientInv, ReplyInv, Walking
      <3>4. CleanInv' /\ WalkInv'
        BY <1>0, <2>1, <2>2, <2>3, <3>1 DEF IndInv, CleanInv, WalkInv
      <3> QED
        BY <3>2, <3>3, <3>4 DEF IndInv
    <2>4. CASE /\ \E k : Returns(k, "next") /\ (k = "other" \/ ("write" \in Faults /\ ~Trusted))
               /\ NextAddress
      <3>1. PICK k : Returns(k, "next") /\ (k = "other" \/ ("write" \in Faults /\ ~Trusted))
        BY <2>4
      <3>2. ReadOK' /\ ~mid' /\ full' = full /\ mid /\ (k = what \/ Mixed)
        BY <2>1, <3>1, ReturnsFacts DEF IndInv
      <3>3. Faults = {} => rec \notin GoodRecords
        <4>1. SUFFICES ASSUME Faults = {}, rec \in GoodRecords
                       PROVE  FALSE
          OBVIOUS
        <4>2. Trusted /\ k = "other" /\ k = what
          BY <2>1, <2>2, <3>1, <3>2, <4>1 DEF Trusted
        <4>3. what \in Says /\ "other" \notin Says
          BY <2>1, <3>2, <4>1, <4>2 DEF IndInv, WalkInv, Says
        <4> QED
          BY <4>2, <4>3
      <3> QED
        BY <1>0, <2>1, <2>2, <2>4, <3>2, <3>3, WalkKeepsIndInv
    <2>5. CASE ReturnsNothing /\ NextAddress
      <3>1. /\ ReadOK' /\ mid' = mid /\ (~Trusted \/ Mixed)
            /\ from' \in {from, from \union {Peer}}
            /\ ~full' \/ full \/ Mixed \/ MayBreak
            /\ Mixed \/ MayBreak \/ ~mid
        BY <2>1, <2>5, ReturnsNothingFacts DEF IndInv
      <3>2. mid' => Client \notin from'
        BY <2>1, <3>1 DEF IndInv, ClientInv
      <3>3. Faults = {} => rec \notin GoodRecords
        BY <2>1, <2>2, <3>1 DEF Trusted
      <3> QED
        BY <1>0, <2>1, <2>2, <2>5, <3>1, <3>2, <3>3, WalkKeepsIndInv
    <2> QED
      BY <1>5, <2>1, <2>3, <2>4, <2>5 DEF PreTls
  <1>6. CASE Handshake
    <2>1. /\ pc = "handshake" /\ Walking /\ UNCHANGED <<what, from, response, given>>
          /\ UNCHANGED <<mid, full, marked, stale, res>> /\ ReadOK'
      BY <1>6 DEF Handshake, cvars, Walking, IndInv, TypeOK, ReadOK
    <2>2. ~Streamed /\ ("partial" \notin Faults => ~mid /\ ~full) /\ (mid => Client \notin from)
      BY <2>1 DEF Streamed, IndInv, CleanInv, ClientInv
    <2>3. CASE pc' = "send_open" /\ UNCHANGED <<rec, ip, try>>
      <3>1. TypeOK' /\ PlaceInv' /\ ClientInv' /\ ReplyInv'
        BY <1>0, <2>1, <2>2, <2>3 DEF IndInv, TypeOK, PlaceInv, ClientInv, ReplyInv, Walking
      <3>2. CleanInv' /\ WalkInv'
        BY <1>0, <2>1, <2>2, <2>3 DEF IndInv, CleanInv, WalkInv, Walking
      <3> QED
        BY <3>1, <3>2 DEF IndInv
    <2>4. CASE /\ NextAddress
               /\ rec \notin GoodRecords \/ (Records[rec].twice /\ try = 1)
      <3>1. rec \notin GoodRecords \/ (rec' = rec /\ pc' = "connect")
        BY <2>4 DEF NextAddress
      <3> QED
        BY <1>0, <2>1, <2>2, <2>4, <3>1, WalkKeepsIndInv
    <2> QED
      BY <1>6, <2>3, <2>4 DEF Handshake, TlsHandshake, QuicHandshake, WebTransportHandshake,
                              WebSocketHandshake, Step
  <1>7. CASE SendOpen
    <2>1. /\ pc = "send_open" /\ Walking /\ UNCHANGED <<rec, ip, try, what, from, given>>
          /\ UNCHANGED <<mid, full, marked, stale, res>>
      BY <1>7 DEF SendOpen, cvars, Walking
    <2>2. ~Streamed /\ ("partial" \notin Faults => ~mid /\ ~full) /\ (mid => Client \notin from)
      BY <2>1 DEF Streamed, IndInv, CleanInv, ClientInv
    <2>3. \/ pc' = "response" /\ response' = {}
          \/ Faults # {} /\ pc' = "failed" /\ UNCHANGED response
      BY <1>7 DEF SendOpen
    <2>4. TypeOK' /\ PlaceInv'
      BY <1>0, <2>1, <2>3 DEF IndInv, TypeOK, PlaceInv, Walking
    <2>5. ClientInv' /\ ReplyInv'
      BY <1>0, <2>1, <2>2, <2>3 DEF IndInv, ClientInv, ReplyInv, Walking
    <2>6. CleanInv' /\ WalkInv'
      BY <1>0, <2>1, <2>2, <2>3 DEF IndInv, CleanInv, WalkInv, Walking
    <2> QED
      BY <2>4, <2>5, <2>6 DEF IndInv
  <1>8. CASE Response
    <2>1. /\ pc = "response" /\ Walking /\ UNCHANGED given /\ Peer = Server /\ Peer # Client
          /\ Kind # "WebSocket" => Streamed
      BY <1>8 DEF Response, Walking, Streamed, Peer, Server, Client, IndInv, PlaceInv
    <2>2. "partial" \notin Faults => ~Mixed /\ ~MayBreak /\ ~full /\ (~Streamed => ~mid)
      BY <2>1 DEF IndInv, CleanInv, Mixed, MayBreak
    <2>3. CASE /\ \E k : Returns(k, StanzaRead)
               /\ response' = response \union Returned /\ pc' \in {"response", "reply"}
               /\ UNCHANGED <<rec, ip, try>>
      <3>1. PICK k : Returns(k, StanzaRead)
        BY <2>3
      <3>2. /\ ReadOK' /\ full' = full
            /\ Streamed => mid /\ ~mid' /\ ~marked' /\ from' = from \union {Peer}
            /\ ~Streamed => UNCHANGED <<mid, marked>>
            /\ mid' => from' = from \union {Peer}
        BY <3>1, ReturnsFacts DEF IndInv, StanzaRead
      <3>3. /\ Client \notin Returned
            /\ "partial" \notin Faults => Returned = {Server} /\ ~mid'
        BY <2>1, <2>2, <3>2 DEF Returned, IndInv, ClientInv, CleanInv
      <3>4. UNCHANGED <<Kind, Server>>
        BY <1>0, <2>3 DEF Kind, Server
      <3>5. TypeOK'
        BY <1>0, <2>1, <2>3, <3>2, <3>3 DEF IndInv, TypeOK, ReadOK
      <3>6. PlaceInv' /\ ClientInv' /\ ReplyInv'
        BY <1>0, <2>1, <2>3, <3>2, <3>4 DEF IndInv, PlaceInv, ClientInv, ReplyInv, Walking
      <3>7. CleanInv'
        BY <1>0, <2>1, <2>2, <2>3, <3>2, <3>3, <3>4 DEF IndInv, CleanInv
      <3>8. WalkInv'
        BY <1>0, <2>1, <2>3, <3>3 DEF IndInv, WalkInv
      <3> QED
        BY <3>5, <3>6, <3>7, <3>8 DEF IndInv
    <2>4. CASE /\ \E k \in {"features", "proceed", "other"} : Returns(k, StanzaRead)
               /\ NextRecord /\ UNCHANGED response
      <3>1. PICK k \in {"features", "proceed", "other"} : Returns(k, StanzaRead)
        BY <2>4
      <3>2. /\ ReadOK' /\ full' = full
            /\ Streamed => mid /\ ~mid' /\ (k = what \/ Mixed)
            /\ ~Streamed => UNCHANGED mid /\ k \in Says
            /\ mid' => from' = from \union {Peer}
        BY <3>1, ReturnsFacts DEF IndInv
      <3>3. mid' => Client \notin from'
        BY <2>1, <3>2 DEF IndInv, ClientInv
      <3>4. Faults = {} => rec \notin GoodRecords
        <4>1. SUFFICES ASSUME Faults = {}, rec \in GoodRecords
                       PROVE  FALSE
          OBVIOUS
        <4>2. Trusted /\ Says = {"xml", "open"}
          BY <2>1, <4>1 DEF Trusted, Says
        <4>3. Streamed => what \in Says /\ k = what
          BY <2>2, <3>2, <4>1, <4>2 DEF IndInv, WalkInv
        <4> QED
          BY <3>2, <4>2, <4>3
      <3> QED
        BY <1>0, <2>1, <2>2, <2>4, <3>2, <3>3, <3>4, WalkKeepsIndInv
    <2>5. CASE ReturnsNothing /\ NextRecord /\ UNCHANGED response
      <3>1. /\ ReadOK' /\ mid' = mid /\ (~Trusted \/ Mixed)
            /\ from' \in {from, from \union {Peer}}
            /\ ~full' \/ full \/ Mixed \/ MayBreak
            /\ Mixed \/ MayBreak \/ ~mid \/ Messages
        BY <2>5, ReturnsNothingFacts DEF IndInv
      <3>2. mid' => Client \notin from'
        BY <2>1, <3>1 DEF IndInv, ClientInv
      <3>3. Faults = {} => rec \notin GoodRecords
        BY <2>1, <2>2, <3>1 DEF Trusted
      <3>4. Messages => ~Streamed
        BY DEF Messages, Streamed
      <3> QED
        BY <1>0, <2>1, <2>2, <2>5, <3>1, <3>2, <3>3, <3>4, WalkKeepsIndInv
    <2> QED
      BY <1>8, <2>1, <2>3, <2>4, <2>5 DEF Response
  <1>9. CASE Reply
    <2>1. /\ pc = "reply" /\ Walking /\ UNCHANGED <<rec, ip, try, what, from, response, given>>
          /\ UNCHANGED <<mid, full, marked, stale, res>> /\ pc' \in {"relay", "gone"}
          /\ Kind' = Kind
      BY <1>0, <1>9 DEF Reply, cvars, Walking, Kind
    <2>2. ~Streamed /\ ("partial" \notin Faults => ~mid /\ ~full)
      BY <2>1 DEF Streamed, IndInv, CleanInv
    <2>3. TypeOK' /\ PlaceInv'
      BY <1>0, <2>1 DEF IndInv, TypeOK, PlaceInv, Walking
    <2>4. ClientInv' /\ ReplyInv'
      BY <1>0, <2>1 DEF IndInv, ClientInv, ReplyInv, Walking
    <2>5. CleanInv' /\ WalkInv'
      BY <1>0, <2>1, <2>2 DEF IndInv, CleanInv, WalkInv, Walking
    <2> QED
      BY <2>3, <2>4, <2>5 DEF IndInv
  <1>10. CASE Relay
    <2>1. PICK k \in Stanzas :
             /\ Returns(k, StanzaRead)
             /\ given' = [kind |-> k, from |-> Returned, stale |-> Streamed /\ stale]
      BY <1>10 DEF Relay
    <2>2. /\ pc = "relay" /\ UNCHANGED <<pc, rec, ip, try, response>> /\ Peer = Client
          /\ UNCHANGED <<Kind, Streamed>>
      BY <1>0, <1>10 DEF Relay, Peer, Kind, Streamed
    <2>3. /\ ReadOK' /\ full' = full
          /\ Streamed => mid /\ ~mid' /\ ~marked' /\ from' = from \union {Peer}
          /\ ~Streamed => UNCHANGED <<mid, marked>>
      BY <2>1, ReturnsFacts DEF IndInv, StanzaRead
    <2>4. given'.from = Returned /\ given'.stale = (Streamed /\ stale)
      BY <2>1
    <2>5. Kind # "WebSocket" => Returned = {Client} /\ ~(Streamed /\ stale) /\ ~mid' /\ ~marked'
      BY <2>2, <2>3 DEF Returned, IndInv, ReplyInv, Streamed
    <2>6. TypeOK' /\ PlaceInv'
      BY <1>0, <2>2, <2>3 DEF IndInv, TypeOK, ReadOK, PlaceInv, Walking
    <2>7. ClientInv' /\ ReplyInv'
      BY <2>2, <2>4, <2>5 DEF ClientInv, ReplyInv, Walking
    <2>8. CleanInv'
      BY <1>0, <2>2, <2>3 DEF IndInv, CleanInv
    <2>9. WalkInv'
      BY <1>0, <2>2 DEF IndInv, WalkInv, Walking, Trusted
    <2> QED
      BY <2>6, <2>7, <2>8, <2>9 DEF IndInv
  <1> QED
    BY <1>1, <1>2, <1>3, <1>4, <1>5, <1>6, <1>7, <1>8, <1>9, <1>10 DEF Next

LEMMA IndInvHolds == Spec => []IndInv
  BY InitIndInv, NextIndInv, PTL DEF Spec

-----------------------------------------------------------------------------
(* The results.                                                             *)

\* Every variable stays in its range: srv_connect never tries a record or an
\* address that is not there, and nothing of the client's own open is in the
\* answer it is given.
THEOREM TypeCorrect == Spec => []TypeOK
  BY IndInvHolds, PTL DEF IndInv

\* Where no server breaks off inside a stanza, the <stream:stream> that
\* srv_connect hands to the client is the connected server's alone, however
\* many servers were tried and whatever they sent.
THEOREM ResponseOneServer == Spec => []ResponseIsOneServers
  <1>1. IndInv => ResponseIsOneServers
    BY DEF IndInv, CleanInv, ResponseIsOneServers
  <1> QED
    BY <1>1, IndInvHolds, PTL

\* The relay starts with the filter that every server tried was read through,
\* and still hands a server that reads a byte stream the client's stanzas only,
\* each with the end of its own first tag: even after servers that broke off.
THEOREM ClientStanzasRelayed == Spec => []RelaysClientStanzas
  <1>1. IndInv => RelaysClientStanzas
    BY DEF IndInv, ReplyInv, RelaysClientStanzas
  <1> QED
    BY <1>1, IndInvHolds, PTL

\* srv_connect falls back to every record before it gives up, and no server
\* makes it panic, where none breaks off inside a stanza or sends one that is too
\* long, as bytes or as a message, and no write fails; where they may,
\* FallbackReachesGoodServer does not hold.
THEOREM FallbackWithoutFaults == Spec => [](Faults = {} => FallbackReachesGoodServer)
  <1>1. IndInv => (Faults = {} => FallbackReachesGoodServer)
    BY DEF IndInv, WalkInv, FallbackReachesGoodServer
  <1> QED
    BY <1>1, IndInvHolds, PTL
=============================================================================
