--------------------------------- MODULE Srv ---------------------------------
(***************************************************************************)
(* Finding the servers of a domain (srv.rs, get_xmpp_connections): eight    *)
(* lookups run concurrently, in DNS and over HTTPS; what they bring is      *)
(* merged, sorted and deduplicated into the list srv_connect walks and into *)
(* the verifier of the servers' certificates (verify.rs).                   *)
(*                                                                         *)
(* A connection is a record whose strings are numbers: target is a host     *)
(* name, url a WebSocket or WebTransport URL with its origin (0: none).     *)
(* src, where it was found, is a history field that nothing depends on.     *)
(***************************************************************************)
EXTENDS Integers, Sequences, FiniteSets, SequencesExt

CONSTANTS
    Domain,      \* the domain, as a target
    Answers,     \* what each lookup may come to; NoAnswer for an error
    NoAnswer,
    Certs        \* certificates a server may show: [key, fp, ca, names, anchor]

Lookups == {"json", "xml", "txt", "starttls", "direct", "quic", "posh_client", "posh_server"}

\* What was parsed: ports, priorities and weights are u16.
MaxPriority == 65535
U16 == 0..MaxPriority
Types == {"QUIC", "WebTransport", "DirectTLS", "StartTLS", "WebSocket"}
Url == [url : Nat, port : U16, host : Nat]
SrvRecord == [port : U16, target : Nat, priority : U16, weight : U16]
Link ==
    [plain : {TRUE}, conn : Url, c2s : BOOLEAN, ips : Nat]
      \union [plain : {FALSE}, type : Types, conn : Url, sni : Nat, priority : U16,
              weight : U16, c2s : BOOLEAN, ips : Nat]

ASSUME SrvAssumption ==
    /\ Domain \in Nat
    /\ DOMAIN Answers = Lookups
    /\ \A l \in Lookups : NoAnswer \in Answers[l]
    /\ \A a \in Answers["json"] \ {NoAnswer} : a.xmpp \in BOOLEAN /\ a.links \in Seq(Link)
    /\ Answers["xml"] \ {NoAnswer} \subseteq Seq(Url)
    /\ Answers["txt"] \ {NoAnswer} \subseteq
          Seq([url : Nat, port : U16, host : Nat, c2s : BOOLEAN])
    /\ \A l \in {"starttls", "direct", "quic"} : Answers[l] \ {NoAnswer} \subseteq Seq(SrvRecord)
    /\ \A l \in {"posh_client", "posh_server"} :
          \A a \in Answers[l] \ {NoAnswer} : a.expires \in Nat

VARIABLES
    is_c2s,      \* whose servers: a client's or another server's
    pending,     \* the lookups join! waits for
    answer,      \* what the others came to
    ret,         \* ret
    pins,        \* sha256_pinnedpubkeys
    names,       \* valid_tls_cert_server_names
    posh,        \* the verifier's posh: [fps, expires], or NoAnswer
    found,       \* history: ret before sort_dedup
    pc           \* "lookup" or "done"

vars == <<is_c2s, pending, answer, ret, pins, names, posh, found, pc>>

Init ==
    /\ is_c2s \in BOOLEAN
    /\ pending = Lookups
    /\ answer = [l \in Lookups |-> NoAnswer]
    /\ ret = <<>> /\ pins = {} /\ names = {Domain} /\ posh = NoAnswer
    /\ found = <<>> /\ pc = "lookup"

-----------------------------------------------------------------------------
(* XmppConnection and its orders.                                          *)

\* XmppConnectionType::idx
Idx(c) == CASE c.type = "QUIC" -> 0
            [] c.type = "WebTransport" -> 1
            [] c.type = "DirectTLS" -> 2
            [] c.type = "StartTLS" -> 3
            [] c.type = "WebSocket" -> 4

\* PartialEq: the same way to the same place.
Same(a, b) == a.type = b.type /\ a.url = b.url /\ a.port = b.port /\ a.target = b.target

\* The first key in which two lists of keys differ decides.
Lexical(a, b) ==
    \E i \in DOMAIN a : a[i] < b[i] /\ \A j \in 1..(i - 1) : a[j] = b[j]

\* A mutant: false before true.
Less_Insecure(a, b) ==
    LET Key(c) == <<Idx(c), c.url, c.port, c.target, IF c.secure THEN 1 ELSE 0, c.priority>> IN
    \/ Lexical(Key(a), Key(b))
    \/ Key(a) = Key(b) /\ b.weight < a.priority

\* Ord for XmppConnection, the result Less.  The last comparison is between the
\* weight of one and the priority of the other.
Less(a, b) ==
    LET Key(c) == <<Idx(c), c.url, c.port, c.target, IF c.secure THEN 0 ELSE 1, c.priority>> IN
    \/ Lexical(Key(a), Key(b))
    \/ Key(a) = Key(b) /\ b.weight < a.priority

\* The closure of sort_by, the result Less.
Before(a, b) ==
    Lexical(<<a.priority, Idx(a), b.weight>>, <<b.priority, Idx(b), a.weight>>)

\* The standard library's sort of a short slice: each element in turn moves to
\* the left past those that are greater.
Sort(s, Lt(_, _)) ==
    LET Insert(t, x) ==
          LET p == Max({0} \union {k \in DOMAIN t : ~Lt(x, t[k])})
          IN SubSeq(t, 1, p) \o <<x>> \o SubSeq(t, p + 1, Len(t))
    IN FoldLeft(Insert, <<>>, s)

\* The standard library's dedup: of equal neighbours the first stays.
Dedup(s) ==
    LET Add(t, x) == IF t # <<>> /\ Same(t[Len(t)], x) THEN t ELSE Append(t, x)
    IN FoldLeft(Add, <<>>, s)

\* A mutant: by priority first, so that equal ones are no longer neighbours.
SortDedup_Once(s) == Dedup(Sort(s, Before))

SortDedup(s) == Sort(Dedup(Sort(s, Less)), Before)

-----------------------------------------------------------------------------
(* What the lookups' answers turn into.                                    *)

\* A mutant: "." is taken for a host.
SrvRecords_Root(l, type) ==
    IF answer[l] = NoAnswer THEN <<>>
    ELSE [i \in DOMAIN answer[l] |->
            [type |-> type, url |-> 0, port |-> answer[l][i].port,
             target |-> answer[l][i].target, secure |-> FALSE,
             priority |-> answer[l][i].priority, weight |-> answer[l][i].weight, src |-> l]]

\* collect_srvs: a target of "." (0) says there is no such service.
SrvRecords(l, type) ==
    LET Made(r) ==
          [type |-> type, url |-> 0, port |-> r.port, target |-> r.target, secure |-> FALSE,
           priority |-> r.priority, weight |-> r.weight, src |-> l]
    IN IF answer[l] = NoAnswer THEN <<>>
       ELSE FlattenSeq([i \in DOMAIN answer[l] |->
              IF answer[l][i].target = 0 THEN <<>> ELSE <<Made(answer[l][i])>>])

\* wss_to_srv
WssToSrv(u, secure, src) ==
    [type |-> "WebSocket", url |-> u.url, port |-> u.port, target |-> u.host,
     secure |-> secure, priority |-> MaxPriority, weight |-> 0, src |-> src]

\* A mutant: what DNS says is taken for secure.
CollectTxts_Secure(conns) ==
    LET Add(t, r) ==
          LET c == WssToSrv(r, TRUE, "txt") IN
          IF r.c2s = is_c2s /\ ~\E i \in DOMAIN t : Same(t[i], c) THEN Append(t, c) ELSE t
    IN IF answer["txt"] = NoAnswer THEN conns ELSE FoldLeft(Add, conns, answer["txt"])

\* collect_txts: records for the other kind of stream, and those ret contains
\* already, are left out.
CollectTxts(conns) ==
    LET Add(t, r) ==
          LET c == WssToSrv(r, FALSE, "txt") IN
          IF r.c2s = is_c2s /\ ~\E i \in DOMAIN t : Same(t[i], c) THEN Append(t, c) ELSE t
    IN IF answer["txt"] = NoAnswer THEN conns ELSE FoldLeft(Add, conns, answer["txt"])

\* Link::into_xmpp_connection: a WebSocket link may come without the fields of
\* LinkCommon; with them, it needs at least one address.
Links(a) ==
    LET Made(k) == IF k.plain THEN WssToSrv(k.conn, TRUE, "json")
                   ELSE [type |-> k.type, url |-> k.conn.url, port |-> k.conn.port,
                         target |-> k.sni, secure |-> TRUE, priority |-> k.priority,
                         weight |-> k.weight, src |-> "json"]
    IN FlattenSeq([i \in DOMAIN a.links |->
         IF a.links[i].c2s = is_c2s /\ (a.links[i].plain \/ a.links[i].ips > 0)
         THEN <<Made(a.links[i])>> ELSE <<>>])

\* The new host-meta format: it has the xmpp object with its ttl.
HostMeta2 == answer["json"] # NoAnswer /\ answer["json"].xmpp

\* collect_host_meta_xml fails for s2s.
XmlLinks ==
    IF ~is_c2s \/ answer["xml"] = NoAnswer THEN <<>>
    ELSE [i \in DOMAIN answer["xml"] |-> WssToSrv(answer["xml"][i], TRUE, "xml")]

\* A mutant: the rest is added to the new format too.
Collected_All ==
    CollectTxts(ret \o XmlLinks)
      \o SrvRecords("starttls", "StartTLS") \o SrvRecords("direct", "DirectTLS")
      \o SrvRecords("quic", "QUIC")

\* "ignore everything else if new host-meta format"
Collected ==
    IF HostMeta2 THEN ret
    ELSE CollectTxts(ret \o XmlLinks)
           \o SrvRecords("starttls", "StartTLS") \o SrvRecords("direct", "DirectTLS")
           \o SrvRecords("quic", "QUIC")

Defaults ==
    LET Default(type, port) ==
          [type |-> type, url |-> 0, port |-> port, target |-> Domain, secure |-> FALSE,
           priority |-> 0, weight |-> 0, src |-> "default"]
    IN << Default("StartTLS", IF is_c2s THEN 5222 ELSE 5269),
          Default("DirectTLS", 443), Default("QUIC", 443) >>

\* collect_posh: what either service publishes; Posh::new refuses expires = 0,
\* Posh::append takes both and the earlier time.
Published(l) ==
    IF answer[l] = NoAnswer \/ answer[l].expires = 0 THEN NoAnswer ELSE answer[l]
CollectPosh ==
    LET client == Published("posh_client")
        server == Published("posh_server")
    IN CASE client # NoAnswer /\ server # NoAnswer ->
              [fps |-> client.fps \union server.fps,
               expires |-> IF client.expires < server.expires THEN client.expires
                           ELSE server.expires]
         [] server = NoAnswer -> client
         [] OTHER -> server

-----------------------------------------------------------------------------
\* One of the lookups completes.  Only collect_host_meta_json writes ret and
\* the pins at that moment; the others keep what they found for Finish.
Lookup(l) ==
    /\ l \in pending
    /\ pending' = pending \ {l}
    /\ \E a \in Answers[l] :
          /\ answer' = [answer EXCEPT ![l] = a]
          /\ \/ /\ l = "json" /\ a # NoAnswer
                /\ ret' = ret \o Links(a)
                /\ pins' = IF a.xmpp THEN pins \union a.pins ELSE pins
             \/ ~(l = "json" /\ a # NoAnswer) /\ UNCHANGED <<ret, pins>>
    /\ UNCHANGED <<is_c2s, names, posh, found, pc>>

\* After join!.  The names are those of the sorted list, before the defaults.
Finish ==
    /\ pc = "lookup" /\ pending = {}
    /\ pc' = "done"
    /\ found' = Collected
    /\ LET sorted == SortDedup(Collected) IN
         /\ ret' = IF sorted = <<>> THEN Defaults ELSE sorted
         /\ names' = names \union {sorted[i].target : i \in {j \in DOMAIN sorted : sorted[j].secure}}
    /\ posh' = CollectPosh
    /\ UNCHANGED <<is_c2s, pending, answer, pins>>

Next == (\E l \in Lookups : Lookup(l)) \/ Finish

Spec == Init /\ [][Next]_vars

\* XmppServerCertVerifier::verify_cert: a pinned key or a POSH fingerprint will
\* do; else a certificate from a trusted CA for one of the names.
VerifyCert(c) ==
    /\ pins = {} \/ c.anchor
    /\ \/ c.key \in pins
       \/ posh # NoAnswer /\ c.fp \in posh.fps
       \/ c.ca /\ c.names \intersect names # {}

-----------------------------------------------------------------------------
\* Every variable stays in its range, and the "." of an SRV record is no host.
TypeOK ==
    /\ pending \subseteq Lookups
    /\ pc \in {"lookup", "done"}
    /\ pc = "done" => ret # <<>>
    /\ \A i \in DOMAIN ret :
          /\ ret[i].priority \in U16
          /\ ret[i].src \in {"starttls", "direct", "quic"} => ret[i].target # 0

\* However the answers are ordered and wherever they came from, the list has
\* each way to each place once, in the order of priority, protocol and weight,
\* although the order that brings equal ones together is no total order.  (The
\* defaults have an order of their own.)
OneConnectionPerPlace ==
    pc = "done" => \A i, j \in DOMAIN ret : i < j =>
        /\ ~Same(ret[i], ret[j])
        /\ found # <<>> => ~Before(ret[j], ret[i])

\* "things we want to keep further to the left" (srv.rs:170): of several
\* records for one place a secure one stays if there is any, and of those one
\* of the lowest priority.
PreferredStays ==
    pc = "done" => \A i \in DOMAIN found : \E j \in DOMAIN ret :
        /\ Same(ret[j], found[i])
        /\ found[i].secure => ret[j].secure
        /\ found[i].secure = ret[j].secure => ret[j].priority <= found[i].priority

\* A domain that publishes the new host-meta format is connected to in no way
\* that DNS or the old format names.
HostMeta2IsAlone ==
    pc = "done" /\ HostMeta2 => \A i \in DOMAIN ret : ret[i].src \in {"json", "default"}

\* Whom the answers that came over HTTPS vouch for: by a pinned key, by a POSH
\* fingerprint, or by naming the host.
VouchedFor(c) ==
    \/ HostMeta2 /\ c.key \in answer["json"].pins
    \/ \E l \in {"posh_client", "posh_server"} :
          answer[l] # NoAnswer /\ answer[l].expires > 0 /\ c.fp \in answer[l].fps
    \/ c.ca /\ Domain \in c.names
    \/ c.ca /\ \E i \in DOMAIN found :
          found[i].src \in {"json", "xml"} /\ found[i].target \in c.names

\* A certificate passes the verifier only if the domain itself, or an answer it
\* gave over HTTPS, vouches for it: a host name that only DNS brought up never
\* makes a certificate valid.
DnsAloneIsNotTrusted ==
    pc = "done" => \A c \in Certs : VerifyCert(c) => VouchedFor(c)
=============================================================================
