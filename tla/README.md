# A TLA+ model of xmpp-proxy

xmpp-proxy is a reverse and outgoing proxy for XMPP: it terminates TLS
(Direct TLS, STARTTLS), QUIC, WebTransport and WebSockets in front of an XMPP
server, and finds and connects to other servers for clients and servers behind
it.  Between the two it never parses XML.  It cuts the bytes into stanzas with
a small state machine and relays stanza by stanza.

This directory models that core in TLA+, checks it with TLC on small
instances, and proves with TLAPS, for every value of the constants, nearly
every safety property that the runs check.  Source paths below are relative to
the repository (`src/stanzafilter.rs` and so on).

    tlc -config MCStanzaFilter.cfg MCStanzaFilter      # a run
    for m in *Proofs.tla; do tlapm $m; done            # the proofs

## 1. Inventory

| Component | State | Operations | Correct if |
|---|---|---|---|
| Stanza splitter (`stanzafilter.rs`) | `buf`, `cnt`, `tag_cnt`, `end_of_first_tag`, `state` | `process_next_byte_idx`, `StanzaReader::next`, `next_eoft`, `current_buf` | the slices returned are exactly the top-level stanzas; no index leaves the buffer; `end_of_first_tag` belongs to the stanza returned with it |
| Relay (`common/mod.rs: shuffle_rd_wr_filter_only`, `in_out.rs`) | two filters, two streams, the disabled branches of `select!` | read either side, write to the other, end | stanzas come out whole, once, in order, within the limit; nothing stalls; a peer's close ends it |
| Outgoing connections (`outgoing.rs`, `srv.rs: srv_connect, connect`, `tls/outgoing.rs`) | record, address, the client's `in_filter` | read the client's open, walk records and addresses, STARTTLS, exchange stream opens | a usable server is reached; the client gets that server's answer; the server gets the client's stanzas |
| Incoming connections (`tls/incoming.rs`, `quic/incoming.rs`, `webtransport/incoming.rs`, `common/incoming.rs`) | `in_filter`, `server_certs`, `is_c2s`, the claimed domain | sniff, STARTTLS, handshake, preamble, verify, PROXY header, open | an s2s stream reaches the server behind only for a certified domain; nothing from before TLS does |
| Sniffing (`common/mod.rs: Peek, first_bytes_match*`) | bytes in the socket or in a `BufReader`, a deadline | `peek_bytes`, `first_bytes_match_buf_timeout` | nothing is consumed; a peer that sends in time is recognised; it ends |
| Server lookup (`srv.rs`) | `ret`, pins, names, POSH | eight concurrent lookups, merge, sort, dedup, defaults | each place once, the preferred record of it, nothing insecure trusted |
| Certificate verification (`verify.rs`) | names, pins, fingerprints | `verify_cert` | accepts only what the domain vouches for |
| WebSocket conversions (`websocket/mod.rs`, `in_out.rs`) | none | `from_ws`, `to_ws_new`, `ws_cfg` | a stanza keeps its text and gets the declarations it lacks; a stream that went through a WebSocket is the same stream |
| Slice searches (`slicesubsequence.rs`) | none | `first_index_of` and friends | what is read out of a stream open, and the answer made of it, are what the peer wrote |
| Certificate reload (`common/certs_key.rs`, `common/mod.rs: read_certified_key`, `main.rs: spawn_refresh_task`) | an `RwLock` with a key pair, the signal stream, the two files | SIGHUP, parse, read key, read certificates, replace; `resolve` in handshakes | after the last SIGHUP of a renewal the pair is that renewal's; a handshake sees one pair; no SIGHUP is lost |
| Startup and listeners (`main.rs`, `systemd.rs`, `common/stream_listener.rs`) | listeners, task handles | parse, bind, take systemd's sockets, load, spawn; accept; `join_all` | what was asked for listens, each socket in its own role; no client keeps another waiting |
| QUIC over Unix datagrams, logging context, CA roots | – | glue | – |
| Deployment stack (`docker`, `nginx-proxy-ctl`, docs), Prosody module, integration tests, fuzzing | – | scripts and harnesses | – |

How they interact.  A connection is one task (QUIC and WebTransport: one task
per stream).  The task owns one `StanzaFilter` called `in_filter`, and *lends*
it on: to the sniffers and the PROXY header as scratch space, to the
plaintext reader before STARTTLS, to each attempt of `srv_connect` in turn,
and at last to the relay, which adds a second filter for the other side.
Lookups run concurrently inside the task under `join!`; the relay runs two
reads under `select!`, which drops the one that loses.

What is hard, therefore: state that survives its reader (an unfinished stanza,
a full buffer, a set `end_of_first_tag`); reads cancelled half way; branches
that fail and are polled again; timeouts that look at the clock only between
reads; lookups that complete in any order; a security decision taken several
steps, and streams, after the handshake it rests on; two files read one after
the other while somebody rewrites them; text rewritten by search and replace.  `PROJECT.json` lists
these hazards line by line with the properties that cover them.

## 2. The modules

    StanzaContract      what reading through a filter promises, without bytes
      ^ implemented by StanzaFilter      (checked, and proved in StanzaFilterProofs)
      ^ used by        Outgoing, Incoming  (EXTENDS: their reads are its actions)
      ^ kept by        Relay               (INSTANCE, once per side)
    StanzaFilter        the byte-level state machine
      ^ StanzaFraming   the same, fed by a peer that writes XML piece by piece
        ^ WebSocketText what is then done to the text of a stanza
    CertsKey            key pair, reload, handshakes
      ^ Main            the process around it: startup, listeners, its end
    Peek, Srv           components of their own
    XProofs             the theorems about X, for X one of StanzaFilter,
                        Incoming, Outgoing, Relay, Peek, Main (with CertsKey), Srv
    FramingProofs       the theorem about StanzaFraming

The contract is what makes the larger models small: `StanzaFilter` has the
bytes and is proved to implement the contract for all parameters, and the
handlers use the contract's `Skip`, `Begin`, `Continue`, `Refuse`, `Complete`,
`End` and `Panic` instead of bytes.

**StanzaFilter** has the fields of the struct under their own names; `quote`
and `idx` are the payloads of the enum's variants.  One operator per arm of
the `match`; one step reads and processes one byte.  `Bail` is `bail!`: the
code changes nothing and the byte just read will be overwritten, but a caller
may call again, so an error is a result and not the end.  `ScratchUse` is the
callers' use of `buf` between stanzas.  `fed` and `stale` are history: the
bytes since the stanza's `<`, and whether `end_of_first_tag` was set when it
began.  The delimiters and the byte strings compared with are constants.

**StanzaFraming** adds a peer that writes a stream piece by piece: `<name`, an
attribute, `>` or `/>`, text, CDATA, an end tag, to any depth; `<stream:stream `
and its close, an XML declaration, bytes between stanzas; or something
malformed.  It begins a piece where one of its kind may stand (`Place`), and
what it writes next is not fixed before; `PieceByte` hands the filter the next
byte of the piece.  `depth`, `sent` and `first_end` are the peer's own account
of the stanza it is in, with which every return of the reader is compared.
What the peer writes are constants, and `FramingAssumption` says what makes
them XML: a name holds no delimiter, an attribute's value does not hold its
quote, text no `<`, CDATA no `]]>` before its end.  A name is also not the
beginning of `stream:stream `, nor does it begin with it.  Tags need not match:
the filter counts them.

**WebSocketText** has the functions that look into a stanza's text:
`first_index_of`, `replace_first`, `extract_between`, `from_ws`, `to_ws_new`,
`write_all`, and the swap of `to` and `from` before STARTTLS.  They are applied
to every stanza that the filter of `StanzaFraming` returns, with the
`end_of_first_tag` it returned, and compared with what the peer wrote (`item`):
the attributes, the end of the first tag, the declarations it lacks.  A byte here may stand for a word (`xmlns=`, `jabber:client`): the
searches look for whole words, with their blanks and quotes, and these are
bytes of their own; so is the `-server` in which the two framing namespaces
differ, one being a prefix of the other.

**CertsKey** has the two files, each of one renewal and whole, torn inside a
PEM section or torn between two; `read_certified_key` as two steps; the refresh
task as `InstallHandler`, `Recv`, `ParseConfig`, the two reads, `Replace`; and a
handshake as `Resolve` (the `Arc` is cloned) and `Sign`.  The owner of the files
may write at any moment.  `dirty` is history: something was written since the
last SIGHUP.

**Main** adds `main`: `ParseArgs`, `Bind`, `ReceiveSockets` (with
`socks_from_fds`), `LoadKeyPair`, `Spawn`, each with its exits; per listener
`Accept` and `AcceptFails`; per connection `Handshake` and `Close`; and the two
ends, `Terminate` (`join_all`) and `SighupKills` (SIGHUP without a handler).
What a connection does past its handshake is `Incoming`'s and `Outgoing`'s.

**Outgoing** is `handle_outgoing_connection` up to the relay's first reads:
`ClientOpen`, then `Connect` (what needs no answer of the server), `PreTls`
(`starttls_connect`), `Handshake` (what does; both with one operator per transport),
`SendOpen`, `Response` (`stream_preamble`) and, when one fails, `NextAddress`
and `NextRecord` exactly as the three nested loops continue; `Reply`, `Relay`.
Stanzas are told apart by what the code looks at: how they start.  A WebSocket
message that is longer than the filter's buffer panics (`ReadPanics`).  History:
whose bytes the stanza in the filter is made of.

**Incoming** is `handle_tls_connection` (TCP) or a QUIC/WebTransport session,
then `shuffle_rd_wr_filter` and `open_incoming`.  `NewStream` follows one more
stream of the same QUIC connection; streams share nothing but `server_certs`,
so following one at a time is enough.  The open is not parsed, but searched:
`names` are the places in it that look like a `from=`, in order, of which one at
most is the attribute, and the others stand inside another attribute's value or
the declaration.  `Domain` is what the two calls of `extract_between` make of
them, and what is verified; `Claims` what the server behind reads in the same
open.  A certificate is the set of domains it
is valid for; what that means is `Srv!VerifyCert`.

**Relay** is the `select!` loop.  A stream's stanza arrives in two halves so
that a read can be cancelled between them.  `polled` holds the branches that
`select!` has not disabled: `BranchFails` is an `Err`, which does not match
`Ok(ret)`, and `else => break` when none is left.  `inbox` gives writes back
pressure.  A pong that cannot be written fails its branch (`PongFails`).  One
side is hostile (illegal, over-long, binary messages).

**Peek** counts bytes and ticks.  Its three kinds differ as the code does:
`peek` looks at the whole socket buffer, `fill_buf` reads only when its own
buffer is empty, and the timeout variant is polled only when the read pends.

**Srv** has one action per completed lookup and `Finish` for what follows
`join!`.  `Less` is `Ord for XmppConnection`, `Before` the closure given to
`sort_by`; `Sort` is the standard library's stable sort, `Dedup` its `dedup`.
JSON, XML and URL parsing is abstracted to the parsed record.

## 3. The runs

| Run | Checks | Bounds, and why they do |
|---|---|---|
| `filter` | `TypeOK`, `IndexesAreSafe`, `StanzaIsWhatWasRead`, `EndOfFirstTagIsInStanza`, `StreamOpenIsNotStale`, `KeepsContract`, and the proofs' `IndInv` | All byte strings over seven bytes, buffer of 7, needles of 1 to 4 bytes with the delimiters of the real ones. Every arm ends both ways and the buffer fills in every state. The theorems have no bound. |
| `framing` | `StreamIsCutIntoStanzas`, `MessageIsTheStanza`, `StreamSurvivesWebSocket`, `AddressesAreRight` | Streams of six pieces: three stanzas in a row (what one leaves behind, stale bytes or `end_of_first_tag`, shows in the next, and a third follows one that was itself read over stale state), elements in a stanza's child, or a stream open with four of the attributes that are looked for, in every order, and `xmlns`, `xmlns:stream`, `to` and `from` in either quotes. Attributes, text and CDATA hold `>`, `/>`, quotes and parts of `]]>`; stanzas declare their namespaces in the first tag, in a child or not at all. The longest opens exactly fill the buffer of 24, or exceed it. The theorem has no bound. |
| `outgoing` | `FallbackReachesGoodServer`, `ResponseIsOneServers`, `RelaysClientStanzas`, `WalkEnds` | Three records, one with two addresses, one tried twice; either well-cut but useless servers before the good one, or servers that break anywhere (byte streams with two addresses and a second try; a WebSocket, with messages that are too long, before a byte stream). |
| `relay` | `RelaysWholeInOrder`, `OverLongIsNeverRelayed`, `FiltersKeepContract`, `PeerCloseEndsRelay`, `SentIsRelayed` | Two stanzas from each side, receive buffers of one: the smallest where a read is cancelled, a write waits, and a failed branch is polled again. |
| `peek` | `SniffConsumesNothing`, `TcpBytesAreSniffed`, `SniffEnds` | Three bytes asked for, four sent one by one, a limit of three ticks, and time past the doubled inner limit. |
| `incoming` | `S2sIsAuthenticated`, `PlaintextStaysOut`, `ScratchIsUnused` | Two domains, so that a certificate may be for the other one; two places that look like a `from=`, so that another text may stand before or behind the attribute, with either needle; two relayed stanzas after header and open. |
| `srv` | `OneConnectionPerPlace`, `PreferredStays`, `HostMeta2IsAlone`, `DnsAloneIsNotTrusted` | Two to four answers per lookup that name three hosts in overlapping ways, all orders of completion, 128 certificates. |
| `main` | `StartedAsAsked`, `QuietIsCurrent`, `RenewalIsServed`, `ConnectionsAreAccepted` | Seven setups: three that run (QUIC; sockets of systemd behind a skipped one, outgoing and incoming) and four that exit, each for another reason. Two connections, one of a silent client. One renewal, files that are whole or torn at the start: enough for a reload to meet old, torn and new files in every combination, and for a SIGHUP in the middle of another's reload. |

Each run also checks the module's `TypeOK`, except `framing`.  Deadlock is not
checked: connections end, and so do processes.

`outgoing`'s other networks have no good server, so that
`FallbackReachesGoodServer` is about the first network only; that is because
of the finding below.  `PeerCloseEndsRelay` and `SentIsRelayed` are about the
side that is not hostile, which in `relay` is a byte stream.

Four more runs show where the code does not do what the repository says of
it; each is a finding in `PROJECT.json`, with the sentence it is measured
against.

- `outgoing_dirty_filter`: a server that breaks off inside a stanza leaves it
  in `in_filter`; the next server's answer is read as its continuation, and a
  good server is refused (or, with the buffer full, the task panics), against
  "fallback to next SRV target or defaults as required".
- `outgoing_xmlns`: `starttls_connect` reads with `next`, which leaves
  `end_of_first_tag` set.  If that server fails later and a WebSocket
  succeeds, `to_ws_new` puts the `xmlns` of the client's stanza at the
  position where the earlier server's tag ended.
- `relay_close`: a WebSocket Close is an `Err` to `select!`, so the relay does
  not "just break from loop"; it waits for the other side.
- `peek_split`: inside TLS a first record of one or two bytes makes the sniff
  spin on what it has and fail, though the rest comes in time.

Observations without a run of their own:

- The domain of an s2s stream is found by a search for ` from='`, then for
  ` from="`, in the whole text of declaration and open
  (`common/incoming.rs:138-141`), and the open goes on as it is (`204`).  Text
  elsewhere that looks like a `from=` is taken for the attribute, and then the
  domain verified need not be the one that the server behind reads.
  `S2sIsAuthenticated` therefore has a condition, while `README.orig.md:20`
  ("for s2s require a client cert and validate it correctly") has none.
- A server that sends a WebSocket message longer than the buffer makes the task
  panic, and the next record is not tried (`in_out.rs:97`; `Outgoing` has it as
  the fault `"long"`).
- `write_all(..)?` in `srv_connect` (`srv.rs:556`) leaves the loop over the
  records, where every other failure goes on to the next (`Outgoing` has it as
  the fault `"write"`).
- A TCP peer that sends nothing is never timed out by the first sniff
  (`common/mod.rs:262` waits for a peek without limit; `Peek` has it, and
  `SniffEnds` leaves it out).
- `cmp` compares a weight with a priority (`srv.rs:195`), so of two records of
  one place and priority the lighter may be the one that stays, though the
  comment above it says "highest weight preferred" (`srv.rs:194`).
  `PreferredStays` is about security and priority only.
- `accept().await?` ends a listener for good at the first error, and the
  process goes on without it, as the refresh task never returns (`Main`'s
  `AcceptFails` and `Terminate`).
- SIGHUP ends a process that has no handler for it: while it starts, and for
  good if it started without a usable key pair (`SighupKills`).
- Key and certificate are never compared, and a certificate file that is empty
  or ends between two sections is no error: such a pair is installed, and stays
  until the next SIGHUP.  This is why `QuietIsCurrent` asks for a SIGHUP after
  the last write.
- A datagram socket has no SO_ACCEPTCONN, so `socks_from_fds` skips every one
  that systemd passes: QUIC gets no socket that way.
- An open whose attribute values hold a `>` or, coming from a WebSocket, a `/>`
  is changed inside the value (`websocket/mod.rs:61`, `79`).
- Read from one WebSocket and written to another, a close is the message
  `</stream:stream>`, not `<close/>`: `next` returns it with an
  `end_of_first_tag` of 0 (`in_out.rs:99`, `websocket/mod.rs:81`).

### Fairness

- `Relay`: strong fairness of each side's `Read`.  The task is polled whenever
  it can move, and `select!` starts from a random branch each turn, so a side
  that is ready again and again is read; weak fairness would not do, as every
  write interrupts the read's being enabled.  Weak fairness of `Write`
  (tokio schedules the task) and of `PeerReads`: a peer that never reads stops
  the relay, and the code has no remedy.  Nothing is assumed of what peers send.
- `Peek`: weak fairness of `Tick`, `Turn` and `Timeout`: time passes, tokio
  polls tasks and fires timers.  The peer need do nothing.
- `Outgoing`: weak fairness of `Connect` alone: resolver and system give up
  lookups and TCP connects by themselves.  Handshakes (TLS, QUIC, the upgrade to
  a WebSocket), the conversation and writes wait for a server or the client
  without a timeout, and nothing is assumed of them; `WalkEnds` itself says what
  it needs, that nobody is waited for for good.
- `Main`: weak fairness of starting, of the refresh task and its reads, and of
  `Accept` for each connection (`accept` takes them in order).  Clients, and
  whoever writes files and sends signals, owe nothing.
- The other modules check safety only.

## 4. The proofs

Each proof module EXTENDS the component's module and TLAPS.  It states an
inductive invariant `IndInv`, a conjunction of named parts, proves that `Init`
implies it and that every action keeps it (one lemma or step per action), and
derives the theorems.  TLC checked every `IndInv` before it was proved.

### StanzaFilterProofs

`StanzaFilterProofs` proves, for any alphabet, any needles and any
`max_stanza_size_bytes`:

| Theorem | States |
|---|---|
| `IndInvHolds` | `Spec => []IndInv` |
| `TypeCorrect` | `Spec => []TypeOK` |
| `IndexesSafe` | `Spec => []IndexesAreSafe` |
| `StanzaExact` | `Spec => []StanzaIsWhatWasRead` |
| `EoftInStanza` | `Spec => []EndOfFirstTagIsInStanza` |
| `StreamOpenNotStale` | `Spec => StreamOpenIsNotStale` |
| `FilterKeepsContract` | `Spec => KeepsContract`, the refinement of `StanzaContract` |

Assumptions: the eight delimiters are distinct bytes (`BytesAssumption`); the
needles are not empty, `<stream:stream ` holds no `>`, and `]]>` is no longer
than `<![CDATA[` plus one (`NeedlesAssumption`); the buffer is not empty
(`BufSizeAssumption`); scratch data are bytes (`ScratchAssumption`).  The real
strings satisfy them, and TLC evaluates them in each run.

The argument.  None of the properties is inductive.  `IndInv` adds

- `RestInv`: between stanzas the counters are 0;
- `FedInv`: the stanza in progress, kept in history, is the front of `buf`;
  with it, the slice that `stanza_end` returns is what was read;
- `PosInv`: how many bytes each state implies, and that a needle's
  precomputed position has not been passed;
- `MarkInv`: past its first tag a stanza has `end_of_first_tag` set.  It is
  needed since `checked_sub` may fail *after* `end_of_first_tag` was assigned:
  that happens only when it was set before, so a refused byte's position is
  never recorded;
- `EoftInv`: set during this stanza, it is the position of one of its `>`.

`AdvanceKeeps`, `RefusedKeeps` and `StanzaEndKeeps` cover the three ways a
byte is consumed, and each arm is reduced to one of them.  `StreamOpenNotStale`
then needs that the first `>` of a stanza lies past all of `<stream:stream `,
which holds no `>`.

### FramingProofs

`CutIntoStanzas` is `FSpec => []StreamIsCutIntoStanzas`: for any names,
attributes, texts, CDATA sections and declarations that `FramingAssumption`
allows, any depth, any number of pieces, any `max_stanza_size_bytes`.
`StanzaExact` above says that a slice is what was read since its `<`; this says
that the `<` is the first of a stanza and the slice ends where the stanza does.
The real strings satisfy `FramingAssumption`; `Letter` is any byte that stands
in neither `xml ` nor `[CDATA[`, and the ordinary bytes are those that are none
of `< > / ! ? ' "`.

The invariant `FramingInv` has three parts besides `IndInv` and the property
itself.

- `PeerInv` is about the peer alone: what its piece looks like byte by byte
  (`ShapeOf`), how deep which piece may stand and that past its first tag a
  stanza has `first_end` (`DepthInv`), that the bytes read of a stanza begin
  with `<stream:stream ` or differ from it, as soon as the name is written
  (`OpenInv`: a stanza with a name that is merely similar is not taken for an
  open), and that the bytes read of the piece are the last of those read of the
  stanza (`SentInv`).
- `Config` gives the filter's `state`, `tag_cnt`, `quote` and `idx` for the
  piece, the position in it and the depth: `Starting`, `Midway`, `Finished`.
  In a CDATA section, for one, `tag_cnt` is one too high up to the last byte of
  `[CDATA[`, and behind `</` it is one lower than the depth until the tag ends.
- `Synced`: the filter's stanza is the peer's, and so is `end_of_first_tag`,
  unless it was set before.

Nothing is said of `Config` after an error.  The proof has a lemma for each
thing a peer may write (`CDataShape`, `AttributeShape`, ...), which derives its
`ShapeOf` from the assumption; a lemma for each kind of byte (`NameByte`,
`CDataByte`, `TagEnds`, ...), which shows that the one arm that `Config` selects
ends where `Config` says next, and returns what is expected (`AdvancesOn`,
`Returns`, `Refuses`); and `NextPieceKeeps`, which shows that where one piece
ends is where the next may start.  `LastBytes` reduces `last_equals` to a
comparison with the piece, and `SeenInTag` the look at the whole buffer for
`<stream:stream ` to one at the stanza.

### IncomingProofs

For every set of domains, either target, with and without a PROXY header and
for any number of relayed stanzas (`IncomingAssumption` is typing, and that the
two words for a missing certificate and a missing `from=` are no domains):
`TypeCorrect`, `S2sAuthenticated`, `PlaintextOut`, `ScratchUnused`.

The certificate is looked at several steps, and with QUIC several streams,
after the handshake it came from, and what is relayed is decided several steps
after that.  `AuthInv` carries the decision: past `Verify` of an s2s stream,
its `Domain` is one of `cert`.  That `Domain` is also what the server behind
reads holds where nothing else looks like a `from=`, since an attribute stands
in a tag once.  `MidInv` says in which steps a stanza can be in
progress, and that inside TLS it consists of bytes from inside TLS (`Discard`
is what makes this true); `OpenInv` the same of the open that is kept;
`SentInv` how much was written behind at each step.

### OutgoingProofs

For every domain: any list of records that is not empty, any number of
addresses of each, any servers (`NetsAssumption`; a list is never empty because
of the defaults, which `SrvProofs!TypeCorrect` proves): `TypeCorrect`,
`ResponseOneServer`, `ClientStanzasRelayed`, `FallbackWithoutFaults`.

`ClientInv` says that nothing of the client's open is left in the filter when
the walk begins.  `ReplyInv` is the reason why `ClientStanzasRelayed` survives
servers that break off: the one that answered has been read through the filter
to the end of a stanza, which cleared it.  It is false of a WebSocket, which
does not use the filter; that is the finding of `outgoing_xmlns`.  `CleanInv`
and `WalkInv` are about domains without the faults of the findings (servers that
break off, stanzas and messages that are too long, failing writes):
`FallbackWithoutFaults` states `Faults = {} => FallbackReachesGoodServer`, as
the property without the condition is what `outgoing_dirty_filter` refutes.

### RelayProofs

For every setting of the sides, any number of stanzas and any room in the
peers' buffers (`RelayAssumption`): `TypeCorrect`, `WholeInOrder`,
`OverLongNever`, and `KeepsContract`, the refinement of `StanzaContract` by
each side's filter, step by step.

The order of what is written is not inductive by itself: it follows from what
is still to be read.  `SideInv` counts places in a peer's output (2n behind its
stanza n, 2n - 1 inside it) and says that the filter's half, the stanza being
written and the tokens on the wire lead from the place the other peer has been
given to the place this peer has sent to (`Flow`, `Leads`), so whichever branch
wins and wherever the other is dropped, the next whole stanza read is the next
one to be written.  For the limit it says that what makes a stanza too long is
still on the wire or has filled the buffer.  `LiveInv` is that for both sides
while the task runs, `PeerInv` what remains when it has ended.

### PeekProofs

For any number of bytes asked for, any limit (`PeekAssumption`): `TypeCorrect`,
`NothingConsumed`.  The two properties are inductive together; the lemma of
each way to read says that bytes only move from the socket to an empty buffer.

### MainProofs

For any number of connections and renewals, every configuration, every list of
sockets passed (`SetupsAssumption`: a datagram socket does not listen, and a
socket's name is the one at its place in the list of names; `RenewalsAssumption`):
`TypeCorrect`, `QuietCurrent`, `AsAsked`.

`CurrentInv` is the core: while the files are settled, nothing was written
since the last SIGHUP and that one has been received, what a reload has read so
far is of the newest renewal, and so is what it installs.  It holds because a
write sets `dirty`, and the SIGHUP that clears it leaves `pending` set until
the refresh task starts over.  `HandshakeInv` says what this means for a
handshake that began with such a pair; `TurnInv` who may be reading;
`StartInv` what is bound at each phase, from which `AsAsked`.

### SrvProofs

For answers of any length and any numbers in them (`SrvAssumption`: the types
of what was parsed): `TypeCorrect`, `OnePerPlace`, `PreferredKept`,
`HostMeta2Alone`, `DnsNotTrusted`.

Here the hard part is data and not steps: what `sort`, `dedup` and `sort_by`
do to a list.  The module first proves, by the least counterexample, that a fold
over a sequence takes its elements one at a time (`FoldExists`, `Unrolls`), that
a sort by insertions permutes its input and orders it by any relation that is
transitive (`SortIs`), and that flattening keeps the kind of elements
(`FlattenIs`).  `Ord for XmppConnection` is no order, since its last comparison
is between a weight and a priority.  `SortLess` shows that this does no harm:
all keys before it form a total preorder (`RankLE`), and an element is
inserted where it fits that one, whatever the last comparison says.  By
`RankOrder` the records of one place stand together in it, the preferred ones
first; hence `DedupIs`, one record of each place, ranked no higher than any
other; and `SortDedupIs`, which is all that the step `Finish` needs.  That the
sort is one by insertions is the model's (the standard library's is, for short
slices).  On longer ones the standard library merges, and from Rust 1.81 on may
panic where `Ord` is not total; the theorems do not speak of that.

`IndInv` adds that until `Finish` the list holds only what the JSON host-meta
brought (`Gathering`), that keys are pinned by the new format and nothing else
(`PinsInv`), and the types of the answers.  `CollectedIs` says where each kind
of record comes from and that only those from HTTPS are secure.

### What TLC checks, and nothing proves

- Liveness: `WalkEnds`, `PeerCloseEndsRelay`, `SentIsRelayed`, `SniffEnds`,
  `TcpBytesAreSniffed`, `RenewalIsServed`, `ConnectionsAreAccepted`.  TLAPS has
  no reasoning about fairness here.
- `MessageIsTheStanza`, `StreamSurvivesWebSocket` and `AddressesAreRight`:
  `String::replace` is a RECURSIVE operator, which the prover does not take.
  They are also about the attributes of the run: a search finds its words
  inside the value of another attribute as well, so for all values they are
  false.
- `FallbackReachesGoodServer` where servers have faults: it does not hold.

## 5. Not modelled

Transport handshakes (rustls, quinn, tokio-tungstenite, web-transport-quinn) are single steps
that succeed, fail or never end; certificate chains are webpki's, a flag here; parsing of
JSON, XML, URLs and DNS messages is abstracted to its result.  A `BufReader`'s
read-ahead in `starttls_connect`, dropped at the handshake, is not in
`Outgoing`: a TLS server does not speak first.  The pong is written in one step
with the read of its ping.  Text that is not UTF-8 and is to go into a WebSocket
message (`to_ws_new`) ends the relay as a failing write does, and is not in
`Relay` as a cause of its own.  A file is read in one step, the key and the
certificates in two.  Logging has no behaviour that a property could be about;
of the build's features the default ones are modelled; the environment
variables of socket activation are represented by their result, the
descriptors and names of a setup.  Components without a module are
listed with the reason in `PROJECT.json`.

## 6. Plan

In this order:

1. done: `StanzaContract`, `StanzaFilter`, `StanzaFraming` and the proofs;
   `Relay`, `Outgoing`, `Incoming`, `Peek`, `Srv`;
2. done: `CertsKey` and `Main`: reload, startup, listeners, `join_all`;
3. done: `WebSocketText` over the streams of `StanzaFraming`;
4. done: `Outgoing`'s `WalkEnds`;
5. the pong split from the read of its ping, which needs the sink's buffer;
6. `nginx-proxy-ctl`'s validate-and-apply;
7. done: theorems about `Incoming`, `Outgoing`, `Relay`, `Peek`, `Main` and
   `Srv`;
8. done: the theorem about `StanzaFraming`.
