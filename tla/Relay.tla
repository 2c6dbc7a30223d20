------------------------------- MODULE Relay -------------------------------
(***************************************************************************)
(* shuffle_rd_wr_filter_only (common/mod.rs): one task that carries stanzas *)
(* both ways between two peers, with StanzaRead::next and StanzaWrite of    *)
(* in_out.rs under it.                                                      *)
(*                                                                         *)
(* The task selects over two reads.  The read that loses is dropped where   *)
(* it stands, so a stanza read halfway lives on only in its filter; a read  *)
(* that fails does not match Ok(ret) and is not polled again before the     *)
(* other side has a stanza; and while a stanza is being written nothing is  *)
(* read.                                                                    *)
(***************************************************************************)
EXTENDS Integers, Sequences

CONSTANTS
    Settings,   \* how the sides may be connected: [kind, hostile]
    MaxSent,    \* bound: stanzas a peer begins
    Cap         \* bound: what a peer's receive buffer holds, in stanzas

Side == {"in", "out"}
Other(s) == IF s = "in" THEN "out" ELSE "in"

\* hostile: the sides that may send illegal or over-long stanzas.
ASSUME RelayAssumption ==
    /\ Settings \subseteq [kind : [Side -> {"stream", "websocket"}], hostile : SUBSET Side]
    /\ MaxSent \in Nat
    /\ Cap \in Nat \ {0}

VARIABLES
    setting,   \* the one of Settings it is
    pc,        \* "select", "write", "done" or "panic"
    polled,    \* the branches select! still polls
    held,      \* each filter's stanza in progress (0: none)
    full,      \* that stanza filled the filter's buffer
    res,       \* what each side's last read came to
    carry,     \* the stanza being written: whose, its halves
    wire,      \* what each peer sent and the relay has not read
    begun,     \* how many stanzas each peer began
    open,      \* the stanza each peer has begun and not finished (0: none)
    closed,    \* "no", "yes" (the peer sent EOF, or a WebSocket Close), or
               \* "broken": reading from it fails from now on
    over,      \* history: each peer's stanzas that exceed the limit
    inbox,     \* what was written to each peer and it has not read
    got        \* history: the stanzas of each peer that were written out

rvars == <<pc, polled, held, full, res, carry, got>>
pvars == <<setting, wire, begun, open, closed, over>>
vars == <<rvars, pvars, inbox>>

Kind == setting.kind
Hostile == setting.hostile

None == [from |-> "in", half |-> 0, end |-> 0]

Init ==
    /\ setting \in Settings
    /\ pc = "select"
    /\ polled = Side
    /\ held = [s \in Side |-> 0]
    /\ full = [s \in Side |-> FALSE]
    /\ res = [s \in Side |-> "none"]
    /\ carry = None
    /\ wire = [s \in Side |-> <<>>]
    /\ begun = [s \in Side |-> 0]
    /\ open = [s \in Side |-> 0]
    /\ closed = [s \in Side |-> "no"]
    /\ over = [s \in Side |-> {}]
    /\ inbox = [s \in Side |-> 0]
    /\ got = [s \in Side |-> <<>>]

-----------------------------------------------------------------------------
(* The peers.                                                              *)

\* A token on the wire names the stanza it is of, or the last one before it.
Send(s, token) == wire' = [wire EXCEPT ![s] = Append(@, token)]

\* A stream's stanza arrives in two halves, with any delay between them.
PeerBegins(s) ==
    /\ Kind[s] = "stream" /\ closed[s] = "no"
    /\ open[s] = 0 /\ begun[s] < MaxSent
    /\ Send(s, [is |-> "half", n |-> begun[s] + 1])
    /\ begun' = [begun EXCEPT ![s] = @ + 1]
    /\ open' = [open EXCEPT ![s] = begun[s] + 1]
    /\ UNCHANGED <<rvars, setting, inbox, closed, over>>

PeerFinishes(s) ==
    /\ open[s] # 0 /\ closed[s] = "no"
    /\ Send(s, [is |-> "end", n |-> open[s]])
    /\ open' = [open EXCEPT ![s] = 0]
    /\ UNCHANGED <<rvars, setting, inbox, begun, closed, over>>

\* Inside a stanza: a byte no stanza may have there, or more than fits.
PeerMisbehaves(s) ==
    /\ s \in Hostile /\ open[s] # 0 /\ closed[s] = "no"
    /\ Len(wire[s]) < 2
    /\ \/ Send(s, [is |-> "illegal", n |-> open[s]]) /\ UNCHANGED over
       \/ /\ Send(s, [is |-> "long", n |-> open[s]])
          /\ over' = [over EXCEPT ![s] = @ \union {open[s]}]
    /\ UNCHANGED <<rvars, setting, inbox, begun, open, closed>>

\* A WebSocket message is a whole stanza; ws_cfg lets in some that are longer
\* than the filter's buffer.
PeerMessage(s) ==
    /\ Kind[s] = "websocket" /\ closed[s] = "no"
    /\ begun[s] < MaxSent
    /\ \/ Send(s, [is |-> "message", n |-> begun[s] + 1]) /\ UNCHANGED over
       \/ /\ s \in Hostile
          /\ Send(s, [is |-> "longmessage", n |-> begun[s] + 1])
          /\ over' = [over EXCEPT ![s] = @ \union {begun[s] + 1}]
    /\ begun' = [begun EXCEPT ![s] = @ + 1]
    /\ UNCHANGED <<rvars, setting, inbox, open, closed>>

\* A message that is no stanza: a Ping, or one that is refused.
PeerPings(s) ==
    /\ Kind[s] = "websocket" /\ closed[s] = "no"
    /\ wire[s] = <<>>
    /\ \/ Send(s, [is |-> "ping", n |-> begun[s]])
       \/ s \in Hostile /\ Send(s, [is |-> "binary", n |-> begun[s]])
    /\ UNCHANGED <<rvars, setting, inbox, begun, open, closed, over>>

PeerCloses(s) ==
    /\ closed[s] = "no"
    /\ closed' = [closed EXCEPT ![s] = "yes"]
    /\ Send(s, [is |-> IF Kind[s] = "stream" THEN "eof" ELSE "close", n |-> 0])
    /\ UNCHANGED <<rvars, setting, inbox, begun, open, over>>

\* The connection is reset, or cut without TLS's close_notify.
PeerBreaks(s) ==
    /\ closed[s] = "no"
    /\ closed' = [closed EXCEPT ![s] = "broken"]
    /\ Send(s, [is |-> "broken", n |-> 0])
    /\ UNCHANGED <<rvars, setting, inbox, begun, open, over>>

PeerReads(s) ==
    /\ inbox[s] > 0
    /\ inbox' = [inbox EXCEPT ![s] = @ - 1]
    /\ UNCHANGED <<rvars, pvars>>

-----------------------------------------------------------------------------
(* The task.                                                               *)

Polling(s) == pc = "select" /\ s \in polled /\ ~full[s]

\* A read takes what comes next on the wire.
Takes(s, x) == /\ Polling(s)
               /\ wire[s] # <<>> /\ Head(wire[s]).is = x
               /\ wire' = [wire EXCEPT ![s] = Tail(@)]

Stay == UNCHANGED <<setting, begun, open, closed, over>>

ReadHalf(s) ==
    /\ Takes(s, "half")
    /\ held' = [held EXCEPT ![s] = Head(wire[s]).n]
    /\ res' = [res EXCEPT ![s] = "none"]
    /\ UNCHANGED <<pc, polled, full, carry, got, inbox>> /\ Stay

\* next_eoft returns Some: the branch wins, the other read is dropped.
ReadEnd(s) ==
    /\ Takes(s, "end")
    /\ carry' = [from |-> s, half |-> held[s], end |-> Head(wire[s]).n]
    /\ held' = [held EXCEPT ![s] = 0]
    /\ res' = [res EXCEPT ![s] = "stanza"]
    /\ pc' = "write"
    /\ UNCHANGED <<polled, full, got, inbox>> /\ Stay

\* WebSocketRead: a text message needs no filter.
ReadMessage(s) ==
    /\ Takes(s, "message")
    /\ carry' = [from |-> s, half |-> Head(wire[s]).n, end |-> Head(wire[s]).n]
    /\ pc' = "write"
    /\ UNCHANGED <<polled, held, full, res, got, inbox>> /\ Stay

\* A mutant: the message is relayed.
ReadLongMessage_Relays(s) ==
    /\ Takes(s, "longmessage")
    /\ carry' = [from |-> s, half |-> Head(wire[s]).n, end |-> Head(wire[s]).n]
    /\ pc' = "write"
    /\ UNCHANGED <<polled, held, full, res, got, inbox>> /\ Stay

\* filter.buf[0..stanza.len()] of a message longer than the buffer.
ReadLongMessage(s) ==
    /\ Takes(s, "longmessage")
    /\ pc' = "panic"
    /\ UNCHANGED <<polled, held, full, res, carry, got, inbox>> /\ Stay

\* The pong is fed to and flushed on the writer of the same side, inside the
\* read.
ReadPing(s) ==
    /\ Takes(s, "ping")
    /\ inbox[s] < Cap
    /\ inbox' = [inbox EXCEPT ![s] = @ + 1]
    /\ UNCHANGED <<pc, polled, held, full, res, carry, got>> /\ Stay

\* A mutant: no else branch.
BranchFails_NoElse(s) ==
    /\ polled' = polled \ {s}
    /\ UNCHANGED <<pc, held, carry, got, inbox>> /\ Stay

\* Err does not match the pattern: the branch is disabled, and when both are,
\* else => break.
BranchFails(s) ==
    /\ polled' = polled \ {s}
    /\ pc' = IF polled = {s} THEN "done" ELSE "select"
    /\ UNCHANGED <<held, carry, got, inbox>> /\ Stay

ReadIllegal(s) ==
    /\ Takes(s, "illegal")
    /\ res' = [res EXCEPT ![s] = "err"]
    /\ BranchFails(s)
    /\ UNCHANGED full

\* Binary and Pong => bail!
ReadBinary(s) ==
    /\ Takes(s, "binary")
    /\ BranchFails(s)
    /\ UNCHANGED <<full, res>>

\* feed(Pong)?, flush()?: the pong cannot be written to a peer that is gone.
PongFails(s) ==
    /\ Takes(s, "ping")
    /\ closed[s] # "no"
    /\ BranchFails(s)
    /\ UNCHANGED <<full, res>>

\* A mutant: the byte that is too much is dropped like an illegal one.
ReadTooBig_Drops(s) ==
    /\ Takes(s, "long")
    /\ res' = [res EXCEPT ![s] = "err"]
    /\ BranchFails(s)
    /\ UNCHANGED full

ReadTooBig(s) ==
    /\ Takes(s, "long")
    /\ res' = [res EXCEPT ![s] = "err"]
    /\ full' = [full EXCEPT ![s] = TRUE]
    /\ BranchFails(s)

\* Close(cf) => bail!, and so does every later read, bail!("websocket stream
\* ended"); a broken stream fails each time with an I/O error.
ReadClose(s) ==
    /\ Polling(s)
    /\ wire[s] # <<>> /\ Head(wire[s]).is \in {"close", "broken"}
    /\ BranchFails(s)
    /\ UNCHANGED <<wire, full, res>>

\* Polled again with a full buffer, current_buf is out of range.
ReadPanics(s) ==
    /\ pc = "select" /\ s \in polled /\ full[s]
    /\ pc' = "panic"
    /\ res' = [res EXCEPT ![s] = "panic"]
    /\ UNCHANGED <<polled, held, full, carry, got, inbox, pvars>>

\* A mutant: EOF is an error like any other.
ReadEof_Fails(s) ==
    /\ Takes(s, "eof")
    /\ BranchFails(s)
    /\ UNCHANGED <<full, res>>

\* None => break
ReadEof(s) ==
    /\ Takes(s, "eof")
    /\ pc' = "done"
    /\ res' = [res EXCEPT ![s] = "eof"]
    /\ UNCHANGED <<polled, held, full, carry, got, inbox>> /\ Stay

\* Mutants: every turn of the loop has new filters; only the other side is
\* polled next.
Write_NewFilters ==
    /\ pc = "write"
    /\ got' = [got EXCEPT ![carry.from] = Append(@, <<carry.half, carry.end>>)]
    /\ carry' = None /\ pc' = "select" /\ polled' = Side
    /\ held' = [s \in Side |-> 0]
    /\ UNCHANGED <<full, res, inbox, pvars>>
Write_Alternates ==
    /\ pc = "write"
    /\ got' = [got EXCEPT ![carry.from] = Append(@, <<carry.half, carry.end>>)]
    /\ carry' = None /\ pc' = "select" /\ polled' = {Other(carry.from)}
    /\ UNCHANGED <<held, full, res, inbox, pvars>>

\* write_all and flush, which wait for room at the other peer, then the next
\* turn of the loop polls both branches again.
Write ==
    /\ pc = "write"
    /\ LET t == Other(carry.from) IN
         /\ inbox[t] < Cap
         /\ inbox' = [inbox EXCEPT ![t] = @ + 1]
    /\ got' = [got EXCEPT ![carry.from] = Append(@, <<carry.half, carry.end>>)]
    /\ carry' = None
    /\ pc' = "select"
    /\ polled' = Side
    /\ UNCHANGED <<held, full, res, pvars>>

\* write_all(..)?, flush()?: a peer that is gone ends the task.
WriteFails ==
    /\ pc = "write"
    /\ closed[Other(carry.from)] # "no"
    /\ pc' = "done"
    /\ UNCHANGED <<polled, held, full, res, carry, got, inbox, pvars>>

Read(s) ==
    \/ ReadHalf(s) \/ ReadEnd(s) \/ ReadMessage(s) \/ ReadPing(s)
    \/ ReadIllegal(s) \/ ReadBinary(s) \/ PongFails(s) \/ ReadTooBig(s) \/ ReadClose(s)
    \/ ReadLongMessage(s) \/ ReadPanics(s) \/ ReadEof(s)

Next ==
    \/ \E s \in Side :
          \/ PeerBegins(s) \/ PeerFinishes(s) \/ PeerMisbehaves(s)
          \/ PeerMessage(s) \/ PeerPings(s) \/ PeerReads(s)
          \/ PeerCloses(s) \/ PeerBreaks(s)
          \/ Read(s)
    \/ Write \/ WriteFails

\* The task is scheduled whenever it can move, select! starts with a random
\* branch and so starves neither, and the peers read what they are sent.
Fairness ==
    /\ \A s \in Side : SF_vars(Read(s)) /\ WF_vars(PeerReads(s))
    /\ WF_vars(Write)

Spec == Init /\ [][Next]_vars /\ Fairness
-----------------------------------------------------------------------------
Ended == pc \in {"done", "panic"}

\* Every variable stays in its range; a task that goes on polls some branch.
TypeOK ==
    /\ pc \in {"select", "write", "done", "panic"}
    /\ polled \subseteq Side
    /\ pc \in {"select", "write"} => polled # {}
    /\ \A s \in Side :
          /\ held[s] \in 0..MaxSent
          /\ inbox[s] \in 0..Cap
          /\ res[s] \in {"none", "stanza", "err", "eof", "panic"}

\* Whatever the interleaving of the two reads and the writes, the stanzas of a
\* peer are written out once each and in the order they were sent, both halves
\* of one together: dropping a read that lost the select loses nothing.  (The
\* byte an illegal stanza was refused for is missing from it.)
RelaysWholeInOrder ==
    \A s \in Side : \A i \in DOMAIN got[s] : got[s][i] = <<i, i>>

\* "limit incoming stanza sizes as configured" (README.orig.md:23): a stanza
\* over the limit is not written out, not even when the branch that failed on
\* it is polled again.
OverLongIsNeverRelayed ==
    \A s \in Side : \A i \in DOMAIN got[s] : i \notin over[s]

\* Each filter as the contract sees it.
InFilter == INSTANCE StanzaContract
              WITH mid <- held["in"] # 0, full <- full["in"],
                   marked <- FALSE, stale <- FALSE, res <- res["in"]
OutFilter == INSTANCE StanzaContract
              WITH mid <- held["out"] # 0, full <- full["out"],
                   marked <- FALSE, stale <- FALSE, res <- res["out"]

\* The relay uses each filter as its contract allows, across dropped reads: it
\* never reads on after a panic, nor takes for finished what is in progress.
FiltersKeepContract == InFilter!CSpec /\ OutFilter!CSpec

\* When a peer that sends well-formed stanzas closes its side in order, the
\* relay ends and with it the other side's connection.  in_out.rs:112 says of a
\* WebSocket's Close: "just break from loop".
PeerCloseEndsRelay ==
    \A s \in Side : (s \notin Hostile /\ closed[s] = "yes") ~> Ended

\* A stanza that was sent is written out or the relay ends, whatever the other
\* peer sends: a failed branch does not stall the other one.
SentIsRelayed ==
    \A s \in Side, n \in 1..MaxSent :
        (s \notin Hostile /\ begun[s] >= n /\ open[s] # n) ~> (Len(got[s]) >= n \/ Ended)
=============================================================================
