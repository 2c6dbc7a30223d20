-------------------------------- MODULE Peek --------------------------------
(***************************************************************************)
(* Sniffing the first bytes of a connection without consuming them          *)
(* (common/mod.rs): Peek::peek_bytes of a TcpStream, of a BufStream or      *)
(* BufReader, and first_bytes_match_buf_timeout, which handle_tls_connection *)
(* uses inside TLS.  Bytes are counted, not told apart; time is counted in *)
(* ticks.                                                                  *)
(*                                                                         *)
(* What the three ask for more bytes with is not the same: peek looks at    *)
(* all the socket holds, fill_buf reads from the stream only when its       *)
(* buffer is empty and otherwise returns what it has at once.               *)
(***************************************************************************)
EXTENDS Integers

CONSTANTS
    Kinds,      \* what is sniffed: "TcpStream", "BufStream" or "timeout"
    Len,        \* how many bytes are asked for: p.len() or len
    MaxSent,    \* bound: bytes the peer sends
    Limit,      \* the 10 seconds, in ticks; the inner limit of "timeout" is twice that
    MaxTime     \* bound: ticks

ASSUME PeekAssumption ==
    /\ Kinds \subseteq {"TcpStream", "BufStream", "timeout"}
    /\ Len \in Nat \ {0} /\ MaxSent \in Nat
    /\ Limit \in Nat \ {0} /\ MaxTime \in Nat /\ MaxTime > 2 * Limit

VARIABLES
    kind,       \* the one of Kinds it is
    now,        \* ticks since the call
    sent,       \* bytes the peer sent that were not read from the stream
    total,      \* history: bytes the peer sent
    ended,      \* the peer sent its last byte
    buffered,   \* bytes in the BufReader's buffer
    pc,         \* "wait", "matched" (the matcher saw Len bytes) or "failed"
    inTime      \* history: Len bytes had been sent before Limit

vars == <<kind, now, sent, total, ended, buffered, pc, inTime>>

Init ==
    /\ kind \in Kinds
    /\ now = 0 /\ sent = 0 /\ total = 0 /\ ended = FALSE /\ buffered = 0
    /\ pc = "wait" /\ inTime = FALSE

PeerSends ==
    /\ ~ended /\ total < MaxSent
    /\ sent' = sent + 1 /\ total' = total + 1
    /\ inTime' = (inTime \/ (pc = "wait" /\ total' >= Len /\ now < Limit))
    /\ UNCHANGED <<kind, now, ended, buffered, pc>>

PeerEnds ==
    /\ ~ended
    /\ ended' = TRUE
    /\ UNCHANGED <<kind, now, sent, total, buffered, pc, inTime>>

\* The read completes with n bytes to look at: what the socket holds, or what
\* the buffer holds once fill_buf has filled it if it was empty.
PeekReturns(n) ==
    /\ kind = "TcpStream"
    /\ n = IF sent < Len THEN sent ELSE Len
    /\ sent > 0 \/ ended
    /\ UNCHANGED <<sent, buffered>>

\* Mutants: what was buffered is overwritten; what was read is read again.
FillBufReturns_Overwrites(n) ==
    /\ kind # "TcpStream"
    /\ sent > 0 \/ ended
    /\ sent' = 0 /\ buffered' = sent /\ n = buffered'
FillBufReturns_Duplicates(n) ==
    /\ kind # "TcpStream"
    /\ sent > 0 \/ ended
    /\ buffered' = sent + buffered /\ n = buffered /\ UNCHANGED sent

FillBufReturns(n) ==
    /\ kind # "TcpStream"
    /\ \/ buffered > 0 /\ UNCHANGED <<sent, buffered>>
       \/ /\ buffered = 0
          /\ sent > 0 \/ ended
          /\ sent' = 0 /\ buffered' = sent
    /\ n = buffered'

\* A mutant: the time is looked at first.
Look_TimeFirst(n) ==
    \/ now > Limit /\ pc' = "failed"
    \/ now <= Limit /\ n >= Len /\ pc' = "matched"
    \/ now <= Limit /\ n < Len /\ pc' = "wait"

\* What the loop makes of n bytes: peek_bytes gives up at once on none, and
\* on too few when the time is over; first_bytes_match_buf has twice the time
\* (for each read too, which the outer timeout makes moot) and does not give up
\* on none.
Look(n) ==
    \/ n >= Len /\ pc' = "matched"
    \/ n = 0 /\ kind # "timeout" /\ pc' = "failed"
    \/ /\ n < Len /\ (n > 0 \/ kind = "timeout")
       /\ pc' = IF \/ kind # "timeout" /\ now > Limit
                   \/ kind = "timeout" /\ now >= 2 * Limit
                THEN "failed" ELSE "wait"

\* One turn of the loop.
Turn ==
    /\ pc = "wait"
    /\ \E n \in 0..MaxSent : (PeekReturns(n) \/ FillBufReturns(n)) /\ Look(n)
    /\ UNCHANGED <<kind, now, total, ended, inTime>>

\* A mutant: no timeout around the loop.
Timeout_None ==
    FALSE /\ UNCHANGED vars

\* The timeout around first_bytes_match_buf.  It is looked at only when the
\* read it wraps is pending: a loop that finds its buffer filled every time does
\* not give the timer a turn.
Timeout ==
    /\ kind = "timeout"
    /\ pc = "wait" /\ now >= Limit
    /\ buffered = 0 /\ sent = 0
    /\ pc' = "failed"
    /\ UNCHANGED <<kind, now, sent, total, ended, buffered, inTime>>

Tick ==
    /\ now < MaxTime
    /\ now' = now + 1
    /\ UNCHANGED <<kind, sent, total, ended, buffered, pc, inTime>>

Next == PeerSends \/ PeerEnds \/ Turn \/ Timeout \/ Tick

\* Time passes and the task is scheduled; the peer need not do anything.
Fairness == WF_vars(Tick) /\ WF_vars(Turn) /\ WF_vars(Timeout)

Spec == Init /\ [][Next]_vars /\ Fairness

-----------------------------------------------------------------------------
\* Every variable stays in its range: a sniff never holds more than was sent.
TypeOK ==
    /\ now \in 0..MaxTime
    /\ total \in 0..MaxSent
    /\ sent \in 0..MaxSent /\ buffered \in 0..MaxSent
    /\ ended \in BOOLEAN /\ inTime \in BOOLEAN
    /\ pc \in {"wait", "matched", "failed"}

\* The bytes looked at stay, all of them, for whoever reads the connection
\* next, and a match has seen as many as were asked for.
SniffConsumesNothing ==
    /\ sent + buffered = total
    /\ pc = "matched" => total >= Len

\* "wait up to 10 seconds until len bytes have been read" (common/mod.rs:257): a
\* TCP peer that sends enough bytes in that time is not turned away, however
\* they arrive.
TcpBytesAreSniffed ==
    (kind = "TcpStream" /\ inTime) ~> (pc = "matched")

\* "wait up to 10 seconds until 3 bytes have been read" (common/mod.rs:346): the
\* same inside TLS.
TlsBytesAreSniffed ==
    (kind = "timeout" /\ inTime) ~> (pc = "matched")

\* The sniff inside TLS is over sometime, whatever the peer does or does not.
\* (The others may wait for ever for a peer that sends nothing: their limit is
\* looked at only when a read returns.)
SniffEnds ==
    (kind = "timeout") ~> (pc # "wait")
=============================================================================
