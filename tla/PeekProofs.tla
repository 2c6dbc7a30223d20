----------------------------- MODULE PeekProofs -----------------------------
(***************************************************************************)
(* Proofs about Peek, for any number of bytes asked for, any limit and any  *)
(* number of bytes sent.                                                    *)
(***************************************************************************)
EXTENDS Peek, TLAPS

\* The two safety properties are inductive together.
IndInv == TypeOK /\ SniffConsumesNothing

\* A read shows no more than the peer sent, moves bytes only from the stream
\* to an empty buffer, and loses none.
LEMMA ReadsKeepBytes ==
    ASSUME IndInv, NEW n \in 0..MaxSent, PeekReturns(n) \/ FillBufReturns(n)
    PROVE  /\ n <= total
           /\ sent' \in 0..MaxSent /\ buffered' \in 0..MaxSent
           /\ sent' + buffered' = sent + buffered
  <1> USE PeekAssumption
  <1>1. CASE PeekReturns(n)
    BY <1>1 DEF PeekReturns, IndInv, TypeOK, SniffConsumesNothing
  <1>2. CASE FillBufReturns(n)
    BY <1>2 DEF FillBufReturns, IndInv, TypeOK, SniffConsumesNothing
  <1> QED
    BY <1>1, <1>2

LEMMA InitIndInv == Init => IndInv
  <1> SUFFICES ASSUME Init
               PROVE  IndInv
    OBVIOUS
  <1>1. ended \in BOOLEAN /\ inTime \in BOOLEAN
    BY DEF Init
  <1>2. SniffConsumesNothing
    BY DEF Init, SniffConsumesNothing
  <1>3. TypeOK
    BY <1>1, PeekAssumption DEF Init, TypeOK
  <1> QED
    BY <1>2, <1>3 DEF IndInv

LEMMA NextIndInv == IndInv /\ [Next]_vars => IndInv'
  <1> SUFFICES ASSUME IndInv, [Next]_vars
               PROVE  IndInv'
    OBVIOUS
  <1> USE PeekAssumption DEF IndInv
  <1>1. CASE PeerSends
    <2>1. inTime' \in BOOLEAN
      BY <1>1 DEF PeerSends
    <2> QED
      BY <1>1, <2>1 DEF PeerSends, TypeOK, SniffConsumesNothing
  <1>2. CASE PeerEnds
    BY <1>2 DEF PeerEnds, TypeOK, SniffConsumesNothing
  <1>3. CASE Turn
    <2>1. PICK n \in 0..MaxSent : (PeekReturns(n) \/ FillBufReturns(n)) /\ Look(n)
      BY <1>3 DEF Turn
    <2>2. /\ n <= total
          /\ sent' \in 0..MaxSent /\ buffered' \in 0..MaxSent
          /\ sent' + buffered' = sent + buffered
      BY <2>1, ReadsKeepBytes
    <2>3. pc' \in {"wait", "matched", "failed"} /\ (pc' = "matched" => n >= Len)
      <3>1. \/ n >= Len /\ pc' = "matched"
            \/ pc' = "failed"
            \/ pc' \in {"failed", "wait"}
        BY <2>1 DEF Look
      <3> QED
        BY <3>1
    <2>4. UNCHANGED <<kind, now, total, ended, inTime>>
      BY <1>3 DEF Turn
    <2>5. TypeOK'
      BY <2>2, <2>3, <2>4 DEF TypeOK
    <2>6. SniffConsumesNothing'
      <3>1. sent' + buffered' = total'
        BY <2>2, <2>4 DEF SniffConsumesNothing
      <3>2. pc' = "matched" => total >= Len
        BY <2>2, <2>3 DEF TypeOK
      <3> QED
        BY <2>4, <3>1, <3>2 DEF SniffConsumesNothing
    <2> QED
      BY <2>5, <2>6
  <1>4. CASE Timeout
    BY <1>4 DEF Timeout, TypeOK, SniffConsumesNothing
  <1>5. CASE Tick
    BY <1>5 DEF Tick, TypeOK, SniffConsumesNothing
  <1>6. CASE UNCHANGED vars
    BY <1>6 DEF vars, TypeOK, SniffConsumesNothing
  <1> QED
    BY <1>1, <1>2, <1>3, <1>4, <1>5, <1>6 DEF Next

LEMMA IndInvHolds == Spec => []IndInv
  BY InitIndInv, NextIndInv, PTL DEF Spec

\* Every variable stays in its range: no sniff holds more than was sent.
THEOREM TypeCorrect == Spec => []TypeOK
  BY IndInvHolds, PTL DEF IndInv

\* Whichever way it reads, peek_bytes or first_bytes_match_buf leaves every byte
\* it looked at for the next reader, and reports a match only when all the bytes
\* asked for were there.
THEOREM NothingConsumed == Spec => []SniffConsumesNothing
  BY IndInvHolds, PTL DEF IndInv
=============================================================================
