------------------------- MODULE StanzaFilterProofs -------------------------
(***************************************************************************)
(* Proofs about StanzaFilter, for every alphabet, every choice of the byte  *)
(* strings compared with and every max_stanza_size_bytes.                   *)
(***************************************************************************)
EXTENDS StanzaFilter, SequenceTheorems, TLAPS

-----------------------------------------------------------------------------
(* One byte.                                                               *)

\* Storing the byte changes buf at cnt only.
LEMMA StoreByte ==
    ASSUME TypeOK, NEW b \in Byte, cnt < BufSize, buf' = [buf EXCEPT ![cnt] = b]
    PROVE  /\ buf' \in [0..(BufSize - 1) -> Byte]
           /\ buf'[cnt] = b
           /\ \A i \in 0..(BufSize - 1) : i # cnt => buf'[i] = buf[i]
  BY BufSizeAssumption DEF TypeOK

\* A byte that is counted: what Advance makes of fed and cnt.
LEMMA AdvanceFacts ==
    ASSUME TypeOK, FedInv, state # "OutsideStanza",
           NEW b \in Byte, cnt < BufSize, buf' = [buf EXCEPT ![cnt] = b],
           Advance(b)
    PROVE  /\ cnt' = cnt + 1 /\ cnt' \in 0..BufSize
           /\ ret' \in {"none", "err"}
           /\ out' = <<>> /\ out_eoft' = 0
           /\ stale' = stale
           /\ fed' \in Seq(Byte) /\ Len(fed') = cnt'
           /\ fed'[1] = Lt
           /\ \A i \in 1..cnt : fed'[i] = fed[i]
           /\ \A i \in 1..cnt' : fed'[i] = buf'[i - 1]
  <1>1. /\ fed' = Append(fed, b) /\ fed \in Seq(Byte) /\ Len(fed) = cnt
        /\ cnt \in Nat /\ cnt' = cnt + 1
    BY DEF Advance, TypeOK, FedInv
  <1>2. /\ fed' \in Seq(Byte) /\ Len(fed') = cnt + 1
        /\ \A i \in 1..cnt : fed'[i] = fed[i]
        /\ fed'[cnt + 1] = b
    BY <1>1, AppendProperties
  <1>3. /\ buf'[cnt] = b
        /\ \A i \in 0..(BufSize - 1) : i # cnt => buf'[i] = buf[i]
    BY StoreByte
  <1>4. \A i \in 1..cnt : fed[i] = buf[i - 1] /\ i - 1 \in 0..(BufSize - 1) /\ i - 1 # cnt
    BY <1>1, BufSizeAssumption DEF FedInv, TypeOK
  <1>5. \A i \in 1..cnt' : fed'[i] = buf'[i - 1]
    BY <1>1, <1>2, <1>3, <1>4
  <1> QED
    BY <1>1, <1>2, <1>5, BufSizeAssumption DEF Advance, NoStanza, FedInv, TypeOK

\* A stanza that ends: what stanza_end returns.
LEMMA StanzaEndFacts ==
    ASSUME TypeOK, FedInv, state # "OutsideStanza",
           NEW b \in Byte, cnt < BufSize, buf' = [buf EXCEPT ![cnt] = b],
           NEW reader, NEW eoft, StanzaEnd(b, reader, eoft)
    PROVE  /\ out' = fed'
           /\ fed' \in Seq(Byte) /\ Len(fed') = cnt + 1
           /\ fed'[1] = Lt
           /\ fed'[cnt + 1] = b
           /\ \A i \in 1..cnt : fed'[i] = fed[i]
  <1>1. /\ fed' = Append(fed, b) /\ fed \in Seq(Byte) /\ Len(fed) = cnt
        /\ cnt \in Nat
    BY DEF StanzaEnd, TypeOK, FedInv
  <1>2. /\ fed' \in Seq(Byte) /\ Len(fed') = cnt + 1
        /\ \A i \in 1..cnt : fed'[i] = fed[i]
        /\ fed'[cnt + 1] = b
    BY <1>1, AppendProperties
  <1>3. /\ buf'[cnt] = b
        /\ \A i \in 0..(BufSize - 1) : i # cnt => buf'[i] = buf[i]
    BY StoreByte
  <1>4. \A i \in 1..cnt : fed[i] = buf[i - 1] /\ i - 1 \in 0..(BufSize - 1) /\ i - 1 # cnt
    BY <1>1, BufSizeAssumption DEF FedInv, TypeOK
  <1>5. \A i \in 1..cnt : fed[i] = buf'[i - 1]
    BY <1>3, <1>4
  <1>6. out' = [i \in 1..(cnt + 1) |-> buf'[i - 1]]
    BY DEF StanzaEnd
  <1>7. out' = fed'
    <2>1. fed' \in [1..(cnt + 1) -> Byte]
      BY <1>2, LenProperties
    <2>2. \A i \in 1..(cnt + 1) : fed'[i] = buf'[i - 1]
      BY <1>1, <1>2, <1>3, <1>5
    <2> QED
      BY <1>6, <2>1, <2>2
  <1> QED
    BY <1>1, <1>2, <1>7 DEF FedInv

-----------------------------------------------------------------------------
(* The inductive invariant is preserved.                                   *)

\* What a byte that is counted must still show of the new state: everything
\* else follows from AdvanceFacts.
LEMMA AdvanceKeeps ==
    ASSUME IndInv, state # "OutsideStanza",
           NEW b \in Byte, cnt < BufSize, buf' = [buf EXCEPT ![cnt] = b],
           Advance(b),
           state' \in StanzaState, state' # "OutsideStanza",
           quote' \in Byte, idx' \in Nat, tag_cnt' \in 0..(cnt + 1),
           end_of_first_tag' = end_of_first_tag
             \/ (end_of_first_tag = 0 /\ end_of_first_tag' = cnt /\ b = Gt),
           PosInv', MarkInv'
    PROVE  IndInv'
  <1>1. /\ cnt' = cnt + 1 /\ cnt' \in 0..BufSize
        /\ ret' \in {"none", "err"}
        /\ out' = <<>> /\ out_eoft' = 0
        /\ stale' = stale
        /\ fed' \in Seq(Byte) /\ Len(fed') = cnt'
        /\ fed'[1] = Lt
        /\ \A i \in 1..cnt : fed'[i] = fed[i]
        /\ \A i \in 1..cnt' : fed'[i] = buf'[i - 1]
    BY AdvanceFacts DEF IndInv
  <1>0. /\ buf' \in [0..(BufSize - 1) -> Byte]
        /\ buf'[cnt] = b
    BY StoreByte DEF IndInv
  <1>2. cnt \in 1..(BufSize - 1)
    BY BufSizeAssumption DEF IndInv, FedInv, TypeOK
  <1>7. fed'[cnt + 1] = b
    BY <1>0, <1>1, <1>2
  <1>3. TypeOK'
    BY <1>0, <1>1, <1>2, EmptySeq, BufSizeAssumption DEF IndInv, TypeOK
  <1>4. RestInv' /\ FedInv'
    BY <1>1, <1>2 DEF RestInv, FedInv
  <1>5. EoftInv'
    <2> SUFFICES ASSUME ~stale', end_of_first_tag' # 0
                 PROVE  /\ end_of_first_tag' < cnt'
                        /\ fed'[end_of_first_tag' + 1] = Gt
      BY DEF EoftInv
    <2>1. CASE end_of_first_tag = 0
      BY <1>1, <1>2, <1>7, <2>1
    <2>2. CASE end_of_first_tag # 0
      <3>1. end_of_first_tag < cnt /\ fed[end_of_first_tag + 1] = Gt
        BY <1>1, <2>2 DEF IndInv, EoftInv
      <3>2. end_of_first_tag' = end_of_first_tag /\ end_of_first_tag \in 0..(cnt - 1)
        BY <1>2, <2>2, <3>1 DEF IndInv, TypeOK
      <3> QED
        BY <1>1, <1>2, <3>1, <3>2
    <2> QED
      BY <2>1, <2>2
  <1>6. StanzaIsWhatWasRead' /\ EndOfFirstTagIsInStanza'
    BY <1>1 DEF StanzaIsWhatWasRead, EndOfFirstTagIsInStanza
  <1> QED
    BY <1>3, <1>4, <1>5, <1>6 DEF IndInv

\* A refused byte leaves the stanza in progress as it was: it lies behind it.
LEMMA RefusedKeeps ==
    ASSUME IndInv, state # "OutsideStanza",
           NEW b \in Byte, cnt < BufSize, buf' = [buf EXCEPT ![cnt] = b],
           ret' = "err", NoStanza,
           UNCHANGED <<cnt, tag_cnt, fed, stale, end_of_first_tag>>,
           state' \in StanzaState, state' # "OutsideStanza",
           quote' \in Byte, idx' \in Nat,
           PosInv', MarkInv'
    PROVE  IndInv'
  <1>1. /\ buf' \in [0..(BufSize - 1) -> Byte]
        /\ \A i \in 0..(BufSize - 1) : i # cnt => buf'[i] = buf[i]
    BY StoreByte DEF IndInv
  <1>2. out' = <<>> /\ out_eoft' = 0
    BY DEF NoStanza
  <1>3. TypeOK'
    BY <1>1, <1>2, EmptySeq, BufSizeAssumption DEF IndInv, TypeOK
  <1>4. FedInv'
    BY <1>1, BufSizeAssumption DEF IndInv, FedInv, TypeOK
  <1>5. RestInv' /\ EoftInv'
    BY DEF IndInv, RestInv, EoftInv
  <1>6. StanzaIsWhatWasRead' /\ EndOfFirstTagIsInStanza'
    BY DEF StanzaIsWhatWasRead, EndOfFirstTagIsInStanza
  <1> QED
    BY <1>3, <1>4, <1>5, <1>6 DEF IndInv

\* bail! does not touch the state either.
LEMMA BailKeeps ==
    ASSUME IndInv, state # "OutsideStanza",
           NEW b \in Byte, cnt < BufSize, buf' = [buf EXCEPT ![cnt] = b],
           Bail, UNCHANGED end_of_first_tag
    PROVE  IndInv'
  <1>1. PosInv' /\ MarkInv'
    BY DEF Bail, IndInv, PosInv, MarkInv
  <1>2. state \in StanzaState /\ quote \in Byte /\ idx \in Nat
    BY DEF IndInv, TypeOK
  <1> QED
    BY <1>1, <1>2, RefusedKeeps DEF Bail

\* The byte that ends a stanza, with the end_of_first_tag it has by then.
LEMMA StanzaEndKeeps ==
    ASSUME IndInv, state # "OutsideStanza", cnt >= 2,
           NEW reader, NEW eoft,
           cnt < BufSize, buf' = [buf EXCEPT ![cnt] = Gt],
           StanzaEnd(Gt, reader, eoft),
           eoft = end_of_first_tag \/ (end_of_first_tag = 0 /\ eoft = cnt)
    PROVE  IndInv'
  <1>1. Gt \in Byte
    BY BytesAssumption
  <1>2. /\ out' = fed'
        /\ fed' \in Seq(Byte) /\ Len(fed') = cnt + 1
        /\ fed'[1] = Lt
        /\ fed'[cnt + 1] = Gt
        /\ \A i \in 1..cnt : fed'[i] = fed[i]
    BY <1>1, StanzaEndFacts DEF IndInv
  <1>3. /\ cnt \in 2..(BufSize - 1) /\ eoft \in 0..(BufSize - 1)
        /\ ret' = "stanza" /\ stale' = stale
        /\ out_eoft' \in {0, eoft} /\ end_of_first_tag' \in {0, eoft}
        /\ tag_cnt' = 0 /\ cnt' = 0 /\ state' = "OutsideStanza"
        /\ quote' = Nul /\ idx' = 0
    BY BufSizeAssumption DEF StanzaEnd, IndInv, TypeOK
  <1>4. TypeOK'
    <2>1. buf' \in [0..(BufSize - 1) -> Byte]
      BY <1>1, StoreByte DEF IndInv
    <2> QED
      BY <1>2, <1>3, <2>1, BytesAssumption, BufSizeAssumption
      DEF IndInv, TypeOK, StanzaState
  <1>5. RestInv' /\ FedInv' /\ PosInv' /\ MarkInv' /\ EoftInv'
    BY <1>3 DEF RestInv, FedInv, PosInv, MarkInv, EoftInv
  <1>6. StanzaIsWhatWasRead'
    BY <1>2, <1>3, BufSizeAssumption DEF StanzaIsWhatWasRead
  <1>7. EndOfFirstTagIsInStanza'
    <2> SUFFICES ASSUME ~stale', out_eoft' # 0
                 PROVE  out_eoft' < Len(out') /\ out'[out_eoft' + 1] = Gt
      BY DEF EndOfFirstTagIsInStanza
    <2>1. CASE end_of_first_tag = 0
      <3>1. out_eoft' = cnt
        BY <1>3, <2>1
      <3> QED
        BY <1>2, <1>3, <3>1
    <2>2. CASE end_of_first_tag # 0
      <3>1. end_of_first_tag < cnt /\ fed[end_of_first_tag + 1] = Gt
        BY <1>3, <2>2 DEF IndInv, EoftInv
      <3>2. out_eoft' = end_of_first_tag /\ end_of_first_tag \in 0..(cnt - 1)
        BY <1>3, <2>2, <3>1 DEF IndInv, TypeOK
      <3> QED
        BY <1>2, <1>3, <3>1, <3>2
    <2> QED
      BY <2>1, <2>2
  <1> QED
    BY <1>4, <1>5, <1>6, <1>7 DEF IndInv

\* The first byte of a stanza, or one between stanzas.
LEMMA OutsideStanzaKeeps ==
    ASSUME IndInv, NEW b \in Byte, cnt < BufSize, buf' = [buf EXCEPT ![cnt] = b],
           OutsideStanza(b)
    PROVE  IndInv'
  <1>1. /\ state = "OutsideStanza" /\ cnt = 0 /\ tag_cnt = 0
        /\ end_of_first_tag' = end_of_first_tag
        /\ out' = <<>> /\ out_eoft' = 0
    BY DEF OutsideStanza, NoStanza, IndInv, RestInv
  <1>2. buf' \in [0..(BufSize - 1) -> Byte] /\ buf'[cnt] = b
    BY StoreByte DEF IndInv
  <1>3. CASE b = Lt
    <2>1. /\ cnt' = 1 /\ tag_cnt' = 1 /\ state' = "StanzaFirstChar"
          /\ quote' = Nul /\ idx' = 0 /\ ret' \in {"none", "err"}
          /\ fed' = <<Lt>> /\ stale' = (end_of_first_tag # 0)
      BY <1>1, <1>3 DEF OutsideStanza, Goto
    <2>2. fed' \in Seq(Byte) /\ Len(fed') = 1 /\ fed'[1] = Lt
      BY <2>1, <1>3
    <2>3. TypeOK'
      BY <1>1, <1>2, <2>1, <2>2, EmptySeq, BytesAssumption, BufSizeAssumption
      DEF IndInv, TypeOK, StanzaState
    <2>4. FedInv'
      BY <1>1, <1>2, <1>3, <2>1, <2>2 DEF FedInv
    <2>5. RestInv' /\ PosInv' /\ MarkInv'
      BY <1>1, <2>1 DEF RestInv, PosInv, MarkInv
    <2>7. EoftInv'
      BY <1>1, <2>1 DEF EoftInv
    <2>6. StanzaIsWhatWasRead' /\ EndOfFirstTagIsInStanza'
      BY <2>1 DEF StanzaIsWhatWasRead, EndOfFirstTagIsInStanza
    <2> QED
      BY <2>3, <2>4, <2>5, <2>6, <2>7 DEF IndInv
  <1>4. CASE b # Lt
    <2>1. /\ UNCHANGED <<cnt, tag_cnt, state, quote, idx>>
          /\ ret' = "none" /\ fed' = <<>> /\ stale' = FALSE
      BY <1>1, <1>4 DEF OutsideStanza
    <2>5. fed' \in Seq(Byte) /\ out' \in Seq(Byte) /\ stale' \in BOOLEAN
      BY <1>1, <2>1, EmptySeq
    <2>2. TypeOK'
      BY <1>1, <1>2, <2>1, <2>5, BufSizeAssumption DEF IndInv, TypeOK
    <2>3. RestInv' /\ FedInv' /\ PosInv' /\ MarkInv' /\ EoftInv'
      BY <1>1, <2>1 DEF IndInv, RestInv, FedInv, PosInv, MarkInv, EoftInv
    <2>4. StanzaIsWhatWasRead' /\ EndOfFirstTagIsInStanza'
      BY <2>1 DEF StanzaIsWhatWasRead, EndOfFirstTagIsInStanza
    <2> QED
      BY <2>2, <2>3, <2>4 DEF IndInv
  <1> QED
    BY <1>3, <1>4

\* The arms inside a stanza, none of which can run with the buffer full.
LEMMA InsideStanzaKeeps ==
    ASSUME IndInv, NEW b \in Byte, NEW reader, cnt < BufSize,
           buf' = [buf EXCEPT ![cnt] = b],
           \/ BetweenTags(b) \/ StanzaFirstChar(b) \/ InsideTagFirstChar(b)
           \/ InsideTag(b, reader) \/ InsideAttribute(b) \/ QuestionTag(b)
           \/ InsideXmlTag(b, reader) \/ ExclamationTag(b) \/ InsideCDATA(b)
           \/ EndStream(b, reader)
    PROVE  IndInv'
  <1>1. state # "OutsideStanza"
    BY DEF BetweenTags, StanzaFirstChar, InsideTagFirstChar, InsideTag,
           InsideAttribute, QuestionTag, InsideXmlTag, ExclamationTag,
           InsideCDATA, EndStream
  <1>2. /\ cnt \in 1..(BufSize - 1) /\ tag_cnt \in 0..cnt
        /\ end_of_first_tag \in 0..(BufSize - 1) /\ idx \in Nat
        /\ quote \in Byte /\ Nul \in Byte /\ state \in StanzaState
    BY <1>1, BytesAssumption, BufSizeAssumption DEF IndInv, TypeOK, FedInv, PosInv
  <1>3. /\ Len(XmlDecl) \in Nat \ {0} /\ Len(CDataOpen) \in Nat \ {0}
    BY NeedlesAssumption, EmptySeq, SeqEqual
  <1>4. ASSUME Advance(b),
               state' \in StanzaState, state' # "OutsideStanza",
               quote' \in Byte, idx' \in Nat, tag_cnt' \in 0..(cnt + 1),
               end_of_first_tag' = end_of_first_tag
                 \/ (end_of_first_tag = 0 /\ end_of_first_tag' = cnt /\ b = Gt),
               PosInv', MarkInv'
        PROVE  IndInv'
    BY <1>1, <1>4, AdvanceKeeps
  <1>5. ASSUME Bail, UNCHANGED end_of_first_tag
        PROVE  IndInv'
    BY <1>1, <1>5, BailKeeps
  <1>6. ASSUME b = Gt, cnt >= 2, NEW eoft, StanzaEnd(b, reader, eoft),
               eoft = end_of_first_tag \/ (end_of_first_tag = 0 /\ eoft = cnt)
        PROVE  IndInv'
    BY <1>1, <1>6, StanzaEndKeeps
  <1>7. CASE BetweenTags(b)
    <2>1. /\ Advance(b) /\ cnt' = cnt + 1
          /\ state' \in {"BetweenTags", "InsideTagFirstChar"}
          /\ quote' \in Byte /\ idx' \in Nat /\ tag_cnt' \in 0..(cnt + 1)
          /\ end_of_first_tag' = end_of_first_tag /\ state = "BetweenTags"
      BY <1>2, <1>7 DEF BetweenTags, Goto, Advance
    <2>2. PosInv' /\ MarkInv'
      BY <1>2, <2>1 DEF PosInv, MarkInv, IndInv
    <2> QED
      BY <1>4, <2>1, <2>2 DEF StanzaState
  <1>8. CASE StanzaFirstChar(b)
    <2>1. CASE Bail
      BY <1>5, <1>8, <2>1 DEF StanzaFirstChar
    <2>2. CASE ~Bail
      <3>1. /\ Advance(b) /\ cnt' = cnt + 1 /\ tag_cnt' = tag_cnt
            /\ end_of_first_tag' = end_of_first_tag
            /\ state' \in {"EndStream", "QuestionTag", "InsideTag"}
            /\ quote' = Nul
            /\ idx' \in Nat
            /\ state' = "QuestionTag" => idx' = cnt + Len(XmlDecl)
            /\ state = "StanzaFirstChar"
        BY <1>2, <1>3, <1>8, <2>2 DEF StanzaFirstChar, Goto, Advance, NeedleEnd
      <3>2. PosInv' /\ MarkInv'
        BY <1>2, <1>3, <3>1 DEF PosInv, MarkInv, IndInv
      <3> QED
        BY <1>2, <1>4, <3>1, <3>2 DEF StanzaState
    <2> QED
      BY <2>1, <2>2
  <1>9. CASE InsideTagFirstChar(b)
    <2>1. CASE Bail
      BY <1>5, <1>9, <2>1 DEF InsideTagFirstChar
    <2>2. CASE ~Bail
      <3>1. /\ Advance(b) /\ cnt' = cnt + 1
            /\ tag_cnt' \in {tag_cnt, tag_cnt - 2} /\ tag_cnt' \in 0..cnt
            /\ end_of_first_tag' = end_of_first_tag
            /\ state' \in {"InsideTagFirstChar", "ExclamationTag", "InsideTag"}
            /\ quote' \in Byte
            /\ idx' \in Nat
            /\ state' = "ExclamationTag" => idx' = cnt + Len(CDataOpen)
            /\ state = "InsideTagFirstChar"
        BY <1>2, <1>3, <1>9, <2>2 DEF InsideTagFirstChar, Goto, Advance, NeedleEnd
      <3>2. PosInv' /\ MarkInv'
        BY <1>2, <1>3, <3>1 DEF PosInv, MarkInv, IndInv
      <3> QED
        BY <1>2, <1>4, <3>1, <3>2 DEF StanzaState
    <2> QED
      BY <2>1, <2>2
  <1>10. CASE InsideAttribute(b)
    <2>1. /\ Advance(b) /\ cnt' = cnt + 1 /\ tag_cnt' = tag_cnt
          /\ end_of_first_tag' = end_of_first_tag
          /\ state' \in {"InsideAttribute", "InsideTag"}
          /\ quote' \in Byte /\ idx' \in Nat /\ state = "InsideAttribute"
      BY <1>2, <1>10 DEF InsideAttribute, Goto, Advance
    <2>2. PosInv' /\ MarkInv'
      BY <1>2, <2>1 DEF PosInv, MarkInv, IndInv
    <2> QED
      BY <1>2, <1>4, <2>1, <2>2 DEF StanzaState
  <1>11. CASE InsideXmlTag(b, reader)
    <2>1. CASE b = Gt
      <3>1. StanzaEnd(b, reader, end_of_first_tag) /\ cnt >= 2
        BY <1>11, <2>1 DEF InsideXmlTag, IndInv, PosInv
      <3> QED
        BY <1>6, <2>1, <3>1
    <2>2. CASE b # Gt
      <3>1. /\ Advance(b) /\ cnt' = cnt + 1
            /\ UNCHANGED <<tag_cnt, end_of_first_tag, state, quote, idx>>
            /\ state = "InsideXmlTag"
        BY <1>11, <2>2 DEF InsideXmlTag, Advance
      <3>2. PosInv' /\ MarkInv'
        BY <1>2, <3>1 DEF PosInv, MarkInv, IndInv
      <3> QED
        BY <1>2, <1>4, <3>1, <3>2 DEF StanzaState
    <2> QED
      BY <2>1, <2>2
  <1>12. CASE InsideCDATA(b)
    <2>1. /\ Advance(b) /\ cnt' = cnt + 1 /\ tag_cnt' = tag_cnt
          /\ end_of_first_tag' = end_of_first_tag
          /\ state' \in {"InsideCDATA", "BetweenTags"}
          /\ quote' \in Byte /\ idx' \in Nat /\ state = "InsideCDATA"
      BY <1>2, <1>12 DEF InsideCDATA, Goto, Advance
    <2>2. PosInv' /\ MarkInv'
      BY <1>2, <1>3, <2>1 DEF PosInv, MarkInv, IndInv
    <2> QED
      BY <1>2, <1>4, <2>1, <2>2 DEF StanzaState
  <1>13. CASE QuestionTag(b)
    <2>1. CASE Bail
      BY <1>5, <1>13, <2>1 DEF QuestionTag
    <2>2. CASE ~Bail
      <3>1. /\ Advance(b) /\ cnt' = cnt + 1 /\ tag_cnt' = tag_cnt
            /\ end_of_first_tag' = end_of_first_tag
            /\ quote' \in Byte /\ idx' \in Nat /\ state = "QuestionTag"
            /\ \/ state' = "InsideXmlTag"
               \/ state' = "QuestionTag" /\ idx' = idx /\ idx # cnt
        BY <1>2, <1>13, <2>2 DEF QuestionTag, Goto, Advance
      <3>2. PosInv' /\ MarkInv'
        BY <1>2, <1>3, <3>1 DEF PosInv, MarkInv, IndInv
      <3> QED
        BY <1>2, <1>4, <3>1, <3>2 DEF StanzaState
    <2> QED
      BY <2>1, <2>2
  <1>14. CASE ExclamationTag(b)
    <2>1. /\ state = "ExclamationTag" /\ UNCHANGED end_of_first_tag
          /\ cnt <= idx /\ idx >= Len(CDataOpen) + 2 /\ end_of_first_tag # 0
      BY <1>14 DEF ExclamationTag, IndInv, PosInv, MarkInv
    <2>2. CASE Bail
      BY <1>5, <2>1, <2>2
    <2>3. CASE idx # cnt
      <3>1. Advance(b) /\ UNCHANGED <<tag_cnt, state, quote, idx>> /\ cnt' = cnt + 1
        BY <1>14, <2>3 DEF ExclamationTag, Advance
      <3>2. PosInv' /\ MarkInv'
        BY <1>2, <1>3, <2>1, <2>3, <3>1 DEF PosInv, MarkInv
      <3> QED
        BY <1>2, <1>4, <2>1, <3>1, <3>2
    <2>4. CASE idx = cnt /\ ~Bail /\ tag_cnt >= 1
      <3>1. /\ Advance(b) /\ cnt' = cnt + 1 /\ tag_cnt' = tag_cnt - 1
            /\ state' = "InsideCDATA" /\ quote' = Nul /\ idx' = 0
        BY <1>2, <1>14, <2>4 DEF ExclamationTag, Goto, Advance
      <3>2. PosInv' /\ MarkInv'
        BY <1>2, <1>3, <2>1, <2>4, <3>1 DEF PosInv, MarkInv
      <3> QED
        BY <1>2, <1>4, <2>1, <2>4, <3>1, <3>2 DEF StanzaState
    <2>5. CASE idx = cnt /\ ~Bail /\ tag_cnt < 1
      <3>1. /\ ret' = "err" /\ NoStanza /\ UNCHANGED <<cnt, tag_cnt, fed, stale>>
            /\ state' = "InsideCDATA" /\ quote' = Nul /\ idx' = 0
        BY <1>2, <1>14, <2>5 DEF ExclamationTag, Goto
      <3>2. PosInv' /\ MarkInv'
        BY <1>2, <1>3, <2>1, <2>5, <3>1 DEF PosInv, MarkInv
      <3> QED
        BY <1>1, <1>2, <2>1, <3>1, <3>2, RefusedKeeps DEF StanzaState
    <2> QED
      BY <1>2, <2>2, <2>3, <2>4, <2>5
  <1>15. CASE InsideTag(b, reader)
    <2>1. /\ state = "InsideTag" /\ cnt >= 2
          /\ end_of_first_tag = 0 => tag_cnt = 1
      BY <1>15 DEF InsideTag, IndInv, PosInv, MarkInv
    <2>2. SelfClosing \in {0, 1}
      BY DEF SelfClosing
    <2>3. \/ MarkFirstTag = end_of_first_tag /\ end_of_first_tag # 0
          \/ MarkFirstTag = cnt /\ end_of_first_tag = 0
      BY DEF MarkFirstTag
    <2>4. CASE b = Gt /\ tag_cnt < SelfClosing
      <3>1. /\ Bail /\ end_of_first_tag' = MarkFirstTag
        BY <1>2, <1>15, <2>2, <2>4, BytesAssumption DEF InsideTag
      <3>2. end_of_first_tag # 0
        BY <1>2, <2>1, <2>2, <2>4
      <3> QED
        BY <1>5, <2>3, <3>1, <3>2
    <2>5. CASE StanzaEnd(b, reader, MarkFirstTag) /\ b = Gt
      BY <1>6, <2>1, <2>3, <2>5
    <2>6. CASE b = Gt /\ tag_cnt >= SelfClosing /\ ~StanzaEnd(b, reader, MarkFirstTag)
      <3>1. /\ Advance(b) /\ cnt' = cnt + 1 /\ tag_cnt' = tag_cnt - SelfClosing
            /\ end_of_first_tag' = MarkFirstTag
            /\ state' = "BetweenTags" /\ quote' = Nul /\ idx' = 0
        BY <1>2, <1>15, <2>2, <2>6, BytesAssumption DEF InsideTag, Goto, Advance
      <3>2. PosInv' /\ MarkInv'
        BY <1>2, <2>1, <2>2, <2>3, <2>6, <3>1 DEF PosInv, MarkInv
      <3> QED
        BY <1>2, <1>4, <2>2, <2>3, <2>6, <3>1, <3>2 DEF StanzaState
    <2>7. CASE b # Gt
      <3>1. /\ Advance(b) /\ cnt' = cnt + 1
            /\ UNCHANGED <<tag_cnt, end_of_first_tag>>
            /\ state' \in {"InsideTag", "InsideAttribute"}
            /\ quote' \in Byte /\ idx' \in Nat
        BY <1>2, <1>15, <2>7 DEF InsideTag, Advance
      <3>2. PosInv' /\ MarkInv'
        BY <1>2, <2>1, <3>1 DEF PosInv, MarkInv
      <3> QED
        BY <1>2, <1>4, <3>1, <3>2 DEF StanzaState
    <2> QED
      BY <1>2, <2>2, <2>4, <2>5, <2>6, <2>7
  <1>16. CASE EndStream(b, reader)
    <2>1. CASE b = Gt
      <3>1. CASE StanzaEnd(b, reader, MarkFirstTag)
        <4>1. cnt >= 2
          BY <1>16 DEF EndStream, IndInv, PosInv
        <4>2. MarkFirstTag = end_of_first_tag \/ (end_of_first_tag = 0 /\ MarkFirstTag = cnt)
          BY DEF MarkFirstTag
        <4> QED
          BY <1>6, <2>1, <3>1, <4>1, <4>2
      <3>2. CASE ~StanzaEnd(b, reader, MarkFirstTag)
        BY <1>5, <1>16, <2>1, <3>2 DEF EndStream
      <3> QED
        BY <3>1, <3>2
    <2>2. CASE b # Gt
      <3>1. /\ Advance(b) /\ cnt' = cnt + 1
            /\ UNCHANGED <<tag_cnt, end_of_first_tag, state, quote, idx>>
            /\ state = "EndStream"
        BY <1>16, <2>2 DEF EndStream, Advance
      <3>2. PosInv' /\ MarkInv'
        BY <1>2, <3>1 DEF PosInv, MarkInv, IndInv
      <3> QED
        BY <1>2, <1>4, <3>1, <3>2 DEF StanzaState
    <2> QED
      BY <2>1, <2>2
  <1> QED
    BY <1>7, <1>8, <1>9, <1>10, <1>11, <1>12, <1>13, <1>14, <1>15, <1>16

-----------------------------------------------------------------------------
\* A new filter.
LEMMA InitHolds ==
    ASSUME Init
    PROVE  IndInv
  <1>1. TypeOK
    <2>1. buf \in [0..(BufSize - 1) -> Byte] /\ Nul \in Byte
      BY BytesAssumption DEF Init
    <2>2. fed \in Seq(Byte) /\ out \in Seq(Byte) /\ stale \in BOOLEAN
      BY EmptySeq DEF Init
    <2> QED
      BY <2>1, <2>2, BufSizeAssumption DEF Init, TypeOK, StanzaState
  <1>2. RestInv /\ FedInv /\ PosInv /\ MarkInv /\ EoftInv
    BY DEF Init, RestInv, FedInv, PosInv, MarkInv, EoftInv
  <1>3. StanzaIsWhatWasRead /\ EndOfFirstTagIsInStanza
    BY DEF Init, StanzaIsWhatWasRead, EndOfFirstTagIsInStanza
  <1> QED
    BY <1>1, <1>2, <1>3 DEF IndInv

\* A byte, whoever sends it.
LEMMA ReadByteKeeps ==
    ASSUME IndInv, NEW b \in Byte, NEW reader, ReadByte(b, reader)
    PROVE  IndInv'
  <1>1. cnt < BufSize /\ buf' = [buf EXCEPT ![cnt] = b]
    BY DEF ReadByte
  <1>2. CASE OutsideStanza(b)
    BY <1>1, <1>2, OutsideStanzaKeeps
  <1>3. CASE ~OutsideStanza(b)
    BY <1>1, <1>3, InsideStanzaKeeps DEF ReadByte
  <1> QED
    BY <1>2, <1>3

\* new() and every step of a reader, or of a caller that borrows buf, keep the
\* inductive invariant.
THEOREM IndInvHolds == Spec => []IndInv
  <1>1. Init => IndInv
    BY InitHolds
  <1>2. IndInv /\ [Next]_vars => IndInv'
    <2> SUFFICES ASSUME IndInv, [Next]_vars PROVE IndInv'
      OBVIOUS
    <2>1. ASSUME NEW b \in Input, NEW reader \in Reader, ReadByte(b, reader)
          PROVE  IndInv'
      BY <2>1, ReadByteKeeps, BytesAssumption
    <2>2. ASSUME UNCHANGED <<filter, stale>>, NoStanza, ret' \in {"eof", "panic"},
                 fed' \in {fed, <<>>}, state # "OutsideStanza" => fed' = fed
          PROVE  IndInv'
      <3>1. fed' \in Seq(Byte) /\ out' \in Seq(Byte) /\ out_eoft' = 0
        BY <2>2, EmptySeq DEF IndInv, TypeOK, NoStanza
      <3>2. TypeOK'
        BY <2>2, <3>1, BufSizeAssumption DEF IndInv, TypeOK, filter
      <3>3. RestInv' /\ FedInv' /\ PosInv' /\ MarkInv' /\ EoftInv'
        BY <2>2 DEF IndInv, RestInv, FedInv, PosInv, MarkInv, EoftInv, filter
      <3>4. StanzaIsWhatWasRead' /\ EndOfFirstTagIsInStanza'
        BY <2>2 DEF StanzaIsWhatWasRead, EndOfFirstTagIsInStanza
      <3> QED
        BY <3>2, <3>3, <3>4 DEF IndInv
    <2>3. CASE CurrentBufPanics
      BY <2>2, <2>3 DEF CurrentBufPanics
    <2>4. CASE StreamEnds
      BY <2>2, <2>4 DEF StreamEnds
    <2>5. CASE ScratchUse
      <3>1. /\ state = "OutsideStanza" /\ fed' = <<>> /\ stale' = FALSE
            /\ ret' = "none" /\ out' = <<>> /\ out_eoft' = 0
            /\ UNCHANGED <<cnt, tag_cnt, end_of_first_tag, state, quote, idx>>
        BY <2>5 DEF ScratchUse, NoStanza
      <3>2. buf' \in [0..(BufSize - 1) -> Byte]
        BY <2>5, ScratchAssumption DEF ScratchUse, IndInv, TypeOK
      <3>3. fed' \in Seq(Byte) /\ out' \in Seq(Byte) /\ stale' \in BOOLEAN
        BY <3>1, EmptySeq
      <3>4. TypeOK'
        BY <3>1, <3>2, <3>3, BufSizeAssumption DEF IndInv, TypeOK
      <3>5. RestInv' /\ FedInv' /\ PosInv' /\ MarkInv' /\ EoftInv'
        BY <3>1 DEF IndInv, RestInv, FedInv, PosInv, MarkInv, EoftInv
      <3>6. StanzaIsWhatWasRead' /\ EndOfFirstTagIsInStanza'
        BY <3>1 DEF StanzaIsWhatWasRead, EndOfFirstTagIsInStanza
      <3> QED
        BY <3>4, <3>5, <3>6 DEF IndInv
    <2>6. CASE UNCHANGED vars
      BY <2>6 DEF vars, IndInv, TypeOK, RestInv, FedInv, PosInv, MarkInv, EoftInv,
                  StanzaIsWhatWasRead, EndOfFirstTagIsInStanza
    <2> QED
      BY <2>1, <2>3, <2>4, <2>5, <2>6 DEF Next
  <1> QED
    BY <1>1, <1>2, PTL DEF Spec

\* cnt and tag_cnt never leave the buffer's range, end_of_first_tag is always
\* the position of a byte of the buffer.
THEOREM TypeCorrect == Spec => []TypeOK
  <1>1. IndInv => TypeOK
    BY DEF IndInv
  <1> QED
    BY <1>1, IndInvHolds, PTL

\* The comment of stanzafilter.rs:105, and its like for last_num_bytes.
THEOREM IndexesSafe == Spec => []IndexesAreSafe
  <1>1. IndInv => IndexesAreSafe
    <2> SUFFICES ASSUME IndInv PROVE IndexesAreSafe
      OBVIOUS
    <2>1. /\ cnt \in Nat /\ idx \in Nat
          /\ Len(CDataOpen) \in Nat /\ Len(CDataClose) \in Nat
          /\ Len(CDataClose) <= Len(CDataOpen) + 3
      BY NeedlesAssumption, BufSizeAssumption DEF IndInv, TypeOK
    <2> QED
      BY <2>1 DEF IndInv, PosInv, IndexesAreSafe
  <1> QED
    BY <1>1, IndInvHolds, PTL

\* What a reader returns is the stanza that was sent, byte for byte.
THEOREM StanzaExact == Spec => []StanzaIsWhatWasRead
  <1>1. IndInv => StanzaIsWhatWasRead
    BY DEF IndInv
  <1> QED
    BY <1>1, IndInvHolds, PTL

\* to_ws_new may index and split a stanza at the end_of_first_tag returned
\* with it, if the filter was clean when the stanza began.
THEOREM EoftInStanza == Spec => []EndOfFirstTagIsInStanza
  <1>1. IndInv => EndOfFirstTagIsInStanza
    BY DEF IndInv
  <1> QED
    BY <1>1, IndInvHolds, PTL

-----------------------------------------------------------------------------
(* Actions.                                                                *)

\* The test for <stream:stream sees bytes of this stanza only: the '>' just
\* stored is none of its bytes, so it lies behind all of them.
THEOREM StreamOpenNotStale == Spec => StreamOpenIsNotStale
  <1> DEFINE A == (ret' = "stanza" /\ state = "InsideTag" /\ tag_cnt > SelfClosing) =>
                     /\ Len(fed') > Len(StreamOpen)
                     /\ \A i \in 1..Len(StreamOpen) : fed'[i] = StreamOpen[i]
  <1>1. IndInv /\ [Next]_vars => [A]_vars
    <2> SUFFICES ASSUME IndInv, Next, ret' = "stanza", state = "InsideTag",
                        tag_cnt > SelfClosing
                 PROVE  /\ Len(fed') > Len(StreamOpen)
                        /\ \A i \in 1..Len(StreamOpen) : fed'[i] = StreamOpen[i]
      OBVIOUS
    <2>1. PICK b \in Input, reader \in Reader : ReadByte(b, reader)
      BY DEF Next, CurrentBufPanics, StreamEnds, ScratchUse
    <2>2. /\ b \in Byte /\ cnt < BufSize /\ buf' = [buf EXCEPT ![cnt] = b]
          /\ InsideTag(b, reader)
      BY <2>1, BytesAssumption
      DEF ReadByte, OutsideStanza, BetweenTags, StanzaFirstChar, InsideTagFirstChar,
          InsideAttribute, QuestionTag, InsideXmlTag, ExclamationTag, InsideCDATA,
          EndStream
    <2>3. SelfClosing \in {0, 1} /\ tag_cnt \in Nat /\ cnt \in 2..(BufSize - 1)
      BY <2>2, BufSizeAssumption DEF SelfClosing, IndInv, TypeOK, PosInv
    <2>4. /\ b = Gt /\ StanzaEnd(b, reader, MarkFirstTag) /\ BufStartsStreamOpen
      BY <2>2, <2>3, BytesAssumption DEF InsideTag, Advance, Bail
    <2>5. /\ fed' \in Seq(Byte) /\ Len(fed') = cnt + 1
          /\ \A i \in 1..cnt : fed'[i] = fed[i]
      BY <2>2, <2>4, StanzaEndFacts DEF IndInv
    <2>6. /\ buf'[cnt] = Gt
          /\ \A i \in 0..(BufSize - 1) : i # cnt => buf'[i] = buf[i]
      BY <2>2, <2>4, StoreByte DEF IndInv
    <2>7. /\ Len(StreamOpen) \in Nat
          /\ \A i \in 1..Len(StreamOpen) : StreamOpen[i] # Gt
          /\ Len(StreamOpen) <= BufSize
          /\ \A i \in 1..Len(StreamOpen) : buf'[i - 1] = StreamOpen[i]
      BY <2>4, NeedlesAssumption, LenProperties, BufSizeAssumption DEF BufStartsStreamOpen
    <2>8. cnt >= Len(StreamOpen)
      <3> SUFFICES ASSUME cnt < Len(StreamOpen) PROVE FALSE
        BY <2>3, <2>7
      <3>1. cnt + 1 \in 1..Len(StreamOpen)
        BY <2>3, <2>7
      <3>2. buf'[cnt] = StreamOpen[cnt + 1]
        BY <2>3, <2>7, <3>1
      <3> QED
        BY <2>6, <2>7, <3>1, <3>2
    <2>9. ASSUME NEW i \in 1..Len(StreamOpen)
          PROVE  fed'[i] = StreamOpen[i]
      <3>1. i \in 1..cnt /\ i - 1 \in 0..(BufSize - 1) /\ i - 1 # cnt
        BY <2>3, <2>7, <2>8, BufSizeAssumption
      <3>2. fed'[i] = buf[i - 1]
        BY <2>5, <3>1 DEF IndInv, FedInv
      <3> QED
        BY <2>6, <2>7, <3>1, <3>2
    <2> QED
      BY <2>3, <2>5, <2>7, <2>8, <2>9
  <1> QED
    BY <1>1, IndInvHolds, PTL DEF Spec, StreamOpenIsNotStale

-----------------------------------------------------------------------------
(* StanzaFilter implements StanzaContract.                                 *)

\* The three ways a byte inside a stanza can go.
LEMMA InsideStanzaCases ==
    ASSUME TypeOK, cnt < BufSize, NEW b, NEW reader \in Reader,
           \/ BetweenTags(b) \/ StanzaFirstChar(b) \/ InsideTagFirstChar(b)
           \/ InsideTag(b, reader) \/ InsideAttribute(b) \/ QuestionTag(b)
           \/ InsideXmlTag(b, reader) \/ ExclamationTag(b) \/ InsideCDATA(b)
           \/ EndStream(b, reader)
    PROVE  /\ state # "OutsideStanza"
           /\ \/ /\ Advance(b)
                 /\ state' # "OutsideStanza"
                 /\ end_of_first_tag # 0 => end_of_first_tag' # 0
              \/ /\ ret' = "err"
                 /\ UNCHANGED <<cnt, stale>>
                 /\ state' # "OutsideStanza"
                 /\ end_of_first_tag # 0 => end_of_first_tag' # 0
              \/ \E eoft : /\ StanzaEnd(b, reader, eoft)
                           /\ end_of_first_tag # 0 => eoft # 0
  <1>1. CASE BetweenTags(b)
    BY <1>1 DEF BetweenTags, Goto
  <1>2. CASE StanzaFirstChar(b)
    BY <1>2 DEF StanzaFirstChar, Goto, Bail
  <1>3. CASE InsideTagFirstChar(b)
    BY <1>3 DEF InsideTagFirstChar, Goto, Bail
  <1>4. CASE InsideTag(b, reader)
    <2>1. end_of_first_tag # 0 => MarkFirstTag # 0
      BY DEF MarkFirstTag
    <2> QED
      BY <1>4, <2>1 DEF InsideTag, Goto, Bail
  <1>5. CASE InsideAttribute(b)
    BY <1>5 DEF InsideAttribute, Goto
  <1>6. CASE QuestionTag(b)
    BY <1>6 DEF QuestionTag, Goto, Bail
  <1>7. CASE InsideXmlTag(b, reader)
    BY <1>7 DEF InsideXmlTag
  <1>8. CASE ExclamationTag(b)
    BY <1>8 DEF ExclamationTag, Goto, Bail
  <1>9. CASE InsideCDATA(b)
    BY <1>9 DEF InsideCDATA, Goto
  <1>10. CASE EndStream(b, reader)
    <2>1. end_of_first_tag # 0 => MarkFirstTag # 0
      BY DEF MarkFirstTag
    <2> QED
      BY <1>10, <2>1 DEF EndStream, Bail
  <1> QED
    BY <1>1, <1>2, <1>3, <1>4, <1>5, <1>6, <1>7, <1>8, <1>9, <1>10

\* The byte-level reader implements the contract Outgoing and Relay rely on:
\* every byte is a step of it, or changes nothing it speaks of.
THEOREM FilterKeepsContract == Spec => KeepsContract
  <1>1. Init => Contract!CInit
    BY BufSizeAssumption DEF Init, Contract!CInit
  <1>2. IndInv /\ [Next]_vars => [Contract!CNext]_(Contract!cvars)
    <2> SUFFICES ASSUME IndInv, [Next]_vars
                 PROVE  Contract!CNext \/ UNCHANGED Contract!cvars
      OBVIOUS
    <2>1. /\ cnt \in Nat /\ BufSize \in Nat /\ BufSize # 0
          /\ state = "OutsideStanza" => cnt = 0
      BY BufSizeAssumption DEF IndInv, TypeOK, RestInv
    <2>2. ASSUME NEW b \in Input, NEW reader \in Reader, ReadByte(b, reader)
          PROVE  Contract!CNext
      <3>1. cnt < BufSize /\ ret # "panic"
        BY <2>2 DEF ReadByte
      <3>2. CASE OutsideStanza(b)
        <4>1. CASE b = Lt
          <5>1. Contract!Begin
            BY <2>1, <3>1, <3>2, <4>1 DEF OutsideStanza, Goto, Contract!Begin
          <5> QED
            BY <3>1, <5>1 DEF Contract!CNext
        <4>2. CASE b # Lt
          <5>1. Contract!Skip
            BY <2>1, <3>1, <3>2, <4>2 DEF OutsideStanza, Contract!Skip
          <5> QED
            BY <3>1, <5>1 DEF Contract!CNext
        <4> QED
          BY <4>1, <4>2
      <3>3. CASE ~OutsideStanza(b)
        <4>1. /\ state # "OutsideStanza"
              /\ \/ /\ Advance(b)
                    /\ state' # "OutsideStanza"
                    /\ end_of_first_tag # 0 => end_of_first_tag' # 0
                 \/ /\ ret' = "err"
                    /\ UNCHANGED <<cnt, stale>>
                    /\ state' # "OutsideStanza"
                    /\ end_of_first_tag # 0 => end_of_first_tag' # 0
                 \/ \E eoft : /\ StanzaEnd(b, reader, eoft)
                              /\ end_of_first_tag # 0 => eoft # 0
          BY <2>2, <3>1, <3>3, InsideStanzaCases DEF ReadByte, IndInv
        <4>2. CASE /\ Advance(b)
                   /\ state' # "OutsideStanza"
                   /\ end_of_first_tag # 0 => end_of_first_tag' # 0
          <5>1. Contract!Continue
            BY <2>1, <3>1, <4>1, <4>2 DEF Advance, Contract!Continue
          <5> QED
            BY <3>1, <5>1 DEF Contract!CNext
        <4>3. CASE /\ ret' = "err"
                   /\ UNCHANGED <<cnt, stale>>
                   /\ state' # "OutsideStanza"
                   /\ end_of_first_tag # 0 => end_of_first_tag' # 0
          <5>1. Contract!Refuse
            BY <2>1, <3>1, <4>1, <4>3 DEF Contract!Refuse
          <5> QED
            BY <3>1, <5>1 DEF Contract!CNext
        <4>4. ASSUME NEW eoft, StanzaEnd(b, reader, eoft), end_of_first_tag # 0 => eoft # 0
              PROVE  Contract!CNext
          <5>1. Contract!Complete(reader)
            BY <2>1, <3>1, <4>1, <4>4 DEF StanzaEnd, Reader, Contract!Complete
          <5> QED
            BY <3>1, <5>1 DEF Contract!CNext, Reader
        <4> QED
          BY <4>1, <4>2, <4>3, <4>4
      <3> QED
        BY <3>2, <3>3
    <2>3. CASE CurrentBufPanics
      <3>1. Contract!Panic /\ ret # "panic"
        BY <2>3 DEF CurrentBufPanics, filter, Contract!Panic
      <3> QED
        BY <3>1 DEF Contract!CNext
    <2>4. CASE StreamEnds
      <3>1. Contract!End /\ ret # "panic"
        BY <2>1, <2>4 DEF StreamEnds, filter, Contract!End
      <3> QED
        BY <3>1 DEF Contract!CNext
    <2>5. CASE ScratchUse
      <3>1. Contract!Skip /\ ret # "panic"
        BY <2>5 DEF ScratchUse, Contract!Skip
      <3> QED
        BY <3>1 DEF Contract!CNext
    <2>6. CASE UNCHANGED vars
      BY <2>6 DEF vars, Contract!cvars
    <2> QED
      BY <2>2, <2>3, <2>4, <2>5, <2>6 DEF Next
  <1> QED
    BY <1>1, <1>2, IndInvHolds, PTL DEF Spec, KeepsContract, Contract!CSpec
=============================================================================
