---------------------------- MODULE FramingProofs ----------------------------
(***************************************************************************)
(* The reader cuts a stream exactly at its stanzas: proved for every set of *)
(* names, attributes, texts, CDATA sections and declarations, every nesting *)
(* depth, every alphabet and every max_stanza_size_bytes.                   *)
(*                                                                         *)
(* The argument: the peer's piece and position determine what the filter's  *)
(* state must be (Config).  The peer's own part of the invariant (PeerInv)  *)
(* does not look at the filter.                                            *)
(***************************************************************************)
EXTENDS StanzaFraming, StanzaFilterProofs

-----------------------------------------------------------------------------
(* The invariant.                                                          *)

\* Pieces by where they are written: in a tag, between stanzas, in a stanza.
InTag == {"attribute", "start", "empty"}
Outer == {"space", "close", "declaration", "bad_first", "bad_declaration", "bad_close"}
Inner == {"text", "cdata", "end", "bad_child", "bad_cdata", "bad_slashes", "bad_end",
          "bad_end_cdata"}

\* The pieces that begin with '<'.
Opening == {"name", "cdata", "end", "close", "declaration"} \union Malformed

\* p holds needle from behind its first n bytes on.
Holds(p, n, needle) == \A i \in 1..Len(needle) : p[n + i] = needle[i]
\* Its byte i is not the last of a "]]>".
NoCDataClose(p, i) == \E j \in 1..Len(CDataClose) : p[i - Len(CDataClose) + j] # CDataClose[j]

\* What the pieces look like, byte by byte.
ShapeOf(is, p) ==
    /\ p \in Seq(Byte)
    /\ is \in InTag \union Outer \union Inner \union {"name"}
    /\ is \in Opening => Len(p) >= 2 /\ p[1] = Lt
    /\ is = "name" => \A i \in 2..Len(p) : p[i] \in Plain
    /\ is = "attribute" =>
          \E k \in 1..(Len(p) - 1) :
              /\ p[k] \in {Apos, Quot} /\ p[k] = p[Len(p)]
              /\ \A i \in 1..(k - 1) : p[i] \in Plain
              /\ \A i \in (k + 1)..(Len(p) - 1) : p[i] # p[k]
    /\ is = "start" => Len(p) = 1 /\ p[1] = Gt
    /\ is = "empty" => Len(p) = 2 /\ p[1] = Slash /\ p[2] = Gt
    /\ is = "text" => \A i \in 1..Len(p) : p[i] # Lt
    /\ is = "space" => Len(p) <= 1 /\ \A i \in 1..Len(p) : p[i] # Lt
    /\ is = "cdata" =>
          /\ Len(p) >= Len(CDataOpen) + Len(CDataClose) + 2
          /\ p[2] = Bang /\ Holds(p, 2, CDataOpen)
          /\ p[Len(p)] = Gt /\ Holds(p, Len(p) - Len(CDataClose), CDataClose)
          /\ \A i \in (Len(CDataOpen) + 3)..(Len(p) - 1) : NoCDataClose(p, i)
    /\ is = "end" => /\ Len(p) >= 4 /\ p[2] = Slash /\ p[Len(p)] = Gt
                     /\ \A i \in 3..(Len(p) - 1) : p[i] \in Plain
    /\ is = "close" => p = StreamClose
    /\ is = "declaration" =>
          /\ Len(p) >= Len(XmlDecl) + 3
          /\ p[2] = Quest /\ Holds(p, 2, XmlDecl) /\ p[Len(p)] = Gt
          /\ \A i \in (Len(XmlDecl) + 3)..(Len(p) - 1) : p[i] # Gt
    /\ is = "bad_first" => Len(p) = 2 /\ p[2] \in {Bang, Gt, Apos, Quot}
    /\ is = "bad_child" => Len(p) = 2 /\ p[2] \in {Quest, Gt, Apos, Quot}
    /\ is = "bad_declaration" =>
          Len(p) = Len(XmlDecl) + 2 /\ p[2] = Quest /\ \A i \in 1..Len(XmlDecl) : p[2 + i] = Letter
    /\ is = "bad_cdata" =>
          Len(p) = Len(CDataOpen) + 2 /\ p[2] = Bang /\ \A i \in 1..Len(CDataOpen) : p[2 + i] = Letter
    /\ is = "bad_close" => Len(p) = 4 /\ p[2] = Slash /\ p[3] = Letter /\ p[4] = Gt
    /\ is = "bad_slashes" => Len(p) = 3 /\ p[2] = Slash /\ p[3] = Slash
    /\ is = "bad_end" => Len(p) = 5 /\ p[2] = Slash /\ p[3] = Letter /\ p[4] = Slash /\ p[5] = Gt
    /\ is = "bad_end_cdata" =>
          Len(p) = Len(CDataOpen) + 3 /\ p[2] = Slash /\ p[3] = Bang /\ Holds(p, 3, CDataOpen)

\* How deep each piece may stand, and that a stanza's first tag is marked
\* once it has ended.
DepthInv ==
    /\ depth \in Nat /\ stream \in BOOLEAN /\ first_end \in Nat
    /\ piece.is \in Outer => depth = 0
    /\ piece.is \in Inner => depth >= 1
    /\ piece.is \in {"bad_end", "bad_end_cdata"} => depth = 1
    /\ piece.is = "bad_slashes" => depth <= 2
    /\ stream => depth = 0
    /\ depth >= 1 \/ (piece.is = "start" /\ Written) => first_end >= 1
    /\ piece.is \notin InTag /\ depth = 0 /\ ~(piece.is = "close" /\ Written) => first_end = 0

\* A byte of s differs from <stream:stream, or it starts with it.
DiffersFromOpen(s) == \E i \in 1..Len(s) : i <= Len(StreamOpen) /\ s[i] # StreamOpen[i]
StartsWithOpen(s) == Len(s) >= Len(StreamOpen) /\ \A i \in 1..Len(StreamOpen) : s[i] = StreamOpen[i]
IsOpenOrNot(s) == IF stream THEN StartsWithOpen(s) ELSE DiffersFromOpen(s)

\* Whether a stanza is a <stream:stream shows in its name, whether it is
\* begun or written.
OpenInv ==
    /\ piece.is = "name" /\ depth = 0 => IsOpenOrNot(piece.bytes)
    /\ piece.is \in InTag \/ depth >= 1 => IsOpenOrNot(sent)

\* What was read of the piece is the end of what was read of the stanza.
SentInv ==
    /\ sent \in Seq(Byte) /\ pos \in 0..Len(piece.bytes)
    /\ piece.is = "space" => Len(sent) = 0
    /\ piece.is # "space" =>
          /\ Len(sent) >= pos
          /\ \A i \in 1..pos : sent[Len(sent) - pos + i] = piece.bytes[i]
          /\ piece.is \notin InTag /\ depth = 0 => Len(sent) = pos
    /\ piece.is \in InTag => Len(sent) >= 1
    /\ piece.is = "start" /\ pos = 0 => sent[Len(sent)] # Slash

PeerInv == ShapeOf(piece.is, piece.bytes) /\ DepthInv /\ OpenInv /\ SentInv

\* The filter's state: outside a needle, and looking for one.
At(s, t) == state = s /\ tag_cnt = t /\ quote = Nul /\ idx = 0
Seeking(s, t, end) == state = s /\ tag_cnt = t /\ quote = Nul /\ idx = end
Rest(d) == IF d = 0 THEN At("OutsideStanza", 0) ELSE At("BetweenTags", d)

\* Where the filter is as a piece begins, and behind its last byte.
Starting == IF piece.is \in InTag THEN At("InsideTag", depth + 1) ELSE Rest(depth)
Finished == IF Place = "tag" THEN At("InsideTag", depth + 1) ELSE Rest(DepthAfter)

\* Where it is inside a piece.
Base == Len(sent) - pos
FirstChar == At(IF depth = 0 THEN "StanzaFirstChar" ELSE "InsideTagFirstChar", depth + 1)
InAttribute ==
    IF \E i \in 1..pos : piece.bytes[i] \in {Apos, Quot}
    THEN /\ state = "InsideAttribute" /\ tag_cnt = depth + 1
         /\ quote = piece.bytes[Len(piece.bytes)] /\ idx = 0
    ELSE At("InsideTag", depth + 1)
InEnd == At(IF pos = 2 THEN "InsideTagFirstChar" ELSE "InsideTag", depth - 1)
InEndCData ==
    IF pos = 2 THEN At("InsideTagFirstChar", depth - 1)
    ELSE Seeking("ExclamationTag", depth - 1, Base + 2 + Len(CDataOpen))
InCData ==
    IF pos <= Len(CDataOpen) + 1
    THEN Seeking("ExclamationTag", depth + 1, Base + 1 + Len(CDataOpen))
    ELSE At("InsideCDATA", depth)
InDeclaration ==
    IF pos <= Len(XmlDecl) + 1
    THEN Seeking("QuestionTag", 1, 1 + Len(XmlDecl))
    ELSE At("InsideXmlTag", 1)
Midway ==
    /\ piece.is = "attribute" => InAttribute
    /\ piece.is = "empty" => At("InsideTag", depth + 1)
    /\ piece.is = "text" => At("BetweenTags", depth)
    /\ piece.is \in Opening /\ pos = 1 => FirstChar
    /\ piece.is \in Opening /\ pos >= 2 =>
          /\ piece.is = "name" => At("InsideTag", depth + 1)
          /\ piece.is \in {"end", "bad_slashes", "bad_end"} => InEnd
          /\ piece.is = "bad_end_cdata" => InEndCData
          /\ piece.is \in {"cdata", "bad_cdata"} => InCData
          /\ piece.is \in {"declaration", "bad_declaration"} => InDeclaration
          /\ piece.is \in {"close", "bad_close"} => At("EndStream", 1)

Config == IF pos = 0 THEN Starting ELSE IF Written THEN Finished ELSE Midway

\* The filter's account of the stanza is the peer's.
Synced ==
    state # "OutsideStanza" => fed = sent /\ (~stale => end_of_first_tag = first_end)

\* Nothing is said of the filter once it has refused a byte.
FramingInv ==
    /\ IndInv /\ PeerInv /\ StreamIsCutIntoStanzas
    /\ ret # "err" => Config /\ Synced

-----------------------------------------------------------------------------
(* The constants.                                                          *)

\* The bytes the filter tells apart are different from each other, and from
\* the plain ones.
LEMMA PlainBytes ==
    /\ {Lt, Gt, Slash, Bang, Quest, Apos, Quot, Nul, Letter, " "} \subseteq Byte
    /\ Plain \subseteq Byte /\ Letter \in Plain /\ " " \in Plain
    /\ \A b \in Plain : b # Lt /\ b # Gt /\ b # Slash /\ b # Bang /\ b # Quest /\ b # Apos /\ b # Quot
    /\ Lt # Gt /\ Lt # Slash /\ Lt # Bang /\ Lt # Quest /\ Lt # Apos /\ Lt # Quot
    /\ Gt # Slash /\ Gt # Bang /\ Gt # Quest /\ Gt # Apos /\ Gt # Quot
    /\ Slash # Bang /\ Slash # Quest /\ Slash # Apos /\ Slash # Quot
    /\ Apos # Bang /\ Apos # Quest /\ Apos # Quot
    /\ Quot # Bang /\ Quot # Quest /\ Bang # Quest
  <1>1. /\ Plain \subseteq Byte \ {Lt, Gt, Slash, Bang, Quest, Apos, Quot}
        /\ {" ", Letter} \subseteq Plain
    BY FramingAssumption
  <1> QED
    BY <1>1, BytesAssumption

\* The needles are not empty.
LEMMA NeedleLengths ==
    /\ Len(XmlDecl) \in Nat \ {0} /\ Len(CDataOpen) \in Nat \ {0} /\ Len(CDataClose) \in Nat \ {0}
    /\ Len(StreamOpen) \in Nat \ {0} /\ Len(StreamClose) \in Nat \ {0}
    /\ XmlDecl \in Seq(Byte) /\ CDataOpen \in Seq(Byte) /\ CDataClose \in Seq(Byte)
    /\ StreamOpen \in Seq(Byte) /\ StreamClose \in Seq(Byte)
  BY NeedlesAssumption, EmptySeq

-----------------------------------------------------------------------------
(* The peer.                                                               *)

\* One more byte read: what it makes of sent.
LEMMA SentGrows ==
    ASSUME PeerInv, NEW reader, PieceByte(reader), piece.is # "space"
    PROVE  /\ piece.bytes[pos + 1] \in Byte
           /\ pos \in Nat /\ pos' = pos + 1 /\ pos' \in 1..Len(piece.bytes)
           /\ Len(sent) \in Nat /\ sent \in Seq(Byte)
           /\ sent' \in Seq(Byte) /\ Len(sent') = Len(sent) + 1
           /\ sent' = Append(sent, piece.bytes[pos + 1])
           /\ \A i \in 1..Len(sent) : sent'[i] = sent[i]
           /\ sent'[Len(sent) + 1] = piece.bytes[pos + 1]
  <1>1. /\ pos \in Nat /\ pos' = pos + 1 /\ pos' \in 1..Len(piece.bytes)
        /\ piece.bytes \in Seq(Byte) /\ Len(piece.bytes) \in Nat
    BY DEF PeerInv, ShapeOf, SentInv, PieceByte, Written
  <1>2. piece.bytes[pos + 1] \in Byte
    BY <1>1
  <1>3. sent \in Seq(Byte) /\ Len(sent) \in Nat /\ sent' = Append(sent, piece.bytes[pos + 1])
    BY DEF PeerInv, SentInv, PieceByte
  <1> QED
    BY <1>1, <1>2, <1>3, AppendProperties

\* A stanza's first bytes stay what they are.
LEMMA OpenOrNotStays ==
    ASSUME NEW s \in Seq(Byte), NEW t \in Seq(Byte), Len(t) >= Len(s),
           \A i \in 1..Len(s) : t[i] = s[i],
           IsOpenOrNot(s)
    PROVE  IsOpenOrNot(t)
  <1>1. Len(s) \in Nat /\ Len(t) \in Nat /\ Len(StreamOpen) \in Nat
    BY NeedleLengths
  <1>2. CASE stream
    BY <1>1, <1>2 DEF IsOpenOrNot, StartsWithOpen
  <1>3. CASE ~stream
    BY <1>1, <1>3 DEF IsOpenOrNot, DiffersFromOpen
  <1> QED
    BY <1>2, <1>3

\* A stanza that is begun is not empty.
LEMMA OpenOrNotIsLong ==
    ASSUME NEW s \in Seq(Byte), IsOpenOrNot(s)
    PROVE  Len(s) >= 1
  BY NeedleLengths DEF IsOpenOrNot, StartsWithOpen, DiffersFromOpen

\* A byte read keeps the peer's part of the invariant.
LEMMA PeerByte ==
    ASSUME PeerInv, NEW reader, PieceByte(reader)
    PROVE  PeerInv'
  <1>1. /\ piece' = piece /\ depth' = depth /\ stream' = stream /\ pos' = pos + 1
        /\ pos \in Nat /\ pos' \in 1..Len(piece.bytes) /\ Len(piece.bytes) \in Nat
    BY DEF PieceByte, PeerInv, SentInv, ShapeOf, Written
  <1>2. ShapeOf(piece.is, piece.bytes)'
    BY <1>1 DEF PeerInv, ShapeOf, Holds, NoCDataClose
  <1>3. CASE piece.is = "space"
    <2>1. sent' = sent /\ first_end' = first_end
      BY <1>3 DEF PieceByte
    <2>2. DepthInv'
      BY <1>1, <1>3, <2>1 DEF PeerInv, DepthInv, Written, InTag, Outer, Inner
    <2>3. OpenInv'
      BY <1>1, <1>3, <2>1 DEF PeerInv, OpenInv, DepthInv, InTag, Outer
    <2>4. SentInv'
      BY <1>1, <1>3, <2>1 DEF PeerInv, SentInv, InTag
    <2> QED
      BY <1>2, <2>2, <2>3, <2>4 DEF PeerInv
  <1>4. CASE piece.is # "space"
    <2>1. /\ Len(sent) \in Nat /\ sent \in Seq(Byte)
          /\ sent' \in Seq(Byte) /\ Len(sent') = Len(sent) + 1
          /\ \A i \in 1..Len(sent) : sent'[i] = sent[i]
          /\ sent'[Len(sent) + 1] = piece.bytes[pos + 1]
      BY <1>4, SentGrows
    <2>2. /\ first_end' \in Nat
          /\ first_end >= 1 => first_end' = first_end
          /\ piece.is \notin {"start", "empty", "close"} => first_end' = first_end
          /\ first_end = 0 => first_end' \in {0, Len(sent)}
          /\ first_end = 0 /\ pos' = Len(piece.bytes) /\ piece.is = "start" => first_end' = Len(sent)
          /\ first_end = 0 /\ pos' # Len(piece.bytes) => first_end' = 0
      BY <1>1, <2>1 DEF PieceByte, PeerInv, DepthInv
    <2>3. DepthInv'
      <3>1. piece.is = "start" => Len(sent) >= 1
        BY DEF PeerInv, SentInv, InTag
      <3> QED
        BY <1>1, <2>1, <2>2, <3>1 DEF PeerInv, DepthInv, Written, InTag
    <2>4. OpenInv'
      <3>1. IsOpenOrNot(piece.bytes) => IsOpenOrNot(piece.bytes)'
        BY <1>1 DEF IsOpenOrNot, StartsWithOpen, DiffersFromOpen
      <3>2. IsOpenOrNot(sent) => IsOpenOrNot(sent')
        BY <2>1, OpenOrNotStays
      <3>3. IsOpenOrNot(sent') => IsOpenOrNot(sent)'
        BY <1>1 DEF IsOpenOrNot, StartsWithOpen, DiffersFromOpen
      <3> QED
        BY <1>1, <3>1, <3>2, <3>3 DEF PeerInv, OpenInv
    <2>5. SentInv'
      <3>1. \A i \in 1..pos' : sent'[Len(sent') - pos' + i] = piece.bytes[i]
        <4>0. Len(sent') - pos' = Len(sent) - pos
          BY <1>1, <2>1
        <4> SUFFICES ASSUME NEW i \in 1..pos'
                     PROVE  sent'[Len(sent) - pos + i] = piece.bytes[i]
          BY <4>0
        <4>1. Len(sent) >= pos /\ \A j \in 1..pos : sent[Len(sent) - pos + j] = piece.bytes[j]
          BY <1>4 DEF PeerInv, SentInv
        <4>2. CASE i = pos + 1
          BY <1>1, <2>1, <4>1, <4>2
        <4>3. CASE i \in 1..pos
          <5>1. Len(sent) - pos + i \in 1..Len(sent)
            BY <1>1, <2>1, <4>1, <4>3
          <5> QED
            BY <2>1, <4>1, <4>3, <5>1
        <4> QED
          BY <1>1, <4>2, <4>3
      <3> QED
        BY <1>1, <1>4, <2>1, <3>1 DEF PeerInv, SentInv
    <2> QED
      BY <1>2, <2>3, <2>4, <2>5 DEF PeerInv
  <1> QED
    BY <1>3, <1>4

\* How deep the peer is when a piece is written, and what it may then begin.
LEMMA PlaceFacts ==
    ASSUME PeerInv, Written
    PROVE  /\ Place \in {"tag", "outside", "content"}
           /\ DepthAfter \in Nat
           /\ Place = "tag" => piece.is \in {"name", "attribute"} /\ DepthAfter = depth
           /\ Place = "outside" => DepthAfter = 0
           /\ Place = "content" => DepthAfter >= 1
           /\ stream /\ Place # "outside" => DepthAfter = 0
           /\ DepthAfter >= 1 => depth >= 1 \/ (piece.is = "start" /\ first_end >= 1)
  <1>1. depth \in Nat /\ (piece.is = "end" => depth >= 1) /\ (stream => depth = 0)
        /\ (piece.is = "start" => first_end >= 1)
    BY DEF PeerInv, DepthInv, Inner
  <1>2. DepthAfter \in Nat /\ (DepthAfter >= 1 => depth >= 1 \/ piece.is = "start")
        /\ (stream => DepthAfter = 0 \/ piece.is = "end")
        /\ (piece.is \in {"name", "attribute"} => DepthAfter = depth)
    BY <1>1 DEF DepthAfter
  <1> QED
    BY <1>1, <1>2 DEF Place

\* The last byte of what stands in a tag is not a '/'.
LEMMA LastByteOfTag ==
    ASSUME PeerInv, Written, Place = "tag"
    PROVE  sent[Len(sent)] # Slash
  <1>1. piece.is \in {"name", "attribute"}
    BY PlaceFacts
  <1> DEFINE p == piece.bytes
  <1>2. /\ p \in Seq(Byte) /\ Len(p) \in Nat /\ pos = Len(p)
        /\ piece.is = "name" => Len(p) >= 2 /\ \A i \in 2..Len(p) : p[i] \in Plain
        /\ piece.is = "attribute" => \E k \in 1..(Len(p) - 1) : p[k] \in {Apos, Quot} /\ p[k] = p[Len(p)]
    BY DEF PeerInv, ShapeOf, Opening, Written
  <1>3. Len(p) >= 1 /\ p[Len(p)] # Slash
    <2> HIDE DEF p
    <2>1. CASE piece.is = "name"
      <3>1. Len(p) >= 2 /\ Len(p) \in 2..Len(p)
        BY <1>2, <2>1
      <3>2. p[Len(p)] \in Plain
        BY <1>2, <2>1, <3>1
      <3>3. p[Len(p)] # Slash
        BY <3>2, PlainBytes
      <3> QED
        BY <1>2, <3>1, <3>3
    <2>2. CASE piece.is = "attribute"
      <3>1. Len(p) >= 1 /\ p[Len(p)] \in {Apos, Quot}
        BY <1>2, <2>2
      <3> QED
        BY <3>1, PlainBytes
    <2> QED
      BY <1>1, <2>1, <2>2
  <1>4. /\ Len(sent) \in Nat /\ Len(sent) >= pos
        /\ \A i \in 1..pos : sent[Len(sent) - pos + i] = p[i]
    BY <1>1 DEF PeerInv, SentInv
  <1>5. Len(sent) - pos + pos = Len(sent) /\ pos \in 1..pos
    BY <1>2, <1>3, <1>4
  <1>6. sent[Len(sent) - pos + pos] = p[pos]
    BY <1>4, <1>5
  <1> QED
    BY <1>2, <1>3, <1>5, <1>6

\* Whether a stanza is a <stream:stream is settled when its name is written.
LEMMA OpenIsSettled ==
    ASSUME PeerInv, Written, Place # "outside"
    PROVE  IsOpenOrNot(sent)
  <1>1. sent \in Seq(Byte) /\ piece.bytes \in Seq(Byte) /\ Len(sent) \in Nat /\ Len(piece.bytes) \in Nat
    BY DEF PeerInv, SentInv, ShapeOf
  <1>2. CASE piece.is \in InTag \/ depth >= 1
    BY <1>2 DEF PeerInv, OpenInv
  <1>3. CASE piece.is \notin InTag /\ ~(depth >= 1)
    <2>1. piece.is = "name" /\ depth = 0
      <3>1. depth \in Nat
        BY DEF PeerInv, DepthInv
      <3>2. DepthAfter \in Nat /\ (Place = "content" => DepthAfter >= 1)
            /\ (Place = "tag" => piece.is \in {"name", "attribute"})
            /\ (DepthAfter >= 1 => depth >= 1 \/ piece.is = "start")
            /\ Place \in {"tag", "content"}
        BY PlaceFacts
      <3> QED
        BY <1>3, <3>1, <3>2 DEF InTag
    <2>2. /\ Len(sent) = pos /\ pos = Len(piece.bytes)
          /\ \A i \in 1..pos : sent[Len(sent) - pos + i] = piece.bytes[i]
      BY <2>1 DEF PeerInv, SentInv, InTag, Written
    <2>3. \A i \in 1..Len(piece.bytes) : sent[i] = piece.bytes[i]
      BY <1>1, <2>2
    <2>4. IsOpenOrNot(piece.bytes)
      BY <2>1 DEF PeerInv, OpenInv
    <2> QED
      BY <1>1, <2>2, <2>3, <2>4, OpenOrNotStays
  <1> QED
    BY <1>2, <1>3

\* A piece begun where it may stand keeps the peer's part of the invariant.
LEMMA PeerBegins ==
    ASSUME PeerInv, NEW is, NEW bytes, Begin(is, bytes), ShapeOf(is, bytes),
           is \in InTag => Place = "tag",
           is \in Outer => Place = "outside",
           is \in Inner => Place = "content",
           is = "name" => Place \in {"outside", "content"},
           is \in {"bad_end", "bad_end_cdata"} => DepthAfter = 1,
           is = "bad_slashes" => DepthAfter <= 2,
           stream' \in BOOLEAN, Place # "outside" => stream' = stream,
           is = "name" /\ Place = "outside" =>
               IF stream' THEN StartsWithOpen(bytes) ELSE DiffersFromOpen(bytes)
    PROVE  PeerInv'
  <1>1. /\ Written /\ piece'.is = is /\ piece'.bytes = bytes /\ pos' = 0 /\ depth' = DepthAfter
        /\ sent' = (IF Place = "outside" THEN <<>> ELSE sent)
        /\ first_end' = (IF Place = "outside" THEN 0 ELSE first_end)
    BY DEF Begin
  <1>2. /\ Place \in {"tag", "outside", "content"}
        /\ DepthAfter \in Nat
        /\ Place = "tag" => DepthAfter = depth
        /\ Place = "outside" => DepthAfter = 0
        /\ Place = "content" => DepthAfter >= 1
        /\ stream /\ Place # "outside" => DepthAfter = 0
        /\ DepthAfter >= 1 => depth >= 1 \/ (piece.is = "start" /\ first_end >= 1)
    BY <1>1, PlaceFacts
  <1>3. ShapeOf(piece.is, piece.bytes)'
    BY <1>1 DEF ShapeOf, Holds, NoCDataClose
  <1>4. is \in InTag \/ is \in Outer \/ is \in Inner \/ is = "name"
    BY DEF ShapeOf
  <1>5. bytes \in Seq(Byte) /\ Len(bytes) \in Nat /\ (is \in Opening \/ is \in InTag => Len(bytes) >= 1)
    <2>1. bytes \in Seq(Byte) /\ Len(bytes) \in Nat /\ (is \in Opening => Len(bytes) >= 2)
          /\ (is = "start" => Len(bytes) = 1) /\ (is = "empty" => Len(bytes) = 2)
          /\ (is = "attribute" => \E k \in 1..(Len(bytes) - 1) : TRUE)
      BY DEF ShapeOf
    <2> QED
      BY <2>1 DEF InTag
  <1>6. DepthInv'
    <2>1. depth' \in Nat /\ first_end' \in Nat /\ (stream' => depth' = 0)
      BY <1>1, <1>2 DEF PeerInv, DepthInv
    <2>2. depth' >= 1 => first_end' >= 1
      BY <1>1, <1>2 DEF PeerInv, DepthInv
    <2>3. is \notin InTag /\ depth' = 0 => first_end' = 0
      BY <1>1, <1>2, <1>4
    <2>4. ~(is = "start" /\ Written')
      BY <1>1, <1>5 DEF Written, InTag
    <2> QED
      BY <1>1, <1>2, <2>1, <2>2, <2>3, <2>4 DEF DepthInv
  <1>7. OpenInv'
    <2>1. is \in InTag \/ depth' >= 1 => Place # "outside"
      BY <1>1, <1>2
    <2>2. Place # "outside" => IsOpenOrNot(sent)'
      <3> SUFFICES ASSUME Place # "outside" PROVE IsOpenOrNot(sent)'
        OBVIOUS
      <3>1. IsOpenOrNot(sent) /\ sent' = sent /\ stream' = stream
        BY <1>1, OpenIsSettled
      <3> QED
        BY <3>1 DEF IsOpenOrNot, StartsWithOpen, DiffersFromOpen
    <2>3. is = "name" /\ depth' = 0 => IsOpenOrNot(piece.bytes)'
      <3> SUFFICES ASSUME is = "name", depth' = 0 PROVE IsOpenOrNot(piece.bytes)'
        OBVIOUS
      <3>1. Place = "outside"
        BY <1>1, <1>2
      <3>2. IF stream' THEN StartsWithOpen(bytes) ELSE DiffersFromOpen(bytes)
        BY <3>1
      <3> QED
        BY <1>1, <3>2 DEF IsOpenOrNot, StartsWithOpen, DiffersFromOpen
    <2> QED
      BY <1>1, <2>1, <2>2, <2>3 DEF OpenInv
  <1>8. SentInv'
    <2>1. sent' \in Seq(Byte) /\ Len(sent') \in Nat /\ pos' \in 0..Len(bytes)
      BY <1>1, <1>5, EmptySeq DEF PeerInv, SentInv
    <2>2. is \in InTag => Len(sent') >= 1
      BY <1>1, <2>1, OpenIsSettled, OpenOrNotIsLong
    <2>3. is = "start" => sent'[Len(sent')] # Slash
      BY <1>1, LastByteOfTag DEF InTag
    <2>4. is \notin InTag /\ depth' = 0 => Len(sent') = 0
      BY <1>1, <1>2, <1>4, EmptySeq
    <2>5. is = "space" => Len(sent') = 0
      BY <1>1, EmptySeq DEF Outer
    <2> QED
      BY <1>1, <2>1, <2>2, <2>3, <2>4, <2>5 DEF SentInv
  <1> QED
    BY <1>3, <1>6, <1>7, <1>8 DEF PeerInv

-----------------------------------------------------------------------------
(* The pieces have their shapes.                                           *)

\* Sequences of plain bytes are sequences of bytes.
LEMMA PlainSeq ==
    ASSUME NEW s \in Seq(Plain)
    PROVE  s \in Seq(Byte) /\ Len(s) \in Nat /\ \A i \in 1..Len(s) : s[i] \in Plain
  <1>1. Plain \subseteq Byte
    BY PlainBytes
  <1>2. s \in Seq(Byte)
    BY <1>1, SeqMonotonic
  <1> QED
    BY <1>2, ElementOfSeq, LenProperties

\* The bytes of a concatenation.
LEMMA Concatenated ==
    ASSUME NEW s \in Seq(Byte), NEW t \in Seq(Byte)
    PROVE  /\ s \o t \in Seq(Byte) /\ Len(s \o t) = Len(s) + Len(t)
           /\ Len(s) \in Nat /\ Len(t) \in Nat
           /\ \A i \in 1..Len(s) : (s \o t)[i] = s[i]
           /\ \A i \in (Len(s) + 1)..(Len(s) + Len(t)) : (s \o t)[i] = t[i - Len(s)]
           /\ \A i \in 1..Len(t) : (s \o t)[Len(s) + i] = t[i]
  <1>1. Len(s) \in Nat /\ Len(t) \in Nat
    BY LenProperties
  <1>2. /\ s \o t \in Seq(Byte) /\ Len(s \o t) = Len(s) + Len(t)
        /\ \A i \in 1..(Len(s) + Len(t)) : (s \o t)[i] = IF i <= Len(s) THEN s[i] ELSE t[i - Len(s)]
    BY ConcatProperties
  <1>3. ASSUME NEW i \in 1..Len(s) PROVE (s \o t)[i] = s[i]
    BY <1>1, <1>2
  <1>4. ASSUME NEW i \in (Len(s) + 1)..(Len(s) + Len(t)) PROVE (s \o t)[i] = t[i - Len(s)]
    BY <1>1, <1>2
  <1>5. ASSUME NEW i \in 1..Len(t) PROVE (s \o t)[Len(s) + i] = t[i]
    <2>1. Len(s) + i \in (Len(s) + 1)..(Len(s) + Len(t)) /\ Len(s) + i - Len(s) = i
      BY <1>1
    <2> QED
      BY <1>4, <2>1
  <1> QED
    BY <1>1, <1>2, <1>3, <1>4, <1>5

\* One and two bytes.
LEMMA OneByte ==
    ASSUME NEW x \in Byte
    PROVE  <<x>> \in Seq(Byte) /\ Len(<<x>>) = 1 /\ <<x>>[1] = x
  OBVIOUS

\* As above.
LEMMA TwoBytes ==
    ASSUME NEW x \in Byte, NEW y \in Byte
    PROVE  /\ <<x, y>> \in Seq(Byte) /\ Len(<<x, y>>) = 2
           /\ <<x, y>>[1] = x /\ <<x, y>>[2] = y
  OBVIOUS

\* "<name", which is not the beginning of a stream open.
LEMMA NameShape ==
    ASSUME NEW name \in Names
    PROVE  ShapeOf("name", <<Lt>> \o name) /\ DiffersFromOpen(<<Lt>> \o name)
  <1> DEFINE p == <<Lt>> \o name
  <1>1. /\ name \in Seq(Plain)
        /\ \E i \in DOMAIN name : i + 1 <= Len(StreamOpen) /\ name[i] # StreamOpen[i + 1]
    BY FramingAssumption
  <1>2. name \in Seq(Byte) /\ Len(name) \in Nat /\ DOMAIN name = 1..Len(name)
        /\ \A i \in 1..Len(name) : name[i] \in Plain
    BY <1>1, PlainSeq, LenProperties
  <1>3. Len(name) >= 1
    BY <1>1, <1>2
  <1>4. <<Lt>> \in Seq(Byte) /\ Len(<<Lt>>) = 1 /\ <<Lt>>[1] = Lt
    BY PlainBytes, OneByte
  <1>5. /\ p \in Seq(Byte) /\ Len(p) = 1 + Len(name)
        /\ \A i \in 1..(1 + Len(name)) : p[i] = IF i <= 1 THEN <<Lt>>[i] ELSE name[i - 1]
    BY <1>2, <1>4, ConcatProperties
  <1> HIDE DEF p
  <1>6. p[1] = Lt /\ \A i \in 2..Len(p) : p[i] \in Plain
    BY <1>2, <1>4, <1>5
  <1>7. ShapeOf("name", p)
    BY <1>2, <1>3, <1>5, <1>6 DEF ShapeOf, InTag, Outer, Inner, Opening, Malformed
  <1>8. DiffersFromOpen(p)
    <2>1. PICK i \in 1..Len(name) : i + 1 <= Len(StreamOpen) /\ name[i] # StreamOpen[i + 1]
      BY <1>1, <1>2
    <2>2. i + 1 \in 1..Len(p) /\ p[i + 1] = name[i]
      BY <1>2, <1>5, <2>1
    <2> QED
      BY <2>1, <2>2 DEF DiffersFromOpen
  <1> QED
    BY <1>7, <1>8 DEF p

\* "<stream:stream ".
LEMMA StreamShape == ShapeOf("name", StreamOpen) /\ StartsWithOpen(StreamOpen)
  <1>1. /\ Len(StreamOpen) >= 2 /\ StreamOpen[1] = Lt
        /\ \A i \in 2..Len(StreamOpen) : StreamOpen[i] \in Plain
    BY FramingAssumption
  <1>2. StreamOpen \in Seq(Byte) /\ Len(StreamOpen) \in Nat
    BY NeedleLengths
  <1>3. ShapeOf("name", StreamOpen)
    BY <1>1, <1>2 DEF ShapeOf, InTag, Outer, Inner, Opening, Malformed
  <1>4. StartsWithOpen(StreamOpen)
    BY <1>2 DEF StartsWithOpen
  <1> QED
    BY <1>3, <1>4

\* An attribute: the quote that opens its value is the first one, the next of
\* its kind is its last byte.
LEMMA QuotedShape ==
    ASSUME NEW s \in Seq(Byte), NEW v \in Seq(Byte), NEW q \in {Apos, Quot},
           \A i \in 1..Len(s) : s[i] \in Plain,
           \A i \in 1..Len(v) : v[i] # q
    PROVE  ShapeOf("attribute", s \o <<q>> \o v \o <<q>>)
  <1> DEFINE s2 == s \o <<q>>
             s3 == s2 \o v
             p == s3 \o <<q>>
  <1>1. q \in Byte
    BY PlainBytes
  <1>2. <<q>> \in Seq(Byte) /\ Len(<<q>>) = 1 /\ <<q>>[1] = q
    BY <1>1, OneByte
  <1>3. /\ s2 \in Seq(Byte) /\ Len(s2) = Len(s) + 1 /\ Len(s) \in Nat /\ Len(v) \in Nat
        /\ \A i \in 1..Len(s) : s2[i] = s[i]
        /\ s2[Len(s) + 1] = q
    <2>1. \A i \in 1..Len(<<q>>) : s2[Len(s) + i] = <<q>>[i]
      BY <1>2, Concatenated
    <2>2. s2[Len(s) + 1] = q
      BY <1>2, <2>1
    <2> QED
      BY <1>2, <2>2, Concatenated
  <1> HIDE DEF s2
  <1>4. /\ s3 \in Seq(Byte) /\ Len(s3) = Len(s2) + Len(v)
        /\ \A i \in 1..Len(s2) : s3[i] = s2[i]
        /\ \A i \in (Len(s2) + 1)..(Len(s2) + Len(v)) : s3[i] = v[i - Len(s2)]
    BY <1>3, Concatenated
  <1> HIDE DEF s3
  <1>5. /\ p \in Seq(Byte) /\ Len(p) = Len(s3) + 1
        /\ \A i \in 1..Len(s3) : p[i] = s3[i]
        /\ p[Len(s3) + 1] = q
    <2>1. \A i \in 1..Len(<<q>>) : p[Len(s3) + i] = <<q>>[i]
      BY <1>2, <1>4, Concatenated
    <2>2. p[Len(s3) + 1] = q
      BY <1>2, <2>1
    <2> QED
      BY <1>2, <1>4, <2>2, Concatenated
  <1> HIDE DEF p
  <1>6. PICK k \in Nat : k = Len(s) + 1
    BY <1>3
  <1>7. k \in 1..(Len(p) - 1) /\ Len(s2) = k /\ Len(s3) = k + Len(v) /\ Len(p) = k + Len(v) + 1
    BY <1>3, <1>4, <1>5, <1>6
  <1>8. p[Len(p)] = q
    BY <1>5
  <1>9. ASSUME NEW i \in 1..k PROVE p[i] = s2[i]
    <2>1. i \in 1..Len(s2) /\ i \in 1..Len(s3)
      BY <1>3, <1>7
    <2> QED
      BY <1>4, <1>5, <2>1
  <1>10. ASSUME NEW i \in 1..(k - 1) PROVE p[i] \in Plain
    <2>1. i \in 1..k /\ i \in 1..Len(s)
      BY <1>3, <1>6
    <2> QED
      BY <1>3, <1>9, <2>1
  <1>11. p[k] = q
    <2>1. k \in 1..k
      BY <1>7
    <2> QED
      BY <1>3, <1>6, <1>9, <2>1
  <1>12. ASSUME NEW i \in (k + 1)..(Len(p) - 1) PROVE p[i] # q
    <2>1. /\ i \in (Len(s2) + 1)..(Len(s2) + Len(v)) /\ i \in 1..Len(s3)
          /\ i - Len(s2) \in 1..Len(v)
      BY <1>3, <1>7
    <2>2. p[i] = v[i - Len(s2)]
      BY <1>4, <1>5, <2>1
    <2> QED
      BY <2>1, <2>2
  <1>13. \E j \in 1..(Len(p) - 1) :
              /\ p[j] \in {Apos, Quot} /\ p[j] = p[Len(p)]
              /\ \A i \in 1..(j - 1) : p[i] \in Plain
              /\ \A i \in (j + 1)..(Len(p) - 1) : p[i] # p[j]
    BY <1>7, <1>8, <1>10, <1>11, <1>12
  <1>14. ShapeOf("attribute", p)
    BY <1>5, <1>13 DEF ShapeOf, InTag, Outer, Inner, Opening, Malformed
  <1> QED
    BY <1>14 DEF p, s3, s2

\* A plain byte, and plain bytes behind each other.
LEMMA OnePlain ==
    ASSUME NEW x \in Plain
    PROVE  <<x>> \in Seq(Byte) /\ \A i \in 1..Len(<<x>>) : <<x>>[i] \in Plain
  <1>1. x \in Byte
    BY PlainBytes
  <1> QED
    BY <1>1, OneByte

\* As above.
LEMMA PlainConcatenated ==
    ASSUME NEW s \in Seq(Byte), NEW t \in Seq(Byte),
           \A i \in 1..Len(s) : s[i] \in Plain, \A i \in 1..Len(t) : t[i] \in Plain
    PROVE  s \o t \in Seq(Byte) /\ \A i \in 1..Len(s \o t) : (s \o t)[i] \in Plain
  <1> DEFINE u == s \o t
  <1>1. /\ u \in Seq(Byte) /\ Len(u) = Len(s) + Len(t) /\ Len(s) \in Nat /\ Len(t) \in Nat
        /\ \A i \in 1..Len(s) : u[i] = s[i]
        /\ \A i \in (Len(s) + 1)..(Len(s) + Len(t)) : u[i] = t[i - Len(s)]
    BY Concatenated
  <1> HIDE DEF u
  <1>2. ASSUME NEW i \in 1..Len(u) PROVE u[i] \in Plain
    <2>1. CASE i \in 1..Len(s)
      BY <1>1, <2>1
    <2>2. CASE i \in (Len(s) + 1)..(Len(s) + Len(t))
      <3>1. i - Len(s) \in 1..Len(t)
        BY <1>1, <2>2
      <3> QED
        BY <1>1, <2>2, <3>1
    <2> QED
      BY <1>1, <2>1, <2>2
  <1> QED
    BY <1>1, <1>2 DEF u

\* As Attribute writes it.
LEMMA AttributeShape ==
    ASSUME NEW a \in Attributes, NEW pre, pre = <<>> \/ pre = <<" ">>
    PROVE  ShapeOf("attribute", pre \o a.name \o <<a.q>> \o a.value \o <<a.q>>)
  <1>1. /\ a.name \in Seq(Plain) /\ a.q \in {Apos, Quot} /\ a.value \in Seq(Byte)
        /\ \A i \in DOMAIN a.value : a.value[i] # a.q
    BY FramingAssumption
  <1>2. pre \in Seq(Byte) /\ \A i \in 1..Len(pre) : pre[i] \in Plain
    <2>1. CASE pre = <<>>
      BY <2>1, EmptySeq
    <2>2. CASE pre = <<" ">>
      <3>1. " " \in Plain
        BY PlainBytes
      <3>2. <<" ">> \in Seq(Byte) /\ \A i \in 1..Len(<<" ">>) : <<" ">>[i] \in Plain
        BY <3>1, OnePlain
      <3> QED
        BY <2>2, <3>2
    <2> QED
      BY <2>1, <2>2
  <1>3. a.name \in Seq(Byte) /\ \A i \in 1..Len(a.name) : a.name[i] \in Plain
    BY <1>1, PlainSeq
  <1>4. /\ pre \o a.name \in Seq(Byte)
        /\ \A i \in 1..Len(pre \o a.name) : (pre \o a.name)[i] \in Plain
    BY <1>2, <1>3, PlainConcatenated
  <1>5. \A i \in 1..Len(a.value) : a.value[i] # a.q
    BY <1>1, LenProperties
  <1> QED
    BY <1>1, <1>4, <1>5, QuotedShape

\* "<!" or "<?" and a needle, or as many letters.
LEMMA NeedleFollows ==
    ASSUME NEW x \in Byte, NEW y \in Byte, NEW needle \in Seq(Byte)
    PROVE  /\ <<x, y>> \o needle \in Seq(Byte) /\ Len(<<x, y>> \o needle) = Len(needle) + 2
           /\ (<<x, y>> \o needle)[1] = x /\ (<<x, y>> \o needle)[2] = y
           /\ \A i \in 1..Len(needle) : (<<x, y>> \o needle)[2 + i] = needle[i]
  <1> DEFINE s == <<x, y>>
             u == s \o needle
  <1>1. s \in Seq(Byte) /\ Len(s) = 2 /\ s[1] = x /\ s[2] = y
    BY TwoBytes
  <1> HIDE DEF s
  <1>2. /\ u \in Seq(Byte) /\ Len(u) = Len(s) + Len(needle) /\ Len(needle) \in Nat
        /\ \A i \in 1..Len(s) : u[i] = s[i]
        /\ \A i \in 1..Len(needle) : u[Len(s) + i] = needle[i]
    BY <1>1, Concatenated
  <1> HIDE DEF u
  <1>3. u[1] = x /\ u[2] = y /\ Len(u) = Len(needle) + 2
    BY <1>1, <1>2
  <1>4. \A i \in 1..Len(needle) : u[2 + i] = needle[i]
    BY <1>1, <1>2
  <1> QED
    BY <1>2, <1>3, <1>4 DEF u, s

\* <![CDATA[text]]>, whose first "]]>" behind "<![CDATA[" is its last.
LEMMA CDataShape ==
    ASSUME NEW text \in CDatas
    PROVE  ShapeOf("cdata", CData(text))
  <1> DEFINE s == <<Lt, Bang>> \o CDataOpen
             u == s \o text
             p == u \o CDataClose
  <1>1. /\ text \in Seq(Byte) /\ CDataClose[Len(CDataClose)] = Gt
        /\ \A i \in (Len(CDataOpen) + 3)..(Len(CData(text)) - 1) :
              \E j \in DOMAIN CDataClose : CData(text)[i - Len(CDataClose) + j] # CDataClose[j]
    BY FramingAssumption
  <1>2. /\ Len(CDataOpen) \in Nat \ {0} /\ Len(CDataClose) \in Nat \ {0} /\ Lt \in Byte /\ Bang \in Byte
        /\ CDataOpen \in Seq(Byte) /\ CDataClose \in Seq(Byte)
        /\ DOMAIN CDataClose = 1..Len(CDataClose)
    BY NeedleLengths, PlainBytes, LenProperties
  <1>3. /\ s \in Seq(Byte) /\ Len(s) = Len(CDataOpen) + 2 /\ s[1] = Lt /\ s[2] = Bang
        /\ \A i \in 1..Len(CDataOpen) : s[2 + i] = CDataOpen[i]
    BY <1>2, NeedleFollows
  <1> HIDE DEF s
  <1>4. /\ u \in Seq(Byte) /\ Len(u) = Len(s) + Len(text) /\ Len(text) \in Nat
        /\ \A i \in 1..Len(s) : u[i] = s[i]
    BY <1>1, <1>3, Concatenated
  <1> HIDE DEF u
  <1>5. /\ p \in Seq(Byte) /\ Len(p) = Len(u) + Len(CDataClose)
        /\ \A i \in 1..Len(u) : p[i] = u[i]
        /\ \A i \in 1..Len(CDataClose) : p[Len(u) + i] = CDataClose[i]
    BY <1>2, <1>4, Concatenated
  <1>6. CData(text) = p
    BY DEF CData, p, u, s
  <1> HIDE DEF p
  <1>7. ASSUME NEW i \in 1..(Len(CDataOpen) + 2) PROVE p[i] = s[i]
    <2>1. i \in 1..Len(s) /\ i \in 1..Len(u)
      BY <1>2, <1>3, <1>4
    <2> QED
      BY <1>4, <1>5, <2>1
  <1>8. /\ Len(p) >= Len(CDataOpen) + Len(CDataClose) + 2 /\ Len(p) >= 2
        /\ Len(p) - Len(CDataClose) = Len(u)
    BY <1>2, <1>3, <1>4, <1>5
  <1>9. p[1] = Lt /\ p[2] = Bang
    BY <1>2, <1>3, <1>7
  <1>10. Holds(p, 2, CDataOpen)
    <2> SUFFICES ASSUME NEW i \in 1..Len(CDataOpen) PROVE p[2 + i] = CDataOpen[i]
      BY DEF Holds
    <2>1. 2 + i \in 1..(Len(CDataOpen) + 2)
      BY <1>2
    <2> QED
      BY <1>3, <1>7, <2>1
  <1>11. Holds(p, Len(p) - Len(CDataClose), CDataClose)
    BY <1>5, <1>8 DEF Holds
  <1>12. p[Len(p)] = Gt
    BY <1>1, <1>2, <1>5
  <1>13. \A i \in (Len(CDataOpen) + 3)..(Len(p) - 1) : NoCDataClose(p, i)
    BY <1>1, <1>2, <1>6 DEF NoCDataClose
  <1>14. ShapeOf("cdata", p)
    BY <1>5, <1>8, <1>9, <1>10, <1>11, <1>12, <1>13
    DEF ShapeOf, InTag, Outer, Inner, Opening, Malformed
  <1> QED
    BY <1>6, <1>14

\* "</name>".
LEMMA EndShape ==
    ASSUME NEW name \in Names
    PROVE  ShapeOf("end", <<Lt, Slash>> \o name \o <<Gt>>)
  <1> DEFINE s == <<Lt, Slash>> \o name
             p == s \o <<Gt>>
  <1>1. /\ name \in Seq(Plain)
        /\ \E i \in DOMAIN name : i + 1 <= Len(StreamOpen) /\ name[i] # StreamOpen[i + 1]
    BY FramingAssumption
  <1>2. name \in Seq(Byte) /\ Len(name) \in Nat /\ DOMAIN name = 1..Len(name)
        /\ \A i \in 1..Len(name) : name[i] \in Plain
    BY <1>1, PlainSeq, LenProperties
  <1>0. Len(name) >= 1
    BY <1>1, <1>2
  <1>3. Len(name) >= 1 /\ Lt \in Byte /\ Slash \in Byte /\ Gt \in Byte
    BY <1>0, BytesAssumption
  <1>4. /\ s \in Seq(Byte) /\ Len(s) = Len(name) + 2 /\ s[1] = Lt /\ s[2] = Slash
        /\ \A i \in 1..Len(name) : s[2 + i] = name[i]
    BY <1>2, <1>3, NeedleFollows
  <1> HIDE DEF s
  <1>5. <<Gt>> \in Seq(Byte) /\ Len(<<Gt>>) = 1 /\ <<Gt>>[1] = Gt
    BY <1>3, OneByte
  <1>6. /\ p \in Seq(Byte) /\ Len(p) = Len(s) + 1
        /\ \A i \in 1..Len(s) : p[i] = s[i]
        /\ \A i \in 1..1 : p[Len(s) + i] = <<Gt>>[i]
    BY <1>4, <1>5, Concatenated
  <1> HIDE DEF p
  <1>7. Len(p) >= 4 /\ p[1] = Lt /\ p[2] = Slash
    BY <1>2, <1>3, <1>4, <1>6
  <1>8. p[Len(p)] = Gt
    BY <1>4, <1>5, <1>6
  <1>9. ASSUME NEW i \in 3..(Len(p) - 1) PROVE p[i] \in Plain
    <2>1. i \in 1..Len(s) /\ i - 2 \in 1..Len(name) /\ 2 + (i - 2) = i
      BY <1>2, <1>4, <1>6
    <2>2. p[i] = s[i] /\ s[2 + (i - 2)] = name[i - 2]
      BY <1>4, <1>6, <2>1
    <2> QED
      BY <1>2, <2>1, <2>2
  <1>10. ShapeOf("end", p)
    BY <1>6, <1>7, <1>8, <1>9 DEF ShapeOf, InTag, Outer, Inner, Opening, Malformed
  <1> QED
    BY <1>10 DEF p, s

\* "<?xml ...>".
LEMMA DeclarationShape ==
    ASSUME NEW text \in Declarations
    PROVE  ShapeOf("declaration", <<Lt, Quest>> \o XmlDecl \o text \o <<Gt>>)
  <1> DEFINE s == <<Lt, Quest>> \o XmlDecl
             u == s \o text
             p == u \o <<Gt>>
  <1>1. text \in Seq(Byte) /\ \A i \in DOMAIN text : text[i] # Gt
    BY FramingAssumption
  <1>2. /\ Len(XmlDecl) \in Nat \ {0} /\ XmlDecl \in Seq(Byte)
        /\ Lt \in Byte /\ Quest \in Byte /\ Gt \in Byte
        /\ DOMAIN text = 1..Len(text)
    BY <1>1, NeedleLengths, PlainBytes, LenProperties
  <1>3. /\ s \in Seq(Byte) /\ Len(s) = Len(XmlDecl) + 2 /\ s[1] = Lt /\ s[2] = Quest
        /\ \A i \in 1..Len(XmlDecl) : s[2 + i] = XmlDecl[i]
    BY <1>2, NeedleFollows
  <1> HIDE DEF s
  <1>4. /\ u \in Seq(Byte) /\ Len(u) = Len(s) + Len(text) /\ Len(text) \in Nat
        /\ \A i \in 1..Len(s) : u[i] = s[i]
        /\ \A i \in (Len(s) + 1)..(Len(s) + Len(text)) : u[i] = text[i - Len(s)]
    BY <1>1, <1>3, Concatenated
  <1> HIDE DEF u
  <1>5. <<Gt>> \in Seq(Byte) /\ Len(<<Gt>>) = 1 /\ <<Gt>>[1] = Gt
    BY <1>2, OneByte
  <1>6. /\ p \in Seq(Byte) /\ Len(p) = Len(u) + 1
        /\ \A i \in 1..Len(u) : p[i] = u[i]
        /\ \A i \in 1..1 : p[Len(u) + i] = <<Gt>>[i]
    BY <1>4, <1>5, Concatenated
  <1> HIDE DEF p
  <1>7. ASSUME NEW i \in 1..(Len(XmlDecl) + 2) PROVE p[i] = s[i]
    <2>1. i \in 1..Len(s) /\ i \in 1..Len(u)
      BY <1>2, <1>3, <1>4
    <2> QED
      BY <1>4, <1>6, <2>1
  <1>8. Len(p) >= Len(XmlDecl) + 3 /\ Len(p) >= 2 /\ p[1] = Lt /\ p[2] = Quest
    BY <1>2, <1>3, <1>4, <1>6, <1>7
  <1>9. Holds(p, 2, XmlDecl)
    <2> SUFFICES ASSUME NEW i \in 1..Len(XmlDecl) PROVE p[2 + i] = XmlDecl[i]
      BY DEF Holds
    <2>1. 2 + i \in 1..(Len(XmlDecl) + 2)
      BY <1>2
    <2> QED
      BY <1>3, <1>7, <2>1
  <1>10. p[Len(p)] = Gt
    BY <1>4, <1>5, <1>6
  <1>11. ASSUME NEW i \in (Len(XmlDecl) + 3)..(Len(p) - 1) PROVE p[i] # Gt
    <2>1. /\ i \in (Len(s) + 1)..(Len(s) + Len(text)) /\ i \in 1..Len(u)
          /\ i - Len(s) \in 1..Len(text)
      BY <1>2, <1>3, <1>4, <1>6
    <2>2. p[i] = text[i - Len(s)]
      BY <1>4, <1>6, <2>1
    <2> QED
      BY <1>1, <1>2, <2>1, <2>2
  <1>12. ShapeOf("declaration", p)
    BY <1>6, <1>8, <1>9, <1>10, <1>11 DEF ShapeOf, InTag, Outer, Inner, Opening, Malformed
  <1> QED
    BY <1>12 DEF p, u, s

\* "</stream:stream>".
LEMMA CloseShape == ShapeOf("close", StreamClose)
  <1>1. StreamClose \in Seq(Byte) /\ Len(StreamClose) \in Nat
    BY NeedleLengths
  <1>2. Len(StreamClose) > 4 /\ StreamClose[1] = Lt
    BY FramingAssumption
  <1>3. Len(StreamClose) >= 2
    BY <1>1, <1>2
  <1> QED
    BY <1>1, <1>2, <1>3 DEF ShapeOf, InTag, Outer, Inner, Opening, Malformed

\* What ends a tag, text, and a byte between stanzas.
LEMMA ShortShapes ==
    /\ ShapeOf("start", <<Gt>>)
    /\ ShapeOf("empty", <<Slash, Gt>>)
    /\ \A text \in Texts : ShapeOf("text", text)
    /\ \A x \in {Letter, Gt, Slash} : ShapeOf("space", <<x>>)
    /\ ShapeOf("space", <<>>)
  <1>1. ShapeOf("start", <<Gt>>)
    <2>1. Gt \in Byte
      BY BytesAssumption
    <2>2. <<Gt>> \in Seq(Byte) /\ Len(<<Gt>>) = 1 /\ <<Gt>>[1] = Gt
      BY <2>1, OneByte
    <2> QED
      BY <2>2 DEF ShapeOf, InTag, Outer, Inner, Opening, Malformed
  <1>2. ShapeOf("empty", <<Slash, Gt>>)
    <2>1. Gt \in Byte /\ Slash \in Byte
      BY BytesAssumption
    <2>2. /\ <<Slash, Gt>> \in Seq(Byte) /\ Len(<<Slash, Gt>>) = 2
          /\ <<Slash, Gt>>[1] = Slash /\ <<Slash, Gt>>[2] = Gt
      BY <2>1, TwoBytes
    <2> QED
      BY <2>2 DEF ShapeOf, InTag, Outer, Inner, Opening, Malformed
  <1>3. ASSUME NEW text \in Texts PROVE ShapeOf("text", text)
    <2>1. text \in Seq(Byte) /\ \A i \in DOMAIN text : text[i] # Lt
      BY FramingAssumption
    <2>2. \A i \in 1..Len(text) : text[i] # Lt
      BY <2>1, LenProperties
    <2> QED
      BY <2>1, <2>2 DEF ShapeOf, InTag, Outer, Inner, Opening, Malformed
  <1>4. ASSUME NEW x \in {Letter, Gt, Slash} PROVE ShapeOf("space", <<x>>)
    <2>1. x \in Byte /\ x # Lt
      BY PlainBytes
    <2>2. <<x>> \in Seq(Byte) /\ Len(<<x>>) = 1 /\ <<x>>[1] = x
      BY <2>1, OneByte
    <2> QED
      BY <2>1, <2>2 DEF ShapeOf, InTag, Outer, Inner, Opening, Malformed
  <1>5. ShapeOf("space", <<>>)
    <2>1. <<>> \in Seq(Byte) /\ Len(<<>>) = 0
      BY EmptySeq
    <2> QED
      BY <2>1 DEF ShapeOf, InTag, Outer, Inner, Opening, Malformed
  <1> QED
    BY <1>1, <1>2, <1>3, <1>4, <1>5

\* The malformed pieces between stanzas.
LEMMA BadOuterShapes ==
    /\ \A x \in {Bang, Gt, Apos, Quot} : ShapeOf("bad_first", <<Lt, x>>)
    /\ ShapeOf("bad_declaration", <<Lt, Quest>> \o [i \in 1..Len(XmlDecl) |-> Letter])
    /\ ShapeOf("bad_close", <<Lt, Slash, Letter, Gt>>)
  <1>0. /\ Lt \in Byte /\ Slash \in Byte /\ Letter \in Byte /\ Gt \in Byte /\ Quest \in Byte
        /\ Len(XmlDecl) \in Nat
    BY PlainBytes, NeedleLengths
  <1>1. ASSUME NEW x \in {Bang, Gt, Apos, Quot} PROVE ShapeOf("bad_first", <<Lt, x>>)
    <2>1. x \in Byte
      BY PlainBytes
    <2>2. <<Lt, x>> \in Seq(Byte) /\ Len(<<Lt, x>>) = 2 /\ <<Lt, x>>[1] = Lt /\ <<Lt, x>>[2] = x
      BY <1>0, <2>1, TwoBytes
    <2> QED
      BY <2>2 DEF ShapeOf, InTag, Outer, Inner, Opening, Malformed
  <1>2. ShapeOf("bad_declaration", <<Lt, Quest>> \o [i \in 1..Len(XmlDecl) |-> Letter])
    <2> DEFINE s == [i \in 1..Len(XmlDecl) |-> Letter]
               p == <<Lt, Quest>> \o s
    <2>1. s \in Seq(Byte) /\ Len(s) = Len(XmlDecl) /\ \A i \in 1..Len(XmlDecl) : s[i] = Letter
      BY <1>0
    <2> HIDE DEF s
    <2>2. /\ p \in Seq(Byte) /\ Len(p) = Len(s) + 2 /\ p[1] = Lt /\ p[2] = Quest
          /\ \A i \in 1..Len(s) : p[2 + i] = s[i]
      BY <1>0, <2>1, NeedleFollows
    <2> HIDE DEF p
    <2>3. Len(p) >= 2 /\ \A i \in 1..Len(XmlDecl) : p[2 + i] = Letter
      BY <1>0, <2>1, <2>2
    <2>4. ShapeOf("bad_declaration", p)
      BY <2>1, <2>2, <2>3 DEF ShapeOf, InTag, Outer, Inner, Opening, Malformed
    <2> QED
      BY <2>4 DEF p, s
  <1>3. ShapeOf("bad_close", <<Lt, Slash, Letter, Gt>>)
    <2> DEFINE p == <<Lt, Slash, Letter, Gt>>
    <2>1. p \in Seq(Byte) /\ Len(p) = 4 /\ p[1] = Lt /\ p[2] = Slash /\ p[3] = Letter /\ p[4] = Gt
      BY <1>0
    <2> HIDE DEF p
    <2>2. ShapeOf("bad_close", p)
      BY <2>1 DEF ShapeOf, InTag, Outer, Inner, Opening, Malformed
    <2> QED
      BY <2>2 DEF p
  <1> QED
    BY <1>1, <1>2, <1>3

\* Those inside a stanza.
LEMMA BadInnerShapes ==
    /\ \A x \in {Quest, Gt, Apos, Quot} : ShapeOf("bad_child", <<Lt, x>>)
    /\ ShapeOf("bad_cdata", <<Lt, Bang>> \o [i \in 1..Len(CDataOpen) |-> Letter])
    /\ ShapeOf("bad_slashes", <<Lt, Slash, Slash>>)
    /\ ShapeOf("bad_end", <<Lt, Slash, Letter, Slash, Gt>>)
    /\ ShapeOf("bad_end_cdata", <<Lt, Slash, Bang>> \o CDataOpen)
  <1>0. /\ Lt \in Byte /\ Slash \in Byte /\ Letter \in Byte /\ Gt \in Byte /\ Bang \in Byte
        /\ Len(CDataOpen) \in Nat /\ CDataOpen \in Seq(Byte)
    BY PlainBytes, NeedleLengths
  <1>1. ASSUME NEW x \in {Quest, Gt, Apos, Quot} PROVE ShapeOf("bad_child", <<Lt, x>>)
    <2>1. x \in Byte
      BY PlainBytes
    <2>2. <<Lt, x>> \in Seq(Byte) /\ Len(<<Lt, x>>) = 2 /\ <<Lt, x>>[1] = Lt /\ <<Lt, x>>[2] = x
      BY <1>0, <2>1, TwoBytes
    <2> QED
      BY <2>2 DEF ShapeOf, InTag, Outer, Inner, Opening, Malformed
  <1>2. ShapeOf("bad_cdata", <<Lt, Bang>> \o [i \in 1..Len(CDataOpen) |-> Letter])
    <2> DEFINE s == [i \in 1..Len(CDataOpen) |-> Letter]
               p == <<Lt, Bang>> \o s
    <2>1. s \in Seq(Byte) /\ Len(s) = Len(CDataOpen) /\ \A i \in 1..Len(CDataOpen) : s[i] = Letter
      BY <1>0
    <2> HIDE DEF s
    <2>2. /\ p \in Seq(Byte) /\ Len(p) = Len(s) + 2 /\ p[1] = Lt /\ p[2] = Bang
          /\ \A i \in 1..Len(s) : p[2 + i] = s[i]
      BY <1>0, <2>1, NeedleFollows
    <2> HIDE DEF p
    <2>3. Len(p) >= 2 /\ \A i \in 1..Len(CDataOpen) : p[2 + i] = Letter
      BY <1>0, <2>1, <2>2
    <2>4. ShapeOf("bad_cdata", p)
      BY <2>1, <2>2, <2>3 DEF ShapeOf, InTag, Outer, Inner, Opening, Malformed
    <2> QED
      BY <2>4 DEF p, s
  <1>3. ShapeOf("bad_slashes", <<Lt, Slash, Slash>>)
    <2> DEFINE p == <<Lt, Slash, Slash>>
    <2>1. p \in Seq(Byte) /\ Len(p) = 3 /\ p[1] = Lt /\ p[2] = Slash /\ p[3] = Slash
      BY <1>0
    <2> HIDE DEF p
    <2>2. ShapeOf("bad_slashes", p)
      BY <2>1 DEF ShapeOf, InTag, Outer, Inner, Opening, Malformed
    <2> QED
      BY <2>2 DEF p
  <1>4. ShapeOf("bad_end", <<Lt, Slash, Letter, Slash, Gt>>)
    <2> DEFINE p == <<Lt, Slash, Letter, Slash, Gt>>
    <2>1. /\ p \in Seq(Byte) /\ Len(p) = 5 /\ p[1] = Lt /\ p[2] = Slash /\ p[3] = Letter
          /\ p[4] = Slash /\ p[5] = Gt
      BY <1>0
    <2> HIDE DEF p
    <2>2. ShapeOf("bad_end", p)
      BY <2>1 DEF ShapeOf, InTag, Outer, Inner, Opening, Malformed
    <2> QED
      BY <2>2 DEF p
  <1>5. ShapeOf("bad_end_cdata", <<Lt, Slash, Bang>> \o CDataOpen)
    <2> DEFINE s == <<Lt, Slash, Bang>>
               p == s \o CDataOpen
    <2>1. s \in Seq(Byte) /\ Len(s) = 3 /\ s[1] = Lt /\ s[2] = Slash /\ s[3] = Bang
      BY <1>0
    <2> HIDE DEF s
    <2>2. /\ p \in Seq(Byte) /\ Len(p) = Len(s) + Len(CDataOpen)
          /\ \A i \in 1..Len(s) : p[i] = s[i]
          /\ \A i \in 1..Len(CDataOpen) : p[Len(s) + i] = CDataOpen[i]
      BY <1>0, <2>1, Concatenated
    <2> HIDE DEF p
    <2>3. Len(p) >= 2 /\ Len(p) = Len(CDataOpen) + 3 /\ p[1] = Lt /\ p[2] = Slash /\ p[3] = Bang
      BY <1>0, <2>1, <2>2
    <2>4. Holds(p, 3, CDataOpen)
      BY <2>1, <2>2 DEF Holds
    <2>5. ShapeOf("bad_end_cdata", p)
      BY <2>2, <2>3, <2>4 DEF ShapeOf, InTag, Outer, Inner, Opening, Malformed
    <2> QED
      BY <2>5 DEF p, s
  <1> QED
    BY <1>1, <1>2, <1>3, <1>4, <1>5

-----------------------------------------------------------------------------
(* The filter.                                                             *)

\* The state selects the arm.
LEMMA ArmOf ==
    ASSUME NEW b, NEW reader, ReadByte(b, reader)
    PROVE  /\ state = "OutsideStanza" => OutsideStanza(b)
           /\ state = "BetweenTags" => BetweenTags(b)
           /\ state = "StanzaFirstChar" => StanzaFirstChar(b)
           /\ state = "InsideTagFirstChar" => InsideTagFirstChar(b)
           /\ state = "InsideTag" => InsideTag(b, reader)
           /\ state = "InsideAttribute" => InsideAttribute(b)
           /\ state = "QuestionTag" => QuestionTag(b)
           /\ state = "InsideXmlTag" => InsideXmlTag(b, reader)
           /\ state = "ExclamationTag" => ExclamationTag(b)
           /\ state = "InsideCDATA" => InsideCDATA(b)
           /\ state = "EndStream" => EndStream(b, reader)
  <1>1. /\ OutsideStanza(b) => state = "OutsideStanza"
        /\ BetweenTags(b) => state = "BetweenTags"
        /\ StanzaFirstChar(b) => state = "StanzaFirstChar"
        /\ InsideTagFirstChar(b) => state = "InsideTagFirstChar"
        /\ InsideTag(b, reader) => state = "InsideTag"
        /\ InsideAttribute(b) => state = "InsideAttribute"
        /\ QuestionTag(b) => state = "QuestionTag"
        /\ InsideXmlTag(b, reader) => state = "InsideXmlTag"
        /\ ExclamationTag(b) => state = "ExclamationTag"
        /\ InsideCDATA(b) => state = "InsideCDATA"
        /\ EndStream(b, reader) => state = "EndStream"
    BY DEF OutsideStanza, BetweenTags, StanzaFirstChar, InsideTagFirstChar, InsideTag,
           InsideAttribute, QuestionTag, InsideXmlTag, ExclamationTag, InsideCDATA, EndStream
  <1>2. \/ OutsideStanza(b) \/ BetweenTags(b) \/ StanzaFirstChar(b) \/ InsideTagFirstChar(b)
        \/ InsideTag(b, reader) \/ InsideAttribute(b) \/ QuestionTag(b)
        \/ InsideXmlTag(b, reader) \/ ExclamationTag(b) \/ InsideCDATA(b) \/ EndStream(b, reader)
    BY DEF ReadByte
  <1> QED
    BY <1>1, <1>2

\* What the reader is given and what is known of it then: the byte before
\* the last, the stanza so far, the needle.
LEMMA ByteFacts ==
    ASSUME FramingInv, NEW reader, PieceByte(reader), piece.is # "space"
    PROVE  /\ PeerInv /\ IndInv /\ ReadByte(piece.bytes[pos + 1], reader)
           /\ Config /\ Synced
           /\ PeerInv' /\ IndInv'
           /\ piece' = piece /\ depth' = depth /\ stream' = stream
           /\ cnt < BufSize /\ buf' = [buf EXCEPT ![cnt] = piece.bytes[pos + 1]]
           /\ cnt \in Nat /\ BufSize \in Nat
           /\ state # "OutsideStanza" => cnt = Len(sent) /\ fed = sent
  <1>1. /\ PeerInv /\ IndInv /\ ReadByte(piece.bytes[pos + 1], reader) /\ ret # "err"
        /\ piece' = piece /\ depth' = depth /\ stream' = stream
    BY DEF FramingInv, PieceByte
  <1>2. piece.bytes[pos + 1] \in Byte
    BY <1>1, SentGrows
  <1>3. PeerInv' /\ IndInv'
    BY <1>1, <1>2, PeerByte, ReadByteKeeps
  <1>4. Config /\ Synced
    BY <1>1 DEF FramingInv
  <1>5. cnt < BufSize /\ buf' = [buf EXCEPT ![cnt] = piece.bytes[pos + 1]]
    BY <1>1 DEF ReadByte
  <1>6. cnt \in Nat /\ BufSize \in Nat
    BY <1>1, BufSizeAssumption DEF IndInv, TypeOK
  <1>7. state # "OutsideStanza" => cnt = Len(sent) /\ fed = sent
    BY <1>1, <1>4 DEF Synced, IndInv, FedInv
  <1> QED
    BY <1>1, <1>3, <1>4, <1>5, <1>6, <1>7

\* At the byte that ends a stanza or shows it to be malformed.
Closing == {"start", "empty", "end", "close", "declaration"}
Deciding == piece.is \in Malformed \/ (piece.is \in Closing /\ DepthAfter = 0)

\* What is expected after a byte.
LEMMA ExpectedNext ==
    ASSUME PeerInv, NEW reader, PieceByte(reader), piece.is # "space"
    PROVE  /\ Expected' = IF pos + 1 = Len(piece.bytes) /\ Deciding
                          THEN IF piece.is \in Malformed THEN "err" ELSE "stanza"
                          ELSE IF Len(sent') = BufSize THEN "err" ELSE "none"
           /\ Written' <=> pos + 1 = Len(piece.bytes)
           /\ DepthAfter' = DepthAfter /\ Place' = Place
  <1>1. /\ piece' = piece /\ depth' = depth /\ stream' = stream /\ pos' = pos + 1
    BY DEF PieceByte
  <1>2. pos \in Nat /\ pos + 1 # 0
    BY SentGrows
  <1>3. DepthAfter' = DepthAfter
    BY <1>1 DEF DepthAfter
  <1>4. Place' = Place
    BY <1>1, <1>3 DEF Place
  <1>5. Written' <=> pos + 1 = Len(piece.bytes)
    BY <1>1 DEF Written
  <1>6. Expected' = IF pos + 1 = Len(piece.bytes) /\ Deciding
                    THEN IF piece.is \in Malformed THEN "err" ELSE "stanza"
                    ELSE IF Len(sent') = BufSize THEN "err" ELSE "none"
    <2>1. ~(pos' = 0 \/ piece'.is = "space")
      BY <1>1, <1>2
    <2>2. CASE pos + 1 = Len(piece.bytes) /\ piece.is \in Malformed
      <3>1. Written' /\ piece'.is \in Malformed /\ piece.is \notin Closing
        BY <1>1, <1>5, <2>2 DEF Malformed, Closing
      <3> QED
        BY <2>1, <2>2, <3>1, <1>1 DEF Expected, Deciding, Closing
    <2>3. CASE pos + 1 = Len(piece.bytes) /\ piece.is \notin Malformed
      <3>1. Written' /\ piece'.is \notin Malformed
        BY <1>1, <1>5, <2>3 DEF Malformed
      <3> QED
        BY <2>1, <2>3, <3>1, <1>1, <1>3 DEF Expected, Deciding, Closing
    <2>4. CASE pos + 1 # Len(piece.bytes)
      BY <1>5, <2>1, <2>4 DEF Expected
    <2> QED
      BY <2>2, <2>3, <2>4
  <1> QED
    BY <1>3, <1>4, <1>5, <1>6

\* The reader asks for more.
LEMMA GoesOn ==
    ASSUME FramingInv, NEW reader, PieceByte(reader), piece.is # "space",
           fed' = sent', ~stale' => end_of_first_tag' = first_end',
           ret' = (IF Len(sent') = BufSize THEN "err" ELSE "none"),
           Config',
           ~(pos + 1 = Len(piece.bytes) /\ Deciding)
    PROVE  FramingInv'
  <1>1. PeerInv /\ PeerInv' /\ IndInv'
    BY ByteFacts
  <1>2. ret' = Expected' /\ ret' # "stanza"
    BY <1>1, ExpectedNext
  <1>3. StreamIsCutIntoStanzas'
    BY <1>2 DEF StreamIsCutIntoStanzas
  <1>4. Synced'
    BY DEF Synced
  <1> QED
    BY <1>1, <1>3, <1>4 DEF FramingInv

\* As above, for a byte that Advance counts.
LEMMA AdvancesOn ==
    ASSUME FramingInv, NEW reader, PieceByte(reader), piece.is # "space",
           state # "OutsideStanza", Advance(piece.bytes[pos + 1]),
           ~stale => end_of_first_tag' = first_end',
           Config',
           ~(pos + 1 = Len(piece.bytes) /\ Deciding)
    PROVE  FramingInv'
  <1>1. /\ PeerInv /\ cnt = Len(sent) /\ fed = sent
    BY ByteFacts
  <1>2. sent' = Append(sent, piece.bytes[pos + 1]) /\ Len(sent') = Len(sent) + 1
    BY <1>1, SentGrows
  <1>3. fed' = sent' /\ stale' = stale /\ ret' = (IF Len(sent') = BufSize THEN "err" ELSE "none")
    BY <1>1, <1>2 DEF Advance
  <1> QED
    BY <1>3, GoesOn

\* The reader returns the stanza.
LEMMA Returns ==
    ASSUME FramingInv, NEW reader \in Reader, PieceByte(reader), piece.is # "space",
           state # "OutsideStanza", NEW eoft, StanzaEnd(piece.bytes[pos + 1], reader, eoft),
           ~stale => eoft = first_end',
           pos + 1 = Len(piece.bytes), piece.is \in Closing, DepthAfter = 0
    PROVE  FramingInv'
  <1>1. /\ PeerInv /\ PeerInv' /\ IndInv' /\ cnt = Len(sent) /\ fed = sent
    BY ByteFacts
  <1>2. sent' = Append(sent, piece.bytes[pos + 1]) /\ pos \in Nat /\ pos' = pos + 1
    BY <1>1, SentGrows
  <1>3. /\ ret' = "stanza" /\ fed' = sent' /\ stale' = stale
        /\ {out_eoft', end_of_first_tag'} = {0, eoft}
        /\ At("OutsideStanza", 0)'
    BY <1>1, <1>2 DEF StanzaEnd, Reader, At
  <1>4. out' = sent'
    BY <1>1, <1>3 DEF IndInv, StanzaIsWhatWasRead
  <1>5. piece.is \notin Malformed /\ piece.is \notin {"name", "attribute"}
    BY DEF Closing, Malformed
  <1>6. Expected' = "stanza" /\ DepthAfter' = 0 /\ Place' = Place /\ Written'
    BY <1>1, <1>5, ExpectedNext DEF Deciding
  <1>7. StreamIsCutIntoStanzas'
    BY <1>3, <1>4, <1>6 DEF StreamIsCutIntoStanzas
  <1>8. Place = "outside"
    BY <1>5 DEF Place
  <1>9. Config'
    BY <1>2, <1>3, <1>6, <1>8 DEF Config, Finished, Rest
  <1>10. Synced'
    BY <1>3 DEF Synced, At
  <1> QED
    BY <1>1, <1>7, <1>9, <1>10 DEF FramingInv

\* The reader refuses a malformed piece.
LEMMA Refuses ==
    ASSUME FramingInv, NEW reader, PieceByte(reader),
           ret' = "err", pos + 1 = Len(piece.bytes), piece.is \in Malformed
    PROVE  FramingInv'
  <1>0. piece.is # "space"
    BY DEF Malformed
  <1>1. PeerInv /\ PeerInv' /\ IndInv'
    BY <1>0, ByteFacts
  <1>2. Expected' = "err"
    BY <1>0, <1>1, ExpectedNext DEF Deciding
  <1> QED
    BY <1>1, <1>2 DEF FramingInv, StreamIsCutIntoStanzas

-----------------------------------------------------------------------------
(* Each piece, byte by byte.                                               *)

\* Where first_end stays.
LEMMA FirstEndStays ==
    ASSUME NEW reader, PieceByte(reader),
           \/ piece.is \notin {"start", "empty", "close"}
           \/ pos + 1 # Len(piece.bytes)
           \/ first_end # 0
    PROVE  first_end' = first_end
  BY DEF PieceByte

\* The '<' that begins a stanza, or a tag in it.
LEMMA OpeningByte ==
    ASSUME FramingInv, NEW reader, PieceByte(reader), piece.is \in Opening, pos = 0
    PROVE  FramingInv'
  <1>1. /\ piece.is # "space" /\ piece.is \notin InTag /\ piece.is # "text"
        /\ piece.is \notin {"attribute", "empty", "text"}
    BY DEF Opening, InTag, Malformed
  <1>2. /\ PeerInv /\ IndInv /\ ReadByte(piece.bytes[pos + 1], reader) /\ Config /\ Synced
        /\ piece' = piece /\ depth' = depth /\ stream' = stream /\ cnt \in Nat /\ BufSize \in Nat
    BY <1>1, ByteFacts
  <1>3. /\ Len(piece.bytes) \in Nat /\ Len(piece.bytes) >= 2 /\ piece.bytes[1] = Lt /\ depth \in Nat
        /\ piece.bytes \in Seq(Byte)
    BY <1>2 DEF PeerInv, ShapeOf, DepthInv
  <1>0. pos' = pos + 1
    BY DEF PieceByte
  <1>4. /\ pos' = 1 /\ pos + 1 = 1 /\ pos + 1 # Len(piece.bytes) /\ ~Written' /\ ~Written
    <2>1. pos' = 1 /\ pos + 1 = 1
      BY <1>0
    <2>2. Len(piece.bytes) \in Nat /\ Len(piece.bytes) >= 2
      BY <1>3
    <2>3. piece'.bytes = piece.bytes
      BY <1>2
    <2>4. Len(piece.bytes) # 1 /\ Len(piece.bytes) # 0
      <3>1. \A n \in Nat : n >= 2 => n # 1 /\ n # 0
        OBVIOUS
      <3> QED
        BY <2>2, <3>1
    <2> QED
      BY <2>1, <2>3, <2>4 DEF Written
  <1>5. first_end' = first_end
    BY <1>4, FirstEndStays
  <1>6. ASSUME FirstChar' PROVE Config'
    <2>1. /\ piece'.is \notin {"attribute", "empty", "text"} /\ pos' # 0 /\ ~(pos' >= 2)
      BY <1>1, <1>2, <1>4
    <2>2. Midway'
      BY <1>6, <2>1 DEF Midway
    <2> QED
      BY <1>4, <2>1, <2>2 DEF Config
  <1>7. ReadByte(Lt, reader)
    BY <1>2, <1>3, <1>4
  <1>8. /\ sent \in Seq(Byte) /\ Len(sent) \in Nat /\ Len(sent') = Len(sent) + 1
        /\ sent' = Append(sent, Lt)
    BY <1>1, <1>2, <1>3, <1>4, SentGrows
  <1>9. CASE depth = 0
    <2>1. At("OutsideStanza", 0) /\ cnt = 0
      BY <1>1, <1>2, <1>9 DEF Config, Starting, Rest, At, IndInv, RestInv
    <2>2. Len(sent) = 0 /\ first_end = 0
      BY <1>1, <1>2, <1>4, <1>9 DEF PeerInv, SentInv, DepthInv
    <2>3. OutsideStanza(Lt)
      BY <1>7, <2>1, ArmOf DEF At
    <2>4. /\ tag_cnt' = 1 /\ state' = "StanzaFirstChar" /\ quote' = Nul /\ idx' = 0
          /\ ret' = (IF 1 = BufSize THEN "err" ELSE "none")
          /\ fed' = <<Lt>> /\ stale' = (end_of_first_tag # 0) /\ end_of_first_tag' = end_of_first_tag
      BY <2>1, <2>3 DEF OutsideStanza, Goto, At
    <2>5. FirstChar'
      BY <1>2, <1>9, <2>4 DEF FirstChar, At
    <2>6. fed' = sent'
      <3>1. sent = <<>>
        BY <1>8, <2>2, EmptySeq
      <3> QED
        BY <1>8, <2>4, <3>1
    <2>7. ret' = (IF Len(sent') = BufSize THEN "err" ELSE "none")
      BY <1>8, <2>2, <2>4
    <2>8. ~stale' => end_of_first_tag' = first_end'
      BY <1>5, <2>2, <2>4
    <2> QED
      BY <1>1, <1>4, <1>6, <2>5, <2>6, <2>7, <2>8, GoesOn
  <1>10. CASE depth # 0
    <2>1. At("BetweenTags", depth)
      BY <1>1, <1>2, <1>10 DEF Config, Starting, Rest
    <2>2. BetweenTags(Lt)
      BY <1>7, <2>1, ArmOf DEF At
    <2>3. /\ Advance(Lt) /\ tag_cnt' = depth + 1 /\ state' = "InsideTagFirstChar" /\ quote' = Nul
          /\ idx' = 0 /\ end_of_first_tag' = end_of_first_tag
      BY <2>1, <2>2 DEF BetweenTags, Goto, At
    <2>4. FirstChar'
      BY <1>2, <1>10, <2>3 DEF FirstChar, At
    <2>5. ~stale => end_of_first_tag' = first_end'
      BY <1>2, <1>5, <2>1, <2>3 DEF Synced, At
    <2> QED
      BY <1>1, <1>3, <1>4, <1>6, <2>1, <2>3, <2>4, <2>5, AdvancesOn DEF At
  <1> QED
    BY <1>9, <1>10

\* "<name": behind its second byte the filter is inside the tag.
LEMMA NameByte ==
    ASSUME FramingInv, NEW reader, PieceByte(reader), piece.is = "name", pos # 0
    PROVE  FramingInv'
  <1> DEFINE b == piece.bytes[pos + 1]
  <1>1. /\ piece.is # "space" /\ piece.is \in Opening /\ piece.is \notin {"start", "empty", "close"}
        /\ piece.is \notin InTag
    BY DEF Opening, InTag, Malformed
  <1>2. /\ PeerInv /\ IndInv /\ ReadByte(b, reader) /\ Config /\ Synced
        /\ piece' = piece /\ depth' = depth /\ stream' = stream /\ cnt \in Nat /\ BufSize \in Nat
    BY <1>1, ByteFacts
  <1>3. /\ pos \in Nat /\ pos' = pos + 1 /\ pos' \in 1..Len(piece.bytes) /\ depth \in Nat
        /\ Len(piece.bytes) \in Nat
        /\ \A i \in 2..Len(piece.bytes) : piece.bytes[i] \in Plain
    BY <1>1, <1>2, SentGrows DEF PeerInv, ShapeOf, DepthInv
  <1>4. pos >= 1 /\ pos + 1 \in 2..Len(piece.bytes) /\ pos' >= 2 /\ pos' # 1 /\ pos' # 0 /\ ~Written
    BY <1>3 DEF Written
  <1>5. b \in Plain
    BY <1>3, <1>4
  <1>6. b \notin {Slash, Bang, Gt, Apos, Quot, Quest} /\ b \notin {Gt, Apos, Quot}
    BY <1>5, PlainBytes
  <1>7. IF pos = 1 THEN FirstChar ELSE At("InsideTag", depth + 1)
    BY <1>1, <1>2, <1>3, <1>4 DEF Config, Midway
  <1> HIDE DEF b
  <1>8. /\ Advance(b) /\ At("InsideTag", depth + 1)' /\ end_of_first_tag' = end_of_first_tag
        /\ state # "OutsideStanza"
    <2>1. CASE pos = 1 /\ depth = 0
      <3>1. StanzaFirstChar(b) /\ tag_cnt = depth + 1 /\ state = "StanzaFirstChar"
        BY <1>2, <1>7, <2>1, ArmOf DEF FirstChar, At
      <3> QED
        BY <1>2, <1>6, <3>1 DEF StanzaFirstChar, Goto, At
    <2>2. CASE pos = 1 /\ depth # 0
      <3>1. InsideTagFirstChar(b) /\ tag_cnt = depth + 1 /\ state = "InsideTagFirstChar"
        BY <1>2, <1>7, <2>2, ArmOf DEF FirstChar, At
      <3> QED
        BY <1>2, <1>6, <3>1 DEF InsideTagFirstChar, Goto, At
    <2>3. CASE pos # 1
      <3>1. InsideTag(b, reader) /\ At("InsideTag", depth + 1)
        BY <1>2, <1>7, <2>3, ArmOf DEF At
      <3> QED
        BY <1>2, <1>6, <3>1 DEF InsideTag, At
    <2> QED
      BY <2>1, <2>2, <2>3
  <1>9. Config'
    <2>1. Place' = "tag"
      BY <1>2 DEF Place
    <2> QED
      BY <1>1, <1>2, <1>4, <1>8, <2>1 DEF Config, Finished, Midway, At
  <1>10. ~stale => end_of_first_tag' = first_end'
    BY <1>1, <1>2, <1>8, FirstEndStays DEF Synced
  <1>11. ~Deciding
    BY DEF Deciding, Malformed, Closing
  <1> QED
    BY <1>1, <1>8, <1>9, <1>10, <1>11, AdvancesOn DEF b

\* An attribute: up to the quote that opens its value the filter is inside the
\* tag, then inside the attribute, until that quote comes again.
LEMMA AttributeByte ==
    ASSUME FramingInv, NEW reader, PieceByte(reader), piece.is = "attribute"
    PROVE  FramingInv'
  <1> DEFINE p == piece.bytes
             b == p[pos + 1]
             n == Len(p)
  <1>1. /\ piece.is # "space" /\ piece.is \notin Opening /\ piece.is \notin {"start", "empty", "close"}
        /\ piece.is \in InTag
    BY DEF Opening, InTag, Malformed
  <1>2. /\ PeerInv /\ IndInv /\ ReadByte(b, reader) /\ Config /\ Synced
        /\ piece' = piece /\ depth' = depth /\ cnt \in Nat /\ BufSize \in Nat
    BY <1>1, ByteFacts
  <1>3. pos \in Nat /\ pos' = pos + 1 /\ pos' \in 1..n /\ depth \in Nat /\ n \in Nat
    BY <1>1, <1>2, SentGrows DEF PeerInv, ShapeOf, DepthInv
  <1>4. PICK k \in 1..(n - 1) :
            /\ p[k] \in {Apos, Quot} /\ p[k] = p[n]
            /\ \A i \in 1..(k - 1) : p[i] \in Plain
            /\ \A i \in (k + 1)..(n - 1) : p[i] # p[k]
    BY <1>2 DEF PeerInv, ShapeOf
  <1>5. \A i \in 1..(k - 1) : p[i] \notin {Apos, Quot}
    BY <1>4, PlainBytes
  <1>6. ASSUME NEW m \in Nat PROVE (\E i \in 1..m : p[i] \in {Apos, Quot}) <=> m >= k
    BY <1>3, <1>4, <1>5
  <1>7. IF pos >= k THEN /\ state = "InsideAttribute" /\ tag_cnt = depth + 1 /\ quote = p[n] /\ idx = 0
        ELSE At("InsideTag", depth + 1)
    <2>1. ~Written
      BY DEF PieceByte
    <2>2. CASE pos = 0
      BY <1>1, <1>2, <1>4, <2>2 DEF Config, Starting
    <2>3. CASE pos # 0
      <3>1. InAttribute
        BY <1>2, <2>1, <2>3 DEF Config, Midway
      <3> QED
        BY <1>3, <1>6, <3>1 DEF InAttribute
    <2> QED
      BY <2>2, <2>3
  <1>8. ASSUME pos' # n,
               IF pos' >= k THEN /\ state' = "InsideAttribute" /\ tag_cnt' = depth + 1 /\ quote' = p[n] /\ idx' = 0
               ELSE At("InsideTag", depth + 1)'
        PROVE  Config'
    <2>1. pos' \in Nat /\ pos' # 0 /\ piece'.bytes = p /\ piece'.is = "attribute"
      BY <1>2, <1>3
    <2>2. (\E i \in 1..pos' : p[i] \in {Apos, Quot}) <=> pos' >= k
      BY <1>6, <2>1
    <2>3. InAttribute'
      BY <1>2, <1>8, <2>1, <2>2 DEF InAttribute, At
    <2>4. ~Written'
      BY <1>8, <2>1 DEF Written
    <2>5. Midway'
      BY <1>1, <1>2, <2>1, <2>3 DEF Midway
    <2> QED
      BY <2>1, <2>4, <2>5 DEF Config
  <1>9. ASSUME pos' = n, At("InsideTag", depth + 1)' PROVE Config'
    <2>1. Written' /\ Place' = "tag" /\ pos' # 0
      BY <1>2, <1>3, <1>9 DEF Written, Place
    <2>2. Finished'
      BY <1>2, <1>9, <2>1 DEF Finished, At
    <2> QED
      BY <2>1, <2>2 DEF Config
  <1> HIDE DEF b
  <1>10. /\ Advance(b) /\ end_of_first_tag' = end_of_first_tag /\ state # "OutsideStanza"
         /\ Config'
    <2>1. CASE pos + 1 < k
      <3>1. b \in Plain
        BY <1>3, <1>4, <2>1 DEF b
      <3>2. b \notin {Gt, Apos, Quot}
        BY <3>1, PlainBytes
      <3>3. At("InsideTag", depth + 1) /\ InsideTag(b, reader)
        BY <1>2, <1>3, <1>4, <1>7, <2>1, ArmOf DEF At
      <3>4. /\ Advance(b) /\ end_of_first_tag' = end_of_first_tag /\ state # "OutsideStanza"
            /\ At("InsideTag", depth + 1)'
        BY <1>2, <3>2, <3>3 DEF InsideTag, At
      <3>5. pos' # n /\ ~(pos' >= k)
        BY <1>3, <1>4, <2>1
      <3> QED
        BY <1>8, <3>4, <3>5
    <2>2. CASE pos + 1 = k
      <3>1. b \in {Apos, Quot} /\ b = p[n]
        BY <1>4, <2>2 DEF b
      <3>2. b # Gt /\ ~(b \notin {Gt, Apos, Quot})
        BY <3>1, PlainBytes
      <3>3. At("InsideTag", depth + 1) /\ InsideTag(b, reader)
        BY <1>2, <1>3, <1>4, <1>7, <2>2, ArmOf DEF At
      <3>4. /\ Advance(b) /\ end_of_first_tag' = end_of_first_tag /\ state # "OutsideStanza"
            /\ state' = "InsideAttribute" /\ tag_cnt' = depth + 1 /\ quote' = p[n] /\ idx' = 0
        BY <1>2, <3>1, <3>2, <3>3 DEF InsideTag, At
      <3>5. pos' # n /\ pos' >= k
        BY <1>3, <1>4, <2>2
      <3> QED
        BY <1>8, <3>4, <3>5
    <2>3. CASE pos + 1 > k /\ pos + 1 # n
      <3>1. b # p[n]
        BY <1>3, <1>4, <2>3 DEF b
      <3>2. /\ state = "InsideAttribute" /\ tag_cnt = depth + 1 /\ quote = p[n] /\ idx = 0
            /\ InsideAttribute(b)
        BY <1>2, <1>3, <1>4, <1>7, <2>3, ArmOf
      <3>3. /\ Advance(b) /\ end_of_first_tag' = end_of_first_tag /\ state # "OutsideStanza"
            /\ state' = "InsideAttribute" /\ tag_cnt' = depth + 1 /\ quote' = p[n] /\ idx' = 0
        BY <1>2, <3>1, <3>2 DEF InsideAttribute
      <3>4. pos' # n /\ pos' >= k
        BY <1>3, <1>4, <2>3
      <3> QED
        BY <1>8, <3>3, <3>4
    <2>4. CASE pos + 1 > k /\ pos + 1 = n
      <3>1. b = p[n]
        BY <2>4 DEF b
      <3>2. /\ state = "InsideAttribute" /\ tag_cnt = depth + 1 /\ quote = p[n] /\ idx = 0
            /\ InsideAttribute(b)
        BY <1>2, <1>3, <1>4, <1>7, <2>4, ArmOf
      <3>3. /\ Advance(b) /\ end_of_first_tag' = end_of_first_tag /\ state # "OutsideStanza"
            /\ At("InsideTag", depth + 1)'
        BY <1>2, <3>1, <3>2 DEF InsideAttribute, Goto, At
      <3> QED
        BY <1>3, <1>9, <2>4, <3>3
    <2> QED
      BY <1>3, <1>4, <2>1, <2>2, <2>3, <2>4
  <1>11. ~stale => end_of_first_tag' = first_end'
    BY <1>1, <1>2, <1>10, FirstEndStays DEF Synced
  <1>12. ~Deciding
    BY DEF Deciding, Malformed, Closing
  <1> QED
    BY <1>1, <1>10, <1>11, <1>12, AdvancesOn DEF b

\* Text, and what stands between stanzas: no '<'.
LEMMA TextByte ==
    ASSUME FramingInv, NEW reader, PieceByte(reader), piece.is = "text"
    PROVE  FramingInv'
  <1> DEFINE b == piece.bytes[pos + 1]
  <1>1. /\ piece.is # "space" /\ piece.is \notin Opening /\ piece.is \notin {"start", "empty", "close"}
        /\ piece.is \notin InTag /\ piece.is \in Inner
    BY DEF Opening, InTag, Malformed, Inner
  <1>2. /\ PeerInv /\ IndInv /\ ReadByte(b, reader) /\ Config /\ Synced
        /\ piece' = piece /\ depth' = depth
    BY <1>1, ByteFacts
  <1>3. /\ pos \in Nat /\ pos' = pos + 1 /\ pos' \in 1..Len(piece.bytes) /\ depth \in Nat /\ depth >= 1
        /\ \A i \in 1..Len(piece.bytes) : piece.bytes[i] # Lt
    BY <1>1, <1>2, SentGrows DEF PeerInv, ShapeOf, DepthInv
  <1>4. b # Lt /\ pos' # 0 /\ depth # 0
    BY <1>3
  <1>5. At("BetweenTags", depth)
    <2>1. ~Written
      BY DEF PieceByte
    <2> QED
      BY <1>1, <1>2, <1>4, <2>1 DEF Config, Midway, Starting, Rest
  <1> HIDE DEF b
  <1>6. BetweenTags(b)
    BY <1>2, <1>5, ArmOf DEF At
  <1>7. /\ Advance(b) /\ end_of_first_tag' = end_of_first_tag /\ state # "OutsideStanza"
        /\ At("BetweenTags", depth)'
    BY <1>2, <1>4, <1>5, <1>6 DEF BetweenTags, At
  <1>8. Config'
    <2>1. DepthAfter' = depth' /\ Place' = "content"
      BY <1>1, <1>2, <1>4 DEF DepthAfter, Place
    <2>2. Midway' /\ Finished'
      BY <1>1, <1>2, <1>4, <1>7, <2>1 DEF Midway, Finished, Rest, At
    <2> QED
      BY <1>4, <2>2 DEF Config
  <1>9. ~stale => end_of_first_tag' = first_end'
    BY <1>1, <1>2, <1>7, FirstEndStays DEF Synced
  <1>10. ~Deciding
    BY DEF Deciding, Malformed, Closing
  <1> QED
    BY <1>1, <1>7, <1>8, <1>9, <1>10, AdvancesOn DEF b

\* As above.
LEMMA SpaceByte ==
    ASSUME FramingInv, NEW reader, PieceByte(reader), piece.is = "space"
    PROVE  FramingInv'
  <1> DEFINE b == piece.bytes[pos + 1]
  <1>1. /\ PeerInv /\ IndInv /\ ReadByte(b, reader) /\ Config /\ Synced /\ PeerInv'
        /\ piece' = piece /\ depth' = depth /\ pos' = pos + 1 /\ ~Written
    BY PeerByte DEF FramingInv, PieceByte
  <1>2. /\ pos \in 0..Len(piece.bytes) /\ depth = 0 /\ piece.bytes \in Seq(Byte) /\ Len(piece.bytes) \in Nat
        /\ Len(piece.bytes) <= 1 /\ \A i \in 1..Len(piece.bytes) : piece.bytes[i] # Lt
    BY <1>1 DEF PeerInv, ShapeOf, SentInv, DepthInv, Outer
  <1>3. pos = 0 /\ Len(piece.bytes) = 1 /\ b # Lt /\ b \in Byte
    <2>1. \A n \in Nat : \A m \in 0..n : n <= 1 /\ m # n => m = 0 /\ n = 1
      OBVIOUS
    <2>2. pos = 0 /\ Len(piece.bytes) = 1
      BY <1>1, <1>2, <2>1 DEF Written
    <2>3. pos + 1 \in 1..Len(piece.bytes)
      BY <2>2
    <2> QED
      BY <1>2, <2>2, <2>3
  <1>4. IndInv'
    BY <1>1, <1>3, ReadByteKeeps
  <1>5. At("OutsideStanza", 0)
    BY <1>1, <1>2, <1>3 DEF Config, Starting, Rest, InTag
  <1> HIDE DEF b
  <1>6. OutsideStanza(b)
    BY <1>1, <1>5, ArmOf DEF At
  <1>7. ret' = "none" /\ At("OutsideStanza", 0)'
    BY <1>3, <1>5, <1>6 DEF OutsideStanza, At
  <1>8. Expected' = "none"
    BY <1>1, <1>3 DEF Expected, Malformed
  <1>9. Config'
    <2>1. Written' /\ pos' # 0
      BY <1>1, <1>3 DEF Written
    <2>2. Place' = "outside" /\ DepthAfter' = 0
      BY <1>1, <1>2 DEF Place, DepthAfter
    <2> QED
      BY <1>7, <2>1, <2>2 DEF Config, Finished, Rest
  <1>10. Synced' /\ StreamIsCutIntoStanzas'
    BY <1>7, <1>8 DEF Synced, StreamIsCutIntoStanzas, At
  <1> QED
    BY <1>1, <1>4, <1>9, <1>10 DEF FramingInv

\* Inside a tag the buffer shows whether the stanza is a <stream:stream, and
\* whether the tag closes itself.
LEMMA SeenInTag ==
    ASSUME FramingInv, NEW reader, PieceByte(reader), piece.is # "space",
           state = "InsideTag", IsOpenOrNot(sent)
    PROVE  /\ BufStartsStreamOpen <=> stream
           /\ SelfClosing = IF sent[Len(sent)] = Slash THEN 1 ELSE 0
  <1>1. /\ PeerInv /\ IndInv /\ cnt < BufSize /\ buf' = [buf EXCEPT ![cnt] = piece.bytes[pos + 1]]
        /\ cnt \in Nat /\ BufSize \in Nat /\ cnt = Len(sent) /\ fed = sent
    BY ByteFacts
  <1>2. piece.bytes[pos + 1] \in Byte
    BY <1>1, SentGrows
  <1>3. \A i \in 0..(BufSize - 1) : i # cnt => buf'[i] = buf[i]
    BY <1>1, <1>2, StoreByte DEF IndInv
  <1>4. cnt >= 1 /\ \A i \in 1..cnt : sent[i] = buf[i - 1]
    BY <1>1 DEF IndInv, FedInv
  <1>5. ASSUME NEW i \in 1..cnt PROVE buf'[i - 1] = sent[i]
    <2>1. i - 1 \in 0..(BufSize - 1) /\ i - 1 # cnt
      BY <1>1
    <2> QED
      BY <1>3, <1>4, <2>1
  <1>6. SelfClosing = IF sent[Len(sent)] = Slash THEN 1 ELSE 0
    <2>1. cnt \in 1..cnt
      BY <1>1, <1>4
    <2> QED
      BY <1>1, <1>4, <2>1 DEF SelfClosing
  <1>7. Len(StreamOpen) \in Nat
    BY NeedleLengths
  <1>8. CASE stream
    <2>1. cnt >= Len(StreamOpen) /\ \A i \in 1..Len(StreamOpen) : sent[i] = StreamOpen[i]
      BY <1>1, <1>8 DEF IsOpenOrNot, StartsWithOpen
    <2>2. ASSUME NEW i \in 1..Len(StreamOpen) PROVE buf'[i - 1] = StreamOpen[i]
      <3>1. i \in 1..cnt
        BY <1>1, <1>7, <2>1
      <3> QED
        BY <1>5, <2>1, <3>1
    <2>3. BufSize >= Len(StreamOpen)
      BY <1>1, <1>7, <2>1
    <2> QED
      BY <1>6, <1>8, <2>2, <2>3 DEF BufStartsStreamOpen
  <1>9. CASE ~stream
    <2>1. PICK i \in 1..cnt : i <= Len(StreamOpen) /\ sent[i] # StreamOpen[i]
      BY <1>1, <1>9 DEF IsOpenOrNot, DiffersFromOpen
    <2>2. i \in 1..Len(StreamOpen) /\ buf'[i - 1] # StreamOpen[i]
      BY <1>1, <1>5, <1>7, <2>1
    <2> QED
      BY <1>6, <1>9, <2>2 DEF BufStartsStreamOpen
  <1> QED
    BY <1>8, <1>9

\* The '>' of a tag: it ends the stanza, or the tag stays open or closes.
LEMMA TagEnds ==
    ASSUME FramingInv, NEW reader \in Reader, PieceByte(reader),
           piece.is \in {"start", "empty", "end"},
           pos + 1 = Len(piece.bytes), piece.bytes[pos + 1] = Gt,
           state = "InsideTag", IsOpenOrNot(sent),
           tag_cnt >= SelfClosing,
           tag_cnt - SelfClosing = (IF piece.is = "start" THEN depth + 1 ELSE DepthAfter)
    PROVE  FramingInv'
  <1>1. /\ piece.is # "space" /\ piece.is \in Closing /\ piece.is \notin Malformed
        /\ piece.is \notin {"name", "attribute"} /\ (piece.is \notin Opening \/ piece.is = "end")
    BY DEF Closing, Malformed, Opening
  <1>2. /\ PeerInv /\ IndInv /\ ReadByte(Gt, reader) /\ Config /\ Synced
        /\ piece' = piece /\ depth' = depth /\ stream' = stream /\ cnt \in Nat /\ BufSize \in Nat
        /\ cnt = Len(sent)
    BY <1>1, ByteFacts
  <1>3. /\ depth \in Nat /\ first_end \in Nat /\ stream \in BOOLEAN
        /\ piece.is = "end" => depth >= 1
        /\ stream => depth = 0
        /\ depth >= 1 => first_end >= 1
    BY <1>2 DEF PeerInv, DepthInv, Inner
  <1>4. /\ DepthAfter \in Nat
        /\ piece.is = "start" => DepthAfter = IF stream THEN depth ELSE depth + 1
        /\ stream => DepthAfter = 0 /\ piece.is # "end"
    BY <1>3 DEF DepthAfter
  <1>5. BufStartsStreamOpen <=> stream
    BY <1>1, SeenInTag
  <1>6. InsideTag(Gt, reader)
    BY <1>2, ArmOf
  <1>7. ~stale => MarkFirstTag = first_end'
    <2>1. ~stale => end_of_first_tag = first_end
      BY <1>2 DEF Synced
    <2>2. piece.is \in {"start", "empty"} => first_end' = IF first_end = 0 THEN Len(sent) ELSE first_end
      BY DEF PieceByte
    <2>3. piece.is = "end" => first_end' = first_end /\ first_end # 0
      BY <1>3, FirstEndStays
    <2> QED
      BY <1>2, <2>1, <2>2, <2>3 DEF MarkFirstTag
  <1>8. pos \in Nat /\ pos' = pos + 1 /\ pos' # 0
    BY <1>1, <1>2, SentGrows
  <1>9. Gt \notin {Apos, Quot}
    BY PlainBytes
  <1>10. SelfClosing \in {0, 1} /\ tag_cnt \in Nat
    BY <1>2 DEF SelfClosing, IndInv, TypeOK
  <1>11. CASE DepthAfter = 0
    <2>1. tag_cnt - SelfClosing = 0 \/ (tag_cnt - SelfClosing = 1 /\ BufStartsStreamOpen)
      BY <1>3, <1>4, <1>5, <1>11
    <2>2. StanzaEnd(Gt, reader, MarkFirstTag)
      <3>1. ~(tag_cnt < SelfClosing)
        BY <1>10
      <3> QED
        BY <1>6, <1>9, <2>1, <3>1 DEF InsideTag
    <2> QED
      BY <1>1, <1>7, <1>11, <2>2, Returns
  <1>12. CASE DepthAfter # 0
    <2>1. ~BufStartsStreamOpen /\ tag_cnt - SelfClosing = DepthAfter /\ tag_cnt - SelfClosing # 0
      BY <1>3, <1>4, <1>5, <1>12
    <2>2. /\ end_of_first_tag' = MarkFirstTag /\ tag_cnt' = DepthAfter /\ Goto("BetweenTags")
          /\ Advance(Gt)
      <3>1. ~(tag_cnt < SelfClosing)
        BY <1>10
      <3> QED
        BY <1>6, <1>9, <2>1, <3>1 DEF InsideTag
    <2>3. Place' = "content" /\ DepthAfter' = DepthAfter /\ Written'
      <3>1. DepthAfter' = DepthAfter
        BY <1>2 DEF DepthAfter
      <3> QED
        BY <1>1, <1>2, <1>8, <1>12, <3>1 DEF Place, Written
    <2>4. Config'
      BY <1>8, <1>12, <2>2, <2>3 DEF Config, Finished, Rest, At, Goto
    <2>5. ~Deciding
      BY <1>1, <1>12 DEF Deciding
    <2>6. ~stale => end_of_first_tag' = first_end'
      BY <1>7, <2>2
    <2> QED
      BY <1>1, <2>2, <2>4, <2>5, <2>6, AdvancesOn
  <1> QED
    BY <1>11, <1>12

\* '>' and "/>".
LEMMA EndOfTagByte ==
    ASSUME FramingInv, NEW reader \in Reader, PieceByte(reader), piece.is \in {"start", "empty"}
    PROVE  FramingInv'
  <1>1. /\ piece.is # "space" /\ piece.is \in InTag /\ piece.is \notin Opening /\ piece.is # "text"
        /\ piece.is # "attribute"
    BY DEF Opening, InTag, Malformed
  <1>2. /\ PeerInv /\ IndInv /\ ReadByte(piece.bytes[pos + 1], reader) /\ Config /\ Synced
        /\ piece' = piece /\ depth' = depth /\ stream' = stream /\ ~Written
    BY <1>1, ByteFacts DEF PieceByte
  <1>3. /\ pos \in Nat /\ pos' = pos + 1 /\ pos' \in 1..Len(piece.bytes) /\ depth \in Nat
    BY <1>1, <1>2, SentGrows DEF PeerInv, DepthInv
  <1>4. /\ piece.is = "start" => Len(piece.bytes) = 1 /\ piece.bytes[1] = Gt
        /\ piece.is = "empty" => Len(piece.bytes) = 2 /\ piece.bytes[1] = Slash /\ piece.bytes[2] = Gt
        /\ piece.is = "start" /\ pos = 0 => sent[Len(sent)] # Slash
    BY <1>2 DEF PeerInv, ShapeOf, SentInv
  <1>0. /\ piece.is = "start" => pos = 0 /\ pos + 1 = Len(piece.bytes)
        /\ piece.is = "empty" => IF pos + 1 = Len(piece.bytes) THEN pos = 1 ELSE pos = 0
    <2>2. CASE piece.is = "start"
      <3>1. pos + 1 \in 1..1
        BY <1>3, <1>4, <2>2
      <3>2. pos = 0
        BY <1>3, <3>1
      <3> QED
        BY <1>4, <2>2, <3>2
    <2>3. CASE piece.is = "empty"
      <3>1. pos + 1 \in 1..2
        BY <1>3, <1>4, <2>3
      <3>2. pos = 0 \/ pos = 1
        BY <1>3, <3>1
      <3>3. Len(piece.bytes) = 2
        BY <1>4, <2>3
      <3>4. pos + 1 = 2 <=> pos = 1
        BY <1>3
      <3>5. pos + 1 = Len(piece.bytes) <=> pos = 1
        BY <3>3, <3>4
      <3> QED
        BY <2>3, <3>2, <3>5
    <2> QED
      BY <2>2, <2>3
  <1>5. At("InsideTag", depth + 1) /\ IsOpenOrNot(sent)
    <2>1. IsOpenOrNot(sent)
      BY <1>1, <1>2 DEF PeerInv, OpenInv
    <2>2. CASE pos = 0
      BY <1>1, <1>2, <2>1, <2>2 DEF Config, Starting
    <2>3. CASE pos # 0
      <3>1. piece.is = "empty"
        BY <1>0, <2>3
      <3> QED
        BY <1>2, <2>1, <2>3, <3>1 DEF Config, Midway
    <2> QED
      BY <2>2, <2>3
  <1>6. CASE pos + 1 = Len(piece.bytes)
    <2>1. piece.bytes[pos + 1] = Gt
      BY <1>4, <1>6
    <2>2. sent[Len(sent)] = Slash <=> piece.is = "empty"
      <3>1. CASE piece.is = "start"
        BY <1>0, <1>4, <3>1
      <3>2. CASE piece.is = "empty"
        <4>1. pos = 1
          BY <1>0, <1>6, <3>2
        <4>2. /\ Len(sent) \in Nat /\ sent[Len(sent) - pos + 1] = piece.bytes[1]
          BY <1>1, <1>2, <4>1 DEF PeerInv, SentInv
        <4>3. Len(sent) - pos + 1 = Len(sent)
          BY <4>1, <4>2
        <4> QED
          BY <1>4, <3>2, <4>2, <4>3
      <3> QED
        BY <3>1, <3>2
    <2>3. SelfClosing = IF piece.is = "empty" THEN 1 ELSE 0
      BY <1>1, <1>5, <2>2, SeenInTag DEF At
    <2>4. /\ tag_cnt >= SelfClosing
          /\ tag_cnt - SelfClosing = (IF piece.is = "start" THEN depth + 1 ELSE DepthAfter)
      <3>1. piece.is = "empty" => DepthAfter = depth
        BY DEF DepthAfter
      <3>2. CASE piece.is = "start"
        BY <1>3, <1>5, <2>3, <3>2 DEF At
      <3>3. CASE piece.is = "empty"
        BY <1>3, <1>5, <2>3, <3>1, <3>3 DEF At
      <3> QED
        BY <3>2, <3>3
    <2> QED
      BY <1>5, <1>6, <2>1, <2>4, TagEnds DEF At
  <1>7. CASE pos + 1 # Len(piece.bytes)
    <2>1. piece.is = "empty" /\ pos = 0 /\ piece.bytes[pos + 1] = Slash
      <3>1. piece.is = "empty" /\ pos = 0
        BY <1>0, <1>7
      <3> QED
        BY <1>4, <3>1
    <2>2. InsideTag(Slash, reader)
      BY <1>2, <1>5, <2>1, ArmOf DEF At
    <2>3. Slash \notin {Gt, Apos, Quot}
      BY PlainBytes
    <2>4. Advance(Slash) /\ end_of_first_tag' = end_of_first_tag /\ At("InsideTag", depth + 1)'
      BY <1>2, <1>5, <2>2, <2>3 DEF InsideTag, At
    <2>5. Config'
      <3>1. pos' # 0 /\ ~Written'
        BY <1>2, <1>3, <1>7 DEF Written
      <3>2. Midway'
        BY <1>1, <1>2, <2>1, <2>4 DEF Midway, At
      <3> QED
        BY <3>1, <3>2 DEF Config
    <2>6. ~stale => end_of_first_tag' = first_end'
      BY <1>2, <1>5, <1>7, <2>4, FirstEndStays DEF Synced, At
    <2> QED
      BY <1>1, <1>5, <1>7, <2>1, <2>4, <2>5, <2>6, AdvancesOn DEF At
  <1> QED
    BY <1>6, <1>7

\* What is known behind the '<' of a piece.
LEMMA BehindOpening ==
    ASSUME FramingInv, NEW reader, PieceByte(reader), piece.is \in Opening, pos # 0
    PROVE  /\ piece.is # "space" /\ piece.is \notin InTag /\ piece.is \notin {"attribute", "empty", "text"}
           /\ PeerInv /\ IndInv /\ ReadByte(piece.bytes[pos + 1], reader) /\ Synced
           /\ ShapeOf(piece.is, piece.bytes) /\ DepthInv
           /\ piece' = piece /\ depth' = depth /\ stream' = stream
           /\ IF pos = 1 THEN FirstChar ELSE Midway
           /\ pos \in Nat /\ pos >= 1 /\ Len(piece.bytes) \in Nat /\ Len(sent) \in Nat /\ depth \in Nat
           /\ pos' = pos + 1 /\ pos' \in 2..Len(piece.bytes)
           /\ pos' # Len(piece.bytes) /\ Midway' => Config'
           /\ Len(sent') = Len(sent) + 1 /\ Base' = Base
           /\ state # "OutsideStanza" => cnt = Len(sent) /\ fed = sent
  <1>1. piece.is # "space" /\ piece.is \notin InTag /\ piece.is \notin {"attribute", "empty", "text"}
    BY DEF Opening, InTag, Malformed
  <1>2. /\ PeerInv /\ IndInv /\ ReadByte(piece.bytes[pos + 1], reader) /\ Config /\ Synced
        /\ piece' = piece /\ depth' = depth /\ stream' = stream /\ ~Written
        /\ state # "OutsideStanza" => cnt = Len(sent) /\ fed = sent
    BY <1>1, ByteFacts DEF PieceByte
  <1>3. /\ pos \in Nat /\ pos' = pos + 1 /\ pos' \in 1..Len(piece.bytes) /\ Len(sent) \in Nat
        /\ Len(sent') = Len(sent) + 1
    BY <1>1, <1>2, SentGrows
  <1>4. /\ ShapeOf(piece.is, piece.bytes) /\ DepthInv /\ depth \in Nat /\ piece.bytes \in Seq(Byte)
    BY <1>2 DEF PeerInv, DepthInv, ShapeOf
  <1>5. Len(piece.bytes) \in Nat
    BY <1>4, LenProperties
  <1>6. pos >= 1 /\ pos' \in 2..Len(piece.bytes)
    BY <1>3, <1>5
  <1>7. IF pos = 1 THEN FirstChar ELSE Midway
    BY <1>2 DEF Config, Midway
  <1>8. pos' # Len(piece.bytes) /\ Midway' => Config'
    <2>1. pos' # 0
      BY <1>3
    <2>2. Written' => pos' = Len(piece.bytes)
      BY <1>2 DEF Written
    <2> QED
      BY <2>1, <2>2 DEF Config
  <1>9. Base' = Base
    BY <1>3 DEF Base
  <1> QED
    BY <1>1, <1>2, <1>3, <1>4, <1>5, <1>6, <1>7, <1>8, <1>9

\* A byte behind the '<' that leaves the piece unfinished and marks nothing.
LEMMA InsidePiece ==
    ASSUME FramingInv, NEW reader, PieceByte(reader), piece.is \in Opening, pos # 0,
           Advance(piece.bytes[pos + 1]), end_of_first_tag' = end_of_first_tag,
           state # "OutsideStanza", pos + 1 # Len(piece.bytes), Midway'
    PROVE  FramingInv'
  <1>1. /\ piece.is # "space" /\ Synced /\ pos' = pos + 1
        /\ pos' # Len(piece.bytes) /\ Midway' => Config'
    BY BehindOpening
  <1>2. first_end' = first_end
    BY FirstEndStays
  <1>3. ~stale => end_of_first_tag' = first_end'
    BY <1>1, <1>2 DEF Synced
  <1> QED
    BY <1>1, <1>3, AdvancesOn

\* "</" inside a stanza.
LEMMA SlashByte ==
    ASSUME FramingInv, NEW reader, PieceByte(reader),
           piece.is \in {"end", "bad_slashes", "bad_end", "bad_end_cdata"}, pos = 1
    PROVE  FramingInv'
  <1>1. /\ piece.is \in Opening /\ piece.is \in Inner /\ piece.is \notin {"start", "empty", "close"}
        /\ piece.is \notin {"name", "cdata", "bad_cdata", "declaration", "bad_declaration", "close", "bad_close"}
    BY DEF Opening, Malformed, Inner
  <1>2. /\ ReadByte(piece.bytes[pos + 1], reader) /\ FirstChar /\ ShapeOf(piece.is, piece.bytes)
        /\ DepthInv /\ depth \in Nat /\ pos' = pos + 1 /\ Len(piece.bytes) \in Nat
        /\ piece.is \notin {"attribute", "empty", "text"}
        /\ piece' = piece /\ depth' = depth
    BY <1>1, BehindOpening
  <1>3. depth >= 1
    BY <1>1, <1>2 DEF DepthInv
  <1>4. Len(piece.bytes) # 2 /\ piece.bytes[2] = Slash
    <2>1. piece.bytes[2] = Slash /\ (Len(piece.bytes) >= 3)
      <3>1. CASE piece.is = "end"
        <4>1. piece.bytes[2] = Slash /\ Len(piece.bytes) >= 4
          BY <1>2, <3>1 DEF ShapeOf
        <4>2. \A m \in Nat : m >= 4 => m >= 3
          OBVIOUS
        <4> QED
          BY <1>2, <4>1, <4>2
      <3>2. CASE piece.is = "bad_slashes"
        BY <1>2, <3>2 DEF ShapeOf
      <3>3. CASE piece.is = "bad_end"
        BY <1>2, <3>3 DEF ShapeOf
      <3>4. CASE piece.is = "bad_end_cdata"
        <4>1. piece.bytes[2] = Slash /\ Len(piece.bytes) = Len(CDataOpen) + 3
          BY <1>2, <3>4 DEF ShapeOf
        <4>2. \A m \in Nat : m + 3 >= 3
          OBVIOUS
        <4> QED
          BY <4>1, <4>2, NeedleLengths
      <3> QED
        BY <3>1, <3>2, <3>3, <3>4
    <2>2. \A m \in Nat : m >= 3 => m # 2
      OBVIOUS
    <2> QED
      BY <1>2, <2>1, <2>2
  <1>5. At("InsideTagFirstChar", depth + 1)
    BY <1>2, <1>3 DEF FirstChar
  <1>6. InsideTagFirstChar(Slash)
    BY <1>2, <1>4, <1>5, ArmOf DEF At
  <1>7. Slash \notin {Bang, Quest, Gt, Apos, Quot} /\ tag_cnt >= 2 /\ tag_cnt - 2 = depth - 1
    <2>1. Slash \notin {Bang, Quest, Gt, Apos, Quot}
      BY PlainBytes
    <2>2. tag_cnt >= 2 /\ tag_cnt - 2 = depth - 1
      BY <1>2, <1>3, <1>5 DEF At
    <2> QED
      BY <2>1, <2>2
  <1>8. /\ Advance(Slash) /\ end_of_first_tag' = end_of_first_tag
        /\ At("InsideTagFirstChar", depth - 1)'
    <2>1. ~(tag_cnt < 2) /\ Slash # Bang /\ ~(Slash \in {Quest, Gt, Apos, Quot})
      BY <1>2, <1>5, <1>7 DEF At
    <2>2. /\ Advance(Slash) /\ end_of_first_tag' = end_of_first_tag
          /\ tag_cnt' = tag_cnt - 2 /\ UNCHANGED <<state, quote, idx>>
      BY <1>6, <2>1 DEF InsideTagFirstChar
    <2> QED
      BY <1>2, <1>5, <1>7, <2>2 DEF At
  <1>9. pos' = 2 /\ pos + 1 = 2
    BY <1>2
  <1>10. Midway'
    BY <1>1, <1>2, <1>8, <1>9 DEF Midway, InEnd, InEndCData, At
  <1> QED
    BY <1>1, <1>4, <1>5, <1>8, <1>9, <1>10, InsidePiece DEF At

\* "</name>".
LEMMA EndByte ==
    ASSUME FramingInv, NEW reader \in Reader, PieceByte(reader), piece.is = "end", pos # 0, pos # 1
    PROVE  FramingInv'
  <1> DEFINE b == piece.bytes[pos + 1]
             n == Len(piece.bytes)
  <1>1. /\ piece.is \in Opening /\ piece.is \in Inner /\ piece.is \notin {"start", "empty", "close"}
    BY DEF Opening, Malformed, Inner
  <1>2. /\ ReadByte(b, reader) /\ Midway /\ ShapeOf(piece.is, piece.bytes) /\ PeerInv
        /\ DepthInv /\ depth \in Nat /\ pos \in Nat /\ pos >= 1 /\ pos' = pos + 1 /\ n \in Nat
        /\ piece.is # "space" /\ piece.is \notin {"attribute", "empty", "text"}
        /\ pos' \in 2..n /\ piece' = piece /\ depth' = depth
        /\ state # "OutsideStanza" => cnt = Len(sent) /\ fed = sent
    BY <1>1, BehindOpening
  <1>3. depth >= 1 /\ n >= 4 /\ piece.bytes[n] = Gt /\ \A i \in 3..(n - 1) : piece.bytes[i] \in Plain
    BY <1>1, <1>2 DEF DepthInv, ShapeOf
  <1>4. At(IF pos = 2 THEN "InsideTagFirstChar" ELSE "InsideTag", depth - 1)
    BY <1>1, <1>2 DEF Midway, InEnd
  <1>5. CASE pos + 1 = n
    <2>1. b = Gt /\ pos # 2 /\ At("InsideTag", depth - 1)
      BY <1>2, <1>3, <1>4, <1>5
    <2>2. IsOpenOrNot(sent)
      BY <1>2, <1>3 DEF PeerInv, OpenInv
    <2>3. sent[Len(sent)] # Slash
      <3>1. pos \in 3..(n - 1) /\ pos \in 1..pos
        BY <1>2, <1>5, <2>1
      <3>2. piece.bytes[pos] # Slash
        BY <1>3, <3>1, PlainBytes
      <3>3. Len(sent) \in Nat /\ sent[Len(sent) - pos + pos] = piece.bytes[pos]
        BY <1>2, <3>1 DEF PeerInv, SentInv
      <3>4. Len(sent) - pos + pos = Len(sent)
        BY <1>2, <3>3
      <3> QED
        BY <3>2, <3>3, <3>4
    <2>4. SelfClosing = 0
      BY <1>2, <2>1, <2>2, <2>3, SeenInTag DEF At
    <2>5. /\ tag_cnt >= SelfClosing /\ tag_cnt - SelfClosing = DepthAfter
      BY <1>2, <1>3, <2>1, <2>4 DEF At, DepthAfter
    <2> QED
      BY <1>5, <2>1, <2>2, <2>5, TagEnds DEF At
  <1>6. CASE pos + 1 # n
    <2>1. pos + 1 \in 3..(n - 1)
      BY <1>2, <1>6
    <2>2. b \in Plain
      BY <1>3, <2>1
    <2>3. b \notin {Slash, Bang, Quest, Gt, Apos, Quot} /\ b \notin {Gt, Apos, Quot}
      BY <2>2, PlainBytes
    <2> HIDE DEF b
    <2>4. /\ Advance(b) /\ end_of_first_tag' = end_of_first_tag /\ state # "OutsideStanza"
          /\ At("InsideTag", depth - 1)'
      <3>1. CASE pos = 2
        <4>1. InsideTagFirstChar(b) /\ At("InsideTagFirstChar", depth - 1)
          BY <1>2, <1>4, <3>1, ArmOf DEF At
        <4> QED
          BY <1>2, <2>3, <4>1 DEF InsideTagFirstChar, Goto, At
      <3>2. CASE pos # 2
        <4>1. InsideTag(b, reader) /\ At("InsideTag", depth - 1)
          BY <1>2, <1>4, <3>2, ArmOf DEF At
        <4> QED
          BY <1>2, <2>3, <4>1 DEF InsideTag, At
      <3> QED
        BY <3>1, <3>2
    <2>5. Midway'
      <3>1. pos' # 1 /\ pos' # 2
        BY <1>2, <2>1
      <3> QED
        BY <1>2, <2>4, <3>1 DEF Midway, InEnd, At
    <2> QED
      BY <1>1, <1>6, <2>4, <2>5, InsidePiece DEF b
  <1> QED
    BY <1>5, <1>6

\* last_equals compares with the last bytes of the piece, if it has that many.
LEMMA LastBytes ==
    ASSUME FramingInv, NEW reader, PieceByte(reader), piece.is # "space", state # "OutsideStanza",
           NEW needle, Len(needle) \in Nat, Len(needle) <= pos + 1
    PROVE  LastEquals(needle) <=>
             \A i \in 1..Len(needle) : piece.bytes[pos + 1 - Len(needle) + i] = needle[i]
  <1>1. /\ PeerInv /\ IndInv /\ cnt < BufSize /\ buf' = [buf EXCEPT ![cnt] = piece.bytes[pos + 1]]
        /\ cnt \in Nat /\ BufSize \in Nat /\ cnt = Len(sent) /\ fed = sent
    BY ByteFacts
  <1>2. piece.bytes[pos + 1] \in Byte /\ pos \in Nat
    BY <1>1, SentGrows
  <1>3. buf'[cnt] = piece.bytes[pos + 1] /\ \A i \in 0..(BufSize - 1) : i # cnt => buf'[i] = buf[i]
    BY <1>1, <1>2, StoreByte DEF IndInv
  <1>4. \A i \in 1..cnt : sent[i] = buf[i - 1]
    BY <1>1 DEF IndInv, FedInv
  <1>5. cnt >= pos /\ \A j \in 1..pos : sent[cnt - pos + j] = piece.bytes[j]
    BY <1>1 DEF PeerInv, SentInv
  <1>6. ASSUME NEW j \in 1..(pos + 1) PROVE buf'[cnt - pos - 1 + j] = piece.bytes[j]
    <2>1. CASE j = pos + 1
      <3>1. cnt - pos - 1 + j = cnt
        BY <1>1, <1>2, <2>1
      <3> QED
        BY <1>3, <2>1, <3>1
    <2>2. CASE j # pos + 1
      <3>1. j \in 1..pos
        BY <1>2, <2>2
      <3>0. cnt \in Nat /\ pos \in Nat /\ cnt >= pos /\ j \in Nat /\ j >= 1
        BY <1>1, <1>2, <1>5
      <3>2. PICK m \in Nat : m = cnt - pos + j
        BY <3>0
      <3>3. m \in 1..cnt /\ m - 1 \in 0..(BufSize - 1) /\ m - 1 # cnt /\ cnt - pos - 1 + j = m - 1
        BY <1>1, <1>2, <1>5, <3>1, <3>2
      <3>4. sent[m] = piece.bytes[j]
        BY <1>5, <3>1, <3>2
      <3>5. buf'[m - 1] = buf[m - 1] /\ buf[m - 1] = sent[m]
        BY <1>3, <1>4, <3>3
      <3> QED
        BY <3>3, <3>4, <3>5
    <2> QED
      BY <2>1, <2>2
  <1>7. ~TooFew(needle)
    BY <1>1, <1>2, <1>5 DEF TooFew
  <1>8. ASSUME NEW i \in 1..Len(needle)
        PROVE  buf'[cnt - Len(needle) + i] = piece.bytes[pos + 1 - Len(needle) + i]
    <2>1. PICK j \in Nat : j = pos + 1 - Len(needle) + i
      BY <1>2
    <2>2. j \in 1..(pos + 1) /\ cnt - Len(needle) + i = cnt - pos - 1 + j
      BY <1>1, <1>2, <2>1
    <2>3. buf'[cnt - pos - 1 + j] = piece.bytes[j]
      BY <1>6, <2>2
    <2> QED
      BY <2>1, <2>2, <2>3
  <1> QED
    BY <1>7, <1>8 DEF LastEquals

\* "<!" inside a stanza.
LEMMA BangByte ==
    ASSUME FramingInv, NEW reader, PieceByte(reader), piece.is \in {"cdata", "bad_cdata"}, pos = 1
    PROVE  FramingInv'
  <1>1. /\ piece.is \in Opening /\ piece.is \in Inner
        /\ piece.is \notin {"name", "end", "bad_slashes", "bad_end", "bad_end_cdata",
                            "declaration", "bad_declaration", "close", "bad_close"}
    BY DEF Opening, Malformed, Inner
  <1>2. /\ ReadByte(piece.bytes[pos + 1], reader) /\ FirstChar /\ ShapeOf(piece.is, piece.bytes)
        /\ DepthInv /\ depth \in Nat /\ pos' = pos + 1 /\ Len(piece.bytes) \in Nat /\ Len(sent) \in Nat
        /\ piece.is \notin {"attribute", "empty", "text"}
        /\ piece' = piece /\ depth' = depth /\ Base' = Base
        /\ state # "OutsideStanza" => cnt = Len(sent)
    BY <1>1, BehindOpening
  <1>3. depth >= 1 /\ Len(CDataOpen) \in Nat \ {0} /\ Len(CDataClose) \in Nat \ {0}
    BY <1>1, <1>2, NeedleLengths DEF DepthInv
  <1>4. Len(piece.bytes) # 2 /\ piece.bytes[2] = Bang
    <2>1. CASE piece.is = "cdata"
      <3>1. piece.bytes[2] = Bang /\ Len(piece.bytes) >= Len(CDataOpen) + Len(CDataClose) + 2
        BY <1>2, <2>1 DEF ShapeOf
      <3>2. \A k, l, m \in Nat : l # 0 /\ k >= l + m + 2 => k # 2
        OBVIOUS
      <3> QED
        BY <1>2, <1>3, <3>1, <3>2
    <2>2. CASE piece.is = "bad_cdata"
      <3>1. piece.bytes[2] = Bang /\ Len(piece.bytes) = Len(CDataOpen) + 2
        BY <1>2, <2>2 DEF ShapeOf
      <3>2. \A k, l \in Nat : l # 0 /\ k = l + 2 => k # 2
        OBVIOUS
      <3> QED
        BY <1>2, <1>3, <3>1, <3>2
    <2> QED
      BY <2>1, <2>2
  <1>5. At("InsideTagFirstChar", depth + 1) /\ cnt = Len(sent)
    BY <1>2, <1>3 DEF FirstChar, At
  <1>6. InsideTagFirstChar(Bang)
    BY <1>2, <1>4, <1>5, ArmOf DEF At
  <1>7. Bang # Slash /\ Bang \notin {Quest, Gt, Apos, Quot}
    BY PlainBytes
  <1>8. /\ Advance(Bang) /\ end_of_first_tag' = end_of_first_tag
        /\ state' = "ExclamationTag" /\ idx' = cnt + Len(CDataOpen) /\ quote' = Nul
        /\ tag_cnt' = tag_cnt
    BY <1>6, <1>7 DEF InsideTagFirstChar, NeedleEnd
  <1>9. pos' = 2 /\ pos + 1 = 2
    BY <1>2
  <1>10. cnt + Len(CDataOpen) = Base' + 1 + Len(CDataOpen)
    BY <1>2, <1>3, <1>5 DEF Base
  <1>11. InCData'
    BY <1>2, <1>3, <1>5, <1>8, <1>9, <1>10 DEF InCData, Seeking, At
  <1>12. Midway'
    BY <1>1, <1>2, <1>9, <1>11 DEF Midway
  <1> QED
    BY <1>1, <1>4, <1>5, <1>8, <1>9, <1>12, InsidePiece DEF At

\* Up to the last byte of "[CDATA[".
LEMMA CDataOpenByte ==
    ASSUME FramingInv, NEW reader, PieceByte(reader), piece.is \in {"cdata", "bad_cdata"},
           pos \notin {0, 1}, pos <= Len(CDataOpen) + 1
    PROVE  FramingInv'
  <1> DEFINE b == piece.bytes[pos + 1]
             n == Len(piece.bytes)
  <1>1. /\ piece.is \in Opening /\ piece.is \in Inner
        /\ piece.is \notin {"name", "end", "bad_slashes", "bad_end", "bad_end_cdata",
                            "declaration", "bad_declaration", "close", "bad_close"}
    BY DEF Opening, Malformed, Inner
  <1>2. /\ ReadByte(b, reader) /\ Midway /\ ShapeOf(piece.is, piece.bytes)
        /\ DepthInv /\ depth \in Nat /\ pos \in Nat /\ pos >= 1 /\ pos' = pos + 1 /\ n \in Nat
        /\ Len(sent) \in Nat
        /\ piece.is # "space" /\ piece.is \notin {"attribute", "empty", "text"}
        /\ piece' = piece /\ depth' = depth /\ Base' = Base
        /\ state # "OutsideStanza" => cnt = Len(sent)
    BY <1>1, BehindOpening
  <1>3. depth >= 1 /\ Len(CDataOpen) \in Nat \ {0} /\ Len(CDataClose) \in Nat \ {0}
    BY <1>1, <1>2, NeedleLengths DEF DepthInv
  <1>4. Seeking("ExclamationTag", depth + 1, Base + 1 + Len(CDataOpen)) /\ cnt = Base + pos
        /\ Base \in Int /\ cnt = Len(sent)
    <2>1. InCData
      BY <1>1, <1>2 DEF Midway
    <2>2. Seeking("ExclamationTag", depth + 1, Base + 1 + Len(CDataOpen))
      BY <2>1 DEF InCData
    <2>3. cnt = Len(sent)
      BY <1>2, <2>2 DEF Seeking
    <2>4. Base \in Int /\ Len(sent) = Base + pos
      BY <1>2 DEF Base
    <2> QED
      BY <2>2, <2>3, <2>4
  <1>5. ExclamationTag(b)
    BY <1>2, <1>4, ArmOf DEF Seeking
  <1>6. /\ piece.is = "cdata" => n >= Len(CDataOpen) + Len(CDataClose) + 2 /\ Holds(piece.bytes, 2, CDataOpen)
        /\ piece.is = "bad_cdata" => n = Len(CDataOpen) + 2 /\ \A i \in 1..Len(CDataOpen) : piece.bytes[2 + i] = Letter
    BY <1>2 DEF ShapeOf
  <1> HIDE DEF b, n
  <1>7. CASE pos # Len(CDataOpen) + 1
    <2>1. idx # cnt /\ pos' <= Len(CDataOpen) + 1 /\ pos' # 1
      BY <1>2, <1>3, <1>4, <1>7 DEF Seeking
    <2>2. pos + 1 # n
      BY <1>2, <1>3, <1>6, <1>7
    <2>3. Advance(b) /\ end_of_first_tag' = end_of_first_tag /\ UNCHANGED <<tag_cnt, state, quote, idx>>
      BY <1>5, <2>1 DEF ExclamationTag
    <2>4. InCData'
      BY <1>2, <1>4, <2>1, <2>3 DEF InCData, Seeking
    <2>5. Midway'
      BY <1>1, <1>2, <2>1, <2>4 DEF Midway
    <2> QED
      BY <1>1, <1>4, <2>2, <2>3, <2>5, InsidePiece DEF b, n, Seeking
  <1>8. CASE pos = Len(CDataOpen) + 1
    <2>1. idx = cnt
      BY <1>2, <1>3, <1>4, <1>8 DEF Seeking
    <2>2. pos + 1 - Len(CDataOpen) = 2 /\ Len(CDataOpen) <= pos + 1
      BY <1>2, <1>3, <1>8
    <2>3. LastEquals(CDataOpen) <=> \A i \in 1..Len(CDataOpen) : piece.bytes[2 + i] = CDataOpen[i]
      <3>1. LastEquals(CDataOpen) <=>
              \A i \in 1..Len(CDataOpen) : piece.bytes[pos + 1 - Len(CDataOpen) + i] = CDataOpen[i]
        BY <1>2, <1>3, <1>4, <2>2, LastBytes DEF Seeking
      <3> QED
        BY <2>2, <3>1
    <2>4. CASE piece.is = "cdata"
      <3>1. LastEquals(CDataOpen)
        BY <1>6, <2>3, <2>4 DEF Holds
      <3>2. tag_cnt >= 1 /\ ~(tag_cnt < 1) /\ tag_cnt - 1 = depth
        BY <1>2, <1>4 DEF Seeking
      <3>3. /\ Advance(b) /\ end_of_first_tag' = end_of_first_tag /\ tag_cnt' = tag_cnt - 1
            /\ Goto("InsideCDATA")
        BY <1>5, <2>1, <3>1, <3>2 DEF ExclamationTag
      <3>4. pos + 1 # n /\ ~(pos' <= Len(CDataOpen) + 1) /\ pos' # 1
        BY <1>2, <1>3, <1>6, <1>8, <2>4
      <3>5. InCData'
        BY <1>2, <3>2, <3>3, <3>4 DEF InCData, At, Goto
      <3>6. Midway'
        BY <1>1, <1>2, <3>4, <3>5 DEF Midway
      <3> QED
        BY <1>1, <1>4, <3>3, <3>4, <3>6, InsidePiece DEF b, n, Seeking
    <2>5. CASE piece.is = "bad_cdata"
      <3>1. \E i \in 1..Len(CDataOpen) : CDataOpen[i] # Letter
        <4>1. \E i \in DOMAIN CDataOpen : CDataOpen[i] # Letter
          BY FramingAssumption
        <4> QED
          BY <4>1, NeedleLengths, LenProperties
      <3>2. ~LastEquals(CDataOpen)
        BY <1>6, <2>3, <2>5, <3>1
      <3>3. ret' = "err"
        BY <1>5, <2>1, <3>2 DEF ExclamationTag, Bail
      <3>4. pos + 1 = n
        <4>1. n = Len(CDataOpen) + 2
          BY <1>6, <2>5
        <4> QED
          BY <1>2, <1>3, <1>8, <4>1
      <3> QED
        BY <2>5, <3>3, <3>4, Refuses DEF n, Malformed
    <2> QED
      BY <2>4, <2>5
  <1> QED
    BY <1>7, <1>8


\* The text of a CDATA section, and its "]]>".
LEMMA CDataByte ==
    ASSUME FramingInv, NEW reader, PieceByte(reader), piece.is = "cdata", pos # 0,
           ~(pos <= Len(CDataOpen) + 1)
    PROVE  FramingInv'
  <1> DEFINE b == piece.bytes[pos + 1]
             n == Len(piece.bytes)
             lc == Len(CDataClose)
             lo == Len(CDataOpen)
  <1>1. /\ piece.is \in Opening /\ piece.is \in Inner /\ piece.is \notin {"start", "empty", "close"}
        /\ piece.is \notin Malformed /\ piece.is \notin Closing /\ piece.is \notin {"name", "attribute"}
    BY DEF Opening, Malformed, Inner, Closing
  <1>2. lo \in Nat \ {0} /\ lc \in Nat \ {0} /\ lc <= lo + 3
    BY NeedleLengths, NeedlesAssumption
  <1>3. /\ ReadByte(b, reader) /\ ShapeOf(piece.is, piece.bytes) /\ PeerInv /\ Synced
        /\ DepthInv /\ depth \in Nat /\ pos \in Nat /\ pos >= 1 /\ pos' = pos + 1 /\ n \in Nat
        /\ piece.is # "space"
        /\ pos' \in 2..n /\ piece' = piece /\ depth' = depth
        /\ IF pos = 1 THEN FirstChar ELSE Midway
    BY <1>1, BehindOpening
  <1>4. /\ n >= lo + lc + 2 /\ piece.bytes[n] = Gt
        /\ Holds(piece.bytes, n - lc, CDataClose)
        /\ \A i \in (lo + 3)..(n - 1) : NoCDataClose(piece.bytes, i)
    BY <1>3 DEF ShapeOf
  <1>5. depth >= 1
    BY <1>1, <1>3 DEF DepthInv
  <1>6. pos # 1 /\ pos >= 2 /\ pos >= lo + 2 /\ lc <= pos + 1
    BY <1>2, <1>3
  <1>7. At("InsideCDATA", depth)
    BY <1>1, <1>3, <1>6 DEF Midway, InCData
  <1>8. InsideCDATA(b)
    BY <1>3, <1>7, ArmOf DEF At
  <1>9. Advance(b) /\ end_of_first_tag' = end_of_first_tag /\ tag_cnt' = tag_cnt
    BY <1>8 DEF InsideCDATA
  <1>10. LastEquals(CDataClose) <=> \A i \in 1..lc : piece.bytes[pos + 1 - lc + i] = CDataClose[i]
    BY <1>2, <1>3, <1>6, <1>7, LastBytes DEF At
  <1> HIDE DEF b, n, lc, lo
  <1>11. CASE pos + 1 = n
    <2>1. \A i \in 1..lc : piece.bytes[pos + 1 - lc + i] = CDataClose[i]
      <3>1. \A i \in 1..lc : piece.bytes[n - lc + i] = CDataClose[i]
        BY <1>4 DEF Holds, lc
      <3>2. pos + 1 - lc = n - lc
        BY <1>2, <1>3, <1>11
      <3> QED
        BY <3>1, <3>2
    <2>2. b = Gt
      BY <1>4, <1>11 DEF b
    <2>3. Goto("BetweenTags")
      BY <1>8, <1>10, <2>1, <2>2 DEF InsideCDATA
    <2>4. At("BetweenTags", depth)'
      BY <1>3, <1>7, <1>9, <2>3 DEF Goto, At
    <2>5. DepthAfter = depth /\ ~Deciding
      BY <1>1, <1>3 DEF DepthAfter, Deciding
    <2>6. Place = "content"
      BY <1>1, <1>5, <2>5 DEF Place
    <2>7. Written' /\ DepthAfter' = DepthAfter /\ Place' = Place
      BY <1>3, <1>11, ExpectedNext DEF n
    <2>8. Finished'
      BY <1>3, <1>5, <2>4, <2>5, <2>6, <2>7 DEF Finished, Rest, At
    <2>9. Config'
      BY <1>3, <2>7, <2>8 DEF Config
    <2>10. ~stale => end_of_first_tag' = first_end'
      BY <1>1, <1>3, <1>7, <1>9, FirstEndStays DEF Synced, At
    <2> QED
      BY <1>3, <1>7, <1>9, <2>5, <2>9, <2>10, AdvancesOn DEF At, b
  <1>12. CASE pos + 1 # n
    <2>1. pos + 1 \in (lo + 3)..(n - 1)
      BY <1>2, <1>3, <1>6, <1>12
    <2>2. NoCDataClose(piece.bytes, pos + 1)
      BY <1>4, <2>1
    <2>3. ~LastEquals(CDataClose)
      <3>1. PICK j \in 1..lc : piece.bytes[(pos + 1) - lc + j] # CDataClose[j]
        BY <2>2, Zenon DEF NoCDataClose, lc
      <3>2. (pos + 1) - lc + j = pos + 1 - lc + j
        BY <1>2, <1>3
      <3> QED
        BY <1>10, <3>1, <3>2
    <2>4. UNCHANGED <<state, quote, idx>>
      BY <1>8, <2>3 DEF InsideCDATA
    <2>5. ~(pos' <= Len(CDataOpen) + 1) /\ pos' # 1
      BY <1>2, <1>3, <1>6 DEF lo
    <2>6. InCData'
      BY <1>3, <1>7, <1>9, <2>4, <2>5 DEF InCData, At
    <2>7. Midway'
      BY <1>1, <1>3, <2>5, <2>6 DEF Midway
    <2> QED
      BY <1>1, <1>7, <1>9, <1>12, <2>7, InsidePiece DEF At, b, n
  <1> QED
    BY <1>11, <1>12

\* "<?" between stanzas.
LEMMA QuestByte ==
    ASSUME FramingInv, NEW reader, PieceByte(reader),
           piece.is \in {"declaration", "bad_declaration"}, pos = 1
    PROVE  FramingInv'
  <1>1. /\ piece.is \in Opening /\ piece.is \in Outer /\ piece.is # "space" /\ piece.is \notin InTag
        /\ piece.is \notin {"name", "end", "bad_slashes", "bad_end", "bad_end_cdata",
                            "cdata", "bad_cdata", "close", "bad_close"}
    BY DEF Opening, Malformed, Outer, InTag
  <1>2. /\ ReadByte(piece.bytes[pos + 1], reader) /\ FirstChar /\ ShapeOf(piece.is, piece.bytes)
        /\ DepthInv /\ depth \in Nat /\ pos' = pos + 1 /\ Len(piece.bytes) \in Nat /\ PeerInv
        /\ piece.is \notin {"attribute", "empty", "text"}
        /\ piece' = piece /\ depth' = depth
        /\ state # "OutsideStanza" => cnt = Len(sent)
    BY <1>1, BehindOpening
  <1>3. depth = 0 /\ Len(XmlDecl) \in Nat \ {0} /\ Len(sent) = 1
    <2>1. depth = 0
      BY <1>1, <1>2 DEF DepthInv
    <2> QED
      BY <1>1, <1>2, <2>1, NeedleLengths DEF PeerInv, SentInv
  <1>4. Len(piece.bytes) # 2 /\ piece.bytes[2] = Quest
    <2>1. CASE piece.is = "declaration"
      <3>1. piece.bytes[2] = Quest /\ Len(piece.bytes) >= Len(XmlDecl) + 3
        BY <1>2, <2>1 DEF ShapeOf
      <3>2. \A k, l \in Nat : k >= l + 3 => k # 2
        OBVIOUS
      <3> QED
        BY <1>2, <1>3, <3>1, <3>2
    <2>2. CASE piece.is = "bad_declaration"
      <3>1. piece.bytes[2] = Quest /\ Len(piece.bytes) = Len(XmlDecl) + 2
        BY <1>2, <2>2 DEF ShapeOf
      <3>2. \A k, l \in Nat : l # 0 /\ k = l + 2 => k # 2
        OBVIOUS
      <3> QED
        BY <1>2, <1>3, <3>1, <3>2
    <2> QED
      BY <2>1, <2>2
  <1>5. At("StanzaFirstChar", 1) /\ cnt = 1
    BY <1>2, <1>3 DEF FirstChar, At
  <1>6. StanzaFirstChar(Quest)
    BY <1>2, <1>4, <1>5, ArmOf DEF At
  <1>7. Quest # Slash /\ Quest \notin {Bang, Gt, Apos, Quot}
    BY PlainBytes
  <1>8. /\ Advance(Quest) /\ end_of_first_tag' = end_of_first_tag
        /\ state' = "QuestionTag" /\ idx' = cnt + Len(XmlDecl) /\ quote' = Nul
        /\ tag_cnt' = tag_cnt
    BY <1>6, <1>7 DEF StanzaFirstChar, NeedleEnd
  <1>9. pos' = 2 /\ pos + 1 = 2
    BY <1>2
  <1>10. 2 <= Len(XmlDecl) + 1
    BY <1>3
  <1>11. InDeclaration'
    BY <1>5, <1>8, <1>9, <1>10 DEF InDeclaration, Seeking, At
  <1>12. Midway'
    BY <1>1, <1>2, <1>9, <1>11 DEF Midway
  <1> QED
    BY <1>1, <1>4, <1>5, <1>8, <1>9, <1>12, InsidePiece DEF At


\* Up to the last byte of "xml ".
LEMMA XmlDeclByte ==
    ASSUME FramingInv, NEW reader, PieceByte(reader), piece.is \in {"declaration", "bad_declaration"},
           pos \notin {0, 1}, pos <= Len(XmlDecl) + 1
    PROVE  FramingInv'
  <1> DEFINE b == piece.bytes[pos + 1]
             n == Len(piece.bytes)
  <1>1. /\ piece.is \in Opening /\ piece.is \in Outer /\ piece.is # "space" /\ piece.is \notin InTag
        /\ piece.is \notin {"name", "end", "bad_slashes", "bad_end", "bad_end_cdata",
                            "cdata", "bad_cdata", "close", "bad_close"}
    BY DEF Opening, Malformed, Outer, InTag
  <1>2. /\ ReadByte(b, reader) /\ Midway /\ ShapeOf(piece.is, piece.bytes) /\ PeerInv
        /\ DepthInv /\ pos \in Nat /\ pos >= 1 /\ pos' = pos + 1 /\ n \in Nat
        /\ piece.is \notin {"attribute", "empty", "text"}
        /\ piece' = piece
        /\ state # "OutsideStanza" => cnt = Len(sent)
    BY <1>1, BehindOpening
  <1>3. Len(XmlDecl) \in Nat \ {0} /\ Len(sent) = pos
    <2>1. depth = 0
      BY <1>1, <1>2 DEF DepthInv
    <2> QED
      BY <1>1, <1>2, <2>1, NeedleLengths DEF PeerInv, SentInv
  <1>4. Seeking("QuestionTag", 1, 1 + Len(XmlDecl)) /\ cnt = pos
    <2>1. InDeclaration
      BY <1>1, <1>2 DEF Midway
    <2>2. Seeking("QuestionTag", 1, 1 + Len(XmlDecl))
      BY <2>1 DEF InDeclaration
    <2> QED
      BY <1>2, <1>3, <2>2 DEF Seeking
  <1>5. QuestionTag(b)
    BY <1>2, <1>4, ArmOf DEF Seeking
  <1>6. /\ piece.is = "declaration" => n >= Len(XmlDecl) + 3 /\ Holds(piece.bytes, 2, XmlDecl)
        /\ piece.is = "bad_declaration" => n = Len(XmlDecl) + 2 /\ \A i \in 1..Len(XmlDecl) : piece.bytes[2 + i] = Letter
    BY <1>2 DEF ShapeOf
  <1> HIDE DEF b, n
  <1>7. CASE pos # Len(XmlDecl) + 1
    <2>1. idx # cnt /\ pos' <= Len(XmlDecl) + 1 /\ pos' # 1
      BY <1>2, <1>3, <1>4, <1>7 DEF Seeking
    <2>2. pos + 1 # n
      BY <1>2, <1>3, <1>6, <1>7
    <2>3. Advance(b) /\ end_of_first_tag' = end_of_first_tag /\ UNCHANGED <<tag_cnt, state, quote, idx>>
      BY <1>5, <2>1 DEF QuestionTag
    <2>4. InDeclaration'
      BY <1>4, <2>1, <2>3 DEF InDeclaration, Seeking
    <2>5. Midway'
      BY <1>1, <1>2, <2>1, <2>4 DEF Midway
    <2> QED
      BY <1>1, <1>4, <2>2, <2>3, <2>5, InsidePiece DEF b, n, Seeking
  <1>8. CASE pos = Len(XmlDecl) + 1
    <2>1. idx = cnt
      BY <1>2, <1>3, <1>4, <1>8 DEF Seeking
    <2>2. pos + 1 - Len(XmlDecl) = 2 /\ Len(XmlDecl) <= pos + 1
      BY <1>2, <1>3, <1>8
    <2>3. LastEquals(XmlDecl) <=> \A i \in 1..Len(XmlDecl) : piece.bytes[2 + i] = XmlDecl[i]
      <3>1. LastEquals(XmlDecl) <=>
              \A i \in 1..Len(XmlDecl) : piece.bytes[pos + 1 - Len(XmlDecl) + i] = XmlDecl[i]
        BY <1>1, <1>3, <1>4, <2>2, LastBytes DEF Seeking
      <3> QED
        BY <2>2, <3>1
    <2>4. CASE piece.is = "declaration"
      <3>1. LastEquals(XmlDecl)
        BY <1>6, <2>3, <2>4 DEF Holds
      <3>2. Advance(b) /\ end_of_first_tag' = end_of_first_tag /\ tag_cnt' = tag_cnt /\ Goto("InsideXmlTag")
        BY <1>5, <2>1, <3>1 DEF QuestionTag
      <3>3. pos + 1 # n /\ ~(pos' <= Len(XmlDecl) + 1) /\ pos' # 1
        BY <1>2, <1>3, <1>6, <1>8, <2>4
      <3>4. InDeclaration'
        BY <1>4, <3>2, <3>3 DEF InDeclaration, At, Goto, Seeking
      <3>5. Midway'
        BY <1>1, <1>2, <3>3, <3>4 DEF Midway
      <3> QED
        BY <1>1, <1>4, <3>2, <3>3, <3>5, InsidePiece DEF b, n, Seeking
    <2>5. CASE piece.is = "bad_declaration"
      <3>1. \E i \in 1..Len(XmlDecl) : XmlDecl[i] # Letter
        <4>1. \E i \in DOMAIN XmlDecl : XmlDecl[i] # Letter
          BY FramingAssumption
        <4> QED
          BY <4>1, NeedleLengths, LenProperties
      <3>2. ~LastEquals(XmlDecl)
        BY <1>6, <2>3, <2>5, <3>1
      <3>3. ret' = "err"
        BY <1>5, <2>1, <3>2 DEF QuestionTag, Bail
      <3>4. pos + 1 = n
        <4>1. n = Len(XmlDecl) + 2
          BY <1>6, <2>5
        <4> QED
          BY <1>2, <1>3, <1>8, <4>1
      <3> QED
        BY <2>5, <3>3, <3>4, Refuses DEF n, Malformed
    <2> QED
      BY <2>4, <2>5
  <1> QED
    BY <1>7, <1>8

\* The rest of a declaration.
LEMMA DeclarationByte ==
    ASSUME FramingInv, NEW reader \in Reader, PieceByte(reader), piece.is = "declaration", pos # 0,
           ~(pos <= Len(XmlDecl) + 1)
    PROVE  FramingInv'
  <1> DEFINE b == piece.bytes[pos + 1]
             n == Len(piece.bytes)
             lx == Len(XmlDecl)
  <1>1. /\ piece.is \in Opening /\ piece.is \in Outer /\ piece.is \notin {"start", "empty", "close", "end"}
        /\ piece.is \in Closing
    BY DEF Opening, Outer, Closing
  <1>2. lx \in Nat \ {0}
    BY NeedleLengths
  <1>3. /\ ReadByte(b, reader) /\ ShapeOf(piece.is, piece.bytes) /\ Synced
        /\ DepthInv /\ pos \in Nat /\ pos >= 1 /\ pos' = pos + 1 /\ n \in Nat
        /\ piece.is # "space"
        /\ pos' \in 2..n /\ piece' = piece
        /\ IF pos = 1 THEN FirstChar ELSE Midway
    BY <1>1, BehindOpening
  <1>4. /\ piece.bytes[n] = Gt
        /\ \A i \in (lx + 3)..(n - 1) : piece.bytes[i] # Gt
    BY <1>3 DEF ShapeOf
  <1>5. depth = 0 /\ DepthAfter = 0
    BY <1>1, <1>3 DEF DepthInv, DepthAfter
  <1>6. pos # 1 /\ pos >= 2 /\ pos >= lx + 2
    BY <1>2, <1>3
  <1>7. At("InsideXmlTag", 1)
    BY <1>1, <1>3, <1>6 DEF Midway, InDeclaration
  <1>8. InsideXmlTag(b, reader)
    BY <1>3, <1>7, ArmOf DEF At
  <1>9. ~stale => end_of_first_tag = first_end'
    BY <1>1, <1>3, <1>7, FirstEndStays DEF Synced, At
  <1> HIDE DEF b, n, lx
  <1>10. CASE pos + 1 = n
    <2>1. b = Gt
      BY <1>4, <1>10 DEF b
    <2>2. StanzaEnd(b, reader, end_of_first_tag)
      BY <1>8, <2>1 DEF InsideXmlTag
    <2> QED
      BY <1>1, <1>3, <1>5, <1>7, <1>9, <1>10, <2>2, Returns DEF At, b, n
  <1>11. CASE pos + 1 # n
    <2>1. pos + 1 \in (lx + 3)..(n - 1)
      BY <1>2, <1>3, <1>6, <1>11
    <2>2. b # Gt
      BY <1>4, <2>1 DEF b
    <2>3. Advance(b) /\ UNCHANGED <<tag_cnt, end_of_first_tag, state, quote, idx>>
      BY <1>8, <2>2 DEF InsideXmlTag
    <2>4. ~(pos' <= Len(XmlDecl) + 1) /\ pos' # 1
      BY <1>2, <1>3, <1>6 DEF lx
    <2>5. InDeclaration'
      BY <1>7, <2>3, <2>4 DEF InDeclaration, At
    <2>6. Midway'
      BY <1>1, <1>3, <2>4, <2>5 DEF Midway
    <2> QED
      BY <1>1, <1>7, <1>11, <2>3, <2>6, InsidePiece DEF At, b, n
  <1> QED
    BY <1>10, <1>11


\* "</" between stanzas.
LEMMA CloseSlashByte ==
    ASSUME FramingInv, NEW reader, PieceByte(reader), piece.is \in {"close", "bad_close"}, pos = 1
    PROVE  FramingInv'
  <1>1. /\ piece.is \in Opening /\ piece.is \in Outer /\ piece.is # "space"
        /\ piece.is \notin {"name", "end", "bad_slashes", "bad_end", "bad_end_cdata",
                            "cdata", "bad_cdata", "declaration", "bad_declaration"}
    BY DEF Opening, Malformed, Outer
  <1>2. /\ ReadByte(piece.bytes[pos + 1], reader) /\ FirstChar /\ ShapeOf(piece.is, piece.bytes)
        /\ DepthInv /\ pos' = pos + 1 /\ Len(piece.bytes) \in Nat
        /\ piece.is \notin {"attribute", "empty", "text"}
        /\ piece' = piece
    BY <1>1, BehindOpening
  <1>3. depth = 0
    BY <1>1, <1>2 DEF DepthInv
  <1>4. Len(piece.bytes) # 2 /\ piece.bytes[2] = Slash
    <2>1. CASE piece.is = "close"
      <3>1. piece.bytes = StreamClose
        BY <1>2, <2>1 DEF ShapeOf
      <3>2. StreamClose[2] = Slash /\ Len(StreamClose) > 4
        BY FramingAssumption
      <3>3. \A k \in Nat : k > 4 => k # 2
        OBVIOUS
      <3> QED
        BY <1>2, <3>1, <3>2, <3>3
    <2>2. CASE piece.is = "bad_close"
      BY <1>2, <2>2 DEF ShapeOf
    <2> QED
      BY <2>1, <2>2
  <1>5. At("StanzaFirstChar", 1)
    BY <1>2, <1>3 DEF FirstChar, At
  <1>6. StanzaFirstChar(Slash)
    BY <1>2, <1>4, <1>5, ArmOf DEF At
  <1>7. Slash # Quest /\ Slash \notin {Bang, Gt, Apos, Quot}
    BY PlainBytes
  <1>8. /\ Advance(Slash) /\ end_of_first_tag' = end_of_first_tag /\ Goto("EndStream")
        /\ tag_cnt' = tag_cnt
    BY <1>6, <1>7 DEF StanzaFirstChar
  <1>9. pos' = 2 /\ pos + 1 = 2
    BY <1>2
  <1>10. At("EndStream", 1)'
    BY <1>5, <1>8 DEF At, Goto
  <1>11. Midway'
    BY <1>1, <1>2, <1>9, <1>10 DEF Midway
  <1> QED
    BY <1>1, <1>4, <1>5, <1>8, <1>9, <1>11, InsidePiece DEF At

\* The rest of "</stream:stream>", or of another closing tag.
LEMMA CloseByte ==
    ASSUME FramingInv, NEW reader \in Reader, PieceByte(reader), piece.is \in {"close", "bad_close"},
           pos \notin {0, 1}
    PROVE  FramingInv'
  <1> DEFINE b == piece.bytes[pos + 1]
             n == Len(piece.bytes)
             ls == Len(StreamClose)
  <1>1. /\ piece.is \in Opening /\ piece.is \in Outer /\ piece.is # "space" /\ piece.is \notin InTag
        /\ piece.is \notin {"name", "end", "bad_slashes", "bad_end", "bad_end_cdata",
                            "cdata", "bad_cdata", "declaration", "bad_declaration"}
        /\ piece.is = "close" => piece.is \in Closing
    BY DEF Opening, Malformed, Outer, InTag, Closing
  <1>2. ls \in Nat /\ ls > 4
    BY FramingAssumption, NeedleLengths
  <1>3. /\ ReadByte(b, reader) /\ Midway /\ ShapeOf(piece.is, piece.bytes) /\ Synced /\ PeerInv /\ IndInv
        /\ DepthInv /\ pos \in Nat /\ pos >= 1 /\ pos' = pos + 1 /\ n \in Nat
        /\ piece.is \notin {"attribute", "empty", "text"}
        /\ pos' \in 2..n /\ piece' = piece
        /\ state # "OutsideStanza" => cnt = Len(sent)
    BY <1>1, BehindOpening
  <1>4. depth = 0 /\ pos >= 2 /\ pos # 1 /\ Len(sent) = pos
    <2>1. depth = 0
      BY <1>1, <1>3 DEF DepthInv
    <2> QED
      BY <1>1, <1>3, <2>1 DEF PeerInv, SentInv
  <1>5. At("EndStream", 1) /\ cnt = pos
    BY <1>1, <1>3, <1>4 DEF Midway, At
  <1>6. EndStream(b, reader)
    BY <1>3, <1>5, ArmOf DEF At
  <1>7. b = Gt <=> pos + 1 = n
    <2>1. CASE piece.is = "close"
      <3>1. piece.bytes = StreamClose
        BY <1>3, <2>1 DEF ShapeOf
      <3>2. pos + 1 \in 3..Len(StreamClose)
        BY <1>3, <1>4, <3>1
      <3>3. \A i \in 3..Len(StreamClose) : StreamClose[i] = Gt <=> i = Len(StreamClose)
        BY FramingAssumption
      <3> QED
        BY <3>1, <3>2, <3>3
    <2>2. CASE piece.is = "bad_close"
      <3>1. n = 4 /\ piece.bytes[3] = Letter /\ piece.bytes[4] = Gt
        BY <1>3, <2>2 DEF ShapeOf
      <3>2. Letter # Gt
        BY PlainBytes
      <3>3. pos + 1 = 3 \/ pos + 1 = 4
        BY <1>3, <1>4, <3>1
      <3>4. CASE pos + 1 = 3
        BY <3>1, <3>2, <3>4
      <3>5. CASE pos + 1 = 4
        BY <3>1, <3>5
      <3> QED
        BY <3>3, <3>4, <3>5
    <2> QED
      BY <2>1, <2>2
  <1>8. piece.is = "close" => piece.bytes = StreamClose /\ n = ls
    BY <1>3 DEF ShapeOf
  <1>9. piece.is = "bad_close" => n = 4
    BY <1>3 DEF ShapeOf
  <1> HIDE DEF b, n, ls
  <1>10. CASE pos + 1 = n /\ piece.is = "close"
    <2>1. ls <= pos + 1 /\ pos + 1 - ls = 0
      BY <1>2, <1>3, <1>8, <1>10
    <2>2. LastEquals(StreamClose)
      <3>1. LastEquals(StreamClose) <=> \A i \in 1..ls : piece.bytes[pos + 1 - ls + i] = StreamClose[i]
        BY <1>1, <1>2, <1>5, <2>1, LastBytes DEF At, ls
      <3>2. ASSUME NEW i \in 1..ls PROVE piece.bytes[pos + 1 - ls + i] = StreamClose[i]
        <4>1. pos + 1 - ls + i = i
          BY <1>2, <1>3, <2>1
        <4> QED
          BY <1>8, <1>10, <4>1
      <3> QED
        BY <3>1, <3>2
    <2>3. StanzaEnd(b, reader, MarkFirstTag)
      BY <1>6, <1>7, <1>10, <2>2 DEF EndStream
    <2>4. ~stale => MarkFirstTag = first_end'
      <3>1. first_end = 0
        BY <1>1, <1>3, <1>4, <1>10 DEF DepthInv, Written, n
      <3>2. first_end' = Len(sent)
        BY <1>10, <3>1 DEF PieceByte, n
      <3>3. ~stale => end_of_first_tag = 0
        BY <1>3, <1>5, <3>1 DEF Synced, At
      <3> QED
        BY <1>4, <1>5, <3>2, <3>3 DEF MarkFirstTag
    <2>5. DepthAfter = 0
      BY <1>4, <1>10 DEF DepthAfter
    <2> QED
      BY <1>1, <1>5, <1>10, <2>3, <2>4, <2>5, Returns DEF At, b, n
  <1>11. CASE pos + 1 = n /\ piece.is = "bad_close"
    <2>1. TooFew(StreamClose)
      <3>1. ls - 1 > cnt
        BY <1>2, <1>3, <1>5, <1>9, <1>11
      <3> QED
        BY <3>1 DEF TooFew, ls
    <2>2. ret' = "err"
      BY <1>6, <1>7, <1>11, <2>1 DEF EndStream, LastEquals, Bail
    <2> QED
      BY <1>11, <2>2, Refuses DEF Malformed, n
  <1>12. CASE pos + 1 # n
    <2>1. Advance(b) /\ UNCHANGED <<tag_cnt, end_of_first_tag, state, quote, idx>>
      BY <1>6, <1>7, <1>12 DEF EndStream
    <2>2. At("EndStream", 1)' /\ pos' # 1
      BY <1>3, <1>4, <1>5, <2>1 DEF At
    <2>3. Midway'
      BY <1>1, <1>3, <2>2 DEF Midway
    <2> QED
      BY <1>1, <1>5, <1>12, <2>1, <2>3, InsidePiece DEF At, b, n
  <1> QED
    BY <1>10, <1>11, <1>12


\* A byte that begins no tag.
LEMMA BadFirstByte ==
    ASSUME FramingInv, NEW reader, PieceByte(reader), piece.is \in {"bad_first", "bad_child"}, pos # 0
    PROVE  FramingInv'
  <1> DEFINE b == piece.bytes[pos + 1]
             n == Len(piece.bytes)
  <1>1. /\ piece.is \in Opening /\ piece.is # "space" /\ piece.is \in Malformed
        /\ piece.is = "bad_first" => piece.is \in Outer
        /\ piece.is = "bad_child" => piece.is \in Inner
    BY DEF Opening, Malformed, Outer, Inner
  <1>2. /\ ReadByte(b, reader) /\ ShapeOf(piece.is, piece.bytes)
        /\ DepthInv /\ pos \in Nat /\ pos >= 1 /\ pos' = pos + 1 /\ n \in Nat /\ pos' \in 2..n
        /\ IF pos = 1 THEN FirstChar ELSE Midway
    BY <1>1, BehindOpening
  <1>3. /\ n = 2
        /\ piece.is = "bad_first" => piece.bytes[2] \in {Bang, Gt, Apos, Quot}
        /\ piece.is = "bad_child" => piece.bytes[2] \in {Quest, Gt, Apos, Quot}
    BY <1>2 DEF ShapeOf
  <1>4. pos = 1 /\ pos + 1 = n
    BY <1>2, <1>3
  <1>5. b = piece.bytes[2]
    BY <1>3, <1>4
  <1> HIDE DEF b, n
  <1>6. CASE piece.is = "bad_first"
    <2>1. state = "StanzaFirstChar"
      BY <1>1, <1>2, <1>4, <1>6 DEF FirstChar, At, DepthInv
    <2>2. StanzaFirstChar(b)
      BY <1>2, <2>1, ArmOf
    <2>3. b # Slash /\ b # Quest /\ b \in {Bang, Gt, Apos, Quot}
      BY <1>3, <1>5, <1>6, PlainBytes
    <2>4. ret' = "err"
      BY <2>2, <2>3 DEF StanzaFirstChar, Bail
    <2> QED
      BY <1>1, <1>4, <2>4, Refuses DEF n
  <1>7. CASE piece.is = "bad_child"
    <2>0. depth # 0
      BY <1>1, <1>2, <1>7 DEF DepthInv
    <2>1. state = "InsideTagFirstChar"
      BY <1>2, <1>4, <2>0 DEF FirstChar, At
    <2>2. InsideTagFirstChar(b)
      BY <1>2, <2>1, ArmOf
    <2>3. b # Slash /\ b # Bang /\ b \in {Quest, Gt, Apos, Quot}
      BY <1>3, <1>5, <1>7, PlainBytes
    <2>4. ret' = "err"
      BY <2>2, <2>3 DEF InsideTagFirstChar, Bail
    <2> QED
      BY <1>1, <1>4, <2>4, Refuses DEF n
  <1> QED
    BY <1>6, <1>7

\* "<//" inside a stanza.
LEMMA BadSlashesByte ==
    ASSUME FramingInv, NEW reader, PieceByte(reader), piece.is = "bad_slashes", pos \notin {0, 1}
    PROVE  FramingInv'
  <1> DEFINE b == piece.bytes[pos + 1]
             n == Len(piece.bytes)
  <1>1. /\ piece.is \in Opening /\ piece.is # "space" /\ piece.is \in Malformed
    BY DEF Opening, Malformed
  <1>2. /\ ReadByte(b, reader) /\ ShapeOf(piece.is, piece.bytes) /\ Midway
        /\ DepthInv /\ pos \in Nat /\ pos >= 1 /\ pos' = pos + 1 /\ n \in Nat /\ pos' \in 2..n
        /\ depth \in Nat
    BY <1>1, BehindOpening
  <1>3. n = 3 /\ piece.bytes[3] = Slash /\ depth <= 2
    BY <1>2 DEF ShapeOf, DepthInv
  <1>4. pos = 2 /\ pos + 1 = n
    BY <1>2, <1>3
  <1>5. b = Slash
    BY <1>3, <1>4
  <1> HIDE DEF b, n
  <1>6. At("InsideTagFirstChar", depth - 1)
    BY <1>1, <1>2, <1>4 DEF Midway, InEnd
  <1>7. InsideTagFirstChar(b)
    BY <1>2, <1>6, ArmOf DEF At
  <1>8. ~(tag_cnt >= 2)
    BY <1>2, <1>3, <1>6 DEF At
  <1>9. b # Bang /\ b \in {Slash} /\ b \notin {Quest, Gt, Apos, Quot}
    BY <1>5, PlainBytes
  <1>10. ret' = "err"
    BY <1>7, <1>8, <1>9 DEF InsideTagFirstChar, Bail
  <1> QED
    BY <1>1, <1>4, <1>10, Refuses DEF n

\* "</x/>" around a stanza, which would close one tag more than is open.
LEMMA BadEndByte ==
    ASSUME FramingInv, NEW reader, PieceByte(reader), piece.is = "bad_end", pos \notin {0, 1}
    PROVE  FramingInv'
  <1> DEFINE b == piece.bytes[pos + 1]
             n == Len(piece.bytes)
  <1>1. /\ piece.is \in Opening /\ piece.is # "space" /\ piece.is \in Malformed
    BY DEF Opening, Malformed
  <1>2. /\ ReadByte(b, reader) /\ ShapeOf(piece.is, piece.bytes) /\ Midway /\ PeerInv
        /\ DepthInv /\ pos \in Nat /\ pos >= 1 /\ pos' = pos + 1 /\ n \in Nat /\ pos' \in 2..n
        /\ piece.is \notin {"attribute", "empty", "text"}
        /\ piece' = piece /\ depth' = depth
    BY <1>1, BehindOpening
  <1>3. n = 5 /\ piece.bytes[3] = Letter /\ piece.bytes[4] = Slash /\ piece.bytes[5] = Gt /\ depth = 1
    BY <1>2 DEF ShapeOf, DepthInv
  <1>4. pos = 2 \/ pos = 3 \/ pos = 4
    BY <1>2, <1>3
  <1>5. At(IF pos = 2 THEN "InsideTagFirstChar" ELSE "InsideTag", 0)
    BY <1>1, <1>2, <1>3 DEF Midway, InEnd
  <1>6. Letter \notin {Slash, Bang, Quest, Gt, Apos, Quot} /\ Slash \notin {Gt, Apos, Quot}
    BY PlainBytes
  <1> HIDE DEF b, n
  <1>7. CASE pos = 2
    <2>1. b = Letter /\ pos + 1 # n /\ pos' = 3
      BY <1>2, <1>3, <1>7 DEF b
    <2>2. InsideTagFirstChar(b) /\ At("InsideTagFirstChar", 0)
      BY <1>2, <1>5, <1>7, ArmOf DEF At
    <2>3. Advance(b) /\ end_of_first_tag' = end_of_first_tag /\ At("InsideTag", 0)'
      BY <1>6, <2>1, <2>2 DEF InsideTagFirstChar, Goto, At
    <2>4. Midway'
      BY <1>1, <1>2, <1>3, <2>1, <2>3 DEF Midway, InEnd, At
    <2> QED
      BY <1>1, <1>7, <2>1, <2>2, <2>3, <2>4, InsidePiece DEF At, b, n
  <1>8. CASE pos = 3
    <2>1. b = Slash /\ pos + 1 # n /\ pos' = 4
      BY <1>2, <1>3, <1>8 DEF b
    <2>2. InsideTag(b, reader) /\ At("InsideTag", 0)
      BY <1>2, <1>5, <1>8, ArmOf DEF At
    <2>3. Advance(b) /\ end_of_first_tag' = end_of_first_tag /\ At("InsideTag", 0)'
      BY <1>6, <2>1, <2>2 DEF InsideTag, At
    <2>4. Midway'
      BY <1>1, <1>2, <1>3, <2>1, <2>3 DEF Midway, InEnd, At
    <2> QED
      BY <1>1, <1>8, <2>1, <2>2, <2>3, <2>4, InsidePiece DEF At, b, n
  <1>9. CASE pos = 4
    <2>1. b = Gt /\ pos + 1 = n
      BY <1>2, <1>3, <1>9 DEF b
    <2>2. InsideTag(b, reader) /\ At("InsideTag", 0)
      BY <1>2, <1>5, <1>9, ArmOf DEF At
    <2>3. sent[Len(sent)] = Slash
      <3>1. Len(sent) \in Nat /\ 4 \in 1..pos
        BY <1>2, <1>9 DEF PeerInv, SentInv
      <3>2. sent[Len(sent) - pos + 4] = piece.bytes[4]
        BY <1>1, <1>2, <3>1 DEF PeerInv, SentInv
      <3>3. Len(sent) - pos + 4 = Len(sent)
        BY <1>9, <3>1
      <3> QED
        BY <1>3, <3>2, <3>3
    <2>4. SelfClosing = 1
      <3>1. IsOpenOrNot(sent)
        BY <1>2, <1>3 DEF PeerInv, OpenInv
      <3> QED
        BY <1>1, <2>2, <2>3, <3>1, SeenInTag DEF At
    <2>5. tag_cnt < SelfClosing /\ ~(tag_cnt >= SelfClosing)
      BY <2>2, <2>4 DEF At
    <2>6. ret' = "err"
      BY <2>1, <2>2, <2>5, PlainBytes DEF InsideTag, Bail
    <2> QED
      BY <1>1, <2>1, <2>6, Refuses DEF n
  <1> QED
    BY <1>4, <1>7, <1>8, <1>9

\* "</![CDATA[" around a stanza, likewise.
LEMMA BadEndCDataByte ==
    ASSUME FramingInv, NEW reader, PieceByte(reader), piece.is = "bad_end_cdata", pos \notin {0, 1}
    PROVE  FramingInv'
  <1> DEFINE b == piece.bytes[pos + 1]
             n == Len(piece.bytes)
             lo == Len(CDataOpen)
  <1>1. /\ piece.is \in Opening /\ piece.is # "space" /\ piece.is \in Malformed
    BY DEF Opening, Malformed
  <1>2. /\ ReadByte(b, reader) /\ ShapeOf(piece.is, piece.bytes) /\ Midway /\ PeerInv
        /\ DepthInv /\ pos \in Nat /\ pos >= 1 /\ pos' = pos + 1 /\ n \in Nat /\ pos' \in 2..n
        /\ piece.is \notin {"attribute", "empty", "text"} /\ Len(sent) \in Nat
        /\ piece' = piece /\ depth' = depth /\ Base' = Base
        /\ state # "OutsideStanza" => cnt = Len(sent)
    BY <1>1, BehindOpening
  <1>3. n = lo + 3 /\ piece.bytes[3] = Bang /\ Holds(piece.bytes, 3, CDataOpen) /\ depth = 1
    BY <1>2 DEF ShapeOf, DepthInv
  <1>4. lo \in Nat \ {0}
    BY NeedleLengths
  <1>5. InEndCData /\ pos >= 2 /\ Base \in Int /\ Len(sent) = Base + pos
    <2>1. InEndCData
      BY <1>1, <1>2 DEF Midway
    <2>2. Base \in Int /\ Len(sent) = Base + pos
      BY <1>2 DEF Base
    <2> QED
      BY <1>2, <2>1, <2>2
  <1> HIDE DEF b, n, lo
  <1>6. CASE pos = 2
    <2>1. b = Bang /\ pos' = 3
      BY <1>2, <1>3, <1>6 DEF b
    <2>2. pos + 1 # n
      BY <1>3, <1>4, <1>6
    <2>3. At("InsideTagFirstChar", 0)
      BY <1>3, <1>5, <1>6 DEF InEndCData
    <2>4. InsideTagFirstChar(b) /\ cnt = Base + 2
      BY <1>2, <1>5, <1>6, <2>3, ArmOf DEF At
    <2>5. b # Slash /\ b \notin {Quest, Gt, Apos, Quot}
      BY <2>1, PlainBytes
    <2>6. /\ Advance(b) /\ end_of_first_tag' = end_of_first_tag
          /\ state' = "ExclamationTag" /\ idx' = cnt + lo /\ quote' = Nul /\ tag_cnt' = tag_cnt
      BY <2>1, <2>4, <2>5 DEF InsideTagFirstChar, NeedleEnd, lo
    <2>7. InEndCData'
      BY <1>2, <1>3, <2>1, <2>3, <2>4, <2>6 DEF InEndCData, Seeking, At, lo
    <2>8. Midway'
      BY <1>1, <1>2, <2>1, <2>7 DEF Midway
    <2> QED
      BY <1>1, <1>6, <2>2, <2>3, <2>6, <2>8, InsidePiece DEF At, b, n
  <1>7. CASE pos # 2
    <2>1. Seeking("ExclamationTag", 0, Base + 2 + lo)
      BY <1>3, <1>5, <1>7 DEF InEndCData, lo
    <2>2. ExclamationTag(b) /\ cnt = Base + pos
      BY <1>2, <1>5, <2>1, ArmOf DEF Seeking
    <2>3. CASE pos + 1 = n
      <3>1. idx = cnt /\ pos + 1 - lo = 3 /\ lo <= pos + 1
        BY <1>2, <1>3, <1>4, <1>5, <2>1, <2>2, <2>3 DEF Seeking
      <3>2. LastEquals(CDataOpen)
        <4>1. LastEquals(CDataOpen) <=> \A i \in 1..lo : piece.bytes[pos + 1 - lo + i] = CDataOpen[i]
          BY <1>1, <1>4, <2>1, <3>1, LastBytes DEF Seeking, lo
        <4>2. \A i \in 1..lo : piece.bytes[3 + i] = CDataOpen[i]
          BY <1>3 DEF Holds, lo
        <4> QED
          BY <3>1, <4>1, <4>2
      <3>3. tag_cnt = 0 /\ ~(tag_cnt >= 1)
        BY <2>1 DEF Seeking
      <3>4. ret' = "err"
        BY <2>2, <3>1, <3>2, <3>3 DEF ExclamationTag
      <3> QED
        BY <1>1, <2>3, <3>4, Refuses DEF n
    <2>4. CASE pos + 1 # n
      <3>1. idx # cnt /\ pos' # 1 /\ pos' # 2
        BY <1>2, <1>3, <1>4, <1>5, <2>1, <2>2, <2>4 DEF Seeking
      <3>2. Advance(b) /\ end_of_first_tag' = end_of_first_tag /\ UNCHANGED <<tag_cnt, state, quote, idx>>
        BY <2>2, <3>1 DEF ExclamationTag
      <3>3. InEndCData'
        BY <1>2, <1>3, <2>1, <3>1, <3>2 DEF InEndCData, Seeking, lo
      <3>4. Midway'
        BY <1>1, <1>2, <3>1, <3>3 DEF Midway
      <3> QED
        BY <1>1, <2>1, <2>4, <3>2, <3>4, InsidePiece DEF Seeking, b, n
    <2> QED
      BY <2>3, <2>4
  <1> QED
    BY <1>6, <1>7


\* Whichever piece it is, the next byte of it keeps the invariant.
LEMMA PieceByteKeeps ==
    ASSUME FramingInv, NEW reader \in Reader, PieceByte(reader)
    PROVE  FramingInv'
  <1>1. ShapeOf(piece.is, piece.bytes) /\ PeerInv
    BY DEF FramingInv, PeerInv
  <1>2. \/ piece.is \in {"attribute", "start", "empty", "text", "space"} \/ piece.is = "name"
        \/ piece.is = "end" \/ piece.is \in {"cdata", "bad_cdata"}
        \/ piece.is \in {"declaration", "bad_declaration"} \/ piece.is \in {"close", "bad_close"}
        \/ piece.is \in {"bad_first", "bad_child"} \/ piece.is = "bad_slashes"
        \/ piece.is = "bad_end" \/ piece.is = "bad_end_cdata"
    BY <1>1 DEF ShapeOf, InTag, Outer, Inner
  <1>3. CASE piece.is \in {"attribute", "start", "empty", "text", "space"}
    BY <1>3, AttributeByte, EndOfTagByte, TextByte, SpaceByte
  <1>4. ASSUME piece.is \notin {"attribute", "start", "empty", "text", "space"} PROVE piece.is \in Opening
    BY <1>2, <1>4 DEF Opening, Malformed
  <1>5. CASE piece.is \in Opening /\ pos = 0
    BY <1>5, OpeningByte
  <1>6. ASSUME pos # 0, piece.is \in {"cdata", "bad_cdata"} PROVE FramingInv'
    <2>1. CASE pos = 1
      BY <1>6, <2>1, BangByte
    <2>2. CASE pos # 1 /\ pos <= Len(CDataOpen) + 1
      BY <1>6, <2>2, CDataOpenByte
    <2>3. CASE pos # 1 /\ ~(pos <= Len(CDataOpen) + 1) /\ piece.is = "cdata"
      BY <1>6, <2>3, CDataByte
    <2>4. CASE ~(pos <= Len(CDataOpen) + 1) /\ piece.is = "bad_cdata"
      <3>1. piece.is # "space" /\ Len(piece.bytes) = Len(CDataOpen) + 2
        BY <1>1, <2>4 DEF ShapeOf
      <3>2. pos \in Nat /\ pos + 1 \in 1..Len(piece.bytes) /\ Len(CDataOpen) \in Nat
        BY <1>1, <3>1, SentGrows, NeedleLengths
      <3> QED
        BY <2>4, <3>1, <3>2
    <2> QED
      BY <1>6, <2>1, <2>2, <2>3, <2>4
  <1>7. ASSUME pos # 0, piece.is \in {"declaration", "bad_declaration"} PROVE FramingInv'
    <2>1. CASE pos = 1
      BY <1>7, <2>1, QuestByte
    <2>2. CASE pos # 1 /\ pos <= Len(XmlDecl) + 1
      BY <1>7, <2>2, XmlDeclByte
    <2>3. CASE pos # 1 /\ ~(pos <= Len(XmlDecl) + 1) /\ piece.is = "declaration"
      BY <1>7, <2>3, DeclarationByte
    <2>4. CASE ~(pos <= Len(XmlDecl) + 1) /\ piece.is = "bad_declaration"
      <3>1. piece.is # "space" /\ Len(piece.bytes) = Len(XmlDecl) + 2
        BY <1>1, <2>4 DEF ShapeOf
      <3>2. pos \in Nat /\ pos + 1 \in 1..Len(piece.bytes) /\ Len(XmlDecl) \in Nat
        BY <1>1, <3>1, SentGrows, NeedleLengths
      <3> QED
        BY <2>4, <3>1, <3>2
    <2> QED
      BY <1>7, <2>1, <2>2, <2>3, <2>4
  <1>8. ASSUME pos # 0, piece.is \in {"close", "bad_close"} PROVE FramingInv'
    BY <1>8, CloseSlashByte, CloseByte
  <1>9. ASSUME pos # 0, piece.is \in {"end", "bad_slashes", "bad_end", "bad_end_cdata"} PROVE FramingInv'
    BY <1>9, SlashByte, EndByte, BadSlashesByte, BadEndByte, BadEndCDataByte
  <1>10. ASSUME pos # 0, piece.is = "name" \/ piece.is \in {"bad_first", "bad_child"} PROVE FramingInv'
    BY <1>10, NameByte, BadFirstByte
  <1> QED
    BY <1>2, <1>3, <1>4, <1>5, <1>6, <1>7, <1>8, <1>9, <1>10

-----------------------------------------------------------------------------
(* The next piece.                                                         *)

\* Where the filter is when a piece is written.
LEMMA WrittenIsFinished ==
    ASSUME PeerInv, Config, Written
    PROVE  Finished
  <1>1. CASE pos = 0
    <2>1. Starting
      BY <1>1 DEF Config
    <2>2. ShapeOf(piece.is, piece.bytes) /\ Len(piece.bytes) = 0
      BY <1>1 DEF PeerInv, Written
    <2>3. piece.is \notin InTag /\ piece.is # "name" /\ piece.is # "end"
      <3>1. piece.is # "start" /\ piece.is # "empty"
        BY <2>2 DEF ShapeOf
      <3>2. piece.is # "attribute"
        <4>1. ~ \E k \in 1..(0 - 1) : TRUE
          OBVIOUS
        <4> QED
          BY <2>2, <4>1 DEF ShapeOf
      <3>3. piece.is \notin Opening
        BY <2>2 DEF ShapeOf
      <3> QED
        BY <3>1, <3>2, <3>3 DEF InTag, Opening
    <2>4. DepthAfter = depth
      BY <2>3 DEF DepthAfter, InTag
    <2>5. Place # "tag"
      BY <2>3 DEF Place, InTag
    <2> QED
      BY <2>1, <2>3, <2>4, <2>5 DEF Starting, Finished
  <1>2. CASE pos # 0
    BY <1>2 DEF Config
  <1> QED
    BY <1>1, <1>2

\* Beginning a piece where it may stand leaves the filter where it must be.
LEMMA BeginKeeps ==
    ASSUME FramingInv, NEW is, NEW bytes, Begin(is, bytes), PeerInv',
           is \in InTag <=> Place = "tag"
    PROVE  FramingInv'
  <1>1. /\ Written /\ piece'.is = is /\ pos' = 0 /\ depth' = DepthAfter
        /\ sent' = (IF Place = "outside" THEN <<>> ELSE sent)
        /\ first_end' = (IF Place = "outside" THEN 0 ELSE first_end)
        /\ ret' = "none" /\ out' = <<>> /\ out_eoft' = 0
        /\ UNCHANGED <<buf, cnt, tag_cnt, end_of_first_tag, state, quote, idx, fed, stale>>
    BY DEF Begin, NoStanza, filter
  <1>2. PeerInv /\ IndInv /\ Config /\ Synced
    BY DEF FramingInv, Begin
  <1>3. Finished
    BY <1>1, <1>2, WrittenIsFinished
  <1>4. /\ Place = "tag" => DepthAfter = depth
        /\ Place = "outside" => DepthAfter = 0
    BY <1>1, <1>2, PlaceFacts
  <1>5. Starting'
    BY <1>1, <1>3, <1>4 DEF Starting, Finished, Rest, At
  <1>6. Config'
    BY <1>1, <1>5 DEF Config
  <1>7. Synced'
    <2>1. state # "OutsideStanza" => Place # "outside"
      BY <1>3, <1>4 DEF Finished, Rest, At
    <2> QED
      BY <1>1, <1>2, <2>1 DEF Synced
  <1>8. StreamIsCutIntoStanzas'
    <2>1. Written' => piece'.is \notin Malformed /\ piece'.is \notin Closing
      <3>1. ShapeOf(piece.is, piece.bytes)'
        BY DEF PeerInv
      <3>2. Written' => Len(piece'.bytes) = 0
        BY <1>1 DEF Written
      <3>3. Written' => piece'.is \notin Opening /\ piece'.is # "start" /\ piece'.is # "empty"
        BY <3>1, <3>2 DEF ShapeOf
      <3> QED
        BY <3>3 DEF Opening, Closing
    <2>2. Expected' = "none"
      BY <1>1, <2>1 DEF Expected, Closing
    <2> QED
      BY <1>1, <2>2 DEF StreamIsCutIntoStanzas
  <1>9. IndInv'
    <2>1. TypeOK'
      BY <1>1, <1>2, EmptySeq, BufSizeAssumption DEF IndInv, TypeOK
    <2>2. RestInv' /\ FedInv' /\ PosInv' /\ MarkInv' /\ EoftInv'
      BY <1>1, <1>2 DEF IndInv, RestInv, FedInv, PosInv, MarkInv, EoftInv
    <2>3. StanzaIsWhatWasRead' /\ EndOfFirstTagIsInStanza'
      BY <1>1 DEF StanzaIsWhatWasRead, EndOfFirstTagIsInStanza
    <2> QED
      BY <2>1, <2>2, <2>3 DEF IndInv
  <1> QED
    BY <1>6, <1>7, <1>8, <1>9 DEF FramingInv


\* Every piece is begun where it may stand.
LEMMA NextPieceKeeps ==
    ASSUME FramingInv, NextPiece
    PROVE  FramingInv'
  <1>1. PeerInv /\ stream \in BOOLEAN
    BY DEF FramingInv, PeerInv, DepthInv
  <1>2. ASSUME NEW name \in Names, OpenTag(name) PROVE FramingInv'
    <2>1. /\ Begin("name", <<Lt>> \o name) /\ Place \in {"outside", "content"}
          /\ Place = "outside" => stream' = FALSE
          /\ Place # "outside" => stream' = stream
      BY <1>2 DEF OpenTag
    <2>2. "name" \notin InTag /\ "name" \notin Outer /\ "name" \notin Inner
      BY DEF InTag, Outer, Inner
    <2>3. PeerInv'
      BY <1>1, <2>1, <2>2, NameShape, PeerBegins
    <2> QED
      BY <2>1, <2>2, <2>3, BeginKeeps
  <1>3. ASSUME OpenStream PROVE FramingInv'
    <2>1. Begin("name", StreamOpen) /\ Place = "outside" /\ stream' = TRUE
      BY <1>3 DEF OpenStream
    <2>2. "name" \notin InTag /\ "name" \notin Outer /\ "name" \notin Inner
      BY DEF InTag, Outer, Inner
    <2>3. PeerInv'
      BY <1>1, <2>1, <2>2, StreamShape, PeerBegins
    <2> QED
      BY <2>1, <2>2, <2>3, BeginKeeps
  <1>4. ASSUME NEW a \in Attributes, Attribute(a) PROVE FramingInv'
    <2>1. PICK pre : /\ pre = <<>> \/ pre = <<" ">>
                     /\ Begin("attribute", pre \o a.name \o <<a.q>> \o a.value \o <<a.q>>)
      BY <1>4 DEF Attribute
    <2>2. Place = "tag" /\ stream' = stream
      BY <1>4 DEF Attribute
    <2>3. "attribute" \in InTag /\ "attribute" \notin Outer /\ "attribute" \notin Inner
      BY DEF InTag, Outer, Inner
    <2>4. ShapeOf("attribute", pre \o a.name \o <<a.q>> \o a.value \o <<a.q>>)
      BY <2>1, AttributeShape
    <2>5. PeerInv'
      BY <1>1, <2>1, <2>2, <2>3, <2>4, PeerBegins
    <2> QED
      BY <2>1, <2>2, <2>3, <2>5, BeginKeeps
  <1>5. ASSUME NEW is, NEW bytes, Begin(is, bytes), ShapeOf(is, bytes), is # "name",
               is \in InTag <=> Place = "tag", is \in Outer => Place = "outside",
               is \in Inner => Place = "content",
               is \in {"bad_end", "bad_end_cdata"} => DepthAfter = 1,
               is = "bad_slashes" => DepthAfter <= 2,
               stream' = stream \/ (stream' = FALSE /\ Place = "outside")
        PROVE  FramingInv'
    <2>1. PeerInv'
      BY <1>1, <1>5, PeerBegins
    <2> QED
      BY <1>5, <2>1, BeginKeeps
  <1>6. ASSUME EndOfTag PROVE FramingInv'
    <2>1. Place = "tag" /\ stream' = stream /\ (Begin("start", <<Gt>>) \/ Begin("empty", <<Slash, Gt>>))
      BY <1>6 DEF EndOfTag
    <2>2. \A is \in {"start", "empty"} : is \in InTag /\ is \notin Outer /\ is \notin Inner
      BY DEF InTag, Outer, Inner
    <2> QED
      BY <1>5, <2>1, <2>2, ShortShapes
  <1>7. ASSUME Content PROVE FramingInv'
    <2>1. /\ Place = "content" /\ stream' = stream
          /\ \/ \E text \in Texts : Begin("text", text)
             \/ \E text \in CDatas : Begin("cdata", CData(text))
             \/ \E name \in Names : Begin("end", <<Lt, Slash>> \o name \o <<Gt>>)
      BY <1>7 DEF Content
    <2>2. \A is \in {"text", "cdata", "end"} : is \notin InTag /\ is \notin Outer
      BY DEF InTag, Outer
    <2>3. ASSUME NEW text \in Texts, Begin("text", text) PROVE FramingInv'
      BY <1>5, <2>1, <2>2, <2>3, ShortShapes
    <2>4. ASSUME NEW text \in CDatas, Begin("cdata", CData(text)) PROVE FramingInv'
      BY <1>5, <2>1, <2>2, <2>4, CDataShape
    <2>5. ASSUME NEW name \in Names, Begin("end", <<Lt, Slash>> \o name \o <<Gt>>) PROVE FramingInv'
      BY <1>5, <2>1, <2>2, <2>5, EndShape
    <2> QED
      BY <2>1, <2>3, <2>4, <2>5
  <1>8. ASSUME Framing PROVE FramingInv'
    <2>1. /\ Place = "outside" /\ stream' = FALSE
          /\ \/ Begin("close", StreamClose)
             \/ \E text \in Declarations : Begin("declaration", <<Lt, Quest>> \o XmlDecl \o text \o <<Gt>>)
             \/ \E x \in {Letter, Gt, Slash} : Begin("space", <<x>>)
      BY <1>8 DEF Framing
    <2>2. \A is \in {"close", "declaration", "space"} : is \notin InTag /\ is \notin Inner
      BY DEF InTag, Inner
    <2>3. ASSUME Begin("close", StreamClose) PROVE FramingInv'
      BY <1>5, <2>1, <2>2, <2>3, CloseShape
    <2>4. ASSUME NEW text \in Declarations, Begin("declaration", <<Lt, Quest>> \o XmlDecl \o text \o <<Gt>>)
          PROVE  FramingInv'
      BY <1>5, <2>1, <2>2, <2>4, DeclarationShape
    <2>5. ASSUME NEW x \in {Letter, Gt, Slash}, Begin("space", <<x>>) PROVE FramingInv'
      BY <1>5, <2>1, <2>2, <2>5, ShortShapes
    <2> QED
      BY <2>1, <2>3, <2>4, <2>5
  <1>9. ASSUME WriteMalformed PROVE FramingInv'
    <2>1. stream' = stream
      BY <1>9 DEF WriteMalformed
    <2>2. /\ \A is \in {"bad_first", "bad_declaration", "bad_close"} : is \notin InTag /\ is \notin Inner
          /\ \A is \in {"bad_child", "bad_cdata", "bad_slashes", "bad_end", "bad_end_cdata"} :
                is \notin InTag /\ is \notin Outer
      BY DEF InTag, Outer, Inner
    <2>3. CASE Place = "outside"
      <3>1. \/ \E x \in {Bang, Gt, Apos, Quot} : Begin("bad_first", <<Lt, x>>)
            \/ Begin("bad_declaration", <<Lt, Quest>> \o [i \in 1..Len(XmlDecl) |-> Letter])
            \/ Begin("bad_close", <<Lt, Slash, Letter, Gt>>)
        BY <1>9, <2>3 DEF WriteMalformed
      <3>2. ASSUME NEW x \in {Bang, Gt, Apos, Quot}, Begin("bad_first", <<Lt, x>>) PROVE FramingInv'
        BY <1>5, <2>1, <2>2, <2>3, <3>2, BadOuterShapes
      <3>3. ASSUME Begin("bad_declaration", <<Lt, Quest>> \o [i \in 1..Len(XmlDecl) |-> Letter])
            PROVE  FramingInv'
        BY <1>5, <2>1, <2>2, <2>3, <3>3, BadOuterShapes
      <3>4. ASSUME Begin("bad_close", <<Lt, Slash, Letter, Gt>>) PROVE FramingInv'
        BY <1>5, <2>1, <2>2, <2>3, <3>4, BadOuterShapes
      <3> QED
        BY <3>1, <3>2, <3>3, <3>4
    <2>4. CASE Place = "content"
      <3>1. \/ \E x \in {Quest, Gt, Apos, Quot} : Begin("bad_child", <<Lt, x>>)
            \/ Begin("bad_cdata", <<Lt, Bang>> \o [i \in 1..Len(CDataOpen) |-> Letter])
            \/ DepthAfter <= 2 /\ Begin("bad_slashes", <<Lt, Slash, Slash>>)
            \/ DepthAfter = 1 /\ Begin("bad_end", <<Lt, Slash, Letter, Slash, Gt>>)
            \/ DepthAfter = 1 /\ Begin("bad_end_cdata", <<Lt, Slash, Bang>> \o CDataOpen)
        BY <1>9, <2>4 DEF WriteMalformed
      <3>2. ASSUME NEW x \in {Quest, Gt, Apos, Quot}, Begin("bad_child", <<Lt, x>>) PROVE FramingInv'
        BY <1>5, <2>1, <2>2, <2>4, <3>2, BadInnerShapes
      <3>3. ASSUME Begin("bad_cdata", <<Lt, Bang>> \o [i \in 1..Len(CDataOpen) |-> Letter])
            PROVE  FramingInv'
        BY <1>5, <2>1, <2>2, <2>4, <3>3, BadInnerShapes
      <3>4. ASSUME DepthAfter <= 2, Begin("bad_slashes", <<Lt, Slash, Slash>>) PROVE FramingInv'
        BY <1>5, <2>1, <2>2, <2>4, <3>4, BadInnerShapes
      <3>5. ASSUME DepthAfter = 1, Begin("bad_end", <<Lt, Slash, Letter, Slash, Gt>>) PROVE FramingInv'
        BY <1>5, <2>1, <2>2, <2>4, <3>5, BadInnerShapes
      <3>6. ASSUME DepthAfter = 1, Begin("bad_end_cdata", <<Lt, Slash, Bang>> \o CDataOpen) PROVE FramingInv'
        BY <1>5, <2>1, <2>2, <2>4, <3>6, BadInnerShapes
      <3> QED
        BY <3>1, <3>2, <3>3, <3>4, <3>5, <3>6
    <2> QED
      BY <1>9, <2>3, <2>4 DEF WriteMalformed
  <1> QED
    BY <1>2, <1>3, <1>4, <1>6, <1>7, <1>8, <1>9 DEF NextPiece

-----------------------------------------------------------------------------
(* The theorem.                                                            *)

\* The invariant holds as the reader starts.
LEMMA FInitHolds ==
    ASSUME FInit
    PROVE  FramingInv
  <1>1. /\ piece.is = "space" /\ piece.bytes = <<>> /\ pos = 0 /\ depth = 0 /\ stream = FALSE
        /\ sent = <<>> /\ first_end = 0 /\ Init
    BY DEF FInit
  <1>2. IndInv
    BY <1>1, InitHolds
  <1>3. sent \in Seq(Byte) /\ Len(sent) = 0 /\ Len(piece.bytes) = 0
    BY <1>1, EmptySeq
  <1>4. "space" \in Outer /\ "space" \notin Inner /\ "space" \notin InTag /\ "space" \notin Malformed
    BY DEF Outer, Inner, InTag, Malformed
  <1>5. PeerInv
    <2>1. ShapeOf(piece.is, piece.bytes)
      BY <1>1, ShortShapes
    <2>2. DepthInv
      BY <1>1, <1>4 DEF DepthInv
    <2>3. OpenInv
      BY <1>1, <1>4 DEF OpenInv
    <2>4. SentInv
      BY <1>1, <1>3, <1>4 DEF SentInv
    <2> QED
      BY <2>1, <2>2, <2>3, <2>4 DEF PeerInv
  <1>6. Expected = "none"
    BY <1>1, <1>4 DEF Expected
  <1>7. state = "OutsideStanza" /\ tag_cnt = 0 /\ quote = Nul /\ idx = 0 /\ ret = "none"
    BY <1>1 DEF Init
  <1>8. Config /\ Synced /\ StreamIsCutIntoStanzas
    BY <1>1, <1>4, <1>6, <1>7 DEF Config, Starting, Rest, At, Synced, StreamIsCutIntoStanzas
  <1> QED
    BY <1>2, <1>5, <1>8 DEF FramingInv


\* A step of the peer or of the reader keeps the invariant.
LEMMA FNextKeeps == FramingInv /\ [FNext]_fvars => FramingInv'
  <1> SUFFICES ASSUME FramingInv, [FNext]_fvars PROVE FramingInv'
    OBVIOUS
  <1>1. CASE NextPiece
    BY <1>1, NextPieceKeeps
  <1>2. ASSUME NEW reader \in Reader, PieceByte(reader) PROVE FramingInv'
    BY <1>2, PieceByteKeeps
  <1>3. CASE UNCHANGED fvars
    <2>1. /\ UNCHANGED <<buf, cnt, tag_cnt, end_of_first_tag, state, quote, idx>>
          /\ UNCHANGED <<ret, out, out_eoft, fed, stale>>
          /\ UNCHANGED <<piece, pos, depth, stream, sent, first_end>>
      BY <1>3 DEF fvars, vars
    <2>2. IndInv'
      <3>1. TypeOK'
        BY <2>1 DEF FramingInv, IndInv, TypeOK
      <3>2. RestInv' /\ FedInv' /\ PosInv' /\ MarkInv' /\ EoftInv'
        BY <2>1 DEF FramingInv, IndInv, RestInv, FedInv, PosInv, MarkInv, EoftInv
      <3>3. StanzaIsWhatWasRead' /\ EndOfFirstTagIsInStanza'
        BY <2>1 DEF FramingInv, IndInv, StanzaIsWhatWasRead, EndOfFirstTagIsInStanza
      <3> QED
        BY <3>1, <3>2, <3>3 DEF IndInv
    <2>3. Written' = Written /\ DepthAfter' = DepthAfter
      BY <2>1 DEF Written, DepthAfter
    <2>4. Place' = Place
      BY <2>1, <2>3 DEF Place
    <2>5. PeerInv'
      <3>1. ShapeOf(piece.is, piece.bytes)'
        BY <2>1 DEF FramingInv, PeerInv, ShapeOf, Holds, NoCDataClose
      <3>2. DepthInv'
        BY <2>1, <2>3 DEF FramingInv, PeerInv, DepthInv
      <3>3. OpenInv' /\ SentInv'
        BY <2>1 DEF FramingInv, PeerInv, OpenInv, IsOpenOrNot, StartsWithOpen, DiffersFromOpen, SentInv
      <3> QED
        BY <3>1, <3>2, <3>3 DEF PeerInv
    <2>6. Expected' = Expected
      BY <2>1, <2>3 DEF Expected
    <2>7. StreamIsCutIntoStanzas'
      BY <2>1, <2>6 DEF FramingInv, StreamIsCutIntoStanzas
    <2>8. Synced => Synced'
      BY <2>1 DEF Synced
    <2>9. Config => Config'
      <3>1. (Starting => Starting') /\ (Finished => Finished')
        BY <2>1, <2>3, <2>4 DEF Starting, Finished, Rest, At
      <3>2. (InAttribute => InAttribute') /\ (InEnd => InEnd') /\ (FirstChar => FirstChar')
        BY <2>1 DEF InAttribute, InEnd, FirstChar, At
      <3>3. (InEndCData => InEndCData') /\ (InCData => InCData') /\ (InDeclaration => InDeclaration')
        BY <2>1 DEF InEndCData, InCData, InDeclaration, At, Seeking, Base
      <3>4. Midway => Midway'
        BY <2>1, <3>2, <3>3 DEF Midway, At
      <3> QED
        BY <2>1, <2>3, <3>1, <3>4 DEF Config
    <2> QED
      BY <2>1, <2>2, <2>5, <2>7, <2>8, <2>9 DEF FramingInv
  <1> QED
    BY <1>1, <1>2, <1>3 DEF FNext

\* Fed any stream of pieces, well-formed or with one that is not, the reader
\* returns each top-level stanza whole and alone at its last byte, with the
\* position of the '>' of its first tag, says nothing of what stands between,
\* and refuses what is malformed or too long at the byte that shows it.
THEOREM CutIntoStanzas == FSpec => []StreamIsCutIntoStanzas
  <1>1. FInit => FramingInv
    BY FInitHolds
  <1>2. FramingInv /\ [FNext]_fvars => FramingInv'
    BY FNextKeeps
  <1>3. FramingInv => StreamIsCutIntoStanzas
    BY DEF FramingInv
  <1> QED
    BY <1>1, <1>2, <1>3, PTL DEF FSpec
=============================================================================
