---------------------------- MODULE StanzaFraming ----------------------------
(***************************************************************************)
(* What the splitter is for: fed the bytes of a stream, it returns its      *)
(* top-level stanzas one by one, however deep they are nested and whatever  *)
(* '>', '/>' or quote their attributes, text and CDATA hold.                *)
(*                                                                         *)
(* The peer here writes XML one piece at a time, choosing each piece when   *)
(* the one before is written, and one byte at a time; the filter does not   *)
(* know where a piece ends.  Some pieces are malformed.                     *)
(***************************************************************************)
EXTENDS StanzaFilter

CONSTANTS
    Plain,         \* bytes that mean nothing to the filter
    Letter,        \* one of them
    Names,         \* names of elements
    Attributes,    \* attributes: [name, q, value], q the quote around the value
    Texts,         \* what may stand between tags
    CDatas,        \* what may stand in a CDATA section
    Declarations,  \* the rest of an XML declaration
    MaxPieces      \* bound: pieces of one stream

CData(text) == <<Lt, Bang>> \o CDataOpen \o text \o CDataClose

\* A name is not the beginning of "<stream:stream " nor begins with it, a value
\* does not hold its quote, and CDATA ends at the first "]]>".
ASSUME FramingAssumption ==
    /\ Plain \subseteq Byte \ {Lt, Gt, Slash, Bang, Quest, Apos, Quot}
    /\ {" ", Letter} \subseteq Plain
    /\ \A needle \in {XmlDecl, CDataOpen} : \E i \in DOMAIN needle : needle[i] # Letter
    /\ Len(StreamOpen) >= 2 /\ StreamOpen[1] = Lt
    /\ \A i \in 2..Len(StreamOpen) : StreamOpen[i] \in Plain
    /\ Len(StreamClose) > 4 /\ StreamClose[1] = Lt /\ StreamClose[2] = Slash
    /\ \A i \in 3..Len(StreamClose) : StreamClose[i] = Gt <=> i = Len(StreamClose)
    /\ CDataClose[Len(CDataClose)] = Gt
    /\ \A name \in Names :
          /\ name \in Seq(Plain)
          /\ \E i \in DOMAIN name : i + 1 <= Len(StreamOpen) /\ name[i] # StreamOpen[i + 1]
    /\ \A a \in Attributes :
          /\ a.name \in Seq(Plain) /\ a.q \in {Apos, Quot} /\ a.value \in Seq(Byte)
          /\ \A i \in DOMAIN a.value : a.value[i] # a.q
    /\ \A text \in Texts : text \in Seq(Byte) /\ \A i \in DOMAIN text : text[i] # Lt
    /\ \A text \in CDatas :
          /\ text \in Seq(Byte)
          /\ \A i \in (Len(CDataOpen) + 3)..(Len(CData(text)) - 1) :
                \E j \in DOMAIN CDataClose : CData(text)[i - Len(CDataClose) + j] # CDataClose[j]
    /\ \A text \in Declarations : text \in Seq(Byte) /\ \A i \in DOMAIN text : text[i] # Gt
    /\ MaxPieces \in Nat

VARIABLES
    piece,         \* the piece being written: what it is, and its bytes
    pos,           \* how many bytes of it were read
    depth,         \* how many elements are open around it
    stream,        \* the stanza is a <stream:stream ...>
    sent,          \* the bytes of the stanza that were read
    first_end,     \* where its first tag ends; 0 until then
    item,          \* its first tag: [tag, lacks, attrs]
    pieces         \* how many pieces were begun

peer == <<piece, pos, depth, stream, sent, first_end, item, pieces>>
fvars == <<vars, piece, pos, depth, stream, sent, first_end, item, pieces>>

\* A stanza's first tag: its length without '>' or '/>', the namespaces it uses
\* and does not declare, and its attributes.
NoTag == [tag |-> 0, lacks |-> {}, attrs |-> <<>>]

FInit ==
    /\ Init
    /\ piece = [is |-> "space", bytes |-> <<>>] /\ pos = 0 /\ depth = 0
    /\ stream = FALSE /\ sent = <<>> /\ first_end = 0 /\ item = NoTag /\ pieces = 0

-----------------------------------------------------------------------------
(* Where the peer is when the piece is written.                            *)

Written == pos = Len(piece.bytes)

\* <stream:stream ...> is a stanza of its own, although nothing closes it.
DepthAfter ==
    CASE piece.is = "start" /\ ~stream -> depth + 1
      [] piece.is = "end" -> depth - 1
      [] OTHER -> depth
Place == IF piece.is \in {"name", "attribute"} THEN "tag"
         ELSE IF DepthAfter = 0 THEN "outside" ELSE "content"

Malformed == {"bad_first", "bad_declaration", "bad_close", "bad_child", "bad_cdata",
              "bad_slashes", "bad_end", "bad_end_cdata"}

-----------------------------------------------------------------------------
(* The pieces.  Names, spaces and '=' are ordinary bytes to the filter:     *)
(* they are left out where nothing looks at them, and a single byte where   *)
(* the rest of the proxy does.                                             *)

Begin(is, bytes) ==
    /\ Written /\ ret # "err" /\ pieces < MaxPieces
    /\ piece' = [is |-> is, bytes |-> bytes] /\ pos' = 0 /\ pieces' = pieces + 1
    /\ depth' = DepthAfter
    /\ sent' = IF Place = "outside" THEN <<>> ELSE sent
    /\ first_end' = IF Place = "outside" THEN 0 ELSE first_end
    /\ ret' = "none"
    /\ NoStanza
    /\ UNCHANGED <<filter, fed, stale>>

\* "<name", of a stanza or of an element in it.
OpenTag(name) ==
    /\ Place \in {"outside", "content"}
    /\ Begin("name", <<Lt>> \o name)
    /\ \/ /\ Place = "outside"
          /\ stream' = FALSE
          /\ item' = [NoTag EXCEPT !.lacks = {"xmlns"} \union
                                     IF name[1] = "stream:" THEN {"stream"} ELSE {}]
       \/ Place = "content" /\ UNCHANGED <<stream, item>>

OpenStream ==
    /\ Place = "outside"
    /\ Begin("name", StreamOpen)
    /\ stream' = TRUE /\ item' = NoTag

\* An attribute; those of a stanza's first tag are there once each.
Attribute(a) ==
    /\ Place = "tag"
    /\ Begin("attribute", (IF sent = StreamOpen THEN <<>> ELSE <<" ">>)
                             \o a.name \o <<a.q>> \o a.value \o <<a.q>>)
    /\ \/ /\ first_end = 0
          /\ \A i \in DOMAIN item.attrs : item.attrs[i].name # a.name
          /\ item' = [item EXCEPT !.attrs = Append(@, a),
                                  !.lacks = @ \ ((IF a.name = <<"xmlns=">> THEN {"xmlns"} ELSE {})
                                     \union (IF a.name = <<"xmlns:stream=">> THEN {"stream"} ELSE {}))]
       \/ first_end # 0 /\ UNCHANGED item
    /\ UNCHANGED stream

EndOfTag ==
    /\ Place = "tag"
    /\ Begin("start", <<Gt>>) \/ Begin("empty", <<Slash, Gt>>)
    /\ item' = IF first_end = 0 THEN [item EXCEPT !.tag = Len(sent)] ELSE item
    /\ UNCHANGED stream

\* Text may hold any byte but '<'; CDATA any byte.
Content ==
    /\ Place = "content"
    /\ \/ \E text \in Texts : Begin("text", text)
       \/ \E text \in CDatas : Begin("cdata", CData(text))
       \/ \E name \in Names : Begin("end", <<Lt, Slash>> \o name \o <<Gt>>)
    /\ UNCHANGED <<stream, item>>

\* What else stands between stanzas; "space" is such as a whitespace ping.
Framing ==
    /\ Place = "outside"
    /\ \/ Begin("close", StreamClose)
       \/ \E text \in Declarations : Begin("declaration", <<Lt, Quest>> \o XmlDecl \o text \o <<Gt>>)
       \/ \E x \in {Letter, Gt, Slash} : Begin("space", <<x>>)
    /\ stream' = FALSE /\ item' = NoTag

\* Byte strings whose last byte makes them something no stream may hold.  (The
\* filter counts tags and does not match them: the last three, deeper inside a
\* stanza, are not seen.)
WriteMalformed ==
    /\ \/ /\ Place = "outside"
          /\ \/ \E x \in {Bang, Gt, Apos, Quot} : Begin("bad_first", <<Lt, x>>)
             \/ Begin("bad_declaration", <<Lt, Quest>> \o [i \in 1..Len(XmlDecl) |-> Letter])
             \/ Begin("bad_close", <<Lt, Slash, Letter, Gt>>)
       \/ /\ Place = "content"
          /\ \/ \E x \in {Quest, Gt, Apos, Quot} : Begin("bad_child", <<Lt, x>>)
             \/ Begin("bad_cdata", <<Lt, Bang>> \o [i \in 1..Len(CDataOpen) |-> Letter])
             \/ DepthAfter <= 2 /\ Begin("bad_slashes", <<Lt, Slash, Slash>>)
             \/ DepthAfter = 1 /\ Begin("bad_end", <<Lt, Slash, Letter, Slash, Gt>>)
             \/ DepthAfter = 1 /\ Begin("bad_end_cdata", <<Lt, Slash, Bang>> \o CDataOpen)
    /\ UNCHANGED <<stream, item>>

\* The peer goes on to another piece once this one is written.
NextPiece ==
    \/ \E name \in Names : OpenTag(name)
    \/ OpenStream
    \/ \E a \in Attributes : Attribute(a)
    \/ EndOfTag
    \/ Content
    \/ Framing
    \/ WriteMalformed

PieceByte(reader) ==
    /\ ~Written /\ ret # "err"
    /\ ReadByte(piece.bytes[pos + 1], reader)
    /\ pos' = pos + 1
    /\ sent' = IF piece.is = "space" THEN sent ELSE Append(sent, piece.bytes[pos + 1])
    /\ first_end' = IF first_end = 0 /\ pos + 1 = Len(piece.bytes) /\ piece.is \in {"start", "empty", "close"}
                    THEN Len(sent) ELSE first_end
    /\ UNCHANGED <<piece, depth, stream, item, pieces>>

FNext == NextPiece \/ \E reader \in Reader : PieceByte(reader)

FSpec == FInit /\ [][FNext]_fvars

-----------------------------------------------------------------------------
\* What the reader must have returned by now: nothing inside a stanza; at its
\* last byte the whole of it, or an error at the byte that shows it to be
\* malformed; and an error at the byte that fills the buffer before it ended.
Expected ==
    CASE pos = 0 \/ piece.is = "space" -> "none"
      [] Written /\ piece.is \in Malformed -> "err"
      [] Written /\ piece.is \in {"start", "empty", "end", "close", "declaration"} /\ DepthAfter = 0 -> "stanza"
      [] OTHER -> IF Len(sent) = BufSize THEN "err" ELSE "none"

\* A stream is cut exactly at its top-level stanzas: the reader returns each
\* one whole and alone at its last byte, with the position of the '>' that
\* ends its first tag; it keeps quiet about what stands between them; and it
\* refuses malformed or too long ones at the byte that shows it.  This is what
\* process_stanza_byte_single_char (stanzafilter.rs:250) tries on one stream.
StreamIsCutIntoStanzas ==
    /\ ret = Expected
    /\ ret = "stanza" =>
          /\ out = sent
          /\ ~stale => {out_eoft, end_of_first_tag} = {0, first_end}
=============================================================================
