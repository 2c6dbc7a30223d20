---------------------------- MODULE StanzaFilter ----------------------------
(***************************************************************************)
(* The stanza splitter of src/src/stanzafilter.rs: a byte-at-a-time state  *)
(* machine that cuts a stream into stanzas without an XML parser, and the  *)
(* StanzaReader that feeds it.  One action is one byte read into the       *)
(* buffer and processed.                                                   *)
(*                                                                         *)
(* The byte values the code tests for and the byte strings it compares     *)
(* with are parameters: what is proved holds for the real ones, and TLC    *)
(* uses shorter strings of the same shape.                                 *)
(*                                                                         *)
(* A filter outlives the stream it reads: xmpp-proxy hands one filter from *)
(* one reader to the next, and keeps polling it after an error.  So an     *)
(* error, or the end of a stream, is a result (ret) and not the end of the *)
(* behaviour; only the panic is.                                           *)
(***************************************************************************)
EXTENDS Integers, Sequences

CONSTANTS
    Byte,                        \* the values of a u8 the model tells apart
    Input,                       \* the bytes a peer sends
    Nul, Lt, Gt, Slash, Bang, Quest, Apos, Quot,
    XmlDecl,                     \* b"xml "
    CDataOpen,                   \* b"[CDATA["
    CDataClose,                  \* b"]]>"
    StreamOpen,                  \* b"<stream:stream "
    StreamClose,                 \* b"</stream:stream>"
    BufSize,                     \* max_stanza_size_bytes
    Scratch                      \* what the callers put in the buffer between stanzas

ASSUME BytesAssumption ==
    /\ Input \subseteq Byte
    /\ {Nul, Lt, Gt, Slash, Bang, Quest, Apos, Quot} \subseteq Byte
    /\ Lt \notin {Nul, Gt, Slash, Bang, Quest, Apos, Quot}
    /\ Gt \notin {Nul, Slash, Bang, Quest, Apos, Quot}
    /\ Slash \notin {Nul, Bang, Quest, Apos, Quot}
    /\ Apos \notin {Nul, Bang, Quest, Quot}
    /\ Quot \notin {Nul, Bang, Quest}
    /\ Bang \notin {Nul, Quest}
    /\ Quest # Nul

ASSUME NeedlesAssumption ==
    /\ \A needle \in {XmlDecl, CDataOpen, CDataClose, StreamOpen, StreamClose} :
          needle \in Seq(Byte) /\ needle # <<>>
    /\ \A i \in DOMAIN StreamOpen : StreamOpen[i] # Gt
    /\ Len(CDataClose) <= Len(CDataOpen) + 3

ASSUME BufSizeAssumption == BufSize \in Nat \ {0}

ASSUME ScratchAssumption == Scratch \subseteq Seq(Byte)

VARIABLES
    buf,                \* StanzaFilter.buf, including bytes of earlier stanzas
    cnt,                \* StanzaFilter.cnt: where the next byte goes
    tag_cnt,            \* StanzaFilter.tag_cnt: open tags
    end_of_first_tag,   \* StanzaFilter.end_of_first_tag
    state,              \* StanzaFilter.state, the name of the variant
    quote,              \* the u8 of InsideAttribute
    idx,                \* the usize of QuestionTag and ExclamationTag
    ret,                \* what the last call of the reader came to
    out,                \* the slice returned with the last stanza
    out_eoft,           \* the end_of_first_tag returned with it
    fed,                \* history: the bytes of the stanza being read
    stale               \* history: end_of_first_tag was set when it began

filter == <<buf, cnt, tag_cnt, end_of_first_tag, state, quote, idx>>
vars == <<buf, cnt, tag_cnt, end_of_first_tag, state, quote, idx,
          ret, out, out_eoft, fed, stale>>

StanzaState ==
    {"OutsideStanza", "StanzaFirstChar", "InsideTagFirstChar", "InsideTag",
     "InsideAttribute", "BetweenTags", "ExclamationTag", "InsideCDATA",
     "QuestionTag", "InsideXmlTag", "EndStream"}

\* The two ways to read: StanzaReader::next leaves end_of_first_tag alone,
\* StanzaReader::next_eoft returns it and sets it back to 0.
Reader == {"next", "next_eoft"}

Init ==
    /\ buf = [i \in 0..(BufSize - 1) |-> Nul]
    /\ cnt = 0
    /\ tag_cnt = 0
    /\ end_of_first_tag = 0
    /\ state = "OutsideStanza"
    /\ quote = Nul
    /\ idx = 0
    /\ ret = "none"
    /\ out = <<>>
    /\ out_eoft = 0
    /\ fed = <<>>
    /\ stale = FALSE

-----------------------------------------------------------------------------
(* What the arms of process_next_byte_idx are made of.                     *)

\* last_num_bytes fails when the buffer holds fewer bytes than the needle.
TooFew(needle) == Len(needle) - 1 > cnt

\* last_equals: the bytes up to and including the one just read.
LastEquals(needle) ==
    /\ ~TooFew(needle)
    /\ \A i \in 1..Len(needle) : buf'[cnt - Len(needle) + i] = needle[i]

\* A mutant: the slice starts at 1.
BufStartsStreamOpen_Shifted ==
    /\ BufSize > Len(StreamOpen)
    /\ \A i \in 1..Len(StreamOpen) : buf'[i] = StreamOpen[i]

\* The test for <stream:stream, on the first bytes of the whole buffer.
BufStartsStreamOpen ==
    /\ BufSize >= Len(StreamOpen)
    /\ \A i \in 1..Len(StreamOpen) : buf'[i - 1] = StreamOpen[i]

NoStanza == out' = <<>> /\ out_eoft' = 0

\* Mutants: the refused byte is counted; the refused stanza is dropped.
Bail_Counts == /\ ret' = "err"
               /\ NoStanza
               /\ cnt' = cnt + 1
               /\ UNCHANGED <<tag_cnt, state, quote, idx, fed, stale>>
Bail_Drops == /\ ret' = "err"
              /\ NoStanza
              /\ cnt' = 0 /\ tag_cnt' = 0 /\ state' = "OutsideStanza"
              /\ UNCHANGED <<quote, idx, fed, stale>>

\* bail!: nothing of the filter changes, the byte read is overwritten by the
\* next one.
Bail == /\ ret' = "err"
        /\ NoStanza
        /\ UNCHANGED <<cnt, tag_cnt, state, quote, idx, fed, stale>>

\* The end of process_next_byte_idx: count the byte, refuse to fill the buffer.
Advance(b) == /\ cnt' = cnt + 1
              /\ ret' = IF cnt + 1 = BufSize THEN "err" ELSE "none"
              /\ fed' = Append(fed, b)
              /\ NoStanza
              /\ UNCHANGED stale

\* stanza_end, and what the reader then does with end_of_first_tag.
StanzaEnd(b, reader, eoft) ==
    /\ ret' = "stanza"
    /\ out' = [i \in 1..(cnt + 1) |-> buf'[i - 1]]
    /\ out_eoft' = IF reader = "next_eoft" THEN eoft ELSE 0
    /\ end_of_first_tag' = IF reader = "next_eoft" THEN 0 ELSE eoft
    /\ tag_cnt' = 0
    /\ cnt' = 0
    /\ state' = "OutsideStanza"
    /\ quote' = Nul
    /\ idx' = 0
    /\ fed' = Append(fed, b)
    /\ UNCHANGED stale

Goto(s) == state' = s /\ quote' = Nul /\ idx' = 0

\* QuestionTag(self.cnt + 4), ExclamationTag(self.cnt + 7): where the needle's
\* last byte will be.  A mutant: one byte early.
NeedleEnd_Early(needle) == cnt + Len(needle) - 1
NeedleEnd(needle) == cnt + Len(needle)

\* Mutants: the position after the '>'; the position of the last '>'.
MarkFirstTag_After == IF end_of_first_tag = 0 THEN cnt + 1 ELSE end_of_first_tag
MarkFirstTag_Last == cnt

\* if self.end_of_first_tag == 0 { self.end_of_first_tag = self.cnt; }
MarkFirstTag == IF end_of_first_tag = 0 THEN cnt ELSE end_of_first_tag

-----------------------------------------------------------------------------
(* The arms of the match in process_next_byte_idx.                         *)

OutsideStanza(b) ==
    /\ state = "OutsideStanza"
    /\ UNCHANGED end_of_first_tag
    /\ NoStanza
    /\ \/ /\ b = Lt
          /\ tag_cnt' = tag_cnt + 1
          /\ Goto("StanzaFirstChar")
          /\ cnt' = cnt + 1
          /\ ret' = IF cnt + 1 = BufSize THEN "err" ELSE "none"
          /\ fed' = <<b>>
          /\ stale' = (end_of_first_tag # 0)
       \/ /\ b # Lt
          /\ ret' = "none"
          /\ fed' = <<>>
          /\ stale' = FALSE
          /\ UNCHANGED <<cnt, tag_cnt, state, quote, idx>>

BetweenTags(b) ==
    /\ state = "BetweenTags"
    /\ UNCHANGED end_of_first_tag
    /\ Advance(b)
    /\ \/ b = Lt /\ tag_cnt' = tag_cnt + 1 /\ Goto("InsideTagFirstChar")
       \/ b # Lt /\ UNCHANGED <<tag_cnt, state, quote, idx>>

StanzaFirstChar(b) ==
    /\ state = "StanzaFirstChar"
    /\ UNCHANGED end_of_first_tag
    /\ \/ /\ b = Slash
          /\ Goto("EndStream") /\ Advance(b) /\ UNCHANGED tag_cnt
       \/ b \in {Bang, Gt, Apos, Quot} /\ Bail
       \/ /\ b = Quest
          /\ state' = "QuestionTag" /\ idx' = NeedleEnd(XmlDecl) /\ quote' = Nul
          /\ Advance(b) /\ UNCHANGED tag_cnt
       \/ /\ b \notin {Slash, Bang, Gt, Apos, Quot, Quest}
          /\ Goto("InsideTag") /\ Advance(b) /\ UNCHANGED tag_cnt

\* A closing tag's '/' leaves the state alone: the next byte is again matched
\* as the first of a tag.
InsideTagFirstChar(b) ==
    /\ state = "InsideTagFirstChar"
    /\ UNCHANGED end_of_first_tag
    /\ \/ /\ b = Slash /\ tag_cnt >= 2
          /\ tag_cnt' = tag_cnt - 2
          /\ Advance(b) /\ UNCHANGED <<state, quote, idx>>
       \/ b = Slash /\ tag_cnt < 2 /\ Bail
       \/ /\ b = Bang
          /\ state' = "ExclamationTag" /\ idx' = NeedleEnd(CDataOpen) /\ quote' = Nul
          /\ Advance(b) /\ UNCHANGED tag_cnt
       \/ b \in {Quest, Gt, Apos, Quot} /\ Bail
       \/ /\ b \notin {Slash, Bang, Quest, Gt, Apos, Quot}
          /\ Goto("InsideTag") /\ Advance(b) /\ UNCHANGED tag_cnt

\* A tag that ends in "/>" closes itself.
SelfClosing == IF buf[cnt - 1] = Slash THEN 1 ELSE 0

InsideTag(b, reader) ==
    /\ state = "InsideTag"
    /\ \/ /\ b = Gt
          /\ \/ /\ tag_cnt < SelfClosing
                /\ end_of_first_tag' = MarkFirstTag
                /\ Bail
             \/ /\ tag_cnt >= SelfClosing
                /\ \/ tag_cnt - SelfClosing = 0
                   \/ tag_cnt - SelfClosing = 1 /\ BufStartsStreamOpen
                /\ StanzaEnd(b, reader, MarkFirstTag)
             \/ /\ tag_cnt >= SelfClosing
                /\ tag_cnt - SelfClosing # 0
                /\ ~(tag_cnt - SelfClosing = 1 /\ BufStartsStreamOpen)
                /\ end_of_first_tag' = MarkFirstTag
                /\ tag_cnt' = tag_cnt - SelfClosing
                /\ Goto("BetweenTags")
                /\ Advance(b)
       \/ /\ b \in {Apos, Quot}
          /\ state' = "InsideAttribute" /\ quote' = b /\ idx' = 0
          /\ Advance(b) /\ UNCHANGED <<tag_cnt, end_of_first_tag>>
       \/ /\ b \notin {Gt, Apos, Quot}
          /\ Advance(b) /\ UNCHANGED <<tag_cnt, end_of_first_tag, state, quote, idx>>

InsideAttribute(b) ==
    /\ state = "InsideAttribute"
    /\ \/ b = quote /\ Goto("InsideTag")
       \/ b # quote /\ UNCHANGED <<state, quote, idx>>
    /\ Advance(b)
    /\ UNCHANGED <<tag_cnt, end_of_first_tag>>

QuestionTag(b) ==
    /\ state = "QuestionTag"
    /\ UNCHANGED end_of_first_tag
    /\ \/ idx # cnt /\ Advance(b) /\ UNCHANGED <<tag_cnt, state, quote, idx>>
       \/ /\ idx = cnt /\ LastEquals(XmlDecl)
          /\ Goto("InsideXmlTag") /\ Advance(b) /\ UNCHANGED tag_cnt
       \/ /\ idx = cnt /\ ~LastEquals(XmlDecl)
          /\ Bail

InsideXmlTag(b, reader) ==
    /\ state = "InsideXmlTag"
    /\ \/ b = Gt /\ StanzaEnd(b, reader, end_of_first_tag)
       \/ /\ b # Gt
          /\ Advance(b) /\ UNCHANGED <<tag_cnt, end_of_first_tag, state, quote, idx>>

ExclamationTag(b) ==
    /\ state = "ExclamationTag"
    /\ UNCHANGED end_of_first_tag
    /\ \/ idx # cnt /\ Advance(b) /\ UNCHANGED <<tag_cnt, state, quote, idx>>
       \/ /\ idx = cnt /\ LastEquals(CDataOpen) /\ tag_cnt >= 1
          /\ Goto("InsideCDATA")
          /\ tag_cnt' = tag_cnt - 1
          /\ Advance(b)
       \* the state is assigned before checked_sub fails
       \/ /\ idx = cnt /\ LastEquals(CDataOpen) /\ tag_cnt < 1
          /\ Goto("InsideCDATA")
          /\ ret' = "err" /\ NoStanza
          /\ UNCHANGED <<cnt, tag_cnt, fed, stale>>
       \/ /\ idx = cnt /\ ~LastEquals(CDataOpen)
          /\ Bail

\* last_equals cannot fail for want of bytes here, "<![CDATA[" being longer
\* than "]]>": IndexesAreSafe says so.
InsideCDATA(b) ==
    /\ state = "InsideCDATA"
    /\ UNCHANGED <<tag_cnt, end_of_first_tag>>
    /\ Advance(b)
    /\ \/ b = Gt /\ LastEquals(CDataClose) /\ Goto("BetweenTags")
       \/ ~(b = Gt /\ LastEquals(CDataClose)) /\ UNCHANGED <<state, quote, idx>>

EndStream(b, reader) ==
    /\ state = "EndStream"
    /\ \/ /\ b = Gt /\ LastEquals(StreamClose)
          /\ StanzaEnd(b, reader, MarkFirstTag)
       \/ /\ b = Gt /\ ~LastEquals(StreamClose)
          /\ Bail /\ UNCHANGED end_of_first_tag
       \/ /\ b # Gt
          /\ Advance(b) /\ UNCHANGED <<tag_cnt, end_of_first_tag, state, quote, idx>>

-----------------------------------------------------------------------------
\* One turn of the loop of StanzaReader::next / next_eoft: read one byte into
\* current_buf and process it.
ReadByte(b, reader) ==
    /\ ret # "panic"
    /\ cnt < BufSize
    /\ buf' = [buf EXCEPT ![cnt] = b]
    /\ \/ OutsideStanza(b)
       \/ BetweenTags(b)
       \/ StanzaFirstChar(b)
       \/ InsideTagFirstChar(b)
       \/ InsideTag(b, reader)
       \/ InsideAttribute(b)
       \/ QuestionTag(b)
       \/ InsideXmlTag(b, reader)
       \/ ExclamationTag(b)
       \/ InsideCDATA(b)
       \/ EndStream(b, reader)

\* current_buf slices buf[cnt..cnt+1]: out of range once the buffer is full,
\* which a caller that polls again after "stanza too big" runs into.
CurrentBufPanics ==
    /\ ret # "panic"
    /\ cnt = BufSize
    /\ ret' = "panic"
    /\ NoStanza
    /\ UNCHANGED <<filter, fed, stale>>

\* n == 0: the stream ended, with whatever the filter holds left in it.
StreamEnds ==
    /\ ret # "panic"
    /\ cnt < BufSize
    /\ ret' = "eof"
    /\ NoStanza
    /\ fed' = IF state = "OutsideStanza" THEN <<>> ELSE fed
    /\ UNCHANGED <<filter, stale>>

\* Between stanzas the callers borrow buf as scratch space: the first-bytes
\* peeks (tls/incoming.rs, outgoing.rs) and the PROXY header
\* (common/incoming.rs).
ScratchUse ==
    /\ ret # "panic"
    /\ state = "OutsideStanza"
    /\ \E s \in Scratch :
          buf' = [i \in 0..(BufSize - 1) |-> IF i + 1 \in DOMAIN s THEN s[i + 1] ELSE buf[i]]
    /\ ret' = "none"
    /\ NoStanza
    /\ fed' = <<>>
    /\ stale' = FALSE
    /\ UNCHANGED <<cnt, tag_cnt, end_of_first_tag, state, quote, idx>>

Next ==
    \/ \E b \in Input, reader \in Reader : ReadByte(b, reader)
    \/ CurrentBufPanics
    \/ StreamEnds
    \/ ScratchUse

Spec == Init /\ [][Next]_vars

-----------------------------------------------------------------------------
(* Properties.                                                             *)

\* Every variable stays in its range; cnt reaches BufSize only by the byte
\* that makes the stanza too big.
TypeOK ==
    /\ buf \in [0..(BufSize - 1) -> Byte]
    /\ cnt \in 0..BufSize
    /\ tag_cnt \in 0..BufSize
    /\ end_of_first_tag \in 0..(BufSize - 1)
    /\ state \in StanzaState
    /\ quote \in Byte
    /\ idx \in Nat
    /\ ret \in {"none", "stanza", "err", "eof", "panic"}
    /\ out \in Seq(Byte)
    /\ out_eoft \in 0..(BufSize - 1)
    /\ fed \in Seq(Byte)
    /\ stale \in BOOLEAN

\* No index of process_next_byte_idx leaves the buffer.  stanzafilter.rs:105
\* claims it for buf[cnt - 1], "state can't be InsideTag unless we are on at
\* least the second character"; last_num_bytes never runs short of bytes where
\* a needle's position is precomputed or its opening is longer; and that
\* position is never overrun, which would skip the comparison for good.
IndexesAreSafe ==
    /\ state = "InsideTag" => cnt >= 2
    /\ state \in {"QuestionTag", "ExclamationTag"} => cnt <= idx
    /\ state = "QuestionTag" => idx >= Len(XmlDecl)
    /\ state = "ExclamationTag" => idx >= Len(CDataOpen)
    /\ state = "InsideCDATA" => cnt >= Len(CDataClose) - 1

\* The slice handed to the caller is the bytes read since its '<', in order:
\* no byte of an earlier stanza, of scratch use or of a refused byte is in it,
\* none is missing, and it is never longer than max_stanza_size_bytes.
StanzaIsWhatWasRead ==
    ret = "stanza" =>
        /\ out = fed
        /\ Len(out) \in 1..BufSize
        /\ out[1] = Lt
        /\ out[Len(out)] = Gt

\* end_of_first_tag, when it was 0 as the stanza began, is 0 or the position
\* of a '>' of that stanza: to_ws_new indexes and splits the stanza at it.
EndOfFirstTagIsInStanza ==
    (ret = "stanza" /\ ~stale /\ out_eoft # 0) =>
        /\ out_eoft < Len(out)
        /\ out[out_eoft + 1] = Gt

\* The special case for <stream:stream looks at the whole buffer, stale bytes
\* included, yet fires only on bytes of the stanza being read.
StreamOpenIsNotStale ==
    [][(ret' = "stanza" /\ state = "InsideTag" /\ tag_cnt > SelfClosing) =>
          /\ Len(fed') > Len(StreamOpen)
          /\ \A i \in 1..Len(StreamOpen) : fed'[i] = StreamOpen[i]]_vars

(* The inductive invariant.  None of the properties above is inductive: that *)
(* the slice returned is what was read takes fed to be the prefix of buf all *)
(* along; that the position of the first '>' is never that of a refused byte *)
(* takes that checked_sub can only fail once the first tag has ended.        *)

\* Between stanzas the counters are back at 0.
RestInv == state = "OutsideStanza" => cnt = 0 /\ tag_cnt = 0

\* The stanza in progress is the front of buf.
FedInv ==
    state # "OutsideStanza" =>
        /\ cnt >= 1
        /\ Len(fed) = cnt
        /\ fed[1] = Lt
        /\ \A i \in 1..cnt : fed[i] = buf[i - 1]

\* How far each state is into the buffer.
PosInv ==
    /\ tag_cnt <= cnt
    /\ state \notin {"OutsideStanza", "StanzaFirstChar"} => cnt >= 2
    /\ state \in {"QuestionTag", "ExclamationTag"} => cnt <= idx
    /\ state = "QuestionTag" => idx >= Len(XmlDecl)
    /\ state = "ExclamationTag" => idx >= Len(CDataOpen) + 2
    /\ state = "InsideCDATA" => cnt >= Len(CDataOpen) + 2

\* Past its first tag, a stanza has end_of_first_tag set.
MarkInv ==
    /\ state = "StanzaFirstChar" => tag_cnt = 1
    /\ state \in {"InsideTag", "InsideAttribute"} /\ end_of_first_tag = 0 => tag_cnt = 1
    /\ state \in {"BetweenTags", "InsideTagFirstChar", "ExclamationTag", "InsideCDATA"}
         => end_of_first_tag # 0

\* Set during this stanza, it is the position of one of its '>'.
EoftInv ==
    (state # "OutsideStanza" /\ ~stale /\ end_of_first_tag # 0) =>
        /\ end_of_first_tag < cnt
        /\ fed[end_of_first_tag + 1] = Gt

\* Together with the properties they are to prove.
IndInv ==
    /\ TypeOK /\ RestInv /\ FedInv /\ PosInv /\ MarkInv /\ EoftInv
    /\ StanzaIsWhatWasRead /\ EndOfFirstTagIsInStanza

\* What StanzaContract calls the parts of this state.
Contract == INSTANCE StanzaContract
              WITH mid <- state # "OutsideStanza",
                   full <- cnt = BufSize,
                   marked <- end_of_first_tag # 0,
                   res <- ret

\* The reader keeps the contract its callers are written against: an
\* unterminated or refused stanza stays in progress until some reader
\* completes it, one that filled the buffer never completes, and a reader
\* that panicked stays so.
KeepsContract == Contract!CSpec
=============================================================================
