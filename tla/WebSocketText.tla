---------------------------- MODULE WebSocketText ----------------------------
(***************************************************************************)
(* What the proxy does to the text of a stanza: the searches of             *)
(* slicesubsequence.rs, the conversions between a stream and WebSocket      *)
(* messages (from_ws and to_ws_new in websocket/mod.rs, and write_all in    *)
(* in_out.rs), the answer to a stream open before STARTTLS                  *)
(* (tls/incoming.rs), and what is read out of a stream open.  They are      *)
(* functions, and are checked on the stanzas that the filter returns in     *)
(* StanzaFraming.                                                           *)
(*                                                                         *)
(* "urn:framing" is "urn:ietf:params:xml:ns:xmpp-framing", which the s2s    *)
(* namespace continues with "-server".                                      *)
(***************************************************************************)
EXTENDS StanzaFraming

IsPrefix(s, t) == Len(s) <= Len(t) /\ SubSeq(t, 1, Len(s)) = s
From(s, i) == SubSeq(s, i, Len(s))

-----------------------------------------------------------------------------
(* slicesubsequence.rs, counting from 1.                                   *)

IndexesOf(s, needle) ==
    {i \in 1..(Len(s) - Len(needle) + 1) : SubSeq(s, i, i + Len(needle) - 1) = needle}
ContainsSeq(s, needle) == IndexesOf(s, needle) # {}
FirstIndexOf(s, needle) ==
    CHOOSE i \in IndexesOf(s, needle) : \A j \in IndexesOf(s, needle) : i <= j

ReplaceFirst(s, needle, replacement) ==
    IF ContainsSeq(s, needle)
    THEN LET i == FirstIndexOf(s, needle)
         IN  SubSeq(s, 1, i - 1) \o replacement \o From(s, i + Len(needle))
    ELSE s

\* <<>> is "not found": nobody looks for an empty name.
ExtractBetween(s, before, after) ==
    IF ~ContainsSeq(s, before) THEN <<>>
    ELSE LET first == From(s, FirstIndexOf(s, before) + Len(before))
         IN  IF ContainsSeq(first, after)
             THEN SubSeq(first, 1, FirstIndexOf(first, after) + Len(after) - 2)
             ELSE <<>>

\* String::replace: every occurrence, from the left.
RECURSIVE Replace(_, _, _)
Replace(s, needle, by) ==
    IF ~ContainsSeq(s, needle) THEN s
    ELSE LET i == FirstIndexOf(s, needle)
         IN  SubSeq(s, 1, i - 1) \o by \o Replace(From(s, i + Len(needle)), needle, by)

-----------------------------------------------------------------------------
(* websocket/mod.rs.                                                       *)

WsOpen == <<Lt, "open", " ">>
WsClose == <<Lt, "close", " ", "xmlns=", Quot, "urn:framing", Quot, " ", Slash, Gt>>
FramingServer == <<"urn:framing", "-server">>

\* The namespace of the stream: prefix.
XmlnsStream(q) == <<" ", "xmlns:stream=", q, "streams", q>>

\* Where from_ws ends: an open needs that namespace.
EndOfOpen(s) ==
    Replace(s, <<Slash, Gt>>,
            IF ContainsSeq(s, <<"xmlns:stream=">>) THEN <<Gt>> ELSE XmlnsStream(Quot) \o <<Gt>>)

\* A mutant: the shorter namespace is replaced first.
FromWs_Order(msg) ==
    CASE IsPrefix(WsOpen, msg) ->
           EndOfOpen(Replace(Replace(Replace(msg, WsOpen, StreamOpen),
                                     <<"urn:framing">>, <<"jabber:client">>),
                             FramingServer, <<"jabber:server">>))
      [] IsPrefix(<<Lt, "close", " ">>, msg) -> StreamClose
      [] OTHER -> msg

FromWs(msg) ==
    CASE IsPrefix(WsOpen, msg) ->
           EndOfOpen(Replace(Replace(Replace(msg, WsOpen, StreamOpen),
                                     FramingServer, <<"jabber:server">>),
                             <<"urn:framing">>, <<"jabber:client">>))
      [] IsPrefix(<<Lt, "close", " ">>, msg) -> StreamClose
      [] OTHER -> msg

\* The declarations that to_ws_new adds to a first tag.
Declares(tag, name) == \E q \in {Apos, Quot} : ContainsSeq(tag, <<" ", name, q>>)
Added(tag, is_c2s) ==
    (IF Declares(tag, "xmlns=") THEN <<>>
     ELSE <<" ", "xmlns=", Apos, IF is_c2s THEN "jabber:client" ELSE "jabber:server", Apos>>)
      \o (IF ~ContainsSeq(tag, <<"stream:">>) \/ Declares(tag, "xmlns:stream=") THEN <<>>
          ELSE XmlnsStream(Apos))

\* A mutant: a declaration anywhere in the stanza counts as one of its tag.
WithAdded_Anywhere(bytes, eoft, is_c2s) ==
    LET end == IF bytes[eoft] = Slash THEN eoft - 1 ELSE eoft
    IN  SubSeq(bytes, 1, end) \o Added(bytes, is_c2s) \o From(bytes, end + 1)

WithAdded(bytes, eoft, is_c2s) ==
    LET end == IF bytes[eoft] = Slash THEN eoft - 1 ELSE eoft
        tag == SubSeq(bytes, 1, end)
    IN  tag \o Added(tag, is_c2s) \o From(bytes, end + 1)

ToWsNew(bytes, eoft, is_c2s) ==
    CASE IsPrefix(StreamOpen, bytes) ->
           Replace(Replace(Replace(Replace(bytes, StreamOpen, WsOpen),
                                   <<"jabber:server">>, FramingServer),
                           <<"jabber:client">>, <<"urn:framing">>),
                   <<Gt>>, <<Slash, Gt>>)
      [] ~IsPrefix(StreamOpen, bytes) /\ eoft = 0 -> bytes
      [] eoft # 0 /\ IsPrefix(SubSeq(StreamClose, 1, Len(StreamClose) - 1), bytes) -> WsClose
      [] OTHER -> WithAdded(bytes, eoft, is_c2s)

\* write_all to a WebSocket: the message, or <<>> if there is nothing to
\* send.  An XML declaration is skipped, up to what stands behind it.
XmlOpen == <<Lt, Quest>> \o XmlDecl
WriteAll(bytes, eoft, is_c2s) ==
    IF ~IsPrefix(XmlOpen, bytes) THEN ToWsNew(bytes, eoft, is_c2s)
    ELSE LET rest == From(bytes, Len(XmlOpen) + 1)
         IN  IF ContainsSeq(rest, <<Lt>>)
             THEN ToWsNew(From(rest, FirstIndexOf(rest, <<Lt>>)), eoft, is_c2s)
             ELSE <<>>

-----------------------------------------------------------------------------
(* Stream opens.                                                           *)

\* stream_preamble's is_c2s, and the names taken from to= and from=.
IsC2s(open) ==
    \E q \in {Apos, Quot} : ContainsSeq(open, <<" ", "xmlns=", q, "jabber:client", q>>)
AttributeOf(open, name) ==
    LET single == ExtractBetween(open, <<" ", name, Apos>>, <<Apos>>)
    IN  IF single # <<>> THEN single ELSE ExtractBetween(open, <<" ", name, Quot>>, <<Quot>>)

\* A mutant: no name in between.
Swapped_Direct(open, from) ==
    ReplaceFirst(ReplaceFirst(open, <<" ", "to=">>, from), <<" ", "from=">>, <<" ", "to=">>)

Swapped(open, from) ==
    ReplaceFirst(ReplaceFirst(ReplaceFirst(open, <<" ", "to=">>, <<" ", "bla toblala=">>),
                              <<" ", "from=">>, <<" ", "to=">>),
                 <<" ", "bla toblala=">>, from)

\* The proxy's own stream open, made of the client's.
Answer(open) ==
    IF ContainsSeq(open, <<"id=">>)
    THEN Swapped(ReplaceFirst(ReplaceFirst(open, <<" ", "id=", Apos>>, <<" ", "id=", Apos, "xmpp-proxy">>),
                              <<" ", "id=", Quot>>, <<" ", "id=", Quot, "xmpp-proxy">>),
                 <<" ", "from=">>)
    ELSE Swapped(open, <<" ", "id=", Apos, "xmpp-proxy", Apos, " ", "from=">>)

-----------------------------------------------------------------------------
\* A stanza that next_eoft has just returned, of a filter nobody used before.
Returned == ret = "stanza" /\ ~stale /\ out_eoft = first_end
IsOpen == IsPrefix(StreamOpen, out)
IsClose == out = StreamClose
IsXml == IsPrefix(XmlOpen, out)

LackedDeclarations(is_c2s) ==
    (IF "xmlns" \notin item.lacks THEN <<>>
     ELSE <<" ", "xmlns=", Apos, IF is_c2s THEN "jabber:client" ELSE "jabber:server", Apos>>)
      \o (IF "stream" \in item.lacks THEN XmlnsStream(Apos) ELSE <<>>)

\* A stanza goes into a WebSocket message as it is, with exactly the
\* namespaces declared in its first tag that it uses and does not declare
\* there: whatever '>' or '/' its attributes hold, and whatever its children
\* declare (websocket/mod.rs:81-114).  An XML declaration is no message.
MessageIsTheStanza ==
    Returned /\ ~IsOpen => \A is_c2s \in BOOLEAN :
        WriteAll(out, out_eoft, is_c2s) =
            CASE IsXml -> <<>>
              [] IsClose -> WsClose
              [] OTHER -> SubSeq(out, 1, item.tag) \o LackedDeclarations(is_c2s) \o From(out, item.tag + 1)

\* A stream that goes through a WebSocket arrives as it was: its open with
\* the same attributes (and the stream: namespace, which it must have), also
\* when an XML declaration stands before it, its close, and its stanzas; and
\* a message relayed from one WebSocket to another stays as it is.  An open
\* whose attributes hold a '>' is left out: every '>' of it is taken for the
\* end of the tag (websocket/mod.rs:52-79).
StreamSurvivesWebSocket ==
    LET msg == WriteAll(out, out_eoft, TRUE)
        plain == SubSeq(out, 1, Len(out) - 1)
        declared == IF \E i \in DOMAIN item.attrs : item.attrs[i].name = <<"xmlns:stream=">>
                    THEN <<>> ELSE XmlnsStream(Quot)
    IN  /\ Returned /\ IsOpen /\ ~ContainsSeq(plain, <<Gt>>) =>
              /\ FromWs(msg) = plain \o declared \o <<Gt>>
              /\ WriteAll(XmlOpen \o <<Quest, Gt>> \o out, 0, TRUE) = msg
        /\ Returned /\ IsClose => FromWs(msg) = out
        /\ Returned /\ ~IsOpen /\ ~IsClose /\ ~IsXml =>
              FromWs(msg) = msg /\ WriteAll(msg, 0, TRUE) = msg

\* What the proxy reads out of a stream open is what the peer wrote, in
\* whatever order and quotes; and its own open, before STARTTLS, answers from
\* the address asked for, to the one that asks, with an id
\* (tls/incoming.rs:79-89, common/mod.rs:358, outgoing.rs:33,
\* common/incoming.rs:138).
AddressesAreRight ==
    LET written(name) == {item.attrs[i].value : i \in {j \in DOMAIN item.attrs : item.attrs[j].name = <<name>>}}
        read(open, name) == {AttributeOf(open, name)} \ {<<>>}
    IN  ret = "stanza" /\ stream /\ item.attrs # <<>> =>
            /\ IsC2s(out) <=> <<"jabber:client">> \in written("xmlns=")
            /\ \A name \in {"to=", "from="} : read(out, name) = written(name)
            /\ read(Answer(out), "to=") = written("from=")
            /\ read(Answer(out), "from=") = written("to=")
            /\ written("to=") # {} => read(Answer(out), "id=") # {}
=============================================================================
