--------------------------- MODULE MCStanzaFraming ---------------------------
(***************************************************************************)
(* StanzaFraming and WebSocketText for TLC.  "[C[" and "]]>" keep the way   *)
(* "[CDATA[" and "]]>" overlap with themselves and with each other; the     *)
(* parts of the others keep the delimiters of "<stream:stream " and         *)
(* "</stream:stream>".  Longer strings stand for names and values as one    *)
(* byte.                                                                   *)
(***************************************************************************)
EXTENDS WebSocketText

MCPlain == {"a", " ", "x", "[", "]", "C", "stream:", "stream", "xmlns=", "xmlns:stream=", "to=",
            "from=", "id=", "jabber:client", "jabber:server", "streams", "d1", "d2", "i"}
MCByte == MCPlain \union {"nul", "<", ">", "/", "!", "?", "'", "dq"}

MCXmlDecl == <<"x", " ">>
MCCDataOpen == <<"[", "C", "[">>
MCCDataClose == <<"]", "]", ">">>
MCStreamOpen == <<"<", "stream:", "stream", " ">>
MCStreamClose == <<"<", "/", "stream:", "stream", ">">>
MCScratch == {}

\* Every attribute a conversion looks for, those that are read in either quote,
\* and two whose values look like the end of a tag.
Attr(name, q, value) == [name |-> <<name>>, q |-> q, value |-> value]
MCAttributes == {Attr("xmlns=", "'", <<"jabber:client">>), Attr("xmlns=", "dq", <<"jabber:client">>),
                 Attr("xmlns=", "dq", <<"jabber:server">>),
                 Attr("xmlns:stream=", "'", <<"streams">>), Attr("xmlns:stream=", "dq", <<"streams">>),
                 Attr("to=", "'", <<"d1">>), Attr("to=", "dq", <<"d1">>),
                 Attr("from=", "'", <<"d2">>), Attr("from=", "dq", <<"d2">>), Attr("id=", "'", <<"i">>),
                 Attr("x", "'", <<">">>), Attr("x", "dq", <<"'", "/", ">">>)}
MCNames == {<<"a">>, <<"stream:", "a">>}
MCTexts == {<<"/", ">", "'">>}
MCCDatas == {<<>>, <<"<", "/">>, <<"]", ">">>}
MCDeclarations == {<<"?">>}
==============================================================================
