---------------------------- MODULE MCStanzaFilter ----------------------------
(***************************************************************************)
(* StanzaFilter for TLC.  The byte strings the filter compares with keep    *)
(* their shape (which delimiters they hold, and where) and lose their       *)
(* length, so that each comparison both succeeds and fails within a buffer  *)
(* of a few bytes.                                                          *)
(***************************************************************************)
EXTENDS StanzaFilter

MCByte == {"nul", "<", ">", "/", "!", "?", "'", "dq", "s"}

MCXmlDecl == <<"s">>
MCCDataOpen == <<"s">>
MCCDataClose == <<"s", ">">>
MCStreamOpen == <<"<", "s", "s">>
MCStreamClose == <<"<", "/", "s", ">">>

\* A peeked byte, and a header that happens to look like a stream's opening.
MCScratch == {<<"s">>, MCStreamOpen \o <<">", "/">>}
===============================================================================
