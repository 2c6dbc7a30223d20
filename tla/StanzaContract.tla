--------------------------- MODULE StanzaContract ---------------------------
(***************************************************************************)
(* What reading through a StanzaFilter promises the code that does it,      *)
(* without the bytes: whether a stanza is in progress, whether it filled    *)
(* the buffer, whether end_of_first_tag is set, and what a read came to.    *)
(* StanzaFilter implements it (StanzaFilter!Contract); Outgoing, Incoming  *)
(* and Relay are written against it.                                        *)
(*                                                                         *)
(* Nothing in it drops a stanza that is in progress.                        *)
(***************************************************************************)
VARIABLES
    mid,      \* a stanza is in progress (state is not OutsideStanza)
    full,     \* it filled the buffer without ending
    marked,   \* end_of_first_tag is set
    stale,    \* it was set already when the stanza began
    res       \* what the last read came to

cvars == <<mid, full, marked, stale, res>>

CInit ==
    /\ mid = FALSE
    /\ full = FALSE
    /\ marked = FALSE
    /\ stale = FALSE
    /\ res = "none"

\* Bytes between stanzas are ignored.
Skip ==
    /\ ~mid
    /\ res' = "none"
    /\ stale' = FALSE
    /\ UNCHANGED <<mid, full, marked>>

\* A '<' begins a stanza, whatever an earlier reader left in end_of_first_tag.
Begin ==
    /\ ~mid
    /\ mid' = TRUE
    /\ full' \in BOOLEAN
    /\ res' = IF full' THEN "err" ELSE "none"
    /\ stale' = marked
    /\ UNCHANGED marked

\* A byte that does not end the stanza; the first tag may end.
Continue ==
    /\ mid /\ ~full
    /\ full' \in BOOLEAN
    /\ res' = IF full' THEN "err" ELSE "none"
    /\ marked' \in BOOLEAN /\ (marked => marked')
    /\ UNCHANGED <<mid, stale>>

\* An illegal byte: the stanza stays in progress without it.
Refuse ==
    /\ mid /\ ~full
    /\ res' = "err"
    /\ marked' \in BOOLEAN /\ (marked => marked')
    /\ UNCHANGED <<mid, full, stale>>

\* The stanza ends.  StanzaReader::next leaves end_of_first_tag set,
\* StanzaReader::next_eoft clears it.
Complete(reader) ==
    /\ mid /\ ~full
    /\ mid' = FALSE
    /\ res' = "stanza"
    /\ marked' \in BOOLEAN
    /\ IF reader = "next" THEN marked => marked' ELSE ~marked'
    /\ UNCHANGED <<full, stale>>

\* The stream ends, with a stanza in progress or not.
End ==
    /\ ~full
    /\ res' = "eof"
    /\ UNCHANGED <<mid, full, marked, stale>>

\* Reading on after the buffer filled.
Panic ==
    /\ full
    /\ res' = "panic"
    /\ UNCHANGED <<mid, full, marked, stale>>

CNext ==
    /\ res # "panic"
    /\ \/ Skip \/ Begin \/ Continue \/ Refuse \/ End \/ Panic
       \/ \E reader \in {"next", "next_eoft"} : Complete(reader)

CSpec == CInit /\ [][CNext]_cvars

=============================================================================
