------------------------------ MODULE CertsKey ------------------------------
(***************************************************************************)
(* The key pair that every TLS handshake uses: two files, read one after    *)
(* the other (read_certified_key), a lock around the pair they hold         *)
(* (common/certs_key.rs), and the task that reads them again on SIGHUP      *)
(* (spawn_refresh_task, main.rs).  Whoever renews the certificate writes    *)
(* the files at any time, also between the two reads.                       *)
(*                                                                         *)
(* A file is of one renewal, and whole or being written: "part" ends inside *)
(* a PEM section, "cut" between two of them, or is empty.                   *)
(***************************************************************************)
EXTENDS Naturals

CONSTANTS
    Conns,         \* connections, each of which makes one handshake
    MaxRenewals    \* bound: how often the certificate is renewed

ASSUME RenewalsAssumption == MaxRenewals \in Nat

Files == {"key", "cert"}
Renewal == 0..MaxRenewals
Torn == {"part", "cut"}
\* A key file holds one section.
TornStates(f) == IF f = "key" THEN {"part"} ELSE Torn
Content == [of : Renewal, st : {"whole"} \union Torn]

VARIABLES
    file,      \* what the two files hold
    newest,    \* the last renewal begun
    config,    \* the configuration file can be parsed
    dirty,     \* history: a file was written since the last SIGHUP
    pending,   \* a SIGHUP that recv has not returned yet
    refresh,   \* where the refresh task is
    reader,    \* where read_certified_key is: it is never called twice at once
    loaded,    \* its result, or what it has read so far
    inner,     \* CertsKey.inner
    hs         \* the handshakes

files == <<file, newest, config, dirty>>
cvars == <<files, pending, refresh, reader, loaded, inner, hs>>

\* A Result of a key pair: the renewal of the key, and the certificates.
KeyPair == [is : {"none", "key", "ok", "err"}, key : Renewal, cert : Content]
Whole(r) == [of |-> r, st |-> "whole"]
NoPair == [is |-> "none", key |-> 0, cert |-> Whole(0)]
Err == [is |-> "err", key |-> 0, cert |-> Whole(0)]
PairOf(r) == [is |-> "ok", key |-> r, cert |-> Whole(r)]

NoHandshake == [st |-> "none", pair |-> NoPair, quiet |-> FALSE]

Handled == refresh \in {"recv", "parse", "read"}
Settled == config /\ \A f \in Files : file[f] = Whole(newest)
\* Nothing was written since the last SIGHUP, and that was dealt with.
Quiet == Settled /\ ~dirty /\ ~pending /\ refresh = "recv"
Fits(pair) == pair.cert = Whole(pair.key)

CInit ==
    /\ \E st \in {"whole", "part"} : file = [f \in Files |-> [of |-> 0, st |-> st]]
    /\ newest = 0 /\ config = TRUE /\ dirty = FALSE
    /\ pending = FALSE
    /\ refresh = "off"
    /\ reader = "idle" /\ loaded = NoPair
    /\ inner = NoPair
    /\ hs = [c \in Conns |-> NoHandshake]

-----------------------------------------------------------------------------
(* Whoever owns the files.                                                 *)

\* A file is opened for writing: for a new renewal, or for the one begun.
BeginWrite(f) ==
    /\ file[f].st = "whole"
    /\ \/ Settled /\ newest < MaxRenewals /\ newest' = newest + 1
       \/ file[f].of # newest /\ UNCHANGED newest
    /\ \E st \in TornStates(f) : file' = [file EXCEPT ![f] = [of |-> newest', st |-> st]]
    /\ dirty' = TRUE
    /\ UNCHANGED <<config, pending, refresh, reader, loaded, inner, hs>>

EndWrite(f) ==
    /\ file[f].st \in Torn
    /\ file' = [file EXCEPT ![f].st = "whole"]
    /\ dirty' = TRUE
    /\ UNCHANGED <<newest, config, pending, refresh, reader, loaded, inner, hs>>

\* Somebody edits the configuration: not to be parsed until it is saved.
EditConfig ==
    /\ config' = ~config
    /\ dirty' = TRUE
    /\ UNCHANGED <<file, newest, pending, refresh, reader, loaded, inner, hs>>

\* SIGHUP, once the refresh task has a handler for it; several are one.
Sighup ==
    /\ Handled
    /\ pending' = TRUE
    /\ dirty' = FALSE
    /\ UNCHANGED <<file, newest, config, refresh, reader, loaded, inner, hs>>

-----------------------------------------------------------------------------
(* read_certified_key: the key, then the certificates.                     *)

\* No section of the key file is a whole private key: "invalid key".
ReadKey ==
    /\ reader = "key"
    /\ IF file["key"].st = "whole"
       THEN loaded' = [NoPair EXCEPT !.is = "key", !.key = file["key"].of] /\ reader' = "cert"
       ELSE loaded' = Err /\ reader' = "done"
    /\ UNCHANGED <<files, pending, refresh, inner, hs>>

\* Every section must be whole, but there need not be any; and nothing
\* compares the certificate with the key.
ReadCert ==
    /\ reader = "cert"
    /\ loaded' = IF file["cert"].st = "part" THEN Err
                 ELSE [loaded EXCEPT !.is = "ok", !.cert = file["cert"]]
    /\ reader' = "done"
    /\ UNCHANGED <<files, pending, refresh, inner, hs>>

-----------------------------------------------------------------------------
(* The refresh task.                                                       *)

\* signal() installs the handler when the task first runs.
InstallHandler ==
    /\ refresh = "spawned"
    /\ refresh' \in {"recv", "off"}
    /\ UNCHANGED <<files, pending, reader, loaded, inner, hs>>

Recv ==
    /\ refresh = "recv"
    /\ pending
    /\ pending' = FALSE
    /\ refresh' = "parse"
    /\ UNCHANGED <<files, reader, loaded, inner, hs>>

ParseConfig ==
    /\ refresh = "parse"
    /\ refresh' = "read"
    /\ IF config THEN reader' = "key" /\ UNCHANGED loaded
                 ELSE reader' = "done" /\ loaded' = Err
    /\ UNCHANGED <<files, pending, inner, hs>>

\* A mutant: the two parts are installed as they are read.
Replace_Early ==
    /\ refresh = "read"
    /\ reader \in {"cert", "done"}
    /\ inner' = IF loaded = Err THEN inner ELSE loaded
    /\ refresh' = "recv"
    /\ reader' = "idle" /\ loaded' = NoPair
    /\ UNCHANGED <<files, pending, hs>>

\* A mutant: `?` instead of a match, an error ends the task.
Replace_Ends ==
    /\ refresh = "read"
    /\ reader = "done"
    /\ inner' = IF loaded = Err THEN inner ELSE loaded
    /\ refresh' = IF loaded = Err THEN "off" ELSE "recv"
    /\ reader' = "idle" /\ loaded' = NoPair
    /\ UNCHANGED <<files, pending, hs>>

\* The pair is replaced under the lock; on an error the old one stays.
Replace ==
    /\ refresh = "read"
    /\ reader = "done"
    /\ inner' = IF loaded = Err THEN inner ELSE loaded
    /\ refresh' = "recv"
    /\ reader' = "idle" /\ loaded' = NoPair
    /\ UNCHANGED <<files, pending, hs>>

-----------------------------------------------------------------------------
(* A handshake of a connection.                                            *)

\* resolve: a clone of the Arc, held until the handshake is over.  Without a
\* pair it returns None: only outgoing connections get here, and go on
\* without a client certificate.
Resolve(c) ==
    /\ hs[c].st = "none"
    /\ inner.is = "ok"
    /\ hs' = [hs EXCEPT ![c] = [st |-> "hello", pair |-> inner, quiet |-> Quiet]]
    /\ UNCHANGED <<files, pending, refresh, reader, loaded, inner>>

\* A mutant: no clone is held, the signature is made with what is there by now.
Sign_Resolves(c) ==
    /\ hs[c].st = "hello"
    /\ hs' = [hs EXCEPT ![c].st = IF hs[c].pair.cert = Whole(inner.key) THEN "ok" ELSE "failed",
                            ![c].pair = NoPair]
    /\ UNCHANGED <<files, pending, refresh, reader, loaded, inner>>

\* The peer checks the signature made with the key against the certificate.
Sign(c) ==
    /\ hs[c].st = "hello"
    /\ hs' = [hs EXCEPT ![c].st = IF Fits(hs[c].pair) THEN "ok" ELSE "failed",
                            ![c].pair = NoPair]
    /\ UNCHANGED <<files, pending, refresh, reader, loaded, inner>>

CTypeOK ==
    /\ file \in [Files -> Content]
    /\ newest \in Renewal
    /\ config \in BOOLEAN /\ dirty \in BOOLEAN /\ pending \in BOOLEAN
    /\ refresh \in {"off", "spawned", "recv", "parse", "read"}
    /\ reader \in {"idle", "key", "cert", "done"}
    /\ loaded \in KeyPair
    /\ inner \in KeyPair /\ inner.is # "key"
    /\ hs \in [Conns -> [st : {"none", "hello", "ok", "failed"},
                         pair : KeyPair, quiet : BOOLEAN]]

-----------------------------------------------------------------------------
\* A torn pair does not outlast the renewal that tore it: once the files are
\* written and SIGHUP was sent after the last write, and its reload is over,
\* the pair installed is the newest, key and certificate of one renewal; and
\* a handshake that begins then is completed with it, whatever is written and
\* reloaded before its signature is made (main.rs:94, certs_key.rs:35).
QuietIsCurrent ==
    /\ Quiet => inner = PairOf(newest)
    /\ \A c \in Conns : hs[c].quiet => hs[c].st # "failed"

\* A SIGHUP sent after the last write is never lost, not even one that comes
\* in the middle of another reload, or after a reload that failed: the newest
\* pair gets installed, unless somebody writes again (main.rs:94-109).
RenewalIsServed ==
    (Settled /\ ~dirty /\ pending) ~> (dirty \/ inner = PairOf(newest))
=============================================================================
