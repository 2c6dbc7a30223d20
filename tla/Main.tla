-------------------------------- MODULE Main --------------------------------
(***************************************************************************)
(* The process (main.rs): what it listens on, from its configuration and    *)
(* from the sockets systemd passes (systemd.rs), the key pair it starts     *)
(* with, its listener tasks (spawn_tls_listener, spawn_outgoing_listener,   *)
(* spawn_quic_listener) and the refresh task of CertsKey.  What a           *)
(* connection's task does after its handshake is in Incoming and Outgoing.  *)
(***************************************************************************)
EXTENDS CertsKey, FiniteSets, Sequences

CONSTANTS
    Setups,    \* configurations, and the sockets passed with each
    Silent     \* connections whose client never says a word

VARIABLES
    setup,     \* the one of this process
    phase,     \* where main is
    bound,     \* incoming_listen, quic_listen and outgoing_listen
    tasks,     \* the listener tasks that run
    ended,     \* and those that returned
    conn       \* where each connection is, and at which listener

mvars == <<setup, phase, bound, tasks, ended, conn>>
vars == <<cvars, mvars>>

Fd == [listening : BOOLEAN, type : {"stream", "dgram", "other"},
       family : {"inet", "unix", "other"}, name : {"in", "out", "other"}]
Setup == [incoming : SUBSET Nat, quic : SUBSET Nat, outgoing : SUBSET Nat,
          target : BOOLEAN, fds : Seq(Fd), names : Seq({"in", "out", "other"})]

\* A datagram socket never listens (SO_ACCEPTCONN), and systemd passes the
\* names in the order of the descriptors, if it passes any.
ASSUME SetupsAssumption ==
    \A u \in Setups :
        /\ u \in Setup
        /\ \A i \in 1..Len(u.fds) :
              /\ u.fds[i].listening => u.fds[i].type # "dgram"
              /\ i <= Len(u.names) => u.names[i] = u.fds[i].name

Roles == {"in", "quic", "out"}
NoListener == [role |-> "none", by |-> "none", n |-> 0]
Live == phase # "exited"
Exit == phase' = "exited"

Gone == [st |-> "gone", at |-> NoListener]

Init ==
    /\ CInit
    /\ setup \in Setups
    /\ phase = "parse"
    /\ bound = {} /\ tasks = {} /\ ended = {}
    /\ conn = [c \in Conns |-> [st |-> "none", at |-> NoListener]]

-----------------------------------------------------------------------------
(* Starting.                                                               *)

ParseArgs ==
    /\ phase = "parse"
    /\ phase' = IF config THEN "bind" ELSE "exited"
    /\ UNCHANGED <<cvars, setup, bound, tasks, ended, conn>>

Configured ==
    {[role |-> "in", by |-> "config", n |-> a] : a \in setup.incoming}
      \union {[role |-> "quic", by |-> "config", n |-> a] : a \in setup.quic}
      \union {[role |-> "out", by |-> "config", n |-> a] : a \in setup.outgoing}

Bind ==
    /\ phase = "bind"
    /\ \/ bound' = Configured /\ phase' = "sockets"
       \/ Configured # {} /\ Exit /\ UNCHANGED bound
    /\ UNCHANGED <<cvars, setup, tasks, ended, conn>>

\* socks_from_fds skips what is no listening socket of a known kind.
Usable(fd) == fd.listening /\ fd.type # "other" /\ fd.family # "other"
NoName == "no name"

\* A mutant: a name is taken only for the descriptors that are kept.
NameOf_Kept(i) ==
    LET k == Cardinality({j \in 1..i : Usable(setup.fds[j])})
    IN  IF k <= Len(setup.names) THEN setup.names[k] ELSE NoName

\* names.next(), once for each descriptor.
NameOf(i) == IF i <= Len(setup.names) THEN setup.names[i] ELSE NoName

Descriptors == {i \in 1..Len(setup.fds) : Usable(setup.fds[i])}
RoleOf(i) == IF setup.fds[i].type = "dgram" THEN "quic" ELSE NameOf(i)

ReceiveSockets ==
    /\ phase = "sockets"
    /\ IF \A i \in Descriptors : RoleOf(i) \in Roles
       THEN /\ bound' = bound \union {[role |-> RoleOf(i), by |-> "systemd", n |-> i] : i \in Descriptors}
            /\ phase' = "load"
            /\ reader' = "key"
       ELSE Exit /\ UNCHANGED <<bound, reader>>
    /\ UNCHANGED <<files, pending, refresh, loaded, inner, hs, setup, tasks, ended, conn>>

LoadKeyPair ==
    /\ phase = "load"
    /\ reader = "done"
    /\ inner' = loaded
    /\ reader' = "idle" /\ loaded' = NoPair
    /\ phase' = "spawn"
    /\ UNCHANGED <<files, pending, refresh, hs, setup, bound, tasks, ended, conn>>

\* Listeners that terminate TLS need a pair, and somebody behind them;
\* without a pair there is no refresh task.
Spawn ==
    /\ phase = "spawn"
    /\ IF \/ bound = {}
          \/ (\E l \in bound : l.role # "out") /\ (~setup.target \/ inner = Err)
       THEN Exit /\ UNCHANGED <<tasks, refresh>>
       ELSE /\ tasks' = bound
            /\ refresh' = IF inner = Err THEN "off" ELSE "spawned"
            /\ phase' = "running"
    /\ UNCHANGED <<files, pending, reader, loaded, inner, hs, setup, bound, ended, conn>>

Start == ParseArgs \/ Bind \/ ReceiveSockets \/ LoadKeyPair \/ Spawn

-----------------------------------------------------------------------------
(* Listening.                                                              *)

Arrive(c, l) ==
    /\ conn[c].st = "none"
    /\ conn' = [conn EXCEPT ![c] = [st |-> "queued", at |-> l]]
    /\ UNCHANGED <<cvars, setup, phase, bound, tasks, ended>>

\* A mutant: the connection is handled in the accept loop, not in a task.
Accept_Inline(c) ==
    /\ conn[c].st = "queued" /\ conn[c].at \in tasks
    /\ \A d \in Conns : conn[d].at = conn[c].at => conn[d].st # "task"
    /\ conn' = [conn EXCEPT ![c].st = "task"]
    /\ UNCHANGED <<cvars, setup, phase, bound, tasks, ended>>

\* A connection gets a task of its own, whose failure is only logged.
Accept(c) ==
    /\ conn[c].st = "queued" /\ conn[c].at \in tasks
    /\ conn' = [conn EXCEPT ![c].st = "task"]
    /\ UNCHANGED <<cvars, setup, phase, bound, tasks, ended>>

\* Any error of accept ends the task and closes the socket.
AcceptFails(l) ==
    /\ tasks' = tasks \ {l}
    /\ ended' = ended \union {l}
    /\ conn' = [c \in Conns |-> IF conn[c] = [st |-> "queued", at |-> l]
                                THEN Gone ELSE conn[c]]
    /\ UNCHANGED <<cvars, setup, phase, bound>>

Handshake(c) ==
    /\ conn[c].st = "task"
    /\ c \notin Silent
    /\ Resolve(c) \/ Sign(c)
    /\ UNCHANGED mvars

\* The connection ends, before its handshake, in it or after.
Close(c) ==
    /\ conn[c].st = "task"
    /\ conn' = [conn EXCEPT ![c] = Gone]
    /\ hs' = [hs EXCEPT ![c] = NoHandshake]
    /\ UNCHANGED <<files, pending, refresh, reader, loaded, inner>>
    /\ UNCHANGED <<setup, phase, bound, tasks, ended>>

Serve == \/ \E l \in tasks : AcceptFails(l) \/ \E c \in Conns : Arrive(c, l)
         \/ \E c \in Conns : Accept(c) \/ Handshake(c) \/ Close(c)

-----------------------------------------------------------------------------
(* Ending.                                                                 *)

\* With the process, its connections end.
Drop ==
    /\ conn' = [c \in Conns |-> IF conn[c].st = "none" THEN conn[c] ELSE Gone]
    /\ hs' = [c \in Conns |-> NoHandshake]
    /\ UNCHANGED <<files, pending, refresh, reader, loaded, inner>>

\* join_all: every handle returned.  The refresh task does not while it has
\* its handler.
Terminate ==
    /\ phase = "running"
    /\ tasks = {}
    /\ refresh = "off"
    /\ Exit /\ Drop
    /\ UNCHANGED <<setup, bound, tasks, ended>>

\* SIGHUP without a handler (the process is starting, or has no key pair)
\* ends it.
SighupKills ==
    /\ ~Handled
    /\ Exit /\ Drop
    /\ UNCHANGED <<setup, bound, tasks, ended>>

Refresh == InstallHandler \/ Recv \/ ParseConfig \/ Replace
Read == ReadKey \/ ReadCert
Write == EditConfig \/ Sighup \/ \E f \in Files : BeginWrite(f) \/ EndWrite(f)

Next ==
    /\ Live
    /\ \/ Start \/ Serve \/ Terminate \/ SighupKills
       \/ (Refresh \/ Read \/ Write) /\ UNCHANGED mvars

\* tokio runs every task that can run, and accept takes connections in the
\* order they came.  Nothing is assumed of clients, nor of whoever writes the
\* files and sends signals.
Fairness ==
    /\ WF_vars(Live /\ Start)
    /\ WF_vars(Live /\ (Refresh \/ Read) /\ UNCHANGED mvars)
    /\ \A c \in Conns : WF_vars(Live /\ Accept(c))

Spec == Init /\ [][Next]_vars /\ Fairness

-----------------------------------------------------------------------------
TypeOK ==
    /\ CTypeOK
    /\ setup \in Setups
    /\ phase \in {"parse", "bind", "sockets", "load", "spawn", "running", "exited"}
    /\ tasks \subseteq bound /\ ended \subseteq bound
    /\ \A c \in Conns : conn[c].st \in {"none", "queued", "task", "gone"}

\* What systemd or the configuration asks for is what runs: every listening
\* socket has the listener its own name stands for, also behind descriptors
\* that were skipped, and nothing else listens; and no listener terminates
\* TLS without a key pair and a server behind (main.rs:185-307,
\* systemd.rs:90-105).
StartedAsAsked ==
    phase = "running" =>
        /\ tasks \union ended =
              Configured \union {[role |-> setup.fds[i].name, by |-> "systemd", n |-> i] :
                                    i \in {j \in 1..Len(setup.fds) : Usable(setup.fds[j])}}
        /\ (\E l \in tasks : l.role # "out") => setup.target /\ inner.is = "ok"

\* A client that connects and then stays silent keeps nobody else waiting:
\* every connection in the queue of a listener is accepted, unless the
\* listener itself fails (tls/incoming.rs:30-40, outgoing.rs:47-56,
\* quic/incoming.rs:36-58).
ConnectionsAreAccepted ==
    \A c \in Conns : conn[c].st = "queued" ~> conn[c].st # "queued"
=============================================================================
