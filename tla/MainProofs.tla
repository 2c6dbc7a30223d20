----------------------------- MODULE MainProofs -----------------------------
(***************************************************************************)
(* Proofs about Main and CertsKey, for any number of connections and        *)
(* renewals, every configuration and every list of sockets passed.          *)
(***************************************************************************)
EXTENDS Main, SequenceTheorems, TLAPS

Listener == [role : Roles \union {"none"}, by : {"config", "systemd", "none"}, n : Nat]
Connection == [st : {"none", "queued", "task", "gone"}, at : Listener]

\* Connections and listeners are what they are taken for.
Served == conn \in [Conns -> Connection] /\ bound \subseteq Listener

\* The sockets passed, with the role each is given.
Inherited == {[role |-> RoleOf(i), by |-> "systemd", n |-> i] : i \in Descriptors}

\* What is bound, and what runs, by where main is.
StartInv ==
    /\ phase \in {"parse", "bind"} => bound = {}
    /\ phase \in {"parse", "bind", "sockets", "load", "spawn"} => tasks = {} /\ ended = {}
    /\ phase = "sockets" => bound = Configured
    /\ phase \in {"load", "spawn", "running"} =>
          bound = Configured \union Inherited /\ \A i \in Descriptors : RoleOf(i) \in Roles
    /\ phase = "running" =>
          /\ tasks \union ended = bound
          /\ (\E l \in bound : l.role # "out") => setup.target /\ inner.is = "ok"

\* The files are read only while the process starts, or by the refresh task,
\* which runs only after that; and a read that is done has a pair or an error.
TurnInv ==
    /\ refresh # "off" => phase \in {"running", "exited"}
    /\ reader # "idle" => phase = "load" \/ refresh = "read" \/ phase = "exited"
    /\ refresh = "read" => reader # "idle"
    /\ reader = "cert" => loaded.is = "key" /\ loaded.cert = Whole(0)
    /\ reader = "done" => loaded = Err \/ loaded.is = "ok"
    /\ phase \in {"spawn", "running"} => inner = Err \/ inner.is = "ok"

\* Where the files are settled, unchanged since the last SIGHUP, and that one
\* was received, whatever was read or installed since is of the last renewal.
CurrentInv ==
    Settled /\ ~dirty /\ ~pending =>
        /\ refresh \in {"spawned", "recv"} => inner = PairOf(newest)
        /\ phase = "spawn" => inner = PairOf(newest)
        /\ reader = "cert" => loaded.key = newest
        /\ reader = "done" => loaded = PairOf(newest)

\* A handshake begun in such a state holds a pair that fits.
HandshakeInv ==
    \A c \in Conns :
        hs[c].quiet => hs[c].st # "failed" /\ (hs[c].st = "hello" => Fits(hs[c].pair))

\* The inductive invariant.
IndInv == TypeOK /\ Served /\ StartInv /\ TurnInv /\ CurrentInv /\ HandshakeInv

-----------------------------------------------------------------------------
(* Lemmas.                                                                  *)

\* The pairs that are named are pairs.
LEMMA Pairs ==
    /\ NoPair \in KeyPair /\ NoPair.is = "none"
    /\ Err \in KeyPair /\ Err.is = "err"
    /\ \A r \in Renewal : PairOf(r) \in KeyPair /\ PairOf(r).is = "ok" /\ PairOf(r) # Err
                          /\ Fits(PairOf(r)) /\ Whole(r) \in Content
  <1>1. 0 \in Renewal
    BY RenewalsAssumption DEF Renewal
  <1>2. \A r \in Renewal : Whole(r) \in Content
    BY DEF Whole, Content
  <1>3. NoPair \in KeyPair /\ NoPair.is = "none"
    BY <1>1, <1>2 DEF NoPair, KeyPair
  <1>4. Err \in KeyPair /\ Err.is = "err"
    BY <1>1, <1>2 DEF Err, KeyPair
  <1>5. \A r \in Renewal : PairOf(r) \in KeyPair /\ PairOf(r).is = "ok" /\ Fits(PairOf(r))
    BY <1>2 DEF PairOf, KeyPair, Fits
  <1> QED
    BY <1>2, <1>3, <1>4, <1>5

\* Main's own state is not touched by whoever works on the files and the pair.
LEMMA MainStays ==
    ASSUME IndInv, UNCHANGED mvars, inner' = inner \/ inner'.is = "ok"
    PROVE  /\ Served' /\ StartInv'
           /\ CTypeOK' => TypeOK'
  <1>1. UNCHANGED <<setup, phase, bound, tasks, ended, conn>>
    BY DEF mvars
  <1>2. UNCHANGED <<Configured, Inherited, Descriptors>> /\ \A i : RoleOf(i)' = RoleOf(i)
    BY <1>1 DEF Configured, Inherited, Descriptors, RoleOf, NameOf
  <1>3. Served' /\ (CTypeOK' => TypeOK')
    BY <1>1 DEF IndInv, Served, TypeOK
  <1>4. StartInv'
    BY <1>1, <1>2 DEF IndInv, StartInv
  <1> QED
    BY <1>3, <1>4

\* A write, which nobody is told of yet.
LEMMA WriteIndInv ==
    ASSUME IndInv, Live, Write, UNCHANGED mvars
    PROVE  IndInv'
  <1>1. /\ UNCHANGED <<refresh, reader, loaded, inner, hs>> /\ UNCHANGED <<phase, setup>>
        /\ dirty' = TRUE \/ pending' = TRUE
    BY DEF Write, EditConfig, Sighup, BeginWrite, EndWrite, mvars
  <1>2. CTypeOK'
    <2>1. CASE EditConfig \/ Sighup
      BY <2>1 DEF IndInv, TypeOK, CTypeOK, EditConfig, Sighup
    <2>2. ASSUME NEW f \in Files, BeginWrite(f)
          PROVE  CTypeOK'
      <3>1. newest' \in Renewal
        BY <2>2, RenewalsAssumption DEF IndInv, TypeOK, CTypeOK, BeginWrite, Renewal
      <3>2. PICK st \in TornStates(f) : file' = [file EXCEPT ![f] = [of |-> newest', st |-> st]]
        BY <2>2 DEF BeginWrite
      <3>3. [of |-> newest', st |-> st] \in Content
        BY <3>1, <3>2 DEF Content, TornStates, Torn
      <3>4. file' \in [Files -> Content]
        BY <3>2, <3>3 DEF IndInv, TypeOK, CTypeOK
      <3> QED
        BY <2>2, <3>1, <3>4 DEF IndInv, TypeOK, CTypeOK, BeginWrite
    <2>3. ASSUME NEW f \in Files, EndWrite(f)
          PROVE  CTypeOK'
      <3>1. file' \in [Files -> Content]
        BY <2>3 DEF IndInv, TypeOK, CTypeOK, EndWrite, Content
      <3> QED
        BY <2>3, <3>1 DEF IndInv, TypeOK, CTypeOK, EndWrite
    <2> QED
      BY <2>1, <2>2, <2>3 DEF Write
  <1>3. Served' /\ StartInv' /\ TypeOK'
    BY <1>1, <1>2, MainStays
  <1>4. TurnInv' /\ CurrentInv' /\ HandshakeInv'
    BY <1>1 DEF IndInv, TurnInv, CurrentInv, HandshakeInv
  <1> QED
    BY <1>3, <1>4 DEF IndInv

\* read_certified_key.
LEMMA ReadIndInv ==
    ASSUME IndInv, Live, Read, UNCHANGED mvars
    PROVE  IndInv'
  <1>1. /\ UNCHANGED <<file, newest, config, dirty, pending, refresh, inner, hs>>
        /\ UNCHANGED <<phase, setup>> /\ UNCHANGED Settled /\ reader \in {"key", "cert"}
    BY DEF Read, ReadKey, ReadCert, files, mvars, Settled
  <1>2. CTypeOK
    BY DEF IndInv, TypeOK
  <1>3. CASE ReadKey /\ file["key"].st = "whole"
    <2>1. loaded' = [NoPair EXCEPT !.is = "key", !.key = file["key"].of] /\ reader' = "cert"
      BY <1>3 DEF ReadKey
    <2>2. file["key"].of \in Renewal
      BY <1>2 DEF CTypeOK, Content, Files
    <2>3. loaded' \in KeyPair /\ loaded'.is = "key" /\ loaded'.cert = Whole(0)
          /\ loaded'.key = file["key"].of
      BY <2>1, <2>2, Pairs DEF NoPair, KeyPair
    <2>4. Settled => file["key"].of = newest
      BY DEF Settled, Files, Whole
    <2>5. TypeOK' /\ Served' /\ StartInv'
      BY <1>1, <1>2, <2>1, <2>3, MainStays DEF CTypeOK
    <2>6. TurnInv' /\ CurrentInv' /\ HandshakeInv'
      BY <1>1, <2>1, <2>3, <2>4 DEF IndInv, TurnInv, CurrentInv, HandshakeInv
    <2> QED
      BY <2>5, <2>6 DEF IndInv
  <1>4. CASE \/ ReadKey /\ file["key"].st # "whole"
             \/ ReadCert /\ file["cert"].st = "part"
    <2>1. loaded' = Err /\ reader' = "done"
      BY <1>4 DEF ReadKey, ReadCert
    <2>2. ~Settled
      BY <1>4 DEF Settled, Files, Whole
    <2>3. TypeOK' /\ Served' /\ StartInv'
      BY <1>1, <1>2, <2>1, Pairs, MainStays DEF CTypeOK
    <2>4. TurnInv' /\ CurrentInv' /\ HandshakeInv'
      BY <1>1, <2>1, <2>2 DEF IndInv, TurnInv, CurrentInv, HandshakeInv
    <2> QED
      BY <2>3, <2>4 DEF IndInv
  <1>5. CASE ReadCert /\ file["cert"].st # "part"
    <2>1. /\ reader = "cert" /\ reader' = "done"
          /\ loaded' = [loaded EXCEPT !.is = "ok", !.cert = file["cert"]]
      BY <1>5 DEF ReadCert
    <2>2. file["cert"] \in Content /\ loaded \in KeyPair
      BY <1>2 DEF CTypeOK, Files
    <2>3. loaded' \in KeyPair /\ loaded'.is = "ok"
      BY <2>1, <2>2 DEF KeyPair
    <2>4. Settled => file["cert"] = Whole(newest)
      BY DEF Settled, Files
    <2>5. Settled /\ loaded.key = newest => loaded' = PairOf(newest)
      BY <2>1, <2>2, <2>4 DEF KeyPair, PairOf
    <2>6. TypeOK' /\ Served' /\ StartInv'
      BY <1>1, <1>2, <2>1, <2>3, MainStays DEF CTypeOK
    <2>7. TurnInv' /\ CurrentInv' /\ HandshakeInv'
      BY <1>1, <2>1, <2>3, <2>5 DEF IndInv, TurnInv, CurrentInv, HandshakeInv
    <2> QED
      BY <2>6, <2>7 DEF IndInv
  <1> QED
    BY <1>3, <1>4, <1>5 DEF Read, ReadKey, ReadCert

\* The refresh task.
LEMMA RefreshIndInv ==
    ASSUME IndInv, Live, Refresh, UNCHANGED mvars
    PROVE  IndInv'
  <1>1. /\ UNCHANGED <<file, newest, config, dirty, hs>> /\ UNCHANGED <<phase, setup>>
        /\ UNCHANGED Settled /\ refresh # "off" /\ phase = "running"
    BY DEF Refresh, InstallHandler, Recv, ParseConfig, Replace, files, mvars, Settled, IndInv,
           TurnInv, Live
  <1>2. CTypeOK
    BY DEF IndInv, TypeOK
  <1>3. CASE InstallHandler \/ Recv
    <2>1. UNCHANGED <<reader, loaded, inner>>
      BY <1>3 DEF InstallHandler, Recv
    <2>2. TypeOK' /\ Served' /\ StartInv'
      BY <1>1, <1>2, <1>3, <2>1, MainStays DEF CTypeOK, InstallHandler, Recv
    <2>3. TurnInv' /\ CurrentInv' /\ HandshakeInv'
      BY <1>1, <1>3, <2>1 DEF IndInv, TurnInv, CurrentInv, HandshakeInv, InstallHandler, Recv
    <2> QED
      BY <2>2, <2>3 DEF IndInv
  <1>4. CASE ParseConfig
    <2>1. /\ UNCHANGED <<pending, inner>> /\ refresh' = "read"
          /\ \/ config /\ reader' = "key" /\ UNCHANGED loaded
             \/ ~config /\ reader' = "done" /\ loaded' = Err
      BY <1>4 DEF ParseConfig
    <2>2. ~config => ~Settled
      BY DEF Settled
    <2>3. TypeOK' /\ Served' /\ StartInv'
      BY <1>1, <1>2, <2>1, Pairs, MainStays DEF CTypeOK
    <2>4. TurnInv' /\ CurrentInv' /\ HandshakeInv'
      BY <1>1, <2>1, <2>2 DEF IndInv, TurnInv, CurrentInv, HandshakeInv
    <2> QED
      BY <2>3, <2>4 DEF IndInv
  <1>5. CASE Replace
    <2>1. /\ UNCHANGED pending /\ refresh' = "recv" /\ reader = "done" /\ reader' = "idle"
          /\ loaded' = NoPair /\ inner' = IF loaded = Err THEN inner ELSE loaded
      BY <1>5 DEF Replace
    <2>2. /\ loaded \in KeyPair /\ (loaded = Err \/ loaded.is = "ok")
          /\ inner \in KeyPair /\ inner.is # "key" /\ newest \in Renewal
          /\ inner = Err \/ inner.is = "ok"
      BY <1>1, <1>2, <2>1 DEF CTypeOK, IndInv, TurnInv
    <2>3. /\ inner' \in KeyPair /\ inner'.is # "key"
          /\ inner' = inner \/ inner'.is = "ok"
          /\ inner' = Err \/ inner'.is = "ok"
          /\ loaded = PairOf(newest) => inner' = PairOf(newest)
      BY <2>1, <2>2, Pairs
    <2>4. TypeOK' /\ Served' /\ StartInv'
      BY <1>1, <1>2, <2>1, <2>3, Pairs, MainStays DEF CTypeOK
    <2>5. TurnInv' /\ CurrentInv' /\ HandshakeInv'
      BY <1>1, <2>1, <2>3 DEF IndInv, TurnInv, CurrentInv, HandshakeInv
    <2> QED
      BY <2>4, <2>5 DEF IndInv
  <1> QED
    BY <1>3, <1>4, <1>5 DEF Refresh

\* The roles of the sockets passed, and what listens.
LEMMA Sockets ==
    ASSUME setup \in Setups
    PROVE  /\ Configured \subseteq Listener
           /\ \A i \in Descriptors : RoleOf(i) \in Roles => RoleOf(i) = setup.fds[i].name
           /\ (\A i \in Descriptors : RoleOf(i) \in Roles) => Inherited \subseteq Listener
  <1>1. /\ setup \in Setup
        /\ \A i \in 1..Len(setup.fds) :
              /\ setup.fds[i].listening => setup.fds[i].type # "dgram"
              /\ i <= Len(setup.names) => setup.names[i] = setup.fds[i].name
    BY SetupsAssumption
  <1>2. /\ setup.incoming \subseteq Nat /\ setup.quic \subseteq Nat /\ setup.outgoing \subseteq Nat
        /\ setup.fds \in Seq(Fd)
    BY <1>1 DEF Setup
  <1>3. Configured \subseteq Listener
    BY <1>2 DEF Configured, Listener, Roles
  <1>4. Len(setup.fds) \in Nat
    BY <1>2, LenProperties
  <1>5. ASSUME NEW i \in Descriptors
        PROVE  i \in Nat /\ (RoleOf(i) \in Roles => RoleOf(i) = setup.fds[i].name)
    <2>1. i \in 1..Len(setup.fds) /\ setup.fds[i].listening
      BY <1>5 DEF Descriptors, Usable
    <2>2. i \in Nat /\ RoleOf(i) = NameOf(i)
      BY <1>1, <1>4, <2>1 DEF RoleOf
    <2>3. NameOf(i) \in Roles => NameOf(i) = setup.fds[i].name
      BY <1>1, <2>1 DEF NameOf, NoName, Roles
    <2> QED
      BY <2>2, <2>3
  <1>6. (\A i \in Descriptors : RoleOf(i) \in Roles) => Inherited \subseteq Listener
    BY <1>5 DEF Inherited, Listener
  <1> QED
    BY <1>3, <1>5, <1>6

\* Starting.
LEMMA StartIndInv ==
    ASSUME IndInv, Live, Start
    PROVE  IndInv'
  <1>0. /\ setup \in Setups /\ CTypeOK /\ TypeOK
        /\ UNCHANGED <<setup, conn, file, newest, config, dirty, pending, hs, Settled, ended>>
        /\ UNCHANGED <<Configured, Inherited, Descriptors>> /\ \A i : RoleOf(i)' = RoleOf(i)
    <2>1. UNCHANGED <<setup, conn, file, newest, config, dirty, pending, hs, ended>>
      BY DEF Start, ParseArgs, Bind, ReceiveSockets, LoadKeyPair, Spawn, cvars, files
    <2> QED
      BY <2>1 DEF IndInv, TypeOK, Settled, Configured, Inherited, Descriptors, RoleOf, NameOf
  <1>1. CASE ParseArgs \/ Bind
    <2>1. UNCHANGED <<refresh, reader, loaded, inner, tasks>> /\ phase \in {"parse", "bind"}
      BY <1>1 DEF ParseArgs, Bind, cvars
    <2>2. \/ phase' \in {"bind", "exited"} /\ UNCHANGED bound
          \/ phase' = "sockets" /\ bound' = Configured
      BY <1>1 DEF ParseArgs, Bind, Exit
    <2>3. TypeOK' /\ Served'
      BY <1>0, <2>1, <2>2, Sockets DEF IndInv, TypeOK, CTypeOK, Served, StartInv
    <2>4. StartInv'
      BY <1>0, <2>1, <2>2 DEF IndInv, StartInv
    <2>5. TurnInv' /\ CurrentInv' /\ HandshakeInv'
      BY <1>0, <2>1, <2>2 DEF IndInv, TurnInv, CurrentInv, HandshakeInv
    <2> QED
      BY <2>3, <2>4, <2>5 DEF IndInv
  <1>2. CASE ReceiveSockets
    <2>1. /\ phase = "sockets" /\ UNCHANGED <<refresh, loaded, inner, tasks>>
          /\ \/ /\ phase' = "load" /\ bound' = bound \union Inherited /\ reader' = "key"
                /\ \A i \in Descriptors : RoleOf(i) \in Roles
             \/ phase' = "exited" /\ UNCHANGED <<bound, reader>>
      BY <1>2 DEF ReceiveSockets, Exit, Inherited
    <2>2. bound = Configured /\ tasks = {} /\ ended = {} /\ bound \subseteq Listener
      BY <2>1 DEF IndInv, StartInv, Served
    <2>3. TypeOK' /\ Served'
      BY <1>0, <2>1, <2>2, Sockets DEF IndInv, TypeOK, CTypeOK, Served
    <2>4. StartInv'
      BY <1>0, <2>1, <2>2 DEF StartInv
    <2>5. TurnInv' /\ CurrentInv' /\ HandshakeInv'
      BY <1>0, <2>1 DEF IndInv, TurnInv, CurrentInv, HandshakeInv
    <2> QED
      BY <2>3, <2>4, <2>5 DEF IndInv
  <1>3. CASE LoadKeyPair
    <2>1. /\ phase = "load" /\ reader = "done" /\ inner' = loaded /\ reader' = "idle"
          /\ loaded' = NoPair /\ phase' = "spawn" /\ UNCHANGED <<refresh, bound, tasks>>
      BY <1>3 DEF LoadKeyPair
    <2>2. loaded \in KeyPair /\ (loaded = Err \/ loaded.is = "ok") /\ loaded.is # "key"
      BY <1>0, <2>1, Pairs DEF CTypeOK, IndInv, TurnInv
    <2>3. TypeOK' /\ Served'
      BY <1>0, <2>1, <2>2, Pairs DEF IndInv, TypeOK, CTypeOK, Served
    <2>4. StartInv'
      BY <1>0, <2>1 DEF IndInv, StartInv
    <2>5. TurnInv' /\ CurrentInv' /\ HandshakeInv'
      BY <1>0, <2>1, <2>2 DEF IndInv, TurnInv, CurrentInv, HandshakeInv
    <2> QED
      BY <2>3, <2>4, <2>5 DEF IndInv
  <1>4. CASE Spawn
    <2>1. /\ phase = "spawn" /\ UNCHANGED <<reader, loaded, inner, bound>>
          /\ \/ phase' = "exited" /\ UNCHANGED <<tasks, refresh>>
             \/ /\ phase' = "running" /\ tasks' = bound /\ refresh' \in {"off", "spawned"}
                /\ (\E l \in bound : l.role # "out") => setup.target /\ inner # Err
      BY <1>4 DEF Spawn, Exit
    <2>2. inner = Err \/ inner.is = "ok"
      BY <2>1 DEF IndInv, TurnInv
    <2>3. TypeOK' /\ Served'
      BY <1>0, <2>1 DEF IndInv, TypeOK, CTypeOK, Served
    <2>4. StartInv'
      BY <1>0, <2>1, <2>2 DEF IndInv, StartInv
    <2>5. TurnInv' /\ CurrentInv' /\ HandshakeInv'
      BY <1>0, <2>1, <2>2 DEF IndInv, TurnInv, CurrentInv, HandshakeInv, Live
    <2> QED
      BY <2>3, <2>4, <2>5 DEF IndInv
  <1> QED
    BY <1>1, <1>2, <1>3, <1>4 DEF Start

\* What a handshake is: the records TypeOK has for it.
Hs == [st : {"none", "hello", "ok", "failed"}, pair : KeyPair, quiet : BOOLEAN]

\* Connections and handshakes come and go, a listener may fail, the process may
\* end: the pair and the files are left alone.
LEMMA ServeKeeps ==
    ASSUME IndInv, UNCHANGED <<file, newest, config, dirty, pending, refresh, reader, loaded, inner>>,
           UNCHANGED <<setup, bound>>, phase' \in {phase, "exited"},
           tasks' \subseteq bound, ended' \subseteq bound, tasks' \union ended' = tasks \union ended,
           phase # "running" => UNCHANGED <<tasks, ended>>,
           conn' \in [Conns -> Connection], hs' \in [Conns -> Hs], HandshakeInv'
    PROVE  IndInv'
  <1>1. UNCHANGED <<Configured, Inherited, Descriptors, Settled>> /\ \A i : RoleOf(i)' = RoleOf(i)
    BY DEF Configured, Inherited, Descriptors, RoleOf, NameOf, Settled
  <1>2. TypeOK' /\ Served'
    BY DEF IndInv, TypeOK, CTypeOK, Served, Connection, Hs
  <1>3. StartInv'
    BY <1>1 DEF IndInv, StartInv
  <1>4. TurnInv' /\ CurrentInv'
    BY <1>1 DEF IndInv, TurnInv, CurrentInv
  <1> QED
    BY <1>2, <1>3, <1>4 DEF IndInv

LEMMA ServeIndInv ==
    ASSUME IndInv, Live, Serve \/ Terminate \/ SighupKills
    PROVE  IndInv'
  <1>0. /\ UNCHANGED <<file, newest, config, dirty, pending, refresh, reader, loaded, inner>>
        /\ UNCHANGED <<setup, bound>>
        /\ conn \in [Conns -> Connection] /\ hs \in [Conns -> Hs]
        /\ tasks \subseteq bound /\ ended \subseteq bound /\ bound \subseteq Listener
        /\ inner \in KeyPair /\ newest \in Renewal
    <2>1. /\ UNCHANGED <<file, newest, config, dirty, pending, refresh, reader, loaded, inner>>
          /\ UNCHANGED <<setup, bound>>
      BY DEF Serve, Terminate, SighupKills, Drop, AcceptFails, Arrive, Accept, Handshake, Resolve,
             Sign, Close, cvars, files, mvars
    <2> QED
      BY <2>1 DEF IndInv, Served, TypeOK, CTypeOK, Hs
  <1>1. Gone \in Connection /\ NoHandshake \in Hs
    <2>1. NoListener \in Listener
      BY DEF NoListener, Listener
    <2> QED
      BY <2>1, Pairs DEF Gone, Connection, NoHandshake, Hs
  <1>2. ASSUME NEW l \in tasks, AcceptFails(l)
        PROVE  IndInv'
    <2>1. /\ tasks' = tasks \ {l} /\ ended' = ended \union {l} /\ UNCHANGED <<hs, phase>>
          /\ conn' = [c \in Conns |-> IF conn[c] = [st |-> "queued", at |-> l]
                                      THEN Gone ELSE conn[c]]
      BY <1>2 DEF AcceptFails, cvars
    <2>2. conn' \in [Conns -> Connection]
      BY <1>0, <1>1, <2>1
    <2>3. HandshakeInv' /\ phase = "running"
      BY <1>2, <2>1 DEF IndInv, HandshakeInv, StartInv, TypeOK, Live
    <2> QED
      BY <1>0, <1>2, <2>1, <2>2, <2>3, ServeKeeps
  <1>3. ASSUME NEW l \in tasks, NEW c \in Conns, Arrive(c, l)
        PROVE  IndInv'
    <2>1. /\ UNCHANGED <<hs, phase, tasks, ended>>
          /\ conn' = [conn EXCEPT ![c] = [st |-> "queued", at |-> l]]
      BY <1>3 DEF Arrive, cvars
    <2>2. [st |-> "queued", at |-> l] \in Connection
      BY <1>0, <1>3 DEF Connection
    <2>3. conn' \in [Conns -> Connection]
      BY <1>0, <2>1, <2>2
    <2>4. HandshakeInv'
      BY <2>1 DEF IndInv, HandshakeInv
    <2> QED
      BY <1>0, <2>1, <2>3, <2>4, ServeKeeps
  <1>4. ASSUME NEW c \in Conns, Accept(c)
        PROVE  IndInv'
    <2>1. UNCHANGED <<hs, phase, tasks, ended>> /\ conn' = [conn EXCEPT ![c].st = "task"]
      BY <1>4 DEF Accept, cvars
    <2>2. conn' \in [Conns -> Connection]
      BY <1>0, <2>1 DEF Connection
    <2>3. HandshakeInv'
      BY <2>1 DEF IndInv, HandshakeInv
    <2> QED
      BY <1>0, <2>1, <2>2, <2>3, ServeKeeps
  <1>5. ASSUME NEW c \in Conns, Handshake(c)
        PROVE  IndInv'
    <2>1. UNCHANGED <<phase, tasks, ended, conn>> /\ (Resolve(c) \/ Sign(c))
      BY <1>5 DEF Handshake, mvars
    <2>2. CASE Resolve(c)
      <3> DEFINE h == [st |-> "hello", pair |-> inner, quiet |-> Quiet]
      <3>1. hs' = [hs EXCEPT ![c] = h] /\ Quiet \in BOOLEAN
        BY <2>2 DEF Resolve, Quiet
      <3>2. h \in Hs
        BY <1>0, <3>1 DEF Hs
      <3>3. Quiet => Fits(inner)
        BY <1>0, Pairs DEF Quiet, IndInv, CurrentInv
      <3>4. h.st = "hello" /\ h.pair = inner /\ h.quiet = Quiet
        BY <3>1
      <3> HIDE DEF h
      <3>5. hs' \in [Conns -> Hs] /\ hs'[c] = h /\ \A d \in Conns : d # c => hs'[d] = hs[d]
        BY <1>0, <3>1, <3>2
      <3>6. HandshakeInv'
        BY <3>3, <3>4, <3>5 DEF IndInv, HandshakeInv, Fits
      <3> QED
        BY <1>0, <2>1, <3>5, <3>6, ServeKeeps
    <2>3. CASE Sign(c)
      <3> DEFINE x == IF Fits(hs[c].pair) THEN "ok" ELSE "failed"
      <3>1. hs[c].st = "hello" /\ hs' = [hs EXCEPT ![c].st = x, ![c].pair = NoPair]
        BY <2>3 DEF Sign
      <3>2. x \in {"ok", "failed"} /\ (Fits(hs[c].pair) => x = "ok")
        OBVIOUS
      <3> HIDE DEF x
      <3>3. /\ hs' \in [Conns -> Hs] /\ hs'[c].st = x /\ hs'[c].quiet = hs[c].quiet
            /\ \A d \in Conns : d # c => hs'[d] = hs[d]
        BY <1>0, <3>1, <3>2, Pairs DEF Hs
      <3>4. HandshakeInv'
        BY <3>1, <3>2, <3>3 DEF IndInv, HandshakeInv, Fits
      <3> QED
        BY <1>0, <2>1, <3>3, <3>4, ServeKeeps
    <2> QED
      BY <2>1, <2>2, <2>3
  <1>6. ASSUME NEW c \in Conns, Close(c)
        PROVE  IndInv'
    <2>1. /\ UNCHANGED <<phase, tasks, ended>> /\ conn' = [conn EXCEPT ![c] = Gone]
          /\ hs' = [hs EXCEPT ![c] = NoHandshake]
      BY <1>6 DEF Close
    <2>2. /\ conn' \in [Conns -> Connection] /\ hs' \in [Conns -> Hs]
          /\ hs'[c] = NoHandshake /\ \A d \in Conns : d # c => hs'[d] = hs[d]
      BY <1>0, <1>1, <2>1
    <2>3. HandshakeInv'
      BY <2>2 DEF IndInv, HandshakeInv, NoHandshake, Fits
    <2> QED
      BY <1>0, <2>1, <2>2, <2>3, ServeKeeps
  <1>7. CASE Terminate \/ SighupKills
    <2>1. /\ phase' = "exited" /\ UNCHANGED <<tasks, ended>>
          /\ conn' = [c \in Conns |-> IF conn[c].st = "none" THEN conn[c] ELSE Gone]
          /\ hs' = [c \in Conns |-> NoHandshake]
      BY <1>7 DEF Terminate, SighupKills, Exit, Drop
    <2>2. conn' \in [Conns -> Connection] /\ hs' \in [Conns -> Hs]
      BY <1>0, <1>1, <2>1
    <2>3. HandshakeInv'
      BY <2>1 DEF HandshakeInv, NoHandshake
    <2> QED
      BY <1>0, <2>1, <2>2, <2>3, ServeKeeps
  <1> QED
    BY <1>2, <1>3, <1>4, <1>5, <1>6, <1>7 DEF Serve

-----------------------------------------------------------------------------
(* The inductive invariant.                                                 *)

LEMMA InitIndInv == Init => IndInv
  <1> SUFFICES ASSUME Init
               PROVE  IndInv
    OBVIOUS
  <1>1. /\ 0 \in Renewal /\ NoHandshake \in Hs /\ NoHandshake.quiet = FALSE
        /\ [st |-> "none", at |-> NoListener] \in Connection
    BY RenewalsAssumption, Pairs DEF Renewal, NoHandshake, Hs, Connection, NoListener, Listener
  <1>2. file \in [Files -> Content]
    <2>1. PICK st \in {"whole", "part"} : file = [f \in Files |-> [of |-> 0, st |-> st]]
      BY DEF Init, CInit
    <2>2. [of |-> 0, st |-> st] \in Content
      BY <1>1, <2>1 DEF Content, Torn
    <2> QED
      BY <2>1, <2>2
  <1>3. CTypeOK
    <2>1. hs \in [Conns -> Hs]
      BY <1>1 DEF Init, CInit
    <2>2. config \in BOOLEAN /\ dirty \in BOOLEAN /\ pending \in BOOLEAN
      BY DEF Init, CInit
    <2> QED
      BY <1>1, <1>2, <2>1, <2>2, Pairs DEF Init, CInit, CTypeOK, Hs
  <1>4. Served
    BY <1>1 DEF Init, Served
  <1>5. TypeOK /\ StartInv
    BY <1>1, <1>3 DEF Init, TypeOK, StartInv
  <1>6. TurnInv /\ CurrentInv
    BY DEF Init, CInit, TurnInv, CurrentInv
  <1>7. HandshakeInv
    BY <1>1 DEF Init, CInit, HandshakeInv
  <1> QED
    BY <1>4, <1>5, <1>6, <1>7 DEF IndInv

LEMMA NextIndInv == IndInv /\ [Next]_vars => IndInv'
  <1> SUFFICES ASSUME IndInv, [Next]_vars
               PROVE  IndInv'
    OBVIOUS
  <1>1. CASE UNCHANGED vars
    <2>1. /\ UNCHANGED <<file, newest, config, dirty, pending, refresh, reader, loaded, inner>>
          /\ UNCHANGED <<setup, phase, bound, tasks, ended, conn, hs>>
      BY <1>1 DEF vars, cvars, mvars, files
    <2>2. conn' \in [Conns -> Connection] /\ hs' \in [Conns -> Hs] /\ HandshakeInv'
          /\ tasks \subseteq bound /\ ended \subseteq bound
      BY <2>1 DEF IndInv, Served, TypeOK, CTypeOK, Hs, HandshakeInv
    <2> QED
      BY <2>1, <2>2, ServeKeeps
  <1>2. CASE Next
    BY <1>2, StartIndInv, ServeIndInv, RefreshIndInv, ReadIndInv, WriteIndInv DEF Next
  <1> QED
    BY <1>1, <1>2

LEMMA IndInvHolds == Spec => []IndInv
  BY InitIndInv, NextIndInv, PTL DEF Spec

-----------------------------------------------------------------------------
(* The results.                                                             *)

\* Every variable stays in its range: half a pair is never installed, and only
\* what was bound is served.
THEOREM TypeCorrect == Spec => []TypeOK
  BY IndInvHolds, PTL DEF IndInv

\* Once the files are settled and the SIGHUP sent after the last write is dealt
\* with, the pair installed is the newest, however writes, signals and the two
\* reads of a reload interleaved before; and a handshake that resolves its pair
\* in such a state does not fail on it.
THEOREM QuietCurrent == Spec => []QuietIsCurrent
  <1>1. IndInv => QuietIsCurrent
    BY DEF IndInv, CurrentInv, HandshakeInv, QuietIsCurrent, Quiet
  <1> QED
    BY <1>1, IndInvHolds, PTL

\* A process that runs listens on what its configuration and systemd ask for,
\* each socket under its own name, and on nothing else; and it terminates TLS
\* only with a key pair and a server behind.
THEOREM AsAsked == Spec => []StartedAsAsked
  <1>1. IndInv => StartedAsAsked
    <2> SUFFICES ASSUME IndInv, phase = "running"
                 PROVE  /\ tasks \union ended =
                              Configured \union
                                {[role |-> setup.fds[i].name, by |-> "systemd", n |-> i] :
                                    i \in Descriptors}
                        /\ (\E l \in tasks : l.role # "out") => setup.target /\ inner.is = "ok"
      BY DEF StartedAsAsked, Descriptors
    <2>1. /\ tasks \union ended = Configured \union Inherited
          /\ \A i \in Descriptors : RoleOf(i) \in Roles
          /\ (\E l \in tasks : l.role # "out") => setup.target /\ inner.is = "ok"
      BY DEF IndInv, StartInv
    <2>2. \A i \in Descriptors : RoleOf(i) = setup.fds[i].name
      BY <2>1, Sockets DEF IndInv, TypeOK
    <2>3. Inherited = {[role |-> setup.fds[i].name, by |-> "systemd", n |-> i] : i \in Descriptors}
      BY <2>2 DEF Inherited
    <2> QED
      BY <2>1, <2>3
  <1> QED
    BY <1>1, IndInvHolds, PTL
=============================================================================
