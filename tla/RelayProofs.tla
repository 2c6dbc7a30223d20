---------------------------- MODULE RelayProofs ----------------------------
(***************************************************************************)
(* Proofs about Relay, for every setting of the sides, any number of        *)
(* stanzas and any room in the peers' buffers.                              *)
(***************************************************************************)
EXTENDS Relay, SequenceTheorems, TLAPS

Closers == {"eof", "close", "broken"}
Longs == {"long", "longmessage"}
Token == [is : {"half", "end", "illegal", "message", "ping", "binary"} \union Longs \union Closers,
          n : Nat]

\* Every variable has its type.
Typed ==
    /\ setting \in Settings
    /\ pc \in {"select", "write", "done", "panic"}
    /\ polled \subseteq Side
    /\ pc \in {"select", "write"} => polled # {}
    /\ held \in [Side -> 0..MaxSent]
    /\ full \in [Side -> BOOLEAN]
    /\ res \in [Side -> {"none", "stanza", "err", "eof", "panic"}]
    /\ carry \in [from : Side, half : Nat, end : Nat]
    /\ wire \in [Side -> Seq(Token)]
    /\ begun \in [Side -> 0..MaxSent]
    /\ open \in [Side -> Nat]
    /\ closed \in [Side -> {"no", "yes", "broken"}]
    /\ over \in [Side -> SUBSET Nat]
    /\ inbox \in [Side -> 0..Cap]
    /\ got \in [Side -> Seq(Nat \X Nat)]

\* Places in a peer's output: 2 * n is behind its stanza n, 2 * n - 1 inside it.
\* Where a token begins and where it ends:
Before(t) ==
    CASE t.is \in {"half", "message", "longmessage"} -> 2 * t.n - 2
      [] t.is \in {"end", "illegal", "long"} -> 2 * t.n - 1
      [] OTHER -> 2 * t.n
Behind(t) == IF t.is \in {"half", "illegal", "long"} THEN 2 * t.n - 1 ELSE 2 * t.n

\* Where the relay has read a peer's output to, and where the peer has got to.
Taken(s) == IF pc = "write" /\ carry.from = s THEN Len(got[s]) + 1 ELSE Len(got[s])
ReadTo(s) == IF held[s] # 0 THEN 2 * Taken(s) + 1 ELSE 2 * Taken(s)
SentTo(s) == IF open[s] # 0 THEN 2 * begun[s] - 1 ELSE 2 * begun[s]

\* The tokens of w follow one another from place a to a place up to z, and only
\* the last of them closes.
Flow(w, a, z) ==
    \A i \in 1..Len(w) : w[i].is \notin Closers =>
        /\ Before(w[i]) = IF i = 1 THEN a ELSE Behind(w[i - 1])
        /\ Behind(w[i]) <= z
        /\ \A j \in 1..(i - 1) : w[j].is \notin Closers /\ Behind(w[j]) <= Before(w[i])

\* Nothing closes yet, and w leads to z.
Leads(w, a, z) ==
    /\ \A i \in 1..Len(w) : w[i].is \notin Closers
    /\ z = IF Len(w) = 0 THEN a ELSE Behind(w[Len(w)])

\* Of each stanza that is too long, what makes it so is still on the wire, or
\* it has filled the filter's buffer.
Unread(s, n) == \E i \in 1..Len(wire[s]) : wire[s][i].is \in Longs /\ wire[s][i].n = n

\* While the task runs, the filter, the stanza being written and the wire hold
\* what the peer sent and the other peer was not given, in order.
SideInv(s) ==
    /\ held[s] \in {0, Taken(s) + 1}
    /\ ReadTo(s) <= SentTo(s)
    /\ Flow(wire[s], ReadTo(s), SentTo(s))
    /\ closed[s] = "no" => Leads(wire[s], ReadTo(s), SentTo(s))
    /\ \A n \in over[s] : n > Taken(s) /\ ((full[s] /\ held[s] = n) \/ Unread(s, n))

LiveInv ==
    pc \in {"select", "write"} =>
        /\ \A s \in Side : SideInv(s)
        /\ pc = "write" => /\ carry.half = Len(got[carry.from]) + 1
                           /\ carry.end = carry.half

\* What still holds when the task has ended.
PeerInv ==
    \A s \in Side :
        /\ open[s] \in {0, begun[s]}
        /\ Kind[s] = "websocket" => open[s] = 0
        /\ 2 * Len(got[s]) <= SentTo(s)
        /\ \A n \in over[s] : n > Len(got[s])
        /\ res[s] = "panic" => pc = "panic"

\* The inductive invariant.
IndInv == Typed /\ LiveInv /\ PeerInv /\ RelaysWholeInOrder

-----------------------------------------------------------------------------
(* Lemmas about tokens in a row.                                            *)

LEMMA TokenPlaces ==
    ASSUME NEW t \in Token
    PROVE  Before(t) \in Int /\ Behind(t) \in Int /\ Before(t) <= Behind(t)
  BY DEF Token, Longs, Closers, Before, Behind

\* Sending a token that begins where the peer has got to.
LEMMA FlowAppend ==
    ASSUME NEW w \in Seq(Token), NEW a \in Int, NEW z \in Int, Flow(w, a, z), Leads(w, a, z),
           NEW t \in Token, t.is \notin Closers, Before(t) = z
    PROVE  Flow(Append(w, t), a, Behind(t)) /\ Leads(Append(w, t), a, Behind(t))
  <1> DEFINE v == Append(w, t)
  <1>1. /\ v \in Seq(Token) /\ Len(v) = Len(w) + 1 /\ v[Len(w) + 1] = t
        /\ \A i \in 1..Len(w) : v[i] = w[i] /\ w[i] \in Token
        /\ Len(w) \in Nat
    BY AppendProperties, LenProperties, ElementOfSeq
  <1> HIDE DEF v
  <1>2. Before(t) \in Int /\ Behind(t) \in Int /\ z <= Behind(t)
    BY TokenPlaces
  <1>3. \A i \in 1..Len(w) : /\ w[i].is \notin Closers /\ Behind(w[i]) \in Int /\ Behind(w[i]) <= z
                             /\ Before(w[i]) = IF i = 1 THEN a ELSE Behind(w[i - 1])
                             /\ \A j \in 1..(i - 1) : Behind(w[j]) <= Before(w[i])
    BY <1>1, TokenPlaces DEF Flow, Leads
  <1>4. Leads(v, a, Behind(t))
    BY <1>1, <1>3 DEF Leads
  <1>5. Flow(v, a, Behind(t))
    <2> SUFFICES ASSUME NEW i \in 1..Len(v)
                 PROVE  /\ Before(v[i]) = IF i = 1 THEN a ELSE Behind(v[i - 1])
                        /\ Behind(v[i]) <= Behind(t)
                        /\ \A j \in 1..(i - 1) : v[j].is \notin Closers
                                                 /\ Behind(v[j]) <= Before(v[i])
      BY DEF Flow
    <2>1. CASE i \in 1..Len(w)
      <3>1. i - 1 \in 0..Len(w) /\ v[i] = w[i] /\ (i # 1 => v[i - 1] = w[i - 1])
        BY <1>1, <2>1
      <3>2. Behind(v[i]) <= Behind(t)
        BY <1>2, <1>3, <2>1, <3>1
      <3>3. \A j \in 1..(i - 1) : j \in 1..Len(w) /\ v[j] = w[j]
        BY <1>1, <2>1
      <3> QED
        BY <1>3, <2>1, <3>1, <3>2, <3>3
    <2>2. CASE i = Len(w) + 1
      <3>1. v[i] = t /\ (i # 1 => v[i - 1] = w[Len(w)]) /\ (i = 1 => Len(w) = 0)
        BY <1>1, <2>2
      <3>2. \A j \in 1..(i - 1) : v[j] = w[j] /\ w[j].is \notin Closers /\ Behind(w[j]) <= z
        BY <1>1, <1>3, <2>2
      <3>3. z = IF i = 1 THEN a ELSE Behind(v[i - 1])
        BY <1>1, <2>2, <3>1 DEF Leads
      <3> QED
        BY <1>2, <3>1, <3>2, <3>3
    <2> QED
      BY <1>1, <2>1, <2>2
  <1> QED
    BY <1>4, <1>5 DEF v

\* Closing.
LEMMA FlowCloses ==
    ASSUME NEW w \in Seq(Token), NEW a \in Int, NEW z \in Int, Flow(w, a, z),
           NEW t \in Token, t.is \in Closers
    PROVE  Flow(Append(w, t), a, z)
  <1> DEFINE v == Append(w, t)
  <1>1. /\ Len(v) = Len(w) + 1 /\ v[Len(w) + 1] = t
        /\ \A i \in 1..Len(w) : v[i] = w[i]
        /\ Len(w) \in Nat
    BY AppendProperties, LenProperties
  <1> HIDE DEF v
  <1>2. Flow(v, a, z)
    <2> SUFFICES ASSUME NEW i \in 1..Len(v), v[i].is \notin Closers
                 PROVE  /\ Before(v[i]) = IF i = 1 THEN a ELSE Behind(v[i - 1])
                        /\ Behind(v[i]) <= z
                        /\ \A j \in 1..(i - 1) : v[j].is \notin Closers
                                                 /\ Behind(v[j]) <= Before(v[i])
      BY DEF Flow
    <2>1. i \in 1..Len(w) /\ v[i] = w[i] /\ (i # 1 => v[i - 1] = w[i - 1])
          /\ \A j \in 1..(i - 1) : v[j] = w[j]
      BY <1>1
    <2> QED
      BY <2>1 DEF Flow
  <1> QED
    BY <1>2 DEF v

\* Reading the first token.
LEMMA FlowTail ==
    ASSUME NEW w \in Seq(Token), NEW a \in Int, NEW z \in Int, Flow(w, a, z),
           w # <<>>, Head(w).is \notin Closers
    PROVE  /\ Head(w) \in Token /\ Head(w) = w[1] /\ Tail(w) \in Seq(Token)
           /\ Before(Head(w)) = a /\ Behind(Head(w)) <= z
           /\ Flow(Tail(w), Behind(Head(w)), z)
           /\ Leads(w, a, z) => Leads(Tail(w), Behind(Head(w)), z)
           /\ \A i \in 2..Len(w) : /\ i - 1 \in 1..Len(Tail(w)) /\ Tail(w)[i - 1] = w[i]
                                   /\ w[i] \in Token
                                   /\ w[i].is \notin Closers => Behind(Head(w)) <= Before(w[i])
  <1> DEFINE v == Tail(w)
             t == Head(w)
  <1>1. /\ t \in Token /\ t = w[1] /\ v \in Seq(Token) /\ Len(v) = Len(w) - 1
        /\ Len(w) \in Nat \ {0}
        /\ \A i \in 1..Len(v) : v[i] = w[i + 1]
        /\ \A i \in 1..Len(w) : w[i] \in Token
    BY HeadTailProperties, LenProperties, EmptySeq, ElementOfSeq
  <1> HIDE DEF v, t
  <1>2. Before(t) = a /\ Behind(t) <= z
    BY <1>1 DEF Flow, t
  <1>3. \A i \in 2..Len(w) : i - 1 \in 1..Len(v) /\ v[i - 1] = w[i]
                             /\ (w[i].is \notin Closers => Behind(t) <= Before(w[i]))
    BY <1>1 DEF Flow, t
  <1>4. Flow(v, Behind(t), z)
    <2> SUFFICES ASSUME NEW i \in 1..Len(v), v[i].is \notin Closers
                 PROVE  /\ Before(v[i]) = IF i = 1 THEN Behind(t) ELSE Behind(v[i - 1])
                        /\ Behind(v[i]) <= z
                        /\ \A j \in 1..(i - 1) : v[j].is \notin Closers
                                                 /\ Behind(v[j]) <= Before(v[i])
      BY DEF Flow
    <2>1. /\ i + 1 \in 1..Len(w) /\ v[i] = w[i + 1] /\ i + 1 # 1 /\ (i + 1) - 1 = i
          /\ i # 1 => v[i - 1] = w[i]
          /\ \A j \in 1..(i - 1) : v[j] = w[j + 1] /\ j + 1 \in 1..((i + 1) - 1)
      <3>1. i # 1 => i - 1 \in 1..Len(v) /\ (i - 1) + 1 = i
        BY <1>1
      <3>2. i # 1 => v[i - 1] = w[i]
        BY <1>1, <3>1
      <3>3. \A j \in 1..(i - 1) : j \in 1..Len(v) /\ j + 1 \in 1..((i + 1) - 1)
        BY <1>1
      <3>4. i + 1 \in 1..Len(w) /\ i + 1 # 1 /\ (i + 1) - 1 = i
        BY <1>1
      <3> QED
        BY <1>1, <3>2, <3>3, <3>4
    <2>2. /\ Before(w[i + 1]) = Behind(w[i]) /\ Behind(w[i + 1]) <= z
          /\ \A j \in 1..((i + 1) - 1) : w[j].is \notin Closers
                                         /\ Behind(w[j]) <= Before(w[i + 1])
      BY <2>1 DEF Flow
    <2> QED
      BY <1>1, <2>1, <2>2
  <1>5. Leads(w, a, z) => Leads(v, Behind(t), z)
    BY <1>1 DEF Leads
  <1> QED
    BY <1>1, <1>2, <1>3, <1>4, <1>5 DEF v, t

-----------------------------------------------------------------------------
(* Lemmas about one side.                                                   *)

LEMMA Places ==
    ASSUME Typed, NEW s \in Side
    PROVE  /\ Len(got[s]) \in Nat /\ Taken(s) \in Nat
           /\ ReadTo(s) \in Nat /\ SentTo(s) \in Int
           /\ wire[s] \in Seq(Token) /\ held[s] \in Nat /\ over[s] \subseteq Nat
           /\ full[s] \in BOOLEAN
  <1>1. Len(got[s]) \in Nat
    BY LenProperties DEF Typed
  <1>2. begun[s] \in Nat /\ held[s] \in Nat
    BY RelayAssumption DEF Typed
  <1>3. wire[s] \in Seq(Token) /\ over[s] \subseteq Nat /\ full[s] \in BOOLEAN
    BY DEF Typed
  <1>4. Taken(s) \in Nat
    BY <1>1 DEF Taken
  <1>5. ReadTo(s) \in Nat
    BY <1>4 DEF ReadTo
  <1>6. SentTo(s) \in Int
    BY <1>2 DEF SentTo
  <1> QED
    BY <1>1, <1>2, <1>3, <1>4, <1>5, <1>6

LEMMA SideStays ==
    ASSUME NEW s \in Side, SideInv(s),
           UNCHANGED <<wire[s], held[s], full[s], begun[s], open[s], closed[s], over[s]>>,
           Taken(s)' = Taken(s)
    PROVE  SideInv(s)'
  BY DEF SideInv, ReadTo, SentTo, Unread

\* The peer sends a token that begins where it has got to.
LEMMA SideSends ==
    ASSUME Typed, NEW s \in Side, SideInv(s), closed[s] = "no",
           NEW t \in Token, t.is \notin Closers, wire'[s] = Append(wire[s], t),
           UNCHANGED <<held[s], full[s], closed[s]>>, Taken(s)' = Taken(s),
           Before(t) = SentTo(s), SentTo(s)' = Behind(t),
           over'[s] = over[s] \/ (over'[s] = over[s] \union {t.n} /\ t.is \in Longs)
    PROVE  SideInv(s)'
  <1>1. ReadTo(s)' = ReadTo(s)
    BY DEF ReadTo
  <1>2. /\ ReadTo(s) \in Nat /\ SentTo(s) \in Int /\ wire[s] \in Seq(Token) /\ Taken(s) \in Nat
        /\ ReadTo(s) >= 2 * Taken(s)
    BY Places DEF ReadTo
  <1>3. /\ Flow(wire'[s], ReadTo(s), Behind(t)) /\ Leads(wire'[s], ReadTo(s), Behind(t))
    BY <1>2, FlowAppend DEF SideInv
  <1>4. ReadTo(s) <= Behind(t) /\ t.n \in Nat /\ (t.is \in Longs => t.n > Taken(s))
    BY <1>2, TokenPlaces DEF SideInv, Before, Longs, Token
  <1>5. \A n \in over'[s] : (full[s] /\ held[s] = n) \/ Unread(s, n)'
    <2>1. /\ Len(wire[s]) \in Nat /\ Len(wire'[s]) = Len(wire[s]) + 1
          /\ wire'[s][Len(wire[s]) + 1] = t
          /\ \A i \in 1..Len(wire[s]) : wire'[s][i] = wire[s][i]
      BY <1>2, AppendProperties, LenProperties
    <2>2. \A n : Unread(s, n) => Unread(s, n)'
      BY <2>1 DEF Unread
    <2>3. t.is \in Longs => Unread(s, t.n)'
      BY <2>1 DEF Unread
    <2> QED
      BY <2>2, <2>3 DEF SideInv
  <1> QED
    BY <1>1, <1>3, <1>4, <1>5 DEF SideInv

\* The relay reads a token; what is read after it is not before it.
LEMMA SideTakes ==
    ASSUME Typed, NEW s \in Side, SideInv(s), NEW x, x \notin Closers, Takes(s, x),
           UNCHANGED <<begun[s], open[s], closed[s], over[s]>>,
           held'[s] \in {0, Taken(s)' + 1}, Taken(s)' \in Nat,
           ReadTo(s)' = Behind(Head(wire[s])),
           x # "longmessage", full'[s] = (x = "long"),
           x = "long" => held'[s] = Head(wire[s]).n
    PROVE  SideInv(s)'
  <1> DEFINE t == Head(wire[s])
  <1>1. /\ wire[s] \in Seq(Token) /\ wire[s] # <<>> /\ t.is = x /\ wire'[s] = Tail(wire[s]) /\ ~full[s]
        /\ ReadTo(s) \in Nat /\ SentTo(s) \in Int /\ over[s] \subseteq Nat
    BY Places DEF Takes, Polling, Typed
  <1>2. /\ t \in Token /\ t = wire[s][1] /\ Behind(t) <= SentTo(s)
        /\ Flow(wire'[s], Behind(t), SentTo(s))
        /\ closed[s] = "no" => Leads(wire'[s], Behind(t), SentTo(s))
        /\ \A i \in 2..Len(wire[s]) :
              /\ i - 1 \in 1..Len(wire'[s]) /\ wire'[s][i - 1] = wire[s][i] /\ wire[s][i] \in Token
              /\ wire[s][i].is \notin Closers => Behind(t) <= Before(wire[s][i])
    BY <1>1, FlowTail DEF SideInv
  <1> HIDE DEF t
  <1>3. SentTo(s)' = SentTo(s)
    BY DEF SentTo
  <1>4. ASSUME NEW n \in over[s]
        PROVE  n > Taken(s)' /\ ((full'[s] /\ held'[s] = n) \/ Unread(s, n)')
    <2>1. PICK i \in 1..Len(wire[s]) : wire[s][i].is \in Longs /\ wire[s][i].n = n
      BY <1>1, <1>4 DEF SideInv, Unread
    <2>2. n \in Nat /\ Len(wire[s]) \in Nat
      BY <1>1, <1>4, LenProperties
    <2>3. Behind(t) \in Int /\ Behind(t) >= 2 * Taken(s)' /\ (held'[s] # 0 => Behind(t) > 2 * Taken(s)')
      BY <1>2, TokenPlaces DEF ReadTo, t
    <2>4. CASE i = 1
      <3>1. x = "long" /\ t.n = n /\ Behind(t) = 2 * n - 1
        BY <1>1, <1>2, <2>1, <2>4 DEF Longs, Behind, t
      <3> QED
        <4>1. full'[s] /\ held'[s] = n
          BY <3>1 DEF t
        <4>2. n > Taken(s)'
          BY <2>2, <2>3, <3>1
        <4> QED
          BY <4>1, <4>2
    <2>5. CASE i # 1
      <3>1. i \in 2..Len(wire[s])
        BY <2>2, <2>5
      <3>2. Unread(s, n)'
        <4> DEFINE j == i - 1
        <4>1. j \in 1..Len(wire'[s]) /\ wire'[s][j].is \in Longs /\ wire'[s][j].n = n
          BY <1>2, <2>1, <3>1
        <4> QED
          BY <4>1 DEF Unread
      <3>3. Behind(t) <= Before(wire[s][i]) /\ Before(wire[s][i]) <= 2 * n - 1
            /\ Before(wire[s][i]) \in Int
        <4>1. wire[s][i].is \notin Closers /\ Before(wire[s][i]) <= 2 * n - 1
          BY <2>1, <2>2 DEF Longs, Closers, Before
        <4> QED
          BY <1>2, <3>1, <4>1, TokenPlaces
      <3> QED
        BY <2>2, <2>3, <3>2, <3>3
    <2> QED
      BY <2>4, <2>5
  <1> QED
    BY <1>2, <1>3, <1>4 DEF SideInv, t

-----------------------------------------------------------------------------
(* The inductive invariant.                                                 *)

LEMMA InitIndInv == Init => IndInv
  <1> SUFFICES ASSUME Init
               PROVE  IndInv
    OBVIOUS
  <1>1. \A S : <<>> \in Seq(S) /\ Len(<<>>) = 0
    BY EmptySeq
  <1>2. \A s \in Side : /\ wire[s] = <<>> /\ got[s] = <<>> /\ held[s] = 0 /\ begun[s] = 0
                        /\ open[s] = 0 /\ over[s] = {} /\ res[s] = "none" /\ closed[s] = "no"
    BY DEF Init
  <1>3. Typed
    <2>1. wire \in [Side -> Seq(Token)] /\ got \in [Side -> Seq(Nat \X Nat)]
      BY <1>1 DEF Init
    <2>2. carry \in [from : Side, half : Nat, end : Nat]
      BY DEF Init, None, Side
    <2>3. full \in [Side -> BOOLEAN] /\ over \in [Side -> SUBSET Nat]
      BY DEF Init
    <2> QED
      BY <2>1, <2>2, <2>3, RelayAssumption DEF Init, Typed, Side
  <1>4. LiveInv
    <2>1. ASSUME NEW s \in Side
          PROVE  SideInv(s)
      <3>1. Len(wire[s]) = 0 /\ Len(got[s]) = 0
        BY <1>1, <1>2
      <3>2. Taken(s) = 0 /\ ReadTo(s) = 0 /\ SentTo(s) = 0
        BY <1>2, <3>1 DEF Init, Taken, ReadTo, SentTo
      <3> QED
        BY <1>2, <3>1, <3>2 DEF SideInv, Flow, Leads
    <2> QED
      BY <2>1 DEF LiveInv, Init
  <1>5. PeerInv
    BY <1>1, <1>2 DEF PeerInv, SentTo
  <1>6. RelaysWholeInOrder
    <2>1. \A s \in Side : DOMAIN got[s] = {}
      BY <1>1, <1>2
    <2> QED
      BY <2>1 DEF RelaysWholeInOrder
  <1> QED
    BY <1>3, <1>4, <1>5, <1>6 DEF IndInv

\* A peer sends.
LEMMA PeerSendsKeeps ==
    ASSUME IndInv, NEW s \in Side, closed[s] = "no",
           NEW t \in Token, t.is \notin Closers, Send(s, t), Before(t) = SentTo(s),
           UNCHANGED <<rvars, setting, inbox, closed>>,
           NEW b \in 0..MaxSent, NEW o \in {0, b}, NEW l \in SUBSET Nat,
           begun' = [begun EXCEPT ![s] = b], open' = [open EXCEPT ![s] = o],
           over' = [over EXCEPT ![s] = l],
           Behind(t) = IF o # 0 THEN 2 * b - 1 ELSE 2 * b,
           Kind[s] = "websocket" => o = 0,
           l = over[s] \/ (l = over[s] \union {t.n} /\ t.is \in Longs)
    PROVE  IndInv'
  <1> USE DEF IndInv
  <1>1. UNCHANGED <<pc, polled, held, full, res, carry, got, setting, inbox, closed, Kind>>
    BY DEF rvars, Kind
  <1>2. /\ wire'[s] = Append(wire[s], t) /\ wire' \in [Side -> Seq(Token)]
        /\ \A r \in Side : r # s => wire'[r] = wire[r]
    <2>1. Append(wire[s], t) \in Seq(Token)
      BY AppendProperties DEF Typed
    <2> QED
      BY <2>1 DEF Send, Typed
  <1>3. /\ begun'[s] = b /\ open'[s] = o /\ over'[s] = l
        /\ \A r \in Side : r # s => UNCHANGED <<begun[r], open[r], over[r]>>
    BY DEF Typed
  <1>4. Typed'
    <2>a. o \in Nat
      BY RelayAssumption
    <2>1. open' \in [Side -> Nat]
      BY <2>a DEF Typed
    <2>2. begun' \in [Side -> 0..MaxSent] /\ over' \in [Side -> SUBSET Nat]
      BY DEF Typed
    <2> QED
      BY <1>1, <1>2, <2>1, <2>2 DEF Typed
  <1>5. SentTo(s)' = Behind(t) /\ \A r \in Side : r # s => SentTo(r)' = SentTo(r)
    <2>1. SentTo(s)' = IF open'[s] # 0 THEN 2 * begun'[s] - 1 ELSE 2 * begun'[s]
      BY DEF SentTo
    <2>2. SentTo(s)' = Behind(t)
      BY <1>3, <2>1
    <2>3. \A r \in Side : r # s => SentTo(r)' = SentTo(r)
      BY <1>3 DEF SentTo
    <2> QED
      BY <2>2, <2>3
  <1>6. LiveInv'
    <2>1. SUFFICES ASSUME pc \in {"select", "write"}, NEW r \in Side
                   PROVE  SideInv(r)'
      BY <1>1 DEF LiveInv
    <2>2. SideInv(r) /\ Taken(r)' = Taken(r)
      BY <1>1, <2>1 DEF LiveInv, Taken
    <2>3. CASE r = s
      BY <1>1, <1>2, <1>3, <1>5, <2>2, <2>3, SideSends
    <2>4. CASE r # s
      BY <1>1, <1>2, <1>3, <2>2, <2>4, SideStays
    <2> QED
      BY <2>3, <2>4
  <1>7. PeerInv'
    <2>1. Before(t) <= Behind(t) /\ Before(t) \in Int /\ Behind(t) \in Int
      BY TokenPlaces
    <2>2. 2 * Len(got[s]) <= SentTo(s) /\ Len(got[s]) \in Nat
      BY Places DEF PeerInv
    <2>3. t.is \in Longs => t.n > Len(got[s])
      BY <2>2 DEF Longs, Before, Token
    <2> SUFFICES ASSUME NEW r \in Side
                 PROVE  /\ open'[r] \in {0, begun'[r]}
                        /\ Kind[r] = "websocket" => open'[r] = 0
                        /\ 2 * Len(got[r]) <= SentTo(r)'
                        /\ \A n \in over'[r] : n > Len(got[r])
                        /\ res[r] = "panic" => pc = "panic"
      BY <1>1 DEF PeerInv
    <2>4. CASE r = s
      <3>1. 2 * Len(got[s]) <= SentTo(s)'
        BY <1>5, <2>1, <2>2
      <3> QED
        BY <1>3, <2>3, <2>4, <3>1 DEF PeerInv
    <2>5. CASE r # s
      BY <1>3, <1>5, <2>5 DEF PeerInv
    <2> QED
      BY <2>4, <2>5
  <1>8. RelaysWholeInOrder'
    BY <1>1 DEF RelaysWholeInOrder
  <1> QED
    BY <1>4, <1>6, <1>7, <1>8

\* The task reads a token that closes nothing, and goes on.
LEMMA TakeKeeps ==
    ASSUME IndInv, NEW s \in Side, NEW x, x \notin Closers, Takes(s, x), Stay, got' = got,
           \A r \in Side : r # s => held'[r] = held[r] /\ full'[r] = full[r]
                                    /\ Taken(r)' = Taken(r),
           held'[s] \in {0, Taken(s)' + 1}, Taken(s)' \in Nat,
           ReadTo(s)' = Behind(Head(wire[s])),
           x # "longmessage", full'[s] = (x = "long"),
           x = "long" => held'[s] = Head(wire[s]).n
    PROVE  \A r \in Side : SideInv(r)'
  <1> SUFFICES ASSUME NEW r \in Side
               PROVE  SideInv(r)'
    OBVIOUS
  <1>1. SideInv(r) /\ Typed
    BY DEF IndInv, LiveInv, Takes, Polling
  <1>2. UNCHANGED <<begun[r], open[r], closed[r], over[r]>>
    BY DEF Stay
  <1>3. r # s => wire'[r] = wire[r]
    BY <1>1 DEF Takes, Typed
  <1>4. CASE r = s
    BY <1>1, <1>2, <1>4, SideTakes
  <1>5. CASE r # s
    BY <1>1, <1>2, <1>3, <1>5, SideStays
  <1> QED
    BY <1>4, <1>5

\* A place tells the stanza, and whether it is in progress.
LEMMA Parity ==
    ASSUME NEW n \in Nat, NEW l \in Nat, NEW h \in {0, l + 1},
           NEW p, p = IF h # 0 THEN 2 * l + 1 ELSE 2 * l
    PROVE  /\ p = 2 * n - 2 => n = l + 1 /\ h = 0
           /\ p = 2 * n - 1 => n = l + 1 /\ h = l + 1
  OBVIOUS

\* What is known of the first token on a wire that is read.
LEMMA TakeFacts ==
    ASSUME IndInv, NEW s \in Side, NEW x, x \notin Closers, Takes(s, x)
    PROVE  /\ pc = "select" /\ SideInv(s) /\ full[s] = FALSE
           /\ Head(wire[s]) \in Token /\ Head(wire[s]).is = x
           /\ Before(Head(wire[s])) = ReadTo(s) /\ Behind(Head(wire[s])) <= SentTo(s)
           /\ wire' \in [Side -> Seq(Token)]
           /\ Taken(s) = Len(got[s]) /\ Len(got[s]) \in Nat /\ held[s] \in {0, Len(got[s]) + 1}
           /\ x \in {"half", "message"} => /\ Head(wire[s]).n = Len(got[s]) + 1 /\ held[s] = 0
                                           /\ Head(wire[s]).n \in 0..MaxSent
           /\ x \in {"end", "long"} => /\ Head(wire[s]).n = Len(got[s]) + 1
                                       /\ held[s] = Len(got[s]) + 1
  <1>1. /\ pc = "select" /\ SideInv(s) /\ Typed /\ full[s] = FALSE
        /\ Head(wire[s]).is = x /\ wire[s] # <<>>
        /\ wire' = [wire EXCEPT ![s] = Tail(@)]
    BY DEF IndInv, LiveInv, Takes, Polling, Typed
  <1>2. /\ Len(got[s]) \in Nat /\ ReadTo(s) \in Nat /\ SentTo(s) \in Int /\ wire[s] \in Seq(Token)
    BY <1>1, Places
  <1>3. /\ Head(wire[s]) \in Token /\ Tail(wire[s]) \in Seq(Token)
        /\ Before(Head(wire[s])) = ReadTo(s) /\ Behind(Head(wire[s])) <= SentTo(s)
    BY <1>1, <1>2, FlowTail DEF SideInv
  <1>4. wire' \in [Side -> Seq(Token)]
    BY <1>1, <1>3 DEF Typed
  <1>5. Taken(s) = Len(got[s]) /\ held[s] \in {0, Len(got[s]) + 1}
    BY <1>1 DEF Taken, SideInv
  <1>6. begun[s] \in 0..MaxSent /\ MaxSent \in Nat
    BY <1>1, RelayAssumption DEF Typed
  <1>7. SentTo(s) <= 2 * begun[s]
    BY <1>6 DEF SentTo
  <1> DEFINE n == Head(wire[s]).n
             l == Len(got[s])
  <1>8. n \in Nat /\ ReadTo(s) = IF held[s] # 0 THEN 2 * l + 1 ELSE 2 * l
    BY <1>3, <1>5 DEF Token, ReadTo
  <1>9. /\ x \in {"half", "message"} => ReadTo(s) = 2 * n - 2 /\ 2 * n - 1 <= SentTo(s)
        /\ x \in {"end", "long"} => ReadTo(s) = 2 * n - 1
    BY <1>1, <1>2, <1>3, <1>8 DEF Before, Behind
  <1> HIDE DEF n, l
  <1>10. /\ ReadTo(s) = 2 * n - 2 => n = l + 1 /\ held[s] = 0
         /\ ReadTo(s) = 2 * n - 1 => n = l + 1 /\ held[s] = l + 1
    BY <1>2, <1>5, <1>8, Parity DEF l
  <1>11. x \in {"half", "message"} => n \in 0..MaxSent
    BY <1>2, <1>6, <1>7, <1>8, <1>9
  <1> QED
    BY <1>1, <1>2, <1>3, <1>4, <1>5, <1>9, <1>10, <1>11 DEF n, l

\* What does not depend on how the task reads.
LEMMA ReadFrame ==
    ASSUME IndInv, Stay, got' = got, \A r \in Side : res'[r] = "panic" => pc' = "panic"
    PROVE  PeerInv' /\ RelaysWholeInOrder'
  BY DEF IndInv, Stay, PeerInv, RelaysWholeInOrder, SentTo, Kind

LEMMA PeerIndInv ==
    ASSUME IndInv, NEW s \in Side,
           \/ PeerBegins(s) \/ PeerFinishes(s) \/ PeerMisbehaves(s)
           \/ PeerMessage(s) \/ PeerPings(s) \/ PeerReads(s)
           \/ PeerCloses(s) \/ PeerBreaks(s)
    PROVE  IndInv'
  <1> USE RelayAssumption
  <1>1. /\ Typed /\ begun[s] \in 0..MaxSent /\ begun[s] \in Nat /\ open[s] \in {0, begun[s]}
        /\ Kind[s] = "websocket" => open[s] = 0
        /\ begun = [begun EXCEPT ![s] = begun[s]] /\ open = [open EXCEPT ![s] = open[s]]
        /\ over = [over EXCEPT ![s] = over[s]] /\ over[s] \in SUBSET Nat
    <2>1. /\ Typed /\ open[s] \in {0, begun[s]} /\ (Kind[s] = "websocket" => open[s] = 0)
      BY DEF IndInv, PeerInv
    <2>2. begun = [begun EXCEPT ![s] = begun[s]]
      BY <2>1 DEF Typed
    <2>3. open = [open EXCEPT ![s] = open[s]]
      BY <2>1 DEF Typed
    <2>4. over = [over EXCEPT ![s] = over[s]] /\ over[s] \in SUBSET Nat
      BY <2>1 DEF Typed
    <2>5. begun[s] \in 0..MaxSent /\ begun[s] \in Nat
      BY <2>1 DEF Typed
    <2> QED
      BY <2>1, <2>2, <2>3, <2>4, <2>5
  <1>2. CASE PeerBegins(s)
    <2> DEFINE n == begun[s] + 1
               t == [is |-> "half", n |-> n]
    <2>1. t \in Token /\ t.is \notin Closers /\ Before(t) = 2 * begun[s] /\ Behind(t) = 2 * n - 1
      BY <1>1 DEF Token, Closers, Longs, Before, Behind
    <2>2. SentTo(s) = 2 * begun[s] /\ n \in 0..MaxSent /\ n # 0 /\ Kind[s] # "websocket"
      BY <1>1, <1>2 DEF PeerBegins, SentTo
    <2>3. /\ closed[s] = "no" /\ Send(s, t) /\ UNCHANGED <<rvars, setting, inbox, closed>>
          /\ begun' = [begun EXCEPT ![s] = n] /\ open' = [open EXCEPT ![s] = n] /\ over' = over
      BY <1>2 DEF PeerBegins
    <2> HIDE DEF n, t
    <2> QED
      BY <1>1, <2>1, <2>2, <2>3, PeerSendsKeeps
  <1>3. CASE PeerFinishes(s)
    <2> DEFINE t == [is |-> "end", n |-> open[s]]
    <2>1. open[s] = begun[s] /\ open[s] # 0
      BY <1>1, <1>3 DEF PeerFinishes
    <2>2. t \in Token /\ t.is \notin Closers /\ Before(t) = SentTo(s) /\ Behind(t) = 2 * begun[s]
      BY <1>1, <2>1 DEF Token, Closers, Longs, Before, Behind, SentTo
    <2>3. /\ closed[s] = "no" /\ Send(s, t) /\ UNCHANGED <<rvars, setting, inbox, closed>>
          /\ begun' = begun /\ open' = [open EXCEPT ![s] = 0] /\ over' = over
      BY <1>3 DEF PeerFinishes
    <2> HIDE DEF t
    <2> QED
      BY <1>1, <2>2, <2>3, PeerSendsKeeps
  <1>4. CASE PeerMisbehaves(s)
    <2>1. /\ open[s] = begun[s] /\ open[s] # 0 /\ Kind[s] # "websocket"
          /\ closed[s] = "no" /\ UNCHANGED <<rvars, setting, inbox, closed>>
          /\ begun' = [begun EXCEPT ![s] = begun[s]] /\ open' = [open EXCEPT ![s] = begun[s]]
      BY <1>1, <1>4 DEF PeerMisbehaves
    <2>2. CASE Send(s, [is |-> "illegal", n |-> open[s]]) /\ UNCHANGED over
      <3> DEFINE t == [is |-> "illegal", n |-> open[s]]
      <3>1. t \in Token /\ t.is \notin Closers /\ Before(t) = SentTo(s)
            /\ Behind(t) = 2 * begun[s] - 1
        BY <1>1, <2>1 DEF Token, Closers, Longs, Before, Behind, SentTo
      <3>2. Send(s, t)
        BY <2>2
      <3> HIDE DEF t
      <3> QED
        BY <1>1, <2>1, <2>2, <3>1, <3>2, PeerSendsKeeps
    <2>3. CASE /\ Send(s, [is |-> "long", n |-> open[s]])
               /\ over' = [over EXCEPT ![s] = @ \union {open[s]}]
      <3> DEFINE t == [is |-> "long", n |-> open[s]]
      <3>1. /\ t \in Token /\ t.is \notin Closers /\ Before(t) = SentTo(s)
            /\ Behind(t) = 2 * begun[s] - 1 /\ t.is \in Longs /\ t.n = open[s]
        BY <1>1, <2>1 DEF Token, Closers, Longs, Before, Behind, SentTo
      <3>2. /\ Send(s, t) /\ over' = [over EXCEPT ![s] = over[s] \union {t.n}]
            /\ over[s] \union {t.n} \in SUBSET Nat
        BY <1>1, <2>1, <2>3
      <3> HIDE DEF t
      <3> QED
        BY <1>1, <2>1, <3>1, <3>2, PeerSendsKeeps
    <2> QED
      BY <1>4, <2>2, <2>3 DEF PeerMisbehaves
  <1>5. CASE PeerMessage(s)
    <2> DEFINE n == begun[s] + 1
    <2>1. /\ closed[s] = "no" /\ UNCHANGED <<rvars, setting, inbox, closed, open>>
          /\ begun' = [begun EXCEPT ![s] = n] /\ n \in 0..MaxSent
          /\ open[s] = 0 /\ SentTo(s) = 2 * begun[s]
      BY <1>1, <1>5 DEF PeerMessage, SentTo
    <2>2. CASE Send(s, [is |-> "message", n |-> n]) /\ UNCHANGED over
      <3> DEFINE t == [is |-> "message", n |-> n]
      <3>1. t \in Token /\ t.is \notin Closers /\ Before(t) = SentTo(s) /\ Behind(t) = 2 * n
        BY <1>1, <2>1 DEF Token, Closers, Longs, Before, Behind
      <3>2. Send(s, t)
        BY <2>2
      <3> HIDE DEF t, n
      <3> QED
        BY <1>1, <2>1, <2>2, <3>1, <3>2, PeerSendsKeeps
    <2>3. CASE /\ Send(s, [is |-> "longmessage", n |-> n])
               /\ over' = [over EXCEPT ![s] = @ \union {n}]
      <3> DEFINE t == [is |-> "longmessage", n |-> n]
      <3>1. /\ t \in Token /\ t.is \notin Closers /\ Before(t) = SentTo(s) /\ Behind(t) = 2 * n
            /\ t.is \in Longs /\ t.n = n
        BY <1>1, <2>1 DEF Token, Closers, Longs, Before, Behind
      <3>2. /\ Send(s, t) /\ over' = [over EXCEPT ![s] = over[s] \union {t.n}]
            /\ over[s] \union {t.n} \in SUBSET Nat
        BY <1>1, <2>1, <2>3
      <3> HIDE DEF t, n
      <3> QED
        BY <1>1, <2>1, <3>1, <3>2, PeerSendsKeeps
    <2> QED
      BY <1>5, <2>2, <2>3 DEF PeerMessage
  <1>6. CASE PeerPings(s)
    <2>1. /\ closed[s] = "no" /\ UNCHANGED <<rvars, setting, inbox, closed, begun, open, over>>
          /\ open[s] = 0 /\ SentTo(s) = 2 * begun[s]
      BY <1>1, <1>6 DEF PeerPings, SentTo
    <2>2. PICK x \in {"ping", "binary"} : Send(s, [is |-> x, n |-> begun[s]])
      BY <1>6 DEF PeerPings
    <2> DEFINE t == [is |-> x, n |-> begun[s]]
    <2>3. /\ t \in Token /\ t.is \notin Closers /\ Before(t) = SentTo(s) /\ Behind(t) = 2 * begun[s]
      BY <1>1, <2>1 DEF Token, Closers, Longs, Before, Behind
    <2>4. Send(s, t)
      BY <2>2
    <2> HIDE DEF t
    <2> QED
      BY <1>1, <2>1, <2>3, <2>4, PeerSendsKeeps
  <1>7. CASE PeerReads(s)
    <2>1. UNCHANGED <<pc, polled, held, full, res, carry, got>>
          /\ UNCHANGED <<setting, wire, begun, open, closed, over>>
          /\ inbox' = [inbox EXCEPT ![s] = @ - 1] /\ inbox[s] > 0
      BY <1>7 DEF PeerReads, rvars, pvars
    <2>a. inbox' \in [Side -> 0..Cap]
      <3>1. inbox \in [Side -> 0..Cap]
        BY <1>1 DEF Typed
      <3>2. inbox[s] \in 0..Cap
        BY <3>1
      <3>3. inbox[s] - 1 \in 0..Cap
        BY <2>1, <3>2
      <3> QED
        BY <2>1, <3>1, <3>3
    <2>2. Typed'
      BY <1>1, <2>1, <2>a DEF Typed
    <2>3. PeerInv' /\ RelaysWholeInOrder'
      BY <2>1, ReadFrame DEF Stay, IndInv, PeerInv
    <2>4. LiveInv'
      BY <2>1, SideStays DEF IndInv, LiveInv, Taken
    <2> QED
      BY <2>2, <2>3, <2>4 DEF IndInv
  <1>8. CASE PeerCloses(s) \/ PeerBreaks(s)
    <2>1. /\ UNCHANGED <<pc, polled, held, full, res, carry, got>>
          /\ UNCHANGED <<setting, inbox, begun, open, over>>
          /\ closed[s] = "no" /\ closed'[s] # "no" /\ closed' \in [Side -> {"no", "yes", "broken"}]
          /\ \A r \in Side : r # s => closed'[r] = closed[r]
      <3>1. PICK c \in {"yes", "broken"} : closed' = [closed EXCEPT ![s] = c]
        BY <1>8 DEF PeerCloses, PeerBreaks
      <3>2. closed \in [Side -> {"no", "yes", "broken"}]
        BY <1>1 DEF Typed
      <3>3. /\ closed'[s] # "no" /\ closed' \in [Side -> {"no", "yes", "broken"}]
            /\ \A r \in Side : r # s => closed'[r] = closed[r]
        BY <3>1, <3>2
      <3> QED
        BY <1>8, <3>3 DEF PeerCloses, PeerBreaks, rvars
    <2>2. PICK t \in Token : t.is \in Closers /\ Send(s, t)
      <3>1. PICK x \in Closers : Send(s, [is |-> x, n |-> 0])
        BY <1>8 DEF PeerCloses, PeerBreaks, Closers
      <3> QED
        BY <3>1 DEF Token
    <2>3. /\ wire'[s] = Append(wire[s], t) /\ wire' \in [Side -> Seq(Token)]
          /\ \A r \in Side : r # s => wire'[r] = wire[r]
      <3>1. Append(wire[s], t) \in Seq(Token)
        BY <1>1, AppendProperties DEF Typed
      <3> QED
        BY <1>1, <2>2, <3>1 DEF Send, Typed
    <2>4. Typed'
      BY <1>1, <2>1, <2>3 DEF Typed
    <2>5. PeerInv' /\ RelaysWholeInOrder'
      BY <2>1 DEF IndInv, PeerInv, RelaysWholeInOrder, SentTo, Kind
    <2>6. LiveInv'
      <3> SUFFICES ASSUME pc \in {"select", "write"}, NEW r \in Side
                   PROVE  SideInv(r)'
        BY <2>1 DEF LiveInv, IndInv
      <3>1. SideInv(r) /\ Taken(r)' = Taken(r) /\ ReadTo(r)' = ReadTo(r) /\ SentTo(r)' = SentTo(r)
        BY <2>1 DEF IndInv, LiveInv, Taken, ReadTo, SentTo
      <3>2. CASE r # s
        BY <2>1, <2>3, <3>1, <3>2, SideStays
      <3>3. CASE r = s
        <4>1. Flow(wire'[s], ReadTo(s), SentTo(s))
          BY <1>1, <2>2, <2>3, <3>1, <3>3, Places, FlowCloses DEF SideInv
        <4>2. \A n : Unread(s, n) => Unread(s, n)'
          <5>1. /\ Len(wire[s]) \in Nat /\ Len(wire'[s]) = Len(wire[s]) + 1
                /\ \A i \in 1..Len(wire[s]) : wire'[s][i] = wire[s][i]
            BY <1>1, <2>3, AppendProperties, LenProperties DEF Typed
          <5> QED
            BY <5>1 DEF Unread
        <4> QED
          BY <2>1, <3>1, <3>3, <4>1, <4>2 DEF SideInv
      <3> QED
        BY <3>2, <3>3
    <2> QED
      BY <2>4, <2>5, <2>6 DEF IndInv
  <1> QED
    BY <1>2, <1>3, <1>4, <1>5, <1>6, <1>7, <1>8

\* A read that leaves the filter, and so the place read to, as it was.
LEMMA TakeNothingKeeps ==
    ASSUME IndInv, NEW s \in Side, NEW x \in {"ping", "binary", "illegal"}, Takes(s, x), Stay,
           UNCHANGED <<got, held, full>>, pc' # "write"
    PROVE  \A r \in Side : SideInv(r)'
  <1>1. /\ x \notin Closers /\ pc = "select" /\ SideInv(s) /\ full[s] = FALSE
        /\ Head(wire[s]) \in Token /\ Head(wire[s]).is = x
        /\ Before(Head(wire[s])) = ReadTo(s)
        /\ Taken(s) = Len(got[s]) /\ Len(got[s]) \in Nat /\ held[s] \in {0, Len(got[s]) + 1}
    BY TakeFacts DEF Closers
  <1>2. \A r \in Side : Taken(r)' = Taken(r)
    BY <1>1 DEF Taken
  <1>3. ReadTo(s)' = Behind(Head(wire[s]))
    <2>1. ReadTo(s)' = ReadTo(s)
      BY <1>2 DEF ReadTo
    <2>2. Behind(Head(wire[s])) = Before(Head(wire[s]))
      BY <1>1 DEF Before, Behind
    <2> QED
      BY <1>1, <2>1, <2>2
  <1> QED
    BY <1>1, <1>2, <1>3, TakeKeeps

\* Err: the branch is not polled any more, or neither is.
LEMMA BranchFailsFacts ==
    ASSUME IndInv, NEW s \in Side, pc = "select", s \in polled, BranchFails(s)
    PROVE  /\ pc' \in {"select", "done"} /\ polled' \subseteq Side /\ (pc' = "select" => polled' # {})
           /\ UNCHANGED <<held, carry, got, inbox>> /\ Stay
  <1>1. polled' = polled \ {s} /\ polled \subseteq Side
    BY DEF BranchFails, IndInv, Typed
  <1>2. pc' = IF polled = {s} THEN "done" ELSE "select"
    BY DEF BranchFails
  <1> QED
    BY <1>1, <1>2 DEF BranchFails

LEMMA ReadIndInv ==
    ASSUME IndInv, NEW s \in Side, Read(s)
    PROVE  IndInv'
  <1> USE RelayAssumption
  <1>0. /\ Typed /\ LiveInv
        /\ \A r \in Side : res[r] = "panic" => pc = "panic"
    BY DEF IndInv, PeerInv
  <1> DEFINE t == Head(wire[s])
             L == Len(got[s])
  <1> HIDE DEF t, L
  <1>1. CASE ReadHalf(s)
    <2>1. /\ Takes(s, "half") /\ Stay /\ held' = [held EXCEPT ![s] = t.n]
          /\ res' = [res EXCEPT ![s] = "none"]
          /\ UNCHANGED <<pc, polled, full, carry, got, inbox>>
      BY <1>1 DEF ReadHalf, t
    <2>2. /\ pc = "select" /\ full[s] = FALSE /\ t \in Token /\ t.is = "half"
          /\ wire' \in [Side -> Seq(Token)] /\ Taken(s) = L /\ L \in Nat
          /\ t.n = L + 1 /\ t.n \in 0..MaxSent
      BY <2>1, TakeFacts DEF Closers, t, L
    <2>3. Behind(t) = 2 * t.n - 1
      BY <2>2 DEF Behind
    <2>4. /\ held' \in [Side -> 0..MaxSent] /\ held'[s] = L + 1
          /\ \A r \in Side : r # s => held'[r] = held[r]
      BY <1>0, <2>1, <2>2 DEF Typed
    <2>5. \A r \in Side : Taken(r)' = Taken(r)
      BY <2>1 DEF Taken
    <2>6. ReadTo(s)' = Behind(t)
      BY <2>2, <2>3, <2>4, <2>5 DEF ReadTo
    <2>7. \A r \in Side : SideInv(r)'
      BY <2>1, <2>2, <2>4, <2>5, <2>6, TakeKeeps DEF Closers, t
    <2>8. Typed'
      BY <1>0, <2>1, <2>2, <2>4 DEF Typed, Stay
    <2>9. PeerInv' /\ RelaysWholeInOrder'
      BY <1>0, <2>1, ReadFrame DEF Typed
    <2> QED
      BY <2>1, <2>2, <2>7, <2>8, <2>9 DEF IndInv, LiveInv
  <1>2. CASE ReadEnd(s)
    <2>1. /\ Takes(s, "end") /\ Stay /\ held' = [held EXCEPT ![s] = 0]
          /\ carry' = [from |-> s, half |-> held[s], end |-> t.n]
          /\ res' = [res EXCEPT ![s] = "stanza"] /\ pc' = "write"
          /\ UNCHANGED <<polled, full, got, inbox>>
      BY <1>2 DEF ReadEnd, t
    <2>2. /\ pc = "select" /\ full[s] = FALSE /\ t \in Token /\ t.is = "end"
          /\ wire' \in [Side -> Seq(Token)] /\ L \in Nat
          /\ t.n = L + 1 /\ held[s] = L + 1
      BY <2>1, TakeFacts DEF Closers, t, L
    <2>3. Behind(t) = 2 * t.n
      BY <2>2 DEF Behind
    <2>4. /\ held' \in [Side -> 0..MaxSent] /\ held'[s] = 0
          /\ \A r \in Side : r # s => held'[r] = held[r]
      BY <1>0, <2>1 DEF Typed
    <2>5. /\ carry' \in [from : Side, half : Nat, end : Nat]
          /\ carry'.from = s /\ carry'.half = L + 1 /\ carry'.end = L + 1
      BY <2>1, <2>2
    <2>6. Taken(s)' = L + 1 /\ \A r \in Side : r # s => Taken(r)' = Taken(r)
      BY <2>1, <2>2, <2>5 DEF Taken, L
    <2>7. ReadTo(s)' = Behind(t)
      BY <2>2, <2>3, <2>4, <2>6 DEF ReadTo
    <2>8. \A r \in Side : SideInv(r)'
      <3>1. Taken(s)' \in Nat /\ held'[s] \in {0, Taken(s)' + 1} /\ full'[s] = FALSE
        BY <2>1, <2>2, <2>4, <2>6
      <3> QED
        BY <2>1, <2>4, <2>6, <2>7, <3>1, TakeKeeps DEF Closers, t
    <2>9. Typed'
      BY <1>0, <2>1, <2>2, <2>4, <2>5 DEF Typed, Stay
    <2>10. PeerInv' /\ RelaysWholeInOrder'
      BY <1>0, <2>1, <2>2, ReadFrame DEF Typed
    <2> QED
      BY <2>1, <2>5, <2>8, <2>9, <2>10 DEF IndInv, LiveInv, L
  <1>3. CASE ReadMessage(s)
    <2>1. /\ Takes(s, "message") /\ Stay
          /\ carry' = [from |-> s, half |-> t.n, end |-> t.n] /\ pc' = "write"
          /\ UNCHANGED <<polled, held, full, res, got, inbox>>
      BY <1>3 DEF ReadMessage, t
    <2>2. /\ pc = "select" /\ full[s] = FALSE /\ t \in Token /\ t.is = "message"
          /\ wire' \in [Side -> Seq(Token)] /\ L \in Nat
          /\ t.n = L + 1 /\ held[s] = 0
      BY <2>1, TakeFacts DEF Closers, t, L
    <2>3. Behind(t) = 2 * t.n
      BY <2>2 DEF Behind
    <2>4. /\ carry' \in [from : Side, half : Nat, end : Nat]
          /\ carry'.from = s /\ carry'.half = L + 1 /\ carry'.end = L + 1
      BY <2>1, <2>2
    <2>5. Taken(s)' = L + 1 /\ \A r \in Side : r # s => Taken(r)' = Taken(r)
      BY <2>1, <2>2, <2>4 DEF Taken, L
    <2>6. ReadTo(s)' = Behind(t)
      BY <2>1, <2>2, <2>3, <2>5 DEF ReadTo
    <2>7. \A r \in Side : SideInv(r)'
      <3>1. Taken(s)' \in Nat /\ held'[s] \in {0, Taken(s)' + 1} /\ full'[s] = FALSE
        BY <2>1, <2>2, <2>5
      <3> QED
        BY <2>1, <2>5, <2>6, <3>1, TakeKeeps DEF Closers, t
    <2>8. Typed'
      BY <1>0, <2>1, <2>2, <2>4 DEF Typed, Stay
    <2>9. PeerInv' /\ RelaysWholeInOrder'
      BY <1>0, <2>1, <2>2, ReadFrame
    <2> QED
      BY <2>1, <2>4, <2>7, <2>8, <2>9 DEF IndInv, LiveInv, L
  <1>4. CASE ReadPing(s)
    <2>1. /\ Takes(s, "ping") /\ Stay /\ inbox[s] < Cap /\ inbox' = [inbox EXCEPT ![s] = @ + 1]
          /\ UNCHANGED <<pc, polled, held, full, res, carry, got>>
      BY <1>4 DEF ReadPing
    <2>2. pc = "select" /\ wire' \in [Side -> Seq(Token)]
      BY <2>1, TakeFacts DEF Closers
    <2>3. \A r \in Side : SideInv(r)'
      BY <2>1, <2>2, TakeNothingKeeps
    <2>4. inbox' \in [Side -> 0..Cap]
      <3>1. inbox \in [Side -> 0..Cap]
        BY <1>0 DEF Typed
      <3>2. inbox[s] \in 0..Cap
        BY <3>1
      <3>3. inbox[s] + 1 \in 0..Cap
        BY <2>1, <3>2
      <3> QED
        BY <2>1, <3>1, <3>3
    <2>5. Typed'
      BY <1>0, <2>1, <2>2, <2>4 DEF Typed, Stay
    <2>6. PeerInv' /\ RelaysWholeInOrder'
      BY <1>0, <2>1, ReadFrame
    <2> QED
      BY <2>1, <2>2, <2>3, <2>5, <2>6 DEF IndInv, LiveInv
  <1>5. CASE ReadIllegal(s) \/ ReadBinary(s) \/ PongFails(s)
    <2>1. PICK x \in {"illegal", "binary", "ping"} : Takes(s, x)
      BY <1>5 DEF ReadIllegal, ReadBinary, PongFails
    <2>2. /\ BranchFails(s) /\ UNCHANGED full
          /\ res' = [res EXCEPT ![s] = "err"] \/ UNCHANGED res
      BY <1>5 DEF ReadIllegal, ReadBinary, PongFails
    <2>3. pc = "select" /\ wire' \in [Side -> Seq(Token)] /\ s \in polled
      BY <2>1, TakeFacts DEF Closers, Takes, Polling
    <2>4. /\ pc' \in {"select", "done"} /\ polled' \subseteq Side /\ (pc' = "select" => polled' # {})
          /\ UNCHANGED <<held, carry, got, inbox>> /\ Stay
      BY <2>2, <2>3, BranchFailsFacts
    <2>5. \A r \in Side : SideInv(r)'
      BY <2>1, <2>2, <2>4, TakeNothingKeeps
    <2>6. /\ res' \in [Side -> {"none", "stanza", "err", "eof", "panic"}]
          /\ \A r \in Side : res'[r] # "panic"
      BY <1>0, <2>2, <2>3 DEF Typed
    <2>7. Typed'
      BY <1>0, <2>2, <2>3, <2>4, <2>6 DEF Typed, Stay
    <2>8. PeerInv' /\ RelaysWholeInOrder'
      BY <2>4, <2>6, ReadFrame
    <2> QED
      BY <2>4, <2>5, <2>7, <2>8 DEF IndInv, LiveInv
  <1>6. CASE ReadTooBig(s)
    <2>1. /\ Takes(s, "long") /\ BranchFails(s) /\ res' = [res EXCEPT ![s] = "err"]
          /\ full' = [full EXCEPT ![s] = TRUE]
      BY <1>6 DEF ReadTooBig
    <2>2. /\ pc = "select" /\ full[s] = FALSE /\ t \in Token /\ t.is = "long"
          /\ wire' \in [Side -> Seq(Token)] /\ s \in polled
          /\ Taken(s) = L /\ L \in Nat /\ t.n = L + 1 /\ held[s] = L + 1
      BY <2>1, TakeFacts DEF Closers, Takes, Polling, t, L
    <2>3. Behind(t) = 2 * t.n - 1
      BY <2>2 DEF Behind
    <2>4. /\ pc' \in {"select", "done"} /\ polled' \subseteq Side /\ (pc' = "select" => polled' # {})
          /\ UNCHANGED <<held, carry, got, inbox>> /\ Stay
      BY <2>1, <2>2, BranchFailsFacts
    <2>5. \A r \in Side : Taken(r)' = Taken(r)
      BY <2>2, <2>4 DEF Taken
    <2>6. ReadTo(s)' = Behind(t)
      BY <2>2, <2>3, <2>4, <2>5 DEF ReadTo
    <2>7. /\ full' \in [Side -> BOOLEAN] /\ full'[s] = TRUE
          /\ \A r \in Side : r # s => full'[r] = full[r]
      BY <1>0, <2>1 DEF Typed
    <2>8. \A r \in Side : SideInv(r)'
      BY <2>1, <2>2, <2>4, <2>5, <2>6, <2>7, TakeKeeps DEF Closers, t
    <2>9. /\ res' \in [Side -> {"none", "stanza", "err", "eof", "panic"}]
           /\ \A r \in Side : res'[r] # "panic"
      BY <1>0, <2>1, <2>2 DEF Typed
    <2>10. Typed'
      BY <1>0, <2>2, <2>4, <2>7, <2>9 DEF Typed, Stay
    <2>11. PeerInv' /\ RelaysWholeInOrder'
      BY <2>4, <2>9, ReadFrame
    <2> QED
      BY <2>4, <2>8, <2>10, <2>11 DEF IndInv, LiveInv
  <1>7. CASE ReadClose(s)
    <2>1. /\ pc = "select" /\ s \in polled /\ BranchFails(s) /\ UNCHANGED <<wire, full, res>>
      BY <1>7 DEF ReadClose, Polling
    <2>2. /\ pc' \in {"select", "done"} /\ polled' \subseteq Side /\ (pc' = "select" => polled' # {})
          /\ UNCHANGED <<held, carry, got, inbox>> /\ Stay
      BY <2>1, BranchFailsFacts
    <2>3. \A r \in Side : SideInv(r)'
      <3>1. \A r \in Side : SideInv(r) /\ Taken(r)' = Taken(r)
        BY <1>0, <2>1, <2>2 DEF LiveInv, Taken
      <3> QED
        BY <2>1, <2>2, <3>1, SideStays DEF Stay
    <2>4. Typed'
      BY <1>0, <2>1, <2>2 DEF Typed, Stay
    <2>5. PeerInv' /\ RelaysWholeInOrder'
      BY <1>0, <2>1, <2>2, ReadFrame
    <2> QED
      BY <2>2, <2>3, <2>4, <2>5 DEF IndInv, LiveInv
  <1>8. CASE ReadLongMessage(s) \/ ReadPanics(s) \/ ReadEof(s)
    <2>1. /\ pc = "select" /\ pc' \in {"done", "panic"} /\ Stay
          /\ UNCHANGED <<polled, held, full, carry, got, inbox>>
          /\ wire' \in [Side -> Seq(Token)]
      <3>1. CASE ReadPanics(s)
        BY <1>0, <3>1 DEF ReadPanics, pvars, Stay, Typed
      <3>2. CASE ReadLongMessage(s) \/ ReadEof(s)
        <4>1. wire[s] \in Seq(Token) /\ wire[s] # <<>> /\ wire' = [wire EXCEPT ![s] = Tail(@)]
          BY <1>0, <3>2 DEF ReadLongMessage, ReadEof, Takes, Typed
        <4>2. wire' \in [Side -> Seq(Token)]
          BY <1>0, <4>1, HeadTailProperties DEF Typed
        <4> QED
          BY <3>2, <4>2 DEF ReadLongMessage, ReadEof, Takes, Polling, Stay
      <3> QED
        BY <1>8, <3>1, <3>2
    <2>2. /\ res' \in [Side -> {"none", "stanza", "err", "eof", "panic"}]
          /\ \A r \in Side : res'[r] = "panic" => pc' = "panic"
      BY <1>0, <1>8, <2>1 DEF ReadLongMessage, ReadPanics, ReadEof, Typed
    <2>3. Typed'
      BY <1>0, <2>1, <2>2 DEF Typed, Stay
    <2>4. PeerInv' /\ RelaysWholeInOrder'
      BY <2>1, <2>2, ReadFrame
    <2> QED
      BY <2>1, <2>3, <2>4 DEF IndInv, LiveInv
  <1> QED
    BY <1>1, <1>2, <1>3, <1>4, <1>5, <1>6, <1>7, <1>8 DEF Read

LEMMA WriteIndInv == IndInv /\ Write => IndInv'
  <1> SUFFICES ASSUME IndInv, Write
               PROVE  IndInv'
    OBVIOUS
  <1> USE RelayAssumption
  <1> DEFINE f == carry.from
             q == Other(f)
             L == Len(got[f])
  <1>1. /\ Typed /\ PeerInv /\ RelaysWholeInOrder /\ \A r \in Side : SideInv(r)
        /\ pc = "write" /\ carry.half = L + 1 /\ carry.end = L + 1
        /\ f \in Side /\ q \in Side
    BY DEF IndInv, LiveInv, Write, Typed, Other, Side
  <1>2. /\ inbox[q] < Cap /\ inbox' = [inbox EXCEPT ![q] = @ + 1]
        /\ got' = [got EXCEPT ![f] = Append(@, <<carry.half, carry.end>>)]
        /\ carry' = None /\ pc' = "select" /\ polled' = Side
        /\ UNCHANGED <<held, full, res, setting, wire, begun, open, closed, over>>
    BY DEF Write, pvars
  <1> HIDE DEF f, q, L
  <1>3. /\ L \in Nat /\ L = Len(got[f]) /\ DOMAIN got[f] = 1..L
        /\ got' \in [Side -> Seq(Nat \X Nat)] /\ Len(got'[f]) = L + 1 /\ DOMAIN got'[f] = 1..(L + 1)
        /\ got'[f][L + 1] = <<L + 1, L + 1>>
        /\ \A i \in 1..L : got'[f][i] = got[f][i]
        /\ \A r \in Side : r # f => got'[r] = got[r]
    <2>1. got \in [Side -> Seq(Nat \X Nat)] /\ got[f] \in Seq(Nat \X Nat)
      BY <1>1 DEF Typed
    <2>2. L \in Nat /\ L = Len(got[f]) /\ DOMAIN got[f] = 1..L
      BY <2>1, LenProperties DEF L
    <2>3. <<L + 1, L + 1>> \in Nat \X Nat
      BY <2>2
    <2> DEFINE g == Append(got[f], <<L + 1, L + 1>>)
    <2>4. /\ g \in Seq(Nat \X Nat) /\ Len(g) = L + 1 /\ g[L + 1] = <<L + 1, L + 1>>
          /\ \A i \in 1..L : g[i] = got[f][i]
      BY <2>1, <2>2, <2>3, AppendProperties
    <2> HIDE DEF g
    <2>5. DOMAIN g = 1..(L + 1)
      BY <2>4, LenProperties
    <2>6. got' = [got EXCEPT ![f] = g]
      BY <1>1, <1>2 DEF g
    <2>7. got'[f] = g /\ got' \in [Side -> Seq(Nat \X Nat)] /\ \A r \in Side : r # f => got'[r] = got[r]
      BY <1>1, <2>1, <2>4, <2>6
    <2> QED
      BY <2>2, <2>4, <2>5, <2>7
  <1>4. \A r \in Side : Taken(r)' = Taken(r)
    <2> SUFFICES ASSUME NEW r \in Side
                 PROVE  Taken(r)' = Taken(r)
      OBVIOUS
    <2>1. CASE r = f
      BY <1>1, <1>2, <1>3, <2>1 DEF Taken, f
    <2>2. CASE r # f
      BY <1>1, <1>2, <1>3, <2>2 DEF Taken, f
    <2> QED
      BY <2>1, <2>2
  <1>5. Typed'
    <2>1. inbox' \in [Side -> 0..Cap]
      <3>1. inbox \in [Side -> 0..Cap] /\ inbox[q] \in 0..Cap
        BY <1>1 DEF Typed
      <3>2. inbox[q] + 1 \in 0..Cap
        BY <1>2, <3>1
      <3> QED
        BY <1>1, <1>2, <3>1, <3>2
    <2>2. carry' \in [from : Side, half : Nat, end : Nat]
      BY <1>2 DEF None, Side
    <2> QED
      BY <1>1, <1>2, <1>3, <2>1, <2>2 DEF Typed, Side
  <1>6. LiveInv'
    BY <1>1, <1>2, <1>4, SideStays DEF LiveInv
  <1>7. PeerInv'
    <2>1. Taken(f) = L + 1 /\ SideInv(f) /\ ReadTo(f) \in Nat /\ SentTo(f) \in Int
      BY <1>1, <1>3, Places DEF Taken, f
    <2>2. ReadTo(f) >= 2 * (L + 1)
      BY <1>3, <2>1 DEF ReadTo
    <2>3. 2 * (L + 1) <= SentTo(f) /\ \A n \in over[f] : n > L + 1
      BY <1>3, <2>1, <2>2 DEF SideInv
    <2> SUFFICES ASSUME NEW r \in Side
                 PROVE  /\ 2 * Len(got'[r]) <= SentTo(r)
                        /\ \A n \in over[r] : n > Len(got'[r])
                        /\ res[r] # "panic"
      BY <1>1, <1>2 DEF PeerInv, SentTo, Kind
    <2> QED
      BY <1>1, <1>3, <2>3 DEF PeerInv
  <1>8. RelaysWholeInOrder'
    <2> SUFFICES ASSUME NEW r \in Side, NEW i \in DOMAIN got'[r]
                 PROVE  got'[r][i] = <<i, i>>
      BY DEF RelaysWholeInOrder
    <2>1. CASE r # f
      BY <1>1, <1>3, <2>1 DEF RelaysWholeInOrder
    <2>2. CASE r = f /\ i = L + 1
      BY <1>3, <2>2
    <2>3. CASE r = f /\ i \in 1..L
      BY <1>1, <1>3, <2>3 DEF RelaysWholeInOrder
    <2>4. r = f => i \in 1..(L + 1)
      BY <1>3
    <2>5. i \in 1..(L + 1) => i \in 1..L \/ i = L + 1
      BY <1>3
    <2> QED
      BY <2>1, <2>2, <2>3, <2>4, <2>5
  <1> QED
    BY <1>5, <1>6, <1>7, <1>8 DEF IndInv

LEMMA NextIndInv == IndInv /\ [Next]_vars => IndInv'
  <1> SUFFICES ASSUME IndInv, [Next]_vars
               PROVE  IndInv'
    OBVIOUS
  <1>1. CASE WriteFails
    <2>1. /\ pc = "write" /\ pc' = "done" /\ UNCHANGED <<polled, held, full, res, carry, got, inbox>>
          /\ UNCHANGED <<setting, wire, begun, open, closed, over>>
      BY <1>1 DEF WriteFails, pvars
    <2>2. Typed' /\ LiveInv'
      BY <2>1 DEF IndInv, Typed, LiveInv
    <2>3. PeerInv' /\ RelaysWholeInOrder'
      BY <2>1, ReadFrame DEF IndInv, PeerInv, Stay
    <2> QED
      BY <2>2, <2>3 DEF IndInv
  <1>2. CASE UNCHANGED vars
    <2>1. /\ UNCHANGED <<pc, polled, held, full, res, carry, got, inbox>>
          /\ UNCHANGED <<setting, wire, begun, open, closed, over>>
      BY <1>2 DEF vars, rvars, pvars
    <2>2. Typed'
      BY <2>1 DEF IndInv, Typed
    <2>3. PeerInv' /\ RelaysWholeInOrder'
      BY <2>1, ReadFrame DEF IndInv, PeerInv, Stay
    <2>4. LiveInv'
      BY <2>1, SideStays DEF IndInv, LiveInv, Taken
    <2> QED
      BY <2>2, <2>3, <2>4 DEF IndInv
  <1> QED
    BY <1>1, <1>2, PeerIndInv, ReadIndInv, WriteIndInv DEF Next

LEMMA IndInvHolds == Spec => []IndInv
  BY InitIndInv, NextIndInv, PTL DEF Spec

-----------------------------------------------------------------------------
(* The results.                                                             *)

\* Every variable stays in its range: select! never goes on with no branch to
\* poll, and neither peer is written more than it has room for.
THEOREM TypeCorrect == Spec => []TypeOK
  <1>1. IndInv => TypeOK
    BY DEF IndInv, Typed, TypeOK
  <1> QED
    BY <1>1, IndInvHolds, PTL

\* Whichever read wins the select!, and wherever the other is dropped, a peer's
\* stanzas are written out once each, in order, with both their halves.
THEOREM WholeInOrder == Spec => []RelaysWholeInOrder
  BY IndInvHolds, PTL DEF IndInv

\* No stanza over the limit is written out, whichever way it came and however
\* often the branch that failed on it is polled again.
THEOREM OverLongNever == Spec => []OverLongIsNeverRelayed
  <1>1. IndInv => OverLongIsNeverRelayed
    <2> SUFFICES ASSUME IndInv, NEW s \in Side, NEW i \in DOMAIN got[s], i \in over[s]
                 PROVE  FALSE
      BY DEF OverLongIsNeverRelayed
    <2>1. DOMAIN got[s] = 1..Len(got[s]) /\ Len(got[s]) \in Nat
      BY LenProperties DEF IndInv, Typed
    <2>2. i > Len(got[s])
      BY DEF IndInv, PeerInv
    <2> QED
      BY <2>1, <2>2
  <1> QED
    BY <1>1, IndInvHolds, PTL

\* What a step of the relay does to one side's filter, in the contract's terms.
FilterStep(s) ==
    \/ UNCHANGED <<held[s], full[s], res[s]>>
    \/ /\ res[s] # "panic" /\ full[s] = FALSE
       /\ \/ held[s] = 0 /\ held'[s] # 0 /\ res'[s] = "none" /\ UNCHANGED full[s]
          \/ held[s] # 0 /\ held'[s] = 0 /\ res'[s] = "stanza" /\ UNCHANGED full[s]
          \/ held[s] # 0 /\ res'[s] = "err" /\ full'[s] \in BOOLEAN /\ UNCHANGED held[s]
          \/ res'[s] = "eof" /\ UNCHANGED <<held[s], full[s]>>
    \/ /\ res[s] # "panic" /\ full[s] = TRUE
       /\ res'[s] = "panic" /\ UNCHANGED <<held[s], full[s]>>

LEMMA StepsFilters ==
    ASSUME IndInv, [Next]_vars, NEW s \in Side
    PROVE  FilterStep(s)
  <1>0. Typed /\ (pc = "select" => \A r \in Side : res[r] # "panic")
    BY DEF IndInv, PeerInv
  <1>1. CASE UNCHANGED <<held, full, res>>
    BY <1>1 DEF FilterStep
  <1>2. ASSUME NEW r \in Side, Read(r)
        PROVE  FilterStep(s)
    <2>1. CASE r # s
      <3>1. /\ held' = held \/ \E n : held' = [held EXCEPT ![r] = n]
            /\ full' = full \/ full' = [full EXCEPT ![r] = TRUE]
            /\ res' = res \/ \E x : res' = [res EXCEPT ![r] = x]
        BY <1>2 DEF Read, ReadHalf, ReadEnd, ReadMessage, ReadPing, ReadIllegal, ReadBinary,
                    PongFails, ReadTooBig, ReadClose, ReadLongMessage, ReadPanics, ReadEof, BranchFails
      <3> QED
        BY <1>0, <2>1, <3>1 DEF Typed, FilterStep
    <2>2. CASE r = s
      <3>1. ASSUME NEW x, x \notin Closers, Takes(s, x)
            PROVE  /\ pc = "select" /\ full[s] = FALSE /\ Len(got[s]) + 1 # 0
                   /\ x = "half" => held[s] = 0 /\ Head(wire[s]).n # 0
                   /\ x \in {"end", "illegal", "long"} => held[s] # 0
        <4>1. /\ pc = "select" /\ full[s] = FALSE /\ Len(got[s]) \in Nat
              /\ Head(wire[s]) \in Token /\ Head(wire[s]).is = x
              /\ Before(Head(wire[s])) = ReadTo(s) /\ Taken(s) = Len(got[s])
              /\ x = "half" => held[s] = 0 /\ Head(wire[s]).n = Len(got[s]) + 1
          BY <3>1, TakeFacts
        <4>2. x \in {"end", "illegal", "long"} => held[s] # 0
          <5> SUFFICES ASSUME x \in {"end", "illegal", "long"}, held[s] = 0
                       PROVE  FALSE
            OBVIOUS
          <5> DEFINE n == Head(wire[s]).n
                     l == Len(got[s])
          <5>1. n \in Nat /\ l \in Nat /\ 2 * l = 2 * n - 1
            BY <4>1 DEF Token, Before, ReadTo
          <5> HIDE DEF n, l
          <5> QED
            BY <5>1
        <4> QED
          BY <4>1, <4>2
      <3>2. CASE ReadHalf(s)
        BY <1>0, <3>1, <3>2 DEF ReadHalf, FilterStep, Typed, Closers
      <3>3. CASE ReadEnd(s)
        BY <1>0, <3>1, <3>3 DEF ReadEnd, FilterStep, Typed, Closers
      <3>4. CASE ReadIllegal(s)
        BY <1>0, <3>1, <3>4 DEF ReadIllegal, BranchFails, FilterStep, Typed, Closers
      <3>5. CASE ReadTooBig(s)
        BY <1>0, <3>1, <3>5 DEF ReadTooBig, BranchFails, FilterStep, Typed, Closers
      <3>6. CASE ReadEof(s)
        BY <1>0, <3>6 DEF ReadEof, Takes, Polling, FilterStep, Typed
      <3>7. CASE ReadPanics(s)
        BY <1>0, <3>7 DEF ReadPanics, FilterStep, Typed
      <3>8. CASE \/ ReadMessage(s) \/ ReadPing(s) \/ ReadBinary(s) \/ PongFails(s) \/ ReadClose(s)
                 \/ ReadLongMessage(s)
        BY <1>1, <3>8 DEF ReadMessage, ReadPing, ReadBinary, PongFails, ReadClose, ReadLongMessage, BranchFails
      <3> QED
        BY <1>2, <2>2, <3>2, <3>3, <3>4, <3>5, <3>6, <3>7, <3>8 DEF Read
    <2> QED
      BY <2>1, <2>2
  <1> QED
    BY <1>1, <1>2 DEF Next, vars, rvars, PeerBegins, PeerFinishes, PeerMisbehaves, PeerMessage,
                      PeerPings, PeerReads, PeerCloses, PeerBreaks, Write, WriteFails

\* The relay uses the filter of either side only as StanzaContract allows: the
\* contract that StanzaFilter is shown to implement is all the relay relies on.
THEOREM KeepsContract == Spec => FiltersKeepContract
  <1>1. Init => InFilter!CInit /\ OutFilter!CInit
    BY DEF Init, InFilter!CInit, OutFilter!CInit, Side
  <1>2. IndInv /\ [Next]_vars => [InFilter!CNext]_(InFilter!cvars)
    <2> SUFFICES ASSUME IndInv, [Next]_vars
                 PROVE  InFilter!CNext \/ UNCHANGED InFilter!cvars
      OBVIOUS
    <2>1. FilterStep("in")
      BY StepsFilters DEF Side
    <2> QED
      BY <2>1 DEF FilterStep, InFilter!CNext, InFilter!cvars, InFilter!Begin, InFilter!Continue,
                  InFilter!Refuse, InFilter!Complete, InFilter!End, InFilter!Panic
  <1>3. IndInv /\ [Next]_vars => [OutFilter!CNext]_(OutFilter!cvars)
    <2> SUFFICES ASSUME IndInv, [Next]_vars
                 PROVE  OutFilter!CNext \/ UNCHANGED OutFilter!cvars
      OBVIOUS
    <2>1. FilterStep("out")
      BY StepsFilters DEF Side
    <2> QED
      BY <2>1 DEF FilterStep, OutFilter!CNext, OutFilter!cvars, OutFilter!Begin, OutFilter!Continue,
                  OutFilter!Refuse, OutFilter!Complete, OutFilter!End, OutFilter!Panic
  <1> QED
    BY <1>1, <1>2, <1>3, IndInvHolds, PTL DEF Spec, FiltersKeepContract, InFilter!CSpec,
                                              OutFilter!CSpec
=============================================================================
