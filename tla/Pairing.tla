------------------------------- MODULE Pairing -------------------------------
(***************************************************************************)
(* What a homenet process promises the connections it serves, whatever its *)
(* watch list, its maps and its memory look like: who is registered under  *)
(* a listener id, who waits for a reverse connection, and which connection *)
(* is relayed to which.  Bridge implements it.                             *)
(*                                                                         *)
(* A connection is known by an address, and an address is used again once  *)
(* its connection is closed.  The promise is that nothing of the old       *)
(* connection is left to the new one.                                      *)
(***************************************************************************)
EXTENDS TLAPS

CONSTANTS
    Conn,           \* the addresses of connections
    ListenId,       \* listener ids
    Otp,            \* one-time codes
    NULL            \* nobody

VARIABLES
    open,           \* the open connections
    registered,     \* the connection that listens under each id
    waits,          \* the clients that wait to be called back
    links           \* <<s, t>>: what the open s sends is relayed to t

vars == <<open, registered, waits, links>>

\* The client waits for a connection that the listener opens with the OTP.
Wait == [listener : Conn, otp : Otp, client : Conn]

\* A connection that is neither relayed, nor a client, nor a listener.
Idle(s) ==
    /\ \A p \in links : s # p[1] /\ s # p[2]
    /\ \A w \in waits : s # w.client /\ s # w.listener
    /\ \A i \in ListenId : s # registered[i]

\* Connections open and close.  An address that opens is idle: it takes over
\* neither the partner, nor the place in a queue, nor the id of its last owner.
Churn == open' \subseteq Conn /\ \A s \in open' \ open : Idle(s)

\* The links that are left, and the new ones; a closed connection sends nothing.
Link(P) == links' = {p \in links \cup P : p[1] \in open'}

Both(s, t) == {<<s, t>>, <<t, s>>}

Init ==
    /\ open \subseteq Conn
    /\ registered = [i \in ListenId |-> NULL]
    /\ waits = {}
    /\ links = {}

\* LISTEN: s is called for the id from now on, in place of anybody before it.
Register(s, i) ==
    /\ s \in open /\ Idle(s)
    /\ registered' = [registered EXCEPT ![i] = s]
    /\ UNCHANGED <<open, waits, links>>

\* CONNECT to a listener: s waits under a code nobody else waits under.
Ask(s, i, o) ==
    /\ s \in open /\ Idle(s) /\ registered[i] # NULL
    /\ \A w \in waits : w.otp # o
    /\ waits' = waits \cup {[listener |-> registered[i], otp |-> o, client |-> s]}
    /\ UNCHANGED <<open, registered, links>>

\* LISTEN_CONNECT: s brings a code of the listener registered now, and gets
\* the client that waits under it.
Claim(s, i, o) ==
    /\ s \in open /\ Idle(s)
    /\ \E w \in waits :
          /\ w.listener = registered[i] /\ w.otp = o
          /\ waits' = waits \ {w}
          /\ Link(Both(s, w.client))
    /\ UNCHANGED <<open, registered>>

\* CONNECT to an address: s is relayed to a new connection t.
Direct(s, t) ==
    /\ s # t /\ s \in open' /\ t \in open'
    /\ Idle(s) /\ Idle(t)
    /\ Churn
    /\ Link(Both(s, t))
    /\ UNCHANGED <<registered, waits>>

\* Connections come and go.  An open client stays in its queue, an open end of
\* a relay keeps its partner; an id may lose its listener.
Turnover ==
    /\ Churn
    /\ waits' \subseteq waits /\ \A w \in waits \ waits' : w.client \notin open'
    /\ registered' \in [ListenId -> Conn \cup {NULL}]
    /\ \A i \in ListenId : registered'[i] \in {registered[i], NULL}
    /\ Link({})

Next ==
    \/ Turnover
    \/ \E s \in Conn, i \in ListenId : Register(s, i)
    \/ \E s \in Conn, i \in ListenId, o \in Otp : Ask(s, i, o) \/ Claim(s, i, o)
    \/ \E s, t \in Conn : Direct(s, t)

Spec == Init /\ [][Next]_vars

(***************************************************************************)
(* What follows                                                            *)
(***************************************************************************)
TypeOK ==
    /\ open \subseteq Conn
    /\ registered \in [ListenId -> Conn \cup {NULL}]
    /\ waits \subseteq Wait
    /\ links \subseteq Conn \X Conn

\* Two open connections are relayed to each other or not at all, and nobody is
\* relayed to, or from, two others or itself.
Mutual ==
    /\ \A p \in links : p[1] \in open /\ p[1] # p[2]
    /\ \A p \in links : p[2] \in open => <<p[2], p[1]>> \in links
    /\ \A p, q \in links : p[1] = q[1] \/ p[2] = q[2] => p = q

\* A client waits once and under a code of its own.
OneWait ==
    \A v, w \in waits : v.otp = w.otp \/ v.client = w.client => v = w

\* A connection has one role: relayed, waiting, or listening.
OneRole ==
    /\ \A p \in links, w \in waits : {p[1], p[2]} \cap {w.client, w.listener} = {}
    /\ \A p \in links, i \in ListenId : registered[i] \notin {p[1], p[2]} \ {NULL}
    /\ \A v, w \in waits : v.client # w.listener
    /\ \A w \in waits, i \in ListenId : registered[i] \notin {w.client} \ {NULL}

Safe == TypeOK /\ Mutual /\ OneWait /\ OneRole

(***************************************************************************)
(* Proofs                                                                  *)
(***************************************************************************)

\* Connections that come and go, and a link between two idle ones or between
\* an idle one and a client that leaves its queue, keep the relays mutual.
LEMMA MutualStep ==
    ASSUME TypeOK, Mutual, Churn,
           NEW s \in Conn, NEW t \in Conn, s # t,
           \A p \in links : s # p[1] /\ s # p[2] /\ t # p[1] /\ t # p[2],
           NEW N \in {{}, Both(s, t)}, Link(N)
    PROVE  Mutual' /\ links' \subseteq Conn \X Conn
<1>1. /\ links' \subseteq Conn \X Conn
      /\ \A p \in links' : p[1] \in open' /\ (p \in links \/ p \in Both(s, t))
      /\ \A p \in links : p[1] \in open' => p \in links'
    BY DEF Link, Both, TypeOK
<1>2. \A p \in links' : p[1] \in open' /\ p[1] # p[2]
    BY <1>1 DEF Mutual, Both
<1>3. ASSUME NEW p \in links', p[2] \in open'
      PROVE  <<p[2], p[1]>> \in links'
    <2>1. CASE p \in links
        <3>1. p[2] \in open
            BY <1>3, <2>1 DEF Churn, Idle
        <3> QED
            BY <1>1, <1>3, <2>1, <3>1 DEF Mutual
    <2>2. CASE p \notin links
        <3>1. N = Both(s, t) /\ p \in Both(s, t)
            BY <1>1, <2>2 DEF Link
        <3>2. <<p[2], p[1]>> \in Both(s, t)
            BY <3>1 DEF Both
        <3> QED
            BY <1>3, <3>1, <3>2 DEF Link
    <2> QED
        BY <2>1, <2>2
<1>4. ASSUME NEW p \in links', NEW q \in links', p[1] = q[1] \/ p[2] = q[2]
      PROVE  p = q
    BY <1>1, <1>4 DEF Mutual, Both
<1> QED
    BY <1>1, <1>2, <1>3, <1>4 DEF Mutual

\* Nothing is relayed, queued or registered at the start.
LEMMA InitSafe == Init => Safe
BY DEF Init, Safe, TypeOK, Mutual, OneWait, OneRole

\* Every step keeps the connections apart.
LEMMA NextSafe == Safe /\ [Next]_vars => Safe'
<1> SUFFICES ASSUME Safe, [Next]_vars PROVE Safe'
    OBVIOUS
<1> USE DEF Safe
<1>1. ASSUME NEW s \in Conn, NEW i \in ListenId, Register(s, i) PROVE Safe'
    BY <1>1 DEF Register, Idle, TypeOK, Mutual, OneWait, OneRole
<1>2. ASSUME NEW s \in Conn, NEW i \in ListenId, NEW o \in Otp, Ask(s, i, o)
      PROVE  Safe'
    <2> DEFINE w == [listener |-> registered[i], otp |-> o, client |-> s]
    <2>1. /\ w \in Wait /\ w.listener = registered[i] /\ w.otp = o /\ w.client = s
          /\ waits' = waits \cup {w} /\ UNCHANGED <<open, registered, links>>
        BY <1>2 DEF Ask, Wait, TypeOK
    <2> HIDE DEF w
    <2>2. TypeOK' /\ Mutual'
        BY <2>1 DEF TypeOK, Mutual
    <2>3. OneWait'
        BY <1>2, <2>1 DEF Ask, Idle, OneWait
    <2>4. OneRole'
        BY <1>2, <2>1 DEF Ask, Idle, OneRole
    <2> QED
        BY <2>2, <2>3, <2>4
<1>3. ASSUME NEW s \in Conn, NEW i \in ListenId, NEW o \in Otp, Claim(s, i, o)
      PROVE  Safe'
    <2>1. PICK w \in waits : /\ w.listener = registered[i] /\ w.otp = o
                             /\ waits' = waits \ {w} /\ Link(Both(s, w.client))
        BY <1>3 DEF Claim
    <2>2. w \in Wait /\ w.client \in Conn /\ s # w.client
        BY <1>3 DEF TypeOK, Wait, Claim, Idle
    <2>3. Churn
        BY <1>3 DEF Claim, Churn, TypeOK
    <2>4. \A p \in links : /\ s # p[1] /\ s # p[2]
                            /\ w.client # p[1] /\ w.client # p[2]
        BY <1>3 DEF Claim, Idle, OneRole
    <2>5. Mutual' /\ links' \subseteq Conn \X Conn
        BY <2>1, <2>2, <2>3, <2>4, MutualStep
    <2>6. TypeOK'
        BY <1>3, <2>1, <2>5 DEF TypeOK, Claim
    <2>7. OneWait'
        BY <2>1 DEF OneWait
    <2>8. \A p \in links' : p \in links \/ p = <<s, w.client>> \/ p = <<w.client, s>>
        BY <2>1 DEF Link, Both
    <2>9. \A v \in waits' : v \in waits /\ v.client # w.client
        BY <2>1 DEF OneWait
    <2>10. OneRole'
        BY <1>3, <2>8, <2>9 DEF Claim, Idle, OneRole
    <2> QED
        BY <2>5, <2>6, <2>7, <2>10
<1>4. ASSUME NEW s \in Conn, NEW t \in Conn, Direct(s, t) PROVE Safe'
    <2>1. Mutual' /\ links' \subseteq Conn \X Conn
        BY <1>4, MutualStep DEF Direct, Idle
    <2>2. TypeOK'
        BY <1>4, <2>1 DEF TypeOK, Direct, Churn
    <2>3. OneWait'
        BY <1>4 DEF Direct, OneWait
    <2>4. \A p \in links' : p \in links \/ p = <<s, t>> \/ p = <<t, s>>
        BY <1>4 DEF Direct, Link, Both
    <2>5. OneRole'
        BY <1>4, <2>4 DEF Direct, Idle, OneRole
    <2> QED
        BY <2>1, <2>2, <2>3, <2>5
<1>5. CASE Turnover
    <2>1. links' = {p \in links : p[1] \in open'}
        BY <1>5 DEF Turnover, Link
    <2>2. Mutual'
        BY <1>5, <2>1 DEF Turnover, Churn, Idle, Mutual, TypeOK
    <2>3. TypeOK' /\ OneWait'
        BY <1>5, <2>1 DEF Turnover, Churn, TypeOK, OneWait
    <2>4. OneRole'
        BY <1>5, <2>1 DEF Turnover, OneRole, TypeOK, Wait
    <2> QED
        BY <2>2, <2>3, <2>4
<1>6. CASE UNCHANGED vars
    BY <1>6 DEF vars, TypeOK, Mutual, OneWait, OneRole
<1> QED
    BY <1>1, <1>2, <1>3, <1>4, <1>5, <1>6 DEF Next

\* Whoever implements Pairing relays open connections to each other or not at
\* all, each to one other, queues a client once, and gives nobody two roles.
THEOREM PairingSafe == Spec => []Safe
BY InitSafe, NextSafe, PTL DEF Spec
=============================================================================
