-------------------------- MODULE HandshakeProofs --------------------------
(***************************************************************************)
(* Authenticated for any url, any keys and any number of bridges.  The     *)
(* answer a bridge reads may have been computed for another bridge: the    *)
(* peer and the relays run on their own.  What saves it is that the hash   *)
(* covers the nonce, so an answer that verifies was made with the password *)
(* of the part of the url that names this bridge.                          *)
(***************************************************************************)
EXTENDS Handshake, TLAPS

\* An answer under way was made from what the url has for some bridge.
AnswerMade ==
    up = "response" =>
        \E h \in Hop : /\ password(h) # NULL /\ password(h).key # NULL
                       /\ resp = generateAuthResp(h, password(h))

\* Bridge h needs no key for the request, or the peer has it.
Allowed(h) == AuthRequired(h) => HasKey(h)

\* A bridge that waits for a listener has let the request pass.
WaitAllowed == br = "waiting" => Allowed(at)

\* Whoever waits or is connected was let in by the bridge it stands at.
Inv == hop \in Hop /\ AnswerMade /\ WaitAllowed /\ Authenticated

\* Nobody waits at the start.
LEMMA InitInv == Init => Inv
BY HandshakeAssumption DEF Init, Inv, AnswerMade, WaitAllowed, Authenticated, Hop

\* What is defined from the session alone does not change with a step.
LEMMA SessionFixed ==
    ASSUME c' = c, NEW h
    PROVE  password(h)' = password(h) /\ Allowed(h)' = Allowed(h)
<1>1. /\ password(h)' = password(h) /\ Request(h)' = Request(h)
      /\ AuthRequired(h)' = AuthRequired(h) /\ HasKey(h)' = HasKey(h)
      BY DEF password, Request, AuthRequired, connect_authRequired, HasKey, Given,
             keyStore
<1> QED BY <1>1 DEF Allowed

\* Who is let in depends on the connection and its place only.
LEMMA AllowedFixed ==
    ASSUME c' = c, at' = at, Allowed(at)
    PROVE  Allowed(at)'
BY DEF Allowed, AuthRequired, Request, connect_authRequired, HasKey, Given, keyStore

\* A step preserves the invariant if it sends no answer and either no bridge
\* goes ahead, or one that is allowed to.
LEMMA QuietStep ==
    ASSUME Inv, c' = c, hop' \in Hop,
           (up' = up /\ resp' = resp) \/ up' # "response",
           br' = "waiting" => at' = at,
           \/ Allowed(at) /\ accepted' \subseteq accepted \cup {at}
           \/ accepted' = accepted /\ (br' = "waiting" => br = "waiting")
    PROVE  Inv'
<1>1. Authenticated'
  <2> SUFFICES ASSUME NEW h \in accepted' PROVE Allowed(h)'
      BY DEF Authenticated, Allowed
  <2>1. Allowed(h)
        BY DEF Inv, Authenticated, Allowed
  <2> QED BY <2>1, SessionFixed
<1>2. WaitAllowed'
  <2> SUFFICES ASSUME br' = "waiting" PROVE Allowed(at)'
      BY DEF WaitAllowed
  <2>1. Allowed(at)
        BY DEF Inv, WaitAllowed
  <2> QED BY <2>1, AllowedFixed
<1>3. AnswerMade'
  <2> SUFFICES ASSUME up' = "response" PROVE AnswerMade'
      BY DEF AnswerMade
  <2>1. up = "response" /\ resp' = resp
        OBVIOUS
  <2>2. PICK h \in Hop : /\ password(h) # NULL /\ password(h).key # NULL
                         /\ resp = generateAuthResp(h, password(h))
        BY <2>1 DEF Inv, AnswerMade
  <2>3. password(h)' = password(h)
        BY SessionFixed
  <2> QED BY <2>1, <2>2, <2>3 DEF AnswerMade, generateAuthResp
<1> QED BY <1>1, <1>2, <1>3 DEF Inv

\* What doing a request changes.
LEMMA PerformFacts ==
    ASSUME Perform
    PROVE  /\ accepted' \subseteq accepted \cup {at}
           /\ br' = "waiting" => at' = at
BY DEF Perform, DoConnect, DoListen, DoClaim, DoQuery, Reached, Destroy

\* An answer that verifies at a bridge was made with that bridge's key.
LEMMA VerifiedHasKey ==
    ASSUME Inv, up = "response", verifyAuthRespFromMap(at, resp)
    PROVE  HasKey(at)
<1>1. PICK h \in Hop : /\ password(h) # NULL /\ password(h).key # NULL
                       /\ resp = generateAuthResp(h, password(h))
      BY DEF Inv, AnswerMade
<1>2. resp = [nonce |-> at, key |-> resp.key, salt |-> keyStore(at)[resp.key]]
      BY DEF verifyAuthRespFromMap, generateAuthResp
<1>3. resp = [nonce |-> h, key |-> password(h).key, salt |-> password(h).salt]
      BY <1>1 DEF generateAuthResp
<1>4. /\ h = at /\ resp.key = password(h).key
      /\ keyStore(at)[resp.key] = password(h).salt
  <2>1. resp.nonce = h /\ resp.key = password(h).key /\ resp.salt = password(h).salt
        BY <1>3
  <2>2. resp.nonce = at /\ resp.salt = keyStore(at)[resp.key]
        BY <1>2
  <2> QED BY <2>1, <2>2
<1> QED BY <1>1, <1>4 DEF HasKey, Given, password

\* A bridge that does not challenge a request does not require a key for it.
LEMMA RequestStep == Inv /\ TakeRequest => Inv'
<1> SUFFICES ASSUME Inv, TakeRequest PROVE Inv'
    OBVIOUS
<1>1. c' = c /\ hop' \in Hop /\ up' = "none" /\ br = "idle"
      BY DEF TakeRequest, Inv
<1>2. CASE AuthRequired(at)
  <2>1. accepted' = accepted /\ br' = "challenged"
        BY <1>2 DEF TakeRequest
  <2> QED BY <1>1, <2>1, QuietStep
<1>3. CASE ~AuthRequired(at)
  <2>1. Perform
        BY <1>3 DEF TakeRequest
  <2>2. Allowed(at)
        BY <1>3 DEF Allowed
  <2> QED BY <1>1, <2>1, <2>2, PerformFacts, QuietStep
<1> QED BY <1>2, <1>3

\* The answer to a challenge.
LEMMA ResponseStep == Inv /\ TakeResponse => Inv'
<1> SUFFICES ASSUME Inv, TakeResponse PROVE Inv'
    OBVIOUS
<1>1. /\ c' = c /\ hop' \in Hop /\ up' = "none"
      /\ up = "response" /\ br = "challenged"
      BY DEF TakeResponse, Inv
<1>2. CASE verifyAuthRespFromMap(at, resp)
  <2>1. Perform
        BY <1>2 DEF TakeResponse
  <2>2. Allowed(at)
        BY <1>1, <1>2, VerifiedHasKey DEF Allowed
  <2> QED BY <1>1, <2>1, <2>2, PerformFacts, QuietStep
<1>3. CASE ~verifyAuthRespFromMap(at, resp)
  <2>1. accepted' = accepted /\ br' = br
        BY <1>3 DEF TakeResponse, Destroy
  <2> QED BY <1>1, <2>1, QuietStep
<1> QED BY <1>2, <1>3

\* A listener arrives at a bridge that let the request pass earlier.
LEMMA ListenerStep == Inv /\ (ListenerArrives \/ ListenerLost) => Inv'
<1> SUFFICES ASSUME Inv, ListenerArrives \/ ListenerLost PROVE Inv'
    OBVIOUS
<1>1. Allowed(at)
      BY DEF ListenerArrives, ListenerLost, Inv, WaitAllowed
<1>2. /\ c' = c /\ hop' \in Hop /\ up' = up /\ resp' = resp
      /\ accepted' \subseteq accepted \cup {at}
      /\ br' = "waiting" => at' = at
      BY DEF ListenerArrives, ListenerLost, Reached, Destroy, Inv
<1> QED BY <1>1, <1>2, QuietStep

\* authSolve makes an answer for the bridge the peer is at.
LEMMA SolveStep == ASSUME NEW n, Inv, Solve(n) PROVE Inv'
<1>1. /\ c' = c /\ hop' = hop /\ hop \in Hop
      /\ accepted' = accepted /\ br' = br /\ at' = at
      BY DEF Solve, Inv
<1>2. CASE password(hop) = NULL \/ password(hop).key = NULL
  <2>1. up' = up /\ resp' = resp
        BY <1>2 DEF Solve
  <2> QED BY <1>1, <2>1, QuietStep
<1>3. CASE ~(password(hop) = NULL \/ password(hop).key = NULL)
  <2>1. resp' = generateAuthResp(hop, password(hop))
        BY <1>3 DEF Solve
  <2>2. AnswerMade'
    <3>1. \E h \in Hop : /\ password(h)' # NULL /\ (password(h).key)' # NULL
                         /\ resp' = generateAuthResp(h, password(h)')
          BY <1>1, <1>3, <2>1, SessionFixed
    <3> QED BY <3>1 DEF AnswerMade, generateAuthResp
  <2>3. Authenticated'
    <3> SUFFICES ASSUME NEW h \in accepted' PROVE Allowed(h)'
        BY DEF Authenticated, Allowed
    <3>1. Allowed(h)
          BY <1>1 DEF Inv, Authenticated, Allowed
    <3> QED BY <1>1, <3>1, SessionFixed
  <2>4. WaitAllowed'
    <3> SUFFICES ASSUME br' = "waiting" PROVE Allowed(at)'
        BY DEF WaitAllowed
    <3>1. Allowed(at)
          BY <1>1 DEF Inv, WaitAllowed
    <3> QED BY <1>1, <3>1, AllowedFixed
  <2> QED BY <1>1, <2>2, <2>3, <2>4 DEF Inv
<1> QED BY <1>2, <1>3

\* The peer changes nothing the bridges decided.
LEMMA PeerInv == Inv /\ PeerStep => Inv'
<1> SUFFICES ASSUME Inv, PeerStep PROVE Inv'
    OBVIOUS
<1>1. CASE NoId \/ GetEof \/ PeerTimeout
      BY <1>1, QuietStep DEF NoId, GetEof, PeerTimeout, Inv
<1>2. CASE SendRequest
  <2>1. up' # "response"
        BY <1>2 DEF SendRequest
  <2> QED BY <1>2, <2>1, QuietStep DEF SendRequest, Inv
<1>3. ASSUME NEW n \in 1..Len(down), Solve(n) PROVE Inv'
      BY <1>3, SolveStep
<1>4. ASSUME NEW n \in 1..Len(down), GetReply(n) PROVE Inv'
  <2>1. hop' \in Hop
        BY <1>4, HandshakeAssumption DEF GetReply, Inv, Hop
  <2> QED BY <1>4, <2>1, QuietStep DEF GetReply
<1>5. ASSUME NEW n \in 1..Len(down), GetUnterminated(n) \/ GetRecord(n) PROVE Inv'
      BY <1>5, QuietStep DEF GetUnterminated, GetRecord, Inv
<1> QED BY <1>1, <1>2, <1>3, <1>4, <1>5 DEF PeerStep

\* Every step keeps the invariant.
LEMMA NextInv == Inv /\ [Next]_vars => Inv'
<1> SUFFICES ASSUME Inv, [Next]_vars PROVE Inv'
    OBVIOUS
<1>1. CASE PeerStep
      BY <1>1, PeerInv
<1>2. CASE TakeRequest \/ TakeResponse
      BY <1>2, RequestStep, ResponseStep
<1>3. CASE BridgeTimeout
      BY <1>3, QuietStep DEF BridgeTimeout, Inv
<1>4. CASE ListenerArrives \/ ListenerLost
      BY <1>4, ListenerStep
<1>5. CASE Push
      BY <1>5, QuietStep DEF Push, Inv
<1>6. CASE UNCHANGED vars
      BY <1>6, QuietStep DEF vars, Inv
<1> QED BY <1>1, <1>2, <1>3, <1>4, <1>5, <1>6 DEF Next, BridgeStep

\* Along a url of any length, with any keys, a bridge that requires a key
\* (authThrowChallenge) does what it is asked only for a peer that was given
\* that key for it.
THEOREM AuthenticationCorrect == Spec => []Authenticated
<1>1. Inv => Authenticated
      BY DEF Inv
<1> QED BY <1>1, InitInv, NextInv, PTL DEF Spec

(***************************************************************************)
(* PeerAgrees.  The peer takes the first message it reads for the answer   *)
(* of the bridge it asks, and one read may take several messages.  So the  *)
(* invariant says what is under way: the relays are at most one bridge     *)
(* ahead of the peer, and while a bridge waits for the peer nothing else   *)
(* is under way, so an answer is always the first message.                 *)
(***************************************************************************)
\* The bridge knows the key that the peer names.
IdKnown == listenKeys[c.pass.key] # NULL
\* What a bridge says when it has dealt with a request,
Answer == {"AUTH", "CONNECTED", "LISTENING_ID", "LISTENING_OTHER"}
\* and what else may be under way to the peer.
Message == Answer \cup {"WELCOME", "QUERY_RESPONSE", "PUSH"}

\* The bridges passed have done what they were asked, and the bridge ahead of
\* the peer waits for a request.
Ahead ==
    /\ at \in {hop, hop + 1}
    /\ \A h \in 1..(at - 1) : h \in accepted
    /\ accepted \subseteq 1..at
    /\ at = hop + 1 => up = "none" /\ br = "idle"
    /\ br = "waiting" => up = "none"
    /\ peer = "start" => at = hop /\ br = "idle" /\ up = "none"
    /\ peer = "collect" => c.goal = "query"

\* What message i of those under way to the peer says of the bridges.
Meaning(i) ==
    /\ down[i] \in Answer => i = 1
    /\ down[i] = "AUTH" => at = hop /\ br = "challenged" /\ up = "none"
    /\ down[i] = "CONNECTED" => at = hop + 1 \/ N \in accepted
    /\ down[i] \in {"LISTENING_ID", "QUERY_RESPONSE"} => N \in accepted
    /\ down[i] = "LISTENING_ID" => IdKnown

\* Every message under way means what the peer will take it for.
UnderWay == down \in Seq(Message) /\ \A i \in 1..Len(down) : Meaning(i)

\* A bridge that has yet to answer has sent nothing but a challenge, and the
\* bridge behind it nothing but its answer.
Quiet ==
    ~closed =>
        /\ at = hop /\ br \in {"idle", "waiting"} => Len(down) = 0
        /\ at = hop + 1 \/ br = "challenged" => Len(down) <= 1
        /\ br = "challenged" /\ up = "response" => Len(down) = 0

\* The inductive invariant.
PathInv == TypeOK /\ Ahead /\ UnderWay /\ Quiet /\ PeerAgrees

\* Nothing is under way at the start.
LEMMA InitPath == Init => PathInv
<1> SUFFICES ASSUME Init PROVE PathInv
    OBVIOUS
<1>1. TypeOK
  <2>1. hop \in Hop /\ at \in Hop
        BY HandshakeAssumption DEF Init, Hop
  <2>2. {closed, trouble} \subseteq BOOLEAN
        BY Zenon DEF Init
  <2> QED BY <2>1, <2>2 DEF Init, TypeOK
<1>2. Ahead /\ PeerAgrees
      BY DEF Init, Ahead, PeerAgrees
<1>3. UnderWay /\ Quiet
      BY DEF Init, UnderWay, Quiet
<1> QED BY <1>1, <1>2, <1>3 DEF PathInv

\* What a read leaves under way are no answers.
LEMMA ReadFacts ==
    ASSUME UnderWay, NEW n \in 1..Len(down), hn_receiveMsg(n)
    PROVE  /\ down' \in Seq(Message)
           /\ Len(down') < Len(down)
           /\ \A i \in 1..Len(down') : /\ down'[i] \notin Answer
                                       /\ \E j \in 1..Len(down) : down'[i] = down[j]
           /\ swallowed' \subseteq swallowed \cup (Message \ Answer)
<1>1. /\ down' \in Seq(Message) /\ Len(down') = Len(down) - n
      /\ \A i \in 1..Len(down') : down'[i] = down[i + n]
      BY DEF UnderWay, hn_receiveMsg
<1>2. ASSUME NEW i \in 2..Len(down) PROVE down[i] \in Message \ Answer
  <2>1. i \in 1..Len(down) /\ i # 1 /\ down[i] \in Message
        BY DEF UnderWay
  <2> QED BY <2>1 DEF UnderWay, Meaning
<1>3. swallowed' \subseteq swallowed \cup (Message \ Answer)
      BY <1>2 DEF hn_receiveMsg
<1>4. ASSUME NEW i \in 1..Len(down')
      PROVE  down'[i] \notin Answer /\ \E j \in 1..Len(down) : down'[i] = down[j]
  <2>1. i + n \in 2..Len(down)
        BY <1>1
  <2> QED BY <1>1, <1>2, <2>1
<1> QED BY <1>1, <1>3, <1>4

\* A read by a peer that stays where it is.
LEMMA ReadStays ==
    ASSUME PathInv, NEW n \in 1..Len(down), hn_receiveMsg(n),
           UNCHANGED <<c, hop, at, br, closed, accepted>>,
           up' = up \/ (up' \in {"none", "response"} /\ br = "challenged"),
           trouble' \in BOOLEAN,
           peer' \in {"solved", "collect", "done", "failed", "crashed"},
           peer' = "collect" => c.goal = "query",
           peer' \in {"collect", "done"} => N \in accepted,
           peer' = "done" /\ c.goal = "listen" => IdKnown
    PROVE  PathInv'
<1>1. TypeOK'
  <2>1. swallowed' \subseteq {"WELCOME", "QUERY_RESPONSE", "PUSH"}
        BY ReadFacts DEF PathInv, TypeOK, Message, Answer
  <2>2. up' \in {"none", "request", "response"}
        BY DEF PathInv, TypeOK
  <2> QED BY <2>1, <2>2 DEF PathInv, TypeOK, Hop
<1>2. Ahead'
      BY HandshakeAssumption DEF PathInv, Ahead, TypeOK, Hop
<1>3. UnderWay'
  <2>1. ASSUME NEW i \in 1..Len(down') PROVE Meaning(i)'
    <3>1. PICK j \in 1..Len(down) : down'[i] = down[j]
          BY ReadFacts DEF PathInv
    <3>2. down'[i] \notin Answer
          BY ReadFacts DEF PathInv
    <3> QED BY <3>1, <3>2 DEF PathInv, UnderWay, Meaning, Answer, IdKnown
  <2> QED BY <2>1, ReadFacts DEF PathInv, UnderWay
<1>4. Quiet'
      BY ReadFacts DEF PathInv, Quiet, UnderWay
<1>5. PeerAgrees'
      BY DEF PathInv, PeerAgrees, IdKnown
<1> QED BY <1>1, <1>2, <1>3, <1>4, <1>5 DEF PathInv

\* A step that sends nothing, and moves neither the peer nor a bridge on.
LEMMA NothingSent ==
    ASSUME PathInv, UNCHANGED <<c, hop, at, br, down, accepted, swallowed>>,
           closed' \in {closed, TRUE}, trouble' \in BOOLEAN,
           \/ up' = up
           \/ up' = "none"
           \/ up' = "request" /\ peer = "start" /\ peer' = "sent",
           \/ peer' = peer
           \/ peer' = "failed"
           \/ peer' = "sent"
           \/ peer' = "done" /\ peer = "collect"
    PROVE  PathInv'
<1>1. TypeOK'
  <2>1. closed' \in BOOLEAN
        BY DEF PathInv, TypeOK
  <2> QED BY <2>1 DEF PathInv, TypeOK, Hop
<1>2. Ahead'
      BY HandshakeAssumption DEF PathInv, Ahead, TypeOK, Hop
<1>7. PeerAgrees'
      BY DEF PathInv, Ahead, PeerAgrees
<1>3. UnderWay'
  <2>1. ASSUME NEW i \in 1..Len(down) PROVE Meaning(i)'
    <3>1. Meaning(i)
          BY DEF PathInv, UnderWay
    <3>2. down[i] = "AUTH" => up' = "none"
          BY <3>1 DEF PathInv, Ahead, Meaning
    <3>3. IdKnown' = IdKnown
          BY DEF IdKnown
    <3> QED BY <3>1, <3>2, <3>3 DEF Meaning
  <2> QED BY <2>1 DEF PathInv, UnderWay
<1>4. Quiet'
      BY DEF PathInv, Quiet, Ahead
<1> QED BY <1>1, <1>2, <1>3, <1>4, <1>7 DEF PathInv

\* A bridge that has sent nothing sends its answer, or asks for a key.
LEMMA FirstSent ==
    ASSUME PathInv, NEW m \in Answer, down' = Append(down, m), Len(down) = 0,
           UNCHANGED <<c, peer, hop, closed, swallowed>>,
           trouble' \in BOOLEAN, up' = "none", peer # "start",
           br' \in {"idle", "challenged", "relay", "listening"},
           at = hop,
           m = "AUTH" => at' = at /\ accepted' = accepted /\ br' = "challenged",
           m # "AUTH" => accepted' = accepted \cup {at},
           m # "AUTH" /\ at < N => m = "CONNECTED" /\ at' = at + 1 /\ br' = "idle",
           m # "AUTH" /\ at = N => at' = at /\ br' \in {"relay", "listening"},
           m = "LISTENING_ID" => IdKnown
    PROVE  PathInv'
<1> USE HandshakeAssumption
<1>0. at \in Nat /\ hop \in Nat /\ N \in Nat /\ at \in Hop /\ accepted \subseteq Hop
      BY DEF PathInv, TypeOK, Hop
<1>1. at' \in Hop /\ accepted' \subseteq Hop
  <2>1. at = N \/ at < N
        BY <1>0 DEF Hop
  <2>2. at' = at \/ (at < N /\ at' = at + 1)
        BY <2>1
  <2>3. accepted' = accepted \/ accepted' = accepted \cup {at}
        OBVIOUS
  <2>4. at' \in Hop
        BY <1>0, <2>2 DEF Hop
  <2>5. accepted' \subseteq Hop
        BY <1>0, <2>3
  <2> QED BY <2>4, <2>5
<1>2. TypeOK'
      BY <1>1 DEF PathInv, TypeOK, Hop
<1>3. Ahead'
  <2>1. /\ \A h \in 1..(at - 1) : h \in accepted
        /\ accepted \subseteq 1..at
        /\ peer = "collect" => c.goal = "query"
        BY DEF PathInv, Ahead
  <2>2. (peer = "collect" => c.goal = "query")'
        BY <2>1
  <2>3. at' \in {hop', hop' + 1} /\ (at' = hop' + 1 => br' = "idle")
        BY <1>0 DEF Hop
  <2>4. \A h \in 1..(at' - 1) : h \in accepted'
        BY <1>0, <2>1 DEF Hop
  <2>5. accepted' \subseteq 1..at'
    <3>1. at' \in Nat /\ at <= at' /\ at >= 1
          BY <1>0 DEF Hop
    <3>2. accepted' \subseteq accepted \cup {at}
          OBVIOUS
    <3> QED BY <1>0, <2>1, <3>1, <3>2
  <2> QED BY <2>2, <2>3, <2>4, <2>5 DEF Ahead
<1>4. PeerAgrees'
      BY DEF PathInv, PeerAgrees
<1>5. UnderWay'
  <2>1. down' \in Seq(Message) /\ Len(down') = 1 /\ down'[1] = m
        BY DEF PathInv, UnderWay, Message
  <2>3. IdKnown' = IdKnown
        BY DEF IdKnown
  <2>2. Meaning(1)'
        BY <2>1, <2>3, HandshakeAssumption DEF Meaning, Answer, PathInv, TypeOK, Hop
  <2> QED BY <2>1, <2>2 DEF UnderWay
<1>6. Quiet'
      BY HandshakeAssumption DEF Quiet, PathInv, TypeOK, Hop
<1> QED BY <1>2, <1>3, <1>4, <1>5, <1>6 DEF PathInv

\* What a bridge sends after its answer, or when it gives up.
LEMMA MoreSent ==
    ASSUME PathInv, down' \in Seq(Message),
           \A i \in 1..Len(down') :
               \/ i \in 1..Len(down) /\ down'[i] = down[i]
               \/ down'[i] \in {"WELCOME", "PUSH"}
               \/ down'[i] = "QUERY_RESPONSE" /\ N \in accepted',
           UNCHANGED <<c, peer, hop, at, swallowed>>, trouble' \in BOOLEAN,
           up' \in {up, "none"},
           accepted' = accepted \/ (accepted' = accepted \cup {at} /\ at = N),
           \/ closed' = TRUE /\ br' = br
           \/ closed' = closed /\ br \in {"relay", "listening"} /\ br' = "pushed"
    PROVE  PathInv'
<1> USE HandshakeAssumption
<1>0. at \in Nat /\ hop \in Nat /\ N \in Nat /\ at \in Hop /\ accepted \subseteq Hop
      BY DEF PathInv, TypeOK, Hop
<1>1. accepted \subseteq accepted' /\ accepted' \subseteq accepted \cup {at}
      OBVIOUS
<1>2. TypeOK'
  <2>1. closed' \in BOOLEAN
        BY DEF PathInv, TypeOK
  <2>2. accepted' \subseteq Hop
        BY <1>0, <1>1
  <2> QED BY <2>1, <2>2 DEF PathInv, TypeOK, Hop
<1>3. Ahead'
  <2>1. /\ \A h \in 1..(at - 1) : h \in accepted
        /\ accepted \subseteq 1..at
        /\ peer = "collect" => c.goal = "query"
        BY DEF PathInv, Ahead
  <2>2. accepted' \subseteq 1..at
        BY <1>0, <1>1, <2>1 DEF Hop
  <2> QED BY <1>1, <2>1, <2>2 DEF PathInv, Ahead
<1>4. UnderWay'
  <2>1. IdKnown' = IdKnown
        BY DEF IdKnown
  <2>2. ASSUME NEW i \in 1..Len(down') PROVE Meaning(i)'
    <3>1. CASE i \in 1..Len(down) /\ down'[i] = down[i]
      <4>1. Meaning(i)
            BY <3>1 DEF PathInv, UnderWay
      <4>2. down'[i] = "AUTH" => br' = br /\ up' = "none"
            BY <3>1, <4>1 DEF Meaning
      <4> QED BY <1>1, <2>1, <3>1, <4>1, <4>2 DEF Meaning
    <3>2. CASE down'[i] \in {"WELCOME", "PUSH"}
          BY <3>2 DEF Meaning, Answer
    <3>3. CASE down'[i] = "QUERY_RESPONSE" /\ N \in accepted'
          BY <3>3 DEF Meaning, Answer
    <3> QED BY <3>1, <3>2, <3>3
  <2> QED BY <2>2 DEF UnderWay
<1>5. Quiet'
      BY DEF PathInv, Quiet, Ahead
<1>6. PeerAgrees'
      BY <1>1 DEF PathInv, PeerAgrees
<1> QED BY <1>2, <1>3, <1>4, <1>5, <1>6 DEF PathInv

\* The peer reads, and asks the next bridge.
LEMMA PeerPath == PathInv /\ PeerStep => PathInv'
<1> SUFFICES ASSUME PathInv, PeerStep PROVE PathInv'
    OBVIOUS
<1> USE HandshakeAssumption
<1>0. /\ at \in Nat /\ hop \in Hop /\ hop \in Nat /\ N \in Nat
      /\ closed \in BOOLEAN /\ trouble \in BOOLEAN
      BY DEF PathInv, TypeOK, Hop
<1>1. CASE NoId
      BY <1>0, <1>1, NothingSent DEF NoId
<1>2. CASE SendRequest
  <2>1. up' = "none" \/ up' = "request"
        BY <1>2 DEF SendRequest
  <2> QED BY <1>0, <1>2, <2>1, NothingSent DEF SendRequest
<1>3. CASE GetEof \/ PeerTimeout
  <2>1. peer' = "failed" \/ (peer' = "done" /\ peer = "collect")
        BY <1>3 DEF GetEof, PeerTimeout
  <2> QED BY <1>0, <1>3, <2>1, NothingSent DEF GetEof, PeerTimeout
<1>4. ASSUME NEW n \in 1..Len(down), Solve(n) PROVE PathInv'
  <2>1. 1 \in 1..Len(down) /\ down[1] = "AUTH"
        BY <1>4 DEF Solve, PathInv, UnderWay
  <2>2. br = "challenged"
        BY <2>1 DEF PathInv, UnderWay, Meaning
  <2>3. up' = up \/ up' \in {"none", "response"}
        BY <1>4 DEF Solve
  <2>4. peer' \in {"solved", "crashed"}
        BY <1>4 DEF Solve
  <2> QED BY <1>0, <1>4, <2>2, <2>3, <2>4, ReadStays DEF Solve
<1>5. ASSUME NEW n \in 1..Len(down), GetUnterminated(n) PROVE PathInv'
      BY <1>0, <1>5, ReadStays DEF GetUnterminated
<1>6. ASSUME NEW n \in 1..Len(down), GetRecord(n) PROVE PathInv'
  <2>1. N \in accepted /\ c.goal = "query"
        BY <1>6 DEF GetRecord, PathInv, PeerAgrees, Ahead
  <2> QED BY <1>0, <1>6, <2>1, ReadStays DEF GetRecord
<1>7. ASSUME NEW n \in 1..Len(down), GetReply(n) PROVE PathInv'
  <2>1. 1 \in 1..Len(down) /\ Meaning(1)
        BY <1>7 DEF PathInv, UnderWay
  <2>2. CASE ~Expected(down[1])
        BY <1>0, <1>7, <2>2, ReadStays DEF GetReply
  <2>3. CASE Expected(down[1]) /\ hop = N
    <3>1. at = N
          BY <1>0, <2>3 DEF PathInv, TypeOK, Ahead, Hop
    <3>2. N \in accepted
          BY <1>0, <2>1, <2>3, <3>1 DEF Expected, Meaning, Request
    <3>3. c.goal = "listen" => IdKnown
          BY <1>0, <2>1, <2>3 DEF Expected, Meaning, Request
    <3>4. peer' = (IF c.goal = "query" THEN "collect" ELSE "done")
          BY <1>0, <1>7, <2>3 DEF GetReply
    <3> QED BY <1>0, <1>7, <2>3, <3>2, <3>3, <3>4, ReadStays DEF GetReply
  <2>4. CASE Expected(down[1]) /\ hop < N
    <3>1. down[1] = "CONNECTED"
          BY <2>4 DEF Expected, Request
    <3>2. at = hop + 1
          BY <1>0, <2>1, <2>4, <3>1 DEF Meaning, PathInv, Ahead
    <3>3. peer' = "start" /\ hop' = hop + 1
          BY <1>7, <2>4 DEF GetReply
    <3>4. UNCHANGED <<c, at, br, up, closed, accepted, trouble>> /\ hn_receiveMsg(n)
          BY <1>7 DEF GetReply
    <3>5. TypeOK'
      <4>1. swallowed' \subseteq {"WELCOME", "QUERY_RESPONSE", "PUSH"}
            BY <3>4, ReadFacts DEF PathInv, TypeOK, Message, Answer
      <4>2. hop' \in Hop
            BY <1>0, <2>4, <3>3 DEF Hop
      <4> QED BY <3>3, <3>4, <4>1, <4>2 DEF PathInv, TypeOK, Hop
    <3>6. Ahead' /\ PeerAgrees'
          BY <1>0, <3>2, <3>3, <3>4 DEF PathInv, Ahead, PeerAgrees
    <3>7. UnderWay'
      <4>1. ASSUME NEW i \in 1..Len(down') PROVE Meaning(i)'
        <5>1. PICK j \in 1..Len(down) : down'[i] = down[j]
              BY <3>4, ReadFacts DEF PathInv
        <5>2. down'[i] \notin Answer
              BY <3>4, ReadFacts DEF PathInv
        <5> QED BY <3>4, <5>1, <5>2 DEF PathInv, UnderWay, Meaning, Answer
      <4> QED BY <3>4, <4>1, ReadFacts DEF PathInv, UnderWay
    <3>8. Quiet'
      <4>1. down' \in Seq(Message) /\ Len(down') < Len(down) /\ Len(down) \in Nat
            BY <3>4, ReadFacts DEF PathInv, UnderWay
      <4> QED BY <1>0, <3>2, <3>3, <3>4, <4>1 DEF PathInv, Quiet, Ahead
    <3> QED BY <3>5, <3>6, <3>7, <3>8 DEF PathInv
  <2> QED BY <1>0, <2>2, <2>3, <2>4 DEF Hop
<1> QED BY <1>1, <1>2, <1>3, <1>4, <1>5, <1>6, <1>7 DEF PeerStep

\* A bridge does what it is asked with nothing under way to the peer.
LEMMA PerformPath ==
    ASSUME PathInv, Perform, UNCHANGED <<c, peer, hop, swallowed>>,
           up' = "none", at = hop, Len(down) = 0, peer # "start", ~closed
    PROVE  PathInv'
<1> USE HandshakeAssumption
<1>0. /\ at \in Nat /\ N \in Nat /\ at \in Hop /\ at <= N
      /\ trouble \in BOOLEAN /\ down \in Seq(Message)
      BY DEF PathInv, TypeOK, UnderWay, Hop
<1>1. CASE Destroy /\ trouble' \in BOOLEAN
      BY <1>1, NothingSent DEF Destroy
<1>2. CASE Reached /\ trouble' \in BOOLEAN
  <2>1. CASE at < N
        BY <1>0, <1>2, <2>1, FirstSent DEF Reached, Answer
  <2>2. CASE at = N
        BY <1>0, <1>2, <2>2, FirstSent DEF Reached, Answer
  <2> QED BY <1>0, <2>1, <2>2
<1>3. CASE br' = "waiting" /\ UNCHANGED <<at, down, closed, accepted, trouble>>
      BY <1>0, <1>3 DEF PathInv, TypeOK, Ahead, UnderWay, Quiet, PeerAgrees
<1>4. CASE Request(at) = "connect" /\ DoConnect
      BY <1>0, <1>1, <1>2, <1>3, <1>4 DEF DoConnect
<1>5. CASE Request(at) = "claim" /\ DoClaim
      BY <1>0, <1>1, <1>2, <1>5 DEF DoClaim
<1>6. CASE Request(at) = "listen" /\ DoListen
  <2>1. at = N
        BY <1>0, <1>6 DEF Request
  <2>2. PICK m \in {"LISTENING_ID", "LISTENING_OTHER"} :
            down' = Append(down, m) /\ (m = "LISTENING_ID" => IdKnown)
        BY <1>6 DEF DoListen, IdKnown
  <2>3. /\ br' = "listening" /\ accepted' = accepted \cup {at}
        /\ at' = at /\ closed' = closed /\ trouble' = trouble
        BY <1>6 DEF DoListen
  <2> QED BY <1>0, <2>1, <2>2, <2>3, FirstSent DEF Answer
<1>7. CASE Request(at) = "query" /\ DoQuery
  <2>1. at = N
        BY <1>0, <1>7 DEF Request
  <2>2. PICK n \in 0..MaxRecords :
            down' = down \o [i \in 1..n |-> "QUERY_RESPONSE"]
            /\ trouble' = (trouble \/ n = 0)
        BY <1>7 DEF DoQuery
  <2>3. /\ down' \in Seq(Message)
        /\ \A i \in 1..Len(down') : down'[i] = "QUERY_RESPONSE"
    <3> DEFINE r == [i \in 1..n |-> "QUERY_RESPONSE"]
    <3>1. r \in Seq(Message) /\ Len(r) = n
          BY DEF Message
    <3> HIDE DEF r
    <3>2. \A i \in 1..n : r[i] = "QUERY_RESPONSE"
          BY DEF r
    <3> QED BY <1>0, <2>2, <3>1, <3>2 DEF r
  <2>4. accepted' = accepted \cup {at} /\ closed' = TRUE /\ at' = at /\ br' = br
        BY <1>7 DEF DoQuery
  <2>5. trouble' \in BOOLEAN
        BY <2>2, Zenon
  <2> QED BY <1>0, <2>1, <2>3, <2>4, <2>5, MoreSent
<1> QED BY <1>4, <1>5, <1>6, <1>7 DEF Perform

\* A bridge answers, a listener comes or goes.
LEMMA BridgePath ==
    PathInv /\ (BridgeStep \/ ListenerArrives \/ ListenerLost \/ Push) => PathInv'
<1> SUFFICES ASSUME PathInv, BridgeStep \/ ListenerArrives \/ ListenerLost \/ Push
             PROVE  PathInv'
    OBVIOUS
<1>0. /\ at \in Nat /\ N \in Nat /\ hop \in Nat /\ at \in Hop /\ at <= N
      /\ closed \in BOOLEAN /\ trouble \in BOOLEAN
      /\ down \in Seq(Message) /\ at \in {hop, hop + 1}
      BY HandshakeAssumption DEF PathInv, TypeOK, UnderWay, Hop, Ahead
<1>1. CASE TakeRequest
  <2>1. at = hop /\ peer # "start" /\ Len(down) = 0 /\ ~closed
        BY <1>0, <1>1 DEF TakeRequest, PathInv, Ahead, Quiet
  <2>2. CASE AuthRequired(at)
        BY <1>0, <1>1, <2>1, <2>2, FirstSent DEF TakeRequest, Answer
  <2>3. CASE ~AuthRequired(at)
        BY <1>1, <2>1, <2>3, PerformPath DEF TakeRequest
  <2> QED BY <2>2, <2>3
<1>2. CASE TakeResponse
  <2>1. at = hop /\ peer # "start" /\ Len(down) = 0 /\ ~closed
        BY <1>0, <1>2 DEF TakeResponse, PathInv, Ahead, Quiet
  <2>2. CASE verifyAuthRespFromMap(at, resp)
        BY <1>2, <2>1, <2>2, PerformPath DEF TakeResponse
  <2>3. CASE ~verifyAuthRespFromMap(at, resp)
        BY <1>0, <1>2, <2>3, NothingSent DEF TakeResponse, Destroy
  <2> QED BY <2>2, <2>3
<1>3. CASE BridgeTimeout
  <2>1. CASE br = "idle"
    <3>1. down' = Append(down, "WELCOME")
          BY <1>3, <2>1 DEF BridgeTimeout
    <3> QED BY <1>0, <1>3, <3>1, MoreSent DEF BridgeTimeout, Message
  <2>2. CASE br # "idle"
        BY <1>0, <1>3, <2>2, NothingSent DEF BridgeTimeout
  <2> QED BY <2>1, <2>2
<1>4. CASE ListenerArrives
  <2>1. at = hop /\ peer # "start" /\ Len(down) = 0
        BY <1>0, <1>4 DEF ListenerArrives, PathInv, Ahead, Quiet
  <2>2. up = "none"
        BY <1>4 DEF ListenerArrives, PathInv, Ahead
  <2>3. CASE at < N
        BY <1>0, <1>4, <2>1, <2>2, <2>3, FirstSent DEF ListenerArrives, Reached, Answer
  <2>4. CASE at = N
        BY <1>0, <1>4, <2>1, <2>2, <2>4, FirstSent DEF ListenerArrives, Reached, Answer
  <2> QED BY <1>0, <2>3, <2>4
<1>5. CASE ListenerLost
      BY <1>0, <1>5, NothingSent DEF ListenerLost, Destroy
<1>6. CASE Push
  <2>1. down' = Append(down, "PUSH")
        BY <1>6 DEF Push
  <2>2. down' \in Seq(Message)
        BY <1>0, <2>1 DEF Message
  <2>3. \A i \in 1..Len(down') :
            (i \in 1..Len(down) /\ down'[i] = down[i]) \/ down'[i] = "PUSH"
        BY <1>0, <2>1
  <2> QED BY <1>0, <1>6, <2>2, <2>3, MoreSent DEF Push
<1> QED BY <1>1, <1>2, <1>3, <1>4, <1>5, <1>6 DEF BridgeStep

\* Every step keeps it.
LEMMA NextPath == PathInv /\ [Next]_vars => PathInv'
<1> SUFFICES ASSUME PathInv, UNCHANGED vars PROVE PathInv'
    BY PeerPath, BridgePath DEF Next
<1>1. trouble \in BOOLEAN
      BY DEF PathInv, TypeOK
<1> QED BY <1>1, NothingSent DEF vars

\* The types of the handshake; among them, that no challenge and no answer of
\* a bridge is ever read along with another message and lost (hn_receiveMsg).
THEOREM HandshakeTypeCorrect == Spec => []TypeOK
<1>1. PathInv => TypeOK
      BY DEF PathInv
<1> QED BY <1>1, InitPath, NextPath, PTL DEF Spec

\* Along a url of any length, a peer that goes on to the next part
\* (initializeConnect) has been connected to it by every bridge before, one
\* that reports success was served by the last bridge, and a listener that
\* reports success has the id it asked for.
THEOREM AgreementCorrect == Spec => []PeerAgrees
<1>1. PathInv => PeerAgrees
      BY DEF PathInv
<1> QED BY <1>1, InitPath, NextPath, PTL DEF Spec

=============================================================================
