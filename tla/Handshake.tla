----------------------------- MODULE Handshake -----------------------------
(***************************************************************************)
(* A peer works its way along the bridges of an hn:// url (homeNet.c,      *)
(* initializeConnect) and asks the last one to connect it to a service, to *)
(* register it as a listener, to take its one-time code, or for records.   *)
(* Bridge h is the h-th part of the url; once it has connected the peer to *)
(* the next part it only relays, so the peer always talks to the last      *)
(* bridge it has reached.  Any request may be answered by a challenge      *)
(* (authThrowChallenge, authSolve).  Every read has a timeout on both      *)
(* sides.                                                                  *)
(*                                                                         *)
(* A hash is the record of what was hashed; the nonce is the number of the *)
(* bridge that chose it, since a bridge challenges a request once.         *)
(***************************************************************************)
EXTENDS Naturals, Sequences

CONSTANTS
    N,          \* number of bridges in the url
    Key, Salt,  \* names and secrets of keys
    NULL,       \* no key, or no secret
    queryKeys,  \* [Query Keys] of each bridge
    listenKeys, \* [Listen Keys] of the last bridge
    Sessions,   \* the sessions to look at, see Session
    MaxRecords  \* the most records a QUERY finds

Hop == 1..N
Cred == [key : Key, salt : Salt]

\* In a url the key may be left out.
Password == Cred \cup [key : {NULL}, salt : Salt]

\* What a peer was asked to do, and how the bridges are configured.
Session ==
    [goal : {"connect", "listen", "claim", "query"},
     url : [Hop -> Password \cup {NULL}],  \* the #key:salt of each part
     pass : Cred \cup {NULL},              \* -key and -salt
     level : [Hop -> 0..2],                \* Connect Auth Level
     isIp : [Hop -> BOOLEAN],              \* the next part is an ip address
     queryAuth : BOOLEAN]                  \* Query Auth

ASSUME HandshakeAssumption ==
    /\ N \in Nat \ {0} /\ MaxRecords \in Nat
    /\ NULL \notin Key \cup Salt \cup Password
    /\ queryKeys \in [Hop -> [Key -> Salt \cup {NULL}]]
    /\ listenKeys \in [Key -> Salt \cup {NULL}]
    /\ Sessions \subseteq Session

VARIABLES
    c,          \* the session
    peer,       \* where the peer is in its code
    hop,        \* the bridge it asks
    at,         \* the bridge that reads what it sends
    br,         \* where that bridge is in handleNew
    up, resp,   \* what is under way to the bridge, the answer if it is one
    down,       \* what is under way to the peer, one entry per write
    closed,     \* the bridge has destroyed the connection
    accepted,   \* history: the bridges that did what they were asked
    trouble,    \* history: a read timed out, or something was not there
    swallowed   \* history: what was read along with another message, and lost

vars == <<c, peer, hop, at, br, up, resp, down, closed, accepted, trouble, swallowed>>

Init ==
    /\ c \in Sessions
    /\ peer = "start" /\ hop = 1 /\ at = 1 /\ br = "idle"
    /\ up = "none" /\ resp = NULL /\ down = <<>>
    /\ closed = FALSE /\ accepted = {} /\ trouble = FALSE /\ swallowed = {}

(***************************************************************************)
(* Requests, keys and answers                                              *)
(***************************************************************************)

\* All bridges but the last are asked to connect to the next part.
Request(h) == IF h < N THEN "connect" ELSE c.goal

\* Mutation: the password of the next part is used.
password_next(h) ==
    IF Request(h) \in {"listen", "query"} THEN c.pass
    ELSE IF h < N THEN c.url[h + 1] ELSE c.url[h]

\* The part of the url that names a bridge has the password for it.
password(h) == IF Request(h) \in {"listen", "query"} THEN c.pass ELSE c.url[h]

connect_authRequired(h) == c.level[h] = 2 \/ (c.level[h] = 1 /\ c.isIp[h])

\* Bridge h throws a challenge: for a listener, when it knows the id.
AuthRequired(h) ==
    \/ Request(h) = "connect" /\ connect_authRequired(h)
    \/ Request(h) = "listen" /\ listenKeys[c.pass.key] # NULL
    \/ Request(h) = "query" /\ c.queryAuth

\* A listener has to know the salt of its own id.
keyStore(h) ==
    IF Request(h) = "listen"
    THEN [k \in Key |-> IF k = c.pass.key THEN listenKeys[k] ELSE NULL]
    ELSE queryKeys[h]

generateAuthResp(nonce, p) == [nonce |-> nonce, key |-> p.key, salt |-> p.salt]

\* Mutation: a known key is enough.
verifyAuthRespFromMap_key(h, r) == r.key # NULL /\ keyStore(h)[r.key] # NULL

\* An answer without a key is refused.
verifyAuthRespFromMap(h, r) ==
    /\ r.key # NULL
    /\ keyStore(h)[r.key] # NULL
    /\ r = generateAuthResp(h, [key |-> r.key, salt |-> keyStore(h)[r.key]])

(***************************************************************************)
(* The peer                                                                *)
(***************************************************************************)

\* hn_receiveMsg reads until what it has ends a message: it takes what one
\* write sent, and whatever other writes have arrived with it.
hn_receiveMsg(n) ==
    /\ n \in 1..Len(down)
    /\ down' = SubSeq(down, n + 1, Len(down))
    /\ swallowed' = swallowed \cup {down[i] : i \in 2..n}

Reading == peer \in {"sent", "solved", "collect"}

\* initializeListenNotify returns at once without an id.
NoId ==
    /\ peer = "start" /\ hop = 1 /\ c.goal = "listen" /\ c.pass = NULL
    /\ peer' = "failed"
    /\ UNCHANGED <<c, hop, at, br, up, resp, down, closed, accepted, trouble, swallowed>>

SendRequest ==
    /\ peer = "start" /\ ~ (c.goal = "listen" /\ c.pass = NULL)
    /\ peer' = "sent"
    /\ up' = IF closed THEN "none" ELSE "request"
    /\ UNCHANGED <<c, hop, at, br, resp, down, closed, accepted, trouble, swallowed>>

\* authSolve answers a challenge.  Without a key, generateAuthResp takes the
\* length of a null pointer.
Solve(n) ==
    /\ peer = "sent" /\ hn_receiveMsg(n) /\ down[1] = "AUTH"
    /\ IF password(hop) = NULL \/ password(hop).key = NULL
       THEN peer' = "crashed" /\ UNCHANGED <<up, resp>>
       ELSE /\ peer' = "solved"
            /\ resp' = generateAuthResp(hop, password(hop))
            /\ up' = IF closed THEN "none" ELSE "response"
    /\ UNCHANGED <<c, hop, at, br, closed, accepted, trouble>>

\* Mutation: whatever comes back is taken for the answer.
Expected_any(m) == TRUE

\* The message that says the request was done.  A bridge that chose another
\* id than the one asked for says LISTENING with that id.
Expected(m) ==
    \/ Request(hop) \in {"connect", "claim"} /\ m = "CONNECTED"
    \/ Request(hop) = "listen" /\ m = "LISTENING_ID"
    \/ Request(hop) = "query" /\ m = "QUERY_RESPONSE"

\* The answer: on to the next part of the url, or to the end.
GetReply(n) ==
    /\ peer \in {"sent", "solved"} /\ hn_receiveMsg(n)
    /\ peer = "sent" => down[1] # "AUTH"
    /\ IF ~Expected(down[1]) THEN peer' = "failed" /\ hop' = hop
       ELSE IF hop < N THEN peer' = "start" /\ hop' = hop + 1
       ELSE peer' = (IF c.goal = "query" THEN "collect" ELSE "done") /\ hop' = hop
    /\ UNCHANGED <<c, at, br, up, resp, closed, accepted, trouble>>

\* What the service sent came with the answer and does not end like a
\* message: hn_receiveMsg goes on reading until the timeout.
GetUnterminated(n) ==
    /\ peer \in {"sent", "solved"} /\ hn_receiveMsg(n)
    /\ n > 1 /\ down[n] = "PUSH" /\ c.goal # "listen"
    /\ peer' = "failed" /\ trouble' = TRUE
    /\ UNCHANGED <<c, hop, at, br, up, resp, closed, accepted>>

\* initializeQuery goes on reading records until nothing comes.
GetRecord(n) ==
    /\ peer = "collect" /\ hn_receiveMsg(n)
    /\ UNCHANGED <<c, peer, hop, at, br, up, resp, closed, accepted, trouble>>

GetEof ==
    /\ Reading /\ down = <<>> /\ closed
    /\ peer' = IF peer = "collect" THEN "done" ELSE "failed"
    /\ UNCHANGED <<c, hop, at, br, up, resp, down, closed, accepted, trouble, swallowed>>

\* Mutation: the read has no timeout.
PeerTimeout_never == FALSE /\ UNCHANGED vars

\* SOCK_TIMEOUT_SECS have passed: as if nothing came.
PeerTimeout ==
    /\ Reading /\ down = <<>> /\ ~closed
    /\ peer' = IF peer = "collect" THEN "done" ELSE "failed"
    /\ trouble' = TRUE
    /\ UNCHANGED <<c, hop, at, br, up, resp, down, closed, accepted, swallowed>>

(***************************************************************************)
(* The bridge: handleNew                                                   *)
(***************************************************************************)
Destroy ==
    /\ closed' = TRUE
    /\ UNCHANGED <<at, br, down, accepted>>

\* createRelay has reached the next part: the ack goes out, and the next
\* bridge waits for a request.
Reached ==
    /\ accepted' = accepted \cup {at}
    /\ down' = Append(down, "CONNECTED")
    /\ IF at < N THEN at' = at + 1 /\ br' = "idle" ELSE at' = at /\ br' = "relay"
    /\ closed' = closed

\* CONNECT: to an address, by way of a listener, or not at all.
DoConnect ==
    \/ Reached /\ trouble' = trouble
    \/ /\ ~c.isIp[at] /\ br' = "waiting"
       /\ UNCHANGED <<at, down, closed, accepted, trouble>>
    \/ Destroy /\ trouble' = TRUE

\* LISTEN_NOTIFY: an id the bridge does not know is replaced by a new one.  It is
\* refused under requireRLAuth, which no configuration sets (see Config).
DoListen ==
    /\ down' = Append(down, IF listenKeys[c.pass.key] # NULL
                            THEN "LISTENING_ID" ELSE "LISTENING_OTHER")
    /\ br' = "listening" /\ accepted' = accepted \cup {at}
    /\ UNCHANGED <<at, closed, trouble>>

\* LISTEN_CONNECT: the code is known, or not.
DoClaim ==
    \/ Reached /\ trouble' = trouble
    \/ Destroy /\ trouble' = TRUE

\* QUERY: one message per record, then the connection is closed.
DoQuery ==
    \E n \in 0..MaxRecords :
        /\ down' = down \o [i \in 1..n |-> "QUERY_RESPONSE"]
        /\ accepted' = accepted \cup {at}
        /\ closed' = TRUE
        /\ trouble' = (trouble \/ n = 0)
        /\ UNCHANGED <<at, br>>

Perform ==
    \/ Request(at) = "connect" /\ DoConnect
    \/ Request(at) = "listen" /\ DoListen
    \/ Request(at) = "claim" /\ DoClaim
    \/ Request(at) = "query" /\ DoQuery

TakeRequest ==
    /\ br = "idle" /\ up = "request" /\ ~closed
    /\ up' = "none"
    /\ IF AuthRequired(at)
       THEN /\ br' = "challenged" /\ down' = Append(down, "AUTH")
            /\ UNCHANGED <<at, closed, accepted, trouble>>
       ELSE Perform
    /\ UNCHANGED <<c, peer, hop, resp, swallowed>>

TakeResponse ==
    /\ br = "challenged" /\ up = "response" /\ ~closed
    /\ up' = "none"
    /\ IF verifyAuthRespFromMap(at, resp)
       THEN Perform
       ELSE Destroy /\ trouble' = trouble
    /\ UNCHANGED <<c, peer, hop, resp, swallowed>>

\* No answer to the challenge in time, or no request: an empty text passes for an
\* http request, which is sent the welcome page.
BridgeTimeout ==
    /\ br \in {"idle", "challenged"} /\ up = "none" /\ ~closed
    /\ down' = IF br = "idle" THEN Append(down, "WELCOME") ELSE down
    /\ closed' = TRUE /\ trouble' = TRUE
    /\ UNCHANGED <<c, peer, hop, at, br, up, resp, accepted, swallowed>>

\* The listener that was sent an OTP connects, or is lost.
ListenerArrives ==
    /\ br = "waiting" /\ ~closed
    /\ Reached
    /\ UNCHANGED <<c, peer, hop, up, resp, trouble, swallowed>>

ListenerLost ==
    /\ br = "waiting" /\ ~closed
    /\ Destroy /\ trouble' = TRUE
    /\ UNCHANGED <<c, peer, hop, up, resp, swallowed>>

\* What follows a handshake: the service speaks first, or a client asks for
\* the new listener and it is sent an OTP.
Push ==
    /\ br \in {"relay", "listening"} /\ ~closed
    /\ br' = "pushed" /\ down' = Append(down, "PUSH")
    /\ UNCHANGED <<c, peer, hop, at, up, resp, closed, accepted, trouble, swallowed>>

(***************************************************************************)
(* Both                                                                    *)
(***************************************************************************)
Ended == peer \in {"done", "failed", "crashed"}

PeerStep ==
    \/ NoId \/ SendRequest \/ GetEof \/ PeerTimeout
    \/ \E n \in 1..Len(down) :
          Solve(n) \/ GetReply(n) \/ GetUnterminated(n) \/ GetRecord(n)

BridgeStep == TakeRequest \/ TakeResponse \/ BridgeTimeout

Next ==
    \/ PeerStep \/ BridgeStep
    \/ ListenerArrives \/ ListenerLost \/ Push
    \/ Ended /\ UNCHANGED vars

\* The peer and the bridge run; nothing is assumed of listeners and services.
Spec == Init /\ [][Next]_vars /\ WF_vars(PeerStep) /\ WF_vars(BridgeStep)

(***************************************************************************)
(* Properties                                                              *)
(***************************************************************************)

\* What the user gave for the request to bridge h, and whether it is right.
Given(h) == IF Request(h) \in {"listen", "query"} THEN c.pass ELSE c.url[h]
HasKey(h) ==
    /\ Given(h) # NULL /\ Given(h).key # NULL
    /\ keyStore(h)[Given(h).key] = Given(h).salt

TypeOK ==
    /\ c \in Sessions /\ hop \in Hop /\ at \in Hop
    /\ peer \in {"start", "sent", "solved", "collect", "done", "failed", "crashed"}
    /\ br \in {"idle", "challenged", "waiting", "relay", "listening", "pushed"}
    /\ up \in {"none", "request", "response"}
    /\ accepted \subseteq Hop
    /\ {closed, trouble} \subseteq BOOLEAN
    /\ swallowed \subseteq {"WELCOME", "QUERY_RESPONSE", "PUSH"}

\* A bridge that requires a key did what it was asked for a peer that has it:
\* along any path, with the keys of other bridges or none in the url.
Authenticated ==
    \A h \in accepted : AuthRequired(h) => HasKey(h)

\* What the peer takes for done was done: every bridge it has passed has
\* connected it to the next one, and a listener has the id it asked for.
PeerAgrees ==
    /\ \A h \in 1..(hop - 1) : h \in accepted
    /\ peer \in {"collect", "done"} => N \in accepted
    /\ peer = "done" /\ c.goal = "listen" => listenKeys[c.pass.key] # NULL

\* The url and the options are what the bridges require.
Entitled ==
    /\ c.goal = "listen" => c.pass # NULL /\ listenKeys[c.pass.key] # NULL
    /\ \A h \in Hop : AuthRequired(h) => HasKey(h)

\* A peer with the right keys for every bridge gets what it asked for, unless
\* a read times out or what it asked for is not there.
Served == Entitled ~> peer = "done" \/ trouble

\* Every handshake ends, whatever the other side does.
Ends == <>Ended

\* docs/usage.md:56 "prints all data received": what a service sends first is
\* not read, and dropped, with the last message of the handshake.
NothingSwallowed == "PUSH" \notin swallowed
============================================================================
