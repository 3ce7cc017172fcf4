---------------------------- MODULE RemoteListen ----------------------------
(***************************************************************************)
(* A bridge that keeps itself reachable through another bridge: the        *)
(* LISTEN_OUT connection, its pings, and its reconnection with growing     *)
(* pauses.  Both are done by houseKeeping, which hn_loop calls after an    *)
(* event and not after a select timeout.  Time passes in ticks; what the   *)
(* code compares are differences of time(NULL), kept here as the ticks     *)
(* since the last attempt and the last ping.                               *)
(***************************************************************************)
EXTENDS Naturals

CONSTANTS
    Wait1, Wait2, Wait3,    \* getNextRetry: 1, 5 and 30 minutes, in ticks
    PingInterval            \* PING_INTERVAL_SECS, in ticks

ASSUME WaitAssumption ==
    /\ {Wait1, Wait2, Wait3, PingInterval} \subseteq Nat \ {0}
    /\ Wait1 < Wait2 /\ Wait2 < Wait3

VARIABLES
    rlSock,     \* context->rlSock: "open", "dead" (not yet reported), "null"
    rlRetries,  \* context->rlRetries, which no longer matters beyond MaxRetries
    sinceRetry, \* time(NULL) - context->rlLastRetry, up to MaxWait
    sincePing,  \* time(NULL) - context->rlLastPing, up to PingInterval
    link,       \* the connection: "ok", "fin" (end of stream to be read),
                \* "broken" (the remote host is gone without a word)
    pong,       \* a PONG is to be read
    remoteUp,   \* a handshake with the remote bridge would succeed
    house,      \* hn_loop is about to call houseKeeping
    fails       \* history: attempts that failed since the connection was lost

vars == <<rlSock, rlRetries, sinceRetry, sincePing, link, pong, remoteUp, house,
          fails>>

MaxRetries == 10
MaxWait == Wait3 + 1

Min2(a, b) == IF a < b THEN a ELSE b

\* start_bridge gives up unless the first attempt succeeds.
Init ==
    /\ rlSock = "open" /\ link = "ok" /\ remoteUp = TRUE /\ pong = FALSE
    /\ rlRetries = 0 /\ sinceRetry = 0 /\ sincePing = PingInterval
    /\ house = FALSE /\ fails = 0

(***************************************************************************)
(* houseKeeping                                                            *)
(***************************************************************************)

\* The pause getNextRetry adds to the time of the last attempt.
getNextRetry(retryCount) ==
    IF retryCount < 2 THEN 0
    ELSE IF retryCount < 5 THEN Wait1
    ELSE IF retryCount < 10 THEN Wait2
    ELSE Wait3

RetryDue == rlSock = "null" /\ sinceRetry >= getNextRetry(rlRetries)

\* Mutation: a failed attempt is not counted.
tryRLStart_uncounted ==
    IF ~RetryDue
    THEN UNCHANGED <<rlSock, rlRetries, sinceRetry, link, fails>>
    ELSE /\ sinceRetry' = 0
         /\ \/ /\ remoteUp
               /\ rlSock' = "open" /\ link' = "ok" /\ rlRetries' = 0 /\ fails' = 0
            \/ /\ ~remoteUp
               /\ fails' = Min2(fails + 1, MaxRetries)
               /\ UNCHANGED <<rlSock, link, rlRetries>>

\* tryRLStart, called when there is no rlSock.
tryRLStart ==
    IF ~RetryDue
    THEN UNCHANGED <<rlSock, rlRetries, sinceRetry, link, fails>>
    ELSE /\ sinceRetry' = 0
         /\ \/ /\ remoteUp
               /\ rlSock' = "open" /\ link' = "ok" /\ rlRetries' = 0 /\ fails' = 0
            \/ /\ ~remoteUp
               /\ rlRetries' = Min2(rlRetries + 1, MaxRetries)
               /\ fails' = Min2(fails + 1, MaxRetries)
               /\ UNCHANGED <<rlSock, link>>

\* Mutation: rlSock is tested the wrong way round.
PingDue_inverted(s) == s = "null" /\ sincePing >= PingInterval

PingDue(s) == s # "null" /\ sincePing >= PingInterval

\* A ping over a broken connection is what makes the kernel report it.
HouseKeeping ==
    /\ house
    /\ house' = FALSE
    /\ IF PingDue(rlSock)
       THEN /\ sincePing' = 0
            /\ pong' = (rlSock = "open" /\ link = "ok")
            /\ link' = IF link = "broken" THEN "fin" ELSE link
            /\ UNCHANGED <<rlSock, rlRetries, sinceRetry, fails>>
       ELSE /\ tryRLStart
            /\ IF PingDue(rlSock')
               THEN sincePing' = 0 /\ pong' = TRUE
               ELSE UNCHANGED <<sincePing, pong>>
    /\ UNCHANGED remoteUp

(***************************************************************************)
(* The events of hn_loop                                                   *)
(***************************************************************************)
Waiting == ~house

\* READ of the LISTEN_OUT Socket: the end of the stream, or a PONG.
ReadEof ==
    /\ Waiting /\ rlSock = "open" /\ link = "fin"
    /\ rlSock' = "dead" /\ pong' = FALSE /\ house' = TRUE
    /\ UNCHANGED <<rlRetries, sinceRetry, sincePing, link, remoteUp, fails>>

ReadPong ==
    /\ Waiting /\ rlSock = "open" /\ pong
    /\ pong' = FALSE /\ house' = TRUE
    /\ UNCHANGED <<rlSock, rlRetries, sinceRetry, sincePing, link, remoteUp, fails>>

\* Mutation: the context keeps the closed Socket.
CloseEvent_kept ==
    /\ Waiting /\ rlSock = "dead"
    /\ rlRetries' = 0 /\ house' = TRUE /\ fails' = 0
    /\ UNCHANGED <<rlSock, sinceRetry, sincePing, link, pong, remoteUp>>

\* handleClose of the LISTEN_OUT Socket.
CloseEvent ==
    /\ Waiting /\ rlSock = "dead"
    /\ rlSock' = "null" /\ rlRetries' = 0 /\ house' = TRUE /\ fails' = 0
    /\ UNCHANGED <<sinceRetry, sincePing, link, pong, remoteUp>>

\* Any other event: a client, a listener, an mDNS datagram.  A closed Socket
\* is reported before select looks for them.
OtherEvent ==
    /\ Waiting /\ rlSock # "dead"
    /\ house' = TRUE
    /\ UNCHANGED <<rlSock, rlRetries, sinceRetry, sincePing, link, pong, remoteUp,
                   fails>>

\* Nothing of the connection is to be handled: select waits and times out,
\* and hn_loop continues without houseKeeping.
SelectTimeout ==
    /\ Waiting /\ rlSock # "dead"
    /\ rlSock = "open" => link # "fin" /\ ~pong
    /\ sinceRetry' = Min2(sinceRetry + 1, MaxWait)
    /\ sincePing' = Min2(sincePing + 1, PingInterval)
    /\ UNCHANGED <<rlSock, rlRetries, link, pong, remoteUp, house, fails>>

\* The remote bridge stops, with or without closing the connection.
RemoteStops ==
    /\ remoteUp
    /\ remoteUp' = FALSE
    /\ pong' = FALSE
    /\ link' \in (IF link = "ok" THEN {"fin", "broken"} ELSE {link})
    /\ UNCHANGED <<rlSock, rlRetries, sinceRetry, sincePing, house, fails>>

RemoteStarts ==
    /\ ~remoteUp
    /\ remoteUp' = TRUE
    /\ UNCHANGED <<rlSock, rlRetries, sinceRetry, sincePing, link, pong, house, fails>>

Next ==
    \/ HouseKeeping \/ ReadEof \/ ReadPong \/ CloseEvent \/ OtherEvent
    \/ SelectTimeout \/ RemoteStops \/ RemoteStarts

Spec == Init /\ [][Next]_vars

\* The loop runs and time passes.  A Socket that is readable gets its turn
\* whatever else is readable: waitForEvent goes through all that select
\* reported.  Nothing says that clients or mDNS datagrams arrive: the bridge
\* may be idle.
FairSpec ==
    /\ Spec
    /\ WF_vars(HouseKeeping) /\ WF_vars(CloseEvent)
    /\ SF_vars(ReadEof) /\ SF_vars(ReadPong)
    /\ SF_vars(SelectTimeout)

\* The same, in a bridge that other events keep reaching.
BusySpec == FairSpec /\ SF_vars(OtherEvent)

(***************************************************************************)
(* Properties                                                              *)
(***************************************************************************)

TypeOK ==
    /\ rlSock \in {"open", "dead", "null"} /\ link \in {"ok", "fin", "broken"}
    /\ rlRetries \in 0..MaxRetries /\ fails \in 0..MaxRetries
    /\ sinceRetry \in 0..MaxWait /\ sincePing \in 0..PingInterval
    /\ pong \in BOOLEAN /\ remoteUp \in BOOLEAN /\ house \in BOOLEAN

\* homeNet.c:1467 "let the housekeeping handle reconnect": once the remote
\* bridge stays reachable, the remote listener comes back.
Reconnects == <>[]remoteUp => []<>(rlSock = "open")

\* A connection whose remote host is gone is found out and given up.
LossNoticed == rlSock = "open" /\ link = "broken" ~> rlSock # "open"

\* A step in which houseKeeping tried to reconnect.
Attempt ==
    rlSock = "null" /\ (sinceRetry' < sinceRetry \/ fails' # fails \/ rlSock' = "open")

\* However often the connection was lost and found again, an attempt comes
\* no earlier than the pause for the attempts that really failed in a row.
PatientRetry == [][Attempt => sinceRetry >= getNextRetry(fails)]_vars
=============================================================================
