--------------------------------- MODULE Http ---------------------------------
(***************************************************************************)
(* The http upgrade of httpUtils.c and homeNet.c: a client that was told a *)
(* host name disguises its connection as a websocket, the bridge answers   *)
(* 101 and then reads the real message.  A message is the sequence of its  *)
(* lines: the first is the sequence of its words, a header is <<key,       *)
(* value>> (what follows a second ":" is cut), and an empty line << >>     *)
(* ends the headers.                                                       *)
(***************************************************************************)
EXTENDS Containers

NoBody == << >>

Fails == [ok |-> FALSE]

\* The lines strtok_r returns: empty ones are passed over.
strtok_lines(lines) == SelectSeq(lines, LAMBDA l : l # << >>)

\* The line after the first empty one, 0 for -1.
getBodyIndex(lines) ==
    LET E == {i \in DOMAIN lines : lines[i] = << >>}
    IN IF E = {} THEN 0 ELSE Min(E) + 1

\* A line without ":" is no header.
Headers(lines) ==
    FoldLeft(LAMBDA m, l : IF Len(l) < 2 THEN m ELSE map_set(m, l[1], l[2]),
             map_init, lines)

\* The buffer is cut at its first line before the body is looked for: there is
\* never a body, and its lines count as headers.  Nothing at all is a request.
parseHttpRequest(lines) ==
    LET L == strtok_lines(lines)
    IN IF L = << >> THEN [ok |-> TRUE, method |-> "", url |-> "",
                          headers |-> map_init, body |-> NoBody]
       ELSE IF L[1][1] \in {"GET", "POST"} /\ L[1][3] = "HTTP/1.1"
       THEN [ok |-> TRUE, method |-> L[1][1], url |-> L[1][2],
             headers |-> Headers(Tail(L)), body |-> NoBody]
       ELSE Fails

\* Here the body is cut off first.
parseHttpResponse(lines) ==
    LET b == getBodyIndex(lines)
        L == strtok_lines(IF b = 0 THEN lines ELSE SubSeq(lines, 1, b - 1))
        body == IF b = 0 THEN NoBody ELSE SubSeq(lines, b, Len(lines))
    IN IF L = << >> THEN [ok |-> TRUE, statusCode |-> "", headers |-> map_init, body |-> body]
       ELSE IF L[1][1] = "HTTP/1.1"
       THEN [ok |-> TRUE, statusCode |-> L[1][2], headers |-> Headers(Tail(L)), body |-> body]
       ELSE Fails

\* What upgradeHttpClient sends.
UpgradeRequest(host) ==
    <<<<"GET", "/", "HTTP/1.1">>, <<"Connection", "Upgrade">>, <<"Upgrade", "websocket">>,
      <<"Upgrade-Insecure-Requests", "1">>>>
      \o (IF host = "" THEN << >> ELSE <<<<"Host", host>>>>) \o <<<< >>>>

writeUpgradeResponse ==
    <<<<"HTTP/1.1", "101", "Switching Protocols">>, <<"Upgrade", "websocket">>,
      <<"Connection", "Upgrade">>, <<"Sec-WebSocket-Accept", "s3p">>, << >>>>

\* One read: upgraded when what it got starts with the 101.
upgradeHttpClient(lines) ==
    lines # << >> /\ Len(lines[1]) >= 2 /\ lines[1][1] = "HTTP/1.1" /\ lines[1][2] = "101"

(***************************************************************************)
(* handleNew, seen from its static isRecall.  A connection is the sequence *)
(* of messages its peer sends; after the last one the read fails and the   *)
(* buffer is empty.                                                        *)
(***************************************************************************)
Command == <<<<"HN1.0">>>>

\* Mutation: the flag is left as it is when the real message is a command.
serve_sticky(isRecall, lines) ==
    LET req == parseHttpRequest(lines)
    IN IF lines = Command THEN [end |-> "command", isRecall |-> isRecall]
       ELSE IF ~req.ok THEN [end |-> "bad request", isRecall |-> FALSE]
       ELSE IF map_get(req.headers, "Upgrade", "") = "websocket" /\ ~isRecall
       THEN [end |-> "upgrade", isRecall |-> TRUE]
       ELSE [end |-> "welcome", isRecall |-> FALSE]

\* One call: a command, an upgrade, which is answered only the first time, any
\* other http request, or neither.
serve(isRecall, lines) ==
    LET req == parseHttpRequest(lines)
    IN IF lines = Command THEN [end |-> "command", isRecall |-> FALSE]
       ELSE IF ~req.ok THEN [end |-> "bad request", isRecall |-> FALSE]
       ELSE IF map_get(req.headers, "Upgrade", "") = "websocket" /\ ~isRecall
       THEN [end |-> "upgrade", isRecall |-> TRUE]
       ELSE [end |-> "welcome", isRecall |-> FALSE]

\* After an upgrade the function calls itself for the real message.
handleNew(isRecall, msgs) ==
    LET Msg(i) == IF i <= Len(msgs) THEN msgs[i] ELSE << >>
        Call[i \in 1 .. Len(msgs) + 1] ==
          LET r == serve(IF i = 1 THEN isRecall ELSE Call[i - 1].isRecall, Msg(i))
          IN IF i = 1 \/ Call[i - 1].end = "upgrade"
             THEN [end |-> r.end, isRecall |-> r.isRecall, upgrades |-> i - 1]
             ELSE Call[i - 1]
    IN Call[Len(msgs) + 1]

\* The connections of a bridge one after the other: the outcomes and the flag.
Connections(all) ==
    FoldLeft(LAMBDA s, msgs :
               LET r == handleNew(s.isRecall, msgs)
               IN [isRecall |-> r.isRecall, got |-> Append(s.got, r)],
             [isRecall |-> FALSE, got |-> << >>], all)

(***************************************************************************)
(* Properties                                                              *)
(***************************************************************************)
\* Client and bridge agree on the disguise: the request a client sends, with a
\* host or without, is answered with the upgrade, and the client takes the answer.
UpgradeAgrees(host) ==
    /\ handleNew(FALSE, <<UpgradeRequest(host), Command>>)
         = [upgrades |-> 1, end |-> "command", isRecall |-> FALSE]
    /\ upgradeHttpClient(writeUpgradeResponse)
    /\ parseHttpResponse(writeUpgradeResponse).ok

\* One connection cannot spoil the next: whatever the connections before it sent
\* or failed to send, each is served as the first one would be, and a peer that
\* repeats its upgrade request is answered once ("make sure we don't keep
\* receiving same ws upgrade request").
UpgradeOnce(all) ==
    LET got == Connections(all).got
    IN \A i \in DOMAIN all :
         /\ got[i] = handleNew(FALSE, all[i])
         /\ got[i].upgrades = (IF serve(FALSE, Head(all[i])).end = "upgrade" THEN 1 ELSE 0)
===============================================================================
