------------------------------- MODULE Bridge -------------------------------
(***************************************************************************)
(* The homenet process once its event loop runs: waitForEvent (netUtils.c) *)
(* and the handlers hn_loop dispatches to (homeNet.c), in the three modes  *)
(* that loop: "bridge", "listen" and "rl".  The process is one thread: a   *)
(* handler is one action, and `event' says which one runs next.            *)
(*                                                                         *)
(* A Socket is the heap address malloc gave it.  free() returns the        *)
(* address, malloc may give it out again, and a pointer to a freed Socket  *)
(* reads what its last owner left there until the address is reused.       *)
(* mode, next, otp, listenId and waitingSocks are the fields of the        *)
(* hn_Socket a Socket's ptr leads to:                                      *)
(*     mode "none"     ptr is NULL              "server"  the server socket*)
(*     mode "freed"    ptr leads to freed memory                           *)
(*     otp # NULL      relay.isWaiting, with this relay.otp                *)
(*     next # NULL     relay.next                                          *)
(***************************************************************************)
EXTENDS Naturals, FiniteSets

CONSTANTS
    Sock,           \* the heap addresses a Socket may get
    ServerSock,     \* the address of the Socket of createTcpServer
    FirstRLSock,    \* the address of the first LISTEN_OUT Socket
    ListenId,       \* listener ids
    StaticId,       \* the ids with a salt: a listener claims one by name
    Otp,            \* one-time codes of generateCode
    NULL,           \* the null pointer
    Dangling,       \* a pointer to a freed hn_Socket
    Confs           \* the configurations a process is started with:
                    \*   mode    conf->mode
                    \*   server  Port >= 0 (always in listen mode, not in rl mode)
                    \*   rl      the process keeps a remote listener (rlUrl)
                    \*   emfile  accept() may fail for want of descriptors

ASSUME SockAssumption ==
    /\ ServerSock \in Sock /\ FirstRLSock \in Sock
    /\ ServerSock # FirstRLSock
    /\ NULL \notin Sock \cup ListenId \cup Otp
    /\ Dangling \notin Sock \cup {NULL}

Conf == [mode : {"bridge", "listen", "rl"}, server : BOOLEAN, rl : BOOLEAN,
         emfile : BOOLEAN]

ASSUME ConfAssumption ==
    /\ StaticId \subseteq ListenId
    /\ Confs \subseteq Conf
    /\ \A c \in Confs :
          /\ c.server \/ c.rl
          /\ c.mode = "listen" => c.server /\ ~c.rl
          /\ c.mode = "rl" => c.rl /\ ~c.server

VARIABLES
    alloc,          \* the addresses malloc has given out
    isAlive,        \* Socket.isAlive, kept as it was after a free
    wbuf,           \* the Sockets whose writeBuffer is not empty
    mode, next, otp, listenId, waitingSocks,    \* hn_Socket, see above
    listeningSocks, \* BridgeContext.listeningSocks, an hn_Socket by its Socket
    rlSock,         \* BridgeContext.rlSock
    conf,           \* the hn_Config of the process
    sockList,       \* the Sockets in the watch list
    sockToRemove,   \* static variable of waitForEvent
    readSet,        \* the Sockets whose bit in readSet is still to process
    event,          \* the handler that runs next, "none" in waitForEvent
    sel,            \* selSock of hn_loop
    proc            \* what became of the process

sockVars == <<alloc, isAlive, wbuf>>
hnVars   == <<mode, next, otp, listenId, waitingSocks>>
ctxVars  == <<listeningSocks, rlSock, conf>>
loopVars == <<sockList, sockToRemove, readSet, event, sel>>
vars     == <<sockVars, hnVars, ctxVars, loopVars, proc>>

Mode          == conf.mode
HasServer     == conf.server
UseRL         == conf.rl
AcceptMayFail == conf.emfile

Alive  == {"alive", "willdie", "dead"}
Modes  == {"none", "server", "relay", "listen", "listenOut", "freed"}
Events == {"none", "read", "new", "close", "house"}
Procs  == {"running", "hung", "crashed", "exited"}

(***************************************************************************)
(* Helpers of the socket layer                                             *)
(***************************************************************************)

\* The first Socket added to the watch list: list_add puts nodes in front,
\* so its node stays last, and list_remove never looks at the last node.
Bottom == IF HasServer THEN ServerSock ELSE FirstRLSock

\* Mutation: the Socket is freed and its node is kept.
list_remove_kept(s) == sockList

list_remove(s) == IF s = Bottom THEN sockList ELSE sockList \ {s}

\* sock_done on every Socket of S: a Socket with buffered output may finish.
sock_done(S) ==
    [s \in Sock |->
        IF s \in S /\ isAlive[s] # "dead"
        THEN IF s \in wbuf THEN "willdie" ELSE "dead"
        ELSE isAlive[s]]

\* sock_write on a non-blocking Socket: sent, or the rest stored in the
\* writeBuffer.  With a non-empty buffer it never returns (WriteHangs).
sock_write(t) ==
    /\ isAlive[t] = "dead" \/ t \notin wbuf
    /\ \/ wbuf' = wbuf
       \/ isAlive[t] # "dead" /\ wbuf' = wbuf \cup {t}

\* An address malloc may give out.
Free == Sock \ alloc

NoWaiters == [o \in Otp |-> NULL]

\* hn_sockInit for the Sockets of a relay, a listener or a LISTEN_OUT.
hn_sockInit(S, m) == mode' = [s \in Sock |-> IF s \in S THEN m ELSE mode[s]]

\* The waiting maps once the hn_Socket of s is freed: an entry nobody
\* removed is left pointing at freed memory.
Dangled(maps, s) ==
    [l \in Sock |-> [o \in Otp |->
        IF maps[l][o] = s THEN Dangling ELSE maps[l][o]]]

Running(e) == proc = "running" /\ event = e

\* houseKeeping follows the handler in hn_loop and does nothing outside
\* bridge mode; selSock is not read again before the next event sets it.
ToHouseKeeping ==
    /\ event' = IF Mode = "bridge" THEN "house" ELSE "none"
    /\ sel' = NULL

(***************************************************************************)
(* start_bridge, start_listen, start_reverseListen                         *)
(***************************************************************************)
InitSocks == (IF HasServer THEN {ServerSock} ELSE {})
                 \cup (IF UseRL THEN {FirstRLSock} ELSE {})

Init ==
    /\ conf \in Confs
    /\ alloc = InitSocks
    /\ isAlive = [s \in Sock |-> IF s \in InitSocks THEN "alive" ELSE "dead"]
    /\ wbuf = {}
    /\ mode = [s \in Sock |-> IF s \notin InitSocks THEN "none"
                              ELSE IF s = ServerSock THEN "server"
                              ELSE "listenOut"]
    /\ next = [s \in Sock |-> NULL]
    /\ otp = [s \in Sock |-> NULL]
    /\ listenId = [s \in Sock |-> NULL]
    /\ waitingSocks = [s \in Sock |-> NoWaiters]
    /\ listeningSocks = [i \in ListenId |-> NULL]
    /\ rlSock = IF UseRL /\ Mode = "bridge" THEN FirstRLSock ELSE NULL
    /\ sockList = InitSocks
    /\ sockToRemove = NULL
    /\ readSet = {}
    /\ event = "none"
    /\ sel = NULL
    /\ proc = "running"

(***************************************************************************)
(* waitForEvent                                                            *)
(***************************************************************************)

\* The Socket of the last CLOSE event leaves the list and is freed.
WaitRemove ==
    /\ Running("none") /\ sockToRemove \in alloc
    /\ wbuf' = wbuf \ {sockToRemove}
    /\ sockList' = list_remove(sockToRemove)
    /\ alloc' = alloc \ {sockToRemove}
    /\ sockToRemove' = NULL
    /\ UNCHANGED <<isAlive, hnVars, ctxVars, readSet, event, sel, proc>>

\* A second free of an address nobody owns: the allocator aborts.
WaitDoubleFree ==
    /\ Running("none") /\ sockToRemove \in Free
    /\ proc' = "crashed"
    /\ UNCHANGED <<sockVars, hnVars, ctxVars, loopVars>>

\* Mutation: only Sockets that were told to finish are looked for.
MustClose_willdie(s) == isAlive[s] = "willdie" /\ s \notin wbuf

\* A listed Socket that the scan before select reports as closed.
MustClose(s) ==
    isAlive[s] = "dead" \/ (isAlive[s] = "willdie" /\ s \notin wbuf)

Waiting == Running("none") /\ sockToRemove = NULL

\* Mutation: the scan for closed Sockets does not wait for the pending bits.
WaitClose_early(s) ==
    /\ Waiting
    /\ s \in sockList /\ MustClose(s)
    /\ isAlive' = [isAlive EXCEPT ![s] = "dead"]
    /\ sel' = s
    /\ sockToRemove' = s
    /\ event' = "close"
    /\ UNCHANGED <<alloc, wbuf, hnVars, ctxVars, sockList, readSet, proc>>

WaitClose(s) ==
    /\ Waiting /\ readSet = {}
    /\ s \in sockList /\ MustClose(s)
    /\ isAlive' = [isAlive EXCEPT ![s] = "dead"]
    /\ sel' = s
    /\ sockToRemove' = s
    /\ event' = "close"
    /\ UNCHANGED <<alloc, wbuf, hnVars, ctxVars, sockList, readSet, proc>>

\* select is only reached when nothing in the list is to be closed.
Selecting == Waiting /\ readSet = {} /\ \A s \in sockList : ~MustClose(s)

\* The kernel picks what is readable; a timeout changes nothing.
WaitSelect(R) ==
    /\ Selecting /\ sockList \subseteq alloc
    /\ R \subseteq sockList /\ R # {}
    /\ readSet' = R
    /\ UNCHANGED <<sockVars, hnVars, ctxVars, sockList, sockToRemove, event,
                   sel, proc>>

\* FD_SET with the overwritten fd of a freed Socket.
WaitSelectFreed ==
    /\ Selecting /\ ~ (sockList \subseteq alloc)
    /\ proc' = "crashed"
    /\ UNCHANGED <<sockVars, hnVars, ctxVars, loopVars>>

\* select reports s writable: sock_write(s, NULL, 0) keeps sending the first
\* byte of the buffer, because buffer_readChar(buf) restarts on every call.
WaitFlush(s) ==
    /\ Selecting /\ s \in sockList \cap wbuf
    /\ proc' = "hung"
    /\ UNCHANGED <<sockVars, hnVars, ctxVars, loopVars>>

WaitRead(s) ==
    /\ Waiting /\ s \in readSet /\ mode[s] # "server"
    /\ readSet' = readSet \ {s}
    /\ sel' = s
    /\ event' = "read"
    /\ UNCHANGED <<sockVars, hnVars, ctxVars, sockList, sockToRemove, proc>>

\* The server Socket is the last of the list: its bit is looked at when no
\* other is left, and stays set while accept() succeeds.
Accepting == Waiting /\ \E s \in readSet : mode[s] = "server" /\ readSet = {s}

WaitAccept(s) ==
    /\ Accepting /\ s \in Free
    /\ alloc' = alloc \cup {s}
    /\ isAlive' = [isAlive EXCEPT ![s] = "alive"]
    /\ mode' = [mode EXCEPT ![s] = "none"]
    /\ sel' = s
    /\ event' = "new"
    /\ UNCHANGED <<wbuf, next, otp, listenId, waitingSocks, ctxVars, sockList,
                   sockToRemove, readSet, proc>>

WaitAcceptNone ==
    /\ Accepting
    /\ readSet' = {}
    /\ UNCHANGED <<sockVars, hnVars, ctxVars, sockList, sockToRemove, event,
                   sel, proc>>

\* Any other errno than EWOULDBLOCK: sock_acceptNew closes the server.
WaitAcceptError ==
    /\ AcceptMayFail /\ Accepting
    /\ isAlive' = [s \in Sock |-> IF s \in readSet THEN "dead" ELSE isAlive[s]]
    /\ readSet' = {}
    /\ UNCHANGED <<alloc, wbuf, hnVars, ctxVars, sockList, sockToRemove, event,
                   sel, proc>>

(***************************************************************************)
(* handleClose, with hn_sockCleanup                                        *)
(***************************************************************************)

\* free(hnSock): the fields are gone, the Socket's ptr is not reset.
FreeHn(s) ==
    /\ mode' = [mode EXCEPT ![s] = "freed"]
    /\ next' = [next EXCEPT ![s] = NULL]
    /\ otp' = [otp EXCEPT ![s] = NULL]
    /\ listenId' = [listenId EXCEPT ![s] = NULL]

\* Mutation: the entry is left in the waiting list.
removeWaitingSocket_skipped(i, o) == waitingSocks

\* removeWaitingSocket goes through the listener registered now, which need
\* not be the one whose map holds the waiting Socket.
removeWaitingSocket(i, o) ==
    [l \in Sock |->
        IF i # NULL /\ o # NULL /\ l = listeningSocks[i]
        THEN [waitingSocks[l] EXCEPT ![o] = NULL]
        ELSE waitingSocks[l]]

\* Mutation: the other end of a relay is not closed.
RelayTargets_none(s) == {}

\* The Sockets hn_sockCleanup calls sock_done on for a relay.
RelayTargets(s) == {next[s]} \ {NULL}

CloseRelay ==
    /\ Running("close") /\ mode[sel] = "relay"
    /\ isAlive' = sock_done(RelayTargets(sel))
    /\ waitingSocks' = Dangled(removeWaitingSocket(listenId[sel], otp[sel]), sel)
    /\ FreeHn(sel)
    /\ ToHouseKeeping
    /\ UNCHANGED <<alloc, wbuf, ctxVars, sockList, sockToRemove, readSet,
                   proc>>

\* Mutation: the waiting Sockets are not closed.
ListenTargets_none(s) == {}

\* The Sockets waiting on the listener s.
ListenTargets(s) == {waitingSocks[s][o] : o \in Otp} \ {NULL, Dangling}

HasDangling(s) == \E o \in Otp : waitingSocks[s][o] = Dangling

\* Mutations: map_del is forgotten, and what the entry then points to.
unregister_skipped(s) == listeningSocks

unregister_dangling(s) == [listeningSocks EXCEPT ![listenId[s]] = Dangling]

\* map_del removes the entry of the id, whoever it belongs to.
unregister(s) == [listeningSocks EXCEPT ![listenId[s]] = NULL]

\* Where waitingSock->sock may lead once the hn_Socket is freed: to the
\* Socket of another hn_Socket, when one was given the same memory.
Strays(s) ==
    IF HasDangling(s)
    THEN SUBSET {t \in Sock : mode[t] \in {"relay", "listen", "listenOut"}}
    ELSE {{}}

CloseListen ==
    /\ Running("close") /\ mode[sel] = "listen"
    /\ \E X \in Strays(sel) : isAlive' = sock_done(ListenTargets(sel) \cup X)
    /\ waitingSocks' = [waitingSocks EXCEPT ![sel] = NoWaiters]
    /\ listeningSocks' = unregister(sel)
    /\ FreeHn(sel)
    /\ ToHouseKeeping
    /\ UNCHANGED <<alloc, wbuf, rlSock, conf, sockList, sockToRemove, readSet,
                   proc>>

CloseListenDangling ==
    /\ Running("close") /\ mode[sel] = "listen" /\ HasDangling(sel)
    /\ proc' = "crashed"
    /\ UNCHANGED <<sockVars, hnVars, ctxVars, loopVars>>

\* Bridge mode lets houseKeeping reconnect; rl mode has no use any more.
CloseListenOut ==
    /\ Running("close") /\ mode[sel] = "listenOut"
    /\ IF Mode = "bridge" THEN rlSock' = NULL /\ proc' = proc
                          ELSE proc' = "exited" /\ rlSock' = rlSock
    /\ ToHouseKeeping
    /\ UNCHANGED <<sockVars, hnVars, listeningSocks, conf, sockList, sockToRemove,
                   readSet>>

\* A Socket without hn_Socket: only the server.
ClosePlain ==
    /\ Running("close") /\ mode[sel] \in {"server", "none"}
    /\ ToHouseKeeping
    /\ UNCHANGED <<sockVars, hnVars, ctxVars, sockList, sockToRemove, readSet,
                   proc>>

HandleClose ==
    \/ CloseRelay \/ CloseListen \/ CloseListenDangling \/ CloseListenOut
    \/ ClosePlain

(***************************************************************************)
(* houseKeeping (bridge mode)                                              *)
(***************************************************************************)

\* The ping: not due, or written to the remote bridge.
Ping(s) ==
    \/ wbuf' = wbuf
    \/ s # NULL /\ sock_write(s)

\* Nothing to reconnect, or getNextRetry is in the future.
HouseKeeping ==
    /\ Running("house")
    /\ Ping(rlSock)
    /\ event' = "none"
    /\ UNCHANGED <<alloc, isAlive, hnVars, ctxVars, sockList, sockToRemove,
                   readSet, sel, proc>>

\* tryRLStart needs a new Socket.
Reconnecting(s) ==
    /\ Running("house") /\ UseRL /\ rlSock = NULL /\ s \in Free
    /\ alloc' = alloc \cup {s}
    /\ isAlive' = [isAlive EXCEPT ![s] = "alive"]
    /\ mode' = [mode EXCEPT ![s] = "listenOut"]
    /\ event' = "none"
    /\ UNCHANGED <<next, otp, listenId, waitingSocks, listeningSocks, conf,
                   sockToRemove, readSet, sel, proc>>

\* Mutation: context->rlSock is not set.
HouseReconnect_unset(s) ==
    /\ Reconnecting(s)
    /\ sockList' = sockList \cup {s}
    /\ wbuf' \in {wbuf, wbuf \cup {s}}
    /\ rlSock' = rlSock

\* tryRLStart succeeds, and the ping of the same call goes out.
HouseReconnect(s) ==
    /\ Reconnecting(s)
    /\ rlSock' = s
    /\ sockList' = sockList \cup {s}
    /\ wbuf' \in {wbuf, wbuf \cup {s}}

\* tryRLStart fails: the Socket is neither listed nor freed.
HouseReconnectFailed(s) ==
    /\ Reconnecting(s)
    /\ UNCHANGED <<rlSock, sockList, wbuf>>

(***************************************************************************)
(* handleRead                                                              *)
(***************************************************************************)

\* sock_read may meet the end of the stream, and then closes the Socket.
sock_read(s) ==
    \/ isAlive' = isAlive
    \/ isAlive' = [isAlive EXCEPT ![s] = "dead"]

\* Data from a Socket that still waits for its reverse connection.
ReadUnpaired ==
    /\ Running("read") /\ mode[sel] = "relay" /\ next[sel] = NULL
    /\ isAlive' = sock_done({sel})
    /\ ToHouseKeeping
    /\ UNCHANGED <<alloc, wbuf, hnVars, ctxVars, sockList, sockToRemove,
                   readSet, proc>>

\* The relay loop: what is read is written to the partner while both live.
ReadRelay ==
    /\ Running("read") /\ mode[sel] = "relay" /\ next[sel] # NULL
    /\ sock_read(sel)
    /\ \/ wbuf' = wbuf
       \/ /\ isAlive[sel] = "alive" /\ isAlive[next[sel]] = "alive"
          /\ sock_write(next[sel])
    /\ ToHouseKeeping
    /\ UNCHANGED <<alloc, hnVars, ctxVars, sockList, sockToRemove, readSet,
                   proc>>

\* A PONG, an unusable message, or an OTP whose connection failed.
ReadListenOut ==
    /\ Running("read") /\ mode[sel] = "listenOut"
    /\ sock_read(sel)
    /\ ToHouseKeeping
    /\ UNCHANGED <<alloc, wbuf, hnVars, ctxVars, sockList, sockToRemove,
                   readSet, proc>>

\* An OTP in bridge mode: connSock, whose temporary hn_Socket was freed but
\* is still its ptr, goes to handleNew like an accepted Socket.
ReadOtpBridge(s) ==
    /\ Running("read") /\ mode[sel] = "listenOut" /\ Mode = "bridge"
    /\ s \in Free
    /\ \E eof \in BOOLEAN :
           isAlive' = [isAlive EXCEPT ![s] = "alive",
                                      ![sel] = IF eof THEN "dead" ELSE @]
    /\ alloc' = alloc \cup {s}
    /\ mode' = [mode EXCEPT ![s] = "freed"]
    /\ sel' = s
    /\ event' = "new"
    /\ UNCHANGED <<wbuf, next, otp, listenId, waitingSocks, ctxVars, sockList,
                   sockToRemove, readSet, proc>>

\* Mutation: the second Socket is not added to the watch list.
Pair_unlisted(a, b) ==
    /\ hn_sockInit({a, b}, "relay")
    /\ next' = [next EXCEPT ![a] = b, ![b] = a]
    /\ sockList' = sockList \cup {a}

\* Both ends of a relay are set up and watched (createRelay, list_add).
Pair(a, b) ==
    /\ hn_sockInit({a, b}, "relay")
    /\ next' = [next EXCEPT ![a] = b, ![b] = a]
    /\ sockList' = sockList \cup {a, b}

\* An OTP in rl mode: connSock is relayed to the local service.
ReadOtpRL(s, n) ==
    /\ Running("read") /\ mode[sel] = "listenOut" /\ Mode = "rl"
    /\ s \in Free /\ n \in Free /\ s # n
    /\ \E eof \in BOOLEAN :
           isAlive' = [isAlive EXCEPT ![s] = "alive", ![n] = "alive",
                                      ![sel] = IF eof THEN "dead" ELSE @]
    /\ alloc' = alloc \cup {s, n}
    /\ Pair(s, n)
    /\ ToHouseKeeping
    /\ UNCHANGED <<wbuf, otp, listenId, waitingSocks, ctxVars, sockToRemove,
                   readSet, proc>>

\* A PING is answered; anything else is only read.
ReadListen ==
    /\ Running("read") /\ mode[sel] = "listen"
    /\ sock_read(sel)
    /\ \/ wbuf' = wbuf
       \/ isAlive'[sel] # "dead" /\ sock_write(sel)
    /\ ToHouseKeeping
    /\ UNCHANGED <<alloc, hnVars, ctxVars, sockList, sockToRemove, readSet,
                   proc>>

HandleRead ==
    \/ ReadUnpaired \/ ReadRelay \/ ReadListenOut \/ ReadListen
    \/ \E s \in Free : ReadOtpBridge(s)
    \/ \E s, n \in Free : ReadOtpRL(s, n)

(***************************************************************************)
(* handleNew                                                               *)
(***************************************************************************)

\* sock_destroy(sock, NULL) for every branch that keeps nothing: a refused,
\* malformed or failed request, a QUERY, an HTTP request, a timeout.
NewDestroyed ==
    /\ Running("new") /\ mode[sel] = "none"
    /\ isAlive' = [isAlive EXCEPT ![sel] = "dead"]
    /\ alloc' = alloc \ {sel}
    /\ ToHouseKeeping
    /\ UNCHANGED <<wbuf, hnVars, ctxVars, sockList, sockToRemove, readSet,
                   proc>>

\* A CONNECT that fails after createRelay has given sock a new hn_Socket.
NewConnectFailed ==
    /\ Running("new")
    /\ isAlive' = [isAlive EXCEPT ![sel] = "dead"]
    /\ mode' = [mode EXCEPT ![sel] = "none"]
    /\ alloc' = alloc \ {sel}
    /\ ToHouseKeeping
    /\ UNCHANGED <<wbuf, next, otp, listenId, waitingSocks, ctxVars, sockList,
                   sockToRemove, readSet, proc>>

\* sock_destroy of a Socket whose ptr was freed before: a double free.
NewDestroyedFreed ==
    /\ Running("new") /\ mode[sel] = "freed"
    /\ proc' = "crashed"
    /\ UNCHANGED <<sockVars, hnVars, ctxVars, loopVars>>

\* CONNECT to an address (and every connection of listen mode): nextSock is
\* connected before anything is linked.
NewConnect(n) ==
    /\ Running("new") /\ n \in Free
    /\ alloc' = alloc \cup {n}
    /\ isAlive' = [isAlive EXCEPT ![n] = "alive"]
    /\ Pair(sel, n)
    /\ ToHouseKeeping
    /\ UNCHANGED <<wbuf, otp, listenId, waitingSocks, ctxVars, sockToRemove,
                   readSet, proc>>

\* generateCode: a code no map and no waiting Socket knows.
FreshOtp(o) ==
    \A s \in Sock : otp[s] # o /\ waitingSocks[s][o] = NULL

\* addWaitingSock for the listener l.
addWaitingSock(l, o, s) == [waitingSocks EXCEPT ![l][o] = s]

\* CONNECT to a registered listener: it is sent an OTP and sock waits.
NewConnectWait(i, o) ==
    /\ Running("new") /\ Mode = "bridge"
    /\ listeningSocks[i] # NULL /\ FreshOtp(o)
    /\ sock_write(listeningSocks[i])
    /\ hn_sockInit({sel}, "relay")
    /\ otp' = [otp EXCEPT ![sel] = o]
    /\ listenId' = [listenId EXCEPT ![sel] = i]
    /\ waitingSocks' = addWaitingSock(listeningSocks[i], o, sel)
    /\ sockList' = sockList \cup {sel}
    /\ ToHouseKeeping
    /\ UNCHANGED <<alloc, isAlive, next, ctxVars, sockToRemove, readSet,
                   proc>>

\* An id of generateCode was never seen before.
FreshId(i) == listeningSocks[i] = NULL /\ \A s \in Sock : listenId[s] # i

\* LISTEN_NOTIFY: an authenticated listener takes its id over from whoever
\* has it; any other gets a new id.
NewListen(i) ==
    /\ Running("new") /\ Mode = "bridge"
    /\ i \in StaticId \/ FreshId(i)
    /\ hn_sockInit({sel}, "listen")
    /\ listenId' = [listenId EXCEPT ![sel] = i]
    /\ listeningSocks' = [listeningSocks EXCEPT ![i] = sel]
    /\ sockList' = sockList \cup {sel}
    /\ ToHouseKeeping
    /\ UNCHANGED <<sockVars, next, otp, waitingSocks, rlSock, conf, sockToRemove,
                   readSet, proc>>

getWaitingSocket(i, o) ==
    IF listeningSocks[i] = NULL THEN NULL ELSE waitingSocks[listeningSocks[i]][o]

\* LISTEN_CONNECT with a valid OTP: sock and the waiting Socket are linked,
\* and both are told.
NewListenConnect(i, o) ==
    LET w == getWaitingSocket(i, o) IN
    /\ Running("new") /\ Mode = "bridge"
    /\ w # NULL
    /\ waitingSocks' = removeWaitingSocket(i, o)
    /\ Pair(sel, w)
    /\ otp' = [otp EXCEPT ![w] = NULL]
    /\ sock_write(w)
    /\ ToHouseKeeping
    /\ UNCHANGED <<alloc, isAlive, listenId, ctxVars, sockToRemove, readSet,
                   proc>>

HandleNew ==
    \/ NewDestroyed \/ NewConnectFailed \/ NewDestroyedFreed
    \/ \E n \in Free : NewConnect(n)
    \/ \E i \in ListenId : NewListen(i)
    \/ \E i \in ListenId, o \in Otp : NewConnectWait(i, o) \/ NewListenConnect(i, o)

(***************************************************************************)
(* What a write can do to the process                                      *)
(***************************************************************************)

\* The non-blocking Sockets the handler about to run may write to.
WriteTargets ==
    CASE event = "read" /\ mode[sel] = "relay" ->
            {t \in RelayTargets(sel) : isAlive[sel] = "alive" /\ isAlive[t] = "alive"}
      [] event = "read" /\ mode[sel] = "listen" -> {sel}
      [] event = "new" ->
            {listeningSocks[i] : i \in ListenId}
              \cup {getWaitingSocket(i, o) : i \in ListenId, o \in Otp}
      [] event = "house" -> {rlSock}
      [] OTHER -> {}

\* sock_write with a non-empty buffer loops for ever (see WaitFlush).
WriteHangs ==
    /\ proc = "running"
    /\ \E t \in WriteTargets \ {NULL} : t \in wbuf /\ isAlive[t] # "dead"
    /\ proc' = "hung"
    /\ UNCHANGED <<sockVars, hnVars, ctxVars, loopVars>>

\* SIGPIPE is not ignored: a write to a connection the peer has reset ends
\* the process.
WriteKills ==
    /\ proc = "running"
    /\ \/ event = "new"
       \/ \E t \in WriteTargets \ {NULL} : isAlive[t] # "dead"
    /\ proc' = "crashed"
    /\ UNCHANGED <<sockVars, hnVars, ctxVars, loopVars>>

(***************************************************************************)
(* The loop                                                                *)
(***************************************************************************)
WaitForEvent ==
    \/ WaitRemove \/ WaitDoubleFree
    \/ \E s \in Sock : WaitClose(s) \/ WaitRead(s) \/ WaitAccept(s) \/ WaitFlush(s)
    \/ \E R \in SUBSET sockList : WaitSelect(R)
    \/ WaitSelectFreed \/ WaitAcceptNone \/ WaitAcceptError

House ==
    \/ HouseKeeping
    \/ \E s \in Free : HouseReconnect(s) \/ HouseReconnectFailed(s)

Step == WaitForEvent \/ HandleClose \/ HandleRead \/ HandleNew \/ House
            \/ WriteHangs \/ WriteKills

Terminated == proc # "running" /\ UNCHANGED vars

Next == Step \/ Terminated

Spec == Init /\ [][Next]_vars

\* hn_loop never stops on its own.  Every handler returns: its handshakes
\* run under SOCK_TIMEOUT_SECS.
FairSpec == Spec /\ WF_vars(Step)

(***************************************************************************)
(* Invariants                                                              *)
(***************************************************************************)

\* The types of the state; in particular the context never keeps a pointer
\* to a listener that hn_sockCleanup freed.
TypeOK ==
    /\ alloc \subseteq Sock /\ wbuf \subseteq Sock /\ sockList \subseteq Sock
    /\ readSet \subseteq Sock
    /\ isAlive \in [Sock -> Alive] /\ mode \in [Sock -> Modes]
    /\ next \in [Sock -> Sock \cup {NULL}]
    /\ otp \in [Sock -> Otp \cup {NULL}]
    /\ listenId \in [Sock -> ListenId \cup {NULL}]
    /\ waitingSocks \in [Sock -> [Otp -> Sock \cup {NULL, Dangling}]]
    /\ listeningSocks \in [ListenId -> Sock \cup {NULL}]
    /\ rlSock \in Sock \cup {NULL} /\ sockToRemove \in Sock \cup {NULL}
    /\ sel \in Sock \cup {NULL}
    /\ event \in Events /\ proc \in Procs /\ conf \in Confs

\* getListeningSock returns a listener that still exists, is watched, and has
\* the id it was asked for, however listeners come, go and replace each other.
ListeningSound ==
    \A i \in ListenId : listeningSocks[i] # NULL =>
        LET l == listeningSocks[i] IN
        l \in alloc /\ l \in sockList /\ mode[l] = "listen" /\ listenId[l] = i

\* getWaitingSocket returns a client that still exists and waits for exactly
\* this id and OTP: LISTEN_CONNECT links the two ends that asked for it.
WaitingSound ==
    \A i \in ListenId, o \in Otp : getWaitingSocket(i, o) # NULL =>
        LET w == getWaitingSocket(i, o) IN
        w \in alloc /\ mode[w] = "relay" /\ otp[w] = o /\ listenId[w] = i

\* A client whose connection is open and that waits is in the map of a
\* listener that still exists: when the listener goes, the client is closed.
NoZombieWaiter ==
    \A s \in Sock : otp[s] # NULL /\ isAlive[s] = "alive" =>
        \E l \in Sock : mode[l] = "listen" /\ waitingSocks[l][otp[s]] = s

\* handleRead writes what it reads from an open relay Socket to a Socket that
\* was not freed and whose own relay leads back: bytes never reach a Socket
\* that took over the address of the partner.
RelayPartner ==
    \A s \in Sock :
        mode[s] = "relay" /\ isAlive[s] = "alive" /\ next[s] # NULL =>
            /\ next[s] \in alloc
            /\ mode[next[s]] = "relay" /\ next[next[s]] = s

\* A bit left in readSet belongs to a listed Socket: waitForEvent does not
\* stop the program with "fds left to process but ran out of sockets".
PendingListed == readSet \subseteq sockList

\* No freed Socket is in the watch list, as long as the last of the list, a
\* server Socket that no accept() error closes, is never removed.
NoFreedListed == HasServer /\ ~AcceptMayFail => sockList \subseteq alloc

\* Every Socket malloc gave out is watched or is in the hands of handleNew:
\* none is lost with its descriptor open, but for the outgoing connections that
\* the failed attempts of a bridge to reconnect its remote listener leave behind.
LeftBehind(s) ==
    Mode = "bridge" /\ UseRL /\ mode[s] = "listenOut" /\ s # rlSock

NoSocketLost ==
    \A s \in alloc : s \in sockList \/ (event = "new" /\ s = sel) \/ LeftBehind(s)

\* A bridge never watches two open remote-listener connections at a time:
\* houseKeeping reconnects only once the previous one is closed.  As above no
\* accept() error closes the server: its node stays in the list, and a remote
\* listener that is given its address is then closed and reconnected twice.
OneRemoteListener ==
    Mode = "bridge" /\ HasServer /\ ~AcceptMayFail =>
    \A s \in sockList : mode[s] = "listenOut" /\ isAlive[s] = "alive" => s = rlSock

(***************************************************************************)
(* The inductive invariant                                                 *)
(***************************************************************************)

\* Modes whose hn_Socket other structures point to.
Linked == {"relay", "listen"}

\* What the loop knows of the Socket it hands to a handler, and of the one it
\* is going to free: hn_sockCleanup has run before the free.
LoopInv ==
    /\ event \in {"read", "new", "close"} => sel \in Sock
    /\ event = "close" => sockToRemove = sel
    /\ event \in {"read", "new"} => sockToRemove = NULL
    /\ event = "new" => sel \in alloc /\ mode[sel] \notin Linked
    /\ sockToRemove # NULL => readSet = {}
    /\ sockToRemove # NULL /\ event # "close" => mode[sockToRemove] \notin Linked

\* The fields of an hn_Socket that belong to another mode are blank, a
\* linked hn_Socket has its Socket, and no two clients wait for one OTP.
HnInv ==
    /\ \A s \in Sock : mode[s] \in Linked => s \in alloc
    /\ \A s \in Sock : mode[s] # "relay" => next[s] = NULL /\ otp[s] = NULL
    /\ \A s \in Sock, o \in Otp : mode[s] # "listen" => waitingSocks[s][o] = NULL
    /\ \A s \in Sock : otp[s] # NULL => next[s] = NULL
    /\ \A s, t \in Sock : otp[s] # NULL /\ otp[s] = otp[t] => s = t

Inv ==
    /\ TypeOK /\ LoopInv /\ HnInv /\ PendingListed
    /\ ListeningSound /\ WaitingSound /\ NoZombieWaiter /\ RelayPartner

(***************************************************************************)
(* Action properties                                                       *)
(***************************************************************************)

\* A relay that is linked stays linked to the same Socket for as long as its
\* hn_Socket exists: an OTP, a late LISTEN_CONNECT or a duplicate of one
\* never links it to a second partner.
PairedOnce ==
    [][\A s \in Sock :
          mode[s] = "relay" /\ mode'[s] = "relay" /\ next[s] # NULL
              => next'[s] = next[s]]_vars

(***************************************************************************)
(* What the process promises its connections: Pairing                      *)
(***************************************************************************)

\* The connections that are open, the clients in the waiting map of some
\* listener, and where handleRead sends what an open relay Socket receives.
OpenSocks == {s \in alloc : isAlive[s] = "alive"}

Waiters ==
    {w \in [listener : Sock, otp : Otp, client : Sock] :
        waitingSocks[w.listener][w.otp] = w.client}

Relays ==
    {p \in Sock \X Sock :
        p[1] \in OpenSocks /\ mode[p[1]] = "relay" /\ next[p[1]] = p[2]}

P == INSTANCE Pairing WITH
        Conn <- Sock, open <- OpenSocks, registered <- listeningSocks,
        waits <- Waiters, links <- Relays

\* The process implements Pairing: whatever is freed, reused, taken over or
\* dropped half-way, every step of the loop registers, queues, links or
\* releases connections as Pairing allows, and a Socket on a reused address
\* inherits no partner, no place in a waiting map and no listener id.
PairingSpec == P!Spec

(***************************************************************************)
(* Liveness                                                                *)
(***************************************************************************)

\* The Sockets that come and go.
Connection == Sock \ {ServerSock}

\* Closed Sockets are looked for only when no bit is pending, and the server's
\* bit is pending for as long as accept() finds a connection.  Nothing in the
\* code bounds that: clients that connect without a pause keep the scan from
\* running for ever.  The properties speak of the behaviours in which the backlog
\* runs empty again and again.
BacklogRunsEmpty == []<>(\A s \in readSet : mode[s] # "server")

\* A watched Socket that is closed is taken off the list and freed, if the accept
\* backlog keeps running empty.
DeadIsReleased ==
    BacklogRunsEmpty =>
    \A s \in Connection :
        s \in sockList /\ isAlive[s] = "dead"
            ~> s \notin sockList \/ proc # "running"

\* When one end of a relay closes, the other end does not stay open, if the accept
\* backlog keeps running empty.
HalfOpenCloses ==
    BacklogRunsEmpty =>
    \A t \in Connection :
        mode[t] = "relay" /\ next[t] # NULL /\ isAlive[next[t]] = "dead"
            ~> isAlive[t] # "alive" \/ proc # "running"

\* When a listener closes, the clients waiting on it are closed, unless a
\* LISTEN_CONNECT still links them first, and if the accept backlog keeps running
\* empty.
ListenerLossReleases ==
    BacklogRunsEmpty =>
    \A w \in Connection :
        (\E l \in Sock : isAlive[l] = "dead" /\ \E o \in Otp : waitingSocks[l][o] = w)
            ~> isAlive[w] # "alive" \/ otp[w] = NULL \/ proc # "running"

(***************************************************************************)
(* What comments of the code say, and the code does not do                 *)
(***************************************************************************)

\* homeNet.c:313 "remove the socket from context listeningSocks": closing a
\* listener removes that listener.
UnregistersItself ==
    [][\A i \in ListenId :
          listeningSocks[i] # NULL /\ listeningSocks'[i] = NULL
              => listeningSocks[i] = sel]_vars

\* homeNet.c:291 "close relaying socket": closing one end of a relay closes
\* the Socket relayed to it, no other one.
ClosesOnlyPartner ==
    [][CloseRelay =>
          \A t \in Sock : isAlive[t] = "alive" /\ isAlive'[t] # "alive"
              => next[t] = sel]_vars

\* homeNet.c:1052 "its safe to free it if not required": the Socket handleNew
\* gets can be destroyed.
SafeToFree == [][~NewDestroyedFreed]_vars
=============================================================================
