---------------------------- MODULE BridgeProofs ----------------------------
(***************************************************************************)
(* The invariants of Bridge hold for every number of Sockets, ids and OTPs *)
(* and in every mode.  Inv is inductive: the steps that leave the links    *)
(* between hn_Sockets alone are covered by one lemma (FrameStep), each of  *)
(* the others has a lemma of its own.  The last part shows that Bridge     *)
(* implements Pairing.                                                     *)
(***************************************************************************)
EXTENDS Bridge, TLAPS

\* The process starts with nothing linked: start_bridge, start_listen and
\* start_reverseListen establish the invariant.
LEMMA InitInv == Init => Inv
<1> SUFFICES ASSUME Init PROVE Inv
    OBVIOUS
<1> USE SockAssumption, ConfAssumption DEF Init
<1>1. InitSocks \subseteq Sock
    BY DEF InitSocks
<1>2. TypeOK
    BY <1>1 DEF TypeOK, NoWaiters, Alive, Modes, Events, Procs
<1>3. LoopInv /\ HnInv /\ PendingListed
    BY <1>1 DEF LoopInv, HnInv, PendingListed, Linked, NoWaiters
<1>4. ListeningSound /\ WaitingSound /\ NoZombieWaiter /\ RelayPartner
    BY DEF ListeningSound, WaitingSound, NoZombieWaiter, RelayPartner,
           getWaitingSocket
<1> QED
    BY <1>2, <1>3, <1>4 DEF Inv

\* A step that changes no link, no entry of a map and no linked mode, that
\* frees and unlists no linked Socket and reopens none, keeps the links sound.
Framed ==
    /\ UNCHANGED <<next, otp, listenId, waitingSocks, listeningSocks>>
    /\ \A s \in Sock :
          mode'[s] # mode[s] => mode[s] \notin Linked /\ mode'[s] \notin Linked
    /\ \A s \in Sock : mode[s] \in Linked =>
          /\ s \in alloc => s \in alloc'
          /\ s \in sockList => s \in sockList'
          /\ isAlive'[s] = "alive" => isAlive[s] = "alive"

\* What a step leaves alone keeps the invariant.
LEMMA FrameStep ==
    ASSUME Inv, Framed, TypeOK', LoopInv', PendingListed'
    PROVE  Inv'
<1> USE SockAssumption DEF Inv, Framed
<1>1. HnInv'
    BY DEF HnInv, Linked, TypeOK
<1>2. ListeningSound'
    BY DEF ListeningSound, Linked, TypeOK
<1>3. WaitingSound'
    <2> SUFFICES ASSUME NEW i \in ListenId, NEW o \in Otp,
                        getWaitingSocket(i, o)' # NULL
                 PROVE  LET w == getWaitingSocket(i, o)' IN
                        /\ w \in alloc' /\ mode'[w] = "relay"
                        /\ otp'[w] = o /\ listenId'[w] = i
        BY DEF WaitingSound
    <2>1. getWaitingSocket(i, o)' = getWaitingSocket(i, o)
        BY DEF getWaitingSocket
    <2> QED
        BY <2>1 DEF WaitingSound, Linked, TypeOK
<1>4. NoZombieWaiter'
    BY DEF NoZombieWaiter, HnInv, Linked, TypeOK
<1>5. RelayPartner'
    BY DEF RelayPartner, Linked, TypeOK
<1> QED
    BY <1>1, <1>2, <1>3, <1>4, <1>5

\* waitForEvent hands out, frees and allocates Sockets, and touches no link.
LEMMA WaitForEventStep ==
    ASSUME Inv, WaitForEvent
    PROVE  Inv'
<1> USE SockAssumption DEF Inv, Running, Waiting, Selecting, Accepting, Free,
        sockVars, hnVars, ctxVars, loopVars
<1> SUFFICES TypeOK' /\ LoopInv' /\ PendingListed' /\ Framed
    BY FrameStep
<1>1. CASE WaitRemove
    <2>1. TypeOK' /\ LoopInv'
        BY <1>1 DEF WaitRemove, list_remove, TypeOK, LoopInv
    <2>2. PendingListed'
        BY <1>1 DEF WaitRemove, LoopInv, PendingListed, TypeOK
    <2>3. Framed
        BY <1>1 DEF WaitRemove, list_remove, LoopInv, Framed, TypeOK
    <2> QED
        BY <2>1, <2>2, <2>3
<1>2. CASE WaitDoubleFree \/ WaitSelectFreed \/ \E s \in Sock : WaitFlush(s)
    BY <1>2 DEF WaitDoubleFree, WaitSelectFreed, WaitFlush, TypeOK, Procs,
                LoopInv, PendingListed, Framed
<1>3. ASSUME NEW s \in Sock, WaitClose(s)
      PROVE  TypeOK' /\ LoopInv' /\ PendingListed' /\ Framed
    <2>1. TypeOK'
        BY <1>3 DEF WaitClose, TypeOK, Alive, Events
    <2>2. LoopInv' /\ PendingListed' /\ Framed
        BY <1>3 DEF WaitClose, TypeOK, LoopInv, PendingListed, Framed
    <2> QED
        BY <2>1, <2>2
<1>4. ASSUME NEW s \in Sock, WaitRead(s)
      PROVE  TypeOK' /\ LoopInv' /\ PendingListed' /\ Framed
    BY <1>4 DEF WaitRead, TypeOK, Events, LoopInv, PendingListed, Framed
<1>5. ASSUME NEW s \in Sock, WaitAccept(s)
      PROVE  TypeOK' /\ LoopInv' /\ PendingListed' /\ Framed
    <2>1. TypeOK'
        BY <1>5 DEF WaitAccept, TypeOK, Alive, Modes, Events
    <2>2. LoopInv' /\ PendingListed'
        BY <1>5 DEF WaitAccept, TypeOK, LoopInv, PendingListed, Linked
    <2>3. Framed
        BY <1>5 DEF WaitAccept, TypeOK, HnInv, Framed, Linked
    <2> QED
        BY <2>1, <2>2, <2>3
<1>6. CASE \E R \in SUBSET sockList : WaitSelect(R)
    BY <1>6 DEF WaitSelect, TypeOK, LoopInv, PendingListed, Framed
<1>7. CASE WaitAcceptNone
    BY <1>7 DEF WaitAcceptNone, TypeOK, LoopInv, PendingListed, Framed
<1>8. CASE WaitAcceptError
    <2>1. TypeOK'
        BY <1>8 DEF WaitAcceptError, TypeOK, Alive
    <2>2. LoopInv' /\ PendingListed' /\ Framed
        BY <1>8 DEF WaitAcceptError, TypeOK, LoopInv, PendingListed, Framed
    <2> QED
        BY <2>1, <2>2
<1> QED
    BY <1>1, <1>2, <1>3, <1>4, <1>5, <1>6, <1>7, <1>8 DEF WaitForEvent

\* houseKeeping adds a Socket at most.
LEMMA HouseStep ==
    ASSUME Inv, House
    PROVE  Inv'
<1> USE SockAssumption DEF Inv, Running, Free, hnVars, ctxVars
<1> SUFFICES TypeOK' /\ LoopInv' /\ PendingListed' /\ Framed
    BY FrameStep
<1>1. CASE HouseKeeping
    <2>1. wbuf' \subseteq Sock
        BY <1>1 DEF HouseKeeping, Ping, sock_write, TypeOK
    <2>2. TypeOK'
        BY <1>1, <2>1 DEF HouseKeeping, TypeOK, Events
    <2>3. LoopInv' /\ PendingListed' /\ Framed
        BY <1>1 DEF HouseKeeping, TypeOK, LoopInv, PendingListed, Framed
    <2> QED
        BY <2>2, <2>3
<1>2. ASSUME NEW s \in Free, HouseReconnect(s) \/ HouseReconnectFailed(s)
      PROVE  TypeOK' /\ LoopInv' /\ PendingListed' /\ Framed
    <2>1. Reconnecting(s)
        BY <1>2 DEF HouseReconnect, HouseReconnectFailed
    <2>2. /\ sockList \subseteq sockList' /\ sockList' \subseteq sockList \cup {s}
          /\ wbuf' \subseteq wbuf \cup {s}
          /\ rlSock' \in {rlSock, s}
        BY <1>2 DEF HouseReconnect, HouseReconnectFailed
    <2>3. TypeOK'
        BY <2>1, <2>2 DEF Reconnecting, TypeOK, Alive, Modes, Events
    <2>4. LoopInv' /\ PendingListed'
        BY <2>1, <2>2 DEF Reconnecting, TypeOK, LoopInv, PendingListed, Linked
    <2>5. Framed
        BY <2>1, <2>2 DEF Reconnecting, TypeOK, HnInv, Framed, Linked
    <2> QED
        BY <2>3, <2>4, <2>5
<1> QED
    BY <1>1, <1>2 DEF House

\* A hanging or killing write only ends the process.
LEMMA WriteStep ==
    ASSUME Inv, WriteHangs \/ WriteKills
    PROVE  Inv'
<1> TypeOK' /\ LoopInv' /\ PendingListed' /\ Framed
    BY DEF WriteHangs, WriteKills, sockVars, hnVars, ctxVars, loopVars, Inv,
           TypeOK, Procs, LoopInv, PendingListed, Framed
<1> QED
    BY FrameStep

\* hn_sockCleanup of a relay: its partner is closed before the hn_Socket is
\* freed, and its entry in the registered listener's map is removed.
LEMMA CloseRelayStep ==
    ASSUME Inv, CloseRelay
    PROVE  Inv'
<1> USE SockAssumption DEF Inv, CloseRelay, Running, ToHouseKeeping, FreeHn, ctxVars
<1>0. sel \in Sock /\ mode[sel] = "relay"
    BY DEF LoopInv
<1>1. \A s \in Sock :
         /\ isAlive'[s] \in Alive
         /\ isAlive'[s] = "alive" => isAlive[s] = "alive" /\ s # next[sel]
    BY <1>0 DEF sock_done, RelayTargets, TypeOK, Alive
<1>2. ASSUME NEW l \in Sock, NEW o \in Otp
      PROVE  LET removed == /\ listenId[sel] # NULL /\ otp[sel] = o
                            /\ l = listeningSocks[listenId[sel]]
             IN  \/ removed /\ waitingSocks'[l][o] = NULL
                 \/ /\ ~removed /\ waitingSocks[l][o] = sel
                    /\ waitingSocks'[l][o] = Dangling
                 \/ /\ ~removed /\ waitingSocks[l][o] # sel
                    /\ waitingSocks'[l][o] = waitingSocks[l][o]
    <2> DEFINE map == removeWaitingSocket(listenId[sel], otp[sel])
    <2>1. waitingSocks'[l][o] = IF map[l][o] = sel THEN Dangling ELSE map[l][o]
        BY DEF Dangled
    <2>2. CASE listenId[sel] # NULL /\ otp[sel] = o /\ l = listeningSocks[listenId[sel]]
        <3>1. map[l][o] = NULL
            BY <2>2 DEF removeWaitingSocket, TypeOK
        <3> QED
            BY <1>0, <2>1, <2>2, <3>1
    <2>3. CASE ~(listenId[sel] # NULL /\ otp[sel] = o /\ l = listeningSocks[listenId[sel]])
        <3>1. map[l][o] = waitingSocks[l][o]
            BY <1>0, <2>3 DEF removeWaitingSocket, TypeOK
        <3> QED
            BY <2>1, <2>3, <3>1
    <2> QED
        BY <2>2, <2>3
<1>3. TypeOK'
    <2>1. waitingSocks' \in [Sock -> [Otp -> Sock \cup {NULL, Dangling}]]
        <3>1. ASSUME NEW l \in Sock, NEW o \in Otp
              PROVE  waitingSocks'[l][o] \in Sock \cup {NULL, Dangling}
            BY <1>2, <3>1 DEF TypeOK
        <3> QED
            BY <3>1 DEF Dangled
    <2>2. isAlive' \in [Sock -> Alive]
        BY <1>1 DEF sock_done
    <2> QED
        BY <1>0, <2>1, <2>2 DEF TypeOK, Modes, Events
<1>4. LoopInv' /\ PendingListed'
    BY <1>0 DEF LoopInv, PendingListed, TypeOK, Linked
<1>5. HnInv'
    <2>1. ASSUME NEW s \in Sock, NEW o \in Otp, mode'[s] # "listen"
          PROVE  waitingSocks'[s][o] = NULL
        BY <1>0, <1>2, <2>1 DEF HnInv, TypeOK
    <2> QED
        BY <1>0, <2>1 DEF HnInv, TypeOK, Linked
<1>6. ListeningSound'
    BY <1>0 DEF ListeningSound, TypeOK
<1>7. WaitingSound'
    <2> SUFFICES ASSUME NEW i \in ListenId, NEW o \in Otp,
                        listeningSocks[i] # NULL,
                        waitingSocks'[listeningSocks[i]][o] # NULL
                 PROVE  LET w == waitingSocks'[listeningSocks[i]][o] IN
                        /\ w \in alloc /\ mode'[w] = "relay"
                        /\ otp'[w] = o /\ listenId'[w] = i
        BY DEF WaitingSound, getWaitingSocket
    <2> DEFINE l == listeningSocks[i]
    <2>0. l \in Sock
        BY DEF TypeOK
    <2>1. l \in Sock /\ waitingSocks[l][o] # NULL
        BY <1>0, <1>2, <2>0
    <2>2. LET w == waitingSocks[l][o] IN
          w \in alloc /\ mode[w] = "relay" /\ otp[w] = o /\ listenId[w] = i
        BY <2>1 DEF WaitingSound, getWaitingSocket
    <2>3. waitingSocks[l][o] # sel
        BY <1>2, <2>1, <2>2
    <2>4. waitingSocks'[l][o] = waitingSocks[l][o]
        BY <1>2, <2>1, <2>3
    <2> QED
        BY <2>2, <2>3, <2>4 DEF TypeOK
<1>8. NoZombieWaiter'
    <2> SUFFICES ASSUME NEW s \in Sock, otp'[s] # NULL, isAlive'[s] = "alive"
                 PROVE  \E l \in Sock :
                           mode'[l] = "listen" /\ waitingSocks'[l][otp'[s]] = s
        BY DEF NoZombieWaiter
    <2>1. s # sel /\ otp'[s] = otp[s] /\ otp[s] \in Otp
        BY <1>0 DEF TypeOK
    <2>2. PICK l \in Sock : mode[l] = "listen" /\ waitingSocks[l][otp[s]] = s
        BY <1>1, <2>1 DEF NoZombieWaiter
    <2>3. otp[sel] # otp[s]
        BY <1>0, <2>1 DEF HnInv
    <2> QED
        BY <1>0, <1>2, <2>1, <2>2, <2>3 DEF TypeOK
<1>9. RelayPartner'
    BY <1>0, <1>1 DEF RelayPartner, TypeOK
<1> QED
    BY <1>3, <1>4, <1>5, <1>6, <1>7, <1>8, <1>9

\* hn_sockCleanup of a listener: every client in its map is closed, and no
\* entry of the context points to it any more.
LEMMA CloseListenStep ==
    ASSUME Inv, CloseListen
    PROVE  Inv'
<1> USE SockAssumption DEF Inv, CloseListen, Running, ToHouseKeeping, FreeHn,
        unregister, NoWaiters
<1>0. sel \in Sock /\ mode[sel] = "listen"
    BY DEF LoopInv
<1>1. PICK X \in Strays(sel) : isAlive' = sock_done(ListenTargets(sel) \cup X)
    OBVIOUS
<1>2. \A s \in Sock :
         /\ isAlive'[s] \in Alive
         /\ isAlive'[s] = "alive" => isAlive[s] = "alive"
         /\ isAlive'[s] = "alive" => \A o \in Otp : waitingSocks[sel][o] # s
    BY <1>0, <1>1 DEF sock_done, ListenTargets, TypeOK, Alive
<1>a. \A s \in Sock : s # sel =>
         /\ mode'[s] = mode[s] /\ next'[s] = next[s] /\ otp'[s] = otp[s]
         /\ waitingSocks'[s] = waitingSocks[s]
    BY <1>0 DEF TypeOK
<1>b. mode'[sel] = "freed" /\ otp'[sel] = NULL
    BY <1>0 DEF TypeOK
<1>3. TypeOK'
    <2>1. isAlive' \in [Sock -> Alive]
        BY <1>1, <1>2 DEF sock_done
    <2> QED
        BY <1>0, <2>1 DEF TypeOK, Modes, Events
<1>4. LoopInv' /\ PendingListed'
    BY <1>0 DEF LoopInv, PendingListed, TypeOK, Linked
<1>5. HnInv'
    BY <1>0 DEF HnInv, TypeOK, Linked
<1>6. ListeningSound'
    BY <1>0 DEF ListeningSound, TypeOK
<1>7. WaitingSound'
    BY <1>0 DEF WaitingSound, getWaitingSocket, ListeningSound, TypeOK
<1>8. NoZombieWaiter'
    <2> SUFFICES ASSUME NEW s \in Sock, otp'[s] # NULL, isAlive'[s] = "alive"
                 PROVE  \E l \in Sock :
                           mode'[l] = "listen" /\ waitingSocks'[l][otp'[s]] = s
        BY DEF NoZombieWaiter
    <2>1. s # sel /\ otp'[s] = otp[s] /\ otp[s] \in Otp
        BY <1>a, <1>b DEF TypeOK
    <2>2. PICK l \in Sock : mode[l] = "listen" /\ waitingSocks[l][otp[s]] = s
        BY <1>2, <2>1 DEF NoZombieWaiter
    <2>3. l # sel
        BY <1>2, <2>1, <2>2
    <2> QED
        BY <1>a, <2>1, <2>2, <2>3
<1>9. RelayPartner'
    <2> SUFFICES ASSUME NEW s \in Sock, mode'[s] = "relay",
                        isAlive'[s] = "alive", next'[s] # NULL
                 PROVE  /\ next'[s] \in alloc'
                        /\ mode'[next'[s]] = "relay" /\ next'[next'[s]] = s
        BY DEF RelayPartner
    <2>1. s # sel /\ mode[s] = "relay" /\ isAlive[s] = "alive" /\ next'[s] = next[s]
        BY <1>2, <1>a, <1>b
    <2>2. /\ next[s] \in Sock /\ next[s] \in alloc
          /\ mode[next[s]] = "relay" /\ next[next[s]] = s
        BY <2>1 DEF RelayPartner, TypeOK
    <2>3. next[s] # sel
        BY <1>0, <2>2
    <2> QED
        BY <1>a, <2>1, <2>2, <2>3
<1> QED
    BY <1>3, <1>4, <1>5, <1>6, <1>7, <1>8, <1>9

\* handleClose: the branches that leave the links alone are framed.
LEMMA HandleCloseStep ==
    ASSUME Inv, HandleClose
    PROVE  Inv'
<1> USE SockAssumption DEF Running, ToHouseKeeping, sockVars, hnVars, ctxVars,
        loopVars
<1>1. CASE CloseRelay
    BY <1>1, CloseRelayStep
<1>2. CASE CloseListen
    BY <1>2, CloseListenStep
<1>3. CASE CloseListenDangling
    <2> TypeOK' /\ LoopInv' /\ PendingListed' /\ Framed
        BY <1>3 DEF CloseListenDangling, Inv, TypeOK, Procs,
                    LoopInv, PendingListed, Framed
    <2> QED
        BY FrameStep
<1>4. CASE CloseListenOut
    <2>1. TypeOK'
        BY <1>4 DEF CloseListenOut, Inv, TypeOK, Procs, Events
    <2>2. LoopInv' /\ PendingListed' /\ Framed
        BY <1>4 DEF CloseListenOut, Inv, TypeOK, LoopInv, PendingListed,
                    Framed, Linked
    <2> QED
        BY <2>1, <2>2, FrameStep
<1>5. CASE ClosePlain
    <2>1. TypeOK'
        BY <1>5 DEF ClosePlain, Inv, TypeOK, Events
    <2>2. LoopInv' /\ PendingListed' /\ Framed
        BY <1>5 DEF ClosePlain, Inv, TypeOK, LoopInv, PendingListed, Framed,
                    Linked
    <2> QED
        BY <2>1, <2>2, FrameStep
<1> QED
    BY <1>1, <1>2, <1>3, <1>4, <1>5 DEF HandleClose

\* Linking two Sockets that nothing points to keeps every other link.
LEMMA PairStep ==
    ASSUME Inv, NEW a \in Sock, NEW b \in Sock, a # b,
           mode[a] \notin Linked, mode[b] \notin Linked,
           a \in alloc', b \in alloc', alloc \subseteq alloc',
           \A s \in Sock \ {a, b} :
               isAlive'[s] = "alive" => isAlive[s] = "alive",
           Pair(a, b), UNCHANGED <<otp, listenId, waitingSocks, listeningSocks>>,
           TypeOK', LoopInv', PendingListed'
    PROVE  Inv'
<1> USE SockAssumption DEF Inv, Pair, hn_sockInit
<1>1. /\ mode'[a] = "relay" /\ mode'[b] = "relay"
      /\ next'[a] = b /\ next'[b] = a
      /\ sockList \subseteq sockList'
    BY DEF TypeOK
<1>2. \A s \in Sock : s # a /\ s # b => mode'[s] = mode[s] /\ next'[s] = next[s]
    BY DEF TypeOK
<1>3. otp[a] = NULL /\ otp[b] = NULL
    BY DEF HnInv, Linked
<1>4. HnInv'
    <2>1. ASSUME NEW s \in Sock, NEW o \in Otp, mode'[s] # "listen"
          PROVE  waitingSocks'[s][o] = NULL
        BY <1>1, <1>2, <2>1 DEF HnInv, Linked
    <2> QED
        BY <1>1, <1>2, <1>3, <2>1 DEF HnInv, Linked
<1>5. ListeningSound'
    BY <1>1, <1>2 DEF ListeningSound, TypeOK, Linked
<1>6. WaitingSound'
    <2> SUFFICES ASSUME NEW i \in ListenId, NEW o \in Otp,
                        getWaitingSocket(i, o) # NULL
                 PROVE  LET w == getWaitingSocket(i, o) IN
                        /\ w \in alloc' /\ mode'[w] = "relay"
                        /\ otp[w] = o /\ listenId[w] = i
        BY DEF WaitingSound, getWaitingSocket
    <2>1. LET w == getWaitingSocket(i, o) IN
          /\ w \in Sock /\ w \in alloc /\ mode[w] = "relay"
          /\ otp[w] = o /\ listenId[w] = i
        BY DEF WaitingSound, TypeOK
    <2> QED
        BY <1>2, <2>1 DEF Linked
<1>7. NoZombieWaiter'
    BY <1>2, <1>3 DEF NoZombieWaiter, Linked
<1>8. RelayPartner'
    <2> SUFFICES ASSUME NEW s \in Sock, mode'[s] = "relay",
                        isAlive'[s] = "alive", next'[s] # NULL
                 PROVE  /\ next'[s] \in alloc'
                        /\ mode'[next'[s]] = "relay" /\ next'[next'[s]] = s
        BY DEF RelayPartner
    <2>1. CASE s = a \/ s = b
        BY <1>1, <2>1
    <2>2. CASE s # a /\ s # b
        <3>1. /\ next[s] \in Sock /\ next[s] \in alloc
              /\ mode[next[s]] = "relay" /\ next[next[s]] = s
            BY <1>2, <2>2 DEF RelayPartner, TypeOK
        <3>2. next[s] # a /\ next[s] # b
            BY <3>1 DEF Linked
        <3> QED
            BY <1>2, <2>2, <3>1, <3>2
    <2> QED
        BY <2>1, <2>2
<1> QED
    BY <1>4, <1>5, <1>6, <1>7, <1>8

\* handleRead: only an OTP in rl mode links Sockets, two new ones.
LEMMA HandleReadStep ==
    ASSUME Inv, HandleRead
    PROVE  Inv'
<1> USE SockAssumption DEF Running, ToHouseKeeping, hnVars, ctxVars
<1>1. ASSUME ReadUnpaired \/ ReadRelay \/ ReadListenOut \/ ReadListen
      PROVE  Inv'
    <2>0. event = "read" /\ sel \in Sock /\ sockToRemove = NULL
        BY <1>1 DEF Inv, LoopInv, ReadUnpaired, ReadRelay, ReadListenOut, ReadListen
    <2>1. wbuf' \subseteq Sock
        BY <1>1, <2>0 DEF ReadUnpaired, ReadRelay, ReadListenOut, ReadListen,
                          sock_write, Inv, TypeOK
    <2>2. /\ isAlive' \in [Sock -> Alive]
          /\ \A s \in Sock : isAlive'[s] = "alive" => isAlive[s] = "alive"
        BY <1>1, <2>0 DEF ReadUnpaired, ReadRelay, ReadListenOut, ReadListen,
                          sock_done, sock_read, Inv, TypeOK, Alive
    <2>3. /\ UNCHANGED <<alloc, hnVars, ctxVars, sockList, sockToRemove, readSet,
                         proc>>
          /\ ToHouseKeeping
        BY <1>1 DEF ReadUnpaired, ReadRelay, ReadListenOut, ReadListen
    <2>4. TypeOK'
        BY <2>1, <2>2, <2>3 DEF Inv, TypeOK, Events
    <2>5. LoopInv' /\ PendingListed' /\ Framed
        BY <2>0, <2>2, <2>3 DEF Inv, LoopInv, PendingListed, Framed
    <2> QED
        BY <2>4, <2>5, FrameStep
<1>2. ASSUME NEW s \in Free, ReadOtpBridge(s)
      PROVE  Inv'
    <2>0. sel \in Sock /\ sockToRemove = NULL /\ s \in Sock /\ s \notin alloc
        BY <1>2 DEF Inv, LoopInv, ReadOtpBridge, Free
    <2>1. TypeOK'
        BY <1>2, <2>0 DEF ReadOtpBridge, Inv, TypeOK, Alive, Modes, Events
    <2>2. LoopInv' /\ PendingListed'
        BY <1>2, <2>0 DEF ReadOtpBridge, Inv, TypeOK, LoopInv, PendingListed, Linked
    <2>3. Framed
        BY <1>2, <2>0 DEF ReadOtpBridge, Inv, TypeOK, HnInv, Framed, Linked
    <2> QED
        BY <2>1, <2>2, <2>3, FrameStep
<1>3. ASSUME NEW s \in Free, NEW n \in Free, ReadOtpRL(s, n)
      PROVE  Inv'
    <2>0. /\ sel \in Sock /\ sockToRemove = NULL /\ s # n
          /\ s \in Sock /\ s \notin alloc /\ n \in Sock /\ n \notin alloc
          /\ mode[s] \notin Linked /\ mode[n] \notin Linked
        BY <1>3 DEF Inv, LoopInv, ReadOtpRL, Free, HnInv
    <2>a. isAlive' \in [Sock -> Alive]
        BY <1>3, <2>0 DEF ReadOtpRL, Inv, TypeOK, Alive
    <2>b. mode' \in [Sock -> Modes] /\ next' \in [Sock -> Sock \cup {NULL}]
        BY <1>3, <2>0 DEF ReadOtpRL, Pair, hn_sockInit, Inv, TypeOK, Modes
    <2>1. TypeOK'
        BY <1>3, <2>0, <2>a, <2>b DEF ReadOtpRL, Pair, Inv, TypeOK, Events
    <2>2. LoopInv' /\ PendingListed'
        BY <1>3, <2>0 DEF ReadOtpRL, Pair, Inv, LoopInv, PendingListed
    <2>3. \A t \in Sock \ {s, n} : isAlive'[t] = "alive" => isAlive[t] = "alive"
        BY <1>3, <2>0 DEF ReadOtpRL, Inv, TypeOK
    <2> QED
        BY <1>3, <2>0, <2>1, <2>2, <2>3, PairStep DEF ReadOtpRL
<1> QED
    BY <1>1, <1>2, <1>3 DEF HandleRead

\* A client starts to wait: the OTP is new, so no entry is overwritten.
LEMMA NewConnectWaitStep ==
    ASSUME Inv, NEW i \in ListenId, NEW o \in Otp, NewConnectWait(i, o)
    PROVE  Inv'
<1> USE SockAssumption DEF Inv, NewConnectWait, Running, ToHouseKeeping,
        hn_sockInit, addWaitingSock, ctxVars
<1> DEFINE l == listeningSocks[i]
<1>0. /\ sel \in Sock /\ sel \in alloc /\ mode[sel] \notin Linked
      /\ sockToRemove = NULL
    BY DEF LoopInv
<1>1. /\ l \in Sock /\ mode[l] = "listen" /\ listenId[l] = i /\ l # sel
      /\ l \in alloc /\ l \in sockList
    BY <1>0 DEF ListeningSound, TypeOK, Linked
<1>2. \A s \in Sock : s # sel => /\ mode'[s] = mode[s] /\ otp'[s] = otp[s]
                                 /\ listenId'[s] = listenId[s]
    BY DEF TypeOK
<1>3. mode'[sel] = "relay" /\ otp'[sel] = o /\ listenId'[sel] = i /\ o # NULL
    BY <1>0 DEF TypeOK
<1>4. /\ waitingSocks'[l][o] = sel
      /\ \A s \in Sock, q \in Otp : s # l \/ q # o =>
            waitingSocks'[s][q] = waitingSocks[s][q]
    BY <1>1 DEF TypeOK
<1>5. /\ otp[sel] = NULL /\ next[sel] = NULL
      /\ \A q \in Otp : waitingSocks[sel][q] = NULL
    BY <1>0 DEF HnInv, Linked
<1>6. \A s \in Sock : otp[s] # o /\ waitingSocks[s][o] = NULL
    BY DEF FreshOtp
<1>7. TypeOK'
    <2>1. waitingSocks' \in [Sock -> [Otp -> Sock \cup {NULL, Dangling}]]
        <3>1. [waitingSocks[l] EXCEPT ![o] = sel]
                  \in [Otp -> Sock \cup {NULL, Dangling}]
            BY <1>0, <1>1 DEF TypeOK
        <3> QED
            BY <3>1 DEF TypeOK
    <2>2. wbuf' \subseteq Sock
        BY <1>1 DEF sock_write, TypeOK
    <2>3. mode' \in [Sock -> Modes]
        BY <1>0 DEF TypeOK, Modes
    <2> QED
        BY <1>0, <2>1, <2>2, <2>3 DEF TypeOK, Events
<1>8. LoopInv' /\ PendingListed'
    BY <1>0 DEF LoopInv, PendingListed
<1>9. HnInv'
    <2>1. ASSUME NEW s \in Sock, NEW q \in Otp, mode'[s] # "listen"
          PROVE  waitingSocks'[s][q] = NULL
        <3>1. s # l
            BY <1>1, <1>2, <2>1
        <3> QED
            BY <1>2, <1>4, <1>5, <2>1, <3>1 DEF HnInv
    <2>2. ASSUME NEW s \in Sock, NEW t \in Sock, otp'[s] # NULL, otp'[s] = otp'[t]
          PROVE  s = t
        BY <1>2, <1>3, <1>6, <2>2 DEF HnInv
    <2> QED
        BY <1>0, <1>2, <1>3, <1>5, <2>1, <2>2 DEF HnInv, Linked
<1>10. ListeningSound'
    BY <1>0, <1>2 DEF ListeningSound, TypeOK, Linked
<1>11. WaitingSound'
    <2> SUFFICES ASSUME NEW j \in ListenId, NEW q \in Otp,
                        listeningSocks[j] # NULL,
                        waitingSocks'[listeningSocks[j]][q] # NULL
                 PROVE  LET w == waitingSocks'[listeningSocks[j]][q] IN
                        /\ w \in alloc /\ mode'[w] = "relay"
                        /\ otp'[w] = q /\ listenId'[w] = j
        BY DEF WaitingSound, getWaitingSocket
    <2>1. listeningSocks[j] \in Sock /\ listenId[listeningSocks[j]] = j
        BY DEF ListeningSound, TypeOK
    <2>2. CASE listeningSocks[j] = l /\ q = o
        BY <1>0, <1>1, <1>3, <1>4, <2>1, <2>2
    <2>3. CASE ~(listeningSocks[j] = l /\ q = o)
        <3>1. waitingSocks'[listeningSocks[j]][q] = waitingSocks[listeningSocks[j]][q]
            BY <1>4, <2>1, <2>3
        <3>2. LET w == waitingSocks[listeningSocks[j]][q] IN
              /\ w \in Sock /\ w \in alloc /\ mode[w] = "relay"
              /\ otp[w] = q /\ listenId[w] = j
            BY <3>1 DEF WaitingSound, getWaitingSocket, TypeOK
        <3>3. waitingSocks[listeningSocks[j]][q] # sel
            BY <1>0, <3>2 DEF Linked
        <3> QED
            BY <1>2, <3>1, <3>2, <3>3
    <2> QED
        BY <2>2, <2>3
<1>12. NoZombieWaiter'
    <2> SUFFICES ASSUME NEW s \in Sock, otp'[s] # NULL, isAlive[s] = "alive"
                 PROVE  \E m \in Sock :
                           mode'[m] = "listen" /\ waitingSocks'[m][otp'[s]] = s
        BY DEF NoZombieWaiter
    <2>1. CASE s = sel
        BY <1>1, <1>2, <1>3, <1>4, <2>1
    <2>2. CASE s # sel
        <3>1. otp'[s] = otp[s] /\ otp[s] \in Otp /\ otp[s] # o
            BY <1>2, <1>6, <2>2 DEF TypeOK
        <3>2. PICK m \in Sock : mode[m] = "listen" /\ waitingSocks[m][otp[s]] = s
            BY <3>1 DEF NoZombieWaiter
        <3>3. m # sel
            BY <1>0, <3>2 DEF Linked
        <3> QED
            BY <1>2, <1>4, <3>1, <3>2, <3>3
    <2> QED
        BY <2>1, <2>2
<1>13. RelayPartner'
    BY <1>0, <1>2, <1>5 DEF RelayPartner, TypeOK, Linked
<1> QED
    BY <1>7, <1>8, <1>9, <1>10, <1>11, <1>12, <1>13

\* A listener registers, with a new map, in place of whoever had its id.
LEMMA NewListenStep ==
    ASSUME Inv, NEW i \in ListenId, NewListen(i)
    PROVE  Inv'
<1> USE SockAssumption DEF Inv, NewListen, Running, ToHouseKeeping,
        hn_sockInit, sockVars
<1>0. /\ sel \in Sock /\ sel \in alloc /\ mode[sel] \notin Linked
      /\ sockToRemove = NULL
    BY DEF LoopInv
<1>1. \A s \in Sock : s # sel => mode'[s] = mode[s] /\ listenId'[s] = listenId[s]
    BY DEF TypeOK
<1>2. mode'[sel] = "listen" /\ listenId'[sel] = i
    BY <1>0 DEF TypeOK
<1>3. /\ listeningSocks'[i] = sel
      /\ \A j \in ListenId : j # i => listeningSocks'[j] = listeningSocks[j]
    BY DEF TypeOK
<1>4. /\ otp[sel] = NULL /\ next[sel] = NULL
      /\ \A q \in Otp : waitingSocks[sel][q] = NULL
    BY <1>0 DEF HnInv, Linked
<1>5. TypeOK'
    BY <1>0 DEF TypeOK, Modes, Events
<1>6. LoopInv' /\ PendingListed'
    BY <1>0 DEF LoopInv, PendingListed
<1>7. HnInv'
    <2>1. ASSUME NEW s \in Sock, NEW q \in Otp, mode'[s] # "listen"
          PROVE  waitingSocks'[s][q] = NULL
        BY <1>1, <1>2, <2>1 DEF HnInv
    <2> QED
        BY <1>0, <1>1, <1>2, <1>4, <2>1 DEF HnInv, Linked
<1>8. ListeningSound'
    BY <1>0, <1>1, <1>2, <1>3 DEF ListeningSound, TypeOK, Linked
<1>9. WaitingSound'
    <2> SUFFICES ASSUME NEW j \in ListenId, NEW q \in Otp,
                        listeningSocks'[j] # NULL,
                        waitingSocks[listeningSocks'[j]][q] # NULL
                 PROVE  LET w == waitingSocks[listeningSocks'[j]][q] IN
                        /\ w \in alloc /\ mode'[w] = "relay"
                        /\ otp[w] = q /\ listenId'[w] = j
        BY DEF WaitingSound, getWaitingSocket
    <2>1. j # i /\ listeningSocks'[j] = listeningSocks[j]
        BY <1>3, <1>4
    <2>2. LET w == waitingSocks[listeningSocks[j]][q] IN
          /\ w \in Sock /\ w \in alloc /\ mode[w] = "relay"
          /\ otp[w] = q /\ listenId[w] = j
        BY <2>1 DEF WaitingSound, getWaitingSocket, TypeOK
    <2> QED
        BY <1>0, <1>1, <2>1, <2>2 DEF Linked
<1>10. NoZombieWaiter'
    BY <1>0, <1>1 DEF NoZombieWaiter, Linked
<1>11. RelayPartner'
    BY <1>0, <1>1, <1>2 DEF RelayPartner, TypeOK, Linked
<1> QED
    BY <1>5, <1>6, <1>7, <1>8, <1>9, <1>10, <1>11

\* LISTEN_CONNECT: the entry found is a waiting client, which loses its entry
\* in the same step as it is linked.
LEMMA NewListenConnectStep ==
    ASSUME Inv, NEW i \in ListenId, NEW o \in Otp, NewListenConnect(i, o)
    PROVE  Inv'
<1> USE SockAssumption DEF Inv, NewListenConnect, Running, ToHouseKeeping,
        Pair, hn_sockInit, ctxVars
<1> DEFINE w == getWaitingSocket(i, o)
           l == listeningSocks[i]
<1>0. /\ sel \in Sock /\ sel \in alloc /\ mode[sel] \notin Linked
      /\ sockToRemove = NULL
    BY DEF LoopInv
<1>1. /\ w \in Sock /\ w \in alloc /\ mode[w] = "relay" /\ otp[w] = o
      /\ listenId[w] = i /\ next[w] = NULL /\ w # sel /\ o # NULL /\ i # NULL
    BY <1>0 DEF WaitingSound, TypeOK, HnInv, Linked
<1>2. l \in Sock /\ w = waitingSocks[l][o]
    BY <1>1 DEF getWaitingSocket, TypeOK
<1>3. /\ mode'[sel] = "relay" /\ mode'[w] = "relay"
      /\ next'[sel] = w /\ next'[w] = sel
      /\ otp'[w] = NULL
    BY <1>0, <1>1 DEF TypeOK
<1>4. \A s \in Sock : s # sel /\ s # w => mode'[s] = mode[s] /\ next'[s] = next[s]
    BY DEF TypeOK
<1>5. \A s \in Sock : s # w => otp'[s] = otp[s]
    BY DEF TypeOK
<1>6. /\ waitingSocks'[l][o] = NULL
      /\ \A s \in Sock, q \in Otp : s # l \/ q # o =>
            waitingSocks'[s][q] = waitingSocks[s][q]
    BY <1>1, <1>2 DEF removeWaitingSocket, TypeOK
<1>7. otp[sel] = NULL
    BY <1>0 DEF HnInv, Linked
<1>8. TypeOK'
    <2>1. waitingSocks' \in [Sock -> [Otp -> Sock \cup {NULL, Dangling}]]
        <3>1. [waitingSocks[l] EXCEPT ![o] = NULL]
                  \in [Otp -> Sock \cup {NULL, Dangling}]
            BY <1>2 DEF TypeOK
        <3> QED
            BY <3>1 DEF TypeOK, removeWaitingSocket
    <2>2. wbuf' \subseteq Sock
        BY <1>1 DEF sock_write, TypeOK
    <2>3. mode' \in [Sock -> Modes]
        BY <1>0 DEF TypeOK, Modes
    <2>4. next' \in [Sock -> Sock \cup {NULL}]
        BY <1>0, <1>1 DEF TypeOK
    <2>5. otp' \in [Sock -> Otp \cup {NULL}]
        BY DEF TypeOK
    <2> QED
        BY <1>0, <1>1, <2>1, <2>2, <2>3, <2>4, <2>5 DEF TypeOK, Events
<1>9. LoopInv' /\ PendingListed'
    BY <1>0 DEF LoopInv, PendingListed
<1>10. HnInv'
    <2>1. ASSUME NEW s \in Sock, NEW q \in Otp, mode'[s] # "listen"
          PROVE  waitingSocks'[s][q] = NULL
        BY <1>0, <1>1, <1>2, <1>3, <1>4, <1>6, <2>1 DEF HnInv, Linked
    <2>2. ASSUME NEW s \in Sock, NEW t \in Sock, otp'[s] # NULL, otp'[s] = otp'[t]
          PROVE  s = t
        BY <1>3, <1>5, <2>2 DEF HnInv
    <2>3. ASSUME NEW s \in Sock
          PROVE  /\ mode'[s] \in Linked => s \in alloc
                 /\ mode'[s] # "relay" => next'[s] = NULL /\ otp'[s] = NULL
        BY <1>0, <1>1, <1>3, <1>4, <1>5 DEF HnInv
    <2>4. ASSUME NEW s \in Sock, otp'[s] # NULL
          PROVE  next'[s] = NULL
        BY <1>3, <1>4, <1>5, <1>7, <2>4 DEF HnInv
    <2> QED
        BY <2>1, <2>2, <2>3, <2>4 DEF HnInv
<1>11. ListeningSound'
    BY <1>0, <1>1, <1>4 DEF ListeningSound, TypeOK, Linked
<1>12. WaitingSound'
    <2> SUFFICES ASSUME NEW j \in ListenId, NEW q \in Otp,
                        listeningSocks[j] # NULL,
                        waitingSocks'[listeningSocks[j]][q] # NULL
                 PROVE  LET v == waitingSocks'[listeningSocks[j]][q] IN
                        /\ v \in alloc /\ mode'[v] = "relay"
                        /\ otp'[v] = q /\ listenId[v] = j
        BY DEF WaitingSound, getWaitingSocket
    <2>1. listeningSocks[j] \in Sock
        BY DEF TypeOK
    <2>2. waitingSocks'[listeningSocks[j]][q] = waitingSocks[listeningSocks[j]][q]
        BY <1>6, <2>1
    <2>3. LET v == waitingSocks[listeningSocks[j]][q] IN
          /\ v \in Sock /\ v \in alloc /\ mode[v] = "relay"
          /\ otp[v] = q /\ listenId[v] = j
        BY <2>2 DEF WaitingSound, getWaitingSocket, TypeOK
    <2>4. waitingSocks[listeningSocks[j]][q] # w
        BY <1>1, <1>6, <2>2, <2>3
    <2> QED
        BY <1>0, <1>4, <1>5, <2>2, <2>3, <2>4 DEF Linked
<1>13. NoZombieWaiter'
    <2> SUFFICES ASSUME NEW s \in Sock, otp'[s] # NULL, isAlive[s] = "alive"
                 PROVE  \E m \in Sock :
                           mode'[m] = "listen" /\ waitingSocks'[m][otp'[s]] = s
        BY DEF NoZombieWaiter
    <2>1. s # w /\ otp'[s] = otp[s] /\ otp[s] \in Otp
        BY <1>3, <1>5 DEF TypeOK
    <2>2. PICK m \in Sock : mode[m] = "listen" /\ waitingSocks[m][otp[s]] = s
        BY <2>1 DEF NoZombieWaiter
    <2>3. otp[s] # o /\ m # sel /\ m # w
        BY <1>0, <1>1, <2>1, <2>2 DEF HnInv, Linked
    <2> QED
        BY <1>4, <1>6, <2>1, <2>2, <2>3
<1>14. RelayPartner'
    <2> SUFFICES ASSUME NEW s \in Sock, mode'[s] = "relay",
                        isAlive[s] = "alive", next'[s] # NULL
                 PROVE  /\ next'[s] \in alloc
                        /\ mode'[next'[s]] = "relay" /\ next'[next'[s]] = s
        BY DEF RelayPartner
    <2>1. CASE s = sel \/ s = w
        BY <1>0, <1>1, <1>3, <2>1
    <2>2. CASE s # sel /\ s # w
        <3>1. /\ next[s] \in Sock /\ next[s] \in alloc
              /\ mode[next[s]] = "relay" /\ next[next[s]] = s
            BY <1>4, <2>2 DEF RelayPartner, TypeOK
        <3>2. next[s] # sel /\ next[s] # w
            BY <1>0, <1>1, <3>1 DEF Linked
        <3> QED
            BY <1>4, <2>2, <3>1, <3>2
    <2> QED
        BY <2>1, <2>2
<1> QED
    BY <1>8, <1>9, <1>10, <1>11, <1>12, <1>13, <1>14

\* handleNew: the branches that keep nothing free a Socket nothing points to.
LEMMA HandleNewStep ==
    ASSUME Inv, HandleNew
    PROVE  Inv'
<1> USE SockAssumption DEF Running, ToHouseKeeping, sockVars, hnVars, ctxVars,
        loopVars
<1>0. ASSUME event = "new"
      PROVE  /\ sel \in Sock /\ sel \in alloc /\ mode[sel] \notin Linked
             /\ sockToRemove = NULL
    BY <1>0 DEF Inv, LoopInv
<1>1. CASE NewDestroyed \/ NewConnectFailed
    <2>0. event = "new"
        BY <1>1 DEF NewDestroyed, NewConnectFailed
    <2>1. TypeOK'
        BY <1>0, <1>1, <2>0 DEF NewDestroyed, NewConnectFailed, Inv, TypeOK,
                                Alive, Modes, Events
    <2>2. LoopInv' /\ PendingListed'
        BY <1>0, <1>1, <2>0 DEF NewDestroyed, NewConnectFailed, Inv, LoopInv,
                                PendingListed
    <2>3. Framed
        BY <1>0, <1>1, <2>0 DEF NewDestroyed, NewConnectFailed, Inv, TypeOK,
                                Framed, Linked
    <2> QED
        BY <2>1, <2>2, <2>3, FrameStep
<1>2. CASE NewDestroyedFreed
    <2> TypeOK' /\ LoopInv' /\ PendingListed' /\ Framed
        BY <1>2 DEF NewDestroyedFreed, Inv, TypeOK, Procs, LoopInv,
                    PendingListed, Framed
    <2> QED
        BY FrameStep
<1>3. ASSUME NEW n \in Free, NewConnect(n)
      PROVE  Inv'
    <2>0. /\ sel \in Sock /\ sel \in alloc /\ mode[sel] \notin Linked
          /\ n \in Sock /\ n \notin alloc /\ mode[n] \notin Linked /\ n # sel
          /\ sockToRemove = NULL
        BY <1>0, <1>3 DEF NewConnect, Free, Inv, HnInv
    <2>1. mode' \in [Sock -> Modes] /\ next' \in [Sock -> Sock \cup {NULL}]
        BY <1>3, <2>0 DEF NewConnect, Pair, hn_sockInit, Inv, TypeOK, Modes
    <2>2. TypeOK'
        BY <1>3, <2>0, <2>1 DEF NewConnect, Pair, Inv, TypeOK, Alive, Events
    <2>3. LoopInv' /\ PendingListed'
        BY <1>3, <2>0 DEF NewConnect, Pair, Inv, LoopInv, PendingListed
    <2>4. \A t \in Sock \ {sel, n} : isAlive'[t] = "alive" => isAlive[t] = "alive"
        BY <1>3, <2>0 DEF NewConnect, Inv, TypeOK
    <2> QED
        BY <1>3, <2>0, <2>2, <2>3, <2>4, PairStep DEF NewConnect
<1> QED
    BY <1>1, <1>2, <1>3, NewListenStep, NewConnectWaitStep, NewListenConnectStep
       DEF HandleNew

\* Every step of the process keeps the invariant.
LEMMA NextInv ==
    ASSUME Inv, [Next]_vars
    PROVE  Inv'
<1>1. CASE Terminated \/ UNCHANGED vars
    <2> TypeOK' /\ LoopInv' /\ PendingListed' /\ Framed
        BY <1>1 DEF Terminated, vars, sockVars, hnVars, ctxVars, loopVars, Inv,
                    TypeOK, LoopInv, PendingListed, Framed
    <2> QED
        BY FrameStep
<1> QED
    BY <1>1, WaitForEventStep, HandleCloseStep, HandleReadStep, HandleNewStep,
       HouseStep, WriteStep DEF Next, Step

\* The inductive invariant holds throughout, in every mode and for any
\* number of Sockets, listener ids and OTPs.
THEOREM Invariance == Spec => []Inv
<1>1. Init => Inv
    BY InitInv
<1>2. Inv /\ [Next]_vars => Inv'
    BY NextInv
<1> QED
    BY <1>1, <1>2, PTL DEF Spec

\* Types are kept; no context entry ever points to a freed listener.
THEOREM TypeCorrect == Spec => []TypeOK
<1>1. Inv => TypeOK
    BY DEF Inv
<1> QED
    BY <1>1, Invariance, PTL

\* A registered listener exists, is watched and has the id it is found under.
THEOREM ListeningCorrect == Spec => []ListeningSound
<1>1. Inv => ListeningSound
    BY DEF Inv
<1> QED
    BY <1>1, Invariance, PTL

\* LISTEN_CONNECT only ever finds a client that exists and waits for it.
THEOREM WaitingCorrect == Spec => []WaitingSound
<1>1. Inv => WaitingSound
    BY DEF Inv
<1> QED
    BY <1>1, Invariance, PTL

\* An open, waiting client is always in the map of an existing listener.
THEOREM WaitersReachable == Spec => []NoZombieWaiter
<1>1. Inv => NoZombieWaiter
    BY DEF Inv
<1> QED
    BY <1>1, Invariance, PTL

\* An open relay Socket is relayed to an existing Socket that leads back.
THEOREM RelayCorrect == Spec => []RelayPartner
<1>1. Inv => RelayPartner
    BY DEF Inv
<1> QED
    BY <1>1, Invariance, PTL

\* waitForEvent never runs out of Sockets with bits left to process.
THEOREM PendingCorrect == Spec => []PendingListed
<1>1. Inv => PendingListed
    BY DEF Inv
<1> QED
    BY <1>1, Invariance, PTL

\* A step that links Sockets only links ones that had no partner.
LEMMA PairedStep ==
    ASSUME Inv, [Next]_vars, NEW s \in Sock,
           mode[s] = "relay", mode'[s] = "relay", next[s] # NULL
    PROVE  next'[s] = next[s]
<1> USE SockAssumption DEF Running, hnVars, ctxVars, loopVars, sockVars, Inv
<1>1. CASE HandleClose
    BY <1>1 DEF HandleClose, CloseRelay, CloseListen, CloseListenDangling,
                CloseListenOut, ClosePlain, FreeHn, LoopInv, TypeOK
<1>2. CASE HandleRead
    <2>1. ASSUME NEW a \in Free, NEW b \in Free, ReadOtpRL(a, b)
          PROVE  next'[s] = next[s]
        BY <2>1 DEF ReadOtpRL, Pair, Free, HnInv, Linked, TypeOK
    <2> QED
        BY <1>2, <2>1 DEF HandleRead, ReadUnpaired, ReadRelay, ReadListenOut,
                          ReadListen, ReadOtpBridge
<1>3. CASE HandleNew
    <2>1. ASSUME event = "new"
          PROVE  sel \in Sock /\ s # sel
        BY <2>1 DEF LoopInv, Linked
    <2>2. ASSUME NEW n \in Free, NewConnect(n)
          PROVE  next'[s] = next[s]
        BY <2>1, <2>2 DEF NewConnect, Pair, Free, HnInv, Linked, TypeOK
    <2>3. ASSUME NEW i \in ListenId, NEW o \in Otp, NewListenConnect(i, o)
          PROVE  next'[s] = next[s]
        <3>1. LET w == getWaitingSocket(i, o) IN w \in Sock /\ otp[w] = o
            BY <2>3 DEF NewListenConnect, WaitingSound, TypeOK
        <3>2. s # getWaitingSocket(i, o)
            BY <3>1 DEF HnInv
        <3> QED
            BY <2>1, <2>3, <3>2 DEF NewListenConnect, Pair, TypeOK
    <2> QED
        BY <1>3, <2>2, <2>3 DEF HandleNew, NewDestroyed, NewConnectFailed,
               NewDestroyedFreed, NewListen, NewConnectWait
<1>4. CASE House \/ WriteHangs \/ WriteKills \/ Terminated \/ UNCHANGED vars
    BY <1>4 DEF House, HouseKeeping, HouseReconnect, HouseReconnectFailed,
                Reconnecting, WriteHangs, WriteKills, Terminated, vars
<1>5. CASE WaitForEvent
    BY <1>5 DEF WaitForEvent, WaitRemove, WaitDoubleFree, WaitClose, WaitRead,
                WaitAccept, WaitFlush, WaitSelect, WaitSelectFreed,
                WaitAcceptNone, WaitAcceptError
<1> QED
    BY <1>1, <1>2, <1>3, <1>4, <1>5 DEF Next, Step

\* A linked relay keeps its partner until its hn_Socket is freed: no OTP is
\* good for a second connection.
THEOREM PairedCorrect == Spec => PairedOnce
<1>1. Inv /\ [Next]_vars =>
         [\A s \in Sock : mode[s] = "relay" /\ mode'[s] = "relay" /\ next[s] # NULL
              => next'[s] = next[s]]_vars
    BY PairedStep
<1> QED
    BY <1>1, Invariance, PTL DEF Spec, PairedOnce

(***************************************************************************)
(* What becomes of a Socket between malloc and free, for every number of   *)
(* Sockets, ids and OTPs and in every mode: none is lost, none is watched  *)
(* after its free, and a bridge has one remote listener at most.  The last *)
(* two hold only while the server, the last of the watch list, is never    *)
(* closed, so they rest on everything that keeps it open: no link, no map  *)
(* and no event leads to it.                                               *)
(***************************************************************************)

(***************************************************************************)
(* No Socket is lost                                                       *)
(***************************************************************************)
\* Housekeeping is an event of the bridge alone.
HouseInv == event = "house" => Mode = "bridge"

\* A handler that changes the role of a Socket was given a watched one.
SelListed == event \in {"read", "close"} => sel \in sockList

\* What is inductive about a Socket that nothing points to.
LostInv == HouseInv /\ SelListed /\ NoSocketLost

\* It holds at the start,
LEMMA InitLost == Init => LostInv
BY DEF Init, LostInv, HouseInv, SelListed, NoSocketLost

\* and every step keeps it.
LEMMA LostStep ==
    ASSUME Inv, LostInv, [Next]_vars
    PROVE  LostInv'
<1> USE SockAssumption DEF LostInv, HouseInv, SelListed, NoSocketLost, LeftBehind,
        Running, ToHouseKeeping, Mode, UseRL, sockVars, hnVars, ctxVars, loopVars
<1>0. TypeOK /\ LoopInv /\ PendingListed
    BY DEF Inv
<1>1. CASE WaitForEvent
    <2>1. CASE WaitRemove
        BY <2>1 DEF WaitRemove, list_remove
    <2>2. ASSUME NEW s \in Sock, WaitAccept(s) PROVE LostInv'
        BY <2>2 DEF WaitAccept, Accepting, Waiting
    <2>3. ASSUME NEW s \in Sock, WaitClose(s) \/ WaitRead(s) PROVE LostInv'
        <3>1. sel' \in sockList' /\ sockList' = sockList /\ UNCHANGED <<alloc, mode, rlSock, conf>>
            BY <1>0, <2>3 DEF WaitClose, WaitRead, PendingListed
        <3>2. event = "none" /\ event' \in {"close", "read"}
            BY <2>3 DEF WaitClose, WaitRead, Waiting
        <3> QED
            BY <3>1, <3>2
    <2> QED
        BY <1>1, <2>1, <2>2, <2>3 DEF WaitForEvent, WaitDoubleFree, WaitFlush,
               WaitSelect, WaitSelectFreed, WaitAcceptNone, WaitAcceptError
<1>2. CASE HandleClose
    <2>1. CASE CloseRelay
        BY <1>0, <2>1 DEF CloseRelay, FreeHn, TypeOK
    <2>2. CASE CloseListen
        BY <1>0, <2>2 DEF CloseListen, FreeHn, TypeOK
    <2>3. CASE CloseListenOut
        BY <1>0, <2>3 DEF CloseListenOut, TypeOK
    <2> QED
        BY <1>2, <2>1, <2>2, <2>3 DEF HandleClose, CloseListenDangling, ClosePlain
<1>3. CASE HandleRead
    <2>1. ASSUME NEW s \in Free, ReadOtpBridge(s) PROVE LostInv'
        BY <2>1 DEF ReadOtpBridge
    <2>2. ASSUME NEW s \in Free, NEW n \in Free, ReadOtpRL(s, n) PROVE LostInv'
        BY <2>2 DEF ReadOtpRL, Pair
    <2> QED
        BY <1>3, <2>1, <2>2 DEF HandleRead, ReadUnpaired, ReadRelay, ReadListenOut,
               ReadListen
<1>4. CASE HandleNew
    <2>1. CASE NewDestroyed \/ NewConnectFailed \/ NewDestroyedFreed
        BY <1>0, <2>1 DEF NewDestroyed, NewConnectFailed, NewDestroyedFreed, TypeOK
    <2>2. ASSUME NEW n \in Free, NewConnect(n) PROVE LostInv'
        BY <1>0, <2>2 DEF NewConnect, Pair, hn_sockInit, TypeOK, Free
    <2>3. ASSUME NEW i \in ListenId, NewListen(i) PROVE LostInv'
        BY <1>0, <2>3 DEF NewListen, hn_sockInit, TypeOK
    <2>4. ASSUME NEW i \in ListenId, NEW o \in Otp, NewConnectWait(i, o) PROVE LostInv'
        BY <1>0, <2>4 DEF NewConnectWait, hn_sockInit, TypeOK
    <2>5. ASSUME NEW i \in ListenId, NEW o \in Otp, NewListenConnect(i, o) PROVE LostInv'
        BY <1>0, <2>5 DEF NewListenConnect, Pair, hn_sockInit, TypeOK
    <2> QED
        BY <1>4, <2>1, <2>2, <2>3, <2>4, <2>5 DEF HandleNew
<1>5. CASE House
    <2>1. CASE HouseKeeping
        BY <2>1 DEF HouseKeeping
    <2>2. ASSUME NEW s \in Free, HouseReconnect(s) PROVE LostInv'
        BY <1>0, <2>2 DEF HouseReconnect, Reconnecting, Free, TypeOK
    <2>3. ASSUME NEW s \in Free, HouseReconnectFailed(s) PROVE LostInv'
        BY <1>0, <2>3 DEF HouseReconnectFailed, Reconnecting, Free, TypeOK
    <2> QED
        BY <1>5, <2>1, <2>2, <2>3 DEF House
<1>6. CASE WriteHangs \/ WriteKills \/ Terminated \/ UNCHANGED vars
    BY <1>6 DEF WriteHangs, WriteKills, Terminated, vars
<1> QED
    BY <1>1, <1>2, <1>3, <1>4, <1>5, <1>6 DEF Next, Step

\* Every Socket the process has allocated is watched or in the hands of
\* handleNew, but for those of the attempts to reconnect a remote listener that
\* failed.
THEOREM NoneLost == Spec => []NoSocketLost
<1>1. LostInv => NoSocketLost
    BY DEF LostInv
<1> QED
    BY <1>1, InitLost, LostStep, InitInv, NextInv, PTL DEF Spec

(***************************************************************************)
(* No freed Socket is watched                                              *)
(***************************************************************************)
SafeServer == HasServer /\ ~AcceptMayFail

\* The server stays open, and no link, map or event leads to it.
ServerOpen ==
    /\ ServerSock \in alloc
    /\ mode[ServerSock] = "server" /\ isAlive[ServerSock] = "alive"
    /\ sel # ServerSock /\ sockToRemove # ServerSock
    /\ \A s \in Sock : next[s] # ServerSock
    /\ \A s \in Sock, o \in Otp : waitingSocks[s][o] # ServerSock

\* A Socket is listed after handleNew and until it is freed.
Listed ==
    /\ sockList \subseteq alloc
    /\ event = "new" => sel \notin sockList
    /\ event = "close" => sel \in sockList
    /\ sockToRemove # NULL =>
          sockToRemove \in alloc /\ isAlive[sockToRemove] = "dead"

\* A server that never fails to accept stays open, and no freed Socket is listed.
ServerInv == SafeServer => ServerOpen /\ Listed

\* The server is open when the loop starts.
LEMMA InitServer == Init => ServerInv
BY SockAssumption DEF Init, ServerInv, SafeServer, ServerOpen, Listed, InitSocks,
   NoWaiters, HasServer

\* A step that frees, opens and links nothing and hands no Socket to a handler.
LEMMA ServerFrame ==
    ASSUME Inv, ServerOpen, Listed,
           UNCHANGED <<alloc, sockList, sockToRemove>>,
           mode'[ServerSock] = mode[ServerSock],
           isAlive'[ServerSock] = isAlive[ServerSock],
           \A s \in Sock : isAlive[s] = "dead" => isAlive'[s] = "dead",
           \A s \in Sock : next'[s] \in {next[s], NULL},
           \A s \in Sock, o \in Otp :
               waitingSocks'[s][o] \in {waitingSocks[s][o], NULL, Dangling},
           \/ UNCHANGED <<event, sel>>
           \/ event' \in {"none", "house"} /\ sel' \in {sel, NULL}
    PROVE  ServerOpen' /\ Listed'
<1>1. ServerOpen'
    BY SockAssumption DEF ServerOpen
<1>2. Listed'
    BY DEF Listed, Inv, TypeOK
<1> QED
    BY <1>1, <1>2

\* waitForNetworkEvent frees only what was found dead, never the server.
LEMMA ServerWait ==
    ASSUME Inv, SafeServer, ServerOpen, Listed, WaitForEvent
    PROVE  ServerOpen' /\ Listed'
<1> USE SockAssumption DEF Running, Waiting, Selecting, Accepting, Free,
        sockVars, hnVars, ctxVars, loopVars
<1>0. TypeOK /\ LoopInv
    BY DEF Inv
<1>1. CASE WaitRemove
    <2>1. list_remove(sockToRemove) = sockList \ {sockToRemove}
        BY DEF list_remove, Bottom, SafeServer, ServerOpen
    <2> QED
        BY <1>0, <1>1, <2>1 DEF WaitRemove, ServerOpen, Listed
<1>2. ASSUME NEW s \in Sock, WaitClose(s) PROVE ServerOpen' /\ Listed'
    <2>1. s # ServerSock
        BY <1>0, <1>2 DEF WaitClose, MustClose, ServerOpen
    <2> QED
        BY <1>0, <1>2, <2>1 DEF WaitClose, ServerOpen, Listed, TypeOK
<1>3. ASSUME NEW s \in Sock, WaitRead(s) PROVE ServerOpen' /\ Listed'
    BY <1>0, <1>3 DEF WaitRead, ServerOpen, Listed
<1>4. ASSUME NEW s \in Sock, WaitAccept(s) PROVE ServerOpen' /\ Listed'
    BY <1>0, <1>4 DEF WaitAccept, ServerOpen, Listed, TypeOK
<1>5. CASE \/ WaitDoubleFree \/ WaitSelectFreed \/ WaitAcceptNone
           \/ \E s \in Sock : WaitFlush(s)
           \/ \E R \in SUBSET sockList : WaitSelect(R)
    BY <1>0, <1>5 DEF WaitDoubleFree, WaitSelectFreed, WaitAcceptNone, WaitFlush,
           WaitSelect, ServerOpen, Listed
<1>6. CASE WaitAcceptError
    BY <1>6 DEF WaitAcceptError, SafeServer
<1> QED
    BY <1>1, <1>2, <1>3, <1>4, <1>5, <1>6 DEF WaitForEvent

\* sock_done closes no Socket but those it is called for, and opens none.
LEMMA DoneFacts ==
    ASSUME NEW S, ServerSock \notin S, isAlive \in [Sock -> Alive]
    PROVE  /\ sock_done(S)[ServerSock] = isAlive[ServerSock]
           /\ \A s \in Sock : isAlive[s] = "dead" => sock_done(S)[s] = "dead"
BY SockAssumption DEF sock_done

\* The close handlers leave the server alone.
LEMMA ServerClose ==
    ASSUME Inv, ServerOpen, Listed, HandleClose
    PROVE  ServerOpen' /\ Listed'
<1> USE SockAssumption DEF Running, ToHouseKeeping, sockVars, hnVars, ctxVars, loopVars
<1>0. TypeOK /\ LoopInv /\ isAlive \in [Sock -> Alive]
    BY DEF Inv, TypeOK
<1>1. CASE CloseRelay
    <2>1. sel \in Sock /\ sel # ServerSock
        BY <1>0, <1>1 DEF CloseRelay, LoopInv, ServerOpen
    <2>2. ASSUME NEW s \in Sock, NEW o \in Otp
          PROVE  waitingSocks'[s][o] \in {waitingSocks[s][o], NULL, Dangling}
        BY <1>0, <1>1 DEF CloseRelay, Dangled, removeWaitingSocket, TypeOK
    <2>3. ServerSock \notin RelayTargets(sel)
        BY <2>1 DEF RelayTargets, ServerOpen
    <2>4. /\ isAlive'[ServerSock] = isAlive[ServerSock]
          /\ \A s \in Sock : isAlive[s] = "dead" => isAlive'[s] = "dead"
        BY <1>0, <1>1, <2>3, DoneFacts DEF CloseRelay
    <2>5. /\ mode'[ServerSock] = mode[ServerSock]
          /\ \A s \in Sock : next'[s] \in {next[s], NULL}
        BY <1>0, <1>1, <2>1 DEF CloseRelay, FreeHn, TypeOK
    <2>6. UNCHANGED <<alloc, sockList, sockToRemove>> /\ sel' = NULL
          /\ event' \in {"none", "house"}
        BY <1>1 DEF CloseRelay
    <2> QED
        BY <2>2, <2>4, <2>5, <2>6, ServerFrame
<1>2. CASE CloseListen
    <2>1. sel \in Sock /\ sel # ServerSock
        BY <1>0, <1>2 DEF CloseListen, LoopInv, ServerOpen
    <2>2. ASSUME NEW s \in Sock, NEW o \in Otp
          PROVE  waitingSocks'[s][o] \in {waitingSocks[s][o], NULL, Dangling}
        BY <1>0, <1>2 DEF CloseListen, NoWaiters, TypeOK
    <2>3. PICK X \in Strays(sel) : isAlive' = sock_done(ListenTargets(sel) \cup X)
        BY <1>2 DEF CloseListen
    <2>4. ServerSock \notin ListenTargets(sel) \cup X
        BY <2>1, <2>3 DEF ListenTargets, Strays, ServerOpen
    <2>5. /\ isAlive'[ServerSock] = isAlive[ServerSock]
          /\ \A s \in Sock : isAlive[s] = "dead" => isAlive'[s] = "dead"
        BY <1>0, <2>3, <2>4, DoneFacts
    <2>6. /\ mode'[ServerSock] = mode[ServerSock]
          /\ \A s \in Sock : next'[s] \in {next[s], NULL}
        BY <1>0, <1>2, <2>1 DEF CloseListen, FreeHn, TypeOK
    <2>7. UNCHANGED <<alloc, sockList, sockToRemove>> /\ sel' = NULL
          /\ event' \in {"none", "house"}
        BY <1>2 DEF CloseListen
    <2> QED
        BY <2>2, <2>5, <2>6, <2>7, ServerFrame
<1>3. CASE CloseListenDangling \/ CloseListenOut \/ ClosePlain
    <2>1. UNCHANGED <<mode, isAlive, waitingSocks, alloc, next, sockList, sockToRemove>>
        BY <1>3 DEF CloseListenDangling, CloseListenOut, ClosePlain
    <2>2. \/ UNCHANGED <<event, sel>>
          \/ event' \in {"none", "house"} /\ sel' = NULL
        BY <1>3 DEF CloseListenDangling, CloseListenOut, ClosePlain
    <2> QED
        BY <2>1, <2>2, ServerFrame
<1> QED
    BY <1>1, <1>2, <1>3 DEF HandleClose

\* A read closes connections only.
LEMMA ServerRead ==
    ASSUME Inv, ServerOpen, Listed, HandleRead
    PROVE  ServerOpen' /\ Listed'
<1> USE SockAssumption DEF Running, ToHouseKeeping, Free, hnVars, ctxVars
<1>0. TypeOK /\ LoopInv /\ isAlive \in [Sock -> Alive]
    BY DEF Inv, TypeOK
<1>1. sel \in Sock /\ sel # ServerSock
    BY <1>0 DEF HandleRead, ReadUnpaired, ReadRelay, ReadListenOut, ReadListen,
                ReadOtpBridge, ReadOtpRL, LoopInv, ServerOpen
<1>2. CASE ReadUnpaired \/ ReadRelay \/ ReadListenOut \/ ReadListen
    <2>1. /\ isAlive'[ServerSock] = isAlive[ServerSock]
          /\ \A s \in Sock : isAlive[s] = "dead" => isAlive'[s] = "dead"
        BY <1>0, <1>1, <1>2, DoneFacts DEF ReadUnpaired, ReadRelay, ReadListenOut,
               ReadListen, sock_read
    <2>2. UNCHANGED <<mode, waitingSocks, alloc, next, sockList, sockToRemove>>
        BY <1>2 DEF ReadUnpaired, ReadRelay, ReadListenOut, ReadListen
    <2>3. event' \in {"none", "house"} /\ sel' = NULL
        BY <1>2 DEF ReadUnpaired, ReadRelay, ReadListenOut, ReadListen
    <2> QED
        BY <2>1, <2>2, <2>3, ServerFrame
<1>3. ASSUME NEW s \in Free, ReadOtpBridge(s) PROVE ServerOpen' /\ Listed'
    <2>1. s \in Sock /\ s # ServerSock /\ s \notin sockList
        BY DEF ServerOpen, Listed
    <2>2. ServerOpen'
        BY <1>0, <1>1, <1>3, <2>1 DEF ReadOtpBridge, ServerOpen, TypeOK
    <2>3. Listed'
        BY <1>0, <1>1, <1>3, <2>1 DEF ReadOtpBridge, Listed, LoopInv
    <2> QED
        BY <2>2, <2>3
<1>4. ASSUME NEW s \in Free, NEW n \in Free, ReadOtpRL(s, n)
      PROVE  ServerOpen' /\ Listed'
    <2>1. s \in Sock /\ s # ServerSock /\ n \in Sock /\ n # ServerSock
        BY DEF ServerOpen
    <2>2. ServerOpen'
        BY <1>0, <1>1, <1>4, <2>1 DEF ReadOtpRL, Pair, hn_sockInit, ServerOpen, TypeOK
    <2>3. Listed'
        BY <1>0, <1>1, <1>4, <2>1 DEF ReadOtpRL, Pair, Listed, LoopInv
    <2> QED
        BY <2>2, <2>3
<1> QED
    BY <1>2, <1>3, <1>4 DEF HandleRead

\* The Sockets of a new session are not the server.
LEMMA ServerNew ==
    ASSUME Inv, ServerOpen, Listed, HandleNew
    PROVE  ServerOpen' /\ Listed'
<1> USE SockAssumption DEF Running, ToHouseKeeping, Free, hnVars, ctxVars
<1>0. TypeOK /\ LoopInv
    BY DEF Inv
<1>1. /\ event = "new" /\ sel \in Sock /\ sel \in alloc /\ sockToRemove = NULL
      /\ sel # ServerSock /\ sel \notin sockList
    BY <1>0 DEF HandleNew, NewDestroyed, NewConnectFailed, NewDestroyedFreed,
           NewConnect, NewListen, NewConnectWait, NewListenConnect, LoopInv,
           ServerOpen, Listed
<1>2. CASE NewDestroyed \/ NewConnectFailed
    <2>1. ServerOpen'
        BY <1>0, <1>1, <1>2 DEF NewDestroyed, NewConnectFailed, ServerOpen, TypeOK
    <2>2. Listed'
        BY <1>1, <1>2 DEF NewDestroyed, NewConnectFailed, Listed
    <2> QED
        BY <2>1, <2>2
<1>3. CASE NewDestroyedFreed
    BY <1>3, ServerFrame DEF NewDestroyedFreed, sockVars, loopVars
<1>4. ASSUME NEW n \in Free, NewConnect(n) PROVE ServerOpen' /\ Listed'
    <2>1. n \in Sock /\ n # ServerSock
        BY DEF ServerOpen
    <2>2. ServerOpen'
        BY <1>0, <1>1, <1>4, <2>1 DEF NewConnect, Pair, hn_sockInit, ServerOpen, TypeOK
    <2>3. Listed'
        BY <1>1, <1>4 DEF NewConnect, Pair, Listed
    <2> QED
        BY <2>2, <2>3
<1>5. ASSUME NEW i \in ListenId, NewListen(i) PROVE ServerOpen' /\ Listed'
    <2>1. ServerOpen'
        BY <1>0, <1>1, <1>5 DEF NewListen, hn_sockInit, sockVars, ServerOpen, TypeOK
    <2>2. Listed'
        BY <1>1, <1>5 DEF NewListen, sockVars, Listed
    <2> QED
        BY <2>1, <2>2
<1>6. ASSUME NEW i \in ListenId, NEW o \in Otp, NewConnectWait(i, o)
      PROVE  ServerOpen' /\ Listed'
    <2>1. \A s \in Sock, q \in Otp : waitingSocks'[s][q] \in {waitingSocks[s][q], sel}
        BY <1>0, <1>6 DEF NewConnectWait, addWaitingSock, TypeOK
    <2>2. ServerOpen'
        BY <1>0, <1>1, <1>6, <2>1 DEF NewConnectWait, hn_sockInit, ServerOpen, TypeOK
    <2>3. Listed'
        BY <1>1, <1>6 DEF NewConnectWait, Listed
    <2> QED
        BY <2>2, <2>3
<1>7. ASSUME NEW i \in ListenId, NEW o \in Otp, NewListenConnect(i, o)
      PROVE  ServerOpen' /\ Listed'
    <2> DEFINE w == getWaitingSocket(i, o)
    <2>1. w \in Sock /\ w \in alloc /\ mode[w] = "relay"
        BY <1>0, <1>7 DEF NewListenConnect, Inv, WaitingSound, TypeOK
    <2>2. w # ServerSock
        BY <2>1 DEF ServerOpen
    <2>3. \A s \in Sock, q \in Otp : waitingSocks'[s][q] \in {waitingSocks[s][q], NULL}
        BY <1>0, <1>7 DEF NewListenConnect, removeWaitingSocket, TypeOK
    <2>4. ServerOpen'
        BY <1>0, <1>1, <1>7, <2>1, <2>2, <2>3
           DEF NewListenConnect, Pair, hn_sockInit, ServerOpen, TypeOK
    <2>5. Listed'
        BY <1>1, <1>7, <2>1 DEF NewListenConnect, Pair, Listed
    <2> QED
        BY <2>4, <2>5
<1> QED
    BY <1>2, <1>3, <1>4, <1>5, <1>6, <1>7 DEF HandleNew

\* A new remote listener is a new Socket.
LEMMA ServerHouse ==
    ASSUME Inv, ServerOpen, Listed, House
    PROVE  ServerOpen' /\ Listed'
<1> USE SockAssumption DEF Running, Free, hnVars, ctxVars
<1>0. TypeOK
    BY DEF Inv
<1>1. CASE HouseKeeping
    BY <1>1, ServerFrame DEF HouseKeeping
<1>2. ASSUME NEW s \in Free, HouseReconnect(s) \/ HouseReconnectFailed(s)
      PROVE  ServerOpen' /\ Listed'
    <2>1. Reconnecting(s) /\ sockList' \subseteq sockList \cup {s}
        BY <1>2 DEF HouseReconnect, HouseReconnectFailed
    <2>2. s \in Sock /\ s # ServerSock /\ s # sockToRemove
        BY <1>0 DEF ServerOpen, Listed
    <2>3. ServerOpen'
        BY <1>0, <2>1, <2>2 DEF Reconnecting, ServerOpen, TypeOK
    <2>4. Listed'
        BY <1>0, <2>1, <2>2 DEF Reconnecting, Listed, TypeOK
    <2> QED
        BY <2>3, <2>4
<1> QED
    BY <1>1, <1>2 DEF House

\* The configuration of a process never changes.
LEMMA ConfFixed ==
    ASSUME [Next]_vars
    PROVE  conf' = conf
<1> USE DEF ctxVars, loopVars, vars
<1>1. CASE WaitForEvent
    BY <1>1 DEF WaitForEvent, WaitRemove, WaitDoubleFree, WaitClose, WaitRead,
                WaitAccept, WaitFlush, WaitSelect, WaitSelectFreed,
                WaitAcceptNone, WaitAcceptError
<1>2. CASE HandleClose \/ HandleRead
    BY <1>2 DEF HandleClose, CloseRelay, CloseListen, CloseListenDangling,
                CloseListenOut, ClosePlain, HandleRead, ReadUnpaired, ReadRelay,
                ReadListenOut, ReadListen, ReadOtpBridge, ReadOtpRL
<1>3. CASE HandleNew
    BY <1>3 DEF HandleNew, NewDestroyed, NewConnectFailed, NewDestroyedFreed,
                NewConnect, NewListen, NewConnectWait, NewListenConnect
<1>4. CASE House \/ WriteHangs \/ WriteKills \/ Terminated \/ UNCHANGED vars
    BY <1>4 DEF House, HouseKeeping, HouseReconnect, HouseReconnectFailed,
                Reconnecting, WriteHangs, WriteKills, Terminated
<1> QED
    BY <1>1, <1>2, <1>3, <1>4 DEF Next, Step

\* So the server outlives every step.
LEMMA ServerStep ==
    ASSUME Inv, ServerInv, [Next]_vars
    PROVE  ServerInv'
<1> SUFFICES ASSUME SafeServer' PROVE ServerOpen' /\ Listed'
    BY DEF ServerInv
<1>1. SafeServer /\ ServerOpen /\ Listed
    BY ConfFixed DEF ServerInv, SafeServer, HasServer, AcceptMayFail
<1>2. CASE WriteHangs \/ WriteKills \/ Terminated \/ UNCHANGED vars
    BY <1>1, <1>2, ServerFrame DEF WriteHangs, WriteKills, Terminated, vars,
           sockVars, hnVars, loopVars
<1> QED
    BY <1>1, <1>2, ServerWait, ServerClose, ServerRead, ServerNew, ServerHouse
       DEF Next, Step

\* While the server stays open waitForEvent never hands select the descriptor
\* of a freed Socket, and never frees a Socket that it keeps in its list.
THEOREM NoneFreedWatched == Spec => []NoFreedListed
<1>1. ServerInv => NoFreedListed
    BY DEF ServerInv, SafeServer, Listed, NoFreedListed
<1> QED
    BY <1>1, InitServer, ServerStep, InitInv, NextInv, PTL DEF Spec

(***************************************************************************)
(* One remote listener                                                     *)
(***************************************************************************)

\* The LISTEN_OUT Socket of the list is rlSock.  Between handleClose, which
\* resets rlSock, and the next waitForEvent the list also holds the one that
\* was just closed: houseKeeping may have reconnected by then.
OneRL ==
    /\ rlSock # NULL => rlSock \in sockList /\ mode[rlSock] = "listenOut"
    /\ rlSock # NULL /\ event # "close" => rlSock # sockToRemove
    /\ \A s \in sockList : mode[s] = "listenOut" /\ s # rlSock =>
           s = sockToRemove /\ event # "close"

\* What is inductive about the remote listener.
RLInv == SafeServer /\ Mode = "bridge" => OneRL

\* There is at most one at the start.
LEMMA InitRL == Init => RLInv
BY SockAssumption DEF Init, RLInv, OneRL, SafeServer, HasServer, UseRL, Mode, InitSocks

\* A step that adds no LISTEN_OUT Socket, removes none, and does not come from
\* the close of one.
LEMMA RLFrame ==
    ASSUME OneRL, UNCHANGED <<rlSock, sockToRemove>>, sockList \subseteq sockList',
           \A s \in sockList : mode'[s] = "listenOut" <=> mode[s] = "listenOut",
           \A s \in sockList' \ sockList : mode'[s] # "listenOut",
           event # "close" => event' # "close",
           event = "close" => event' = "close" \/ rlSock # sockToRemove
    PROVE  OneRL'
BY DEF OneRL

\* waitForNetworkEvent makes none.
LEMMA RLWait ==
    ASSUME Inv, SafeServer, ServerOpen, Listed, OneRL, WaitForEvent
    PROVE  OneRL'
<1> USE SockAssumption DEF Running, Waiting, Selecting, Accepting, Free,
        sockVars, hnVars, ctxVars, loopVars
<1>0. TypeOK /\ LoopInv
    BY DEF Inv
<1>1. CASE WaitRemove
    <2>1. list_remove(sockToRemove) = sockList \ {sockToRemove}
        BY DEF list_remove, Bottom, SafeServer, ServerOpen
    <2> QED
        BY <1>0, <1>1, <2>1 DEF WaitRemove, OneRL
<1>2. ASSUME NEW s \in Sock, WaitClose(s) PROVE OneRL'
    BY <1>0, <1>2 DEF WaitClose, OneRL, TypeOK
<1>3. ASSUME NEW s \in Sock, WaitAccept(s) PROVE OneRL'
    <2>1. s \notin sockList
        BY <1>3 DEF WaitAccept, Listed
    <2> QED
        BY <1>0, <1>3, <2>1, RLFrame DEF WaitAccept, TypeOK
<1>4. CASE \/ WaitDoubleFree \/ WaitSelectFreed \/ WaitAcceptNone \/ WaitAcceptError
           \/ \E s \in Sock : WaitFlush(s) \/ WaitRead(s)
           \/ \E R \in SUBSET sockList : WaitSelect(R)
    BY <1>4, RLFrame DEF WaitDoubleFree, WaitSelectFreed, WaitAcceptNone,
           WaitAcceptError, WaitFlush, WaitRead, WaitSelect
<1> QED
    BY <1>1, <1>2, <1>3, <1>4 DEF WaitForEvent

\* A close only takes it away.
LEMMA RLClose ==
    ASSUME Inv, Listed, OneRL, Mode = "bridge", HandleClose
    PROVE  OneRL'
<1> USE SockAssumption DEF Running, ToHouseKeeping, sockVars, hnVars, ctxVars, loopVars
<1>0. TypeOK /\ event = "close" /\ sel \in Sock /\ sockToRemove = sel /\ sel \in sockList
    BY DEF Inv, LoopInv, Listed, HandleClose, CloseRelay, CloseListen,
           CloseListenDangling, CloseListenOut, ClosePlain
<1>1. CASE CloseRelay \/ CloseListen
    <2>1. /\ mode[sel] \in {"relay", "listen"} /\ FreeHn(sel)
          /\ UNCHANGED <<rlSock, sockList, sockToRemove>>
        BY <1>1 DEF CloseRelay, CloseListen
    <2>2. rlSock # sel
        BY <1>0, <2>1 DEF OneRL
    <2>3. \A s \in sockList : mode'[s] = "listenOut" <=> mode[s] = "listenOut"
        BY <1>0, <2>1 DEF FreeHn, TypeOK
    <2> QED
        BY <1>0, <2>1, <2>2, <2>3, RLFrame
<1>2. CASE CloseListenOut
    <2>1. rlSock' = NULL /\ event' = "house" /\ UNCHANGED <<mode, sockList, sockToRemove>>
        BY <1>2 DEF CloseListenOut
    <2>2. rlSock = sel
        BY <1>0, <1>2 DEF CloseListenOut, OneRL
    <2> QED
        BY <1>0, <2>1, <2>2 DEF OneRL
<1>3. CASE ClosePlain
    <2>1. rlSock # sel
        BY <1>0, <1>3 DEF ClosePlain, OneRL
    <2> QED
        BY <1>0, <1>3, <2>1, RLFrame DEF ClosePlain
<1>4. CASE CloseListenDangling
    BY <1>4, RLFrame DEF CloseListenDangling
<1> QED
    BY <1>1, <1>2, <1>3, <1>4 DEF HandleClose

\* A read makes none.
LEMMA RLRead ==
    ASSUME Inv, Listed, OneRL, Mode = "bridge", HandleRead
    PROVE  OneRL'
<1> USE DEF Running, ToHouseKeeping, Free, hnVars, ctxVars
<1>1. CASE ReadUnpaired \/ ReadRelay \/ ReadListenOut \/ ReadListen
    BY <1>1, RLFrame DEF ReadUnpaired, ReadRelay, ReadListenOut, ReadListen
<1>2. ASSUME NEW s \in Free, ReadOtpBridge(s) PROVE OneRL'
    <2>1. s \notin sockList
        BY DEF Listed
    <2> QED
        BY <1>2, <2>1, RLFrame DEF ReadOtpBridge, Inv, TypeOK
<1>3. ASSUME NEW s \in Free, NEW n \in Free, ReadOtpRL(s, n) PROVE OneRL'
    BY <1>3 DEF ReadOtpRL
<1> QED
    BY <1>1, <1>2, <1>3 DEF HandleRead

\* A new session is no remote listener.
LEMMA RLNew ==
    ASSUME Inv, Listed, OneRL, HandleNew
    PROVE  OneRL'
<1> USE SockAssumption DEF Running, ToHouseKeeping, Free, sockVars, hnVars, ctxVars,
        loopVars
<1>0. TypeOK /\ event = "new" /\ sel \in Sock /\ sel \notin sockList
    BY DEF Inv, LoopInv, Listed, HandleNew, NewDestroyed, NewConnectFailed,
           NewDestroyedFreed, NewConnect, NewListen, NewConnectWait, NewListenConnect
<1>1. CASE NewDestroyed \/ NewConnectFailed \/ NewDestroyedFreed
    BY <1>0, <1>1, RLFrame DEF NewDestroyed, NewConnectFailed, NewDestroyedFreed, TypeOK
<1>2. ASSUME NEW n \in Free, NewConnect(n) PROVE OneRL'
    <2>1. n \in Sock /\ n \notin sockList
        BY DEF Listed
    <2> QED
        BY <1>0, <1>2, <2>1, RLFrame DEF NewConnect, Pair, hn_sockInit, TypeOK
<1>3. ASSUME NEW i \in ListenId, NewListen(i) PROVE OneRL'
    BY <1>0, <1>3, RLFrame DEF NewListen, hn_sockInit, TypeOK
<1>4. ASSUME NEW i \in ListenId, NEW o \in Otp, NewConnectWait(i, o) PROVE OneRL'
    BY <1>0, <1>4, RLFrame DEF NewConnectWait, hn_sockInit, TypeOK
<1>5. ASSUME NEW i \in ListenId, NEW o \in Otp, NewListenConnect(i, o) PROVE OneRL'
    <2> DEFINE w == getWaitingSocket(i, o)
    <2>1. w \in Sock /\ mode[w] = "relay"
        BY <1>0, <1>5 DEF NewListenConnect, Inv, WaitingSound, TypeOK
    <2> QED
        BY <1>0, <1>5, <2>1, RLFrame DEF NewListenConnect, Pair, hn_sockInit, TypeOK
<1> QED
    BY <1>1, <1>2, <1>3, <1>4, <1>5 DEF HandleNew

\* HouseKeeping makes one only when the context has none.
LEMMA RLHouse ==
    ASSUME Inv, Listed, OneRL, House
    PROVE  OneRL'
<1> USE SockAssumption DEF Running, Free, hnVars, ctxVars
<1>1. CASE HouseKeeping
    BY <1>1, RLFrame DEF HouseKeeping
<1>2. ASSUME NEW s \in Free, HouseReconnect(s) \/ HouseReconnectFailed(s)
      PROVE  OneRL'
    <2>1. Reconnecting(s)
        BY <1>2 DEF HouseReconnect, HouseReconnectFailed
    <2>2. s \in Sock /\ s \notin sockList /\ s # sockToRemove
        BY DEF Listed, Inv, TypeOK
    <2>3. /\ mode'[s] = "listenOut" /\ \A t \in sockList : mode'[t] = mode[t]
          /\ rlSock = NULL /\ event' = "none" /\ sockToRemove' = sockToRemove
        BY <2>1, <2>2 DEF Reconnecting, Inv, TypeOK
    <2>4. \/ rlSock' = s /\ sockList' = sockList \cup {s}
          \/ UNCHANGED <<rlSock, sockList>>
        BY <1>2 DEF HouseReconnect, HouseReconnectFailed
    <2>5. \A t \in sockList : mode[t] = "listenOut" => t = sockToRemove
        BY <2>3 DEF OneRL, Inv, TypeOK
    <2> QED
        BY <2>2, <2>3, <2>4, <2>5 DEF OneRL
<1> QED
    BY <1>1, <1>2 DEF House

\* So there is at most one after every step.
LEMMA RLStep ==
    ASSUME Inv, ServerInv, RLInv, [Next]_vars
    PROVE  RLInv'
<1> SUFFICES ASSUME SafeServer', Mode' = "bridge" PROVE OneRL'
    BY DEF RLInv
<1>1. Mode = "bridge" /\ SafeServer /\ ServerOpen /\ Listed /\ OneRL
    BY ConfFixed DEF ServerInv, RLInv, SafeServer, HasServer, AcceptMayFail, Mode
<1>2. CASE WriteHangs \/ WriteKills \/ Terminated \/ UNCHANGED vars
    BY <1>1, <1>2, RLFrame DEF WriteHangs, WriteKills, Terminated, vars, hnVars,
           ctxVars, loopVars
<1> QED
    BY <1>1, <1>2, RLWait, RLClose, RLRead, RLNew, RLHouse DEF Next, Step

\* While the server stays open a bridge watches one open connection to its
\* remote bridge at most, however often houseKeeping reconnects it.
THEOREM OneListenerCorrect == Spec => []OneRemoteListener
<1>1. Inv /\ ServerInv /\ RLInv => OneRemoteListener
    BY SockAssumption DEF ServerInv, RLInv, SafeServer, Listed, OneRL, Inv, TypeOK,
           OneRemoteListener
<1>2. Spec => []ServerInv
    BY InitServer, ServerStep, InitInv, NextInv, PTL DEF Spec
<1> QED
    BY <1>1, <1>2, InitRL, RLStep, Invariance, PTL DEF Spec

(***************************************************************************)
(* Bridge implements Pairing, for every number of Sockets, ids and OTPs    *)
(* and in every mode.  Most handlers are a Turnover of Pairing (one lemma, *)
(* Comes); the four that register, queue or link have a lemma each.  What  *)
(* is needed beyond Inv is PairInv: a Socket with a pending bit is not     *)
(* freed, the one handleNew gets is open and new, the one handleClose gets *)
(* is closed, and a waiting map leads to a client that waits there only.   *)
(***************************************************************************)

\* What waitForEvent knows of the Sockets it is about to hand out.
EventInv ==
    /\ readSet \subseteq alloc
    /\ event = "read" => sel \in alloc
    /\ event = "new" => sel \notin readSet /\ isAlive[sel] = "alive"
    /\ event = "close" => isAlive[sel] = "dead"

\* Every entry of every waiting map, those of a listener that was replaced
\* under its id too, is a client that waits under this OTP, or dangles.
MapInv ==
    /\ \A l \in Sock, o \in Otp : waitingSocks[l][o] \in Sock =>
          mode[waitingSocks[l][o]] = "relay" /\ otp[waitingSocks[l][o]] = o
    /\ \A l, k \in Sock, o \in Otp :
          waitingSocks[l][o] \in Sock /\ waitingSocks[k][o] = waitingSocks[l][o]
              => l = k

PairInv == EventInv /\ MapInv

\* It holds at the start.
LEMMA InitPair == Init => PairInv
BY SockAssumption DEF Init, PairInv, EventInv, MapInv, NoWaiters

\* A step that leaves the maps, the OTPs and the relays alone keeps MapInv.
LEMMA MapFrame ==
    ASSUME TypeOK, MapInv, UNCHANGED waitingSocks,
           \A s \in Sock : mode[s] = "relay" => mode'[s] = "relay" /\ otp'[s] = otp[s]
    PROVE  MapInv'
BY DEF MapInv, TypeOK

\* waitForEvent hands out open, unfreed Sockets.
LEMMA PairWait ==
    ASSUME Inv, PairInv, WaitForEvent
    PROVE  PairInv'
<1> USE SockAssumption DEF Inv, PairInv, Running, Waiting, Selecting, Accepting, Free,
        sockVars, hnVars, ctxVars, loopVars
<1>1. CASE WaitRemove
    BY <1>1, MapFrame DEF WaitRemove, EventInv, LoopInv, TypeOK
<1>2. ASSUME NEW s \in Sock, WaitClose(s) PROVE PairInv'
    BY <1>2, MapFrame DEF WaitClose, EventInv, TypeOK
<1>3. ASSUME NEW s \in Sock, WaitRead(s) PROVE PairInv'
    BY <1>3, MapFrame DEF WaitRead, EventInv
<1>4. ASSUME NEW s \in Sock, WaitAccept(s) PROVE PairInv'
    <2>1. EventInv'
        BY <1>4 DEF WaitAccept, EventInv, TypeOK
    <2>2. MapInv'
        BY <1>4, MapFrame DEF WaitAccept, TypeOK, HnInv, Linked
    <2> QED
        BY <2>1, <2>2
<1>5. ASSUME NEW R \in SUBSET sockList, WaitSelect(R) PROVE PairInv'
    BY <1>5, MapFrame DEF WaitSelect, EventInv
<1>6. CASE WaitAcceptNone \/ WaitAcceptError
    BY <1>6, MapFrame DEF WaitAcceptNone, WaitAcceptError, EventInv
<1>7. CASE WaitDoubleFree \/ WaitSelectFreed \/ \E s \in Sock : WaitFlush(s)
    BY <1>7, MapFrame DEF WaitDoubleFree, WaitSelectFreed, WaitFlush, EventInv
<1> QED
    BY <1>1, <1>2, <1>3, <1>4, <1>5, <1>6, <1>7 DEF WaitForEvent

\* handleClose leaves an entry of the freed client dangling or removes it.
LEMMA PairClose ==
    ASSUME Inv, PairInv, HandleClose
    PROVE  PairInv'
<1> USE SockAssumption DEF Inv, PairInv, Running, ToHouseKeeping,
        sockVars, hnVars, ctxVars, loopVars
<1>1. CASE CloseRelay
    <2>1. sel \in Sock /\ EventInv'
        BY <1>1 DEF CloseRelay, EventInv, LoopInv
    <2>2. \A l \in Sock, o \in Otp : waitingSocks'[l][o] \in Sock =>
              waitingSocks'[l][o] = waitingSocks[l][o] /\ waitingSocks[l][o] # sel
        BY <1>1 DEF CloseRelay, Dangled, removeWaitingSocket, TypeOK
    <2>3. \A s \in Sock \ {sel} : mode'[s] = mode[s] /\ otp'[s] = otp[s]
        BY <1>1 DEF CloseRelay, FreeHn, TypeOK
    <2> QED
        BY <2>1, <2>2, <2>3 DEF MapInv, TypeOK
<1>2. CASE CloseListen
    <2>1. sel \in Sock /\ EventInv'
        BY <1>2 DEF CloseListen, EventInv, LoopInv
    <2>2. \A l \in Sock, o \in Otp : waitingSocks'[l][o] \in Sock =>
              waitingSocks'[l][o] = waitingSocks[l][o]
        BY <1>2, <2>1 DEF CloseListen, NoWaiters, TypeOK
    <2>3. \A s \in Sock : mode[s] = "relay" => mode'[s] = "relay" /\ otp'[s] = otp[s]
        BY <1>2, <2>1 DEF CloseListen, FreeHn, TypeOK
    <2> QED
        BY <2>1, <2>2, <2>3 DEF MapInv, TypeOK
<1>3. CASE CloseListenOut \/ ClosePlain
    BY <1>3, MapFrame DEF CloseListenOut, ClosePlain, EventInv
<1>4. CASE CloseListenDangling
    BY <1>4, MapFrame DEF CloseListenDangling, EventInv
<1> QED
    BY <1>1, <1>2, <1>3, <1>4 DEF HandleClose

\* handleRead hands handleNew a Socket it has just opened.
LEMMA PairRead ==
    ASSUME Inv, PairInv, HandleRead
    PROVE  PairInv'
<1> USE SockAssumption DEF Inv, PairInv, Running, ToHouseKeeping, Free,
        sockVars, hnVars, ctxVars, loopVars
<1>1. CASE ReadUnpaired \/ ReadRelay \/ ReadListenOut \/ ReadListen
    BY <1>1, MapFrame DEF ReadUnpaired, ReadRelay, ReadListenOut, ReadListen, EventInv
<1>2. ASSUME NEW s \in Free, ReadOtpBridge(s) PROVE PairInv'
    <2>1. s \in Sock /\ s # sel /\ mode[s] # "relay"
        BY <1>2 DEF ReadOtpBridge, EventInv, HnInv, Linked
    <2>2. isAlive'[s] = "alive"
        BY <1>2, <2>1 DEF ReadOtpBridge, TypeOK
    <2>3. EventInv'
        BY <1>2, <2>1, <2>2 DEF ReadOtpBridge, EventInv
    <2>4. MapInv'
        BY <1>2, <2>1, MapFrame DEF ReadOtpBridge, TypeOK
    <2> QED
        BY <2>3, <2>4
<1>3. ASSUME NEW s \in Free, NEW n \in Free, ReadOtpRL(s, n) PROVE PairInv'
    <2>1. EventInv'
        BY <1>3 DEF ReadOtpRL, EventInv
    <2>2. MapInv'
        BY <1>3, MapFrame DEF ReadOtpRL, Pair, hn_sockInit, TypeOK
    <2> QED
        BY <2>1, <2>2
<1> QED
    BY <1>1, <1>2, <1>3 DEF HandleRead

\* handleNew queues a new client under a fresh OTP, and takes the client it
\* links out of the only map it is in.
LEMMA PairNew ==
    ASSUME Inv, PairInv, HandleNew
    PROVE  PairInv'
<1> USE SockAssumption DEF Inv, PairInv, Running, ToHouseKeeping, Free,
        sockVars, hnVars, ctxVars, loopVars
<1>0. event = "new" /\ sel \in Sock /\ sel \in alloc /\ mode[sel] \notin Linked
    BY DEF HandleNew, LoopInv, NewDestroyed, NewConnectFailed, NewDestroyedFreed,
           NewConnect, NewListen, NewConnectWait, NewListenConnect
<1>1. CASE NewDestroyed \/ NewConnectFailed
    <2>1. EventInv'
        BY <1>0, <1>1 DEF NewDestroyed, NewConnectFailed, EventInv
    <2>2. MapInv'
        BY <1>0, <1>1, MapFrame DEF NewDestroyed, NewConnectFailed, TypeOK, Linked
    <2> QED
        BY <2>1, <2>2
<1>2. CASE NewDestroyedFreed
    BY <1>2, MapFrame DEF NewDestroyedFreed, EventInv
<1>3. ASSUME NEW n \in Free, NewConnect(n) PROVE PairInv'
    <2>1. EventInv'
        BY <1>3 DEF NewConnect, EventInv
    <2>2. MapInv'
        BY <1>3, MapFrame DEF NewConnect, Pair, hn_sockInit, TypeOK
    <2> QED
        BY <2>1, <2>2
<1>4. ASSUME NEW i \in ListenId, NewListen(i) PROVE PairInv'
    <2>1. EventInv'
        BY <1>4 DEF NewListen, EventInv
    <2>2. MapInv'
        BY <1>0, <1>4, MapFrame DEF NewListen, hn_sockInit, TypeOK, Linked
    <2> QED
        BY <2>1, <2>2
<1>5. ASSUME NEW i \in ListenId, NEW o \in Otp, NewConnectWait(i, o) PROVE PairInv'
    <2>1. EventInv'
        BY <1>5 DEF NewConnectWait, EventInv
    <2>2. \A l \in Sock, q \in Otp :
              \/ waitingSocks'[l][q] = waitingSocks[l][q]
              \/ l = listeningSocks[i] /\ q = o /\ waitingSocks'[l][q] = sel
        BY <1>5 DEF NewConnectWait, addWaitingSock, TypeOK
    <2>3. \A l \in Sock : waitingSocks[l][o] = NULL
        BY <1>5 DEF NewConnectWait, FreshOtp
    <2>4. \A s \in Sock : s # sel => mode'[s] = mode[s] /\ otp'[s] = otp[s]
        BY <1>5 DEF NewConnectWait, hn_sockInit, TypeOK
    <2>5. mode'[sel] = "relay" /\ otp'[sel] = o
        BY <1>0, <1>5 DEF NewConnectWait, hn_sockInit, TypeOK
    <2>6. \A l \in Sock, q \in Otp : waitingSocks[l][q] # sel
        BY <1>0 DEF MapInv, Linked
    <2>7. ASSUME NEW l \in Sock, NEW q \in Otp, waitingSocks'[l][q] \in Sock
          PROVE  mode'[waitingSocks'[l][q]] = "relay" /\ otp'[waitingSocks'[l][q]] = q
        BY <2>2, <2>4, <2>5, <2>6, <2>7 DEF MapInv
    <2>8. ASSUME NEW l \in Sock, NEW k \in Sock, NEW q \in Otp,
                 waitingSocks'[l][q] \in Sock, waitingSocks'[k][q] = waitingSocks'[l][q]
          PROVE  l = k
        BY <1>0, <2>2, <2>3, <2>6, <2>8 DEF MapInv
    <2>9. MapInv'
        BY <2>7, <2>8 DEF MapInv
    <2> QED
        BY <2>1, <2>9
<1>6. ASSUME NEW i \in ListenId, NEW o \in Otp, NewListenConnect(i, o) PROVE PairInv'
    <2> DEFINE w == getWaitingSocket(i, o)
               l == listeningSocks[i]
    <2>1. EventInv'
        BY <1>6 DEF NewListenConnect, EventInv
    <2>2. l \in Sock /\ w \in Sock /\ w = waitingSocks[l][o] /\ otp[w] = o /\ w # NULL
        BY <1>6 DEF NewListenConnect, WaitingSound, getWaitingSocket, TypeOK
    <2>3. \A k \in Sock, q \in Otp :
              \/ waitingSocks'[k][q] = waitingSocks[k][q] /\ ~(k = l /\ q = o)
              \/ waitingSocks'[k][q] = NULL
        BY <1>6, <2>2 DEF NewListenConnect, removeWaitingSocket, TypeOK
    <2>4. \A s \in Sock : mode[s] = "relay" => mode'[s] = "relay"
        BY <1>6 DEF NewListenConnect, Pair, hn_sockInit, TypeOK
    <2>5. \A s \in Sock : s # w => otp'[s] = otp[s]
        BY <1>6, <2>2 DEF NewListenConnect, TypeOK
    <2> HIDE DEF w, l
    <2>6. \A k \in Sock, q \in Otp : waitingSocks'[k][q] \in Sock =>
              waitingSocks'[k][q] = waitingSocks[k][q] /\ waitingSocks'[k][q] # w
        BY <2>2, <2>3 DEF MapInv
    <2>7. MapInv'
        BY <2>4, <2>5, <2>6 DEF MapInv
    <2> QED
        BY <2>1, <2>7
<1> QED
    BY <1>1, <1>2, <1>3, <1>4, <1>5, <1>6 DEF HandleNew

\* Every step keeps PairInv.
LEMMA PairStepInv ==
    ASSUME Inv, PairInv, [Next]_vars
    PROVE  PairInv'
<1> USE DEF sockVars, hnVars, ctxVars, loopVars
<1>1. CASE House
    <2>1. TypeOK /\ HnInv /\ MapInv
        BY DEF Inv, PairInv
    <2>2. CASE HouseKeeping
        BY <2>1, <2>2, MapFrame DEF HouseKeeping, Running, PairInv, EventInv
    <2>3. ASSUME NEW s \in Free, Reconnecting(s) PROVE PairInv'
        <3>1. EventInv'
            BY <2>3 DEF Reconnecting, Running, PairInv, EventInv
        <3>2. MapInv'
            BY <2>1, <2>3, MapFrame DEF Reconnecting, TypeOK, HnInv, Linked, Free
        <3> QED
            BY <3>1, <3>2 DEF PairInv
    <2> QED
        BY <1>1, <2>2, <2>3 DEF House, HouseReconnect, HouseReconnectFailed
<1>2. CASE WriteHangs \/ WriteKills \/ Terminated \/ UNCHANGED vars
    BY <1>2, MapFrame DEF WriteHangs, WriteKills, Terminated, vars, Inv, PairInv, EventInv
<1> QED
    BY <1>1, <1>2, PairWait, PairClose, PairRead, PairNew DEF Next, Step

(***************************************************************************)
(* The steps as steps of Pairing                                           *)
(***************************************************************************)

\* The three state functions that Pairing sees, in the next state.
LEMMA Mapped ==
    /\ OpenSocks' = {s \in alloc' : isAlive'[s] = "alive"}
    /\ Waiters' = {w \in [listener : Sock, otp : Otp, client : Sock] :
                      waitingSocks'[w.listener][w.otp] = w.client}
    /\ Relays' = {p \in Sock \X Sock :
                     p[1] \in OpenSocks' /\ mode'[p[1]] = "relay" /\ next'[p[1]] = p[2]}
BY DEF OpenSocks, Waiters, Relays

\* A Socket that is neither a relay nor a listener is idle: no relay, no
\* waiting map and no id leads to it.
LEMMA NotLinkedIdle ==
    ASSUME Inv, PairInv, NEW s \in Sock, mode[s] \notin Linked
    PROVE  P!Idle(s)
<1> USE SockAssumption DEF Inv, PairInv, Linked
<1>1. \A p \in Relays : s # p[1] /\ s # p[2]
    BY DEF Relays, OpenSocks, RelayPartner
<1>2. \A w \in Waiters : s # w.client /\ s # w.listener
    <2> SUFFICES ASSUME NEW w \in Waiters PROVE s # w.client /\ s # w.listener
        OBVIOUS
    <2>1. /\ w.listener \in Sock /\ w.otp \in Otp /\ w.client \in Sock
          /\ waitingSocks[w.listener][w.otp] = w.client
        BY DEF Waiters
    <2> QED
        BY <2>1 DEF MapInv, HnInv
<1>3. \A i \in ListenId : s # listeningSocks[i]
    BY DEF ListeningSound
<1> QED
    BY <1>1, <1>2, <1>3 DEF P!Idle

\* An address malloc may give out is idle.
LEMMA FreeIdle ==
    ASSUME Inv, PairInv, NEW s \in Sock, s \notin alloc
    PROVE  P!Idle(s)
BY NotLinkedIdle DEF Inv, HnInv, Linked

\* Steps that only let connections come and go: what opens was not allocated,
\* an open Socket keeps its relay, and an entry of a waiting map is dropped
\* only for a client that is closed.
LEMMA Comes ==
    ASSUME Inv, PairInv, TypeOK',
           \A s \in OpenSocks' : s \in OpenSocks \/ s \notin alloc,
           \A s \in OpenSocks' : mode'[s] = "relay" <=> mode[s] = "relay",
           \A s \in OpenSocks' : mode[s] = "relay" => next'[s] = next[s] /\ s \in alloc,
           \A l \in Sock, o \in Otp :
              \/ waitingSocks'[l][o] = waitingSocks[l][o]
              \/ waitingSocks'[l][o] \notin Sock /\ waitingSocks[l][o] \notin OpenSocks',
           \A i \in ListenId : listeningSocks'[i] \in {listeningSocks[i], NULL}
    PROVE  P!Next
<1>0. OpenSocks' \subseteq Sock
    BY Mapped DEF TypeOK
<1>1. P!Churn
    <2>1. \A s \in OpenSocks' \ OpenSocks : P!Idle(s)
        BY <1>0, FreeIdle
    <2> QED
        BY <1>0, <2>1 DEF P!Churn
<1>2. Waiters' \subseteq Waiters /\ \A w \in Waiters \ Waiters' : w.client \notin OpenSocks'
    BY Mapped DEF Waiters
<1>3. P!Link({})
    <2>1. \A s \in OpenSocks' : mode[s] = "relay" => s \in OpenSocks
        OBVIOUS
    <2>2. Relays' = {p \in Relays : p[1] \in OpenSocks'}
        BY <1>0, <2>1, Mapped DEF Relays
    <2> QED
        BY <2>2 DEF P!Link
<1>4. listeningSocks' \in [ListenId -> Sock \cup {NULL}]
    BY DEF TypeOK
<1> QED
    BY <1>1, <1>2, <1>3, <1>4 DEF P!Next, P!Turnover

\* waitForEvent opens accepted Sockets and closes, frees and hands out others.
LEMMA WaitRefines ==
    ASSUME Inv, PairInv, TypeOK', WaitForEvent
    PROVE  P!Next
<1> USE DEF Running, Waiting, Selecting, Accepting, Free,
        sockVars, hnVars, ctxVars, loopVars
<1>0. TypeOK /\ HnInv
    BY DEF Inv
<1>1. ASSUME NEW s \in Sock, WaitAccept(s) PROVE P!Next
    <2>1. mode[s] # "relay" /\ mode'[s] = "none" /\ s \notin alloc
        BY <1>0, <1>1 DEF WaitAccept, TypeOK, HnInv, Linked
    <2>2. /\ \A t \in OpenSocks' : t \in OpenSocks \/ t \notin alloc
          /\ \A t \in OpenSocks' : mode'[t] = "relay" <=> mode[t] = "relay"
          /\ \A t \in OpenSocks' : mode[t] = "relay" => next'[t] = next[t] /\ t \in alloc
        BY <1>0, <1>1, <2>1, Mapped DEF WaitAccept, OpenSocks, TypeOK
    <2>3. UNCHANGED <<waitingSocks, listeningSocks>>
        BY <1>1 DEF WaitAccept
    <2> QED
        BY <2>2, <2>3, Comes
<1>2. ASSUME UNCHANGED <<mode, next, waitingSocks, listeningSocks>>,
             \A s \in OpenSocks' : s \in OpenSocks
      PROVE  P!Next
    <2>1. \A s \in OpenSocks' : s \in alloc
        BY <1>2 DEF OpenSocks
    <2> QED
        BY <1>2, <2>1, Comes
<1>3. CASE WaitRemove
    BY <1>2, <1>3, Mapped DEF WaitRemove, OpenSocks
<1>4. ASSUME NEW s \in Sock, WaitClose(s) PROVE P!Next
    BY <1>0, <1>2, <1>4, Mapped DEF WaitClose, OpenSocks, TypeOK
<1>5. CASE WaitAcceptError
    BY <1>0, <1>2, <1>5, Mapped DEF WaitAcceptError, OpenSocks, TypeOK
<1>6. ASSUME UNCHANGED <<alloc, isAlive, mode, next, waitingSocks, listeningSocks>>
      PROVE  P!Next
    BY <1>2, <1>6, Mapped DEF OpenSocks
<1> QED
    BY <1>1, <1>3, <1>4, <1>5, <1>6 DEF WaitForEvent, WaitDoubleFree, WaitRead, WaitFlush,
       WaitSelect, WaitSelectFreed, WaitAcceptNone

\* sock_done opens nothing, and closes what it is called on.
LEMMA DoneCloses ==
    ASSUME TypeOK, NEW S, isAlive' = sock_done(S)
    PROVE  \A s \in Sock : isAlive'[s] = "alive" => isAlive[s] = "alive" /\ s \notin S
BY DEF sock_done, TypeOK

\* handleClose releases the partner of a relay and the clients of a listener.
LEMMA CloseRefines ==
    ASSUME Inv, PairInv, TypeOK', HandleClose
    PROVE  P!Next
<1> USE SockAssumption DEF Running, ToHouseKeeping, sockVars, hnVars, ctxVars, loopVars
<1>0. TypeOK /\ HnInv /\ MapInv /\ WaitingSound /\ RelayPartner /\ EventInv /\ LoopInv
    BY DEF Inv, PairInv
<1>1. CASE CloseRelay
    <2>1. sel \in Sock /\ isAlive[sel] = "dead" /\ alloc' = alloc
        BY <1>0, <1>1 DEF CloseRelay, EventInv, LoopInv
    <2>2. \A s \in Sock : isAlive'[s] = "alive" => isAlive[s] = "alive"
        BY <1>0, <1>1, DoneCloses DEF CloseRelay
    <2>3. sel \notin OpenSocks' /\ \A s \in OpenSocks' : s \in OpenSocks /\ s \in alloc
        BY <1>0, <2>1, <2>2, Mapped DEF OpenSocks, TypeOK
    <2>4. \A s \in Sock \ {sel} : mode'[s] = mode[s] /\ next'[s] = next[s]
        BY <1>1 DEF CloseRelay, FreeHn, TypeOK
    <2>5. /\ \A s \in OpenSocks' : mode'[s] = "relay" <=> mode[s] = "relay"
          /\ \A s \in OpenSocks' : mode[s] = "relay" => next'[s] = next[s] /\ s \in alloc
        BY <1>0, <2>3, <2>4 DEF TypeOK
    <2>6. ASSUME NEW l \in Sock, NEW o \in Otp, waitingSocks'[l][o] # waitingSocks[l][o]
          PROVE  waitingSocks'[l][o] \notin Sock /\ waitingSocks[l][o] \in {sel, NULL}
        <3>1. CASE listenId[sel] # NULL /\ otp[sel] = o /\ l = listeningSocks[listenId[sel]]
            <4>1. waitingSocks'[l][o] \in {NULL, Dangling}
                BY <1>0, <1>1, <3>1 DEF CloseRelay, Dangled, removeWaitingSocket, TypeOK
            <4>2. waitingSocks[l][o] = getWaitingSocket(listenId[sel], o)
                BY <1>0, <2>1, <3>1 DEF getWaitingSocket, TypeOK
            <4>3. listenId[sel] \in ListenId
                BY <1>0, <2>1, <3>1 DEF TypeOK
            <4>4. waitingSocks[l][o] # NULL =>
                      waitingSocks[l][o] \in Sock /\ otp[waitingSocks[l][o]] = o
                BY <1>0, <4>2, <4>3 DEF WaitingSound, TypeOK
            <4> QED
                BY <1>0, <2>1, <3>1, <4>1, <4>4 DEF HnInv
        <3>2. CASE ~(listenId[sel] # NULL /\ otp[sel] = o /\ l = listeningSocks[listenId[sel]])
            <4>1. waitingSocks'[l][o] = IF waitingSocks[l][o] = sel THEN Dangling
                                        ELSE waitingSocks[l][o]
                BY <1>0, <1>1, <3>2 DEF CloseRelay, Dangled, removeWaitingSocket, TypeOK
            <4> QED
                BY <2>6, <4>1
        <3> QED
            BY <3>1, <3>2
    <2>7. NULL \notin OpenSocks'
        BY Mapped DEF TypeOK
    <2>8. UNCHANGED listeningSocks
        BY <1>1 DEF CloseRelay
    <2> QED
        BY <2>3, <2>5, <2>6, <2>7, <2>8, Comes
<1>2. CASE CloseListen
    <2>1. sel \in Sock /\ isAlive[sel] = "dead" /\ alloc' = alloc
        BY <1>0, <1>2 DEF CloseListen, EventInv, LoopInv
    <2>2. \A s \in Sock : isAlive'[s] = "alive" =>
              isAlive[s] = "alive" /\ s \notin ListenTargets(sel)
        BY <1>0, <1>2, DoneCloses DEF CloseListen
    <2>3. sel \notin OpenSocks' /\ \A s \in OpenSocks' : s \in OpenSocks /\ s \in alloc
        BY <1>0, <2>1, <2>2, Mapped DEF OpenSocks, TypeOK
    <2>4. \A s \in Sock \ {sel} : mode'[s] = mode[s] /\ next'[s] = next[s]
        BY <1>2 DEF CloseListen, FreeHn, TypeOK
    <2>5. /\ \A s \in OpenSocks' : mode'[s] = "relay" <=> mode[s] = "relay"
          /\ \A s \in OpenSocks' : mode[s] = "relay" => next'[s] = next[s] /\ s \in alloc
        BY <1>0, <2>3, <2>4 DEF TypeOK
    <2>6. \A l \in Sock, o \in Otp :
              \/ waitingSocks'[l][o] = waitingSocks[l][o]
              \/ l = sel /\ waitingSocks'[l][o] = NULL
        BY <1>0, <1>2 DEF CloseListen, NoWaiters, TypeOK
    <2>7. ASSUME NEW o \in Otp PROVE waitingSocks[sel][o] \notin OpenSocks'
        <3>1. waitingSocks[sel][o] \in Sock => waitingSocks[sel][o] \in ListenTargets(sel)
            BY DEF ListenTargets
        <3> QED
            BY <2>2, <3>1, Mapped DEF TypeOK
    <2>8. \A i \in ListenId : listeningSocks'[i] \in {listeningSocks[i], NULL}
        BY <1>0, <1>2 DEF CloseListen, unregister, TypeOK
    <2> QED
        BY <2>3, <2>5, <2>6, <2>7, <2>8, Comes
<1>3. ASSUME UNCHANGED <<alloc, isAlive, mode, next, waitingSocks, listeningSocks>>
      PROVE  P!Next
    BY <1>3, Mapped, Comes DEF OpenSocks
<1> QED
    BY <1>1, <1>2, <1>3 DEF HandleClose, CloseListenDangling, CloseListenOut, ClosePlain

\* What both ends of a new relay send reaches the other; the rest stays.
LEMMA PairLinks ==
    ASSUME Inv, PairInv, TypeOK', NEW a \in Sock, NEW b \in Sock, a # b,
           Pair(a, b),
           \A s \in OpenSocks' \ OpenSocks : s \in {a, b} \/ mode[s] # "relay",
           \A p \in Relays : p[1] # a /\ p[1] # b
    PROVE  P!Link(P!Both(a, b))
<1>1. \A s \in Sock : mode'[s] = IF s \in {a, b} THEN "relay" ELSE mode[s]
    BY DEF Pair, hn_sockInit
<1>2. \A s \in Sock : next'[s] = IF s = a THEN b ELSE IF s = b THEN a ELSE next[s]
    BY DEF Pair, Inv, TypeOK
<1>3. Relays' = {p \in Relays \cup {<<a, b>>, <<b, a>>} : p[1] \in OpenSocks'}
    <2>1. ASSUME NEW p \in Sock \X Sock
          PROVE  p \in Relays' <=>
                    p[1] \in OpenSocks' /\ (p \in Relays \/ p = <<a, b>> \/ p = <<b, a>>)
        <3>1. CASE p[1] \in {a, b}
            BY <1>1, <1>2, <3>1, Mapped DEF Relays
        <3>2. CASE p[1] \notin {a, b}
            BY <1>1, <1>2, <3>2, Mapped DEF Relays
        <3> QED
            BY <3>1, <3>2
    <2>2. Relays' \subseteq Sock \X Sock /\ Relays \subseteq Sock \X Sock
        BY Mapped DEF Relays
    <2> QED
        BY <2>1, <2>2
<1> QED
    BY <1>3 DEF P!Link, P!Both

\* handleRead closes Sockets, opens the one it hands to handleNew, or links the
\* two ends of a relay of rl mode.
LEMMA ReadRefines ==
    ASSUME Inv, PairInv, TypeOK', HandleRead
    PROVE  P!Next
<1> USE SockAssumption DEF Running, ToHouseKeeping, Free, sockVars, hnVars, ctxVars, loopVars
<1>0. TypeOK /\ HnInv /\ EventInv
    BY DEF Inv, PairInv
<1>1. CASE ReadUnpaired \/ ReadRelay \/ ReadListenOut \/ ReadListen
    <2>1. UNCHANGED <<alloc, mode, next, waitingSocks, listeningSocks>>
        BY <1>1 DEF ReadUnpaired, ReadRelay, ReadListenOut, ReadListen
    <2>2. \A s \in Sock : isAlive'[s] = "alive" => isAlive[s] = "alive"
        BY <1>0, <1>1, DoneCloses DEF ReadUnpaired, ReadRelay, ReadListenOut, ReadListen,
               sock_read, TypeOK
    <2>3. \A s \in OpenSocks' : s \in OpenSocks /\ s \in alloc
        BY <1>0, <2>1, <2>2, Mapped DEF OpenSocks, TypeOK
    <2> QED
        BY <2>1, <2>3, Comes
<1>2. ASSUME NEW s \in Free, ReadOtpBridge(s) PROVE P!Next
    <2>1. mode[s] # "relay" /\ mode'[s] = "freed" /\ s \notin alloc /\ s \in Sock
        BY <1>0, <1>2 DEF ReadOtpBridge, TypeOK, HnInv, Linked
    <2>2. \A t \in Sock \ {s} : isAlive'[t] = "alive" => isAlive[t] = "alive"
        BY <1>0, <1>2 DEF ReadOtpBridge, TypeOK
    <2>3. /\ \A t \in OpenSocks' : t \in OpenSocks \/ t \notin alloc
          /\ \A t \in OpenSocks' : mode'[t] = "relay" <=> mode[t] = "relay"
          /\ \A t \in OpenSocks' : mode[t] = "relay" => next'[t] = next[t] /\ t \in alloc
        BY <1>0, <1>2, <2>1, <2>2, Mapped DEF ReadOtpBridge, OpenSocks, TypeOK
    <2>4. UNCHANGED <<waitingSocks, listeningSocks>>
        BY <1>2 DEF ReadOtpBridge
    <2> QED
        BY <2>3, <2>4, Comes
<1>3. ASSUME NEW s \in Free, NEW n \in Free, ReadOtpRL(s, n) PROVE P!Next
    <2>1. /\ s \in Sock /\ n \in Sock /\ s # n /\ s \notin alloc /\ n \notin alloc
          /\ sel \in alloc /\ alloc' = alloc \cup {s, n} /\ Pair(s, n)
          /\ UNCHANGED <<waitingSocks, listeningSocks>>
        BY <1>0, <1>3 DEF ReadOtpRL, EventInv
    <2>2. /\ isAlive'[s] = "alive" /\ isAlive'[n] = "alive"
          /\ \A t \in Sock \ {s, n} : isAlive'[t] = "alive" => isAlive[t] = "alive"
        BY <1>0, <1>3, <2>1 DEF ReadOtpRL, TypeOK
    <2>3. /\ s \in OpenSocks' /\ n \in OpenSocks' /\ OpenSocks' \subseteq Sock
          /\ \A t \in OpenSocks' : t \in OpenSocks \/ t \in {s, n}
        BY <1>0, <2>1, <2>2, Mapped DEF OpenSocks, TypeOK
    <2>4. P!Idle(s) /\ P!Idle(n)
        BY <2>1, FreeIdle
    <2>5. P!Churn
        BY <2>3, <2>4 DEF P!Churn
    <2>6. P!Link(P!Both(s, n))
        BY <2>1, <2>3, <2>4, PairLinks DEF P!Idle
    <2>7. Waiters' = Waiters
        BY <2>1, Mapped DEF Waiters
    <2> QED
        BY <2>1, <2>3, <2>4, <2>5, <2>6, <2>7 DEF P!Next, P!Direct
<1> QED
    BY <1>1, <1>2, <1>3 DEF HandleRead

\* handleNew drops the new Socket, registers it, queues it, or links it.
LEMMA NewRefines ==
    ASSUME Inv, PairInv, TypeOK', HandleNew
    PROVE  P!Next
<1> USE SockAssumption DEF Running, ToHouseKeeping, Free, sockVars, hnVars, ctxVars, loopVars
<1>0. TypeOK /\ HnInv /\ EventInv /\ LoopInv /\ WaitingSound /\ MapInv
    BY DEF Inv, PairInv
<1>1. /\ sel \in Sock /\ sel \in alloc /\ mode[sel] \notin Linked
      /\ isAlive[sel] = "alive" /\ sel \in OpenSocks
    BY <1>0 DEF HandleNew, LoopInv, EventInv, NewDestroyed, NewConnectFailed, OpenSocks,
           NewDestroyedFreed, NewConnect, NewListen, NewConnectWait, NewListenConnect
<1>2. P!Idle(sel)
    BY <1>1, NotLinkedIdle
<1>3. CASE NewDestroyed \/ NewConnectFailed
    <2>1. /\ UNCHANGED <<next, waitingSocks, listeningSocks>>
          /\ \A s \in Sock : mode'[s] = "relay" <=> mode[s] = "relay"
        BY <1>0, <1>1, <1>3 DEF NewDestroyed, NewConnectFailed, TypeOK, Linked
    <2>2. \A s \in OpenSocks' : s \in OpenSocks /\ s \in alloc /\ s \in Sock
        BY <1>0, <1>1, <1>3, Mapped DEF NewDestroyed, NewConnectFailed, OpenSocks, TypeOK
    <2> QED
        BY <2>1, <2>2, Comes
<1>4. CASE NewDestroyedFreed
    <2>1. UNCHANGED <<alloc, isAlive, mode, next, waitingSocks, listeningSocks>>
        BY <1>4 DEF NewDestroyedFreed
    <2> QED
        BY <2>1, Mapped, Comes DEF OpenSocks
<1>5. ASSUME NEW n \in Free, NewConnect(n) PROVE P!Next
    <2>1. /\ n \in Sock /\ n \notin alloc /\ n # sel
          /\ alloc' = alloc \cup {n} /\ Pair(sel, n)
          /\ UNCHANGED <<waitingSocks, listeningSocks>>
        BY <1>1, <1>5 DEF NewConnect
    <2>2. \A t \in Sock : isAlive'[t] = IF t = n THEN "alive" ELSE isAlive[t]
        BY <1>0, <1>5 DEF NewConnect, TypeOK
    <2>3. /\ sel \in OpenSocks' /\ n \in OpenSocks' /\ OpenSocks' \subseteq Sock
          /\ \A t \in OpenSocks' : t \in OpenSocks \/ t = n
        BY <1>0, <1>1, <2>1, <2>2, Mapped DEF OpenSocks, TypeOK
    <2>4. P!Idle(n)
        BY <2>1, FreeIdle
    <2>5. P!Churn
        BY <2>3, <2>4 DEF P!Churn
    <2>6. P!Link(P!Both(sel, n))
        BY <1>1, <1>2, <2>1, <2>3, <2>4, PairLinks DEF P!Idle
    <2>7. Waiters' = Waiters
        BY <2>1, Mapped DEF Waiters
    <2> QED
        BY <1>1, <1>2, <2>1, <2>3, <2>4, <2>5, <2>6, <2>7 DEF P!Next, P!Direct
<1>6. ASSUME NEW i \in ListenId, NewListen(i) PROVE P!Next
    <2>1. UNCHANGED <<alloc, isAlive, next, waitingSocks>>
        BY <1>6 DEF NewListen
    <2>2. \A s \in Sock : mode'[s] = "relay" <=> mode[s] = "relay"
        BY <1>0, <1>1, <1>6 DEF NewListen, hn_sockInit, Linked, TypeOK
    <2>3. OpenSocks' = OpenSocks /\ Waiters' = Waiters
        BY <2>1, Mapped DEF OpenSocks, Waiters
    <2>4. Relays' = Relays
        BY <2>1, <2>2, <2>3, Mapped DEF Relays
    <2>5. listeningSocks' = [listeningSocks EXCEPT ![i] = sel]
        BY <1>6 DEF NewListen
    <2> QED
        BY <1>1, <1>2, <2>3, <2>4, <2>5 DEF P!Next, P!Register
<1>7. ASSUME NEW i \in ListenId, NEW o \in Otp, NewConnectWait(i, o) PROVE P!Next
    <2> DEFINE l == listeningSocks[i]
               w == [listener |-> l, otp |-> o, client |-> sel]
    <2>1. /\ l \in Sock /\ l # NULL /\ UNCHANGED <<alloc, isAlive, next, listeningSocks>>
          /\ \A k \in Sock : waitingSocks[k][o] = NULL
        BY <1>0, <1>7 DEF NewConnectWait, FreshOtp, TypeOK
    <2>2. \A s \in Sock \ {sel} : mode'[s] = mode[s]
        BY <1>7 DEF NewConnectWait, hn_sockInit
    <2>3. OpenSocks' = OpenSocks
        BY <2>1, Mapped DEF OpenSocks
    <2>4. next[sel] = NULL
        BY <1>0, <1>1 DEF HnInv, Linked
    <2>5. Relays' = Relays
        <3>1. \A p \in Sock \X Sock : p \in Relays' <=> p \in Relays
            BY <1>1, <2>1, <2>2, <2>3, <2>4, Mapped DEF Relays, Linked
        <3> QED
            BY <3>1, Mapped DEF Relays
    <2>6. \A k \in Sock, q \in Otp :
              waitingSocks'[k][q] = IF k = l /\ q = o THEN sel ELSE waitingSocks[k][q]
        BY <1>0, <1>7 DEF NewConnectWait, addWaitingSock, TypeOK
    <2>7. w \in [listener : Sock, otp : Otp, client : Sock]
        BY <1>1, <2>1
    <2>8. \A v \in Waiters : v.otp # o
        BY <2>1 DEF Waiters
    <2>9. Waiters' = Waiters \cup {w}
        <3>1. ASSUME NEW v \in [listener : Sock, otp : Otp, client : Sock]
              PROVE  v \in Waiters' <=> v \in Waiters \/ v = w
            <4>1. v = w <=> v.listener = l /\ v.otp = o /\ v.client = sel
                OBVIOUS
            <4> HIDE DEF w
            <4>2. /\ v \in Waiters' <=> waitingSocks'[v.listener][v.otp] = v.client
                  /\ v \in Waiters <=> waitingSocks[v.listener][v.otp] = v.client
                BY Mapped DEF Waiters
            <4> QED
                BY <2>1, <2>6, <4>1, <4>2
        <3> HIDE DEF w
        <3> QED
            BY <2>7, <3>1, Mapped DEF Waiters
    <2> QED
        BY <1>1, <1>2, <2>1, <2>3, <2>5, <2>8, <2>9 DEF P!Next, P!Ask
<1>8. ASSUME NEW i \in ListenId, NEW o \in Otp, NewListenConnect(i, o) PROVE P!Next
    <2> DEFINE l == listeningSocks[i]
               c == getWaitingSocket(i, o)
               w == [listener |-> l, otp |-> o, client |-> c]
    <2>1. /\ l \in Sock /\ c \in Sock /\ c = waitingSocks[l][o] /\ mode[c] = "relay"
          /\ otp[c] = o
        BY <1>0, <1>8 DEF NewListenConnect, WaitingSound, getWaitingSocket, TypeOK
    <2>2. UNCHANGED <<alloc, isAlive, listeningSocks>> /\ Pair(sel, c) /\ sel # c
        BY <1>1, <1>8, <2>1 DEF NewListenConnect, Linked
    <2>3. OpenSocks' = OpenSocks
        BY <2>2, Mapped DEF OpenSocks
    <2>4. next[c] = NULL
        BY <1>0, <2>1 DEF HnInv
    <2>5. \A p \in Relays : p[1] # sel /\ p[1] # c
        BY <1>1, <2>4 DEF Relays, Linked
    <2>6. P!Link(P!Both(sel, c))
        BY <1>1, <2>1, <2>2, <2>3, <2>5, PairLinks
    <2>7. \A k \in Sock, q \in Otp :
              waitingSocks'[k][q] = IF k = l /\ q = o THEN NULL ELSE waitingSocks[k][q]
        BY <1>0, <1>8, <2>1 DEF NewListenConnect, removeWaitingSocket, TypeOK
    <2>8. w \in Waiters /\ w.listener = l /\ w.otp = o /\ w.client = c
        BY <2>1 DEF Waiters
    <2>9. Waiters' = Waiters \ {w}
        <3>1. ASSUME NEW v \in [listener : Sock, otp : Otp, client : Sock]
              PROVE  v \in Waiters' <=> v \in Waiters /\ v # w
            <4>1. v = w <=> v.listener = l /\ v.otp = o /\ v.client = c
                OBVIOUS
            <4> HIDE DEF w, c, l
            <4>2. /\ v \in Waiters' <=> waitingSocks'[v.listener][v.otp] = v.client
                  /\ v \in Waiters <=> waitingSocks[v.listener][v.otp] = v.client
                BY Mapped DEF Waiters
            <4> QED
                BY <2>1, <2>7, <4>1, <4>2
        <3> HIDE DEF w
        <3> QED
            BY <2>8, <3>1, Mapped DEF Waiters
    <2> HIDE DEF w, c
    <2>10. P!Claim(sel, i, o)
        BY <1>1, <1>2, <2>2, <2>3, <2>6, <2>8, <2>9 DEF P!Claim
    <2> QED
        BY <1>1, <2>10 DEF P!Next
<1> QED
    BY <1>3, <1>4, <1>5, <1>6, <1>7, <1>8 DEF HandleNew

\* houseKeeping may open the remote listener again.
LEMMA HouseRefines ==
    ASSUME Inv, PairInv, TypeOK', House
    PROVE  P!Next
<1> USE DEF Free, hnVars, ctxVars
<1>0. TypeOK /\ HnInv
    BY DEF Inv
<1>1. CASE HouseKeeping
    <2>1. UNCHANGED <<alloc, isAlive, mode, next, waitingSocks, listeningSocks>>
        BY <1>1 DEF HouseKeeping
    <2> QED
        BY <2>1, Mapped, Comes DEF OpenSocks
<1>2. ASSUME NEW s \in Free, Reconnecting(s) PROVE P!Next
    <2>1. mode[s] # "relay" /\ mode'[s] = "listenOut" /\ s \notin alloc /\ s \in Sock
        BY <1>0, <1>2 DEF Reconnecting, TypeOK, HnInv, Linked
    <2>2. /\ \A t \in OpenSocks' : t \in OpenSocks \/ t \notin alloc
          /\ \A t \in OpenSocks' : mode'[t] = "relay" <=> mode[t] = "relay"
          /\ \A t \in OpenSocks' : mode[t] = "relay" => next'[t] = next[t] /\ t \in alloc
        BY <1>0, <1>2, <2>1, Mapped DEF Reconnecting, OpenSocks, TypeOK
    <2>3. UNCHANGED <<waitingSocks, listeningSocks>>
        BY <1>2 DEF Reconnecting
    <2> QED
        BY <2>2, <2>3, Comes
<1> QED
    BY <1>1, <1>2 DEF House, HouseReconnect, HouseReconnectFailed

\* The process starts with open Sockets and nothing else.
LEMMA InitRefines == Init => P!Init
<1> SUFFICES ASSUME Init PROVE P!Init
    OBVIOUS
<1>1. OpenSocks \subseteq Sock
    BY InitInv DEF OpenSocks, Inv, TypeOK
<1>2. Waiters = {}
    BY SockAssumption DEF Init, Waiters, NoWaiters
<1>3. Relays = {}
    BY SockAssumption DEF Init, Relays
<1>4. listeningSocks = [i \in ListenId |-> NULL]
    BY DEF Init
<1> QED
    BY <1>1, <1>2, <1>3, <1>4 DEF P!Init

\* Every step of the process is a step of Pairing or changes nothing it sees.
LEMMA StepRefines ==
    ASSUME Inv, PairInv, TypeOK', [Next]_vars
    PROVE  [P!Next]_P!vars
<1>1. CASE WriteHangs \/ WriteKills \/ Terminated \/ UNCHANGED vars
    <2>1. UNCHANGED <<alloc, isAlive, mode, next, waitingSocks, listeningSocks>>
        BY <1>1 DEF WriteHangs, WriteKills, Terminated, vars, sockVars, hnVars, ctxVars
    <2> QED
        BY <2>1 DEF P!vars, OpenSocks, Waiters, Relays
<1> QED
    BY <1>1, WaitRefines, CloseRefines, ReadRefines, NewRefines, HouseRefines DEF Next, Step

\* The process implements Pairing, for every number of Sockets, ids and OTPs
\* and in every mode: a handler registers, queues, links or releases, and an
\* address that is used again inherits nothing.
THEOREM PairingCorrect == Spec => PairingSpec
<1>1. Inv => TypeOK
    BY DEF Inv
<1> QED
    BY <1>1, InitPair, PairStepInv, InitInv, NextInv, InitRefines, StepRefines, PTL
       DEF Spec, PairingSpec, P!Spec

\* So two open connections of the process are relayed to each other or not at
\* all, nobody is relayed to two others, a client waits once, and no
\* connection has two roles.
THEOREM PairingKept == Spec => []P!Safe
BY PairingCorrect, P!PairingSafe, PTL DEF PairingSpec
=============================================================================
