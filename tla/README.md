# homenet in TLA+

homenet connects machines behind NATs.  A *bridge* accepts TCP connections and
relays them: to an address, to a machine on the local network found by mDNS, or
to a *listener*, a machine that keeps a connection to the bridge open and is
told a one-time code (OTP) whenever a client asks for it; it then opens a second
connection, names the OTP, and the bridge links the two.  A bridge can itself be
a listener of another bridge (its *remote listener*).  Two smaller modes relay
without being a bridge: *listen* (a local port to an hn:// url) and *rl* (a
remote listener to a local service); *connect* and *query* are one-shot clients.

The program is one thread around `select`.  All that is hard in it comes from
the order of events: handlers run one by one, but they close, free and link
Sockets that other handlers, pending `select` bits and maps still refer to.

All paths below are relative to the repository (`src/homeNet.c`, ...).

## 1. Inventory

| Part | State it keeps | Operations | What makes it correct |
|---|---|---|---|
| Event loop: `waitForEvent` (netUtils.c), `hn_loop`, `processEvent` | watch list, `sockToRemove`, `readSet`, `writeSet`, `fdsToProcess` | remove and free the Socket of the last CLOSE; process the bits of the last `select`; scan for closed Sockets; `select` | a closed Socket is reported once, then unlisted and freed; bits never outlive the Socket they belong to; every closed Socket is reported |
| Sessions: `handleNew`, `handleRead`, `handleClose`, `hn_sockCleanup`, `createRelay`, the listener part of `initializeConnect` (homeNet.c); `getWaitingSocket` and its kind (store.c) | `hn_Socket` per Socket (mode, `relay.next`, OTP, `waitingSocks`), `context->listeningSocks` | CONNECT, LISTEN_NOTIFY, LISTEN_CONNECT, QUERY, HTTP; relaying; cleanup | relays are symmetric while open; an OTP links the two ends that asked for it, once; maps hold only live entries; the other end, and the clients of a lost listener, are closed |
| Remote listener: `tryRLStart`, `getNextRetry`, `houseKeeping` | `rlSock`, `rlRetries`, `rlLastRetry`, `rlLastPing` | ping, reconnect, reset on close | one connection at a time; comes back; pauses grow with failures; a dead link is noticed |
| Socket layer: `sock_read`, `sock_write`, `sock_done`, `sock_close`, `sock_acceptNew` | `isAlive`, `writeBuffer`, `listenForWritable` | non-blocking I/O with a buffer for what the kernel did not take | bytes keep their order; a Socket with buffered bytes is closed after they are sent |
| Containers: `List`, `Map`, `Buffer` (utils.c) | nodes, items, ring of bytes | add, remove, iterate; write, read, clear | list and map as sets and functions; Buffer as a queue |
| Framing: `hn_sendMsg`, `hn_receiveMsg` | none: one read is one message | | every message sent is received once, whole |
| Authentication: `authThrowChallenge`, `authSolve`, `verifyAuthResp` | challenge on the stack | challenge and response per request | a request passes only with an answer to this challenge and a key of the map |
| Configuration: `confInit`, `parseArgs`, `bridgeContextInit` (store.c), `readConfigFile` (utils.c) | `hn_Config`; the statics `fp` and `sec` of `readConfigFile` | merge command line, environment, file; look up keys | each option reaches the field it names, with one precedence; each section of the file gives its own keys |
| mDNS: `handleMdnsRead`, `sendMdnsQuery`, the lookups (store.c) | `context->mdnsStore`, `lastMdnsBroadcast`, `mdnsLastRefresh` | answer queries, record answers, refresh | an address keeps what was announced last; a key handed out stays good; answers cause no answers; bridges find each other |
| HTTP: httpUtils.c, the recursion of `handleNew` | the static `isRecall` | recognise and answer an upgrade request | client and bridge agree; one connection does not spoil the next |
| Text: `str_...` (utils.c), addresses (netUtils.c) | none: they work in place | trim, unescape, search, split; addresses to and from text | agree with what their names say, at both ends of a text |
| lib/dns (vendored) | | packets to and from bytes | decoding undoes encoding; any packet is answered, by a result, a refusal or a failing `assert` |
| lib/sha (vendored) | | hash of data given in pieces | the pieces make no difference |
| `.ref/`, `test/`, `bin/` | | | not part of the program |

How they interact: `hn_loop` calls `waitForEvent`, then the handler of the
event, then `houseKeeping`.  Handlers add Sockets to the watch list themselves;
only `waitForEvent` removes and frees them.  `hn_sockCleanup` reaches across:
it closes the relay partner or the waiting clients and edits the maps of another
`hn_Socket`.  `handleRead` of the remote listener calls `handleNew` with a
Socket it made, so a handler runs inside a handler.  `sock_done` only marks a
Socket: its CLOSE comes from a later scan.

What is hard: the order of the closes of related Sockets within and across
batches of `select` bits; addresses that `malloc` gives out again while pointers
to them remain; a static id registered again before the old listener's close is
seen; a one-time code used late or twice; reconnection and pings that only
happen when something else does; bytes that come together with the end of their
stream or with a message; a writeBuffer in use; announcements that arrive in any
order; functions that keep statics between calls.  `PROJECT.json` lists each hazard at its line.

## 2. Modules

| Module | Models | Uses |
|---|---|---|
| `Bridge` | event loop, sessions and the life of Sockets, in bridge, listen and rl mode | `Pairing` |
| `Pairing` | abstract: who listens, who waits, who is relayed to whom; with its theorem | TLAPS |
| `MCBridge` | configurations and symmetry for TLC | `Bridge` |
| `BridgeProofs` | theorems about `Bridge`, for all constants: lookups, relays, pending bits, the life of Sockets, the refinement of `Pairing` | `Bridge`, TLAPS |
| `RemoteListen` | pings and retries of the remote listener, with time | |
| `RemoteListenProofs` | theorems about `RemoteListen` | `RemoteListen`, TLAPS |
| `Handshake` | requests and authentication along the bridges of a url, both sides | |
| `MCHandshake` | keys and sessions for TLC | `Handshake` |
| `HandshakeProofs` | theorems about `Handshake` | `Handshake`, TLAPS |
| `Containers` | Map and List of utils.c | |
| `ContainersProofs` | induction over numbers and folds, and with it theorems about Map and List | `Containers`, TLAPS |
| `Buffer` | the ring of a writeBuffer | |
| `RelayPipe` | abstract: what one direction of a relay promises | |
| `SockStream` | the bytes of one direction of a relay | `Buffer`, `RelayPipe` |
| `SockStreamProofs` | theorems about `SockStream`, with the refinement | `SockStream`, TLAPS |
| `Mdns` | mDNS between bridges and services | `Containers` |
| `MCMdns` | bridges and announcements for TLC | `Mdns` |
| `MdnsProofs` | theorems about `Mdns` | `Mdns`, `ContainersProofs` |
| `Config` | configuration and keys | `Containers` |
| `Http` | the upgrade and the recursion of `handleNew` | `Containers` |
| `Text` | string helpers and addresses | |
| `Sha2` | streaming part of lib/sha | |
| `DnsCodec` | encoder and decoder of lib/dns | |
| `Library` | properties of the functions above but the codec, one input per state | `Config`, `Http`, `Text`, `Sha2` |
| `LibraryProofs` | theorems about `Library` | `Library`, `ContainersProofs` |
| `MCLibrary` | a relay stream, and the inputs of the pure functions, for TLC | `SockStream`, `Library`, `DnsCodec` |

### Bridge

A Socket is the heap address it was given, a member of `Sock`.  `alloc` is the
set of addresses in use; `free` takes an address out, `malloc` may give out any
address that is not in it, so every pointer that outlives its Socket may come to
mean another one.  A freed Socket's fields keep their last value until the
address is reused: that is what reading through a stale pointer yields with a
usual allocator as long as nothing else was put there, and reuse by a Socket is
the case in which it matters most.  Where the code reads freed memory that may
also have been given to an object of another kind, the model takes both the
crash and the plausible wrong value (`CloseListenDangling` and `Strays`,
`WaitDoubleFree`, `NewDestroyedFreed`, `WaitSelectFreed`).

The `hn_Socket` that `sock->ptr` leads to is flattened into functions on `Sock`:

| Variable | Code |
|---|---|
| `isAlive`, `wbuf` | `Socket.isAlive`; whether `Socket.writeBuffer` holds bytes |
| `mode` | `hn_Socket.mode`, or `"none"` (no `ptr`), `"server"`, `"freed"` (`ptr` to freed memory) |
| `next`, `otp` | `relay.next`; `relay.otp` while `relay.isWaiting` |
| `listenId` | `relay.listenId` or `listen.listenId` |
| `waitingSocks` | `listen.waitingSocks`, an entry whose client was freed is `Dangling` |
| `listeningSocks`, `rlSock` | fields of `BridgeContext` |
| `conf` | `hn_Config`: mode, server port or not, remote listener or not, and whether `accept` may fail |
| `sockList`, `sockToRemove`, `readSet`, `sel` | watch list, statics of `waitForEvent`, `selSock` of `hn_loop` |
| `event` | which handler runs next: `"none"` is inside `waitForEvent`, `"house"` before `houseKeeping` |
| `proc` | running, hung in `sock_write`, crashed, exited |

Every handler is one action, or one action per outcome, from its event to the
call of `houseKeeping`; `waitForEvent` is one action per return.

* `WaitRemove`, `WaitClose`, `WaitSelect`, `WaitRead`, `WaitAccept...`,
  `WaitFlush`: `waitForEvent`.  Bits are processed in any order except that the
  server's is last (it is the first Socket added, and `list_add` adds in front).
  The server's bit stays set while `accept` succeeds.
* `CloseRelay`, `CloseListen`, `CloseListenOut`, `ClosePlain`:
  `handleClose` with `hn_sockCleanup`.
* `ReadUnpaired`, `ReadRelay`, `ReadListenOut`, `ReadOtpBridge`, `ReadOtpRL`,
  `ReadListen`: `handleRead`.  `ReadOtpBridge` goes on to `handleNew` with the
  connection it made, as the code does.
* `NewConnect`, `NewConnectWait`, `NewListen`, `NewListenConnect` and the three
  ways a connection is dropped: `handleNew`.  Which request arrives, and whether
  authentication succeeds, is a choice.
* `HouseKeeping`, `HouseReconnect`, `HouseReconnectFailed`: `houseKeeping` with
  `tryRLStart`; time is a choice here and explicit in `RemoteListen`.
* `WriteHangs`, `WriteKills`: what a write inside a handler can do to the whole
  process, a loop that never ends (`sock_write` with a non-empty buffer) or the
  default action of SIGPIPE, which the program does not ignore.

`list_remove` has the code's behaviour: it never removes the last node.

Not in the model: descriptor numbers (a bit belongs to a Socket, so a descriptor
that is closed and handed out again within one batch is not seen), bytes (see
`SockStream`), the mDNS Socket (see `Mdns`), `select` errors, and `malloc` failing.

### Pairing

What is left of `Bridge` when the watch list, the maps and the memory are taken
away.  `open` are the connections that are allocated and alive, `registered` is
`listeningSocks`, `waits` the entries of all waiting maps that still lead to a
client, `links` the pairs of an open relay Socket and its `relay.next`.  A
connection registers, asks for a listener, claims a waiting client with its OTP,
or is relayed to a new connection; all else is a `Turnover`, in which connections
come and go.  What makes it worth stating is the address that is used again: it
must open `Idle`, with no partner, no place in a queue and no id from its last
owner.  `PairingSpec` says that `Bridge` implements it.

### RemoteListen

The same connection seen by the clock.  `sinceRetry` and `sincePing` are the
differences of `time(NULL)` the code compares; `SelectTimeout` is the only step
in which time passes, since a batch of events takes no time next to the
5 seconds of `select`.  `house` is the call of `houseKeeping` that follows an
event and that a timeout skips.  The remote bridge (external) stops, with or
without the connection being closed, and starts again.  A ping over a broken
connection makes the kernel report it, as TCP does.

### Handshake

One peer and the bridge it talks to.  `c` is what the user asked for and how the
bridges are configured; `hop` is the part of the url the peer is at
(`initializeConnect` and what follows it in `initializeListenNotify`,
`initializeListenConn`, `initializeQuery`), `at` the bridge that reads what it
sends: a bridge that has connected the peer to the next part only relays, so
there is never more than one bridge in `handleNew` for this connection.  `up`,
`resp` and `down` are what is under way; `down` has one entry per write of the
bridge, and a read takes the first and any number of those behind it.

* `SendRequest`, `Solve`, `GetReply`, `GetRecord`, `GetUnterminated`, `GetEof`,
  `PeerTimeout`, `NoId`: the peer.  `Solve` crashes without a key, as
  `generateAuthResp` does (`str_len` of a null pointer), also for a password of
  the form `salt`.
* `TakeRequest`, `TakeResponse`, `BridgeTimeout`, `ListenerArrives`,
  `ListenerLost`: `handleNew` and `authThrowChallenge`, and what becomes of a
  client that waits for a listener.  A read that times out leaves an empty buffer,
  which `parseHttpRequest` takes for a request: the peer is sent the welcome page.
* `Push`: the service (external) speaks first, or a new listener is sent an OTP.

A hash is the record of what was hashed, so it verifies exactly when nonce, key
and salt are equal.  The nonce is the number of the bridge: each bridge
challenges one request of the session, with a code of its own.  The peer is this
program, in a session the user asked for.  `CONNECTED` is one write (to a
listener's client it goes out with two `HN_MSG_END`, which a read drops or takes
along).  Left out: messages that arrive in parts (the code reads on, which is
the same as their arriving later), the HTTP upgrade before the first message,
`requireRLAuth`, which is always 0 in the program (store.c:358, 368),
and passwords longer than the 9 characters `initializeConnect` has room for.

### SockStream and RelayPipe

One direction of a relay, from the receive queue of one Socket to the send
window of the other.  The i-th byte is the number i.  The relay loop of
`handleRead`, `sock_read`, `sock_write` and the flush of `waitForEvent` are
actions of one thread (`pc` says where it is); sender, receiver and the kernel's
window move at any time.  Each call of `write` is an action, so the window may
open between a full one and the next attempt.  `Buffer` is the ring of utils.c as
it is coded: `buffer_write` copies to `startIndex`, `buffer_readChar` starts over
when it is given the buffer.  The loop that empties the writeBuffer therefore
sends its first byte for ever (`Drain`); `Bridge` has the same as `proc =
"hung"`.

`RelayPipe` is the promise: a growing prefix of what was sent, until the relay
closes, or stalls and repeats the byte that was due.  `PipeSpec` says that
`SockStream` implements it, with the drain loop as the stall.

### Mdns

Bridges, a network that delivers a packet to every bridge that runs (the sender
too), in any order, and on a lossy network not always; services that announce
themselves (external).  `HandleAnswers` is `handleMdnsRead` for a packet with
answers: all its answers, all their TXT fields, the loop that gives an answer up
at a field in front of PORT, the record found, updated or added.  `HandleQuestion`,
`HandleQuestionUnsent` (`mdns_send` fails, and the time is not noted) and
`HandleQuestionNot` are its other branch.  `Start` and `HouseKeeping` send
the two queries.  Two history variables, which no action reads: `heard`, what the
bridge was last told of an address, and `answered`, when its answers went out.

Every field of an announcement has a key and a value.  The program does not
survive one that has not (store.c:669-697 follows the null pointer of `strtok_r`),
so such a text is no input of the model.

### The functions

`Containers`, `Config`, `Http`, `Text`, `Sha2` and `DnsCodec` are operators with
the loops, early returns and order of the code.  State that the code keeps in
statics is a parameter and a result (`readConfigFile`, `isRecall`).  In `Config` a
word is a string and a line of the file a record; in `DnsCodec` a packet is the
sequence of its bytes and every size, bound and `assert` of the code is there
(the makefile leaves `assert` on, a failing one ends the program: `"abort"`); in
`Sha2` the block is a few cells and the compression function is free: what goes
into it, in which order, is what is compared.

## 3. Runs

TLC; deadlock is checked in the runs of `Bridge`, `RemoteListen` and `Handshake`
(`Terminated` lets a process that ended stutter), not in `mdns`, where a network
may fall silent at its bounds, and not in `library`, where a single state is the
whole behaviour of an input and a relay may end.

| Run | What it shows |
|---|---|
| `gate` | a bridge with a server port: 4 addresses beside the server's, one static id, 2 OTPs: lookups, relays, waiting clients, pending bits |
| `configs` | all six configurations with 2 or 3 free addresses and an anonymous id, with a remote listener, without server, with failing `accept`, in listen and rl mode: freed and forgotten Sockets, and the one remote listener |
| `live` | liveness of the loop |
| `rl_busy` | remote listener of a bridge with traffic: pings, retries, recovery |
| `handshake` | connect, listen, claim and query along two bridges with different keys: right, wrong, missing and incomplete passwords for each, all auth levels, 0 to 2 records, all ways messages can arrive together, timeouts |
| `mdns` | two bridges and a service on one network, with and without loss: records, keys, queries, answers (1.3 million states) |
| `library` | a relay stream (5,200 states, also liveness and the refinement) and 99,900 inputs of the pure functions, one initial state each |
| `v_...` | disagreements between comments and code, see section 5 |

Properties of `Bridge`:

* `ListeningSound`, `WaitingSound`: what `getListeningSock` and
  `getWaitingSocket` return exists and is what was asked for.
* `NoZombieWaiter`: an open waiting client is in the map of a listener that
  exists, so it is closed with it, even after the id was taken over.
* `RelayPartner`: an open relay Socket leads to one that exists and leads back.
* `PairingSpec`: the process implements `Pairing` (checked by `gate`).  A
  consequence that is also proved directly is `PairedOnce`: a relay is never
  linked a second time.
* `PendingListed`: "fds left to process but ran out of sockets" cannot happen.
* `NoFreedListed`: no freed Socket is watched while a server is listed last and
  stays open.  Without a server, or when `accept` fails, one is: see section 5.
* `NoSocketLost`: no Socket is forgotten but those of `LeftBehind`, the outgoing
  ones of attempts of a bridge to reconnect its remote listener that failed
  (homeNet.c:758-762 neither frees nor lists them).
* `OneRemoteListener`: never two open remote-listener connections, while the
  server is open.  The condition is real: when `accept` fails the server is
  freed but its node, the last, stays in the list; a remote listener that is
  given its address then has the node of the server and one of its own, and is
  closed and reconnected once for each.
* `DeadIsReleased`, `HalfOpenCloses`, `ListenerLossReleases`: liveness, on the
  premise `BacklogRunsEmpty` (see Fairness).

The invariants that `gate` checks for a bridge with a server are proved for every
configuration (section 4); `configs` checks, in all configurations, those whose
conditions depend on them.

Properties of `RemoteListen`: `Reconnects`, `LossNoticed`, `PatientRetry`.

Properties of `Handshake`:

* `Authenticated`: a bridge that requires a key served only a peer that has it.
* `PeerAgrees`: what the peer takes for done was done, by every bridge.
* `Served`: with the right keys a peer gets what it asked for, unless a read
  timed out or it was not there.
* `Ends`: every handshake ends.

Properties of `SockStream`:

* `LosesOnlyTheTail`: outside the drain loop nothing is lost, repeated or
  reordered while the sender is connected, and less than a chunk after that.
* `PipeSpec`: it implements `RelayPipe`.
* `Delivered`, `EndReaches`: with a receiver that keeps reading, every byte and
  the end of the stream arrive, unless the thread is caught in the drain loop.

Properties of `Mdns`:

* `LatestWins`: the record of an address is what was last said of it.
* `KeyStable`: a listen key given to a client never changes its meaning.
* `QueryFinds`: a query finds every service it should if the matching records fit
  in the ten results, and never returns more.  A record under a name the service
  has given up is never removed, and may be found under that name too.
* `OneLearns`: without loss, of two bridges at least one learns of the other.
  Not always both: a bridge that has just answered stays silent for the minimum
  interval, and the query is not repeated.
* `NoStorm`: any two answers a bridge put on the network are the minimum interval
  apart.  It compares the times in `answered`, not the time stamp the program
  tests, so a stamp that is not set, or set at the wrong time, shows.  An answer
  echoes the question, which tells it from the announcement of a service that
  runs on the bridge's host.

Properties of the functions (in `Library`, those of `DnsCodec` in `MCLibrary`):

* `Structures`: Map and List against function and set.
* `Precedence`: an option has the value of the command line, or else one that the
  environment or the file gives it, or else none.  It leaves open which of the
  last two wins: the code and homenet.conf disagree (section 5).
* `KeySections`: a bridge verifies listeners with the keys of their section and of
  the `L-` variables (`getSaltForListenId`), and clients with the keys of the
  query section alone, the only place `handleNew` looks them up
  (`verifyAuthRespFromMap` on `queryKeys`, homeNet.c:1097, 1233), with the salts
  as written.  Both properties speak of lines that end with a newline: the
  last character of one that does not is cut (`Value`), which is in the model but
  nothing to assert.
* `Upgrades` (`Http`): client and bridge agree, and no connection spoils the next.
* `TextHelpers`: the loops that work in place and the searches, for parts no longer
  than the text; the addresses.  A v4 address survives being written to text and
  read again.  Of a v6 address only family and port do: the 28 bytes of a
  `sockaddr_in6` go into a `struct sockaddr` of 16 (netUtils.c:26-28, 151-160;
  test/netUtils.test.c:10 says that it breaks), and the model gives the host
  `"spilled"` for what is beyond.
* `Digests` (`Sha2`): the pieces make no difference.
* `Codec`, `SmallBuffers`: decoding undoes encoding; nothing is written past a
  buffer that is too small.
* `AnyPacket`: the decoder comes to an end with every packet.  It may end the
  process at an `assert` (a packet that stops short: one question and nothing
  behind it), and the property says when: what is decoded does not depend on the
  room it is given, and with zeros behind the packet and ample room no `assert`
  fails, so one fails only for want of bytes or of room.  An OPT of one to four
  bytes, which fails `assert(len > 4)` whatever follows (lib/dns/codec.c:1890), is
  not an input.

**Bounds.**  Three connections beside the server are what the cases need: two
listeners that follow each other under one id and a client between them, or two
ends of a relay and a newcomer that gets a freed address; the fourth address of
`gate` lets a relay's partner and a newcomer exist at once.  One id is enough
because nothing relates two ids; two OTPs let two clients wait on one listener.
Waits of 2, 3, 4 ticks keep the order of 1, 5 and 30 minutes; `PingInterval` is
2 ticks; counters stop where the code stops telling values apart (`MaxRetries`,
`MaxWait`).  Two bridges are the shortest path on which the password of one part
can be mistaken for that of the next, and on which one bridge succeeds and the
next fails; two records are enough to lose one.  In `SockStream` six bytes in
chunks of two, a buffer of three and a window of two fill the window, leave a
part of a chunk over, fill the buffer and meet the end of the stream at, before
and after a chunk boundary; `MaxOut` bounds how long a stalled relay is followed.  In `Mdns` three
announcements let a service change twice, `MaxNet` keeps new speakers silent
while packets are under way (what is under way is still reordered), one tick is
the minimum interval, two the refresh.  The inputs of `library` are all sequences
over a few symbols up to length 3 to 5: sequences of container operations, files of
three lines, two connections of two messages, texts of four characters, hash
data in three pieces of 0 to 9 cells with blocks of 4 and 5, a record of every
type with names that share their ends, every room from 12 to 60 bytes, and
packets with every tail of 4 or 5 bytes out of labels, ends and pointers.
Symmetry is used for addresses that no configuration of the run
starts with and for OTPs, and not in runs that check liveness.

**Fairness.**  `Bridge!FairSpec`: the loop keeps taking steps (`WF` of `Step`:
nothing in `hn_loop` stops it, handshakes have a timeout).  That is not enough
for what the scan for closed Sockets has to do: `waitForEvent` comes back to the
server's bit for as long as `accept` succeeds (netUtils.c:451-466), and scans only
when no bit is left (505).  Connections that arrive faster than they are handled
keep a closed Socket, the other end of its relay and the clients of a lost listener
waiting for ever.  The three properties therefore have a premise about the
environment, `BacklogRunsEmpty`: again and again no connection waits to be
accepted.  They show that nothing else in the program starves the scan.
Liveness is stated up to the end of the process, since a write can hang or kill it.
`RemoteListen!FairSpec`: houseKeeping and the CLOSE scan run when they are due,
readable data is read, and time passes; that other events arrive is assumed only
in `BusySpec`.
`Handshake!Spec`: the peer and the bridge take steps; both set `SO_RCVTIMEO`, so
a read that gets nothing ends too.  Nothing is assumed of listeners and services.
`SockStream!Fairness`: the thread goes on and `select` reports what is ready
(`WF` of `Relay` and `Closing`).  That the receiver reads is a premise of the two
properties, not an assumption.

## 4. Proofs

Every safety invariant and every safety action property that a run checks of
`Bridge`, `RemoteListen`, `Handshake`, `SockStream` and `Mdns` is a theorem, for
all values of the constants that satisfy the named assumptions; so are both
refinements, and of the functions what is said of the containers, the
configuration and the hashes, for inputs of any length.

**`BridgeProofs`**, for any sets of addresses, ids and OTPs and any set of
configurations that satisfies `SockAssumption` and `ConfAssumption`:

* `Invariance`: `Spec => []Inv`, and from it `TypeCorrect`, `ListeningCorrect`,
  `WaitingCorrect`, `WaitersReachable`, `RelayCorrect`, `PendingCorrect`;
* `PairedCorrect`: `Spec => PairedOnce`.

`Inv` adds to the properties what they need to be inductive.  `LoopInv`: the
Socket handed to `handleNew` is allocated and has no relay or listener role yet;
the Socket about to be freed has had its cleanup, and nothing is pending while
one is.  `HnInv`: only allocated Sockets have a relay or listener role; fields
of another mode are blank; a waiting relay has no partner; no two clients wait
for one OTP.  The argument for the relays: a link is made only by `Pair`, for a
Socket in hand and one that is new or waits; it is undone only by `CloseRelay`,
which marks the partner as not open in the same step, and the address of a
closed end can be reused only after that, so an open relay Socket never sees its
partner's address change hands.  The argument for the waiting clients: one is
entered in the map of the listener registered at that moment, and whichever of
the two goes first, the map is cleaned or the client is closed, or (when the id
has been taken over) the entry stays in a map that only the listener's own
cleanup reads.

The proofs have one lemma per handler (`CloseRelayStep`, `PairStep`,
`NewConnectWaitStep`, ...); `FrameStep` covers the many actions that touch none
of what `Inv` speaks of.

The life of Sockets builds on `Inv`:

* `NoneLost` (`NoSocketLost`): with `HouseInv`, that housekeeping is an event of
  a bridge.  A Socket that is neither listed nor in hand was made by a reconnection
  attempt and is not the current remote listener.
* `NoneFreedWatched` (`NoFreedListed`): `list_remove` does its work only while
  what it removes is not the last node.  The last node is the server's, so
  `ServerOpen` says that the server is never closed: no link, map or event leads
  to it.  `Listed` then says that a Socket is listed from the end of `handleNew`
  until it is freed.
* `OneListenerCorrect` (`OneRemoteListener`): `OneRL` allows for the Socket that
  was just closed and is still listed when `houseKeeping` has reconnected.

The refinement, `PairingCorrect` (`Spec => PairingSpec`), needs `PairInv` besides.
`EventInv`: a Socket with a pending bit is not freed, the one `handleNew` gets is
open, the one `handleClose` gets is not.  `MapInv`: an entry of any waiting map,
also of a listener that was replaced under its id, leads to a client that waits
under this OTP and in this map only, or dangles.  Most handlers are a `Turnover`
(`Comes`: the links of open Sockets are kept, new ones are on addresses nobody
had); `handleNew`'s LISTEN, CONNECT and LISTEN_CONNECT and the relay made for an
OTP have a lemma each.  `PairingSafe`, in `Pairing`, says what the abstract
specification guarantees (relays are mutual and nobody is in two, a client waits
once and under an OTP of its own, nobody has two roles; a client that is closed may
still wait, as its entry stays in the map until its CLOSE is processed), and `PairingKept` carries it over to `Bridge`.

**`RemoteListenProofs`** proves `Patience` (`Spec => PatientRetry`) for any pauses
with `Wait1 < Wait2 < Wait3`.  The property speaks of the attempts that really
failed, the code of its own counter `rlRetries`, which is reset in two places;
`Counted` says that the two agree while there is no connection, which is when
the counter is read (`CounterCorrect`).

**`HandshakeProofs`**, for urls of any length and any keys:

* `AuthenticationCorrect` (`Authenticated`).  `AnswerMade`: an answer under way
  was made from the password of some part of the url; it need not be the part of
  the bridge that reads it, but the hash covers the nonce, so one that verifies
  is (`VerifiedHasKey`).  `WaitAllowed`: a bridge that waits for a listener has
  checked the client before.
* `HandshakeTypeCorrect`, `AgreementCorrect` (`PeerAgrees`).  The peer takes the
  first message it reads for the answer of the bridge it asked, and a read may
  take along what follows.  `PathInv` says what is under way: `Ahead`, the
  bridges are at most one ahead of the peer; `UnderWay`, every message means what
  the peer will take it for; `Quiet`, a bridge that has yet to answer has sent
  nothing but a challenge, so its answer is the first message read.

**`SockStreamProofs`**, for any number of bytes and any sizes of chunk, buffer and
window: `StreamTypeCorrect`, `TailCorrect` (`LosesOnlyTheTail`) and `PipeCorrect`
(`Spec => PipeSpec`, each step of the relay is a step of `RelayPipe` or none).
`Control` relates `pc`, the ends of the two Sockets and `listenForWritable`;
`OutPrefix` says that what is out, and behind it the ring read from its start, are
the first bytes of the stream, and `OnTheWay` that the bytes in hand and in the
receive queue follow without a gap while the sender's stream goes on.  What
`buffer_write` does at `startIndex` is harmless exactly because the ring is
empty whenever it is called outside the drain loop.

**`ContainersProofs`.**  The library's induction theorems take
an operator as a parameter, which no installed prover can instantiate; and the
community module's `FoldLeft` is a `CHOOSE` of a function on sets of indices.
The module therefore puts what is to be shown of every number into a set
(`SetInduction`, from `WFMin` of the library), shows that the function `FoldLeft`
chooses exists (`IterExists`) and that it is a run from left to right
(`IterSteps`).  With these:

* `MapCorrect`: `MapIsFunction` for every sequence of `map_set` and `map_del` over
  any keys and values.  `Tells`: after n calls each key is there once, with what
  the last of them on it says.
* `ListCorrect`: `ListIsSet` for every sequence of `list_add` and `list_remove`
  that adds only what is absent.  `Holds`: the list has the elements of the set
  once each, and at its end what was added first.

The run `library` checks the same two definitions on all short sequences
(`Structures`).

**`LibraryProofs`** states the properties of `Library` for any input of their
kind:

* `StructuresCorrect` (`Structures`), from the two theorems above.
* `AnyChunksCorrect`, `DigestsCorrect` (`Digests`): for any block lengths, any data
  and any pieces, the three hashes compress the padded message.  `Upto` is the
  invariant of `Update`: the blocks compressed so far, and behind them the used
  part of the buffer, are the data seen so far, and the count is its length; it
  is kept by each of the three moves of `Update` (fill the buffer, whole blocks
  from the data, put the rest away).  `Final` then pads in one block or two
  (`FinalPads`), and there is only one padding that ends at a block boundary
  (`OnlyPadding`).
* `UpgradeCorrect`: after any number of connections, each of one or more messages,
  the static `isRecall` is clear, so each is served as the first would be
  (`UpgradeOnce`).
* `KeySectionsCorrect` (`KeySections`) and `PrecedenceCorrect` (`Precedence`).  Each
  reader of the configuration writes a sequence of keys and values into a Map;
  `PutsRun` says that the Map then holds the last value of each key over what it
  held before, and `PutsLookup` what a lookup finds.  `SectionWalk` says which
  lines `configFileToMap` hands out between a section line and the next, with the
  static position and section name that its three walks share; `EnvLookup`,
  `FileLookup` and `ArgsLookup` are the three readers, `Ordered` puts the two
  passes of `confInit` together in the order of the code, and `Resolved` and
  `SectionLookup` say what is left of it for lines that end with a newline
  (`WholeRead`).  Assumed is what the program is started with:
  keys and values are no null pointers, lines are entries, sections or neither,
  and every option on the command line that takes a value has one.  The
  environment may set or leave out any variable, the files may have any number of
  lines and name any keys.

**`MdnsProofs`**, for any bridges, names, services and announcements that satisfy
`NamesAssumption` (announcements are well formed, each field with a key and a
value, and names are strings, among
them the four the code compares with, since the provers do not know that a
string literal is in `STRING`): `MdnsTypeCorrect`, `LatestCorrect`,
`LearnCorrect`, `KeyCorrect`, `StormCorrect`, `QueryCorrect`.  `MdnsInv` is the
invariant.  `StoreInv`: keys count up from 1, the newest record in front, and the
store and `heard` speak of the same addresses; a walk through the answers of a
packet keeps this answer by answer (`Kept`), although within an answer the record
is first blank and then filled field by field.  `LearnInv`: of two running
bridges one knows the other, or a packet that will tell it is under way, or a
question is, to a bridge that may answer it.  `TimeInv`: the times a bridge
remembers have passed.  `StormInv` ties the time stamp the program tests to the
history: the last answer in `answered` is not later than the stamp.  `QueryCorrect` needs the number of matching records in
front of a place of the walk (`Places`); the lookup is a fold because nothing can
be proved of `SelectSeq` here.

Only model-checked:

* liveness (`DeadIsReleased`, `HalfOpenCloses`, `ListenerLossReleases`,
  `Reconnects`, `LossNoticed`, `Served`, `Ends`, `Delivered`,
  `EndReaches`): fairness is out of the prover's reach;
* the part of `Upgrades` that says that client and bridge agree on the upgrade
  (`UpgradeAgrees`), and `TextHelpers`: both rest on `SelectSeq`, which the prover
  cannot expand;
* `Codec`, `SmallBuffers`, `AnyPacket`: names, strings and options in `DnsCodec`
  are read and written by recursive operators, of which nothing can be proved
  here.

## 5. Where code and comments disagree

| Run | Comment | What happens |
|---|---|---|
| `v_foreign_unregister` | homeNet.c:313 "remove the socket from context listeningSocks" | a listener that was replaced under its static id removes its successor when it closes |
| `v_foreign_close` | homeNet.c:291 "close relaying socket" | the second end of a relay closes whatever got the first end's address |
| `v_double_free` | homeNet.c:1052 "its safe to free it if not required" | a connection made on an OTP arrives with a freed `ptr`; any request that keeps nothing frees it again |
| `v_rl_idle` | homeNet.c:1467 "let the housekeeping handle reconnect" | an idle bridge never reconnects: timeouts skip `houseKeeping` |
| `v_swallowed` | docs/usage.md:56 "prints all data received" | bytes of a service that arrive with `CONNECTED` are dropped |

`RelayPartner` and `v_foreign_close` belong together: while a relay Socket is
open its partner is right, and the wrong close happens after it was marked.

The same kind of disagreement, in the models and not stated as runs:

* netUtils.c:441 "removing socket from list": with `Port=-1` the remote
  listener's Socket is the last node, which `list_remove` never removes; it is
  freed and stays listed (`Bridge!list_remove`, `NoFreedListed` states the
  exception).
* docs/usage.md:9 "starts relaying all messages to each other after this": the
  last bytes of a sender that closes are dropped when they arrive together with
  the end of the stream (`SockStream!RelayEnds`, `LosesOnlyTheTail` bounds it).
* homenet.conf:4-7 ranks the file above the environment; `confInit` reads the
  file first and the environment over it (`Config!Collect`; the lemma `Ordered`
  of `LibraryProofs` has the code's order, `Precedence` takes neither side).
* homenet.conf:84 offers query keys in variables `Q-...`; `getQuerySalt`
  (store.c:98), which would read them, is called nowhere, so they open nothing
  (`KeySections` says so).
* test/netUtils.test.c:10 knows that v6 addresses break `str_toIpAddr`; the
  functions accept them all the same (`Text!ipAddr_setIp`).
* homenet.conf:72 "if set to true no annonymous Reverse listerners will be
  allowed": store.c:368 stores the option in `requireQueryAuth`, and
  `requireRLAuth` stays 0.
* homenet.conf writes `key = value` with blanks, and says nothing of its last
  line, whose last character is cut when no newline follows (utils.c:558).
* The query that makes bridges known to each other is sent once; the refresh
  asks for `hn.local`, which bridges do not answer.  After a loss, or an answer
  suppressed by the minimum interval, they do not find each other.
* A listener without an id is refused by the listener itself (homeNet.c:573)
  though homeNet.h:69 says "if NULL, system will set one" and docs/usage.md:18
  starts one without an id, and an id the bridge chose is refused at
  homeNet.c:600; the master key of homenet.conf is never consulted; the
  password form `salt` (homeNet.c:118) crashes the peer.
* lib/dns: an MX whose exchange is the root, and an OPT with one empty option,
  are encoded and not decoded; a packet that ends within a name makes an
  unsigned size wrap (codec.c:1310); some truncated packets, and a packet buffer
  that is exactly full, run into an `assert`; the encoder of LOC does not count
  its 16 bytes.

## 6. Not modelled, and the plan

1. Descriptor numbers: `waitForEvent` with a descriptor that is closed and
   handed out again within one batch, refining the pending bits of `Bridge`.
2. Theorems about `Text`, with its filters written as folds, and about `DnsCodec`,
   with its recursion written as functions.

Left out for good: the arithmetic of a SHA-2 round; in lib/dns GPOS records,
printing, the names of constants and the resolver (netsimple.c), which the
program does not use or uses for its log only; `writeHttpRequest`, which nothing
calls; copying standard input
and output in connect mode; creating sockets and resolving names (system calls);
`.ref/` and `test/`, which are not part of the program; logging.
