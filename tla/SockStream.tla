------------------------------ MODULE SockStream ------------------------------
(***************************************************************************)
(* The bytes of one direction of a relay: Socket "from" is read by the     *)
(* relay loop of handleRead (homeNet.c), Socket "to" is written by         *)
(* sock_write (netUtils.c), and what the kernel does not take waits in the *)
(* writeBuffer (utils.c).  Both Sockets are non-blocking.  The i-th byte   *)
(* the sender sends is the number i, so order, loss and repetition show.   *)
(* The kernel's part is a receive queue, an end-of-stream mark and the     *)
(* free space of a send window.  A reset of the receiving connection,      *)
(* which ends the process by SIGPIPE, is in Bridge (WriteKills).           *)
(***************************************************************************)
EXTENDS Buffer, SequencesExt

CONSTANTS
    MaxBytes,           \* bound: bytes the sender may send
    ChunkSize,          \* BUFF_SIZE, what one sock_read may return
    Window,             \* the kernel's send window of "to"
    MaxOut,             \* bound: bytes taken after which a drain is not followed
    ReceiverLeaves      \* whether the receiver may close first

ASSUME StreamAssumption ==
    /\ MaxBytes \in Nat /\ MaxOut \in Nat /\ ReceiverLeaves \in BOOLEAN
    /\ ChunkSize \in Nat \ {0} /\ Window \in Nat \ {0}
    /\ ChunkSize <= Capacity            \* 600 and 1024

VARIABLES
    sent,               \* how many bytes the sender has sent
    eof,                \* the sender has closed its end
    rcvq,               \* bytes in the receive queue of "from"
    isAlive,            \* Socket.isAlive of "from" and "to"
    pc,                 \* where the only thread is, see PC
    hand,               \* char buffer[BUFF_SIZE] of handleRead, from data + done
    writeBuffer,        \* Socket.writeBuffer of "to"
    listenForWritable,  \* Socket.listenForWritable of "to"
    room,               \* free space of the send window of "to"
    out                 \* bytes the kernel has taken for the receiver

kernel == <<sent, eof, rcvq>>
toVars == <<writeBuffer, listenForWritable, room, out>>
vars == <<kernel, isAlive, pc, hand, toVars>>

\* In select; about to call sock_read or test its result; in the direct write
\* loop of sock_write; in the loop that empties the writeBuffer.
PC == {"select", "read", "loop", "write", "drain"}

Sends(n) == [i \in 1 .. n |-> i]

Init ==
    /\ sent = 0 /\ eof = FALSE /\ rcvq = << >>
    /\ isAlive = [s \in {"from", "to"} |-> "alive"]
    /\ pc = "select" /\ hand = << >>
    /\ writeBuffer = buffer_init /\ listenForWritable = FALSE
    /\ room = Window /\ out = << >>

(***************************************************************************)
(* The two peers                                                           *)
(***************************************************************************)
SenderSends ==
    /\ ~eof /\ sent < MaxBytes
    /\ sent' = sent + 1
    /\ rcvq' = IF isAlive["from"] = "dead" THEN rcvq ELSE Append(rcvq, sent + 1)
    /\ UNCHANGED <<eof, isAlive, pc, hand, toVars>>

SenderCloses ==
    /\ ~eof
    /\ eof' = TRUE
    /\ UNCHANGED <<sent, rcvq, isAlive, pc, hand, toVars>>

\* The receiver takes one byte out of the window.
ReceiverReads ==
    /\ room < Window
    /\ room' = room + 1
    /\ UNCHANGED <<kernel, isAlive, pc, hand, writeBuffer, listenForWritable, out>>

(***************************************************************************)
(* Closing                                                                 *)
(***************************************************************************)
\* sock_done(to): at once when nothing waits, else after the flush.
sock_done ==
    /\ isAlive["to"] # "dead"
    /\ IF buffer_isEmpty(writeBuffer)
       THEN /\ isAlive' = [isAlive EXCEPT !["to"] = "dead"]
            /\ UNCHANGED listenForWritable
       ELSE /\ isAlive' = [isAlive EXCEPT !["to"] = "willdie"]
            /\ listenForWritable' = TRUE

\* The CLOSE event of "from": hn_sockCleanup finishes its relay partner.
CloseFrom ==
    /\ pc = "select" /\ isAlive["from"] = "dead" /\ isAlive["to"] = "alive"
    /\ sock_done
    /\ UNCHANGED <<kernel, pc, hand, writeBuffer, room, out>>

\* The receiver closes: "to" reads the end of its stream, and its CLOSE event
\* finishes "from", whose own writeBuffer is empty.
ToEnds ==
    /\ ReceiverLeaves /\ pc = "select" /\ isAlive["to"] = "alive"
    /\ isAlive' = [isAlive EXCEPT !["to"] = "dead"]
    /\ UNCHANGED <<kernel, pc, hand, toVars>>

CloseTo ==
    /\ pc = "select" /\ isAlive["to"] = "dead" /\ isAlive["from"] = "alive"
    /\ isAlive' = [isAlive EXCEPT !["from"] = "dead"]
    /\ UNCHANGED <<kernel, pc, hand, toVars>>

(***************************************************************************)
(* handleRead, mode RELAY                                                  *)
(***************************************************************************)
Readable ==
    /\ pc = "select" /\ isAlive["from"] = "alive" /\ (rcvq # << >> \/ eof)
    /\ pc' = "read"
    /\ UNCHANGED <<kernel, isAlive, hand, toVars>>

\* Mutation: one byte more than the buffer holds is asked for.
sock_read_over ==
    LET n == Lesser(ChunkSize + 1, Len(rcvq))
    IN /\ hand' = SubSeq(rcvq, 1, n)
       /\ rcvq' = SubSeq(rcvq, n + 1, Len(rcvq))
       /\ isAlive' = IF n < ChunkSize /\ eof
                     THEN [isAlive EXCEPT !["from"] = "dead"] ELSE isAlive

\* recv until the buffer is full, the queue is dry (EWOULDBLOCK) or the stream
\* ends; the end closes the Socket in the call that returns the last bytes.
sock_read ==
    LET n == Lesser(ChunkSize, Len(rcvq))
    IN /\ hand' = SubSeq(rcvq, 1, n)
       /\ rcvq' = SubSeq(rcvq, n + 1, Len(rcvq))
       /\ isAlive' = IF n < ChunkSize /\ eof
                     THEN [isAlive EXCEPT !["from"] = "dead"] ELSE isAlive

RelayRead ==
    /\ pc = "read"
    /\ sock_read
    /\ pc' = "loop"
    /\ UNCHANGED <<sent, eof, toVars>>

\* The condition of the relay loop.
RelayGoesOn ==
    hand # << >> /\ isAlive["from"] = "alive" /\ isAlive["to"] = "alive"

\* The loop ends: bytes that came together with the end of the stream are
\* dropped.
RelayEnds ==
    /\ pc = "loop" /\ ~RelayGoesOn
    /\ pc' = "select" /\ hand' = << >>
    /\ UNCHANGED <<kernel, isAlive, toVars>>

\* Mutation: bytes are written past the ones that wait in the writeBuffer.
RelayWrites_past ==
    /\ pc = "loop" /\ RelayGoesOn
    /\ pc' = "write"
    /\ listenForWritable' = FALSE
    /\ UNCHANGED <<kernel, isAlive, hand, writeBuffer, room, out>>

\* sock_write: what waits in the writeBuffer is sent first.
RelayWrites ==
    /\ pc = "loop" /\ RelayGoesOn
    /\ IF buffer_isEmpty(writeBuffer)
       THEN pc' = "write" /\ listenForWritable' = FALSE
       ELSE pc' = "drain" /\ UNCHANGED listenForWritable
    /\ UNCHANGED <<kernel, isAlive, hand, writeBuffer, room, out>>

WriteSome ==
    /\ pc = "write" /\ hand # << >> /\ room > 0
    /\ LET n == Lesser(room, Len(hand))
       IN /\ out' = out \o SubSeq(hand, 1, n)
          /\ hand' = SubSeq(hand, n + 1, Len(hand))
          /\ room' = room - n
    /\ UNCHANGED <<kernel, isAlive, pc, writeBuffer, listenForWritable>>

\* Mutation: what the kernel did not take is given up.
WriteRest_drop ==
    /\ pc = "write" /\ hand # << >> /\ room = 0
    /\ pc' = "read" /\ hand' = << >>
    /\ UNCHANGED <<kernel, isAlive, toVars>>

\* The window is full: the rest is stored.
WriteRest ==
    /\ pc = "write" /\ hand # << >> /\ room = 0
    /\ writeBuffer' = buffer_write(writeBuffer, hand)
    /\ listenForWritable' = TRUE
    /\ pc' = "read" /\ hand' = << >>
    /\ UNCHANGED <<kernel, isAlive, room, out>>

WriteDone ==
    /\ pc = "write" /\ hand = << >>
    /\ pc' = "read"
    /\ UNCHANGED <<kernel, isAlive, hand, toVars>>

(***************************************************************************)
(* The flush of the writeBuffer                                            *)
(***************************************************************************)
\* Mutation: a Socket that will die is not flushed.
Writable_alive ==
    /\ pc = "select" /\ listenForWritable /\ isAlive["to"] = "alive" /\ room > 0
    /\ pc' = "drain"
    /\ UNCHANGED <<kernel, isAlive, hand, toVars>>

\* select reports "to" writable: sock_write(to, NULL, 0).
Writable ==
    /\ pc = "select" /\ listenForWritable /\ isAlive["to"] # "dead" /\ room > 0
    /\ pc' = "drain"
    /\ UNCHANGED <<kernel, isAlive, hand, toVars>>

\* The loop over buffer_readChar never sees NULL and never learns that write
\* failed (-1 counts as success): it sends the first byte again and again.
Drain ==
    /\ pc = "drain" /\ room > 0 /\ Len(out) < MaxOut
    /\ out' = Append(out, buffer_readChar(writeBuffer))
    /\ room' = room - 1
    /\ UNCHANGED <<kernel, isAlive, pc, hand, writeBuffer, listenForWritable>>

Relay ==
    \/ Readable \/ RelayRead \/ RelayEnds \/ RelayWrites \/ WriteSome
    \/ WriteRest \/ WriteDone \/ Writable

Closing == CloseFrom \/ CloseTo

Next ==
    \/ SenderSends \/ SenderCloses \/ ReceiverReads \/ ToEnds
    \/ Relay \/ Closing \/ Drain

Spec == Init /\ [][Next]_vars

\* The thread runs and select reports a ready Socket (Relay, Closing).  Nothing
\* obliges a peer.
Fairness == WF_vars(Relay) /\ WF_vars(Closing)

FairSpec == Spec /\ Fairness

(***************************************************************************)
(* Properties                                                              *)
(***************************************************************************)
TypeOK ==
    /\ sent \in 0 .. MaxBytes /\ eof \in BOOLEAN
    /\ rcvq \in Seq(1 .. MaxBytes) /\ hand \in Seq(1 .. MaxBytes)
    /\ Len(hand) <= ChunkSize
    /\ isAlive \in [{"from", "to"} -> {"alive", "willdie", "dead"}]
    /\ pc \in PC
    /\ writeBuffer.size \in 0 .. Capacity
    /\ writeBuffer.startIndex \in 0 .. Capacity - 1
    /\ writeBuffer.data \in [0 .. Capacity - 1 -> 0 .. MaxBytes]
    /\ listenForWritable \in BOOLEAN
    /\ room \in 0 .. Window
    /\ out \in Seq(0 .. MaxBytes)

\* Until the receiver's connection closes, and outside the drain loop, the bytes
\* in the kernel, in the writeBuffer, in the relay loop's hands and in the
\* receive queue, in this order, are what was sent: a full window, a partial
\* write and a chunk boundary lose, repeat and reorder nothing.  Once the sender's
\* stream has ended, less than one chunk of its end is missing: what came with
\* the end in one sock_read.
LosesOnlyTheTail ==
    (isAlive["to"] # "dead" /\ pc # "drain") =>
        LET all == out \o Contents(writeBuffer) \o hand \o rcvq
        IN IF isAlive["from"] = "alive" THEN all = Sends(sent)
           ELSE all = Sends(Len(all)) /\ sent - Len(all) \in 0 .. ChunkSize - 1

\* The relay implements RelayPipe: a prefix in order until it closes or stalls,
\* then copies of the byte that was due.
Pipe == INSTANCE RelayPipe WITH
    sent  <- Sends(sent),
    got   <- out,
    state <- CASE pc = "drain" -> "stalled"
               [] isAlive["to"] = "dead" -> "closed"
               [] OTHER -> "open",
    again <- IF pc = "drain" THEN buffer_readChar(writeBuffer) ELSE 0
PipeSpec == Pipe!Spec

\* A receiver that keeps reading is handed every byte the sender sent, unless
\* the relay closes or its thread is caught in the drain loop.
Delivered ==
    []<>(room > 0) =>
        \A i \in 1 .. MaxBytes :
            sent >= i ~> (Len(out) >= i \/ pc = "drain"
                            \/ "dead" \in {isAlive["from"], isAlive["to"]})

\* The end of the sender's stream reaches a receiver that keeps reading, unless
\* the thread is caught in the drain loop.
EndReaches ==
    []<>(room > 0) => (eof ~> (isAlive["to"] = "dead" \/ pc = "drain"))
===============================================================================
