--------------------------- MODULE SockStreamProofs ---------------------------
(***************************************************************************)
(* SockStream for any chunk, window and buffer size: the relay loses only  *)
(* the tail of a stream, and implements RelayPipe.  What the argument      *)
(* turns on is that sock_write stores bytes in the writeBuffer only while  *)
(* it is empty: buffer_write puts them at startIndex, over what waits      *)
(* there.  The bytes are counted: the invariant says which number each     *)
(* byte between the sender and the receiver has.                           *)
(***************************************************************************)
EXTENDS SockStream, SequenceTheorems, TLAPS

USE CapacityAssumption, StreamAssumption

(***************************************************************************)
(* The ring                                                                *)
(***************************************************************************)
Ring == [data : [0 .. Capacity - 1 -> 0 .. MaxBytes], size : 0 .. Capacity,
         startIndex : 0 .. Capacity - 1]

\* The slots of the ring, counted from its start.
LEMMA SlotFacts ==
    ASSUME NEW b \in Ring, NEW k \in 0 .. Capacity - 1
    PROVE  /\ Slot(b, k) \in 0 .. Capacity - 1
           /\ (Slot(b, k) - b.startIndex) % Capacity = k
<1> DEFINE s == b.startIndex
<1>1. s \in 0 .. Capacity - 1
      BY DEF Ring
<1> HIDE DEF s
<1>2. \A x \in 0 .. Capacity - 1 : x % Capacity = x
      OBVIOUS
<1>3. \A x \in Capacity .. 2 * Capacity - 1 : x % Capacity = x - Capacity
      OBVIOUS
<1>4. CASE s + k < Capacity
  <2>1. Slot(b, k) = s + k
        BY <1>1, <1>2, <1>4 DEF Slot, s
  <2> QED BY <1>1, <1>2, <1>4, <2>1 DEF s
<1>5. CASE s + k >= Capacity
  <2>1. Slot(b, k) = s + k - Capacity
        BY <1>1, <1>3, <1>5 DEF Slot, s
  <2>2. (k - Capacity) % Capacity = k
        OBVIOUS
  <2> QED BY <1>1, <1>5, <2>1, <2>2 DEF s
<1> QED BY <1>1, <1>4, <1>5

\* buffer_write on an empty ring, wherever it starts: what fits is stored, and
\* waits in its order.
LEMMA WriteEmpty ==
    ASSUME NEW b \in Ring, b.size = 0,
           NEW d \in Seq(1 .. MaxBytes), Len(d) <= Capacity
    PROVE  /\ buffer_write(b, d) \in Ring
           /\ buffer_write(b, d).size = Len(d)
           /\ \A i \in 1 .. Len(d) : Contents(buffer_write(b, d))[i] = d[i]
<1> DEFINE n == Len(d)
           w == [i \in 0 .. Capacity - 1 |->
                    IF \E k \in 0 .. n - 1 : Slot(b, k) = i
                    THEN d[1 + ((i - b.startIndex) % Capacity)] ELSE b.data[i]]
           r == buffer_write(b, d)
<1>1. n \in Nat /\ Lesser(buffer_getFreeSpace(b), Len(d)) = n
      BY DEF Lesser, buffer_getFreeSpace, Ring
<1>2. r = [b EXCEPT !.size = n, !.data = w]
  <2>1. DOMAIN b.data = 0 .. Capacity - 1 /\ b.size + n = n
        BY <1>1 DEF Ring
  <2> QED BY <1>1, <2>1, Zenon DEF buffer_write
<1>3. ASSUME NEW k \in 0 .. n - 1 PROVE w[Slot(b, k)] = d[1 + k]
  <2>1. k \in 0 .. Capacity - 1
        BY <1>1
  <2>2. Slot(b, k) \in 0 .. Capacity - 1 /\ (Slot(b, k) - b.startIndex) % Capacity = k
        BY <2>1, SlotFacts
  <2>3. \E j \in 0 .. n - 1 : Slot(b, j) = Slot(b, k)
        OBVIOUS
  <2>4. w[Slot(b, k)] = d[1 + ((Slot(b, k) - b.startIndex) % Capacity)]
        BY <2>2, <2>3, Zenon
  <2> QED BY <2>2, <2>4
<1>4. w \in [0 .. Capacity - 1 -> 0 .. MaxBytes]
  <2> SUFFICES ASSUME NEW i \in 0 .. Capacity - 1 PROVE w[i] \in 0 .. MaxBytes
      OBVIOUS
  <2>1. CASE \E k \in 0 .. n - 1 : Slot(b, k) = i
    <3>1. PICK k \in 0 .. n - 1 : Slot(b, k) = i
          BY <2>1
    <3>2. w[i] = d[1 + k]
          BY <1>3, <3>1
    <3> QED BY <1>1, <3>2
  <2>2. CASE ~ \E k \in 0 .. n - 1 : Slot(b, k) = i
    <3>1. w[i] = b.data[i]
          BY <2>2
    <3> QED BY <3>1 DEF Ring
  <2> QED BY <2>1, <2>2
<1> HIDE DEF w, r
<1>5. r \in Ring /\ r.size = n /\ r.data = w /\ r.startIndex = b.startIndex
  <2>1. /\ b = [data |-> b.data, size |-> b.size, startIndex |-> b.startIndex]
        /\ b.startIndex \in 0 .. Capacity - 1
        BY DEF Ring
  <2>2. r = [data |-> w, size |-> n, startIndex |-> b.startIndex]
        BY <1>2, <2>1
  <2> QED BY <1>1, <1>4, <2>1, <2>2 DEF Ring
<1>6. ASSUME NEW i \in 1 .. n PROVE Contents(r)[i] = d[i]
  <2>1. Slot(r, i - 1) = Slot(b, i - 1)
        BY <1>5 DEF Slot
  <2>2. Contents(r)[i] = w[Slot(b, i - 1)]
        BY <1>1, <1>5, <2>1 DEF Contents
  <2> QED BY <1>1, <1>3, <2>2
<1> QED BY <1>5, <1>6 DEF r

\* The byte the drain loop repeats is the one that has waited longest.
LEMMA ReadsFirst ==
    ASSUME NEW b \in Ring
    PROVE  /\ buffer_readChar(b) \in 0 .. MaxBytes
           /\ b.size > 0 => buffer_readChar(b) = Contents(b)[1]
<1>1. b.startIndex \in 0 .. Capacity - 1
      BY DEF Ring
<1>2. Slot(b, 0) = b.startIndex
  <2>1. \A x \in 0 .. Capacity - 1 : (x + 0) % Capacity = x
        OBVIOUS
  <2> QED BY <1>1, <2>1 DEF Slot
<1> QED BY <1>1, <1>2 DEF buffer_readChar, Contents, Ring

\* buffer_init makes an empty ring.
LEMMA EmptyRing == buffer_init \in Ring /\ buffer_init.size = 0
BY DEF buffer_init, Ring

(***************************************************************************)
(* Types                                                                   *)
(***************************************************************************)

\* The thread writes only to an empty ring, a "to" that waits to die has lost
\* its partner, and what select waits for to write is there.
Control ==
    /\ writeBuffer \in Ring
    /\ isAlive["from"] # "willdie"
    /\ isAlive["to"] = "willdie" => isAlive["from"] = "dead"
    /\ pc \in {"select", "read"} => Len(hand) = 0
    /\ pc = "read" => isAlive["from"] = "alive"
    /\ pc = "write" => /\ isAlive["from"] = "alive" /\ isAlive["to"] = "alive"
                       /\ writeBuffer.size = 0
    /\ pc = "drain" => isAlive["to"] # "dead"
    /\ listenForWritable => writeBuffer.size > 0

\* The control state of relay and sockets, inductive by itself.
ControlInv == TypeOK /\ Control

\* It holds at the start,
LEMMA InitControl == Init => ControlInv
<1> SUFFICES ASSUME Init PROVE ControlInv
    OBVIOUS
<1>1. Control
      BY EmptyRing DEF Init, Control
<1>2. writeBuffer \in Ring
      BY <1>1 DEF Control
<1>3. TypeOK
  <2>1. rcvq \in Seq(1 .. MaxBytes) /\ hand \in Seq(1 .. MaxBytes) /\ Len(hand) = 0
        BY DEF Init
  <2>2. isAlive \in [{"from", "to"} -> {"alive", "willdie", "dead"}]
        BY DEF Init
  <2>3. out \in Seq(0 .. MaxBytes) /\ room \in 0 .. Window /\ sent \in 0 .. MaxBytes
        BY DEF Init
  <2>4. /\ writeBuffer.size \in 0 .. Capacity
        /\ writeBuffer.startIndex \in 0 .. Capacity - 1
        /\ writeBuffer.data \in [0 .. Capacity - 1 -> 0 .. MaxBytes]
        BY <1>2 DEF Ring
  <2>5. eof \in BOOLEAN /\ listenForWritable \in BOOLEAN /\ pc \in PC
        BY DEF Init, PC
  <2> QED BY <2>1, <2>2, <2>3, <2>4, <2>5 DEF TypeOK
<1> QED BY <1>1, <1>3 DEF ControlInv
\* The pieces sock_read and sock_write take off a sequence.
LEMMA Split ==
    ASSUME NEW S, NEW s \in Seq(S), NEW n \in 0 .. Len(s)
    PROVE  /\ SubSeq(s, 1, n) \in Seq(S) /\ Len(SubSeq(s, 1, n)) = n
           /\ \A i \in 1 .. n : SubSeq(s, 1, n)[i] = s[i]
           /\ SubSeq(s, n + 1, Len(s)) \in Seq(S)
           /\ Len(SubSeq(s, n + 1, Len(s))) = Len(s) - n
           /\ \A i \in 1 .. Len(s) - n : SubSeq(s, n + 1, Len(s))[i] = s[n + i]
OBVIOUS

\* and every step keeps it.
LEMMA ControlStep == ControlInv /\ [Next]_vars => ControlInv'
<1> SUFFICES ASSUME ControlInv, [Next]_vars PROVE ControlInv'
    OBVIOUS
<1> USE DEF ControlInv, kernel, toVars
<1>0. writeBuffer' \in Ring => 
        /\ writeBuffer'.size \in 0 .. Capacity
        /\ writeBuffer'.startIndex \in 0 .. Capacity - 1
        /\ writeBuffer'.data \in [0 .. Capacity - 1 -> 0 .. MaxBytes]
      BY DEF Ring
<1>1. CASE SenderSends
  <2>1. sent + 1 \in 1 .. MaxBytes /\ rcvq \in Seq(1 .. MaxBytes)
        BY <1>1 DEF SenderSends, TypeOK
  <2>2. Append(rcvq, sent + 1) \in Seq(1 .. MaxBytes)
        BY <2>1
  <2>3. sent' \in 0 .. MaxBytes /\ rcvq' \in Seq(1 .. MaxBytes)
    <3>1. sent' = sent + 1 /\ (rcvq' = rcvq \/ rcvq' = Append(rcvq, sent + 1))
          BY <1>1 DEF SenderSends
    <3> QED BY <2>1, <2>2, <3>1
  <2> QED BY <1>1, <2>3 DEF SenderSends, TypeOK, Control
<1>2. CASE SenderCloses
      BY <1>2 DEF SenderCloses, TypeOK, Control
<1>3. CASE ReceiverReads
      BY <1>3 DEF ReceiverReads, TypeOK, Control
<1>4. CASE ToEnds
      BY <1>4 DEF ToEnds, TypeOK, Control
<1>5. CASE CloseFrom
  <2>1. CASE buffer_isEmpty(writeBuffer)
        BY <1>5, <2>1 DEF CloseFrom, sock_done, TypeOK, Control
  <2>2. CASE ~buffer_isEmpty(writeBuffer)
        BY <1>5, <2>2 DEF CloseFrom, sock_done, buffer_isEmpty, TypeOK, Control
  <2> QED BY <2>1, <2>2
<1>6. CASE CloseTo
      BY <1>6 DEF CloseTo, TypeOK, Control
<1>7. CASE Readable
      BY <1>7 DEF Readable, TypeOK, Control, PC
<1>8. CASE RelayRead
  <2> DEFINE n == Lesser(ChunkSize, Len(rcvq))
  <2>1. n \in 0 .. Len(rcvq) /\ n <= ChunkSize
        BY DEF Lesser, TypeOK
  <2>2. hand' = SubSeq(rcvq, 1, n) /\ rcvq' = SubSeq(rcvq, n + 1, Len(rcvq))
        BY <1>8 DEF RelayRead, sock_read
  <2>3. isAlive' = isAlive \/ isAlive' = [isAlive EXCEPT !["from"] = "dead"]
        BY <1>8 DEF RelayRead, sock_read
  <2> HIDE DEF n
  <2>4. /\ hand' \in Seq(1 .. MaxBytes) /\ Len(hand') <= ChunkSize
        /\ rcvq' \in Seq(1 .. MaxBytes)
    <3>1. rcvq \in Seq(1 .. MaxBytes)
          BY DEF TypeOK
    <3>2. /\ SubSeq(rcvq, 1, n) \in Seq(1 .. MaxBytes) /\ Len(SubSeq(rcvq, 1, n)) = n
          /\ SubSeq(rcvq, n + 1, Len(rcvq)) \in Seq(1 .. MaxBytes)
          BY <2>1, <3>1, Split
    <3> QED BY <2>1, <2>2, <3>2
  <2> QED BY <1>8, <2>3, <2>4 DEF RelayRead, TypeOK, Control, PC
<1>9. CASE RelayEnds
      BY <1>9 DEF RelayEnds, TypeOK, Control, PC
<1>10. CASE RelayWrites
      BY <1>10 DEF RelayWrites, RelayGoesOn, buffer_isEmpty, TypeOK, Control, PC
<1>11. CASE WriteSome
  <2> DEFINE n == Lesser(room, Len(hand))
  <2>1. n \in 0 .. Len(hand) /\ n \in 0 .. room
        BY DEF Lesser, TypeOK
  <2>2. /\ out' = out \o SubSeq(hand, 1, n) /\ room' = room - n
        /\ hand' = SubSeq(hand, n + 1, Len(hand))
        BY <1>11 DEF WriteSome
  <2> HIDE DEF n
  <2>3. /\ hand' \in Seq(1 .. MaxBytes) /\ Len(hand') <= ChunkSize
        /\ SubSeq(hand, 1, n) \in Seq(1 .. MaxBytes)
    <3>1. hand \in Seq(1 .. MaxBytes) /\ Len(hand) <= ChunkSize /\ Len(hand) \in Nat
          BY DEF TypeOK
    <3>2. /\ SubSeq(hand, 1, n) \in Seq(1 .. MaxBytes)
          /\ SubSeq(hand, n + 1, Len(hand)) \in Seq(1 .. MaxBytes)
          /\ Len(SubSeq(hand, n + 1, Len(hand))) = Len(hand) - n
          BY <2>1, <3>1, Split
    <3> QED BY <2>1, <2>2, <3>1, <3>2
  <2>4. out' \in Seq(0 .. MaxBytes) /\ room' \in 0 .. Window
    <3>1. SubSeq(hand, 1, n) \in Seq(0 .. MaxBytes)
      <4>1. 1 .. MaxBytes \subseteq 0 .. MaxBytes
            OBVIOUS
      <4> QED BY <2>3, <4>1
    <3>2. out \in Seq(0 .. MaxBytes) /\ room \in 0 .. Window
          BY DEF TypeOK
    <3>3. out \o SubSeq(hand, 1, n) \in Seq(0 .. MaxBytes)
          BY <3>1, <3>2
    <3> QED BY <2>1, <2>2, <3>2, <3>3
  <2>5. TypeOK'
        BY <1>11, <2>3, <2>4 DEF WriteSome, TypeOK
  <2>6. Control'
        BY <1>11 DEF WriteSome, Control
  <2> QED BY <2>5, <2>6
<1>12. CASE WriteRest
  <2>1. writeBuffer' \in Ring /\ writeBuffer'.size = Len(hand) /\ Len(hand) > 0
        BY <1>12, WriteEmpty DEF WriteRest, TypeOK, Control
  <2>2. UNCHANGED <<sent, eof, rcvq, isAlive, room, out>> /\ listenForWritable' = TRUE
        BY <1>12 DEF WriteRest
  <2>3. pc' = "read" /\ hand' = << >> /\ isAlive["from"] = "alive" /\ isAlive["to"] = "alive"
        BY <1>12 DEF WriteRest, Control
  <2>4. TypeOK'
    <3>1. hand' \in Seq(1 .. MaxBytes) /\ Len(hand') = 0
          BY <2>3
    <3>2. /\ sent' \in 0 .. MaxBytes /\ eof' \in BOOLEAN /\ rcvq' \in Seq(1 .. MaxBytes)
          /\ isAlive' \in [{"from", "to"} -> {"alive", "willdie", "dead"}]
          /\ room' \in 0 .. Window /\ out' \in Seq(0 .. MaxBytes)
          BY <2>2 DEF TypeOK
    <3>3. pc' \in PC /\ Len(hand') <= ChunkSize /\ listenForWritable' \in BOOLEAN
          BY <2>2, <2>3, <3>1 DEF PC
    <3> QED BY <1>0, <2>1, <3>1, <3>2, <3>3 DEF TypeOK
  <2>5. Control'
        BY <2>1, <2>2, <2>3 DEF Control
  <2> QED BY <2>4, <2>5
<1>13. CASE WriteDone
      BY <1>13 DEF WriteDone, TypeOK, Control, PC
<1>14. CASE Writable
      BY <1>14 DEF Writable, TypeOK, Control, PC
<1>15. CASE Drain
  <2>1. out' \in Seq(0 .. MaxBytes)
        BY <1>15, ReadsFirst DEF Drain, TypeOK, Control
  <2> QED BY <1>15, <2>1 DEF Drain, TypeOK, Control
<1>16. CASE UNCHANGED vars
      BY <1>16 DEF vars, TypeOK, Control
<1> QED BY <1>1, <1>2, <1>3, <1>4, <1>5, <1>6, <1>7, <1>8, <1>9, <1>10, <1>11,
           <1>12, <1>13, <1>14, <1>15, <1>16 DEF Next, Relay, Closing

(***************************************************************************)
(* Every byte has its place                                                *)
(***************************************************************************)

\* The receiver has the first bytes, and the next ones wait in the ring.
OutPrefix ==
    pc # "drain" =>
        /\ \A i \in 1 .. Len(out) : out[i] = i
        /\ \A i \in 1 .. writeBuffer.size : Contents(writeBuffer)[i] = Len(out) + i
        /\ Len(out) + writeBuffer.size <= sent

\* All bytes that have left the sender and are not lost.
Total == Len(out) + writeBuffer.size + Len(hand) + Len(rcvq)

\* The bytes in hand and in the receive queue follow; all there are while the
\* sender's stream goes on.  What is missing later came with its end.
OnTheWay ==
    pc # "drain" /\ isAlive["to"] # "dead" =>
        /\ \A i \in 1 .. Len(hand) : hand[i] = Len(out) + writeBuffer.size + i
        /\ \A i \in 1 .. Len(rcvq) :
               rcvq[i] = Len(out) + writeBuffer.size + Len(hand) + i
        /\ isAlive["from"] = "alive" => Total = sent
        /\ isAlive["from"] = "dead" =>
               /\ eof /\ Len(rcvq) = 0
               /\ IF pc = "loop" THEN Total = sent /\ Len(hand) < ChunkSize
                  ELSE Len(hand) = 0 /\ sent - Total \in 0 .. ChunkSize - 1

\* The inductive invariant: control, what is out, what is on its way.
StreamInv == ControlInv /\ OutPrefix /\ OnTheWay

\* It holds at the start,
LEMMA InitStream == Init => StreamInv
<1> SUFFICES ASSUME Init PROVE StreamInv
    OBVIOUS
<1>1. ControlInv
      BY InitControl
<1>2. /\ Len(out) = 0 /\ writeBuffer.size = 0 /\ Len(hand) = 0 /\ Len(rcvq) = 0
      /\ sent = 0 /\ isAlive["from"] = "alive"
      BY EmptyRing DEF Init
<1> QED BY <1>1, <1>2 DEF StreamInv, OutPrefix, OnTheWay, Total

\* The types a step of the count needs.
LEMMA StreamTypes ==
    ASSUME ControlInv
    PROVE  /\ Len(out) \in Nat /\ writeBuffer.size \in Nat /\ Len(hand) \in Nat
           /\ Len(rcvq) \in Nat /\ sent \in Nat /\ room \in Nat
           /\ rcvq \in Seq(1 .. MaxBytes) /\ hand \in Seq(1 .. MaxBytes)
           /\ out \in Seq(0 .. MaxBytes) /\ Len(hand) <= ChunkSize
           /\ writeBuffer \in Ring
           /\ isAlive["from"] \in {"alive", "dead"}
           /\ isAlive["to"] \in {"alive", "willdie", "dead"}
           /\ isAlive \in [{"from", "to"} -> {"alive", "willdie", "dead"}]
BY DEF ControlInv, TypeOK, Control

\* and every step keeps it.
LEMMA StreamStep == StreamInv /\ [Next]_vars => StreamInv'
<1> SUFFICES ASSUME StreamInv, [Next]_vars PROVE OutPrefix' /\ OnTheWay'
    BY ControlStep DEF StreamInv
<1> USE DEF kernel, toVars
<1>0. ControlInv /\ OutPrefix /\ OnTheWay
      BY DEF StreamInv
<1>t. /\ Len(out) \in Nat /\ writeBuffer.size \in Nat /\ Len(hand) \in Nat
      /\ Len(rcvq) \in Nat /\ sent \in Nat /\ room \in Nat
      /\ rcvq \in Seq(1 .. MaxBytes) /\ hand \in Seq(1 .. MaxBytes)
      /\ out \in Seq(0 .. MaxBytes) /\ Len(hand) <= ChunkSize
      /\ writeBuffer \in Ring
      /\ isAlive["from"] \in {"alive", "dead"}
      /\ isAlive["to"] \in {"alive", "willdie", "dead"}
      /\ isAlive \in [{"from", "to"} -> {"alive", "willdie", "dead"}]
      BY <1>0, StreamTypes
<1>n. /\ Len(out) \in Nat /\ writeBuffer.size \in Nat /\ Len(hand) \in Nat
      /\ Len(rcvq) \in Nat /\ sent \in Nat
      BY <1>t
<1>1. CASE SenderSends
  <2>1. UNCHANGED <<out, writeBuffer, hand, pc, isAlive, eof>> /\ sent' = sent + 1 /\ ~eof
        BY <1>1 DEF SenderSends
  <2>2. OutPrefix'
        BY <1>0, <1>t, <2>1 DEF OutPrefix
  <2>3. CASE isAlive["from"] = "alive"
    <3>1. rcvq' = Append(rcvq, sent + 1)
          BY <1>1, <2>3 DEF SenderSends
    <3>2. /\ Len(rcvq') = Len(rcvq) + 1 /\ rcvq'[Len(rcvq) + 1] = sent + 1
          /\ \A i \in 1 .. Len(rcvq) : rcvq'[i] = rcvq[i]
          BY <1>t, <3>1
    <3>3. CASE pc = "drain" \/ isAlive["to"] = "dead"
          BY <2>1, <2>2, <3>3 DEF OnTheWay
    <3>4. CASE pc # "drain" /\ isAlive["to"] # "dead"
      <4>1. /\ \A i \in 1 .. Len(rcvq) :
                   rcvq[i] = Len(out) + writeBuffer.size + Len(hand) + i
            /\ Len(out) + writeBuffer.size + Len(hand) + Len(rcvq) = sent
            BY <1>0, <2>3, <3>4 DEF OnTheWay, Total
      <4>2. \A i \in 1 .. Len(rcvq') :
                rcvq'[i] = Len(out) + writeBuffer.size + Len(hand) + i
        <5> SUFFICES ASSUME NEW i \in 1 .. Len(rcvq')
                     PROVE  rcvq'[i] = Len(out) + writeBuffer.size + Len(hand) + i
            OBVIOUS
        <5>1. Len(rcvq') = Len(rcvq) + 1
              BY <3>2
        <5>2. i \in 1 .. Len(rcvq) \/ i = Len(rcvq) + 1
              BY <1>n, <5>1
        <5>3. CASE i \in 1 .. Len(rcvq)
              BY <3>2, <4>1, <5>3
        <5>4. CASE i = Len(rcvq) + 1
          <6>1. rcvq'[i] = sent + 1
                BY <3>2, <5>4
          <6>2. Len(out) + writeBuffer.size + Len(hand) + Len(rcvq) = sent
                BY <4>1
          <6> QED BY <1>n, <5>4, <6>1, <6>2
        <5> QED BY <5>2, <5>3, <5>4
      <4>3. Total' = sent + 1
            BY <1>t, <2>1, <3>2, <4>1 DEF Total
      <4> QED BY <1>0, <2>1, <2>2, <2>3, <3>4, <4>2, <4>3 DEF OnTheWay
    <3> QED BY <3>3, <3>4
  <2>4. CASE isAlive["from"] = "dead"
        BY <1>0, <2>1, <2>2, <2>4 DEF OnTheWay
  <2> QED BY <1>t, <2>3, <2>4
<1>2. CASE SenderCloses \/ ReceiverReads \/ UNCHANGED vars
  <2>1. /\ UNCHANGED <<sent, rcvq, out, writeBuffer, hand, pc, isAlive>>
        /\ eof => eof'
        BY <1>2 DEF SenderCloses, ReceiverReads, vars
  <2> QED BY <1>0, <2>1 DEF OutPrefix, OnTheWay, Total
<1>3. CASE ToEnds \/ CloseTo \/ CloseFrom
  <2>1. /\ UNCHANGED <<sent, eof, rcvq, out, writeBuffer, hand, pc>> /\ pc = "select"
        /\ isAlive'["to"] = "dead" \/ isAlive'["from"] = isAlive["from"]
        /\ isAlive["to"] = "dead" => isAlive'["to"] = "dead"
        BY <1>3, <1>t DEF ToEnds, CloseTo, CloseFrom, sock_done
  <2>2. OutPrefix'
        BY <1>0, <2>1 DEF OutPrefix
  <2> QED BY <1>0, <2>1, <2>2 DEF OnTheWay, Total
<1>4. CASE Readable \/ WriteDone
  <2>1. /\ UNCHANGED <<sent, eof, rcvq, out, writeBuffer, hand, isAlive>>
        /\ isAlive["from"] = "alive" /\ pc # "drain"
        BY <1>4, <1>0 DEF Readable, WriteDone, ControlInv, Control
  <2>2. OutPrefix'
        BY <1>0, <2>1 DEF OutPrefix
  <2> QED BY <1>0, <2>1, <2>2 DEF OnTheWay, Total
<1>5. CASE RelayRead
  <2> DEFINE n == Lesser(ChunkSize, Len(rcvq))
  <2>1. n \in 0 .. Len(rcvq) /\ (n < ChunkSize => n = Len(rcvq))
        BY <1>t DEF Lesser
  <2>2. hand' = SubSeq(rcvq, 1, n) /\ rcvq' = SubSeq(rcvq, n + 1, Len(rcvq))
        BY <1>5 DEF RelayRead, sock_read
  <2>3. isAlive' = IF n < ChunkSize /\ eof
                   THEN [isAlive EXCEPT !["from"] = "dead"] ELSE isAlive
        BY <1>5 DEF RelayRead, sock_read
  <2> HIDE DEF n
  <2>4. /\ UNCHANGED <<sent, eof, out, writeBuffer>> /\ pc = "read" /\ pc' = "loop"
        /\ Len(hand) = 0 /\ isAlive["from"] = "alive"
        BY <1>5, <1>0 DEF RelayRead, ControlInv, Control
  <2>5. /\ Len(hand') = n /\ Len(rcvq') = Len(rcvq) - n
        /\ \A i \in 1 .. n : hand'[i] = rcvq[i]
        /\ \A i \in 1 .. Len(rcvq) - n : rcvq'[i] = rcvq[n + i]
        BY <1>t, <2>1, <2>2, Split
  <2>6. OutPrefix'
        BY <1>0, <2>4 DEF OutPrefix
  <2>7. isAlive'["to"] = isAlive["to"]
        BY <1>t, <2>3
  <2>8. isAlive'["from"] = "dead" => n < ChunkSize /\ eof
        BY <1>t, <2>3, <2>4
  <2>9. OnTheWay'
    <3> SUFFICES ASSUME isAlive["to"] # "dead" PROVE OnTheWay'
        BY <2>7 DEF OnTheWay
    <3>1. /\ \A i \in 1 .. Len(rcvq) : rcvq[i] = Len(out) + writeBuffer.size + i
          /\ Total = sent /\ Total = Len(out) + writeBuffer.size + Len(rcvq)
          BY <1>0, <1>t, <2>4 DEF OnTheWay, Total
    <3>2. ASSUME NEW i \in 1 .. Len(hand')
          PROVE  hand'[i] = Len(out) + writeBuffer.size + i
      <4>1. i \in 1 .. n /\ i \in 1 .. Len(rcvq)
            BY <1>t, <2>1, <2>5
      <4> QED BY <2>5, <3>1, <4>1
    <3>3. ASSUME NEW i \in 1 .. Len(rcvq')
          PROVE  rcvq'[i] = Len(out) + writeBuffer.size + Len(hand') + i
      <4>1. i \in 1 .. Len(rcvq) - n /\ n + i \in 1 .. Len(rcvq)
            BY <1>t, <2>1, <2>5
      <4>2. rcvq'[i] = Len(out) + writeBuffer.size + (n + i)
            BY <2>5, <3>1, <4>1
      <4> QED BY <1>t, <2>1, <2>5, <4>2
    <3>4. Total' = sent
          BY <1>t, <2>1, <2>4, <2>5, <3>1 DEF Total
    <3> QED BY <1>t, <2>1, <2>4, <2>5, <2>8, <3>2, <3>3, <3>4 DEF OnTheWay
  <2> QED BY <2>6, <2>9

<1>6. CASE RelayEnds
  <2>1. /\ UNCHANGED <<sent, eof, rcvq, out, writeBuffer, isAlive>>
        /\ pc = "loop" /\ pc' = "select" /\ Len(hand') = 0
        BY <1>6 DEF RelayEnds
  <2>2. OutPrefix'
        BY <1>0, <2>1 DEF OutPrefix
  <2>3. CASE isAlive["from"] = "alive" /\ isAlive["to"] # "dead"
    <3>1. hand = << >>
          BY <1>6, <1>0, <2>3 DEF RelayEnds, RelayGoesOn, ControlInv, TypeOK, Control
    <3>2. Len(hand) = 0
          BY <3>1
    <3> QED BY <1>0, <1>t, <2>1, <2>2, <2>3, <3>2 DEF OnTheWay, Total
  <2>4. CASE isAlive["from"] = "dead" /\ isAlive["to"] # "dead"
        BY <1>0, <1>t, <2>1, <2>2, <2>4 DEF OnTheWay, Total
  <2> QED BY <1>t, <2>1, <2>2, <2>3, <2>4 DEF OnTheWay
<1>7. CASE RelayWrites
  <2>1. /\ UNCHANGED <<sent, eof, rcvq, out, writeBuffer, hand, isAlive>>
        /\ isAlive["from"] = "alive" /\ pc # "drain"
        BY <1>7 DEF RelayWrites, RelayGoesOn
  <2>2. OutPrefix'
        BY <1>0, <2>1 DEF OutPrefix
  <2> QED BY <1>0, <2>1, <2>2 DEF OnTheWay, Total
<1>8. CASE WriteSome
  <2> DEFINE n == Lesser(room, Len(hand))
  <2>1. n \in 0 .. Len(hand)
        BY <1>t DEF Lesser
  <2>2. out' = out \o SubSeq(hand, 1, n) /\ hand' = SubSeq(hand, n + 1, Len(hand))
        BY <1>8 DEF WriteSome
  <2> HIDE DEF n
  <2>3. /\ UNCHANGED <<sent, eof, rcvq, writeBuffer, isAlive, pc>> /\ pc = "write"
        /\ isAlive["from"] = "alive" /\ isAlive["to"] = "alive" /\ writeBuffer.size = 0
        BY <1>8, <1>0 DEF WriteSome, ControlInv, Control
  <2>4. /\ Len(hand') = Len(hand) - n
        /\ \A i \in 1 .. Len(hand) - n : hand'[i] = hand[n + i]
        /\ SubSeq(hand, 1, n) \in Seq(1 .. MaxBytes) /\ Len(SubSeq(hand, 1, n)) = n
        /\ \A i \in 1 .. n : SubSeq(hand, 1, n)[i] = hand[i]
    <3>1. hand \in Seq(1 .. MaxBytes)
          BY <1>t
    <3>2. /\ SubSeq(hand, 1, n) \in Seq(1 .. MaxBytes) /\ Len(SubSeq(hand, 1, n)) = n
          /\ \A i \in 1 .. n : SubSeq(hand, 1, n)[i] = hand[i]
          BY <2>1, <3>1, Split
    <3>3. /\ Len(SubSeq(hand, n + 1, Len(hand))) = Len(hand) - n
          /\ \A i \in 1 .. Len(hand) - n : SubSeq(hand, n + 1, Len(hand))[i] = hand[n + i]
          BY <2>1, <3>1, Split
    <3> QED BY <2>2, <3>2, <3>3
  <2>5. /\ Len(out') = Len(out) + n
        /\ \A i \in 1 .. Len(out) : out'[i] = out[i]
        /\ \A i \in 1 .. n : out'[Len(out) + i] = hand[i]
        BY <1>t, <2>1, <2>2, <2>4
  <2>6. /\ \A i \in 1 .. Len(out) : out[i] = i
        /\ \A i \in 1 .. Len(hand) : hand[i] = Len(out) + i
        /\ \A i \in 1 .. Len(rcvq) : rcvq[i] = Len(out) + Len(hand) + i
        /\ Len(out) + Len(hand) + Len(rcvq) = sent
        BY <1>0, <1>t, <2>3 DEF OutPrefix, OnTheWay, Total
  <2>7. \A i \in 1 .. Len(out') : out'[i] = i
    <3> SUFFICES ASSUME NEW i \in 1 .. Len(out') PROVE out'[i] = i
        OBVIOUS
    <3>1. CASE i <= Len(out)
          BY <1>t, <2>5, <2>6, <3>1
    <3>2. CASE i > Len(out)
      <4>1. i - Len(out) \in 1 .. n /\ Len(out) + (i - Len(out)) = i
            BY <1>t, <2>1, <2>5, <3>2
      <4>2. i - Len(out) \in 1 .. Len(hand)
            BY <1>t, <2>1, <4>1
      <4>3. out'[i] = hand[i - Len(out)]
            BY <2>5, <4>1
      <4> QED BY <2>6, <4>1, <4>2, <4>3
    <3> QED BY <1>t, <2>1, <2>5, <3>1, <3>2
  <2>8. OutPrefix'
        BY <1>t, <2>1, <2>3, <2>5, <2>6, <2>7 DEF OutPrefix
  <2>9. OnTheWay'
    <3>1. ASSUME NEW i \in 1 .. Len(hand')
          PROVE  hand'[i] = Len(out') + writeBuffer'.size + i
      <4>0. Len(hand') = Len(hand) - n
            BY <2>4
      <4>1. i \in 1 .. Len(hand) - n /\ n + i \in 1 .. Len(hand)
            BY <1>n, <2>1, <4>0
      <4>2. hand'[i] = Len(out) + (n + i)
            BY <2>4, <2>6, <4>1
      <4> QED BY <1>t, <2>1, <2>3, <2>5, <4>2
    <3>2. Len(out') + Len(hand') = Len(out) + Len(hand)
          BY <1>t, <2>1, <2>4, <2>5
    <3>3. \A i \in 1 .. Len(rcvq') : rcvq'[i] = Len(out') + writeBuffer'.size + Len(hand') + i
          BY <1>t, <2>1, <2>3, <2>4, <2>5, <2>6
    <3>4. Total' = sent
      <4>1. /\ Len(out') = Len(out) + n /\ Len(hand') = Len(hand) - n
            /\ writeBuffer'.size = 0 /\ Len(rcvq') = Len(rcvq)
            /\ Len(out) + Len(hand) + Len(rcvq) = sent
            BY <2>3, <2>4, <2>5, <2>6
      <4> QED BY <1>n, <2>1, <4>1 DEF Total
    <3> QED BY <2>3, <3>1, <3>3, <3>4 DEF OnTheWay
  <2> QED BY <2>8, <2>9
<1>9. CASE WriteRest
  <2>1. /\ UNCHANGED <<sent, eof, rcvq, out, isAlive>> /\ pc = "write" /\ pc' = "read"
        /\ writeBuffer' = buffer_write(writeBuffer, hand) /\ Len(hand') = 0
        /\ isAlive["from"] = "alive" /\ isAlive["to"] = "alive" /\ writeBuffer.size = 0
        BY <1>9, <1>0 DEF WriteRest, ControlInv, Control
  <2>2. /\ writeBuffer'.size = Len(hand)
        /\ \A i \in 1 .. Len(hand) : Contents(writeBuffer')[i] = hand[i]
        BY <1>t, <2>1, WriteEmpty
  <2>3. /\ \A i \in 1 .. Len(hand) : hand[i] = Len(out) + i
        /\ \A i \in 1 .. Len(rcvq) : rcvq[i] = Len(out) + Len(hand) + i
        /\ Len(out) + Len(hand) + Len(rcvq) = sent
        BY <1>0, <1>t, <2>1 DEF OnTheWay, Total
  <2>4. Contents(writeBuffer)' = Contents(writeBuffer')
        BY DEF Contents, Slot
  <2>5. OutPrefix'
        BY <1>0, <1>t, <2>1, <2>2, <2>3, <2>4 DEF OutPrefix
  <2> QED BY <1>t, <2>1, <2>2, <2>3, <2>5 DEF OnTheWay, Total
<1>10. CASE Writable \/ Drain
  <2>1. pc' = "drain"
        BY <1>10 DEF Writable, Drain
  <2> QED BY <2>1 DEF OutPrefix, OnTheWay
<1> QED BY <1>1, <1>2, <1>3, <1>4, <1>5, <1>6, <1>7, <1>8, <1>9, <1>10
        DEF Next, Relay, Closing

\* The types of the relay, for any sizes: what sock_read puts in the buffer of
\* handleRead fits it, and what sock_write stores fits the ring (utils.c).
THEOREM StreamTypeCorrect == Spec => []TypeOK
<1>1. ControlInv => TypeOK
      BY DEF ControlInv
<1> QED BY <1>1, InitControl, ControlStep, PTL DEF Spec

(***************************************************************************)
(* What the invariant says                                                 *)
(***************************************************************************)
LEMMA SendsFacts ==
    ASSUME NEW n \in Nat
    PROVE  /\ Sends(n) \in Seq(Nat) /\ Len(Sends(n)) = n
           /\ \A i \in 1 .. n : Sends(n)[i] = i
BY DEF Sends

\* A sequence that counts from 1 is what was sent.
LEMMA Counts ==
    ASSUME NEW S, NEW s \in Seq(S), \A i \in 1 .. Len(s) : s[i] = i
    PROVE  s = Sends(Len(s))
BY DEF Sends

\* Two sequences, the second of which goes on counting where the first stops.
LEMMA CountOn ==
    ASSUME NEW S, NEW s \in Seq(S), \A i \in 1 .. Len(s) : s[i] = i,
           NEW t \in Seq(S), \A i \in 1 .. Len(t) : t[i] = Len(s) + i
    PROVE  /\ s \o t \in Seq(S) /\ Len(s \o t) = Len(s) + Len(t)
           /\ \A i \in 1 .. Len(s \o t) : (s \o t)[i] = i
<1>1. s \o t \in Seq(S) /\ Len(s \o t) = Len(s) + Len(t)
      OBVIOUS
<1>2. ASSUME NEW i \in 1 .. Len(s \o t) PROVE (s \o t)[i] = i
  <2>1. CASE i <= Len(s)
        BY <2>1
  <2>2. CASE i > Len(s)
    <3>1. i - Len(s) \in 1 .. Len(t) /\ (s \o t)[i] = t[i - Len(s)]
          BY <1>1, <2>2
    <3> QED BY <3>1
  <2> QED BY <2>1, <2>2
<1> QED BY <1>1, <1>2

\* What is out is the start of what was sent.
LEMMA TailFromInv == StreamInv => LosesOnlyTheTail
<1> SUFFICES ASSUME StreamInv, isAlive["to"] # "dead", pc # "drain"
             PROVE  LosesOnlyTheTail
    BY DEF LosesOnlyTheTail
<1> DEFINE B == 0 .. MaxBytes
           w == Contents(writeBuffer)
           all == out \o w \o hand \o rcvq
<1>t. /\ Len(out) \in Nat /\ writeBuffer.size \in Nat /\ Len(hand) \in Nat
      /\ Len(rcvq) \in Nat /\ sent \in Nat
      /\ rcvq \in Seq(1 .. MaxBytes) /\ hand \in Seq(1 .. MaxBytes)
      /\ out \in Seq(B) /\ Len(hand) <= ChunkSize
      /\ writeBuffer \in Ring /\ isAlive["from"] \in {"alive", "dead"}
      BY StreamTypes DEF StreamInv
<1>1. rcvq \in Seq(B) /\ hand \in Seq(B)
  <2>1. 1 .. MaxBytes \subseteq B
        OBVIOUS
  <2> QED BY <1>t, <2>1
<1>2. w \in Seq(B) /\ Len(w) = writeBuffer.size
  <2>1. \A i \in 1 .. writeBuffer.size : Slot(writeBuffer, i - 1) \in 0 .. Capacity - 1
    <3> SUFFICES ASSUME NEW i \in 1 .. writeBuffer.size
                 PROVE  Slot(writeBuffer, i - 1) \in 0 .. Capacity - 1
        OBVIOUS
    <3>1. i - 1 \in 0 .. Capacity - 1
          BY <1>t DEF Ring
    <3> QED BY <1>t, <3>1, SlotFacts
  <2>2. \A i \in 1 .. writeBuffer.size : writeBuffer.data[Slot(writeBuffer, i - 1)] \in B
        BY <1>t, <2>1 DEF Ring
  <2>3. w \in [1 .. writeBuffer.size -> B]
        BY <2>2 DEF Contents
  <2> HIDE DEF w, B
  <2>4. w \in Seq(B)
    <3>1. [1 .. writeBuffer.size -> B] \in {[1 .. n -> B] : n \in Nat}
          BY <1>t
    <3> QED BY <2>3, <3>1, SeqDef, Zenon
  <2>5. DOMAIN w = 1 .. Len(w) /\ DOMAIN w = 1 .. writeBuffer.size /\ Len(w) \in Nat
        BY <2>3, <2>4, LenProperties
  <2> QED BY <1>t, <2>4, <2>5
<1> HIDE DEF w, B
<1>3. /\ \A i \in 1 .. Len(out) : out[i] = i
      /\ \A i \in 1 .. Len(w) : w[i] = Len(out) + i
      BY <1>2 DEF StreamInv, OutPrefix, w
<1>4. /\ out \o w \in Seq(B) /\ Len(out \o w) = Len(out) + Len(w)
      /\ \A i \in 1 .. Len(out \o w) : (out \o w)[i] = i
      BY <1>t, <1>2, <1>3, CountOn
<1>5. \A i \in 1 .. Len(hand) : hand[i] = Len(out \o w) + i
      BY <1>2, <1>4 DEF StreamInv, OnTheWay
<1>6. /\ (out \o w) \o hand \in Seq(B)
      /\ Len((out \o w) \o hand) = Len(out \o w) + Len(hand)
      /\ \A i \in 1 .. Len((out \o w) \o hand) : ((out \o w) \o hand)[i] = i
      BY <1>1, <1>4, <1>5, CountOn
<1>7. \A i \in 1 .. Len(rcvq) : rcvq[i] = Len((out \o w) \o hand) + i
  <2>1. Len((out \o w) \o hand) = Len(out) + writeBuffer.size + Len(hand)
        BY <1>2, <1>4, <1>6
  <2> QED BY <2>1 DEF StreamInv, OnTheWay
<1>8. all \in Seq(B) /\ Len(all) = Total /\ \A i \in 1 .. Len(all) : all[i] = i
  <2>1. /\ all \in Seq(B) /\ Len(all) = Len((out \o w) \o hand) + Len(rcvq)
        /\ \A i \in 1 .. Len(all) : all[i] = i
        BY <1>1, <1>6, <1>7, CountOn
  <2> QED BY <1>2, <1>4, <1>6, <2>1 DEF Total
<1>9. all = Sends(Len(all))
      BY <1>8, Counts
<1>10. CASE isAlive["from"] = "alive"
  <2>1. Total = sent
        BY <1>10 DEF StreamInv, OnTheWay
  <2> QED BY <1>8, <1>9, <1>10, <2>1 DEF LosesOnlyTheTail, w
<1>11. CASE isAlive["from"] = "dead"
  <2>1. sent - Total \in 0 .. ChunkSize - 1
        BY <1>11, <1>t DEF StreamInv, OnTheWay
  <2> QED BY <1>8, <1>9, <1>11, <2>1 DEF LosesOnlyTheTail, w
<1> QED BY <1>t, <1>10, <1>11

\* A relay of any chunk, window and buffer size loses, repeats and reorders
\* nothing but the end of the stream that one sock_read returned together with
\* its close, as long as it does not fall into the drain loop of sock_write.
THEOREM TailCorrect == Spec => []LosesOnlyTheTail
BY InitStream, StreamStep, TailFromInv, PTL DEF Spec

(***************************************************************************)
(* RelayPipe                                                               *)
(***************************************************************************)
LEMMA PipeInit == Init => Pipe!Init
<1> SUFFICES ASSUME Init PROVE Pipe!Init
    OBVIOUS
<1>1. Sends(0) = << >>
      BY DEF Sends
<1> QED BY <1>1 DEF Init, Pipe!Init

\* Every step of the relay is a step of the pipe, or changes nothing the pipe's
\* ends can see.
LEMMA PipeStep == StreamInv /\ [Next]_vars => [Pipe!Next]_(Pipe!vars)
<1> SUFFICES ASSUME StreamInv, [Next]_vars PROVE [Pipe!Next]_(Pipe!vars)
    OBVIOUS
<1> DEFINE state == CASE pc = "drain" -> "stalled"
                      [] isAlive["to"] = "dead" -> "closed"
                      [] OTHER -> "open"
           again == IF pc = "drain" THEN buffer_readChar(writeBuffer) ELSE 0
<1> USE DEF kernel, toVars
<1>t. /\ Len(out) \in Nat /\ writeBuffer.size \in Nat /\ Len(hand) \in Nat
      /\ Len(rcvq) \in Nat /\ sent \in Nat /\ room \in Nat
      /\ rcvq \in Seq(1 .. MaxBytes) /\ hand \in Seq(1 .. MaxBytes)
      /\ out \in Seq(0 .. MaxBytes)
      /\ writeBuffer \in Ring
      /\ isAlive["from"] \in {"alive", "dead"}
      /\ isAlive \in [{"from", "to"} -> {"alive", "willdie", "dead"}]
      BY StreamTypes DEF StreamInv
<1>0. ASSUME UNCHANGED <<sent, out, pc, writeBuffer>>, isAlive'["to"] = isAlive["to"]
      PROVE  UNCHANGED Pipe!vars
      BY <1>0 DEF Pipe!vars, Sends, buffer_readChar
<1>1. CASE SenderSends
  <2>1. Sends(sent)' = Append(Sends(sent), Len(Sends(sent)) + 1)
    <3>1. sent' = sent + 1
          BY <1>1 DEF SenderSends
    <3>2. Sends(sent + 1) = Append(Sends(sent), sent + 1)
          BY <1>t DEF Sends
    <3>3. Len(Sends(sent)) = sent
          BY <1>t, SendsFacts
    <3> QED BY <3>1, <3>2, <3>3 DEF Sends
  <2>2. UNCHANGED <<out, pc, writeBuffer, isAlive>>
        BY <1>1 DEF SenderSends
  <2>3. out' = out /\ state' = state /\ again' = again
        BY <2>2 DEF buffer_readChar
  <2>4. Pipe!Send
        BY <2>1, <2>3 DEF Pipe!Send
  <2> QED BY <2>4 DEF Pipe!Next
<1>2. CASE SenderCloses \/ ReceiverReads \/ CloseTo
      BY <1>0, <1>2, <1>t DEF SenderCloses, ReceiverReads, CloseTo
<1>3. CASE Readable \/ RelayRead \/ RelayEnds \/ WriteRest \/ WriteDone
  <2>1. /\ UNCHANGED <<sent, out>> /\ isAlive'["to"] = isAlive["to"]
        /\ pc # "drain" /\ pc' # "drain"
        BY <1>3, <1>t DEF Readable, RelayRead, sock_read, RelayEnds, WriteRest, WriteDone
  <2> QED BY <2>1 DEF Pipe!vars, Sends
<1>4. CASE ToEnds \/ CloseFrom
  <2>1. /\ UNCHANGED <<sent, out, pc>> /\ pc = "select" /\ isAlive["to"] = "alive"
        BY <1>4, <1>t DEF ToEnds, CloseFrom
  <2>2. CASE isAlive'["to"] = "dead"
    <3>1. Pipe!Close
          BY <2>1, <2>2 DEF Pipe!Close, Sends
    <3> QED BY <3>1 DEF Pipe!Next
  <2>3. CASE isAlive'["to"] # "dead"
        BY <2>1, <2>3 DEF Pipe!vars, Sends
  <2> QED BY <2>2, <2>3
<1>5. CASE WriteSome
  <2> DEFINE n == Lesser(room, Len(hand))
  <2>1. n \in 1 .. Len(hand)
    <3>1. Len(hand) > 0
          BY <1>5, <1>t DEF WriteSome
    <3> QED BY <1>5, <1>t, <3>1 DEF Lesser, WriteSome
  <2>2. out' = out \o SubSeq(hand, 1, n)
        BY <1>5 DEF WriteSome
  <2> HIDE DEF n
  <2>3. /\ UNCHANGED <<sent, writeBuffer, isAlive, pc>> /\ pc = "write"
        /\ isAlive["from"] = "alive" /\ isAlive["to"] = "alive" /\ writeBuffer.size = 0
        BY <1>5 DEF WriteSome, StreamInv, ControlInv, Control
  <2>4. OutPrefix' /\ ControlInv'
        BY StreamStep DEF StreamInv
  <2>5. Len(out') = Len(out) + n /\ out' \in Seq(0 .. MaxBytes)
    <3>1. hand \in Seq(1 .. MaxBytes) /\ n \in 0 .. Len(hand)
          BY <1>t, <2>1
    <3>2. SubSeq(hand, 1, n) \in Seq(1 .. MaxBytes) /\ Len(SubSeq(hand, 1, n)) = n
          BY <3>1, Split
    <3>3. out' \in Seq(0 .. MaxBytes)
          BY <2>4 DEF ControlInv, TypeOK
    <3> QED BY <1>t, <2>2, <3>2, <3>3
  <2>6. out' = Sends(Len(out'))
    <3>1. \A i \in 1 .. Len(out') : out'[i] = i
          BY <2>3, <2>4 DEF OutPrefix
    <3> QED BY <2>5, <3>1, Counts
  <2>7. Len(out') \in Len(out) + 1 .. sent
    <3>1. Len(out') + writeBuffer'.size <= sent'
          BY <2>3, <2>4 DEF OutPrefix
    <3> QED BY <1>t, <2>1, <2>3, <2>5, <3>1
  <2>8. out' = SubSeq(Sends(sent), 1, Len(out'))
        BY <1>t, <2>6, <2>7 DEF Sends
  <2>9. Pipe!Deliver
    <3>1. Len(Sends(sent)) = sent
          BY <1>t, SendsFacts
    <3>2. \E k \in Len(out) + 1 .. Len(Sends(sent)) : out' = SubSeq(Sends(sent), 1, k)
          BY <2>7, <2>8, <3>1
    <3>3. Sends(sent)' = Sends(sent) /\ state = "open" /\ state' = state /\ again' = again
          BY <2>3 DEF Sends
    <3> QED BY <3>2, <3>3 DEF Pipe!Deliver
  <2> QED BY <2>9 DEF Pipe!Next
<1>6. ASSUME UNCHANGED <<sent, out, writeBuffer, isAlive>>, isAlive["to"] # "dead",
             pc # "drain", pc' = "drain", writeBuffer.size > 0
      PROVE  Pipe!Next
  <2>1. buffer_readChar(writeBuffer) = Len(out) + 1 /\ Len(out) + 1 <= sent
    <3>1. /\ Contents(writeBuffer)[1] = Len(out) + 1
          /\ Len(out) + writeBuffer.size <= sent
          BY <1>6, <1>t DEF StreamInv, OutPrefix
    <3>2. buffer_readChar(writeBuffer) = Contents(writeBuffer)[1]
          BY <1>6, <1>t, ReadsFirst
    <3> QED BY <1>6, <1>t, <3>1, <3>2
  <2>2. Len(Sends(sent)) = sent /\ Sends(sent)[Len(out) + 1] = Len(out) + 1
    <3>1. Len(out) + 1 \in 1 .. sent
          BY <1>t, <2>1
    <3> QED BY <1>t, <3>1, SendsFacts
  <2>3. Sends(sent)' = Sends(sent) /\ state = "open" /\ state' = "stalled"
        BY <1>6 DEF Sends
  <2>4. again' = Sends(sent)[Len(out) + 1]
        BY <1>6, <2>1, <2>2 DEF buffer_readChar
  <2>5. Pipe!Stall
        BY <1>6, <1>t, <2>1, <2>2, <2>3, <2>4 DEF Pipe!Stall
  <2> QED BY <2>5 DEF Pipe!Next
<1>7. CASE RelayWrites
  <2>1. UNCHANGED <<sent, out, writeBuffer, isAlive>> /\ pc = "loop" /\ isAlive["to"] = "alive"
        BY <1>7 DEF RelayWrites, RelayGoesOn
  <2>2. CASE buffer_isEmpty(writeBuffer)
    <3>1. pc' = "write"
          BY <1>7, <2>2 DEF RelayWrites
    <3> QED BY <2>1, <3>1 DEF Pipe!vars, Sends
  <2>3. CASE ~buffer_isEmpty(writeBuffer)
    <3>1. pc' = "drain" /\ writeBuffer.size > 0
          BY <1>7, <1>t, <2>3 DEF RelayWrites, buffer_isEmpty
    <3> QED BY <1>6, <2>1, <3>1
  <2> QED BY <2>2, <2>3
<1>8. CASE Writable
  <2>1. writeBuffer.size > 0
        BY <1>8 DEF Writable, StreamInv, ControlInv, Control
  <2> QED BY <1>6, <1>8, <2>1 DEF Writable
<1>9. CASE Drain
  <2>1. /\ pc = "drain" /\ UNCHANGED <<sent, pc, writeBuffer, isAlive>>
        /\ out' = Append(out, buffer_readChar(writeBuffer))
        /\ isAlive["to"] # "dead"
        BY <1>9 DEF Drain, StreamInv, ControlInv, Control
  <2>2. /\ Sends(sent)' = Sends(sent) /\ state = "stalled" /\ state' = state
        /\ again = buffer_readChar(writeBuffer) /\ again' = again
        BY <2>1 DEF Sends, buffer_readChar
  <2>3. Pipe!Repeat
        BY <2>1, <2>2 DEF Pipe!Repeat
  <2> QED BY <2>3 DEF Pipe!Next
<1>10. CASE UNCHANGED vars
      BY <1>0, <1>10 DEF vars
<1> QED BY <1>1, <1>2, <1>3, <1>4, <1>5, <1>7, <1>8, <1>9, <1>10
        DEF Next, Relay, Closing

\* The relay of handleRead and sock_write implements RelayPipe: for any sizes,
\* the receiver has a prefix of what was sent until the relay closes or stalls,
\* and after a stall only copies of the byte that was due.
THEOREM PipeCorrect == Spec => PipeSpec
BY PipeInit, PipeStep, InitStream, StreamStep, PTL DEF Spec, PipeSpec, Pipe!Spec

===============================================================================
