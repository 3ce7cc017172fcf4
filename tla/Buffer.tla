-------------------------------- MODULE Buffer --------------------------------
(***************************************************************************)
(* The Buffer of utils.c: a ring of Capacity bytes that keeps what a       *)
(* non-blocking socket did not take.  Operators on the record              *)
(* [data, size, startIndex]; the state machine that uses them is           *)
(* SockStream.                                                             *)
(***************************************************************************)
EXTENDS Integers, Sequences

CONSTANT Capacity               \* DEFAULT_BUFFER_SIZE

ASSUME CapacityAssumption == Capacity \in Nat \ {0}

Lesser(m, n) == IF m < n THEN m ELSE n

buffer_init ==
    [data |-> [i \in 0 .. Capacity - 1 |-> 0], size |-> 0, startIndex |-> 0]

buffer_getFreeSpace(b) == Capacity - b.size

buffer_isEmpty(b) == b.size = 0

\* The index k places after startIndex, wrapping round the end of the ring.
Slot(b, k) == (b.startIndex + k) % Capacity

\* What waits in the buffer, oldest byte first.
Contents(b) == [i \in 1 .. b.size |-> b.data[Slot(b, i - 1)]]

\* Mutation: the last byte that fits is not stored.
buffer_write_short(b, d) ==
    LET n == Lesser(buffer_getFreeSpace(b), Len(d)) - 1
    IN [b EXCEPT !.size = @ + n,
                 !.data = [i \in DOMAIN @ |->
                             IF \E k \in 0 .. n - 1 : Slot(b, k) = i
                             THEN d[1 + ((i - b.startIndex) % Capacity)]
                             ELSE @[i]]]

\* Stores what fits and drops the rest.  The bytes go to startIndex, not behind
\* the size bytes that already wait.
buffer_write(b, d) ==
    LET n == Lesser(buffer_getFreeSpace(b), Len(d))
    IN [b EXCEPT !.size = @ + n,
                 !.data = [i \in DOMAIN @ |->
                             IF \E k \in 0 .. n - 1 : Slot(b, k) = i
                             THEN d[1 + ((i - b.startIndex) % Capacity)]
                             ELSE @[i]]]

\* Past the end the new start is capacity - startIndex: 0 when the end was met
\* exactly, negative otherwise.
buffer_clear(b, n) ==
    LET m == Lesser(n, b.size)
        s == b.startIndex + m
    IN [b EXCEPT !.size = @ - m,
                 !.startIndex = IF s >= Capacity THEN Capacity - s ELSE s]

\* buffer_readChar(buffer): called with the buffer it starts at its first byte
\* again, so the sequence of such calls only ever returns that byte.
buffer_readChar(b) == b.data[b.startIndex]
===============================================================================
