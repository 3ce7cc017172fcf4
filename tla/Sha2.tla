--------------------------------- MODULE Sha2 ---------------------------------
(***************************************************************************)
(* The streaming part of lib/sha/sha2.c: how data given in pieces reaches  *)
(* the compression function, which itself is free here: a state is the     *)
(* initial value and the blocks that went in.  A block has Block cells and *)
(* keeps its last ones for the length; the bit count is counted in cells.  *)
(***************************************************************************)
EXTENDS Integers, Sequences, SequencesExt

CONSTANTS
    Block256,       \* SHA256_BLOCK_LENGTH, its last cell holds the length
    Block512        \* SHA512_BLOCK_LENGTH, its last two cells do

ASSUME Sha2Assumption == Block256 \in Nat /\ Block256 > 2 /\ Block512 \in Nat /\ Block512 > 3

Junk == 99          \* what Transform leaves in the buffer it expands the block in
Bit1 == 128         \* 0x80

Fresh(iv, B) == [state |-> [iv |-> iv, blocks |-> << >>],
                 buffer |-> [i \in 1 .. B |-> 0], count |-> 0]

\* bzero(context)
Wiped(B) == Fresh("zero", B)

SHA256_Init == Fresh("H256", Block256)
SHA512_Init == Fresh("H512", Block512)
SHA384_Init == Fresh("H384", Block512)

\* What both Transforms do to the context.
Compress(c, block) ==
    [c EXCEPT !.state.blocks = Append(@, block),
              !.buffer = [i \in DOMAIN @ |-> Junk]]

SHA256_Transform(c, block) == Compress(c, block)
SHA512_Transform(c, block) == Compress(c, block)

\* memcpy and bzero on the buffer, from cell at on.
Copy(c, at, data) ==
    [c EXCEPT !.buffer = [i \in DOMAIN @ |-> IF i \in at .. at + Len(data) - 1
                                             THEN data[i - at + 1] ELSE @[i]]]
Zero(c, at, n) == Copy(c, at, [i \in 1 .. n |-> 0])

Counted(c, n) == [c EXCEPT !.count = @ + n]

\* Whole blocks straight from the data, then the rest into the buffer.
Blocks(c, data, B) ==
    LET n == Len(data) \div B
        Go[i \in 0 .. n] ==
          IF i = 0 THEN c
          ELSE Counted(Compress(Go[i - 1], SubSeq(data, (i - 1) * B + 1, i * B)), B)
        rest == SubSeq(data, n * B + 1, Len(data))
    IN Counted(Copy(Go[n], 1, rest), Len(rest))

\* A buffer that is in use is filled up first.
Absorb(c, data, B) ==
    LET used == c.count % B
        free == B - used
    IN IF used = 0 THEN Blocks(c, data, B)
       ELSE IF Len(data) < free THEN Counted(Copy(c, used + 1, data), Len(data))
       ELSE LET full == Counted(Copy(c, used + 1, SubSeq(data, 1, free)), free)
            IN Blocks(Compress(full, full.buffer), SubSeq(data, free + 1, Len(data)), B)

SHA256_Update(c, data) == Absorb(c, data, Block256)

\* Mutation: a piece that fills the buffer exactly is left there.
SHA512_Update_full(c, data) ==
    LET used == c.count % Block512
    IN IF used # 0 /\ Len(data) = Block512 - used
       THEN Counted(Copy(c, used + 1, data), Len(data))
       ELSE Absorb(c, data, Block512)

SHA512_Update(c, data) == Absorb(c, data, Block512)
SHA384_Update(c, data) == SHA512_Update(c, data)

\* The digest: the first words of the state, 6 of 8 for SHA-384.
FirstWords(c, n) == [iv |-> c.state.iv, blocks |-> c.state.blocks, words |-> n]

\* The bit after the data, zeros, and the length in the last cell; when the bit
\* leaves no room for the length, in a block of its own.
SHA256_Final(c) ==
    LET S == Block256 - 1
        used == c.count % Block256
        b == Copy(c, used + 1, <<Bit1>>)
        u == used + 1
        p == IF used = 0 THEN Copy(Zero(c, 1, S), 1, <<Bit1>>)
             ELSE IF u <= S THEN Zero(b, u + 1, S - u)
             ELSE Zero(LET z == Zero(b, u + 1, Block256 - u)
                       IN SHA256_Transform(z, z.buffer), 1, S)
        q == Copy(p, S + 1, <<c.count>>)
    IN [digest |-> FirstWords(SHA256_Transform(q, q.buffer), 8),
        context |-> Wiped(Block256)]

\* The same with two cells for the length; the last block is cleared a little
\* further than to the length, which is written after.
SHA512_Last(c) ==
    LET S == Block512 - 2
        used == c.count % Block512
        b == Copy(c, used + 1, <<Bit1>>)
        u == used + 1
        p == IF used = 0 THEN Copy(Zero(c, 1, S), 1, <<Bit1>>)
             ELSE IF u <= S THEN Zero(b, u + 1, S - u)
             ELSE Zero(LET z == Zero(b, u + 1, Block512 - u)
                       IN SHA512_Transform(z, z.buffer), 1, Block512 - 1)
        q == Copy(p, S + 1, <<0, c.count>>)
    IN SHA512_Transform(q, q.buffer)

SHA512_Final(c) ==
    [digest |-> FirstWords(SHA512_Last(c), 8), context |-> Wiped(Block512)]

SHA384_Final(c) ==
    [digest |-> FirstWords(SHA512_Last(c), 6), context |-> Wiped(Block512)]

\* Two hexadecimal digits for every byte: as good as the digest.
SHA256_End(c) == SHA256_Final(c).digest
SHA512_End(c) == SHA512_Final(c).digest
SHA384_End(c) == SHA384_Final(c).digest

SHA256_Data(data) == SHA256_End(SHA256_Update(SHA256_Init, data))
SHA512_Data(data) == SHA512_End(SHA512_Update(SHA512_Init, data))
SHA384_Data(data) == SHA384_End(SHA384_Update(SHA384_Init, data))

(***************************************************************************)
(* Properties                                                              *)
(***************************************************************************)
\* The padding of FIPS 180-4: the bit, as few zeros as make whole blocks, the
\* length in the last cells.
Padded(data, B, length) ==
    LET n == CHOOSE n \in 0 .. B - 1 : (Len(data) + 1 + n + Len(length)) % B = 0
        all == data \o <<Bit1>> \o [i \in 1 .. n |-> 0] \o length
    IN [k \in 1 .. Len(all) \div B |-> SubSeq(all, (k - 1) * B + 1, k * B)]

Digest(iv, data, B, length, words) ==
    [iv |-> iv, blocks |-> Padded(data, B, length), words |-> words]

Fed(c, chunks, Update(_, _)) ==
    LET Go[i \in 0 .. Len(chunks)] ==
          IF i = 0 THEN c ELSE Update(Go[i - 1], chunks[i])
    IN Go[Len(chunks)]

\* However the data is cut into calls of Update, empty ones and whole blocks
\* included, what is compressed is the padded message: proofs of both ends of an
\* authentication agree.
AnyChunks(chunks) ==
    LET data == FlattenSeq(chunks)
        n == Len(data)
    IN /\ SHA256_End(Fed(SHA256_Init, chunks, SHA256_Update))
            = Digest("H256", data, Block256, <<n>>, 8)
       /\ SHA512_End(Fed(SHA512_Init, chunks, SHA512_Update))
            = Digest("H512", data, Block512, <<0, n>>, 8)
       /\ SHA384_End(Fed(SHA384_Init, chunks, SHA384_Update))
            = Digest("H384", data, Block512, <<0, n>>, 6)
       /\ SHA256_Data(data) = Digest("H256", data, Block256, <<n>>, 8)
       /\ SHA512_Data(data) = Digest("H512", data, Block512, <<0, n>>, 8)
       /\ SHA384_Data(data) = Digest("H384", data, Block512, <<0, n>>, 6)
===============================================================================
