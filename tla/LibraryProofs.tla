---------------------------- MODULE LibraryProofs ----------------------------
(***************************************************************************)
(* The functions of Library for every input: the hashes, the containers.   *)
(*                                                                         *)
(* However a message is cut into calls of Update, the digest is the one of *)
(* the padded message, for every block length and every message.  The      *)
(* invariant (Agrees) compares the context with the cells fed so far: the   *)
(* blocks that went into the compression function are the first cells, the *)
(* used part of the buffer is the rest.  Update and Final are sequences of *)
(* three moves that keep it: fill the buffer, compress the full buffer,    *)
(* compress a block of the data.                                           *)
(***************************************************************************)
EXTENDS Library, ContainersProofs

(***************************************************************************)
(* Places in blocks                                                        *)
(***************************************************************************)

\* Division by the block length.
LEMMA DivMod ==
    ASSUME NEW n \in Nat, NEW B \in Nat \ {0}
    PROVE  n \div B \in Nat /\ n % B \in 0 .. B - 1 /\ n = ((n \div B) * B) + (n % B)
OBVIOUS

\* A quotient and a remainder are the only ones.
LEMMA DivUnique ==
    ASSUME NEW q \in Nat, NEW B \in Nat \ {0}, NEW r \in 0 .. B - 1
    PROVE  ((q * B) + r) \div B = q /\ ((q * B) + r) % B = r
<1> DEFINE n == (q * B) + r
<1>1. n \in Nat /\ n = (q * B) + r /\ r \in Nat /\ r < B
    OBVIOUS
<1> HIDE DEF n
<1>2. n \div B = q /\ n % B = r
    BY <1>1
<1> QED
    BY <1>2 DEF n

\* The cells before block k.
At(k, B) == (k - 1) * B

\* Where the cells of a block lie.
LEMMA Places ==
    ASSUME NEW n \in Nat, NEW B \in Nat \ {0}
    PROVE  /\ At(n + 1, B) \in Nat /\ At(n + 2, B) = At(n + 1, B) + B
           /\ \A k \in 1 .. n : At(k, B) \in Nat /\ At(k, B) + B <= At(n + 1, B)
<1>0. At(n + 1, B) = n * B /\ At(n + 2, B) = (n + 1) * B
    BY DEF At
<1>1. n * B \in Nat /\ (n + 1) * B = (n * B) + B
    OBVIOUS
<1>2. ASSUME NEW k \in 1 .. n
      PROVE  At(k, B) \in Nat /\ At(k, B) + B <= n * B
    <2>1. PICK q \in Nat : q = k - 1 /\ q < n
        OBVIOUS
    <2>2. q * B \in Nat /\ (q * B) + B <= n * B
        BY <2>1
    <2> QED
        BY <2>1, <2>2 DEF At
<1> QED
    BY <1>0, <1>1, <1>2

(***************************************************************************)
(* The context and the cells it holds                                      *)
(***************************************************************************)

\* The contexts for blocks of B cells.
Contexts(V, Cell, B) ==
    [state : [iv : V, blocks : Seq([1 .. B -> Cell])], buffer : [1 .. B -> Cell],
     count : Nat]

\* A context: among the cells are those the code writes by itself, the padding,
\* the length, and what Transform leaves.
Context(c, V, Cell, B) ==
    B \in Nat \ {0} /\ Nat \subseteq Cell /\ c \in Contexts(V, Cell, B)

\* Cells to be hashed, and a block of them.
Data(s, Cell) == s \in Seq(Cell)
Block(b, Cell, B) == b \in [1 .. B -> Cell]

\* The blocks of c are the first cells of s, the first u cells of the buffer
\* the others.
Agrees(c, s, u, B) ==
    LET b == c.state.blocks
    IN /\ Len(s) = At(Len(b) + 1, B) + u
       /\ \A k \in 1 .. Len(b), j \in 1 .. B : b[k][j] = s[At(k, B) + j]
       /\ \A j \in 1 .. u : c.buffer[j] = s[At(Len(b) + 1, B) + j]

\* x is s with t behind it.
Joined(s, t, x) ==
    /\ Len(x) = Len(s) + Len(t) /\ Len(s) \in Nat /\ Len(t) \in Nat
    /\ \A i \in 1 .. Len(s) : x[i] = s[i]
    /\ \A i \in 1 .. Len(t) : x[Len(s) + i] = t[i]

\* What is appended to a sequence of cells.
LEMMA Appended ==
    ASSUME NEW Cell, NEW s, Data(s, Cell), NEW t, Data(t, Cell)
    PROVE  Data(s \o t, Cell) /\ Joined(s, t, s \o t)
BY DEF Data, Joined

\* The parts of a context.
LEMMA Parts ==
    ASSUME NEW V, NEW Cell, NEW B, NEW c, Context(c, V, Cell, B)
    PROVE  /\ B \in Nat \ {0} /\ Nat \subseteq Cell
           /\ Block(c.buffer, Cell, B) /\ c.count \in Nat /\ c.state.iv \in V
           /\ c.state.blocks \in Seq([1 .. B -> Cell]) /\ Len(c.state.blocks) \in Nat
BY DEF Context, Contexts, Block

\* d is c with t in its buffer, from the cell at on.
Overlaid(c, d, at, t, B) ==
    /\ d.state = c.state /\ d.count = c.count
    /\ \A j \in 1 .. B :
          d.buffer[j] = IF j \in at .. at + Len(t) - 1 THEN t[j - at + 1] ELSE c.buffer[j]

\* memcpy into the buffer, field by field.
LEMMA Copied ==
    ASSUME NEW V, NEW Cell, NEW B, NEW c, Context(c, V, Cell, B),
           NEW t, Data(t, Cell), NEW at \in Nat \ {0}
    PROVE  Context(Copy(c, at, t), V, Cell, B) /\ Overlaid(c, Copy(c, at, t), at, t, B)
<1> DEFINE buf == [i \in 1 .. B |-> IF i \in at .. at + Len(t) - 1
                                    THEN t[i - at + 1] ELSE c.buffer[i]]
<1>1. /\ c.buffer \in [1 .. B -> Cell] /\ DOMAIN c.buffer = 1 .. B
      /\ c.state \in [iv : V, blocks : Seq([1 .. B -> Cell])] /\ c.count \in Nat
      /\ c = [state |-> c.state, buffer |-> c.buffer, count |-> c.count]
      /\ B \in Nat \ {0} /\ Nat \subseteq Cell
    BY DEF Context, Contexts
<1>2. ASSUME NEW i \in 1 .. B, i \in at .. at + Len(t) - 1 PROVE t[i - at + 1] \in Cell
    <2>1. t \in Seq(Cell) /\ i - at + 1 \in 1 .. Len(t)
        BY <1>1, <1>2 DEF Data
    <2> QED
        BY <2>1, ElementType
<1>3. buf \in [1 .. B -> Cell]
    BY <1>1, <1>2
<1>4. Copy(c, at, t) = [c EXCEPT !.buffer = buf]
    BY <1>1 DEF Copy
<1> HIDE DEF buf
<1>5. Copy(c, at, t) = [state |-> c.state, buffer |-> buf, count |-> c.count]
    BY <1>1, <1>4
<1>6. Context(Copy(c, at, t), V, Cell, B)
    BY <1>1, <1>3, <1>5 DEF Context, Contexts
<1>7. Copy(c, at, t).state = c.state /\ Copy(c, at, t).count = c.count
      /\ Copy(c, at, t).buffer = buf
    BY <1>5
<1> QED
    BY <1>6, <1>7 DEF buf, Overlaid

\* The bit count.
LEMMA CountedFacts ==
    ASSUME NEW V, NEW Cell, NEW B, NEW c, Context(c, V, Cell, B), NEW n \in Nat
    PROVE  /\ Context(Counted(c, n), V, Cell, B)
           /\ Counted(c, n).state = c.state /\ Counted(c, n).count = c.count + n
           /\ Counted(c, n).buffer = c.buffer
BY DEF Context, Contexts, Counted

\* The compression function, field by field.
LEMMA Compressed ==
    ASSUME NEW V, NEW Cell, NEW B, NEW c, Context(c, V, Cell, B),
           NEW block, Block(block, Cell, B)
    PROVE  /\ Context(Compress(c, block), V, Cell, B)
           /\ Compress(c, block).state.iv = c.state.iv
           /\ Compress(c, block).state.blocks = Append(c.state.blocks, block)
           /\ Compress(c, block).count = c.count
<1> DEFINE buf == [i \in 1 .. B |-> Junk]
           bs == Append(c.state.blocks, block)
<1>1. /\ c.buffer \in [1 .. B -> Cell] /\ DOMAIN c.buffer = 1 .. B
      /\ c.state \in [iv : V, blocks : Seq([1 .. B -> Cell])] /\ c.count \in Nat
      /\ c.state.blocks \in Seq([1 .. B -> Cell]) /\ c.state.iv \in V
      /\ B \in Nat \ {0} /\ Nat \subseteq Cell /\ c \in Contexts(V, Cell, B)
    BY DEF Context, Contexts
<1>2. buf \in [1 .. B -> Cell] /\ bs \in Seq([1 .. B -> Cell])
    BY <1>1 DEF Junk, Block
<1>3. Compress(c, block) = [c EXCEPT !.state.blocks = bs, !.buffer = buf]
    BY <1>1 DEF Compress
<1> HIDE DEF bs, buf
<1>4. Compress(c, block) = [state |-> [iv |-> c.state.iv, blocks |-> bs],
                            buffer |-> buf, count |-> c.count]
    BY <1>1, <1>3 DEF Contexts
<1>5. Context(Compress(c, block), V, Cell, B)
    BY <1>1, <1>2, <1>4 DEF Context, Contexts
<1> QED
    BY <1>4, <1>5 DEF bs

(***************************************************************************)
(* The three moves                                                         *)
(***************************************************************************)

\* Cells copied behind those in use are held.  More may be copied than counts
\* (r of them do): the rest is written over later.
LEMMA Filled ==
    ASSUME NEW V, NEW Cell, NEW B, NEW c, Context(c, V, Cell, B),
           NEW s, Data(s, Cell), NEW u \in 0 .. B, Agrees(c, s, u, B),
           NEW t, Data(t, Cell), NEW r, Data(r, Cell), u + Len(r) <= B,
           Len(r) <= Len(t), \A i \in 1 .. Len(r) : t[i] = r[i]
    PROVE  Agrees(Copy(c, u + 1, t), s \o r, u + Len(r), B)
<1> DEFINE d == Copy(c, u + 1, t)
           b == c.state.blocks
           n == Len(b)
           N == At(n + 1, B)
<1>1. Overlaid(c, d, u + 1, t, B)
    <2>1. u + 1 \in Nat \ {0}
        BY Parts
    <2> QED
        BY <2>1, Copied
<1> HIDE DEF d
<1>2. n \in Nat /\ B \in Nat \ {0} /\ Len(r) \in Nat /\ Len(t) \in Nat
    <2>1. n \in Nat /\ B \in Nat \ {0}
        BY Parts
    <2>2. Len(r) \in Nat /\ Len(t) \in Nat
        BY DEF Data
    <2> QED
        BY <2>1, <2>2
<1>3. /\ Len(s) = N + u
      /\ \A k \in 1 .. n, j \in 1 .. B : b[k][j] = s[At(k, B) + j]
      /\ \A j \in 1 .. u : c.buffer[j] = s[N + j]
    BY DEF Agrees
<1> HIDE DEF n
<1>4. N \in Nat /\ \A k \in 1 .. n : At(k, B) \in Nat /\ At(k, B) + B <= N
    BY <1>2, Places
<1> HIDE DEF N, b
<1>5. Joined(s, r, s \o r)
    BY Appended
<1> USE DEF Joined, Overlaid
<1>6. ASSUME NEW k \in 1 .. n, NEW j \in 1 .. B
      PROVE  b[k][j] = (s \o r)[At(k, B) + j]
    <2>1. At(k, B) \in Nat /\ At(k, B) + B <= N
        BY <1>4
    <2>2. At(k, B) + j \in 1 .. Len(s)
        BY <1>2, <1>3, <1>4, <2>1
    <2> QED
        BY <1>3, <1>5, <2>2
<1>7. ASSUME NEW j \in 1 .. u + Len(r)
      PROVE  d.buffer[j] = (s \o r)[N + j]
    <2>1. CASE j <= u
        <3>1. j \in 1 .. B /\ j \in 1 .. u /\ j \notin u + 1 .. u + 1 + Len(t) - 1
            BY <1>2, <2>1
        <3>2. N + j \in 1 .. Len(s)
            BY <1>3, <1>4, <3>1
        <3> QED
            BY <1>1, <1>3, <1>5, <3>1, <3>2
    <2>2. CASE j > u
        <3>1. PICK i \in 1 .. Len(r) : j = u + i
            <4>1. j - u \in 1 .. Len(r) /\ j = u + (j - u)
                BY <1>2, <2>2
            <4> QED
                BY <4>1
        <3>2. j \in 1 .. B /\ j \in u + 1 .. u + 1 + Len(t) - 1 /\ j - (u + 1) + 1 = i
            BY <1>2, <3>1
        <3>3. N + j = Len(s) + i
            BY <1>3, <1>4, <3>1
        <3>4. d.buffer[j] = t[i] /\ t[i] = r[i]
            BY <1>1, <3>1, <3>2
        <3> QED
            BY <1>5, <3>3, <3>4
    <2>3. j <= u \/ j > u
        BY <1>2
    <2> QED
        BY <2>1, <2>2, <2>3
<1>8. Len(s \o r) = N + (u + Len(r))
    BY <1>2, <1>3, <1>4, <1>5
<1>9. d.state.blocks = b
    BY <1>1 DEF b
<1> QED
    BY <1>6, <1>7, <1>8, <1>9 DEF Agrees, d, n, N

\* A block more goes into the compression function.
LEMMA Grown ==
    ASSUME NEW V, NEW Cell, NEW B, NEW c, Context(c, V, Cell, B),
           NEW block, Block(block, Cell, B),
           NEW s, NEW m \in Nat, m = Len(c.state.blocks),
           Len(s) = At(m + 1, B) + B,
           \A k \in 1 .. m, j \in 1 .. B : c.state.blocks[k][j] = s[At(k, B) + j],
           \A j \in 1 .. B : block[j] = s[At(m + 1, B) + j]
    PROVE  Agrees(Compress(c, block), s, 0, B)
<1> DEFINE d == Compress(c, block)
           b == c.state.blocks
           e == d.state.blocks
<1>1. e = Append(b, block)
    BY Compressed
<1>2. b \in Seq([1 .. B -> Cell]) /\ B \in Nat \ {0} /\ block \in [1 .. B -> Cell]
    BY Parts DEF Block
<1> HIDE DEF d, e
<1>3. Len(e) = m + 1 /\ (\A k \in 1 .. m : e[k] = b[k]) /\ e[m + 1] = block
    BY <1>1, <1>2
<1>4. At(m + 2, B) = At(m + 1, B) + B /\ (m + 1) + 1 = m + 2 /\ At(m + 1, B) \in Nat
    BY <1>2, Places
<1>5. ASSUME NEW k \in 1 .. Len(e), NEW j \in 1 .. B
      PROVE  e[k][j] = s[At(k, B) + j]
    <2>1. CASE k \in 1 .. m
        BY <1>3, <2>1
    <2>2. CASE k = m + 1
        BY <1>3, <2>2
    <2> QED
        BY <1>3, <2>1, <2>2
<1>6. Len(s) = At(Len(e) + 1, B) + 0
    BY <1>3, <1>4
<1> QED
    BY <1>5, <1>6 DEF Agrees, d, e

\* The full buffer is compressed.
LEMMA Flushed ==
    ASSUME NEW V, NEW Cell, NEW B, NEW c, Context(c, V, Cell, B),
           NEW s, Agrees(c, s, B, B)
    PROVE  Agrees(Compress(c, c.buffer), s, 0, B)
<1> DEFINE m == Len(c.state.blocks)
<1>1. m \in Nat /\ Block(c.buffer, Cell, B)
    BY Parts
<1>2. /\ Len(s) = At(m + 1, B) + B
      /\ \A k \in 1 .. m, j \in 1 .. B : c.state.blocks[k][j] = s[At(k, B) + j]
      /\ \A j \in 1 .. B : c.buffer[j] = s[At(m + 1, B) + j]
    BY DEF Agrees
<1> QED
    BY <1>1, <1>2, Grown

\* A block of the data is compressed without a copy.
LEMMA Passed ==
    ASSUME NEW V, NEW Cell, NEW B, NEW c, Context(c, V, Cell, B),
           NEW s, Data(s, Cell), Agrees(c, s, 0, B), NEW t, Data(t, Cell), Len(t) = B
    PROVE  Block(t, Cell, B) /\ Agrees(Compress(c, t), s \o t, 0, B)
<1> DEFINE m == Len(c.state.blocks)
           N == At(m + 1, B)
<1>1. m \in Nat /\ B \in Nat \ {0}
    BY Parts
<1>2. /\ Len(s) = N + 0
      /\ \A k \in 1 .. m, j \in 1 .. B : c.state.blocks[k][j] = s[At(k, B) + j]
    BY DEF Agrees
<1> HIDE DEF m
<1>3. N \in Nat /\ \A k \in 1 .. m : At(k, B) \in Nat /\ At(k, B) + B <= N
    BY <1>1, Places
<1> HIDE DEF N
<1>4. Joined(s, t, s \o t)
    BY Appended
<1> USE DEF Joined
<1>5. Len(s) = N
    BY <1>2, <1>3
<1>6. ASSUME NEW k \in 1 .. m, NEW j \in 1 .. B
      PROVE  c.state.blocks[k][j] = (s \o t)[At(k, B) + j]
    <2>1. At(k, B) \in Nat /\ At(k, B) + B <= N
        BY <1>3
    <2>2. At(k, B) + j \in 1 .. Len(s)
        BY <1>3, <1>5, <2>1
    <2> QED
        BY <1>2, <1>4, <2>2
<1>7. Block(t, Cell, B)
    BY DEF Data, Block
<1>8. Len(s \o t) = N + B /\ \A j \in 1 .. B : t[j] = (s \o t)[N + j]
    BY <1>4, <1>5
<1>9. m = Len(c.state.blocks)
    BY DEF m
<1> QED
    BY <1>1, <1>6, <1>7, <1>8, <1>9, Grown DEF N

(***************************************************************************)
(* Update                                                                  *)
(***************************************************************************)

\* The cells of block i of the data.
Piece(t, i, B) == SubSeq(t, (i - 1) * B + 1, i * B)

\* The first k cells.
Start(t, k) == SubSeq(t, 1, k)

\* r is the cells of t from behind place k to place m.
Between(t, k, m, r, Cell) ==
    /\ Data(Start(t, k), Cell) /\ Len(Start(t, k)) = k
    /\ Data(r, Cell) /\ Len(r) = m - k
    /\ Start(t, k) \o r = Start(t, m)

\* The first cells of some data, and those from there to another place.
LEMMA Cut ==
    ASSUME NEW Cell, NEW t, Data(t, Cell), NEW m \in 0 .. Len(t), NEW k \in 0 .. m
    PROVE  Between(t, k, m, SubSeq(t, k + 1, m), Cell)
<1>1. t \in Seq(Cell) /\ Len(t) \in Nat
    BY DEF Data
<1>2. /\ SubSeq(t, 1, k) \in Seq(Cell) /\ Len(SubSeq(t, 1, k)) = k
      /\ SubSeq(t, k + 1, m) \in Seq(Cell) /\ Len(SubSeq(t, k + 1, m)) = m - k
      /\ SubSeq(t, 1, m) \in Seq(Cell) /\ Len(SubSeq(t, 1, m)) = m
    BY <1>1
<1>3. ASSUME NEW j \in 1 .. m
      PROVE  (SubSeq(t, 1, k) \o SubSeq(t, k + 1, m))[j] = SubSeq(t, 1, m)[j]
    <2>1. SubSeq(t, 1, m)[j] = t[j]
        BY <1>1
    <2>2. CASE j <= k
        BY <1>1, <1>2, <2>1, <2>2
    <2>3. CASE j > k
        BY <1>1, <1>2, <2>1, <2>3
    <2> QED
        BY <1>1, <2>2, <2>3
<1>4. SubSeq(t, 1, k) \o SubSeq(t, k + 1, m) = SubSeq(t, 1, m)
    <2> DEFINE x == SubSeq(t, 1, k) \o SubSeq(t, k + 1, m)
               y == SubSeq(t, 1, m)
    <2>1. /\ x \in Seq(Cell) /\ y \in Seq(Cell) /\ Len(x) = m /\ Len(y) = m
          /\ \A j \in 1 .. m : x[j] = y[j]
        BY <1>1, <1>2, <1>3
    <2> HIDE DEF x, y
    <2>2. x = y
        BY <2>1, SameSequence
    <2> QED
        BY <2>2 DEF x, y
<1> QED
    BY <1>2, <1>4 DEF Data, Start, Between

\* None of the cells, and all of them.
LEMMA Ends ==
    ASSUME NEW Cell, NEW s, Data(s, Cell), NEW t, Data(t, Cell)
    PROVE  s \o Start(t, 0) = s /\ Start(t, Len(t)) = t
BY DEF Data, Start

\* Three parts may be joined in either order.
Chained(s, t, r) == (s \o t) \o r = s \o (t \o r)

\* They always may.
LEMMA Joins ==
    ASSUME NEW Cell, NEW s, Data(s, Cell), NEW t, Data(t, Cell), NEW r, Data(r, Cell)
    PROVE  Chained(s, t, r)
<1> DEFINE x == (s \o t) \o r
           y == s \o (t \o r)
<1>1. /\ x \in Seq(Cell) /\ y \in Seq(Cell) /\ Len(x) = Len(y)
      /\ \A j \in 1 .. Len(x) : x[j] = y[j]
    BY DEF Data
<1> HIDE DEF x, y
<1>2. x = y
    BY <1>1, SameSequence
<1> QED
    BY <1>2 DEF x, y, Chained

\* c is what Update has made of the cells s, u of them in the buffer.
Upto(c, s, u, V, Cell, B) ==
    /\ Context(c, V, Cell, B) /\ Data(s, Cell) /\ u \in 0 .. B
    /\ Agrees(c, s, u, B) /\ c.count = Len(s)

\* The buffer is filled and what was copied counted.
LEMMA UptoFilled ==
    ASSUME NEW V, NEW Cell, NEW B, NEW c, NEW s, NEW u, Upto(c, s, u, V, Cell, B),
           NEW t, Data(t, Cell), u + Len(t) <= B
    PROVE  Upto(Counted(Copy(c, u + 1, t), Len(t)), s \o t, u + Len(t), V, Cell, B)
<1> DEFINE d == Copy(c, u + 1, t)
           e == Counted(d, Len(t))
<1>1. /\ Context(c, V, Cell, B) /\ Data(s, Cell) /\ u \in 0 .. B
      /\ Agrees(c, s, u, B) /\ c.count = Len(s)
    BY DEF Upto
<1>2. Len(t) \in Nat /\ Len(s) \in Nat
    BY <1>1 DEF Data
<1>3. B \in Nat \ {0} /\ u + 1 \in Nat \ {0} /\ u + Len(t) \in 0 .. B
    <2>1. B \in Nat \ {0}
        BY <1>1, Parts
    <2> QED
        BY <1>1, <1>2, <2>1
<1>4. Context(d, V, Cell, B) /\ Overlaid(c, d, u + 1, t, B)
    BY <1>1, <1>3, Copied
<1>5. Agrees(d, s \o t, u + Len(t), B)
    BY <1>1, <1>2, Filled
<1> HIDE DEF d
<1>6. Context(e, V, Cell, B) /\ e.state = d.state /\ e.count = d.count + Len(t)
      /\ e.buffer = d.buffer
    BY <1>2, <1>4, CountedFacts
<1>7. Data(s \o t, Cell) /\ Joined(s, t, s \o t)
    BY <1>1, Appended
<1>8. e.count = Len(s \o t)
    BY <1>1, <1>4, <1>6, <1>7 DEF Overlaid, Joined
<1> HIDE DEF e
<1>9. Agrees(e, s \o t, u + Len(t), B)
    BY <1>5, <1>6 DEF Agrees
<1>10. Upto(e, s \o t, u + Len(t), V, Cell, B)
    BY <1>3, <1>6, <1>7, <1>8, <1>9 DEF Upto
<1> QED
    BY <1>10 DEF e, d

\* The full buffer is compressed, nothing is counted.
LEMMA UptoFlushed ==
    ASSUME NEW V, NEW Cell, NEW B, NEW c, NEW s, Upto(c, s, B, V, Cell, B)
    PROVE  Upto(Compress(c, c.buffer), s, 0, V, Cell, B)
<1>1. /\ Context(c, V, Cell, B) /\ Data(s, Cell) /\ Agrees(c, s, B, B)
      /\ c.count = Len(s)
    BY DEF Upto
<1>2. Block(c.buffer, Cell, B) /\ 0 \in 0 .. B
    <2>1. Block(c.buffer, Cell, B) /\ B \in Nat \ {0}
        BY <1>1, Parts
    <2> QED
        BY <2>1
<1>3. Context(Compress(c, c.buffer), V, Cell, B) /\ Compress(c, c.buffer).count = c.count
    BY <1>1, <1>2, Compressed
<1>4. Agrees(Compress(c, c.buffer), s, 0, B)
    BY <1>1, Flushed
<1> QED
    BY <1>1, <1>2, <1>3, <1>4 DEF Upto

\* A block of the data is compressed and counted.
LEMMA UptoPassed ==
    ASSUME NEW V, NEW Cell, NEW B, NEW c, NEW s, Upto(c, s, 0, V, Cell, B),
           NEW t, Data(t, Cell), Len(t) = B
    PROVE  Upto(Counted(Compress(c, t), B), s \o t, 0, V, Cell, B)
<1> DEFINE d == Compress(c, t)
           e == Counted(d, B)
<1>1. /\ Context(c, V, Cell, B) /\ Data(s, Cell) /\ Agrees(c, s, 0, B)
      /\ c.count = Len(s)
    BY DEF Upto
<1>2. B \in Nat \ {0} /\ 0 \in 0 .. B /\ B \in Nat
    <2>1. B \in Nat \ {0}
        BY <1>1, Parts
    <2> QED
        BY <2>1
<1>3. Block(t, Cell, B) /\ Agrees(d, s \o t, 0, B)
    BY <1>1, Passed
<1>4. Context(d, V, Cell, B) /\ d.count = c.count
    BY <1>1, <1>3, Compressed
<1> HIDE DEF d
<1>5. Context(e, V, Cell, B) /\ e.state = d.state /\ e.count = d.count + B
      /\ e.buffer = d.buffer
    BY <1>2, <1>4, CountedFacts
<1>6. Data(s \o t, Cell) /\ Joined(s, t, s \o t)
    BY <1>1, Appended
<1>7. e.count = Len(s \o t)
    BY <1>1, <1>4, <1>5, <1>6 DEF Joined
<1> HIDE DEF e
<1>8. Agrees(e, s \o t, 0, B)
    BY <1>3, <1>5 DEF Agrees
<1>9. Upto(e, s \o t, 0, V, Cell, B)
    BY <1>2, <1>5, <1>6, <1>7, <1>8 DEF Upto
<1> QED
    BY <1>9 DEF e, d

\* The states of the loop over the whole blocks of the data.
BlocksRun(f, c, t, n, V, Cell, B) ==
    /\ f \in [0 .. n -> Contexts(V, Cell, B)]
    /\ f[0] = c
    /\ \A i \in 1 .. n : f[i] = Counted(Compress(f[i - 1], Piece(t, i, B)), B)

\* Block i of the data lies behind the blocks before it.
IsPiece(t, i, B, Cell) ==
    /\ Data(Piece(t, i, B), Cell) /\ Len(Piece(t, i, B)) = B
    /\ Block(Piece(t, i, B), Cell, B)
    /\ At(i, B) \in Nat /\ At(i + 1, B) \in Nat
    /\ Start(t, At(i, B)) \o Piece(t, i, B) = Start(t, At(i + 1, B))

\* A piece of the data is a block.
LEMMA PieceFacts ==
    ASSUME NEW Cell, NEW B \in Nat \ {0}, NEW t, Data(t, Cell),
           NEW n \in Nat, n * B <= Len(t), NEW i \in 1 .. n
    PROVE  IsPiece(t, i, B, Cell)
<1> DEFINE k == At(i, B)
           m == At(i + 1, B)
<1>1. At(n + 1, B) = n * B /\ At(n + 1, B) \in Nat
    BY Places DEF At
<1>2. k \in Nat /\ k + B <= At(n + 1, B)
    BY Places
<1>3. i - 1 \in Nat /\ (i - 1) + 1 = i /\ (i - 1) + 2 = i + 1
    OBVIOUS
<1>4. m = k + B
    BY <1>3, Places
<1>5. Piece(t, i, B) = SubSeq(t, k + 1, m)
    <2>1. (i - 1) * B = At(i, B) /\ i * B = At(i + 1, B)
        BY <1>3 DEF At
    <2> QED
        BY <2>1 DEF Piece
<1> HIDE DEF k, m
<1>6. Len(t) \in Nat
    BY DEF Data
<1>7. m \in 0 .. Len(t) /\ k \in 0 .. m /\ m - k = B
    BY <1>1, <1>2, <1>4, <1>6
<1>8. Between(t, k, m, Piece(t, i, B), Cell)
    BY <1>5, <1>7, Cut
<1>9. /\ Data(Piece(t, i, B), Cell) /\ Len(Piece(t, i, B)) = B
      /\ Start(t, k) \o Piece(t, i, B) = Start(t, m)
    BY <1>7, <1>8 DEF Between
<1>10. Block(Piece(t, i, B), Cell, B)
    BY <1>9 DEF Data, Block
<1> QED
    BY <1>2, <1>7, <1>9, <1>10 DEF k, m, IsPiece

\* What is left of the data behind its whole blocks.
Rest(t, B) == SubSeq(t, (Len(t) \div B) * B + 1, Len(t))

\* The loop of Blocks.
LEMMA BlocksLoop ==
    ASSUME NEW V, NEW Cell, NEW B, NEW c, Context(c, V, Cell, B), NEW t, Data(t, Cell),
           NEW n \in Nat, n = Len(t) \div B, n * B <= Len(t)
    PROVE  \E f : /\ BlocksRun(f, c, t, n, V, Cell, B)
                  /\ Blocks(c, t, B) = Counted(Copy(f[n], 1, Rest(t, B)), Len(Rest(t, B)))
<1> DEFINE W == Contexts(V, Cell, B)
           step(d, i) == Counted(Compress(d, Piece(t, i, B)), B)
           F == [w \in W \X (1 .. n) |-> step(w[1], w[2])]
           go == CHOOSE g : g = [i \in 0 .. n |-> IF i = 0 THEN c ELSE step(g[i - 1], i)]
<1>1. Blocks(c, t, B) = Counted(Copy(go[n], 1, Rest(t, B)), Len(Rest(t, B)))
    BY DEF Blocks, Rest, Piece
<1>2. B \in Nat \ {0} /\ Nat \subseteq Cell /\ c \in W
    BY DEF Context
<1>3. ASSUME NEW d \in W, NEW i \in 1 .. n PROVE step(d, i) \in W
    <2>1. Context(d, V, Cell, B)
        BY <1>2 DEF Context
    <2>2. Block(Piece(t, i, B), Cell, B)
        BY <1>2, PieceFacts DEF IsPiece
    <2>3. Context(Compress(d, Piece(t, i, B)), V, Cell, B)
        BY <2>1, <2>2, Compressed
    <2>4. B \in Nat
        BY <1>2
    <2>5. Context(step(d, i), V, Cell, B)
        BY <2>3, <2>4, CountedFacts
    <2> QED
        BY <2>5 DEF Context
<1> HIDE DEF step, W
<1>4. F \in [W \X (1 .. n) -> W] /\ \A d \in W, i \in 1 .. n : F[<<d, i>>] = step(d, i)
    BY <1>3
<1> HIDE DEF F
<1>5. PICK g : IsRec(g, W, n, c, F)
    BY <1>2, <1>4, RecExists
<1>6. ASSUME NEW i \in 1 .. n PROVE g[i] = step(g[i - 1], i)
    <2>1. g[i] = F[<<g[i - 1], i>>] /\ g \in [0 .. n -> W] /\ i - 1 \in 0 .. n
        BY <1>5 DEF IsRec
    <2>2. g[i - 1] \in W
        BY <2>1
    <2> QED
        BY <1>4, <2>1, <2>2
<1>7. g = [i \in 0 .. n |-> IF i = 0 THEN c ELSE step(g[i - 1], i)]
    <2>1. g \in [0 .. n -> W] /\ g[0] = c
        BY <1>5 DEF IsRec
    <2>2. ASSUME NEW i \in 0 .. n PROVE g[i] = IF i = 0 THEN c ELSE step(g[i - 1], i)
        <3>1. CASE i = 0
            BY <2>1, <3>1
        <3>2. CASE i # 0
            <4>1. i \in 1 .. n
                BY <3>2
            <4> QED
                BY <1>6, <3>2, <4>1
        <3> QED
            BY <3>1, <3>2
    <2> QED
        BY <2>1, <2>2
<1>8. go = [i \in 0 .. n |-> IF i = 0 THEN c ELSE step(go[i - 1], i)]
    BY <1>7
<1> HIDE DEF go
<1>9. go[0] = c /\ DOMAIN go = 0 .. n
    BY <1>8
<1>10. ASSUME NEW i \in 1 .. n PROVE go[i] = step(go[i - 1], i)
    <2>1. i \in 0 .. n /\ i # 0
        OBVIOUS
    <2> QED
        BY <1>8, <2>1
<1> DEFINE S == {i \in Nat : i <= n => go[i] \in W}
<1>11. 0 \in S
    BY <1>2, <1>9
<1>12. ASSUME NEW i \in Nat, i \in S PROVE i + 1 \in S
    <2> SUFFICES ASSUME i + 1 <= n PROVE go[i + 1] \in W
        OBVIOUS
    <2>1. i + 1 \in 1 .. n /\ (i + 1) - 1 = i /\ go[i] \in W
        BY <1>12
    <2>2. go[i + 1] = step(go[i], i + 1)
        BY <1>10, <2>1
    <2> QED
        BY <1>3, <2>1, <2>2
<1>13. \A i \in Nat : i \in S
    <2> HIDE DEF S
    <2> QED
        BY <1>11, <1>12, SetInduction
<1>14. go \in [0 .. n -> W]
    <2>1. \A i \in 0 .. n : go[i] \in W
        BY <1>13
    <2> QED
        BY <1>8, <1>9, <2>1
<1>15. BlocksRun(go, c, t, n, V, Cell, B)
    BY <1>9, <1>10, <1>14 DEF BlocksRun, step, W
<1> QED
    BY <1>1, <1>15

\* The places of the whole blocks and of the rest.
LEMMA RestFacts ==
    ASSUME NEW Cell, NEW B \in Nat \ {0}, NEW t, Data(t, Cell)
    PROVE  \E n \in Nat : /\ n = Len(t) \div B /\ n * B <= Len(t)
                          /\ At(n + 1, B) \in 0 .. Len(t)
                          /\ Between(t, At(n + 1, B), Len(t), Rest(t, B), Cell)
                          /\ Len(Rest(t, B)) \in 0 .. B - 1
<1> DEFINE n == Len(t) \div B
           k == At(n + 1, B)
           m == Len(t)
<1>1. m \in Nat
    BY DEF Data
<1>2. n \in Nat /\ m % B \in 0 .. B - 1 /\ m = (n * B) + (m % B)
    BY <1>1, DivMod
<1>3. k = n * B
    BY <1>2 DEF At
<1>4. Rest(t, B) = SubSeq(t, n * B + 1, m)
    BY DEF Rest
<1> HIDE DEF n, k
<1>5. n * B \in Nat
    BY <1>2
<1>6. k \in 0 .. m /\ m \in 0 .. m /\ n * B <= m /\ m - k \in 0 .. B - 1
    BY <1>1, <1>2, <1>3, <1>5
<1>7. Rest(t, B) = SubSeq(t, k + 1, m)
    BY <1>3, <1>4
<1>8. Between(t, k, m, Rest(t, B), Cell)
    <2> HIDE DEF m
    <2>1. m \in 0 .. Len(t)
        BY <1>6 DEF m
    <2> QED
        BY <1>6, <1>7, <2>1, Cut
<1>9. Len(Rest(t, B)) \in 0 .. B - 1
    BY <1>6, <1>8 DEF Between
<1> QED
    BY <1>2, <1>6, <1>8, <1>9 DEF n, k

\* Blocks, from an empty buffer.
LEMMA UptoBlocks ==
    ASSUME NEW V, NEW Cell, NEW B, NEW c, NEW s, Upto(c, s, 0, V, Cell, B),
           NEW t, Data(t, Cell)
    PROVE  \E v \in 0 .. B - 1 : Upto(Blocks(c, t, B), s \o t, v, V, Cell, B)
<1>1. Context(c, V, Cell, B) /\ Data(s, Cell)
    BY DEF Upto
<1>2. B \in Nat \ {0}
    BY <1>1, Parts
<1>3. PICK n \in Nat : /\ n = Len(t) \div B /\ n * B <= Len(t)
                       /\ At(n + 1, B) \in 0 .. Len(t)
                       /\ Between(t, At(n + 1, B), Len(t), Rest(t, B), Cell)
                       /\ Len(Rest(t, B)) \in 0 .. B - 1
    BY <1>2, RestFacts
<1>4. PICK f : /\ BlocksRun(f, c, t, n, V, Cell, B)
               /\ Blocks(c, t, B) = Counted(Copy(f[n], 1, Rest(t, B)), Len(Rest(t, B)))
    BY <1>1, <1>3, BlocksLoop
<1> DEFINE X(i) == s \o Start(t, At(i + 1, B))
           S == {i \in Nat : i <= n => Upto(f[i], X(i), 0, V, Cell, B)}
<1>5. 0 \in S
    <2>1. f[0] = c
        BY <1>4 DEF BlocksRun
    <2>2. At(0 + 1, B) = 0
        BY <1>2 DEF At
    <2>3. s \o Start(t, 0) = s
        BY <1>1, Ends
    <2>4. X(0) = s
        BY <2>2, <2>3
    <2> QED
        BY <2>1, <2>4
<1>6. ASSUME NEW i \in Nat, i \in S PROVE i + 1 \in S
    <2> SUFFICES ASSUME i + 1 <= n PROVE Upto(f[i + 1], X(i + 1), 0, V, Cell, B)
        OBVIOUS
    <2> DEFINE p == Piece(t, i + 1, B)
    <2>1. i + 1 \in 1 .. n /\ (i + 1) - 1 = i
        OBVIOUS
    <2>2. Upto(f[i], X(i), 0, V, Cell, B)
        BY <1>6
    <2>3. f[i + 1] = Counted(Compress(f[i], p), B)
        BY <1>4, <2>1 DEF BlocksRun
    <2>4. /\ Data(p, Cell) /\ Len(p) = B
          /\ Start(t, At(i + 1, B)) \o p = Start(t, At((i + 1) + 1, B))
        <3> DEFINE j == i + 1
        <3>1. j \in 1 .. n
            BY <2>1
        <3> HIDE DEF j
        <3>2. IsPiece(t, j, B, Cell)
            BY <1>2, <1>3, <3>1, PieceFacts
        <3> QED
            BY <3>2 DEF IsPiece, j
    <2>5. Data(Start(t, At(i + 1, B)), Cell)
        <3>1. At(i + 1, B) \in Nat /\ At(i + 1, B) + B <= At(n + 1, B)
            BY <1>2, <2>1, Places
        <3>2. Len(t) \in Nat
            BY DEF Data
        <3>3. At(i + 1, B) \in 0 .. Len(t)
            BY <1>2, <1>3, <3>1, <3>2
        <3> QED
            BY <3>3 DEF Data, Start
    <2> HIDE DEF p
    <2>6. Upto(Counted(Compress(f[i], p), B), X(i) \o p, 0, V, Cell, B)
        <3> HIDE DEF X
        <3> QED
            BY <2>2, <2>4, UptoPassed
    <2>7. X(i) \o p = s \o (Start(t, At(i + 1, B)) \o p)
        <3>1. Chained(s, Start(t, At(i + 1, B)), p)
            BY <1>1, <2>4, <2>5, Joins
        <3> QED
            BY <3>1 DEF Chained
    <2>8. X(i) \o p = X(i + 1)
        BY <2>4, <2>7
    <2> QED
        BY <2>3, <2>6, <2>8
<1>7. n \in S
    <2> HIDE DEF S
    <2> QED
        BY <1>5, <1>6, SetInduction
<1>8. Upto(f[n], X(n), 0, V, Cell, B)
    BY <1>7
<1> DEFINE r == Rest(t, B)
           k == At(n + 1, B)
           b == Counted(Copy(f[n], 0 + 1, r), Len(r))
<1>9. /\ Data(Start(t, k), Cell) /\ Data(r, Cell) /\ Start(t, k) \o r = Start(t, Len(t))
      /\ Len(r) \in 0 .. B - 1
    BY <1>3 DEF Between
<1>10. X(n) \o r = s \o t
    <2>1. X(n) = s \o Start(t, k)
        OBVIOUS
    <2> HIDE DEF X, k, r
    <2>2. Start(t, Len(t)) = t
        BY <1>1, Ends
    <2>3. Chained(s, Start(t, k), r)
        BY <1>1, <1>9, Joins
    <2> QED
        BY <1>9, <2>1, <2>2, <2>3 DEF Chained
<1>11. Blocks(c, t, B) = b
    BY <1>4
<1> HIDE DEF X, r
<1>12. 0 + Len(r) <= B /\ 0 + Len(r) = Len(r)
    BY <1>2, <1>9
<1>13. Upto(b, X(n) \o r, 0 + Len(r), V, Cell, B)
    BY <1>8, <1>9, <1>12, UptoFilled
<1> HIDE DEF b
<1> QED
    BY <1>9, <1>10, <1>11, <1>12, <1>13

\* The cells in use are the remainder of the count.
LEMMA InUse ==
    ASSUME NEW V, NEW Cell, NEW B, NEW c, NEW s, NEW u, Upto(c, s, u, V, Cell, B), u < B
    PROVE  u \in 0 .. B - 1 /\ c.count % B = u /\ c.count = Len(s) /\ c.count \in Nat
           /\ B \in Nat \ {0}
<1> DEFINE m == Len(c.state.blocks)
<1>1. /\ Context(c, V, Cell, B) /\ u \in 0 .. B /\ c.count = Len(s)
      /\ Len(s) = At(m + 1, B) + u
    BY DEF Upto, Agrees
<1>2. B \in Nat \ {0} /\ m \in Nat /\ c.count \in Nat
    BY <1>1, Parts
<1> HIDE DEF m
<1>3. At(m + 1, B) = m * B
    BY <1>2 DEF At
<1>4. u \in 0 .. B - 1
    BY <1>1, <1>2
<1>5. ((m * B) + u) % B = u
    BY <1>2, <1>4, DivUnique
<1> QED
    BY <1>1, <1>2, <1>3, <1>4, <1>5

\* Update.
LEMMA UptoAbsorb ==
    ASSUME NEW V, NEW Cell, NEW B, NEW c, NEW s, NEW u, Upto(c, s, u, V, Cell, B), u < B,
           NEW t, Data(t, Cell)
    PROVE  \E v \in 0 .. B - 1 : Upto(Absorb(c, t, B), s \o t, v, V, Cell, B)
<1>1. u \in 0 .. B - 1 /\ c.count % B = u /\ B \in Nat \ {0}
    BY InUse
<1>2. Data(s, Cell)
    BY DEF Upto
<1>3. Len(t) \in Nat
    BY DEF Data
<1>4. CASE u = 0
    <2>1. Absorb(c, t, B) = Blocks(c, t, B)
        BY <1>1, <1>4 DEF Absorb
    <2>2. Upto(c, s, 0, V, Cell, B)
        BY <1>4
    <2> QED
        BY <2>1, <2>2, UptoBlocks
<1>5. CASE u # 0 /\ Len(t) < B - u
    <2>1. Absorb(c, t, B) = Counted(Copy(c, u + 1, t), Len(t))
        BY <1>1, <1>5 DEF Absorb
    <2>2. u + Len(t) <= B /\ u + Len(t) \in 0 .. B - 1
        BY <1>1, <1>3, <1>5
    <2>3. Upto(Counted(Copy(c, u + 1, t), Len(t)), s \o t, u + Len(t), V, Cell, B)
        BY <2>2, UptoFilled
    <2> QED
        BY <2>1, <2>2, <2>3
<1>6. CASE u # 0 /\ ~ (Len(t) < B - u)
    <2> DEFINE free == B - u
               p == Start(t, free)
               r == SubSeq(t, free + 1, Len(t))
               full == Counted(Copy(c, u + 1, p), free)
    <2>1. free \in 0 .. Len(t) /\ Len(t) \in 0 .. Len(t) /\ u + free = B
        BY <1>1, <1>3, <1>6
    <2>2. Absorb(c, t, B) = Blocks(Compress(full, full.buffer), r, B)
        BY <1>1, <1>6 DEF Absorb, Start
    <2> HIDE DEF free
    <2>3. Between(t, free, Len(t), r, Cell)
        <3> DEFINE m == Len(t)
        <3>1. m \in 0 .. Len(t) /\ free \in 0 .. m
            BY <2>1
        <3> HIDE DEF m
        <3>2. Between(t, free, m, SubSeq(t, free + 1, m), Cell)
            BY <3>1, Cut
        <3> QED
            BY <3>2 DEF m
    <2> HIDE DEF r
    <2>4. /\ Data(p, Cell) /\ Len(p) = free /\ Data(r, Cell)
          /\ p \o r = Start(t, Len(t))
        BY <2>3 DEF Between
    <2> HIDE DEF p
    <2>5. u + Len(p) <= B /\ u + Len(p) = B
        BY <1>1, <2>1, <2>4
    <2>6. Upto(Counted(Copy(c, u + 1, p), Len(p)), s \o p, u + Len(p), V, Cell, B)
        BY <2>4, <2>5, UptoFilled
    <2>7. Upto(full, s \o p, B, V, Cell, B)
        BY <2>4, <2>5, <2>6
    <2> HIDE DEF full
    <2>8. Upto(Compress(full, full.buffer), s \o p, 0, V, Cell, B)
        BY <2>7, UptoFlushed
    <2> DEFINE e == Compress(full, full.buffer)
    <2>9. PICK v \in 0 .. B - 1 : Upto(Blocks(e, r, B), (s \o p) \o r, v, V, Cell, B)
        BY <2>4, <2>8, UptoBlocks
    <2>10. Start(t, Len(t)) = t
        BY <1>2, Ends
    <2>11. (s \o p) \o r = s \o t
        <3>1. Chained(s, p, r)
            BY <1>2, <2>4, Joins
        <3> QED
            BY <2>4, <2>10, <3>1 DEF Chained
    <2> HIDE DEF e
    <2>12. Absorb(c, t, B) = Blocks(e, r, B)
        BY <2>2 DEF e
    <2> QED
        BY <2>9, <2>11, <2>12
<1> QED
    BY <1>4, <1>5, <1>6

(***************************************************************************)
(* A sequence of calls of Update                                           *)
(***************************************************************************)

\* g[i] is the cells of the first i pieces, g[n] those of all.
IsFlat(g, chunks, n, Cell) ==
    /\ g \in [0 .. n -> Seq(Cell)]
    /\ g[0] = << >>
    /\ \A i \in 1 .. n : g[i] = g[i - 1] \o chunks[i]

\* FlattenSeq, from the left.
LEMMA Flat ==
    ASSUME NEW Cell, NEW chunks \in Seq(Seq(Cell)), NEW n \in Nat, n = Len(chunks)
    PROVE  \E g : IsFlat(g, chunks, n, Cell) /\ FlattenSeq(chunks) = g[n]
<1> DEFINE W == Seq(Cell)
           join(d, i) == d \o chunks[i]
           F == [w \in W \X (1 .. n) |-> join(w[1], w[2])]
           fl == CHOOSE h : h = [i \in 1 .. Len(chunks) |->
                                   IF i = 1 THEN chunks[i] ELSE join(h[i - 1], i)]
<1>1. ASSUME NEW i \in 1 .. n PROVE chunks[i] \in W
    BY ElementType
<1>2. ASSUME NEW d \in W, NEW i \in 1 .. n PROVE join(d, i) \in W
    BY <1>1
<1>3. FlattenSeq(chunks) = IF Len(chunks) = 0 THEN chunks ELSE fl[Len(chunks)]
    BY DEF FlattenSeq
<1>4. << >> \in W
    OBVIOUS
<1>5. ASSUME NEW i \in 1 .. n PROVE join(<< >>, i) = chunks[i]
    BY <1>1
<1> HIDE DEF join, W
<1>6. F \in [W \X (1 .. n) -> W] /\ \A d \in W, i \in 1 .. n : F[<<d, i>>] = join(d, i)
    BY <1>2
<1> HIDE DEF F
<1>7. PICK g : IsRec(g, W, n, << >>, F)
    BY <1>4, <1>6, RecExists
<1>8. g \in [0 .. n -> W] /\ g[0] = << >>
    BY <1>7 DEF IsRec
<1>9. ASSUME NEW i \in 1 .. n PROVE g[i] = join(g[i - 1], i)
    <2>1. g[i] = F[<<g[i - 1], i>>]
        BY <1>7 DEF IsRec
    <2>2. i - 1 \in 0 .. n
        OBVIOUS
    <2>3. g[i - 1] \in W
        BY <1>8, <2>2
    <2> QED
        BY <1>6, <2>1, <2>3
<1> DEFINE h == [i \in 1 .. n |-> g[i]]
<1>10. h = [i \in 1 .. Len(chunks) |-> IF i = 1 THEN chunks[i] ELSE join(h[i - 1], i)]
    <2>1. ASSUME NEW i \in 1 .. n
          PROVE  h[i] = IF i = 1 THEN chunks[i] ELSE join(h[i - 1], i)
        <3>1. h[i] = g[i] /\ g[i] = join(g[i - 1], i)
            BY <1>9
        <3>2. CASE i = 1
            <4>1. i - 1 = 0
                BY <3>2
            <4> QED
                BY <1>5, <1>8, <3>1, <3>2, <4>1
        <3>3. CASE i # 1
            <4>1. i - 1 \in 1 .. n
                BY <3>3
            <4> QED
                BY <3>1, <3>3, <4>1
        <3> QED
            BY <3>2, <3>3
    <2>2. 1 .. n = 1 .. Len(chunks)
        OBVIOUS
    <2>3. h = [i \in 1 .. n |-> IF i = 1 THEN chunks[i] ELSE join(h[i - 1], i)]
        BY <2>1
    <2> QED
        BY <2>2, <2>3
<1> HIDE DEF h
<1>11. fl = [i \in 1 .. Len(chunks) |-> IF i = 1 THEN chunks[i] ELSE join(fl[i - 1], i)]
    BY <1>10
<1> HIDE DEF fl
<1> DEFINE S == {i \in Nat : i + 1 <= n => fl[i + 1] = g[i + 1]}
<1>12. 0 \in S
    <2> SUFFICES ASSUME 1 <= n PROVE fl[0 + 1] = g[0 + 1]
        OBVIOUS
    <2>1. 1 \in 1 .. n /\ 1 \in 1 .. Len(chunks) /\ 1 - 1 = 0 /\ 0 + 1 = 1
        OBVIOUS
    <2>2. fl[1] = chunks[1]
        BY <1>11, <2>1
    <2>3. g[1] = join(g[1 - 1], 1)
        BY <1>9, <2>1
    <2> QED
        BY <1>5, <1>8, <2>1, <2>2, <2>3
<1>13. ASSUME NEW i \in Nat, i \in S PROVE i + 1 \in S
    <2> SUFFICES ASSUME i + 2 <= n PROVE fl[i + 2] = g[i + 2]
        BY (i + 1) + 1 = i + 2
    <2>1. i + 2 \in 1 .. n /\ i + 2 \in 1 .. Len(chunks) /\ (i + 2) - 1 = i + 1
          /\ i + 2 # 1 /\ i + 1 <= n
        OBVIOUS
    <2>2. fl[i + 2] = join(fl[i + 1], i + 2)
        BY <1>11, <2>1
    <2>3. g[i + 2] = join(g[i + 1], i + 2)
        BY <1>9, <2>1
    <2> QED
        BY <1>13, <2>1, <2>2, <2>3
<1>14. \A i \in Nat : i \in S
    <2> HIDE DEF S
    <2> QED
        BY <1>12, <1>13, SetInduction
<1>15. FlattenSeq(chunks) = g[n]
    <2>1. CASE n = 0
        <3>1. chunks \in Seq(W) /\ Len(chunks) = 0
            BY <2>1 DEF W
        <3>2. chunks = << >>
            BY <3>1, SameSequence
        <3> QED
            BY <1>3, <1>8, <2>1, <3>2
    <2>2. CASE n # 0
        <3>1. n - 1 \in Nat /\ (n - 1) + 1 = n
            BY <2>2
        <3>2. fl[n] = g[n]
            BY <1>14, <3>1
        <3> QED
            BY <1>3, <2>2, <3>2
    <2> QED
        BY <2>1, <2>2
<1> QED
    BY <1>8, <1>9, <1>15 DEF IsFlat, W, join

\* Fed, with the block length in place of the hash.
FedBlocks(c, chunks, B) ==
    LET Go[i \in 0 .. Len(chunks)] ==
          IF i = 0 THEN c ELSE Absorb(Go[i - 1], chunks[i], B)
    IN Go[Len(chunks)]

\* The contexts that calls of Update lead to.
Reached(V, Cell, B) ==
    {c \in Contexts(V, Cell, B) :
        \E s \in Seq(Cell), u \in 0 .. B - 1 : Upto(c, s, u, V, Cell, B)}

\* The context before the first call.
LEMMA FreshUpto ==
    ASSUME NEW Cell, Nat \subseteq Cell, NEW B \in Nat \ {0}, NEW iv
    PROVE  Upto(Fresh(iv, B), << >>, 0, {iv}, Cell, B)
<1> DEFINE c == Fresh(iv, B)
<1>1. c.state = [iv |-> iv, blocks |-> << >>] /\ c.buffer = [i \in 1 .. B |-> 0] /\ c.count = 0
    BY DEF Fresh
<1>2. c.state.blocks = << >> /\ Len(c.state.blocks) = 0
    BY <1>1
<1>3. c \in Contexts({iv}, Cell, B)
    <2>1. [i \in 1 .. B |-> 0] \in [1 .. B -> Cell]
        OBVIOUS
    <2>2. [iv |-> iv, blocks |-> << >>] \in [iv : {iv}, blocks : Seq([1 .. B -> Cell])]
        OBVIOUS
    <2> QED
        BY <2>1, <2>2 DEF Fresh, Contexts
<1>4. At(0 + 1, B) = 0
    BY DEF At
<1> HIDE DEF c
<1>5. Agrees(c, << >>, 0, B)
    BY <1>2, <1>4 DEF Agrees
<1>6. Context(c, {iv}, Cell, B) /\ Data(<< >>, Cell) /\ c.count = Len(<< >>) /\ 0 \in 0 .. B
    BY <1>1, <1>3 DEF Context, Data
<1>7. Upto(c, << >>, 0, {iv}, Cell, B)
    BY <1>5, <1>6 DEF Upto
<1> QED
    BY <1>7 DEF c

\* The pieces of a message are cells.
Pieces(chunks, Cell) == chunks \in Seq(Seq(Cell))

\* However many calls of Update: the context is what the joined pieces make it.
LEMMA FedUpto ==
    ASSUME NEW Cell, Nat \subseteq Cell, NEW B \in Nat \ {0}, NEW iv,
           NEW chunks, Pieces(chunks, Cell)
    PROVE  \E v \in 0 .. B - 1 :
              Upto(FedBlocks(Fresh(iv, B), chunks, B), FlattenSeq(chunks), v, {iv}, Cell, B)
<1> DEFINE V == {iv}
           c == Fresh(iv, B)
           W == Reached(V, Cell, B)
           n == Len(chunks)
           step(d, i) == Absorb(d, chunks[i], B)
           F == [w \in W \X (1 .. n) |-> step(w[1], w[2])]
           go == CHOOSE g : g = [i \in 0 .. n |-> IF i = 0 THEN c ELSE step(g[i - 1], i)]
<1>1. FedBlocks(c, chunks, B) = go[n]
    BY DEF FedBlocks
<1>2. n \in Nat
    BY DEF Pieces
<1>3. ASSUME NEW i \in 1 .. n PROVE Data(chunks[i], Cell)
    <2>1. chunks \in Seq(Seq(Cell))
        BY DEF Pieces
    <2>2. chunks[i] \in Seq(Cell)
        BY <2>1, ElementType
    <2> QED
        BY <2>2 DEF Data
<1>4. PICK x : IsFlat(x, chunks, n, Cell) /\ FlattenSeq(chunks) = x[n]
    <2>1. chunks \in Seq(Seq(Cell))
        BY DEF Pieces
    <2> QED
        BY <1>2, <2>1, Flat
<1>5. Upto(c, << >>, 0, V, Cell, B)
    BY FreshUpto
<1> HIDE DEF V, c, n
<1>6. ASSUME NEW d \in W, NEW s, NEW u \in 0 .. B - 1, Upto(d, s, u, V, Cell, B),
             NEW i \in 1 .. n
      PROVE  /\ step(d, i) \in W
             /\ \E v \in 0 .. B - 1 : Upto(step(d, i), s \o chunks[i], v, V, Cell, B)
    <2>1. u < B
        OBVIOUS
    <2>2. PICK v \in 0 .. B - 1 : Upto(Absorb(d, chunks[i], B), s \o chunks[i], v, V, Cell, B)
        BY <1>3, <1>6, <2>1, UptoAbsorb
    <2>3. s \o chunks[i] \in Seq(Cell) /\ Absorb(d, chunks[i], B) \in Contexts(V, Cell, B)
        BY <2>2 DEF Upto, Data, Context
    <2> QED
        BY <2>2, <2>3 DEF Reached
<1>7. c \in W
    <2>1. c \in Contexts(V, Cell, B) /\ << >> \in Seq(Cell) /\ 0 \in 0 .. B - 1
        BY <1>5 DEF Upto, Context
    <2> QED
        BY <1>5, <2>1 DEF Reached
<1>8. ASSUME NEW d \in W, NEW i \in 1 .. n PROVE step(d, i) \in W
    <2>1. PICK s \in Seq(Cell), u \in 0 .. B - 1 : Upto(d, s, u, V, Cell, B)
        BY DEF Reached
    <2> QED
        BY <1>6, <2>1
<1> HIDE DEF W, step
<1>9. F \in [W \X (1 .. n) -> W] /\ \A d \in W, i \in 1 .. n : F[<<d, i>>] = step(d, i)
    BY <1>8
<1> HIDE DEF F
<1>10. PICK g : IsRec(g, W, n, c, F)
    BY <1>2, <1>7, <1>9, RecExists
<1>11. ASSUME NEW i \in 1 .. n PROVE g[i] = step(g[i - 1], i)
    <2>1. g[i] = F[<<g[i - 1], i>>] /\ g \in [0 .. n -> W]
        BY <1>10 DEF IsRec
    <2>2. i - 1 \in 0 .. n
        BY <1>2
    <2>3. g[i - 1] \in W
        BY <2>1, <2>2
    <2> QED
        BY <1>9, <2>1, <2>3
<1>12. g = [i \in 0 .. n |-> IF i = 0 THEN c ELSE step(g[i - 1], i)]
    <2>1. g \in [0 .. n -> W] /\ g[0] = c
        BY <1>10 DEF IsRec
    <2>2. ASSUME NEW i \in 0 .. n PROVE g[i] = IF i = 0 THEN c ELSE step(g[i - 1], i)
        <3>1. CASE i = 0
            BY <2>1, <3>1
        <3>2. CASE i # 0
            <4>1. i \in 1 .. n
                BY <1>2, <3>2
            <4> QED
                BY <1>11, <3>2, <4>1
        <3> QED
            BY <3>1, <3>2
    <2> QED
        BY <2>1, <2>2
<1>13. go = [i \in 0 .. n |-> IF i = 0 THEN c ELSE step(go[i - 1], i)]
    BY <1>12
<1> HIDE DEF go
<1> DEFINE Good(i) == /\ go[i] \in W
                      /\ \E v \in 0 .. B - 1 : Upto(go[i], x[i], v, V, Cell, B)
           S == {i \in Nat : i <= n => Good(i)}
<1>14. 0 \in S
    <2>1. go[0] = c
        BY <1>2, <1>13
    <2>2. x[0] = << >> /\ 0 \in 0 .. B - 1
        BY <1>4 DEF IsFlat
    <2> QED
        BY <1>5, <1>7, <2>1, <2>2
<1>15. ASSUME NEW i \in Nat, i \in S PROVE i + 1 \in S
    <2> SUFFICES ASSUME i + 1 <= n PROVE Good(i + 1)
        OBVIOUS
    <2>1. i + 1 \in 1 .. n /\ i + 1 \in 0 .. n /\ (i + 1) - 1 = i /\ i + 1 # 0 /\ i <= n
        BY <1>2
    <2>2. go[i + 1] = step(go[i], i + 1)
        BY <1>13, <2>1
    <2>3. x[i + 1] = x[i] \o chunks[i + 1]
        BY <1>4, <2>1 DEF IsFlat
    <2>4. go[i] \in W
        BY <1>15, <2>1
    <2>5. PICK u \in 0 .. B - 1 : Upto(go[i], x[i], u, V, Cell, B)
        BY <1>15, <2>1
    <2>6. /\ step(go[i], i + 1) \in W
          /\ \E v \in 0 .. B - 1 : Upto(step(go[i], i + 1), x[i] \o chunks[i + 1], v, V, Cell, B)
        BY <1>6, <2>1, <2>4, <2>5
    <2> QED
        BY <2>2, <2>3, <2>6
<1>16. n \in S
    <2> HIDE DEF S
    <2> QED
        BY <1>2, <1>14, <1>15, SetInduction
<1>17. Good(n)
    <2> HIDE DEF Good
    <2> QED
        BY <1>2, <1>16
<1> QED
    BY <1>1, <1>4, <1>17 DEF V, c

(***************************************************************************)
(* Final                                                                   *)
(***************************************************************************)

\* The zeros of the padding.
Zeros(n) == [i \in 1 .. n |-> 0]

\* Zeros are cells, and so is the bit.
LEMMA ZerosFacts ==
    ASSUME NEW Cell, Nat \subseteq Cell, NEW n \in Nat
    PROVE  /\ Data(Zeros(n), Cell) /\ Len(Zeros(n)) = n
           /\ \A i \in 1 .. n : Zeros(n)[i] = 0
           /\ Data(<<Bit1>>, Cell) /\ Len(<<Bit1>>) = 1 /\ <<Bit1>>[1] = Bit1
BY DEF Zeros, Data, Bit1

\* Zeros behind zeros.
LEMMA ZerosJoined ==
    ASSUME NEW m \in Nat, NEW n \in Nat
    PROVE  Zeros(m) \o Zeros(n) = Zeros(m + n)
<1> DEFINE x == Zeros(m) \o Zeros(n)
           y == Zeros(m + n)
<1>1. /\ x \in Seq(Nat) /\ y \in Seq(Nat) /\ Len(x) = Len(y)
      /\ \A j \in 1 .. Len(x) : x[j] = y[j]
    BY DEF Zeros
<1> HIDE DEF x, y
<1>2. x = y
    BY <1>1, SameSequence
<1> QED
    BY <1>2 DEF x, y

\* The steps of Final for blocks of B cells: the bit, zeros up to cell S (M cells
\* of zeros when a new block is begun), the length behind cell S.
Finished(c, B, S, M, length) ==
    LET used == c.count % B
        b == Copy(c, used + 1, <<Bit1>>)
        u == used + 1
        p == IF used = 0 THEN Copy(Zero(c, 1, S), 1, <<Bit1>>)
             ELSE IF u <= S THEN Zero(b, u + 1, S - u)
             ELSE Zero(LET z == Zero(b, u + 1, B - u) IN Compress(z, z.buffer), 1, M)
        q == Copy(p, S + 1, length)
    IN Compress(q, q.buffer)

\* The finals of both block lengths are such steps.
LEMMA Finals ==
    ASSUME NEW c
    PROVE  /\ SHA256_Final(c).digest
                = FirstWords(Finished(c, Block256, Block256 - 1, Block256 - 1, <<c.count>>), 8)
           /\ SHA512_Last(c)
                = Finished(c, Block512, Block512 - 2, Block512 - 1, <<0, c.count>>)
BY DEF SHA256_Final, SHA512_Last, Finished, SHA256_Transform, SHA512_Transform

\* c holds the cells s, u of them in the buffer; the count is not looked at.
Held(c, s, u, V, Cell, B) ==
    Context(c, V, Cell, B) /\ Data(s, Cell) /\ u \in 0 .. B /\ Agrees(c, s, u, B)

\* The buffer is filled, with more than the cells r at most.
LEMMA HeldFilled ==
    ASSUME NEW V, NEW Cell, NEW B, NEW c, NEW s, NEW u, Held(c, s, u, V, Cell, B),
           NEW t, Data(t, Cell), NEW r, Data(r, Cell), NEW w, w = u + Len(r), w <= B,
           Len(r) <= Len(t), \A i \in 1 .. Len(r) : t[i] = r[i]
    PROVE  Held(Copy(c, u + 1, t), s \o r, w, V, Cell, B)
<1>1. Context(c, V, Cell, B) /\ Data(s, Cell) /\ u \in 0 .. B /\ Agrees(c, s, u, B)
    BY DEF Held
<1>2. Len(r) \in Nat
    BY DEF Data
<1>3. B \in Nat \ {0}
    BY <1>1, Parts
<1>4. u + 1 \in Nat \ {0} /\ w \in 0 .. B
    BY <1>1, <1>2, <1>3
<1>5. Context(Copy(c, u + 1, t), V, Cell, B)
    BY <1>1, <1>4, Copied
<1>6. Agrees(Copy(c, u + 1, t), s \o r, w, B)
    BY <1>1, Filled
<1>7. Data(s \o r, Cell)
    BY <1>1, Appended
<1> QED
    BY <1>4, <1>5, <1>6, <1>7 DEF Held

\* The full buffer is compressed.
LEMMA HeldFlushed ==
    ASSUME NEW V, NEW Cell, NEW B, NEW c, NEW s, Held(c, s, B, V, Cell, B)
    PROVE  Held(Compress(c, c.buffer), s, 0, V, Cell, B)
<1>1. Context(c, V, Cell, B) /\ Data(s, Cell) /\ Agrees(c, s, B, B)
    BY DEF Held
<1>2. Block(c.buffer, Cell, B) /\ B \in Nat \ {0}
    BY <1>1, Parts
<1>3. Context(Compress(c, c.buffer), V, Cell, B)
    BY <1>1, <1>2, Compressed
<1>4. Agrees(Compress(c, c.buffer), s, 0, B)
    BY <1>1, Flushed
<1>5. 0 \in 0 .. B
    BY <1>2
<1> QED
    BY <1>1, <1>3, <1>4, <1>5 DEF Held

\* Zeros in the buffer.
LEMMA HeldZero ==
    ASSUME NEW V, NEW Cell, NEW B, NEW c, NEW s, NEW u, Held(c, s, u, V, Cell, B),
           NEW M \in Nat, NEW k \in 0 .. M, NEW w, w = u + k, w <= B
    PROVE  Held(Zero(c, u + 1, M), s \o Zeros(k), w, V, Cell, B)
<1>1. Nat \subseteq Cell
    <2>1. Context(c, V, Cell, B)
        BY DEF Held
    <2> QED
        BY <2>1, Parts
<1>2. k \in Nat
    OBVIOUS
<1>3. /\ Data(Zeros(k), Cell) /\ Len(Zeros(k)) = k /\ \A i \in 1 .. k : Zeros(k)[i] = 0
    BY <1>1, <1>2, ZerosFacts
<1>4. /\ Data(Zeros(M), Cell) /\ Len(Zeros(M)) = M /\ \A i \in 1 .. M : Zeros(M)[i] = 0
    BY <1>1, ZerosFacts
<1>5. \A i \in 1 .. Len(Zeros(k)) : Zeros(M)[i] = Zeros(k)[i]
    BY <1>2, <1>3, <1>4
<1>6. Len(Zeros(k)) <= Len(Zeros(M)) /\ w = u + Len(Zeros(k))
    BY <1>3, <1>4
<1>7. Zero(c, u + 1, M) = Copy(c, u + 1, Zeros(M))
    BY DEF Zero, Zeros
<1>8. Held(Copy(c, u + 1, Zeros(M)), s \o Zeros(k), w, V, Cell, B)
    BY <1>3, <1>4, <1>5, <1>6, HeldFilled
<1> QED
    BY <1>7, <1>8

\* The length behind cell S, and the last block.
LEMMA HeldLast ==
    ASSUME NEW V, NEW Cell, NEW B, NEW p, NEW y, NEW S, Held(p, y, S, V, Cell, B),
           NEW length, Data(length, Cell), S + Len(length) = B,
           NEW q, q = Copy(p, S + 1, length)
    PROVE  Held(Compress(q, q.buffer), y \o length, 0, V, Cell, B)
<1>1. Len(length) \in Nat
    BY DEF Data
<1>2. B \in Nat \ {0}
    <2>1. Context(p, V, Cell, B)
        BY DEF Held
    <2> QED
        BY <2>1, Parts
<1>3. /\ B = S + Len(length) /\ B <= B /\ Len(length) <= Len(length)
      /\ \A i \in 1 .. Len(length) : length[i] = length[i]
    BY <1>1, <1>2
<1>4. Held(Copy(p, S + 1, length), y \o length, B, V, Cell, B)
    BY <1>3, HeldFilled
<1>5. Held(q, y \o length, B, V, Cell, B)
    BY <1>4
<1> QED
    BY <1>5, HeldFlushed

\* Zeros and the bit in an empty buffer, whichever comes first.
LEMMA BitFirst ==
    ASSUME NEW V, NEW Cell, NEW B, NEW c, Context(c, V, Cell, B),
           NEW S \in 1 .. B, NEW y,
           Held(Zero(Copy(c, 1, <<Bit1>>), 2, S - 1), y, S, V, Cell, B)
    PROVE  Held(Copy(Zero(c, 1, S), 1, <<Bit1>>), y, S, V, Cell, B)
<1> DEFINE a == Zero(c, 1, S)
           p == Copy(a, 1, <<Bit1>>)
           b == Copy(c, 1, <<Bit1>>)
           e == Zero(b, 2, S - 1)
<1>1. B \in Nat \ {0} /\ Nat \subseteq Cell
    BY Parts
<1>2. S \in Nat /\ S - 1 \in Nat /\ 1 \in Nat \ {0} /\ 2 \in Nat \ {0}
    BY <1>1
<1>3. /\ Data(Zeros(S), Cell) /\ Len(Zeros(S)) = S /\ (\A i \in 1 .. S : Zeros(S)[i] = 0)
      /\ Data(<<Bit1>>, Cell) /\ Len(<<Bit1>>) = 1 /\ <<Bit1>>[1] = Bit1
    BY <1>1, <1>2, ZerosFacts
<1>4. /\ Data(Zeros(S - 1), Cell) /\ Len(Zeros(S - 1)) = S - 1
      /\ (\A i \in 1 .. S - 1 : Zeros(S - 1)[i] = 0)
    BY <1>1, <1>2, ZerosFacts
<1>5. a = Copy(c, 1, Zeros(S)) /\ e = Copy(b, 2, Zeros(S - 1))
    BY DEF Zero, Zeros
<1>6. Context(a, V, Cell, B) /\ Overlaid(c, a, 1, Zeros(S), B)
    BY <1>2, <1>3, <1>5, Copied
<1>7. Context(b, V, Cell, B) /\ Overlaid(c, b, 1, <<Bit1>>, B)
    BY <1>2, <1>3, Copied
<1> HIDE DEF a, b
<1>8. Context(p, V, Cell, B) /\ Overlaid(a, p, 1, <<Bit1>>, B)
    BY <1>2, <1>3, <1>6, Copied
<1>9. Overlaid(b, e, 2, Zeros(S - 1), B)
    BY <1>2, <1>4, <1>5, <1>7, Copied
<1> HIDE DEF p, e
<1>10. p.state = e.state
    BY <1>6, <1>7, <1>8, <1>9 DEF Overlaid
<1>11. ASSUME NEW j \in 1 .. S PROVE p.buffer[j] = e.buffer[j]
    <2>1. j \in 1 .. B
        BY <1>1
    <2>2. CASE j = 1
        <3>1. p.buffer[j] = Bit1
            <4>1. j \in 1 .. 1 + Len(<<Bit1>>) - 1 /\ j - 1 + 1 = 1
                BY <1>3, <2>2
            <4> QED
                BY <1>3, <1>8, <2>1, <4>1 DEF Overlaid
        <3>2. b.buffer[j] = Bit1
            <4>1. j \in 1 .. 1 + Len(<<Bit1>>) - 1 /\ j - 1 + 1 = 1
                BY <1>3, <2>2
            <4> QED
                BY <1>3, <1>7, <2>1, <4>1 DEF Overlaid
        <3>3. e.buffer[j] = b.buffer[j]
            <4>1. j \notin 2 .. 2 + Len(Zeros(S - 1)) - 1
                BY <2>2
            <4> QED
                BY <1>9, <2>1, <4>1 DEF Overlaid
        <3> QED
            BY <3>1, <3>2, <3>3
    <2>3. CASE j # 1
        <3>1. p.buffer[j] = a.buffer[j]
            <4>1. j \notin 1 .. 1 + Len(<<Bit1>>) - 1
                BY <1>3, <2>3
            <4> QED
                BY <1>8, <2>1, <4>1 DEF Overlaid
        <3>2. a.buffer[j] = 0
            <4>1. j \in 1 .. 1 + Len(Zeros(S)) - 1 /\ j - 1 + 1 = j
                BY <1>2, <1>3
            <4> QED
                BY <1>3, <1>6, <2>1, <4>1 DEF Overlaid
        <3>3. e.buffer[j] = 0
            <4>1. j \in 2 .. 2 + Len(Zeros(S - 1)) - 1 /\ j - 2 + 1 \in 1 .. S - 1
                BY <1>2, <1>4, <2>3
            <4> QED
                BY <1>4, <1>9, <2>1, <4>1 DEF Overlaid
        <3> QED
            BY <3>1, <3>2, <3>3
    <2> QED
        BY <2>2, <2>3
<1>12. Held(e, y, S, V, Cell, B)
    BY DEF e, b
<1>13. Agrees(p, y, S, B)
    BY <1>10, <1>11, <1>12 DEF Held, Agrees
<1>14. Held(p, y, S, V, Cell, B)
    BY <1>8, <1>12, <1>13 DEF Held
<1> QED
    BY <1>14 DEF p, a

\* The message, the bit, n zeros and the length.
Message(s, n, length) == ((s \o <<Bit1>>) \o Zeros(n)) \o length

\* Final compresses the message with some number of zeros less than a block.
LEMMA FinalPads ==
    ASSUME NEW V, NEW Cell, NEW B, NEW c, NEW s, NEW u, Upto(c, s, u, V, Cell, B), u < B,
           NEW length, Data(length, Cell), NEW S \in Nat \ {0}, S + Len(length) = B,
           NEW M \in S .. B
    PROVE  \E n \in 0 .. B - 1 :
              Held(Finished(c, B, S, M, length), Message(s, n, length), 0, V, Cell, B)
<1> DEFINE b == Copy(c, u + 1, <<Bit1>>)
           x == s \o <<Bit1>>
           F == Finished(c, B, S, M, length)
<1>1. u \in 0 .. B - 1 /\ c.count % B = u /\ B \in Nat \ {0}
    BY InUse
<1>2. Held(c, s, u, V, Cell, B) /\ Context(c, V, Cell, B)
    BY DEF Upto, Held
<1>3. Nat \subseteq Cell
    BY <1>2, Parts
<1>4. Len(length) \in Nat /\ S \in 1 .. B /\ M \in Nat /\ u + 1 \in Nat
    <2>1. Len(length) \in Nat
        BY DEF Data
    <2> QED
        BY <1>1, <2>1
<1>5. Held(b, x, u + 1, V, Cell, B)
    <2>1. Data(<<Bit1>>, Cell) /\ Len(<<Bit1>>) = 1
        BY <1>1, <1>3, ZerosFacts
    <2>2. /\ u + 1 = u + Len(<<Bit1>>) /\ u + 1 <= B /\ Len(<<Bit1>>) <= Len(<<Bit1>>)
          /\ \A i \in 1 .. Len(<<Bit1>>) : <<Bit1>>[i] = <<Bit1>>[i]
        BY <1>1, <2>1
    <2> DEFINE o == <<Bit1>>
               w == u + 1
    <2>3. /\ Data(o, Cell) /\ w = u + Len(o) /\ w <= B /\ Len(o) <= Len(o)
          /\ \A i \in 1 .. Len(o) : o[i] = o[i]
        BY <2>1, <2>2
    <2> HIDE DEF o, w
    <2>4. Held(Copy(c, u + 1, o), s \o o, w, V, Cell, B)
        BY <1>2, <2>3, HeldFilled
    <2> QED
        BY <2>4 DEF o, w
<1>6. ASSUME NEW p, NEW n \in 0 .. B - 1, Held(p, x \o Zeros(n), S, V, Cell, B),
             F = Compress(Copy(p, S + 1, length), Copy(p, S + 1, length).buffer)
      PROVE  \E m \in 0 .. B - 1 : Held(F, Message(s, m, length), 0, V, Cell, B)
    <2> DEFINE q == Copy(p, S + 1, length)
               y == x \o Zeros(n)
    <2>1. Held(p, y, S, V, Cell, B)
        BY <1>6
    <2> HIDE DEF q, y
    <2>2. Held(Compress(q, q.buffer), y \o length, 0, V, Cell, B)
        BY <2>1, HeldLast DEF q
    <2>3. F = Compress(q, q.buffer)
        BY <1>6 DEF q
    <2>4. y \o length = Message(s, n, length)
        BY DEF y, Message
    <2> QED
        BY <2>2, <2>3, <2>4
<1>7. CASE u + 1 <= S
    <2> DEFINE k == S - (u + 1)
               p == Zero(b, (u + 1) + 1, k)
    <2>1. k \in Nat /\ k \in 0 .. k /\ S = (u + 1) + k /\ S <= B /\ k \in 0 .. B - 1
        BY <1>1, <1>4, <1>7
    <2>2. Held(p, x \o Zeros(k), S, V, Cell, B)
        <3> HIDE DEF b, x, k
        <3> DEFINE w == u + 1
        <3>1. S = w + k /\ Held(b, x, w, V, Cell, B)
            BY <1>5, <2>1
        <3> HIDE DEF w
        <3>2. Held(Zero(b, w + 1, k), x \o Zeros(k), S, V, Cell, B)
            BY <2>1, <3>1, HeldZero
        <3> QED
            BY <3>2 DEF w
    <2>3. CASE u = 0
        <3> DEFINE a == Copy(Zero(c, 1, S), 1, <<Bit1>>)
        <3>1. F = Compress(Copy(a, S + 1, length), Copy(a, S + 1, length).buffer)
            BY <1>1, <2>3 DEF Finished
        <3>2. p = Zero(Copy(c, 1, <<Bit1>>), 2, S - 1)
            <4>1. u + 1 = 1 /\ (u + 1) + 1 = 2
                BY <2>3
            <4> QED
                BY <4>1
        <3>3. Held(Zero(Copy(c, 1, <<Bit1>>), 2, S - 1), x \o Zeros(k), S, V, Cell, B)
            BY <2>2, <3>2
        <3> DEFINE y == x \o Zeros(k)
        <3>4. Held(Zero(Copy(c, 1, <<Bit1>>), 2, S - 1), y, S, V, Cell, B)
            BY <3>3
        <3> HIDE DEF y
        <3>5. Held(a, y, S, V, Cell, B)
            BY <1>2, <1>4, <3>4, BitFirst
        <3>6. Held(a, x \o Zeros(k), S, V, Cell, B)
            BY <3>5 DEF y
        <3> HIDE DEF a, F, x, k
        <3> QED
            BY <1>6, <2>1, <3>1, <3>6 DEF F
    <2>4. CASE u # 0
        <3>1. F = Compress(Copy(p, S + 1, length), Copy(p, S + 1, length).buffer)
            BY <1>1, <1>7, <2>4 DEF Finished
        <3> HIDE DEF p, F, x, k
        <3> QED
            BY <1>6, <2>1, <2>2, <3>1 DEF F
    <2> QED
        BY <2>3, <2>4
<1>8. CASE ~ (u + 1 <= S)
    <2> DEFINE k == B - (u + 1)
               z == Zero(b, (u + 1) + 1, k)
               e == Compress(z, z.buffer)
               p == Zero(e, 0 + 1, M)
               y == x \o Zeros(k)
    <2>1. /\ k \in Nat /\ k \in 0 .. k /\ B = (u + 1) + k /\ B <= B /\ k + S \in 0 .. B - 1
          /\ u # 0
        BY <1>1, <1>4, <1>8
    <2>2. F = Compress(Copy(p, S + 1, length), Copy(p, S + 1, length).buffer)
        <3>1. 0 + 1 = 1
            OBVIOUS
        <3> QED
            BY <1>1, <1>8, <2>1, <3>1 DEF Finished
    <2>3. Held(z, y, B, V, Cell, B)
        <3> HIDE DEF b, x, k
        <3> DEFINE w == u + 1
        <3>1. B = w + k /\ Held(b, x, w, V, Cell, B)
            BY <1>5, <2>1
        <3> HIDE DEF w
        <3>2. Held(Zero(b, w + 1, k), x \o Zeros(k), B, V, Cell, B)
            BY <2>1, <3>1, HeldZero
        <3> QED
            BY <3>2 DEF w
    <2>4. Held(e, y, 0, V, Cell, B)
        <3> HIDE DEF z, y
        <3> QED
            BY <2>3, HeldFlushed
    <2>5. Held(p, y \o Zeros(S), S, V, Cell, B)
        <3>1. S \in 0 .. M /\ S = 0 + S /\ S <= B
            BY <1>4
        <3> HIDE DEF e, y
        <3> QED
            BY <1>4, <2>4, <3>1, HeldZero
    <2>6. y \o Zeros(S) = x \o Zeros(k + S)
        <3>1. Data(x, Cell)
            BY <1>5 DEF Held
        <3>2. Data(Zeros(k), Cell) /\ Data(Zeros(S), Cell)
            BY <1>3, <2>1, ZerosFacts
        <3> HIDE DEF x, k
        <3>3. Chained(x, Zeros(k), Zeros(S))
            BY <3>1, <3>2, Joins
        <3>4. Zeros(k) \o Zeros(S) = Zeros(k + S)
            BY <2>1, ZerosJoined
        <3> QED
            BY <3>3, <3>4 DEF Chained
    <2>7. Held(p, x \o Zeros(k + S), S, V, Cell, B)
        BY <2>5, <2>6
    <2> DEFINE n == k + S
    <2>8. n \in 0 .. B - 1 /\ Held(p, x \o Zeros(n), S, V, Cell, B)
        BY <2>1, <2>7
    <2> HIDE DEF n, p, F, x
    <2> QED
        BY <1>6, <2>2, <2>8 DEF F
<1> QED
    BY <1>7, <1>8

\* The zeros that make whole blocks are a matter of the length alone.
LEMMA OnlyPadding ==
    ASSUME NEW B \in Nat \ {0}, NEW x \in Nat, NEW m \in 0 .. B - 1, NEW n \in 0 .. B - 1,
           (x + m) % B = 0, (x + n) % B = 0
    PROVE  m = n
<1>1. ASSUME NEW i \in 0 .. B - 1, NEW j \in 0 .. B - 1, (x + i) % B = 0, (x + j) % B = 0,
             i <= j
      PROVE  i = j
    <2> DEFINE q == (x + i) \div B
               r == j - i
    <2>1. x + i \in Nat
        OBVIOUS
    <2>2. q \in Nat /\ x + i = (q * B) + 0
        BY <1>1, <2>1, DivMod
    <2>3. r \in 0 .. B - 1
        BY <1>1
    <2> HIDE DEF q
    <2>4. q * B \in Nat
        BY <2>2
    <2>5. x + j = (q * B) + r
        BY <2>2, <2>4
    <2> HIDE DEF r
    <2>6. ((q * B) + r) % B = r
        BY <2>2, <2>3, DivUnique
    <2>7. r = 0
        BY <1>1, <2>5, <2>6
    <2> QED
        BY <2>7 DEF r
<1>2. m <= n \/ n <= m
    OBVIOUS
<1> QED
    BY <1>1, <1>2

\* Blocks that hold the message are the padded message.
LEMMA HeldPadded ==
    ASSUME NEW V, NEW Cell, NEW B, NEW s, Data(s, Cell), NEW length, Data(length, Cell),
           NEW n \in 0 .. B - 1, NEW d, Held(d, Message(s, n, length), 0, V, Cell, B)
    PROVE  d.state.blocks = Padded(s, B, length)
<1> DEFINE all == Message(s, n, length)
           b == d.state.blocks
           N == Len(b)
           Works(m) == (Len(s) + 1 + m + Len(length)) % B = 0
           chosen == CHOOSE m \in 0 .. B - 1 : Works(m)
<1>1. Context(d, V, Cell, B) /\ Data(all, Cell) /\ Agrees(d, all, 0, B)
    BY DEF Held
<1>2. B \in Nat \ {0} /\ Nat \subseteq Cell /\ b \in Seq([1 .. B -> Cell]) /\ N \in Nat
    BY <1>1, Parts
<1>3. /\ Len(all) = At(N + 1, B) + 0
      /\ \A k \in 1 .. N, j \in 1 .. B : b[k][j] = all[At(k, B) + j]
    BY <1>1 DEF Agrees
<1>4. Len(s) \in Nat /\ Len(length) \in Nat
    BY DEF Data
<1>5. Len(all) = Len(s) + 1 + n + Len(length)
    <2> DEFINE x == s \o <<Bit1>>
               y == x \o Zeros(n)
    <2>1. n \in Nat
        BY <1>2
    <2>2. Data(Zeros(n), Cell) /\ Len(Zeros(n)) = n /\ Data(<<Bit1>>, Cell) /\ Len(<<Bit1>>) = 1
        BY <1>2, <2>1, ZerosFacts
    <2>3. Data(x, Cell) /\ Joined(s, <<Bit1>>, x)
        BY <2>2, Appended
    <2>4. Data(y, Cell) /\ Joined(x, Zeros(n), y)
        <3> HIDE DEF x
        <3> QED
            BY <2>2, <2>3, Appended
    <2>5. Joined(y, length, y \o length)
        <3> HIDE DEF y
        <3> QED
            BY <2>4, Appended
    <2>6. y \o length = all
        BY DEF Message
    <2> HIDE DEF x, y, all
    <2>7. Len(x) = Len(s) + 1 /\ Len(y) = Len(x) + n /\ Len(all) = Len(y) + Len(length)
        BY <2>2, <2>3, <2>4, <2>5, <2>6 DEF Joined
    <2> QED
        BY <1>4, <2>1, <2>7
<1>6. Len(all) = N * B /\ N * B \in Nat
    <2>1. At(N + 1, B) = N * B /\ N * B \in Nat
        <3> HIDE DEF N
        <3> QED
            BY <1>2 DEF At
    <2> HIDE DEF all, N
    <2> QED
        BY <1>3, <2>1
<1>7. Len(all) \div B = N /\ Len(all) % B = 0
    <2>1. 0 \in 0 .. B - 1
        BY <1>2
    <2>2. ((N * B) + 0) \div B = N /\ ((N * B) + 0) % B = 0
        BY <1>2, <2>1, DivUnique
    <2>3. (N * B) + 0 = Len(all)
        BY <1>6
    <2> HIDE DEF N, all
    <2> QED
        BY <2>2, <2>3
<1> HIDE DEF all
<1>8. Works(n)
    BY <1>5, <1>7
<1>9. chosen = n
    <2>1. chosen \in 0 .. B - 1 /\ Works(chosen)
        <3> HIDE DEF Works
        <3> QED
            BY <1>8
    <2> HIDE DEF chosen
    <2> DEFINE x == Len(s) + 1 + Len(length)
    <2>2. /\ x \in Nat /\ x + n = Len(s) + 1 + n + Len(length)
          /\ x + chosen = Len(s) + 1 + chosen + Len(length)
        BY <1>2, <1>4, <2>1
    <2>3. (x + n) % B = 0 /\ (x + chosen) % B = 0
        BY <1>8, <2>1, <2>2
    <2> HIDE DEF x, Works
    <2> QED
        BY <1>2, <2>1, <2>2, <2>3, OnlyPadding
<1>10. Padded(s, B, length)
         = [k \in 1 .. Len(all) \div B |-> SubSeq(all, (k - 1) * B + 1, k * B)]
    <2>1. Padded(s, B, length)
            = [k \in 1 .. Len(Message(s, chosen, length)) \div B |->
                  SubSeq(Message(s, chosen, length), (k - 1) * B + 1, k * B)]
        BY DEF Padded, Message, Zeros
    <2> HIDE DEF chosen
    <2> QED
        BY <1>9, <2>1 DEF all
<1>11. ASSUME NEW k \in 1 .. N PROVE b[k] = SubSeq(all, (k - 1) * B + 1, k * B)
    <2> HIDE DEF N, b
    <2>1. At(N + 1, B) \in Nat /\ At(k, B) \in Nat /\ At(k, B) + B <= At(N + 1, B)
        BY <1>2, Places
    <2>2. (k - 1) * B = At(k, B) /\ k * B = At(k, B) + B
        <3>1. PICK i \in Nat : i = k - 1 /\ k = i + 1
            BY <1>2
        <3>2. (i + 1) * B = (i * B) + B
            BY <1>2
        <3> QED
            BY <3>1, <3>2 DEF At
    <2> DEFINE a == At(k, B)
               x == b[k]
               y == SubSeq(all, a + 1, a + B)
    <2>3. a \in Nat /\ a + B <= Len(all)
        BY <1>2, <1>3, <2>1
    <2>4. \A j \in 1 .. B : x[j] = all[a + j]
        BY <1>3
    <2>5. x \in [1 .. B -> Cell]
        <3>1. k \in 1 .. Len(b)
            BY DEF N
        <3> QED
            BY <1>2, <3>1, ElementType
    <2> HIDE DEF a, x
    <2>6. x \in Seq(Cell) /\ Len(x) = B
        BY <1>2, <2>5
    <2>7. y \in Seq(Cell) /\ Len(y) = B /\ \A j \in 1 .. B : y[j] = all[a + j]
        BY <1>1, <1>2, <2>3 DEF Data
    <2> HIDE DEF y
    <2>8. x = y
        BY <2>4, <2>6, <2>7, SameSequence
    <2> QED
        BY <2>2, <2>8 DEF x, y, a
<1>12. b = [k \in 1 .. N |-> SubSeq(all, (k - 1) * B + 1, k * B)]
    <2>1. b = [k \in 1 .. N |-> b[k]]
        BY <1>2
    <2> HIDE DEF b, N
    <2> QED
        BY <1>11, <2>1
<1> HIDE DEF N
<1> QED
    BY <1>7, <1>10, <1>12

(***************************************************************************)
(* The digests                                                             *)
(***************************************************************************)

\* One hash: the calls of Update and the last block, for each way to write the
\* length the code has.
LEMMA Hashed ==
    ASSUME NEW Cell, Nat \subseteq Cell, NEW B \in Nat \ {0}, NEW iv,
           NEW chunks, Pieces(chunks, Cell), NEW k \in {1, 2}, k < B,
           NEW M \in {B - 1}, NEW c, c = FedBlocks(Fresh(iv, B), chunks, B),
           NEW length, length = IF k = 1 THEN <<c.count>> ELSE <<0, c.count>>,
           NEW words
    PROVE  /\ c.count = Len(FlattenSeq(chunks))
           /\ FirstWords(Finished(c, B, B - k, M, length), words)
                = Digest(iv, FlattenSeq(chunks), B, length, words)
<1> DEFINE s == FlattenSeq(chunks)
           S == B - k
           V == {iv}
           d == Finished(c, B, S, M, length)
<1>1. PICK v \in 0 .. B - 1 : Upto(c, s, v, V, Cell, B)
    BY FedUpto
<1> HIDE DEF s
<1>2. v < B
    OBVIOUS
<1>3. c.count = Len(s) /\ c.count \in Nat
    BY <1>1, <1>2, InUse
<1>4. Data(s, Cell)
    BY <1>1 DEF Upto
<1>5. Data(length, Cell) /\ Len(length) = k
    <2>1. c.count \in Cell /\ 0 \in Cell
        BY <1>3
    <2>2. CASE k = 1
        BY <2>1, <2>2 DEF Data
    <2>3. CASE k = 2
        BY <2>1, <2>3 DEF Data
    <2> QED
        BY <2>2, <2>3
<1>6. S \in Nat \ {0} /\ S + Len(length) = B /\ M \in S .. B
    BY <1>5
<1> HIDE DEF S, V
<1>7. PICK n \in 0 .. B - 1 : Held(d, Message(s, n, length), 0, V, Cell, B)
    BY <1>1, <1>2, <1>5, <1>6, FinalPads
<1> HIDE DEF d
<1>8. d.state.blocks = Padded(s, B, length)
    BY <1>4, <1>5, <1>7, HeldPadded
<1>9. d.state.iv = iv
    <2>1. Context(d, V, Cell, B)
        BY <1>7 DEF Held
    <2>2. d.state.iv \in V
        BY <2>1, Parts
    <2> QED
        BY <2>2 DEF V
<1>10. FirstWords(d, words) = Digest(iv, s, B, length, words)
    BY <1>8, <1>9 DEF FirstWords, Digest
<1> QED
    BY <1>3, <1>10 DEF d, S, s

\* Data given at once is one piece.
LEMMA OnePiece ==
    ASSUME NEW Cell, NEW data, Data(data, Cell)
    PROVE  /\ Pieces(<<data>>, Cell) /\ FlattenSeq(<<data>>) = data
           /\ \A c, B : FedBlocks(c, <<data>>, B) = Absorb(c, data, B)
<1>1. Pieces(<<data>>, Cell)
    BY DEF Data, Pieces
<1>2. FlattenSeq(<<data>>) = data
    <2>1. <<data>> \in Seq(Seq(Cell)) /\ Len(<<data>>) = 1 /\ <<data>>[1] = data
        BY DEF Data
    <2>2. 1 \in Nat /\ 1 = Len(<<data>>)
        BY <2>1
    <2> DEFINE ch == <<data>>
    <2>3. PICK g : IsFlat(g, ch, 1, Cell) /\ FlattenSeq(ch) = g[1]
        <3>1. ch \in Seq(Seq(Cell)) /\ 1 = Len(ch)
            BY <2>1
        <3> HIDE DEF ch
        <3> QED
            BY <2>2, <3>1, Flat
    <2>4. g[0] = << >> /\ g[1] = g[1 - 1] \o ch[1]
        <3> HIDE DEF ch
        <3>1. 1 \in 1 .. 1
            OBVIOUS
        <3> QED
            BY <2>3, <3>1 DEF IsFlat
    <2>5. << >> \o data = data
        BY DEF Data
    <2> QED
        BY <2>1, <2>3, <2>4, <2>5
<1>3. ASSUME NEW c, NEW B PROVE FedBlocks(c, <<data>>, B) = Absorb(c, data, B)
    <2> DEFINE step(d, i) == Absorb(d, <<data>>[i], B)
               n == Len(<<data>>)
               go == CHOOSE g : g = [i \in 0 .. n |-> IF i = 0 THEN c ELSE step(g[i - 1], i)]
    <2>1. FedBlocks(c, <<data>>, B) = go[n]
        BY DEF FedBlocks
    <2>2. n = 1 /\ step(c, 1) = Absorb(c, data, B)
        OBVIOUS
    <2> HIDE DEF step, n
    <2> DEFINE h == [i \in 0 .. n |-> IF i = 0 THEN c ELSE step(c, 1)]
    <2>3. h = [i \in 0 .. n |-> IF i = 0 THEN c ELSE step(h[i - 1], i)]
        <3>1. ASSUME NEW i \in 0 .. n PROVE h[i] = IF i = 0 THEN c ELSE step(h[i - 1], i)
            <4>1. CASE i = 0
                BY <4>1
            <4>2. CASE i = 1
                <5>1. i - 1 = 0 /\ 0 \in 0 .. n
                    BY <2>2, <4>2
                <5> QED
                    BY <4>2, <5>1
            <4> QED
                BY <2>2, <4>1, <4>2
        <3> QED
            BY <3>1
    <2> HIDE DEF h
    <2>4. go = [i \in 0 .. n |-> IF i = 0 THEN c ELSE step(go[i - 1], i)]
        BY <2>3
    <2> HIDE DEF go
    <2>5. go[0] = c /\ go[1] = step(go[1 - 1], 1)
        BY <2>2, <2>4
    <2> QED
        BY <2>1, <2>2, <2>5
<1> QED
    BY <1>1, <1>2, <1>3

\* Cells of the message among cells of any kind.
LEMMA Wider ==
    ASSUME NEW D, NEW chunks \in Seq(Seq(D))
    PROVE  Pieces(chunks, D \cup Nat)
<1> DEFINE C == D \cup Nat
           n == Len(chunks)
<1>1. n \in Nat /\ chunks = [i \in 1 .. n |-> chunks[i]]
    OBVIOUS
<1>2. ASSUME NEW i \in 1 .. n PROVE chunks[i] \in Seq(C)
    <2>1. chunks[i] \in Seq(D)
        BY ElementType
    <2> QED
        BY <2>1
<1> HIDE DEF n, C
<1>3. chunks \in [1 .. n -> Seq(C)]
    BY <1>1, <1>2
<1>4. chunks \in Seq(Seq(C))
    BY <1>1, <1>3
<1> QED
    BY <1>4 DEF Pieces, C

\* The hashes of the code are the generic one.
LEMMA Hashes ==
    ASSUME NEW c, NEW chunks
    PROVE  /\ SHA256_End(Fed(c, chunks, SHA256_Update))
                = LET d == FedBlocks(c, chunks, Block256)
                  IN FirstWords(Finished(d, Block256, Block256 - 1, Block256 - 1, <<d.count>>), 8)
           /\ SHA512_End(Fed(c, chunks, SHA512_Update))
                = LET d == FedBlocks(c, chunks, Block512)
                  IN FirstWords(Finished(d, Block512, Block512 - 2, Block512 - 1, <<0, d.count>>), 8)
           /\ SHA384_End(Fed(c, chunks, SHA384_Update))
                = LET d == FedBlocks(c, chunks, Block512)
                  IN FirstWords(Finished(d, Block512, Block512 - 2, Block512 - 1, <<0, d.count>>), 6)
<1>1. Fed(c, chunks, SHA256_Update) = FedBlocks(c, chunks, Block256)
    BY DEF Fed, FedBlocks, SHA256_Update
<1>2. Fed(c, chunks, SHA512_Update) = FedBlocks(c, chunks, Block512)
    BY DEF Fed, FedBlocks, SHA512_Update
<1>3. Fed(c, chunks, SHA384_Update) = FedBlocks(c, chunks, Block512)
    BY DEF Fed, FedBlocks, SHA384_Update, SHA512_Update
<1> DEFINE a == FedBlocks(c, chunks, Block256)
           b == FedBlocks(c, chunks, Block512)
<1> HIDE DEF a, b
<1>4. SHA256_End(a) = FirstWords(Finished(a, Block256, Block256 - 1, Block256 - 1, <<a.count>>), 8)
    BY Finals DEF SHA256_End
<1>5. /\ SHA512_End(b) = FirstWords(SHA512_Last(b), 8)
      /\ SHA384_End(b) = FirstWords(SHA512_Last(b), 6)
    BY DEF SHA512_End, SHA512_Final, SHA384_End, SHA384_Final
<1>6. SHA512_Last(b) = Finished(b, Block512, Block512 - 2, Block512 - 1, <<0, b.count>>)
    BY Finals
<1> QED
    BY <1>1, <1>2, <1>3, <1>4, <1>5, <1>6 DEF a, b

\* The three digests of a message in pieces.
LEMMA AllHashes ==
    ASSUME NEW D, NEW chunks, Pieces(chunks, D \cup Nat)
    PROVE  LET data == FlattenSeq(chunks)
               n == Len(data)
           IN /\ SHA256_End(Fed(SHA256_Init, chunks, SHA256_Update))
                    = Digest("H256", data, Block256, <<n>>, 8)
              /\ SHA512_End(Fed(SHA512_Init, chunks, SHA512_Update))
                    = Digest("H512", data, Block512, <<0, n>>, 8)
              /\ SHA384_End(Fed(SHA384_Init, chunks, SHA384_Update))
                    = Digest("H384", data, Block512, <<0, n>>, 6)
<1> DEFINE C == D \cup Nat
           data == FlattenSeq(chunks)
           n == Len(data)
<1>1. Nat \subseteq C /\ Pieces(chunks, C)
    OBVIOUS
<1> HIDE DEF C, data
<1>2. /\ Block256 \in Nat \ {0} /\ 1 < Block256 /\ Block512 \in Nat \ {0} /\ 2 < Block512
      /\ 1 \in {1, 2} /\ 2 \in {1, 2}
    BY Sha2Assumption
<1>3. ASSUME NEW iv, NEW words, NEW c, c = FedBlocks(Fresh(iv, Block256), chunks, Block256)
      PROVE  FirstWords(Finished(c, Block256, Block256 - 1, Block256 - 1, <<c.count>>), words)
               = Digest(iv, data, Block256, <<n>>, words)
    <2> DEFINE length == <<c.count>>
               M == Block256 - 1
               k == 1
    <2>1. /\ M \in {Block256 - 1} /\ length = IF k = 1 THEN <<c.count>> ELSE <<0, c.count>>
          /\ k \in {1, 2} /\ k < Block256
        BY <1>2
    <2> HIDE DEF length, M, k
    <2>2. /\ c.count = Len(FlattenSeq(chunks))
          /\ FirstWords(Finished(c, Block256, Block256 - k, M, length), words)
               = Digest(iv, FlattenSeq(chunks), Block256, length, words)
        BY <1>1, <1>2, <1>3, <2>1, Hashed
    <2>3. length = <<n>>
        BY <2>2 DEF length, data
    <2> QED
        BY <2>2, <2>3 DEF k, M, length, data
<1>4. ASSUME NEW iv, NEW words, NEW c, c = FedBlocks(Fresh(iv, Block512), chunks, Block512)
      PROVE  FirstWords(Finished(c, Block512, Block512 - 2, Block512 - 1, <<0, c.count>>), words)
               = Digest(iv, data, Block512, <<0, n>>, words)
    <2> DEFINE length == <<0, c.count>>
               M == Block512 - 1
               k == 2
    <2>1. /\ M \in {Block512 - 1} /\ length = IF k = 1 THEN <<c.count>> ELSE <<0, c.count>>
          /\ k \in {1, 2} /\ k < Block512
        BY <1>2
    <2> HIDE DEF length, M, k
    <2>2. /\ c.count = Len(FlattenSeq(chunks))
          /\ FirstWords(Finished(c, Block512, Block512 - k, M, length), words)
               = Digest(iv, FlattenSeq(chunks), Block512, length, words)
        BY <1>1, <1>2, <1>4, <2>1, Hashed
    <2>3. length = <<0, n>>
        BY <2>2 DEF length, data
    <2> QED
        BY <2>2, <2>3 DEF k, M, length, data
<1>5. SHA256_End(Fed(SHA256_Init, chunks, SHA256_Update))
        = Digest("H256", data, Block256, <<n>>, 8)
    BY <1>3, Hashes DEF SHA256_Init
<1>6. SHA512_End(Fed(SHA512_Init, chunks, SHA512_Update))
        = Digest("H512", data, Block512, <<0, n>>, 8)
    BY <1>4, Hashes DEF SHA512_Init
<1>7. SHA384_End(Fed(SHA384_Init, chunks, SHA384_Update))
        = Digest("H384", data, Block512, <<0, n>>, 6)
    BY <1>4, Hashes DEF SHA384_Init
<1> QED
    BY <1>5, <1>6, <1>7 DEF data

\* For any block lengths, any message and any way to cut it into calls of
\* SHA256_Update, SHA512_Update or SHA384_Update (empty pieces and whole blocks
\* included) what is compressed is the padded message of FIPS 180-4, the same as
\* for the message given at once to SHA256_Data, SHA512_Data or SHA384_Data.
THEOREM AnyChunksCorrect ==
    ASSUME NEW D, NEW chunks \in Seq(Seq(D))
    PROVE  AnyChunks(chunks)
<1> DEFINE C == D \cup Nat
           data == FlattenSeq(chunks)
           one == <<data>>
<1>1. Pieces(chunks, C)
    BY Wider
<1>2. Data(data, C)
    <2>1. 1 \in Nat \ {0} /\ Nat \subseteq C
        OBVIOUS
    <2> HIDE DEF C
    <2>2. PICK v \in 0 .. 1 - 1 :
             Upto(FedBlocks(Fresh(0, 1), chunks, 1), FlattenSeq(chunks), v, {0}, C, 1)
        BY <1>1, <2>1, FedUpto
    <2> QED
        BY <2>2 DEF Upto
<1>3. /\ Pieces(one, C) /\ FlattenSeq(one) = data
      /\ \A c, B : FedBlocks(c, one, B) = Absorb(c, data, B)
    <2> HIDE DEF C, data
    <2> QED
        BY <1>2, OnePiece
<1> HIDE DEF one, data
<1>4. /\ SHA256_Data(data) = SHA256_End(Fed(SHA256_Init, one, SHA256_Update))
      /\ SHA512_Data(data) = SHA512_End(Fed(SHA512_Init, one, SHA512_Update))
      /\ SHA384_Data(data) = SHA384_End(Fed(SHA384_Init, one, SHA384_Update))
    <2>1. /\ Fed(SHA256_Init, one, SHA256_Update) = FedBlocks(SHA256_Init, one, Block256)
          /\ Fed(SHA512_Init, one, SHA512_Update) = FedBlocks(SHA512_Init, one, Block512)
          /\ Fed(SHA384_Init, one, SHA384_Update) = FedBlocks(SHA384_Init, one, Block512)
        BY DEF Fed, FedBlocks, SHA256_Update, SHA512_Update, SHA384_Update
    <2> QED
        BY <1>3, <2>1 DEF SHA256_Data, SHA512_Data, SHA384_Data, SHA256_Update,
                          SHA512_Update, SHA384_Update
<1>5. LET n == Len(data)
      IN /\ SHA256_Data(data) = Digest("H256", data, Block256, <<n>>, 8)
         /\ SHA512_Data(data) = Digest("H512", data, Block512, <<0, n>>, 8)
         /\ SHA384_Data(data) = Digest("H384", data, Block512, <<0, n>>, 6)
    BY <1>3, <1>4, AllHashes
<1>6. LET n == Len(data)
      IN /\ SHA256_End(Fed(SHA256_Init, chunks, SHA256_Update))
               = Digest("H256", data, Block256, <<n>>, 8)
         /\ SHA512_End(Fed(SHA512_Init, chunks, SHA512_Update))
               = Digest("H512", data, Block512, <<0, n>>, 8)
         /\ SHA384_End(Fed(SHA384_Init, chunks, SHA384_Update))
               = Digest("H384", data, Block512, <<0, n>>, 6)
    BY <1>1, AllHashes DEF data
<1> QED
    BY <1>5, <1>6 DEF AnyChunks, data

\* In a state that holds pieces of a message, whatever its cells are, the digests
\* of lib/sha do not depend on how it was cut.
THEOREM DigestsCorrect ==
    ASSUME NEW D, Of("sha") => probe.chunks \in Seq(Seq(D))
    PROVE  Digests
BY AnyChunksCorrect DEF Digests

(***************************************************************************)
(* Containers                                                              *)
(***************************************************************************)

\* In a state that holds calls of map_set and map_del, or calls of list_add and
\* list_remove that add only what is absent, however many, the Map of utils.c is a
\* function of its keys and the List a set, but for what was added first.
THEOREM StructuresCorrect ==
    ASSUME NEW K, NEW V, Of("map") => probe.ops \in Seq(Calls(K, V)),
           NEW D, Of("list") => probe.ops \in Seq(ListCalls(D)) /\ Legal(probe.ops)
    PROVE  Structures
<1>1. Of("map") => MapIsFunction(probe.ops, {"a", "b"})
    BY MapCorrect
<1>2. Of("list") => ListIsSet(probe.ops)
    BY ListCorrect
<1> QED
    BY <1>1, <1>2 DEF Structures

(***************************************************************************)
(* Http                                                                    *)
(***************************************************************************)

\* One call of handleNew with n upgrades before it.
Served(flag, lines, n) ==
    [end |-> serve(flag, lines).end, isRecall |-> serve(flag, lines).isRecall, upgrades |-> n]

\* The flag is set by an upgrade and by nothing else.
Flagged(r) ==
    /\ r.end = "upgrade" => r.isRecall = TRUE
    /\ r.end # "upgrade" => r.isRecall = FALSE

\* So it is, and with the flag set there is no upgrade.
LEMMA ServedFacts ==
    ASSUME NEW flag \in BOOLEAN, NEW lines, NEW n \in Nat
    PROVE  /\ Flagged(Served(flag, lines, n))
           /\ flag = TRUE => Served(flag, lines, n).end # "upgrade"
           /\ Served(flag, lines, n).end = serve(flag, lines).end
           /\ Served(flag, lines, n).upgrades = n
<1> DEFINE req == parseHttpRequest(lines)
           up == map_get(req.headers, "Upgrade", "") = "websocket" /\ ~flag
           r == serve(flag, lines)
<1>1. \/ r = [end |-> "command", isRecall |-> FALSE]
      \/ r = [end |-> "bad request", isRecall |-> FALSE]
      \/ up /\ r = [end |-> "upgrade", isRecall |-> TRUE]
      \/ r = [end |-> "welcome", isRecall |-> FALSE]
    BY DEF serve
<1>2. up => flag # TRUE
    OBVIOUS
<1> HIDE DEF up, r
<1>3. Flagged(r) /\ (r.end = "upgrade" => flag # TRUE)
    <2>1. CASE r = [end |-> "command", isRecall |-> FALSE]
        BY <2>1 DEF Flagged
    <2>2. CASE r = [end |-> "bad request", isRecall |-> FALSE]
        BY <2>2 DEF Flagged
    <2>3. CASE up /\ r = [end |-> "upgrade", isRecall |-> TRUE]
        BY <1>2, <2>3 DEF Flagged
    <2>4. CASE r = [end |-> "welcome", isRecall |-> FALSE]
        BY <2>4 DEF Flagged
    <2> QED
        BY <1>1, <2>1, <2>2, <2>3, <2>4
<1>4. Served(flag, lines, n) = [end |-> r.end, isRecall |-> r.isRecall, upgrades |-> n]
    BY DEF Served, r
<1>5. /\ Served(flag, lines, n).end = r.end /\ Served(flag, lines, n).isRecall = r.isRecall
      /\ Served(flag, lines, n).upgrades = n
    BY <1>4
<1> QED
    BY <1>3, <1>5 DEF Flagged, r

\* The connection ends with its first message, or its second after an upgrade.
Served2(msgs) ==
    LET one == Served(FALSE, msgs[1], 0)
    IN IF one.end = "upgrade" THEN Served(TRUE, IF 2 <= Len(msgs) THEN msgs[2] ELSE << >>, 1)
       ELSE one

\* The calls handleNew makes of itself are at most two.
LEMMA HandleNew ==
    ASSUME NEW M, NEW msgs \in Seq(M), msgs # << >>
    PROVE  /\ handleNew(FALSE, msgs) = Served2(msgs)
           /\ Served2(msgs).isRecall = FALSE
           /\ Served2(msgs).upgrades
                = IF serve(FALSE, Head(msgs)).end = "upgrade" THEN 1 ELSE 0
<1> DEFINE N == Len(msgs) + 1
           Msg(i) == IF i <= Len(msgs) THEN msgs[i] ELSE << >>
           next(d, i) == IF d.end = "upgrade" THEN Served(d.isRecall, Msg(i), i - 1) ELSE d
           one == Served(FALSE, Msg(1), 0)
           two == Served(TRUE, Msg(2), 1)
           call == CHOOSE g : g = [i \in 1 .. N |->
                     LET r == serve(IF i = 1 THEN FALSE ELSE g[i - 1].isRecall, Msg(i))
                     IN IF i = 1 \/ g[i - 1].end = "upgrade"
                        THEN [end |-> r.end, isRecall |-> r.isRecall, upgrades |-> i - 1]
                        ELSE g[i - 1]]
           h == [i \in 1 .. N |-> IF i = 1 \/ one.end # "upgrade" THEN one ELSE two]
<1>1. Len(msgs) \in Nat /\ 1 <= Len(msgs) /\ N \in Nat /\ 2 <= N /\ Head(msgs) = msgs[1]
    OBVIOUS
<1>2. handleNew(FALSE, msgs) = call[N]
    BY DEF handleNew
<1>3. Msg(1) = msgs[1] /\ Msg(2) = IF 2 <= Len(msgs) THEN msgs[2] ELSE << >>
    BY <1>1
<1> HIDE DEF Msg, N
<1>4. /\ Flagged(one) /\ one.upgrades = 0
      /\ one.end = serve(FALSE, Msg(1)).end
    <2>1. FALSE \in BOOLEAN /\ 0 \in Nat
        OBVIOUS
    <2> QED
        BY <2>1, ServedFacts
<1>5. Flagged(two) /\ two.end # "upgrade" /\ two.upgrades = 1
    <2>1. TRUE \in BOOLEAN /\ 1 \in Nat
        OBVIOUS
    <2> QED
        BY <2>1, ServedFacts
<1>6. h = [i \in 1 .. N |->
             LET r == serve(IF i = 1 THEN FALSE ELSE h[i - 1].isRecall, Msg(i))
             IN IF i = 1 \/ h[i - 1].end = "upgrade"
                THEN [end |-> r.end, isRecall |-> r.isRecall, upgrades |-> i - 1]
                ELSE h[i - 1]]
    <2> DEFINE R(i) == LET r == serve(IF i = 1 THEN FALSE ELSE h[i - 1].isRecall, Msg(i))
                       IN IF i = 1 \/ h[i - 1].end = "upgrade"
                          THEN [end |-> r.end, isRecall |-> r.isRecall, upgrades |-> i - 1]
                          ELSE h[i - 1]
    <2>1. ASSUME NEW i \in 1 .. N PROVE h[i] = R(i)
        <3>1. CASE i = 1
            <4>1. h[i] = one /\ i - 1 = 0
                BY <3>1
            <4>2. R(i) = Served(FALSE, Msg(1), 0)
                BY <3>1, <4>1 DEF Served
            <4> QED
                BY <4>1, <4>2
        <3>2. CASE i = 2
            <4>1. i - 1 = 1 /\ i # 1 /\ 1 \in 1 .. N
                BY <1>1, <3>2
            <4>2. h[i - 1] = one /\ h[i] = IF one.end # "upgrade" THEN one ELSE two
                BY <4>1
            <4> HIDE DEF one, h
            <4>3. CASE one.end = "upgrade"
                <5>1. one.isRecall = TRUE
                    BY <1>4, <4>3 DEF Flagged
                <5>2. R(i) = Served(TRUE, Msg(2), 1)
                    BY <3>2, <4>1, <4>2, <4>3, <5>1 DEF Served
                <5> QED
                    BY <4>2, <4>3, <5>2
            <4>4. CASE one.end # "upgrade"
                <5>1. R(i) = one
                    BY <4>1, <4>2, <4>4
                <5> QED
                    BY <4>2, <4>4, <5>1
            <4> QED
                BY <4>3, <4>4
        <3>3. CASE i > 2
            <4>1. i - 1 # 1 /\ i # 1 /\ i - 1 \in 1 .. N
                BY <1>1, <3>3
            <4> HIDE DEF one, two
            <4>2. h[i - 1] = h[i] /\ h[i] = IF one.end # "upgrade" THEN one ELSE two
                BY <4>1
            <4> HIDE DEF h
            <4>3. h[i - 1].end # "upgrade"
                BY <1>5, <4>2
            <4>4. R(i) = h[i - 1]
                BY <4>1, <4>3
            <4> QED
                BY <4>2, <4>4
        <3>4. i = 1 \/ i = 2 \/ i > 2
            BY <1>1
        <3> HIDE DEF h, R
        <3> QED
            BY <3>1, <3>2, <3>3, <3>4
    <2>2. h = [i \in 1 .. N |-> h[i]]
        OBVIOUS
    <2> HIDE DEF h
    <2> QED
        BY <2>1, <2>2
<1> HIDE DEF h
<1>7. call = [i \in 1 .. N |->
             LET r == serve(IF i = 1 THEN FALSE ELSE call[i - 1].isRecall, Msg(i))
             IN IF i = 1 \/ call[i - 1].end = "upgrade"
                THEN [end |-> r.end, isRecall |-> r.isRecall, upgrades |-> i - 1]
                ELSE call[i - 1]]
    BY <1>6
<1> HIDE DEF call
<1> DEFINE S == {i \in Nat : i + 1 <= N => call[i + 1] = h[i + 1]}
<1>8. 0 \in S
    <2>1. 1 \in 1 .. N /\ 0 + 1 = 1
        BY <1>1
    <2>2. call[1] = h[1]
        BY <1>6, <1>7, <2>1
    <2> QED
        BY <2>1, <2>2
<1>9. ASSUME NEW i \in Nat, i \in S PROVE i + 1 \in S
    <2> SUFFICES ASSUME i + 2 <= N PROVE call[i + 2] = h[i + 2]
        BY (i + 1) + 1 = i + 2
    <2>1. i + 2 \in 1 .. N /\ (i + 2) - 1 = i + 1 /\ i + 2 # 1 /\ i + 1 <= N
        BY <1>1
    <2>2. call[i + 1] = h[i + 1]
        BY <1>9, <2>1
    <2> DEFINE nx(d) == LET r == serve(d.isRecall, Msg(i + 2))
                        IN IF d.end = "upgrade"
                           THEN [end |-> r.end, isRecall |-> r.isRecall, upgrades |-> (i + 2) - 1]
                           ELSE d
    <2>3. call[i + 2] = nx(call[i + 1])
        BY <1>7, <2>1
    <2>4. h[i + 2] = nx(h[i + 1])
        BY <1>6, <2>1
    <2> QED
        BY <2>2, <2>3, <2>4
<1>10. call[N] = h[N]
    <2>1. N - 1 \in Nat /\ (N - 1) + 1 = N /\ (N - 1) + 1 <= N
        BY <1>1
    <2>2. N - 1 \in S
        <3> HIDE DEF S
        <3> QED
            BY <1>8, <1>9, <2>1, SetInduction
    <2> QED
        BY <2>1, <2>2
<1>11. h[N] = IF one.end # "upgrade" THEN one ELSE two
    <2>1. N \in 1 .. N /\ N # 1
        BY <1>1
    <2> HIDE DEF one, two
    <2> QED
        BY <2>1 DEF h
<1>12. Served2(msgs) = h[N]
    BY <1>3, <1>11 DEF Served2
<1> HIDE DEF one, two
<1>13. Served2(msgs).upgrades = IF one.end = "upgrade" THEN 1 ELSE 0
    BY <1>4, <1>5, <1>11, <1>12
<1>14. Served2(msgs).isRecall = FALSE
    BY <1>4, <1>5, <1>11, <1>12 DEF Flagged
<1> QED
    BY <1>1, <1>2, <1>3, <1>4, <1>10, <1>12, <1>13, <1>14

\* The state of a bridge after some connections: each was served as the first one
\* would be, and the flag is clear.
AsFirst(st, all, n) ==
    /\ st.isRecall = FALSE /\ Len(st.got) = n
    /\ \A i \in 1 .. n : st.got[i] = handleNew(FALSE, all[i])

\* One connection cannot spoil the next: after any connections, each of any
\* messages, the static isRecall of handleNew is clear again, so every connection
\* is served as the first one would be, and an upgrade request is answered once.
THEOREM UpgradeCorrect ==
    ASSUME NEW M, NEW all \in Seq(Seq(M) \ {<< >>})
    PROVE  UpgradeOnce(all)
<1> DEFINE N == Len(all)
           C == Seq(M) \ {<< >>}
           O == {handleNew(FALSE, m) : m \in C}
           W == [isRecall : {FALSE}, got : Seq(O)]
           base == [isRecall |-> FALSE, got |-> << >>]
           op(s, msgs) == LET r == handleNew(s.isRecall, msgs)
                          IN [isRecall |-> r.isRecall, got |-> Append(s.got, r)]
           F == [w \in W \X (1 .. N) |-> op(w[1], all[w[2]])]
           iter == CHOOSE g : g = [I \in SUBSET DOMAIN all |->
                       IF I = {} THEN base ELSE op(g[I \ {Max(I)}], all[Max(I)])]
<1>1. Connections(all) = iter[DOMAIN all]
    BY DEF Connections, FoldLeft, MapThenFoldSet
<1>2. N \in Nat /\ DOMAIN all = 1 .. N
    OBVIOUS
<1>3. base \in W
    OBVIOUS
<1>4. ASSUME NEW i \in 1 .. N PROVE all[i] \in C
    BY ElementType
<1>5. ASSUME NEW i \in 1 .. N
      PROVE  /\ handleNew(FALSE, all[i]).isRecall = FALSE
             /\ handleNew(FALSE, all[i]).upgrades
                  = IF serve(FALSE, Head(all[i])).end = "upgrade" THEN 1 ELSE 0
    <2> DEFINE m == all[i]
    <2>1. m \in Seq(M) /\ m # << >> /\ FALSE \in BOOLEAN
        BY <1>4
    <2> HIDE DEF m
    <2>2. /\ handleNew(FALSE, m).isRecall = FALSE
          /\ handleNew(FALSE, m).upgrades
               = IF serve(FALSE, Head(m)).end = "upgrade" THEN 1 ELSE 0
        BY <2>1, HandleNew
    <2> QED
        BY <2>2 DEF m
<1> HIDE DEF N, C
<1>6. ASSUME NEW s \in W, NEW i \in 1 .. N
      PROVE  /\ op(s, all[i]) = [isRecall |-> FALSE, got |-> Append(s.got, handleNew(FALSE, all[i]))]
             /\ op(s, all[i]) \in W
    <2>1. s.isRecall = FALSE /\ s.got \in Seq(O)
        OBVIOUS
    <2>2. op(s, all[i]) = [isRecall |-> FALSE, got |-> Append(s.got, handleNew(FALSE, all[i]))]
        BY <1>5, <2>1
    <2> DEFINE x == handleNew(FALSE, all[i])
    <2>3. x \in O
        BY <1>4
    <2> HIDE DEF O, op, x
    <2>4. Append(s.got, x) \in Seq(O)
        BY <2>1, <2>3
    <2>5. op(s, all[i]) = [isRecall |-> FALSE, got |-> Append(s.got, x)]
        BY <2>2 DEF x
    <2>6. op(s, all[i]) \in W
        BY <2>4, <2>5
    <2> QED
        BY <2>2, <2>6
<1> HIDE DEF op, W, base
<1>7. /\ F \in [W \X (1 .. N) -> W]
      /\ \A s \in W, i \in 1 .. N : F[<<s, i>>] = op(s, all[i])
    BY <1>6
<1> HIDE DEF F
<1>8. PICK g : IsIter(g, W, N, base, F)
    BY <1>2, <1>3, <1>7, IterExists
<1>9. ASSUME NEW I \in SUBSET (1 .. N), I # {}
      PROVE  g[I] = op(g[I \ {Max(I)}], all[Max(I)])
    <2>1. Max(I) \in 1 .. N
        BY <1>2, <1>9, MaxIn
    <2>2. g[I] = F[<<g[I \ {Max(I)}], Max(I)>>] /\ g[I \ {Max(I)}] \in W
        BY <1>8, <1>9 DEF IsIter
    <2> QED
        BY <1>7, <2>1, <2>2
<1>10. g = [I \in SUBSET DOMAIN all |->
              IF I = {} THEN base ELSE op(g[I \ {Max(I)}], all[Max(I)])]
    BY <1>2, <1>8, <1>9 DEF IsIter
<1>11. iter = [I \in SUBSET DOMAIN all |->
                 IF I = {} THEN base ELSE op(iter[I \ {Max(I)}], all[Max(I)])]
    BY <1>10
<1> HIDE DEF iter
<1>12. ASSUME NEW n \in 1 .. N PROVE iter[1 .. n] = op(iter[1 .. (n - 1)], all[n])
    <2>1. 1 .. n \in SUBSET DOMAIN all /\ n \in Nat \ {0}
        BY <1>2
    <2>2. 1 .. n # {} /\ Max(1 .. n) = n /\ (1 .. n) \ {n} = 1 .. (n - 1)
        BY <2>1, UpTo
    <2> QED
        BY <1>11, <2>1, <2>2
<1>13. PICK f : IsRun(f, iter, W, N, base, F)
    <2>1. iter[{}] = base
        BY <1>2, <1>11
    <2>2. Unfolds(iter, W, N, base, F)
        BY <1>7, <1>12, <2>1 DEF Unfolds
    <2> QED
        BY <1>2, <1>3, <1>7, <2>2, IterSteps
<1> DEFINE S == {n \in Nat : n <= N => AsFirst(f[n], all, n)}
<1>14. 0 \in S
    <2>1. f[0] = base
        BY <1>13 DEF IsRun
    <2>2. base.isRecall = FALSE /\ base.got = << >>
        BY DEF base
    <2>3. AsFirst(f[0], all, 0)
        BY <2>1, <2>2 DEF AsFirst
    <2> QED
        BY <2>3
<1>15. ASSUME NEW n \in Nat, n \in S PROVE n + 1 \in S
    <2> SUFFICES ASSUME n + 1 <= N PROVE AsFirst(f[n + 1], all, n + 1)
        OBVIOUS
    <2> DEFINE x == handleNew(FALSE, all[n + 1])
               old == f[n].got
    <2>1. n + 1 \in 1 .. N /\ (n + 1) - 1 = n /\ n \in 0 .. N /\ n <= N
        BY <1>2
    <2>2. f[n + 1] = F[<<f[n], n + 1>>] /\ f[n] \in W
        BY <1>13, <2>1 DEF IsRun
    <2>3. f[n + 1] = [isRecall |-> FALSE, got |-> Append(old, x)]
        BY <1>6, <1>7, <2>1, <2>2
    <2>4. Len(old) = n /\ (\A i \in 1 .. n : old[i] = handleNew(FALSE, all[i])) /\ old \in Seq(O)
        <3>1. AsFirst(f[n], all, n)
            BY <1>15, <2>1
        <3>2. f[n].got \in Seq(O)
            BY <2>2 DEF W
        <3> QED
            BY <3>1, <3>2 DEF AsFirst
    <2> DEFINE new == Append(old, x)
    <2> HIDE DEF O, x, old
    <2>5. Len(new) = n + 1 /\ new[n + 1] = x /\ \A i \in 1 .. n : new[i] = old[i]
        BY <2>4
    <2> HIDE DEF new
    <2>6. f[n + 1].isRecall = FALSE /\ f[n + 1].got = new
        BY <2>3 DEF new
    <2>7. ASSUME NEW i \in 1 .. n + 1 PROVE new[i] = handleNew(FALSE, all[i])
        <3>1. CASE i = n + 1
            BY <2>5, <3>1 DEF x
        <3>2. CASE i # n + 1
            <4>1. i \in 1 .. n
                BY <3>2
            <4> QED
                BY <2>4, <2>5, <4>1
        <3> QED
            BY <3>1, <3>2
    <2> QED
        BY <2>5, <2>6, <2>7 DEF AsFirst
<1>16. AsFirst(f[N], all, N)
    <2>1. N \in S
        <3> HIDE DEF S
        <3> QED
            BY <1>2, <1>14, <1>15, SetInduction
    <2> QED
        BY <1>2, <2>1
<1>17. f[N] = Connections(all)
    BY <1>1, <1>2, <1>13 DEF IsRun
<1>18. \A i \in 1 .. N : Connections(all).got[i] = handleNew(FALSE, all[i])
    BY <1>16, <1>17 DEF AsFirst
<1> QED
    BY <1>2, <1>5, <1>18 DEF UpgradeOnce

(***************************************************************************)
(* Config: the walk through a config file                                  *)
(***************************************************************************)

\* A config file with keys in K and values in V; no word is the null pointer.
ConfigFile(file, K, V) ==
    /\ Len(file.lines) \in Nat /\ DOMAIN file.lines = 1 .. Len(file.lines)
    /\ \A i \in 1 .. Len(file.lines) :
          /\ file.lines[i].kind \in {"entry", "section", "other"}
          /\ file.lines[i].key \in K /\ Value(file, i) \in V
    /\ NULL \notin K /\ NULL \notin V

\* A Map with keys in K and values in V, each key once.
UMap(m, K, V) == m \in Maps(K, V) /\ Unique(m)

\* What an entry is stored under, and the Map with it.
KeyOf(file, i, section) ==
    IF section # NULL THEN file.lines[i].key ELSE getMappedKey(file.lines[i].key, FILE)

Stored(map, file, i, section) ==
    IF KeyOf(file, i, section) = NULL THEN map
    ELSE map_set(map, KeyOf(file, i, section), Value(file, i))

\* A call of readConfigFile that looks from line a on.
Look(file, a) ==
    LET L == {i \in a .. Len(file.lines) : file.lines[i].kind # "other"}
        i == IF L = {} THEN 0 ELSE Min(L)
    IN IF i = 0 \/ file.lines[i].kind = "section" THEN [at |-> 0, sec |-> NULL, line |-> 0]
       ELSE [at |-> i + 1, sec |-> NULL, line |-> i]

\* There is no entry from line a on up to the next header.
Stops(file, a) ==
    \A i \in 1 .. Len(file.lines) : i >= a /\ file.lines[i].kind = "entry" =>
        \E h \in a .. i : file.lines[h].kind = "section"

\* The next entry from line a on is line l.
Finds(file, a, l) ==
    /\ l \in 1 .. Len(file.lines) /\ a <= l /\ file.lines[l].kind = "entry"
    /\ \A i \in a .. l - 1 : file.lines[i].kind = "other"

\* The least of some numbers.
LEMMA MinFacts ==
    ASSUME NEW S, S \subseteq Nat, S # {}
    PROVE  Min(S) \in S /\ \A y \in S : Min(S) <= y
<1>1. PICK x \in S : \A y \in S : x <= y
    BY Least
<1> QED
    BY <1>1 DEF Min

\* A call stops or finds the next entry.
LEMMA Looked ==
    ASSUME NEW K, NEW V, NEW file, ConfigFile(file, K, V), NEW a \in Nat \ {0}
    PROVE  \/ Stops(file, a) /\ Look(file, a) = [at |-> 0, sec |-> NULL, line |-> 0]
           \/ \E l : Finds(file, a, l) /\ Look(file, a) = [at |-> l + 1, sec |-> NULL, line |-> l]
<1> DEFINE n == Len(file.lines)
           L == {i \in a .. n : file.lines[i].kind # "other"}
           l == Min(L)
<1>1. n \in Nat /\ \A i \in 1 .. n : file.lines[i].kind \in {"entry", "section", "other"}
    BY DEF ConfigFile
<1> HIDE DEF n
<1>2. CASE L = {}
    <2>1. Look(file, a) = [at |-> 0, sec |-> NULL, line |-> 0]
        BY <1>2 DEF Look, n
    <2>2. ASSUME NEW i \in 1 .. n, i >= a PROVE file.lines[i].kind # "entry"
        BY <1>1, <1>2, <2>2
    <2> QED
        BY <2>1, <2>2 DEF Stops, n
<1>3. CASE L # {}
    <2>1. L \subseteq Nat
        BY <1>1
    <2>2. l \in L /\ \A y \in L : l <= y
        <3> HIDE DEF L
        <3> QED
            BY <1>3, <2>1, MinFacts
    <2>3. l \in a .. n /\ l \in 1 .. n /\ l # 0 /\ file.lines[l].kind # "other"
        BY <1>1, <2>2
    <2>4. ASSUME NEW i \in a .. l - 1 PROVE file.lines[i].kind = "other"
        <3>1. i \in a .. n /\ ~ (l <= i)
            BY <1>1, <2>3
        <3>2. i \notin L
            BY <2>2, <3>1
        <3> QED
            BY <3>1, <3>2
    <2>5. Look(file, a) = IF l = 0 \/ file.lines[l].kind = "section"
                          THEN [at |-> 0, sec |-> NULL, line |-> 0]
                          ELSE [at |-> l + 1, sec |-> NULL, line |-> l]
        BY <1>3 DEF Look, n
    <2> HIDE DEF l, L
    <2>6. CASE file.lines[l].kind = "section"
        <3>1. Look(file, a) = [at |-> 0, sec |-> NULL, line |-> 0]
            BY <2>5, <2>6
        <3>2. ASSUME NEW i \in 1 .. n, i >= a, file.lines[i].kind = "entry"
              PROVE  \E h \in a .. i : file.lines[h].kind = "section"
            <4>1. ~ (i <= l - 1)
                <5>1. ASSUME i <= l - 1 PROVE FALSE
                    <6>1. i \in a .. l - 1
                        BY <1>1, <2>3, <3>2, <5>1
                    <6> QED
                        BY <2>4, <3>2, <6>1
                <5> QED
                    BY <5>1
            <4>2. l \in a .. i
                BY <1>1, <2>3, <4>1
            <4> QED
                BY <2>6, <4>2
        <3> QED
            BY <3>1, <3>2 DEF Stops, n
    <2>7. CASE file.lines[l].kind # "section"
        <3>1. Look(file, a) = [at |-> l + 1, sec |-> NULL, line |-> l]
            BY <2>3, <2>5, <2>7
        <3>2. file.lines[l].kind = "entry"
            BY <1>1, <2>3, <2>7
        <3>3. Finds(file, a, l)
            BY <2>3, <2>4, <3>2 DEF Finds, n
        <3> QED
            BY <3>1, <3>3
    <2> QED
        BY <2>6, <2>7
<1> QED
    BY <1>2, <1>3

\* The Map is m with the keys and values of the places T over it, the last of each
\* key; a place without a key is passed over.
Puts(map, m, keys, values, T) ==
    \A key, none : key # NULL =>
        /\ (\A i \in T : keys[i] # key) => map_get(map, key, none) = map_get(m, key, none)
        /\ \A i \in T : /\ keys[i] = key
                        /\ \A j \in T : keys[j] = key => j <= i
                        => map_get(map, key, none) = values[i]

\* One key and its value.
Put(map, k, v) == IF k = NULL THEN map ELSE map_set(map, k, v)

\* One more place, behind the others.
LEMMA PutsStep ==
    ASSUME NEW K, NEW V, NULL \notin K, NEW map, UMap(map, K, V), NEW m, NEW keys, NEW values,
           NEW T, T \subseteq Nat, NEW l \in Nat, \A j \in T : j < l,
           keys[l] \in K \cup {NULL}, keys[l] # NULL => values[l] \in V,
           Puts(map, m, keys, values, T)
    PROVE  /\ UMap(Put(map, keys[l], values[l]), K, V)
           /\ Puts(Put(map, keys[l], values[l]), m, keys, values, T \cup {l})
<1> DEFINE k == keys[l]
           v == values[l]
           new == Put(map, k, v)
<1>1. (k = NULL => new = map) /\ (k # NULL => new = map_set(map, k, v))
    BY DEF Put
<1> HIDE DEF new
<1>2. CASE k = NULL
    <2>1. new = map
        BY <1>1, <1>2
    <2>2. ASSUME NEW key, NEW none, key # NULL
          PROVE  /\ (\A i \in T \cup {l} : keys[i] # key)
                       => map_get(map, key, none) = map_get(m, key, none)
                 /\ \A i \in T \cup {l} : /\ keys[i] = key
                                          /\ \A j \in T \cup {l} : keys[j] = key => j <= i
                                          => map_get(map, key, none) = values[i]
        <3>1. k # key
            BY <1>2, <2>2
        <3>2. /\ (\A i \in T : keys[i] # key) => map_get(map, key, none) = map_get(m, key, none)
              /\ \A i \in T : /\ keys[i] = key
                              /\ \A j \in T : keys[j] = key => j <= i
                              => map_get(map, key, none) = values[i]
            BY <2>2 DEF Puts
        <3> QED
            BY <3>1, <3>2
    <2>3. Puts(map, m, keys, values, T \cup {l})
        BY <2>2 DEF Puts
    <2> QED
        BY <2>1, <2>3 DEF new
<1>3. CASE k # NULL
    <2>1. new = map_set(map, k, v) /\ k \in K /\ v \in V
        BY <1>1, <1>3
    <2>2. new \in Maps(K, V)
        BY <2>1, MapSetType DEF UMap, Maps
    <2>3. ASSUME NEW none PROVE Changes(map, new, k, v, none)
        BY <2>1, SetChanges DEF UMap
    <2>4. UMap(new, K, V)
        BY <2>2, <2>3 DEF Changes, UMap
    <2>5. ASSUME NEW key, NEW none, key # NULL
          PROVE  /\ (\A i \in T \cup {l} : keys[i] # key)
                       => map_get(new, key, none) = map_get(m, key, none)
                 /\ \A i \in T \cup {l} : /\ keys[i] = key
                                          /\ \A j \in T \cup {l} : keys[j] = key => j <= i
                                          => map_get(new, key, none) = values[i]
        <3>1. /\ (\A i \in T : keys[i] # key) => map_get(map, key, none) = map_get(m, key, none)
              /\ \A i \in T : /\ keys[i] = key
                              /\ \A j \in T : keys[j] = key => j <= i
                              => map_get(map, key, none) = values[i]
            BY <2>5 DEF Puts
        <3>2. map_get(new, k, none) = v /\ (key # k => map_get(new, key, none) = map_get(map, key, none))
            BY <2>3 DEF Changes, Agree
        <3>3. CASE key = k
            <4>1. ASSUME NEW i \in T, \A j \in T \cup {l} : keys[j] = key => j <= i
                  PROVE  FALSE
                <5>1. l <= i /\ i < l /\ i \in Nat
                    BY <3>3, <4>1
                <5> QED
                    BY <5>1
            <4> QED
                BY <3>2, <3>3, <4>1
        <3>4. CASE key # k
            BY <3>1, <3>2, <3>4
        <3> QED
            BY <3>3, <3>4
    <2>6. Puts(new, m, keys, values, T \cup {l})
        BY <2>5 DEF Puts
    <2> QED
        BY <2>4, <2>6 DEF new
<1> QED
    BY <1>2, <1>3

\* The greatest of some indices.
LEMMA MaxGreatest ==
    ASSUME NEW N \in Nat, NEW s, s \subseteq 1 .. N, s # {}
    PROVE  Max(s) \in s /\ \A y \in s : y <= Max(s)
<1> DEFINE T == {N - x : x \in s}
<1>1. \A x \in s : x \in Int /\ N - x \in Nat /\ N - x \in T
    OBVIOUS
<1>2. T \subseteq Nat /\ T # {}
    BY <1>1
<1> HIDE DEF T
<1>3. PICK y \in T : \A z \in T : y <= z
    BY <1>2, Least
<1>4. PICK x \in s : y = N - x
    BY DEF T
<1>5. ASSUME NEW z \in s PROVE x >= z /\ z \in Int
    <2>1. N - x <= N - z /\ x \in Int /\ z \in Int
        BY <1>1, <1>3, <1>4
    <2> QED
        BY <2>1
<1>6. Max(s) \in s /\ \A z \in s : Max(s) >= z
    BY <1>5 DEF Max
<1> QED
    BY <1>5, <1>6

\* A lookup that finds the last of the places S, else what was there.
Gets(map, m, key, none, S, values) ==
    map_get(map, key, none) = IF S = {} THEN map_get(m, key, none) ELSE values[Max(S)]

\* A lookup in such a Map.
LEMMA PutsLookup ==
    ASSUME NEW N \in Nat, NEW T, T \subseteq 1 .. N, NEW map, NEW m, NEW keys, NEW values,
           Puts(map, m, keys, values, T), NEW key, key # NULL, NEW none,
           NEW S, \A i : i \in S <=> i \in T /\ keys[i] = key
    PROVE  Gets(map, m, key, none, S, values)
<1>1. CASE S = {}
    <2>1. \A i \in T : keys[i] # key
        BY <1>1
    <2>2. map_get(map, key, none) = map_get(m, key, none)
        BY <2>1 DEF Puts
    <2> QED
        BY <1>1, <2>2 DEF Gets
<1>2. CASE S # {}
    <2> DEFINE l == Max(S)
    <2>1. S \subseteq 1 .. N
        OBVIOUS
    <2>2. l \in S /\ \A y \in S : y <= l
        BY <1>2, <2>1, MaxGreatest
    <2> HIDE DEF l
    <2>3. l \in T /\ keys[l] = key /\ \A j \in T : keys[j] = key => j <= l
        BY <2>2
    <2>4. map_get(map, key, none) = values[l]
        BY <2>3 DEF Puts
    <2> QED
        BY <1>2, <2>4 DEF l, Gets
<1> QED
    BY <1>1, <1>2

\* The same of the entries in the lines T of a config file.
KeysOf(file, section) == [i \in 1 .. Len(file.lines) |-> KeyOf(file, i, section)]

ValuesOf(file) == [i \in 1 .. Len(file.lines) |-> Value(file, i)]

Told(map, m, file, section, T) == Puts(map, m, KeysOf(file, section), ValuesOf(file), T)

\* The keys of the lines are in K, or passed over.
Keyed(file, section, K) ==
    \A i \in 1 .. Len(file.lines) : KeyOf(file, i, section) \in K \cup {NULL}

\* One more entry, behind the others.
LEMMA ToldStep ==
    ASSUME NEW K, NEW V, NEW file, ConfigFile(file, K, V), NEW section, Keyed(file, section, K),
           NEW map, UMap(map, K, V), NEW m, NEW T, T \subseteq Nat, NEW l \in 1 .. Len(file.lines),
           \A j \in T : j < l, Told(map, m, file, section, T)
    PROVE  /\ UMap(Stored(map, file, l, section), K, V)
           /\ Told(Stored(map, file, l, section), m, file, section, T \cup {l})
<1> DEFINE keys == KeysOf(file, section)
           values == ValuesOf(file)
<1>1. values[l] = Value(file, l) /\ keys[l] = KeyOf(file, l, section)
    BY DEF KeysOf, ValuesOf
<1>2. Value(file, l) \in V /\ l \in Nat /\ NULL \notin K
    BY DEF ConfigFile
<1>3. keys[l] \in K \cup {NULL}
    BY <1>1 DEF Keyed
<1>4. Stored(map, file, l, section) = Put(map, keys[l], values[l])
    BY <1>1 DEF Stored, Put
<1>5. Puts(map, m, keys, values, T) /\ values[l] \in V
    BY <1>1, <1>2 DEF Told
<1> HIDE DEF keys, values
<1>6. /\ UMap(Put(map, keys[l], values[l]), K, V)
      /\ Puts(Put(map, keys[l], values[l]), m, keys, values, T \cup {l})
    BY <1>2, <1>3, <1>5, PutsStep
<1> QED
    BY <1>4, <1>6 DEF Told, keys, values

\* The entries from line a on up to the next header.
Part(file, a) ==
    {i \in 1 .. Len(file.lines) : /\ i >= a /\ file.lines[i].kind = "entry"
                                  /\ \A h \in a .. i : file.lines[h].kind # "section"}

\* Where the walk through a section begins.
Begin(file, section) == IF section = NULL THEN 1 ELSE Skip(file, 1, section)

\* The entries above any header are those from the first line on.
LEMMA BeginsAbove ==
    ASSUME NEW K, NEW V, NEW file, ConfigFile(file, K, V)
    PROVE  InSection(file, NULL) = Part(file, 1)
<1> DEFINE n == Len(file.lines)
           H == {i \in 1 .. n : file.lines[i].kind = "section"}
<1>1. n \in Nat /\ DOMAIN file.lines = 1 .. n
    BY DEF ConfigFile
<1>2. InSection(file, NULL)
        = {i \in 1 .. n : file.lines[i].kind = "entry" /\ \A h \in H : i < h}
    BY <1>1 DEF InSection
<1>3. Part(file, 1) = {i \in 1 .. n : /\ i >= 1 /\ file.lines[i].kind = "entry"
                                      /\ \A h \in 1 .. i : file.lines[h].kind # "section"}
    BY DEF Part
<1> HIDE DEF n
<1>4. ASSUME NEW i \in 1 .. n
      PROVE  (\A h \in H : i < h) <=> (i >= 1 /\ \A h \in 1 .. i : file.lines[h].kind # "section")
    <2>1. ASSUME \A h \in H : i < h, NEW h \in 1 .. i PROVE file.lines[h].kind # "section"
        <3>1. h \in 1 .. n /\ ~ (i < h)
            BY <1>1
        <3> QED
            BY <2>1, <3>1
    <2>2. ASSUME \A h \in 1 .. i : file.lines[h].kind # "section", NEW h \in H PROVE i < h
        <3>1. h \in 1 .. n /\ h \notin 1 .. i
            BY <2>2
        <3> QED
            BY <1>1, <3>1
    <2> QED
        BY <1>1, <2>1, <2>2
<1> QED
    BY <1>2, <1>3, <1>4

\* Those of a section begin behind its first header.
LEMMA BeginsBehind ==
    ASSUME NEW K, NEW V, NEW file, ConfigFile(file, K, V), NEW section, section # NULL
    PROVE  LET a == Skip(file, 1, section)
           IN /\ a \in Nat \ {0} /\ a <= Len(file.lines) + 1
              /\ InSection(file, section) = Part(file, a)
<1> DEFINE n == Len(file.lines)
           H == {i \in 1 .. n : file.lines[i].kind = "section"}
           M == {i \in 1 .. n : file.lines[i].kind = "section" /\ file.lines[i].key = section}
           b == Min(M)
           a == Skip(file, 1, section)
<1>1. n \in Nat /\ DOMAIN file.lines = 1 .. n
    BY DEF ConfigFile
<1>2. a = IF M = {} THEN n + 1 ELSE b + 1
    BY DEF Skip
<1>3. InSection(file, section)
        = {i \in 1 .. n : /\ file.lines[i].kind = "entry"
                          /\ M # {} /\ b < i /\ \A h \in H : h <= b \/ i < h}
    <2>1. M = {h \in H : file.lines[h].key = section}
        OBVIOUS
    <2> DEFINE M2 == {h \in H : file.lines[h].key = section}
    <2>2. InSection(file, section)
            = {i \in 1 .. n : /\ file.lines[i].kind = "entry"
                              /\ M2 # {} /\ Min(M2) < i /\ \A h \in H : h <= Min(M2) \/ i < h}
        <3>1. DOMAIN file.lines = 1 .. n
            BY <1>1
        <3> HIDE DEF n
        <3> QED
            BY <3>1 DEF InSection
    <2>3. M2 = M
        BY <2>1
    <2> HIDE DEF M2, M, H, n
    <2> QED
        BY <2>2, <2>3
<1>4. Part(file, a) = {i \in 1 .. n : /\ i >= a /\ file.lines[i].kind = "entry"
                                      /\ \A h \in a .. i : file.lines[h].kind # "section"}
    BY DEF Part
<1> HIDE DEF n, b, a
<1>5. CASE M = {}
    <2>1. a = n + 1
        BY <1>2, <1>5
    <2>2. InSection(file, section) = {}
        BY <1>3, <1>5
    <2>3. Part(file, a) = {}
        BY <1>1, <1>4, <2>1
    <2> QED
        BY <1>1, <2>1, <2>2, <2>3 DEF a, n
<1>6. CASE M # {}
    <2>1. a = b + 1
        BY <1>2, <1>6
    <2>2. b \in 1 .. n
        <3>1. M \subseteq Nat
            BY <1>1
        <3>2. b \in M
            <4> HIDE DEF M
            <4> QED
                BY <1>6, <3>1, MinFacts DEF b
        <3> QED
            BY <3>2
    <2>3. ASSUME NEW i \in 1 .. n
          PROVE  (b < i /\ \A h \in H : h <= b \/ i < h)
                   <=> (i >= a /\ \A h \in a .. i : file.lines[h].kind # "section")
        <3>1. b < i <=> i >= a
            BY <1>1, <2>1, <2>2
        <3>2. ASSUME \A h \in H : h <= b \/ i < h, NEW h \in a .. i
              PROVE  file.lines[h].kind # "section"
            <4>1. h \in 1 .. n /\ ~ (h <= b) /\ ~ (i < h)
                BY <1>1, <2>1, <2>2
            <4> QED
                BY <3>2, <4>1
        <3>3. ASSUME \A h \in a .. i : file.lines[h].kind # "section", NEW h \in H
              PROVE  h <= b \/ i < h
            <4>1. h \in 1 .. n /\ file.lines[h].kind = "section"
                OBVIOUS
            <4>2. h \notin a .. i
                BY <3>3, <4>1
            <4> QED
                BY <1>1, <2>1, <2>2, <4>1, <4>2
        <3> QED
            BY <3>1, <3>2, <3>3
    <2>4. InSection(file, section) = Part(file, a)
        BY <1>3, <1>4, <1>6, <2>3
    <2> QED
        BY <1>1, <2>1, <2>2, <2>4 DEF a, n
<1> QED
    BY <1>5, <1>6

\* The entries of a walk are those of its section.
LEMMA Begins ==
    ASSUME NEW K, NEW V, NEW file, ConfigFile(file, K, V), NEW section
    PROVE  LET a == Begin(file, section)
           IN /\ a \in Nat \ {0} /\ a <= Len(file.lines) + 1
              /\ InSection(file, section) = Part(file, a)
<1> DEFINE a == Begin(file, section)
<1>1. Len(file.lines) \in Nat
    BY DEF ConfigFile
<1>2. CASE section = NULL
    <2>1. a = 1
        BY <1>2 DEF Begin
    <2>2. InSection(file, section) = Part(file, 1)
        BY <1>2, BeginsAbove
    <2> HIDE DEF a
    <2> QED
        BY <1>1, <2>1, <2>2 DEF a
<1>3. CASE section # NULL
    <2>1. a = Skip(file, 1, section)
        BY <1>3 DEF Begin
    <2> HIDE DEF a
    <2> QED
        BY <1>3, <2>1, BeginsBehind DEF a
<1> QED
    BY <1>2, <1>3

\* The static section name is set for the walk, or none is left from the last one.
NoneLeft(st, section) == section # NULL \/ st.sec = NULL

\* The first call opens the file and looks from the header on.
LEMMA FirstCall ==
    ASSUME NEW file, NEW st, NEW section, NoneLeft(st, section)
    PROVE  readConfigFile(file, st, TRUE, section) = Look(file, Begin(file, section))
<1>1. CASE section # NULL
    BY <1>1 DEF readConfigFile, Look, Begin
<1>2. CASE section = NULL
    <2>1. st.sec = NULL
        BY <1>2 DEF NoneLeft
    <2> QED
        BY <1>2, <2>1 DEF readConfigFile, Look, Begin
<1> QED
    BY <1>1, <1>2

\* The others go on where the last one stopped.
LEMMA NextCall ==
    ASSUME NEW file, NEW st, st.sec = NULL
    PROVE  readConfigFile(file, st, FALSE, NULL) = Look(file, st.at)
    BY DEF readConfigFile, Look

\* A call that looks from line p on, and what it does to the Map.
Took(map, file, p, section) ==
    [r |-> Look(file, p),
     map |-> IF Look(file, p).line = 0 THEN map
             ELSE Stored(map, file, Look(file, p).line, section)]

\* The walk after n calls: ended, with all entries from line a on stored, or on its
\* way, with all entries stored that it has passed.
Walked(c, m, file, section, a, K, V, n) ==
    /\ UMap(c.map, K, V) /\ c.r.sec = NULL
    /\ c.r.line = 0 => Told(c.map, m, file, section, Part(file, a))
    /\ c.r.line # 0 =>
          /\ c.r.at \in Nat /\ a + n <= c.r.at /\ c.r.at <= Len(file.lines) + 1
          /\ \A h \in a .. c.r.at - 1 : file.lines[h].kind # "section"
          /\ Told(c.map, m, file, section, {i \in Part(file, a) : i < c.r.at})

\* One call of the walk.
LEMMA WalkOn ==
    ASSUME NEW K, NEW V, NEW file, ConfigFile(file, K, V), NEW section, Keyed(file, section, K),
           NEW a \in Nat \ {0}, NEW n \in Nat, NEW p \in Nat, a + n <= p, p <= Len(file.lines) + 1,
           NEW map, UMap(map, K, V), NEW m,
           \A h \in a .. p - 1 : file.lines[h].kind # "section",
           Told(map, m, file, section, {i \in Part(file, a) : i < p})
    PROVE  Walked(Took(map, file, p, section), m, file, section, a, K, V, n + 1)
<1> DEFINE N == Len(file.lines)
           P == Part(file, a)
           T == {i \in P : i < p}
           c == Took(map, file, p, section)
<1>1. N \in Nat /\ p \in Nat \ {0}
    BY DEF ConfigFile
<1>2. \A i : i \in P <=> /\ i \in 1 .. N /\ i >= a /\ file.lines[i].kind = "entry"
                         /\ \A h \in a .. i : file.lines[h].kind # "section"
    BY DEF Part
<1>3. c.r = Look(file, p) /\ c.map = IF Look(file, p).line = 0 THEN map
                                     ELSE Stored(map, file, Look(file, p).line, section)
    BY DEF Took
<1> HIDE DEF N, P, c
<1>4. CASE Stops(file, p) /\ Look(file, p) = [at |-> 0, sec |-> NULL, line |-> 0]
    <2>1. c.map = map /\ c.r.sec = NULL /\ c.r.line = 0
        BY <1>3, <1>4
    <2>2. ASSUME NEW i \in P PROVE i < p
        <3>1. i \in 1 .. N /\ file.lines[i].kind = "entry" /\ \A h \in a .. i : file.lines[h].kind # "section"
            BY <1>2
        <3>2. ASSUME i >= p PROVE FALSE
            <4>1. PICK h \in p .. i : file.lines[h].kind = "section"
                BY <1>4, <3>1, <3>2 DEF Stops, N
            <4>2. h \in a .. i
                BY <1>1, <3>1
            <4> QED
                BY <3>1, <4>1, <4>2
        <3> QED
            BY <1>1, <3>1, <3>2
    <2>3. T = P
        BY <2>2
    <2>4. Told(map, m, file, section, P)
        BY <2>3 DEF P
    <2> QED
        BY <2>1, <2>4 DEF Walked, P, c
<1>5. ASSUME NEW l, Finds(file, p, l), Look(file, p) = [at |-> l + 1, sec |-> NULL, line |-> l]
      PROVE  Walked(c, m, file, section, a, K, V, n + 1)
    <2>1. /\ l \in 1 .. N /\ p <= l /\ file.lines[l].kind = "entry"
          /\ \A i \in p .. l - 1 : file.lines[i].kind = "other"
        BY <1>5 DEF Finds, N
    <2>2. l # 0
        BY <1>1, <2>1
    <2>3. c.map = Stored(map, file, l, section) /\ c.r.sec = NULL /\ c.r.line = l /\ c.r.at = l + 1
        BY <1>3, <1>5, <2>2
    <2>4. ASSUME NEW h \in a .. l PROVE file.lines[h].kind # "section"
        <3>1. h \in a .. p - 1 \/ h \in p .. l - 1 \/ h = l
            BY <1>1, <2>1
        <3> QED
            BY <2>1, <3>1
    <2>5. l \in P
        BY <1>1, <1>2, <2>1, <2>4
    <2>6. \A i \in P : i < l + 1 => i < p \/ i = l
        <3>1. ASSUME NEW i \in P, i < l + 1, ~ (i < p), i # l PROVE FALSE
            <4>1. i \in 1 .. N /\ file.lines[i].kind = "entry"
                BY <1>2
            <4>2. i \in p .. l - 1
                BY <1>1, <2>1, <3>1, <4>1
            <4> QED
                BY <2>1, <4>1, <4>2
        <3> QED
            BY <3>1
    <2>7. {i \in P : i < l + 1} = T \cup {l}
        <3>1. \A i \in P : i \in Nat
            BY <1>1, <1>2
        <3>2. ASSUME NEW i \in T PROVE i < l + 1
            BY <1>1, <2>1, <3>1
        <3>3. l < l + 1
            BY <1>1, <2>1
        <3> QED
            BY <2>5, <2>6, <3>2, <3>3
    <2>8. T \subseteq Nat /\ \A j \in T : j < l
        BY <1>1, <1>2, <2>1
    <2>9. /\ UMap(Stored(map, file, l, section), K, V)
          /\ Told(Stored(map, file, l, section), m, file, section, T \cup {l})
        <3>1. Told(map, m, file, section, T) /\ l \in 1 .. Len(file.lines)
            BY <2>1 DEF P, N
        <3> HIDE DEF T
        <3> QED
            BY <2>8, <3>1, ToldStep
    <2>10. Told(c.map, m, file, section, {i \in P : i < c.r.at}) /\ UMap(c.map, K, V)
        BY <2>3, <2>7, <2>9
    <2>11. /\ c.r.at \in Nat /\ a + (n + 1) <= c.r.at /\ c.r.at <= N + 1
           /\ \A h \in a .. c.r.at - 1 : file.lines[h].kind # "section"
        <3>1. l + 1 \in Nat /\ a + (n + 1) <= l + 1 /\ l + 1 <= N + 1 /\ (l + 1) - 1 = l
            BY <1>1, <2>1
        <3> QED
            BY <2>3, <2>4, <3>1
    <2> QED
        BY <2>2, <2>3, <2>10, <2>11 DEF Walked, P, N
<1> QED
    BY <1>1, <1>4, <1>5, Looked DEF c

\* The states of a walk.
Walks(K, V) ==
    {c \in [r : [at : Nat, sec : {NULL}, line : Nat], map : Maps(K, V)] :
        Unique(c.map) /\ (c.r.line # 0 => c.r.at # 0)}

\* A call leads to one of them.
LEMMA TookIn ==
    ASSUME NEW K, NEW V, NEW file, ConfigFile(file, K, V), NEW section, Keyed(file, section, K),
           NEW p \in Nat \ {0}, NEW map, UMap(map, K, V)
    PROVE  Took(map, file, p, section) \in Walks(K, V)
<1> DEFINE c == Took(map, file, p, section)
           r == Look(file, p)
           mp == IF r.line = 0 THEN map ELSE Stored(map, file, r.line, section)
<1>1. c = [r |-> r, map |-> mp]
    BY DEF Took
<1>2. CASE Stops(file, p) /\ r = [at |-> 0, sec |-> NULL, line |-> 0]
    <2>1. r \in [at : Nat, sec : {NULL}, line : Nat] /\ r.line = 0
        BY <1>2
    <2>2. mp \in Maps(K, V) /\ Unique(mp)
        BY <2>1 DEF UMap
    <2> HIDE DEF c, r, mp
    <2> QED
        BY <1>1, <2>1, <2>2 DEF Walks, c
<1>3. ASSUME NEW l, Finds(file, p, l), r = [at |-> l + 1, sec |-> NULL, line |-> l]
      PROVE  c \in Walks(K, V)
    <2>1. l \in 1 .. Len(file.lines) /\ Len(file.lines) \in Nat
        BY <1>3 DEF Finds, ConfigFile
    <2>2. l \in Nat \ {0} /\ l + 1 \in Nat \ {0}
        BY <2>1
    <2>3. r \in [at : Nat, sec : {NULL}, line : Nat] /\ r.line = l /\ r.at # 0
        BY <1>3, <2>2
    <2>4. mp = Stored(map, file, l, section)
        BY <2>2, <2>3
    <2>5. UMap(Stored(map, file, l, section), K, V)
        <3> DEFINE T == {}
        <3>1. T \subseteq Nat /\ \A j \in T : j < l
            OBVIOUS
        <3>2. Told(map, map, file, section, T)
            BY DEF Told, Puts
        <3> HIDE DEF T
        <3> QED
            BY <2>1, <3>1, <3>2, ToldStep
    <2>6. mp \in Maps(K, V) /\ Unique(mp)
        BY <2>4, <2>5 DEF UMap
    <2> HIDE DEF c, r, mp
    <2> QED
        BY <1>1, <2>3, <2>6 DEF Walks
<1> HIDE DEF c
<1> QED
    BY <1>2, <1>3, Looked DEF c

\* A walk of N + 1 calls: the first and each next one.
IsWalk(f, m, file, section, N) ==
    /\ f[1] = Took(m, file, Begin(file, section), section)
    /\ \A n \in 2 .. N + 1 :
          f[n] = IF f[n - 1].r.line = 0 THEN f[n - 1]
                 ELSE Took(f[n - 1].map, file, f[n - 1].r.at, section)

\* configFileToMap is the walk through its section.
LEMMA WalkExists ==
    ASSUME NEW K, NEW V, NEW file, ConfigFile(file, K, V), NEW section,
           Keyed(file, section, K), NEW m, UMap(m, K, V), NEW st, NoneLeft(st, section), NEW N, N = Len(file.lines)
    PROVE  \E f : /\ IsWalk(f, m, file, section, N)
                  /\ configFileToMap(m, st, file, section) = f[N + 1]
<1> DEFINE a == Begin(file, section)
           W == Walks(K, V)
           Next1(c) == IF c.r.line = 0 THEN c ELSE Took(c.map, file, c.r.at, section)
           F == [x \in W \X (1 .. N) |-> Next1(x[1])]
           base == Took(m, file, a, section)
           head(t) == [r |-> t, map |-> IF t.line = 0 THEN m ELSE Stored(m, file, t.line, section)]
           body(c) == LET t == readConfigFile(file, c.r, FALSE, NULL)
                      IN [r |-> t, map |-> IF t.line = 0 THEN c.map
                                           ELSE Stored(c.map, file, t.line, section)]
           begin == head(readConfigFile(file, st, TRUE, section))
           step(c) == IF c.r.line = 0 THEN c ELSE body(c)
           call == CHOOSE g : g = [i \in 1 .. N + 1 |-> IF i = 1 THEN begin ELSE step(g[i - 1])]
<1>1. N \in Nat
    BY DEF ConfigFile
<1>2. configFileToMap(m, st, file, section) = call[N + 1]
    BY DEF configFileToMap, Stored, KeyOf
<1>3. begin = base
    BY FirstCall DEF Took
<1>4. ASSUME NEW c, c.r.sec = NULL PROVE step(c) = Next1(c)
    BY <1>4, NextCall DEF Took
<1>5. a \in Nat \ {0}
    BY Begins
<1> HIDE DEF begin, step, a
<1>6. base \in W
    BY <1>5, TookIn
<1>7. ASSUME NEW c \in W PROVE Next1(c) \in W /\ c.r.sec = NULL
    <2>1. /\ c.r.sec = NULL /\ c.map \in Maps(K, V) /\ Unique(c.map) /\ c.r.at \in Nat
          /\ c.r.line # 0 => c.r.at # 0
        BY DEF Walks
    <2>2. UMap(c.map, K, V)
        BY <2>1 DEF UMap
    <2>3. CASE c.r.line = 0
        BY <2>1, <2>3
    <2>4. CASE c.r.line # 0
        <3>1. c.r.at \in Nat \ {0}
            BY <2>1, <2>4
        <3>2. Took(c.map, file, c.r.at, section) \in W
            BY <2>2, <3>1, TookIn
        <3> QED
            BY <2>1, <2>4, <3>2
    <2> QED
        BY <2>3, <2>4
<1> HIDE DEF W, base, Next1
<1>8. F \in [W \X (1 .. N) -> W]
    BY <1>7
<1>9. \A x \in W, n \in 1 .. N : F[<<x, n>>] = Next1(x)
    OBVIOUS
<1> HIDE DEF F
<1>10. PICK g : IsRec(g, W, N, base, F)
    BY <1>1, <1>6, <1>8, RecExists
<1>11. g \in [0 .. N -> W] /\ g[0] = base /\ \A n \in 1 .. N : g[n] = F[<<g[n - 1], n>>]
    BY <1>10 DEF IsRec
<1> DEFINE h == [i \in 1 .. N + 1 |-> g[i - 1]]
<1>12. ASSUME NEW i \in 1 .. N + 1 PROVE h[i] \in W
    BY <1>1, <1>11
<1>13. ASSUME NEW i \in 2 .. N + 1 PROVE h[i] = Next1(h[i - 1])
    <2>1. i \in 1 .. N + 1 /\ i - 1 \in 1 .. N + 1 /\ i - 1 \in 1 .. N /\ (i - 1) - 1 \in 0 .. N
        BY <1>1
    <2>2. h[i] = g[i - 1] /\ h[i - 1] = g[(i - 1) - 1]
        BY <2>1
    <2>3. g[(i - 1) - 1] \in W
        BY <1>11, <2>1
    <2>4. g[i - 1] = F[<<g[(i - 1) - 1], i - 1>>]
        BY <1>11, <2>1
    <2>5. g[i - 1] = Next1(g[(i - 1) - 1])
        BY <1>9, <2>1, <2>3, <2>4
    <2> QED
        BY <2>2, <2>5
<1>14. h[1] = base
    BY <1>1, <1>11
<1>15. h = [i \in 1 .. N + 1 |-> IF i = 1 THEN begin ELSE step(h[i - 1])]
    <2>1. ASSUME NEW i \in 1 .. N + 1 PROVE h[i] = IF i = 1 THEN begin ELSE step(h[i - 1])
        <3>1. CASE i = 1
            BY <1>3, <1>14, <3>1
        <3>2. CASE i # 1
            <4>1. i \in 2 .. N + 1 /\ i - 1 \in 1 .. N + 1
                BY <1>1, <3>2
            <4>2. h[i] = Next1(h[i - 1]) /\ h[i - 1] \in W
                BY <1>12, <1>13, <4>1
            <4> HIDE DEF h
            <4>3. step(h[i - 1]) = Next1(h[i - 1])
                BY <1>4, <1>7, <4>2
            <4> QED
                BY <3>2, <4>2, <4>3
        <3> QED
            BY <3>1, <3>2
    <2> DEFINE q == [i \in 1 .. N + 1 |-> IF i = 1 THEN begin ELSE step(h[i - 1])]
    <2>2. \A i \in 1 .. N + 1 : h[i] = q[i]
        BY <2>1
    <2> QED
        BY <2>2
<1> HIDE DEF h
<1>16. call = [i \in 1 .. N + 1 |-> IF i = 1 THEN begin ELSE step(call[i - 1])]
    BY <1>15
<1> HIDE DEF call
<1>17. call[1] = base
    BY <1>1, <1>3, <1>16
<1> DEFINE S == {n \in Nat : n <= N => call[n + 1] \in W}
<1>18. \A n \in Nat : n \in S
    <2>1. 0 \in S
        BY <1>6, <1>17
    <2>2. ASSUME NEW n \in Nat, n \in S PROVE n + 1 \in S
        <3> SUFFICES ASSUME n + 1 <= N PROVE call[(n + 1) + 1] \in W
            OBVIOUS
        <3>1. call[n + 1] \in W
            BY <1>1, <2>2
        <3>2. (n + 1) + 1 \in 1 .. N + 1 /\ (n + 1) + 1 # 1 /\ ((n + 1) + 1) - 1 = n + 1
            BY <1>1
        <3>3. call[(n + 1) + 1] = step(call[n + 1])
            BY <1>16, <3>2
        <3> QED
            BY <1>4, <1>7, <3>1, <3>3
    <2> HIDE DEF S
    <2> QED
        BY <2>1, <2>2, SetInduction
<1>19. ASSUME NEW n \in 2 .. N + 1 PROVE call[n] = Next1(call[n - 1])
    <2>1. n \in 1 .. N + 1 /\ n # 1 /\ n - 2 \in Nat /\ n - 2 <= N /\ (n - 2) + 1 = n - 1
        BY <1>1
    <2>2. call[n - 1] \in W
        BY <1>18, <2>1
    <2>3. call[n] = step(call[n - 1])
        BY <1>16, <2>1
    <2> QED
        BY <1>4, <1>7, <2>2, <2>3
<1>20. IsWalk(call, m, file, section, N)
    BY <1>17, <1>19 DEF IsWalk, base, a, Next1
<1> QED
    BY <1>2, <1>20

\* configFileToMap stores the entries of the section, the last of each key, and
\* nothing else, whatever walk was before it.
LEMMA SectionWalk ==
    ASSUME NEW K, NEW V, NEW file, ConfigFile(file, K, V), NEW section,
           Keyed(file, section, K), NEW m, UMap(m, K, V), NEW st, NoneLeft(st, section)
    PROVE  /\ UMap(configFileToMap(m, st, file, section).map, K, V)
           /\ Told(configFileToMap(m, st, file, section).map, m, file, section,
                   InSection(file, section))
<1> DEFINE N == Len(file.lines)
           a == Begin(file, section)
           P == Part(file, a)
<1>1. N \in Nat
    BY DEF ConfigFile
<1>2. a \in Nat \ {0} /\ a <= N + 1 /\ InSection(file, section) = P
    BY Begins
<1>3. PICK f : IsWalk(f, m, file, section, N) /\ configFileToMap(m, st, file, section) = f[N + 1]
    <2>1. N = Len(file.lines)
        OBVIOUS
    <2> HIDE DEF N
    <2> QED
        BY <2>1, WalkExists
<1>4. f[1] = Took(m, file, a, section)
    BY <1>3 DEF IsWalk
<1>5. ASSUME NEW n \in 2 .. N + 1
      PROVE  f[n] = IF f[n - 1].r.line = 0 THEN f[n - 1]
                    ELSE Took(f[n - 1].map, file, f[n - 1].r.at, section)
    BY <1>3 DEF IsWalk
<1> HIDE DEF a
<1> DEFINE Good(n) == Walked(f[n + 1], m, file, section, a, K, V, n + 1)
           S == {n \in Nat : n <= N => Good(n)}
<1>6. 0 \in S
    <2> DEFINE T == {i \in P : i < a}
    <2>1. T = {}
        BY <1>1, <1>2 DEF Part
    <2>2. Told(m, m, file, section, T)
        BY <2>1 DEF Told, Puts
    <2>3. a + 0 <= a /\ a \in Nat /\ \A h \in a .. a - 1 : file.lines[h].kind # "section"
        BY <1>2
    <2>4. Walked(Took(m, file, a, section), m, file, section, a, K, V, 0 + 1)
        <3>1. 0 \in Nat
            OBVIOUS
        <3> QED
            BY <1>2, <2>2, <2>3, <3>1, WalkOn
    <2> QED
        BY <1>4, <2>4
<1>7. ASSUME NEW n \in Nat, n \in S PROVE n + 1 \in S
    <2> SUFFICES ASSUME n + 1 <= N PROVE Good(n + 1)
        OBVIOUS
    <2> DEFINE c == f[n + 1]
               d == f[(n + 1) + 1]
    <2>1. Walked(c, m, file, section, a, K, V, n + 1)
        BY <1>1, <1>7
    <2>2. (n + 1) + 1 \in 2 .. N + 1 /\ ((n + 1) + 1) - 1 = n + 1 /\ n + 1 \in Nat
        BY <1>1
    <2>3. d = IF c.r.line = 0 THEN c ELSE Took(c.map, file, c.r.at, section)
        BY <1>5, <2>2
    <2> HIDE DEF c, d
    <2>4. CASE c.r.line = 0
        <3>1. d = c
            BY <2>3, <2>4
        <3>2. Walked(c, m, file, section, a, K, V, (n + 1) + 1)
            BY <2>1, <2>4 DEF Walked
        <3> QED
            BY <3>1, <3>2 DEF d
    <2>5. CASE c.r.line # 0
        <3> DEFINE p == c.r.at
        <3>1. /\ UMap(c.map, K, V) /\ p \in Nat /\ a + (n + 1) <= p /\ p <= N + 1
              /\ \A h \in a .. p - 1 : file.lines[h].kind # "section"
              /\ Told(c.map, m, file, section, {i \in Part(file, a) : i < p})
            BY <2>1, <2>5 DEF Walked
        <3>2. d = Took(c.map, file, p, section)
            BY <2>3, <2>5
        <3> HIDE DEF p
        <3>3. Walked(Took(c.map, file, p, section), m, file, section, a, K, V, (n + 1) + 1)
            BY <1>2, <2>2, <3>1, WalkOn
        <3> QED
            BY <3>2, <3>3 DEF d
    <2> QED
        BY <2>4, <2>5
<1>8. \A n \in Nat : n \in S
    <2> HIDE DEF S
    <2> QED
        BY <1>6, <1>7, SetInduction
<1>9. Walked(f[N + 1], m, file, section, a, K, V, N + 1)
    BY <1>1, <1>8
<1>10. f[N + 1].r.line = 0
    <2>1. ASSUME f[N + 1].r.line # 0 PROVE FALSE
        <3> DEFINE p == f[N + 1].r.at
        <3>1. p \in Nat /\ a + (N + 1) <= p /\ p <= N + 1
            BY <1>9, <2>1 DEF Walked
        <3> HIDE DEF p, N
        <3> QED
            BY <1>1, <1>2, <3>1
    <2> QED
        BY <2>1
<1>11. UMap(f[N + 1].map, K, V) /\ Told(f[N + 1].map, m, file, section, P)
    BY <1>9, <1>10 DEF Walked
<1> QED
    BY <1>2, <1>3, <1>11

\* The first of two words that is one.
LEMMA FirstOfTwo ==
    ASSUME NEW x, NEW y
    PROVE  First(<<x, y>>) = IF x # NULL THEN x ELSE y
<1> DEFINE w == <<x, y>>
           P == {i \in DOMAIN w : w[i] # NULL}
<1>1. DOMAIN w = {1, 2} /\ w[1] = x /\ w[2] = y
    OBVIOUS
<1>2. First(w) = IF P = {} THEN NULL ELSE w[Min(P)]
    BY DEF First
<1> HIDE DEF w
<1>3. P \subseteq Nat
    BY <1>1
<1>4. P # {} => Min(P) \in P /\ \A z \in P : Min(P) <= z
    <2> HIDE DEF P
    <2> QED
        BY <1>3, MinFacts
<1>5. CASE x # NULL
    <2>1. 1 \in P
        BY <1>1, <1>5
    <2>2. Min(P) \in P /\ Min(P) <= 1
        BY <1>4, <2>1
    <2>3. Min(P) = 1
        <3>1. Min(P) \in {1, 2}
            BY <1>1, <2>2
        <3> QED
            BY <2>2, <3>1
    <2>4. First(w) = w[Min(P)]
        BY <1>2, <2>1
    <2> QED
        BY <1>1, <1>5, <2>3, <2>4 DEF w
<1>6. CASE x = NULL /\ y # NULL
    <2>1. P = {2}
        BY <1>1, <1>6
    <2>2. Min(P) = 2
        BY <1>4, <2>1
    <2>3. First(w) = w[Min(P)]
        BY <1>2, <2>1
    <2> QED
        BY <1>1, <1>6, <2>2, <2>3 DEF w
<1>7. CASE x = NULL /\ y = NULL
    <2>1. P = {}
        BY <1>1, <1>7
    <2> QED
        BY <1>2, <1>7, <2>1 DEF w
<1> QED
    BY <1>5, <1>6, <1>7

\* A lookup in the Map that a walk through a section left: the last line of the
\* key, as it was read.
LEMMA SectionLookup ==
    ASSUME NEW K, NEW V, NULL \notin K, NULL \notin V, NEW file, ConfigFile(file, K, V),
           NEW section, section # NULL, NEW st, NEW id, id # NULL, NEW none
    PROVE  LET S == KeyLines(file, section, id)
           IN /\ S # {} => Max(S) \in 1 .. Len(file.lines)
              /\ map_get(configFileToMap(map_init, st, file, section).map, id, none)
                   = IF S = {} THEN none ELSE Value(file, Max(S))
<1> DEFINE map == configFileToMap(map_init, st, file, section).map
           I == InSection(file, section)
           S == KeyLines(file, section, id)
           N == Len(file.lines)
<1>1. UMap(map_init, K, V)
    BY DEF UMap, Maps, map_init, Unique
<1>2. Keyed(file, section, K)
    BY DEF Keyed, KeyOf, ConfigFile
<1>3. Told(map, map_init, file, section, I)
    BY <1>1, <1>2, SectionWalk DEF NoneLeft
<1>4. map_get(map_init, id, none) = none
    BY DEF map_get, map_getItem, map_init
<1>5. S = {i \in I : file.lines[i].key = id}
    BY DEF KeyLines
<1>6. N \in Nat /\ I \subseteq 1 .. N
    BY DEF InSection, ConfigFile
<1>7. \A i \in 1 .. N : /\ KeysOf(file, section)[i] = file.lines[i].key
                        /\ ValuesOf(file)[i] = Value(file, i)
    BY DEF KeyOf, KeysOf, ValuesOf
<1> HIDE DEF map, I, N, S
<1>8. S = {i \in I : KeysOf(file, section)[i] = id} /\ S \subseteq 1 .. N
    BY <1>5, <1>6, <1>7
<1>9. map_get(map, id, none)
        = IF S = {} THEN map_get(map_init, id, none) ELSE ValuesOf(file)[Max(S)]
    <2> DEFINE keys == KeysOf(file, section)
               values == ValuesOf(file)
    <2>1. Puts(map, map_init, keys, values, I) /\ \A i : i \in S <=> i \in I /\ keys[i] = id
        BY <1>3, <1>8 DEF Told
    <2> HIDE DEF keys, values
    <2>2. N \in Nat /\ I \subseteq 1 .. N
        BY <1>6
    <2>3. Gets(map, map_init, id, none, S, values)
        BY <2>1, <2>2, PutsLookup
    <2> QED
        BY <2>3 DEF values, Gets
<1>10. S # {} => Max(S) \in 1 .. N
    BY <1>6, <1>8, MaxGreatest
<1>11. map_get(map, id, none) = IF S = {} THEN none ELSE Value(file, Max(S))
    BY <1>4, <1>7, <1>9, <1>10
<1> QED
    BY <1>10, <1>11 DEF map, S, N

\* A line that ends with a newline is read as it is written.
LEMMA WholeRead ==
    ASSUME NEW file, Len(file.lines) \in Nat, NEW S, S # {}, Max(S) \in 1 .. Len(file.lines),
           Whole(file, S)
    PROVE  Value(file, Max(S)) = Written(file, S)
<1>1. Written(file, S) = file.lines[Max(S)].value
    BY DEF Written, LastOf
<1>2. Max(S) < Len(file.lines) \/ file.newline
    BY DEF Whole
<1>3. ~ (Max(S) = Len(file.lines) /\ ~file.newline)
    BY <1>2
<1> QED
    BY <1>1, <1>3 DEF Value

\* The keys that confInit gives to a bridge.
LEMMA BridgeKeys ==
    ASSUME NEW argv, NEW env, NEW files, confInit(argv, env, files).mode = "BRIDGE"
    PROVE  LET c == confInit(argv, env, files).at.context
               file == FileOf(argv, env, files)
           IN /\ c.listenKeys = configFileToMap(map_init, Closed, file, "Listen Keys").map
              /\ \E st : c.queryKeys = configFileToMap(map_init, st, file, "Query Keys").map
<1> DEFINE file == FileOf(argv, env, files)
           args == Collect(argv, env, files)
           conf == parseArgs(args, file)
           lk == configFileToMap(map_init, Closed, file, "Listen Keys")
           qk == configFileToMap(map_init, lk.r, file, "Query Keys")
<1>1. confInit(argv, env, files) = conf
    BY DEF confInit
<1> HIDE DEF file, args
<1>2. conf.mode = mapMode(getValue(args, "mode", "b"))
    BY DEF parseArgs
<1>3. mapMode(getValue(args, "mode", "b")) = "BRIDGE"
    BY <1>1, <1>2
<1>4. conf.at = bridgeMode(args, file)
    BY <1>3 DEF parseArgs
<1>5. bridgeMode(args, file).context = [listenKeys |-> lk.map, queryKeys |-> qk.map]
    BY DEF bridgeMode, bridgeContextInit
<1> HIDE DEF conf, lk, qk
<1>6. conf.at.context.listenKeys = lk.map /\ conf.at.context.queryKeys = qk.map
    BY <1>4, <1>5
<1> QED
    BY <1>1, <1>6 DEF lk, qk, file

\* KeySections for every command line, environment and set of config files whose
\* keys and values are no null pointers: the keys a bridge accepts are those of
\* the section of their kind, the last of each, with the salt written there (if
\* that line ends with a newline), and the listen keys of the environment, although
\* configFileToMap walks the file three times over one static position and section
\* name.
THEOREM KeySectionsCorrect ==
    ASSUME NEW K, NEW V, NULL \notin K, NULL \notin V,
           Of("config") => \A p \in DOMAIN probe.files : ConfigFile(probe.files[p], K, V)
    PROVE  KeySections
<1> SUFFICES ASSUME Of("config") PROVE OwnKeys(probe.mode, probe.items, probe.env, probe.files)
    BY DEF KeySections
<1> DEFINE argv == Argv(probe.mode, probe.items)
           env == probe.env
           files == probe.files
           file == FileOf(argv, env, files)
           conf == confInit(argv, env, files)
           path == getValue(FirstPass(argv, env), "config-file", "homenet.conf")
<1>1. \A p \in DOMAIN files : ConfigFile(files[p], K, V)
    OBVIOUS
<1> HIDE DEF argv, env, files
<1>2. file = IF path \in DOMAIN files THEN files[path] ELSE NoSuchFile
    BY DEF FileOf
<1> HIDE DEF path, file, conf
<1>3. ConfigFile(NoSuchFile, K, V)
    BY DEF ConfigFile, NoSuchFile
<1>4. ConfigFile(file, K, V)
    BY <1>1, <1>2, <1>3
<1>5. ASSUME conf.mode = "BRIDGE", NEW id \in {file.lines[i].key : i \in DOMAIN file.lines} \cup {"k"}
      PROVE  LET L == KeyLines(file, "Listen Keys", id)
                 Q == KeyLines(file, "Query Keys", id)
             IN /\ Whole(file, L) =>
                     getSaltForListenId(id, conf.at.context, env)
                       = First(<<Written(file, L), getEnv(env, "L-" \o id)>>)
                /\ Whole(file, Q) =>
                     verifyAuthRespFromMap(conf.at.context.queryKeys, id) = Written(file, Q)
    <2>1. id # NULL
        <3>1. id = "k" \/ id \in K
            BY <1>4 DEF ConfigFile
        <3> QED
            BY <3>1 DEF NULL
    <2> DEFINE c == conf.at.context
    <2>2. /\ c.listenKeys = configFileToMap(map_init, Closed, file, "Listen Keys").map
          /\ \E st : c.queryKeys = configFileToMap(map_init, st, file, "Query Keys").map
        BY <1>5, BridgeKeys DEF conf, file
    <2> HIDE DEF c
    <2>3. PICK st : c.queryKeys = configFileToMap(map_init, st, file, "Query Keys").map
        BY <2>2
    <2>4. ASSUME NEW section, section # NULL, NEW st2, NEW none,
                 Whole(file, KeyLines(file, section, id))
          PROVE  LET S == KeyLines(file, section, id)
                     w == Written(file, S)
                 IN /\ S = {} => w = NULL
                    /\ S # {} => w # NULL
                    /\ map_get(configFileToMap(map_init, st2, file, section).map, id, none)
                         = IF S = {} THEN none ELSE w
        <3> DEFINE S == KeyLines(file, section, id)
        <3>1. /\ S # {} => Max(S) \in 1 .. Len(file.lines)
              /\ map_get(configFileToMap(map_init, st2, file, section).map, id, none)
                   = IF S = {} THEN none ELSE Value(file, Max(S))
            BY <1>4, <2>1, <2>4, SectionLookup
        <3>2. Len(file.lines) \in Nat /\ \A i \in 1 .. Len(file.lines) : Value(file, i) # NULL
            BY <1>4 DEF ConfigFile
        <3>3. S = {} => Written(file, S) = NULL
            BY DEF Written, LastOf
        <3>4. Whole(file, S)
            BY <2>4
        <3> HIDE DEF S
        <3>5. S # {} => Value(file, Max(S)) = Written(file, S)
            BY <3>1, <3>2, <3>4, WholeRead
        <3> QED
            BY <3>1, <3>2, <3>3, <3>5 DEF S
    <2> DEFINE L == KeyLines(file, "Listen Keys", id)
               Q == KeyLines(file, "Query Keys", id)
               var == getEnv(env, "L-" \o id)
    <2>5. ASSUME Whole(file, L)
          PROVE  getSaltForListenId(id, c, env) = First(<<Written(file, L), var>>)
        <3> DEFINE section == "Listen Keys"
                   map == configFileToMap(map_init, Closed, file, section).map
        <3>1. section # NULL /\ L = KeyLines(file, section, id) /\ c.listenKeys = map
            BY <2>2 DEF NULL
        <3> HIDE DEF section, L
        <3>2. /\ L = {} => Written(file, L) = NULL
              /\ L # {} => Written(file, L) # NULL
              /\ map_get(map, id, var) = IF L = {} THEN var ELSE Written(file, L)
            BY <2>4, <2>5, <3>1
        <3>3. getSaltForListenId(id, c, env) = map_get(c.listenKeys, id, var)
            BY DEF getSaltForListenId
        <3> DEFINE w == Written(file, L)
        <3> HIDE DEF w, L, var
        <3>4. First(<<w, var>>) = IF w # NULL THEN w ELSE var
            BY FirstOfTwo
        <3> QED
            BY <3>1, <3>2, <3>3, <3>4 DEF w
    <2>6. ASSUME Whole(file, Q)
          PROVE  verifyAuthRespFromMap(c.queryKeys, id) = Written(file, Q)
        <3> DEFINE section == "Query Keys"
                   map == configFileToMap(map_init, st, file, section).map
        <3>1. section # NULL /\ Q = KeyLines(file, section, id) /\ c.queryKeys = map
            BY <2>3 DEF NULL
        <3> HIDE DEF section, Q
        <3>2. /\ Q = {} => Written(file, Q) = NULL
              /\ map_get(map, id, NULL) = IF Q = {} THEN NULL ELSE Written(file, Q)
            BY <2>4, <2>6, <3>1
        <3> QED
            BY <3>1, <3>2 DEF verifyAuthRespFromMap
    <2> QED
        BY <2>5, <2>6 DEF c
<1> QED
    BY <1>5 DEF OwnKeys, argv, env, files, file, conf

(***************************************************************************)
(* Config: the command line over the environment and the file              *)
(***************************************************************************)

\* The options, by their own keys.
Options == {mapping[i][1] : i \in 1 .. 16}

\* The table has sixteen rows, each with a key of its own, mode with no option.
LEMMA Mapping ==
    /\ DOMAIN mapping = 1 .. 16 /\ Len(mapping) = 16
    /\ \A i, j \in 1 .. 16 : mapping[i][1] = mapping[j][1] => i = j
    /\ \A i \in 1 .. 16 : mapping[i][1] # NULL
    /\ \A i \in 1 .. 16 : mapping[i][1] = "mode" => mapping[i][CLI] = NULL
<1>1. DOMAIN mapping = 1 .. 16 /\ Len(mapping) = 16
    BY DEF mapping
<1>2. /\ mapping[1][1] = "mode" /\ mapping[2][1] = "config-file" /\ mapping[3][1] = "use-env"
      /\ mapping[4][1] = "url" /\ mapping[5][1] = "key" /\ mapping[6][1] = "salt"
      /\ mapping[7][1] = "master-key" /\ mapping[8][1] = "port" /\ mapping[9][1] = "name"
      /\ mapping[10][1] = "local-ip" /\ mapping[11][1] = "use-rl" /\ mapping[12][1] = "data"
      /\ mapping[13][1] = "use-mdns" /\ mapping[14][1] = "conn-auth"
      /\ mapping[15][1] = "query-auth" /\ mapping[16][1] = "rl-auth" /\ mapping[1][2] = NULL
    BY DEF mapping
<1>3. \A i \in 1 .. 16 : \/ i = 1 \/ i = 2 \/ i = 3 \/ i = 4 \/ i = 5 \/ i = 6 \/ i = 7 \/ i = 8
                         \/ i = 9 \/ i = 10 \/ i = 11 \/ i = 12 \/ i = 13 \/ i = 14 \/ i = 15
                         \/ i = 16
    OBVIOUS
<1>4. \A i, j \in 1 .. 16 : mapping[i][1] = mapping[j][1] => i = j
    BY <1>2, <1>3
<1>5. \A i \in 1 .. 16 : mapping[i][1] # "NULL"
    BY <1>2, <1>3
<1>6. \A i \in 1 .. 16 : mapping[i][1] = "mode" => i = 1
    BY <1>2, <1>3
<1>7. \A i \in 1 .. 16 : mapping[i][1] # NULL
    BY <1>5 DEF NULL
<1>8. mapping[1][CLI] = NULL
    BY <1>2 DEF CLI
<1> QED
    BY <1>1, <1>4, <1>6, <1>7, <1>8

\* A word means an option or none; no word of the command line means the mode.
LEMMA Mapped ==
    ASSUME NEW w, NEW c
    PROVE  getMappedKey(w, c) \in Options \cup {NULL} /\ getMappedKey(w, CLI) # "mode"
<1>1. ASSUME NEW d
      PROVE  \/ getMappedKey(w, d) = NULL
             \/ \E i \in 1 .. 16 : mapping[i][d] = w /\ w # NULL /\ getMappedKey(w, d) = mapping[i][1]
    <2> DEFINE R == Rows(w, d)
    <2>1. R = {i \in 1 .. 16 : mapping[i][d] = w /\ w # NULL}
        BY Mapping DEF Rows
    <2>2. R \subseteq Nat
        BY <2>1
    <2>3. getMappedKey(w, d) = IF R = {} THEN NULL ELSE mapping[Min(R)][1]
        BY DEF getMappedKey
    <2> HIDE DEF R
    <2>4. R # {} => Min(R) \in R
        BY <2>2, MinFacts
    <2> QED
        BY <2>1, <2>3, <2>4
<1>2. getMappedKey(w, c) \in Options \cup {NULL}
    BY <1>1 DEF Options
<1>3. getMappedKey(w, CLI) # "mode"
    <2>1. "mode" # NULL
        BY DEF NULL
    <2>2. ASSUME getMappedKey(w, CLI) = "mode" PROVE FALSE
        <3>1. PICK i \in 1 .. 16 : mapping[i][CLI] = w /\ w # NULL /\ mapping[i][1] = "mode"
            BY <1>1, <2>1, <2>2
        <3> QED
            BY <3>1, Mapping
    <2> QED
        BY <2>2
<1> QED
    BY <1>2, <1>3

\* The keys and values of the places 1 to N are put into the Map m one by one.
IsPuts(f, m, keys, values, N, K, V) ==
    /\ f[0] = m
    /\ \A n \in 1 .. N : /\ f[n] = Put(f[n - 1], keys[n], values[n])
                         /\ keys[n] \in K \cup {NULL}
                         /\ keys[n] # NULL => values[n] \in V

\* A loop that does so.
LEMMA PutsRun ==
    ASSUME NEW K, NEW V, NULL \notin K, NEW m, UMap(m, K, V), NEW N \in Nat,
           NEW keys, NEW values, NEW f, IsPuts(f, m, keys, values, N, K, V)
    PROVE  UMap(f[N], K, V) /\ Puts(f[N], m, keys, values, 1 .. N)
<1> DEFINE Good(n) == UMap(f[n], K, V) /\ Puts(f[n], m, keys, values, 1 .. n)
           S == {n \in Nat : n <= N => Good(n)}
<1>1. 0 \in S
    <2>1. 1 .. 0 = {}
        OBVIOUS
    <2>2. Puts(m, m, keys, values, 1 .. 0)
        BY <2>1 DEF Puts
    <2>3. f[0] = m
        BY DEF IsPuts
    <2> QED
        BY <2>2, <2>3
<1>2. ASSUME NEW n \in Nat, n \in S PROVE n + 1 \in S
    <2> SUFFICES ASSUME n + 1 <= N PROVE Good(n + 1)
        OBVIOUS
    <2> DEFINE l == n + 1
               T == 1 .. n
    <2>1. l \in 1 .. N /\ l \in Nat /\ l - 1 = n /\ T \subseteq Nat /\ \A j \in T : j < l
        OBVIOUS
    <2>2. UMap(f[n], K, V) /\ Puts(f[n], m, keys, values, T)
        BY <1>2
    <2>3. T \cup {l} = 1 .. l
        OBVIOUS
    <2>4. f[l] = Put(f[n], keys[l], values[l]) /\ keys[l] \in K \cup {NULL}
          /\ (keys[l] # NULL => values[l] \in V)
        BY <2>1 DEF IsPuts
    <2> HIDE DEF l, T
    <2>5. /\ UMap(Put(f[n], keys[l], values[l]), K, V)
          /\ Puts(Put(f[n], keys[l], values[l]), m, keys, values, T \cup {l})
        BY <2>1, <2>2, <2>4, PutsStep
    <2>6. UMap(f[l], K, V) /\ Puts(f[l], m, keys, values, 1 .. l)
        BY <2>3, <2>4, <2>5
    <2> QED
        BY <2>6 DEF l
<1>3. \A n \in Nat : n \in S
    <2> HIDE DEF S
    <2> QED
        BY <1>1, <1>2, SetInduction
<1> QED
    BY <1>3

\* An environment whose values are words in V.
Environment(env, V) == NULL \notin DOMAIN env /\ \A x \in DOMAIN env : env[x] \in V

\* What the rows of the table put into the Map from the environment.
EnvKeys(env) ==
    [i \in 1 .. 16 |-> IF getEnv(env, mapping[i][ENV]) = NULL THEN NULL ELSE mapping[i][1]]

EnvValues(env) == [i \in 1 .. 16 |-> getEnv(env, mapping[i][ENV])]

\* The Map after each row of envToMap.
LEMMA EnvSteps ==
    ASSUME NEW K, NEW V, NULL \notin K, Options \subseteq K, NEW env, Environment(env, V),
           NEW m, UMap(m, K, V)
    PROVE  \E f : /\ f[0] = m /\ envToMap(m, env) = f[16]
                  /\ \A n \in 1 .. 16 : f[n] = Put(f[n - 1], EnvKeys(env)[n], EnvValues(env)[n])
<1> DEFINE N == 16
           W == {x \in Maps(K, V) : Unique(x)}
           op(t, r) == IF getEnv(env, r[ENV]) = NULL THEN t
                       ELSE map_set(t, r[1], getEnv(env, r[ENV]))
           F == [w \in W \X (1 .. N) |-> op(w[1], mapping[w[2]])]
           iter == CHOOSE g : g = [I \in SUBSET DOMAIN mapping |->
                       IF I = {} THEN m ELSE op(g[I \ {Max(I)}], mapping[Max(I)])]
<1>1. envToMap(m, env) = iter[DOMAIN mapping]
    BY DEF envToMap, FoldLeft, MapThenFoldSet
<1>2. N \in Nat /\ DOMAIN mapping = 1 .. N /\ m \in W
    BY Mapping DEF UMap
<1>3. ASSUME NEW t, NEW n \in 1 .. N
      PROVE  op(t, mapping[n]) = Put(t, EnvKeys(env)[n], EnvValues(env)[n])
    <2>1. /\ EnvKeys(env)[n] = IF getEnv(env, mapping[n][ENV]) = NULL THEN NULL ELSE mapping[n][1]
          /\ EnvValues(env)[n] = getEnv(env, mapping[n][ENV]) /\ mapping[n][1] # NULL
        BY Mapping DEF EnvKeys, EnvValues
    <2> QED
        BY <2>1 DEF Put
<1>4. ASSUME NEW t \in W, NEW n \in 1 .. N PROVE op(t, mapping[n]) \in W
    <2> DEFINE e == getEnv(env, mapping[n][ENV])
               k == mapping[n][1]
    <2>1. op(t, mapping[n]) = IF e = NULL THEN t ELSE map_set(t, k, e)
        OBVIOUS
    <2>2. k \in K /\ (e # NULL => e \in V)
        BY DEF Options, getEnv, Environment
    <2> HIDE DEF e, k, op
    <2>3. CASE e = NULL
        BY <2>1, <2>3
    <2>4. CASE e # NULL
        <3>1. op(t, mapping[n]) = map_set(t, k, e) /\ e \in V
            BY <2>1, <2>2, <2>4
        <3>2. t \in Maps(K, V) /\ Unique(t)
            OBVIOUS
        <3>3. map_set(t, k, e) \in Maps(K, V)
            BY <2>2, <3>1, <3>2, MapSetType DEF Maps
        <3>4. Changes(t, map_set(t, k, e), k, e, NULL)
            BY <2>2, <3>1, <3>2, SetChanges
        <3> QED
            BY <3>1, <3>3, <3>4 DEF Changes
    <2> QED
        BY <2>3, <2>4
<1> HIDE DEF op, N, W
<1>5. /\ F \in [W \X (1 .. N) -> W]
      /\ \A t \in W, n \in 1 .. N : F[<<t, n>>] = op(t, mapping[n])
    BY <1>4
<1> HIDE DEF F
<1>6. PICK g : IsIter(g, W, N, m, F)
    BY <1>2, <1>5, IterExists
<1>7. ASSUME NEW I \in SUBSET (1 .. N), I # {}
      PROVE  g[I] = op(g[I \ {Max(I)}], mapping[Max(I)])
    <2>1. Max(I) \in 1 .. N
        BY <1>2, <1>7, MaxIn
    <2>2. g[I] = F[<<g[I \ {Max(I)}], Max(I)>>] /\ g[I \ {Max(I)}] \in W
        BY <1>6, <1>7 DEF IsIter
    <2> QED
        BY <1>5, <2>1, <2>2
<1>8. g = [I \in SUBSET DOMAIN mapping |->
                       IF I = {} THEN m ELSE op(g[I \ {Max(I)}], mapping[Max(I)])]
    BY <1>2, <1>6, <1>7 DEF IsIter
<1>9. iter = [I \in SUBSET DOMAIN mapping |->
                       IF I = {} THEN m ELSE op(iter[I \ {Max(I)}], mapping[Max(I)])]
    BY <1>8
<1> HIDE DEF iter
<1>10. ASSUME NEW n \in 1 .. N PROVE iter[1 .. n] = op(iter[1 .. (n - 1)], mapping[n])
    <2>1. 1 .. n \in SUBSET DOMAIN mapping /\ n \in Nat \ {0}
        BY <1>2
    <2>2. 1 .. n # {} /\ Max(1 .. n) = n /\ (1 .. n) \ {n} = 1 .. (n - 1)
        BY <2>1, UpTo
    <2> QED
        BY <1>9, <2>1, <2>2
<1>11. PICK f : IsRun(f, iter, W, N, m, F)
    <2>1. iter[{}] = m
        BY <1>2, <1>9
    <2>2. Unfolds(iter, W, N, m, F)
        BY <1>5, <1>10, <2>1 DEF Unfolds
    <2> QED
        BY <1>2, <1>5, <2>2, IterSteps
<1>12. ASSUME NEW n \in 1 .. N PROVE f[n] = op(f[n - 1], mapping[n])
    <2>1. f[n] = F[<<f[n - 1], n>>] /\ f[n - 1] \in W
        BY <1>2, <1>11 DEF IsRun
    <2> QED
        BY <1>5, <2>1
<1>13. ASSUME NEW n \in 1 .. N PROVE f[n] = Put(f[n - 1], EnvKeys(env)[n], EnvValues(env)[n])
    BY <1>3, <1>12
<1>14. f[0] = m /\ envToMap(m, env) = f[N]
    BY <1>1, <1>2, <1>11 DEF IsRun
<1> QED
    BY <1>13, <1>14 DEF N

\* A lookup after envToMap: the environment first, else what was there.
LEMMA EnvLookup ==
    ASSUME NEW K, NEW V, NULL \notin K, Options \subseteq K, NEW env, Environment(env, V),
           NEW m, UMap(m, K, V), NEW j \in 1 .. 16, NEW key, key = mapping[j][1]
    PROVE  /\ UMap(envToMap(m, env), K, V)
           /\ map_get(envToMap(m, env), key, NULL)
                = IF getEnv(env, EnvKey(key)) # NULL THEN getEnv(env, EnvKey(key))
                  ELSE map_get(m, key, NULL)
<1> DEFINE keys == EnvKeys(env)
           values == EnvValues(env)
           S == {i \in 1 .. 16 : keys[i] = key}
           e == getEnv(env, EnvKey(key))
<1>1. PICK f : /\ f[0] = m /\ envToMap(m, env) = f[16]
               /\ \A n \in 1 .. 16 : f[n] = Put(f[n - 1], keys[n], values[n])
    BY EnvSteps
<1>2. ASSUME NEW n \in 1 .. 16
      PROVE  /\ keys[n] = IF values[n] = NULL THEN NULL ELSE mapping[n][1]
             /\ keys[n] \in K \cup {NULL} /\ (keys[n] # NULL => values[n] \in V)
    <2>1. values[n] = getEnv(env, mapping[n][ENV])
        BY DEF EnvValues
    <2>2. keys[n] = IF values[n] = NULL THEN NULL ELSE mapping[n][1]
        BY <2>1 DEF EnvKeys
    <2>3. values[n] # NULL => values[n] \in V
        BY <2>1 DEF getEnv, Environment
    <2>4. mapping[n][1] \in K
        BY DEF Options
    <2> HIDE DEF keys, values
    <2> QED
        BY <2>2, <2>3, <2>4
<1>3. e = values[j]
    <2>1. \E i \in DOMAIN mapping : mapping[i][1] = key
        BY Mapping
    <2> DEFINE r == CHOOSE i \in DOMAIN mapping : mapping[i][1] = key
    <2>2. r \in DOMAIN mapping /\ mapping[r][1] = key
        BY <2>1
    <2>3. EnvKey(key) = mapping[r][ENV]
        BY DEF EnvKey
    <2> HIDE DEF r
    <2>4. r = j
        BY <2>2, Mapping
    <2> QED
        BY <2>3, <2>4 DEF EnvValues
<1>4. key # NULL
    BY Mapping
<1> HIDE DEF keys, values, e
<1>5. UMap(f[16], K, V) /\ Puts(f[16], m, keys, values, 1 .. 16)
    <2> DEFINE N == 16
    <2>1. N \in Nat /\ IsPuts(f, m, keys, values, N, K, V)
        BY <1>1, <1>2 DEF IsPuts
    <2> HIDE DEF N
    <2>2. UMap(f[N], K, V) /\ Puts(f[N], m, keys, values, 1 .. N)
        BY <2>1, PutsRun
    <2> QED
        BY <2>2 DEF N
<1>6. Gets(f[16], m, key, NULL, S, values)
    <2>1. 16 \in Nat /\ \A i : i \in S <=> i \in 1 .. 16 /\ keys[i] = key
        OBVIOUS
    <2> HIDE DEF S
    <2> QED
        BY <1>4, <1>5, <2>1, PutsLookup
<1>7. CASE values[j] = NULL
    <2>1. S = {}
        <3>1. ASSUME NEW i \in 1 .. 16, keys[i] = key PROVE FALSE
            <4>1. values[i] # NULL /\ mapping[i][1] = key
                BY <1>2, <1>4, <3>1
            <4>2. i = j
                BY <4>1, Mapping
            <4> QED
                BY <1>7, <4>1, <4>2
        <3> QED
            BY <3>1
    <2> QED
        BY <1>1, <1>3, <1>5, <1>6, <1>7, <2>1 DEF Gets, e
<1>8. CASE values[j] # NULL
    <2>1. S = {j}
        <3>1. keys[j] = key
            BY <1>2, <1>8
        <3>2. ASSUME NEW i \in 1 .. 16, keys[i] = key PROVE i = j
            <4>1. mapping[i][1] = key
                BY <1>2, <1>4, <3>2
            <4> QED
                BY <4>1, Mapping
        <3> QED
            BY <3>1, <3>2
    <2>2. Max(S) = j
        <3>1. S \subseteq 1 .. 16 /\ S # {} /\ 16 \in Nat
            BY <2>1
        <3>2. Max(S) \in S
            <4> HIDE DEF S
            <4> QED
                BY <3>1, MaxGreatest
        <3> QED
            BY <2>1, <3>2
    <2>3. S # {}
        BY <2>1
    <2> HIDE DEF S
    <2> QED
        BY <1>1, <1>3, <1>5, <1>6, <1>8, <2>2, <2>3 DEF Gets, e
<1> QED
    BY <1>7, <1>8

\* The value of an option as it is read from the file.
FromFile(file, key) == LastOf(OptionLines(file, key), LAMBDA i : Value(file, i))

\* A lookup after the part of the file above any header was read: its last entry
\* of the option, else what was there.
LEMMA FileLookup ==
    ASSUME NEW K, NEW V, NULL \notin K, NULL \notin V, Options \subseteq K,
           NEW file, ConfigFile(file, K, V), NEW m, UMap(m, K, V), NEW key, key # NULL
    PROVE  /\ UMap(configFileToMap(m, Closed, file, NULL).map, K, V)
           /\ map_get(configFileToMap(m, Closed, file, NULL).map, key, NULL)
                = IF FromFile(file, key) # NULL THEN FromFile(file, key)
                  ELSE map_get(m, key, NULL)
<1> DEFINE map == configFileToMap(m, Closed, file, NULL).map
           I == InSection(file, NULL)
           N == Len(file.lines)
           keys == KeysOf(file, NULL)
           values == ValuesOf(file)
           S == {i \in I : getMappedKey(file.lines[i].key, FILE) = key}
           found == IF S = {} THEN NULL ELSE Value(file, Max(S))
<1>1. \A i \in 1 .. N : KeyOf(file, i, NULL) = getMappedKey(file.lines[i].key, FILE)
    BY DEF KeyOf
<1>2. Keyed(file, NULL, K)
    BY <1>1, Mapped DEF Keyed
<1>3. UMap(map, K, V) /\ Told(map, m, file, NULL, I)
    BY <1>2, SectionWalk DEF NoneLeft, Closed
<1>4. FromFile(file, key) = found
    BY DEF FromFile, LastOf, OptionLines
<1>5. N \in Nat /\ I \subseteq 1 .. N /\ \A i \in 1 .. N : Value(file, i) # NULL
    BY DEF InSection, ConfigFile
<1>6. \A i \in 1 .. N : /\ keys[i] = getMappedKey(file.lines[i].key, FILE)
                        /\ values[i] = Value(file, i)
    BY <1>1 DEF KeysOf, ValuesOf
<1>7. Puts(map, m, keys, values, I)
    BY <1>3 DEF Told
<1> HIDE DEF map, I, N, keys, values
<1>8. S \subseteq 1 .. N /\ \A i : i \in S <=> i \in I /\ keys[i] = key
    BY <1>5, <1>6
<1>9. N \in Nat /\ I \subseteq 1 .. N
    BY <1>5
<1> HIDE DEF S
<1>10. Gets(map, m, key, NULL, S, values)
    BY <1>7, <1>8, <1>9, PutsLookup
<1>11. S # {} => Max(S) \in 1 .. N
    BY <1>8, <1>9, MaxGreatest
<1>12. map_get(map, key, NULL) = IF found # NULL THEN found ELSE map_get(m, key, NULL)
    <2>1. CASE S = {}
        BY <1>10, <2>1 DEF Gets
    <2>2. CASE S # {}
        <3>1. found = Value(file, Max(S)) /\ found # NULL /\ values[Max(S)] = Value(file, Max(S))
            BY <1>5, <1>6, <1>11, <2>2
        <3> HIDE DEF found
        <3> QED
            BY <1>10, <2>2, <3>1 DEF Gets
    <2> QED
        BY <2>1, <2>2
<1> HIDE DEF found
<1> QED
    BY <1>3, <1>4, <1>12 DEF map

\* The items of a command line: an option with its value, or a word that is none.
CommandLine(items, V) ==
    /\ items \in Seq(Seq(V))
    /\ \A i \in 1 .. Len(items) :
          \/ Len(items[i]) = 2 /\ getMappedKey(items[i][1], CLI) # NULL
          \/ Len(items[i]) = 1 /\ getMappedKey(items[i][1], CLI) = NULL

\* What they put into the Map.
ArgKeys(items) ==
    [i \in 1 .. Len(items) |->
        IF Len(items[i]) = 2 THEN getMappedKey(items[i][1], CLI) ELSE NULL]

ArgValues(items) == [i \in 1 .. Len(items) |-> items[i][2]]

\* One word of argsToMap.
WordOp(s, w) ==
    IF s.option # NULL THEN [map |-> map_set(s.map, s.option, w), option |-> NULL]
    ELSE [s EXCEPT !.option = getMappedKey(w, CLI)]

\* The Map that argsToMap begins with.
ArgsBase(m, argv) == IF Len(argv) < 2 THEN m ELSE map_set(m, "mode", argv[2])

\* h goes through the words, from the Map m on to the Map new.
IsWords(h, m, words, new) ==
    /\ h[0] = [map |-> m, option |-> NULL] /\ new = h[Len(words)].map
    /\ \A n \in 1 .. Len(words) : h[n] = WordOp(h[n - 1], words[n])
    /\ \A n \in 0 .. Len(words) : h[n] = [map |-> h[n].map, option |-> h[n].option]

\* The state after each word of argsToMap.
LEMMA WordSteps ==
    ASSUME NEW K, NEW V, NULL \notin K, Options \subseteq K, NEW m, NEW argv,
           UMap(ArgsBase(m, argv), K, V),
           NEW words \in Seq(V), words = SubSeq(argv, 3, Len(argv))
    PROVE  \E h : IsWords(h, ArgsBase(m, argv), words, argsToMap(m, argv))
<1> DEFINE ws == SubSeq(argv, 3, Len(argv))
           N == Len(words)
           W == {s \in [map : Maps(K, V), option : K \cup {NULL}] : Unique(s.map)}
           base == [map |-> ArgsBase(m, argv), option |-> NULL]
           op(s, w) == IF s.option # NULL
                       THEN [map |-> map_set(s.map, s.option, w), option |-> NULL]
                       ELSE [s EXCEPT !.option = getMappedKey(w, CLI)]
           F == [x \in W \X (1 .. N) |-> op(x[1], words[x[2]])]
           iter == CHOOSE g : g = [I \in SUBSET DOMAIN ws |->
                       IF I = {} THEN base ELSE op(g[I \ {Max(I)}], ws[Max(I)])]
           iter2 == CHOOSE g : g = [I \in SUBSET DOMAIN words |->
                       IF I = {} THEN base ELSE op(g[I \ {Max(I)}], words[Max(I)])]
<1>1. argsToMap(m, argv) = iter[DOMAIN ws].map
    BY DEF argsToMap, FoldLeft, MapThenFoldSet, ArgsBase
<1>2. ws = words
    OBVIOUS
<1> HIDE DEF ws
<1>3. argsToMap(m, argv) = iter2[DOMAIN words].map
    BY <1>1, <1>2
<1> HIDE DEF iter
<1>4. N \in Nat /\ DOMAIN words = 1 .. N
    OBVIOUS
<1>5. base \in W
    BY DEF UMap
<1>6. ASSUME NEW s, NEW w PROVE op(s, w) = WordOp(s, w)
    BY DEF WordOp
<1>7. ASSUME NEW s \in W, NEW n \in 1 .. N PROVE op(s, words[n]) \in W
    <2> DEFINE w == words[n]
    <2>1. w \in V
        BY ElementType
    <2>2. s.map \in Maps(K, V) /\ s.option \in K \cup {NULL} /\ Unique(s.map)
        OBVIOUS
    <2>3. s = [map |-> s.map, option |-> s.option]
        OBVIOUS
    <2> HIDE DEF w
    <2>4. CASE s.option # NULL
        <3>1. op(s, w) = [map |-> map_set(s.map, s.option, w), option |-> NULL]
            BY <2>4
        <3>2. s.option \in K
            BY <2>2, <2>4
        <3>3. map_set(s.map, s.option, w) \in Maps(K, V)
            BY <2>1, <2>2, <3>2, MapSetType DEF Maps
        <3>4. Changes(s.map, map_set(s.map, s.option, w), s.option, w, NULL)
            BY <2>1, <2>2, <3>2, SetChanges
        <3>5. Unique(map_set(s.map, s.option, w))
            BY <3>4 DEF Changes
        <3> HIDE DEF op
        <3> QED
            BY <3>1, <3>3, <3>5 DEF w
    <2>5. CASE s.option = NULL
        <3>1. op(s, w) = [map |-> s.map, option |-> getMappedKey(w, CLI)]
            BY <2>3, <2>5
        <3>2. getMappedKey(w, CLI) \in K \cup {NULL}
            BY Mapped
        <3> HIDE DEF op
        <3> QED
            BY <2>2, <3>1, <3>2 DEF w
    <2> QED
        BY <2>4, <2>5
<1>8. \A s \in W : s = [map |-> s.map, option |-> s.option]
    OBVIOUS
<1> HIDE DEF op, N, W, base
<1>9. /\ F \in [W \X (1 .. N) -> W]
      /\ \A t \in W, n \in 1 .. N : F[<<t, n>>] = op(t, words[n])
    BY <1>7
<1> HIDE DEF F
<1>10. PICK g : IsIter(g, W, N, base, F)
    BY <1>4, <1>5, <1>9, IterExists
<1>11. ASSUME NEW I \in SUBSET (1 .. N), I # {}
      PROVE  g[I] = op(g[I \ {Max(I)}], words[Max(I)])
    <2>1. Max(I) \in 1 .. N
        BY <1>4, <1>11, MaxIn
    <2>2. g[I] = F[<<g[I \ {Max(I)}], Max(I)>>] /\ g[I \ {Max(I)}] \in W
        BY <1>10, <1>11 DEF IsIter
    <2> QED
        BY <1>9, <2>1, <2>2
<1>12. g = [I \in SUBSET DOMAIN words |->
                       IF I = {} THEN base ELSE op(g[I \ {Max(I)}], words[Max(I)])]
    BY <1>4, <1>10, <1>11 DEF IsIter
<1>13. iter2 = [I \in SUBSET DOMAIN words |->
                       IF I = {} THEN base ELSE op(iter2[I \ {Max(I)}], words[Max(I)])]
    BY <1>12
<1> HIDE DEF iter2
<1>14. ASSUME NEW n \in 1 .. N PROVE iter2[1 .. n] = op(iter2[1 .. (n - 1)], words[n])
    <2>1. 1 .. n \in SUBSET DOMAIN words /\ n \in Nat \ {0}
        BY <1>4
    <2>2. 1 .. n # {} /\ Max(1 .. n) = n /\ (1 .. n) \ {n} = 1 .. (n - 1)
        BY <2>1, UpTo
    <2> QED
        BY <1>13, <2>1, <2>2
<1>15. PICK h : IsRun(h, iter2, W, N, base, F)
    <2>1. iter2[{}] = base
        BY <1>4, <1>13
    <2>2. Unfolds(iter2, W, N, base, F)
        BY <1>9, <1>14, <2>1 DEF Unfolds
    <2> QED
        BY <1>4, <1>5, <1>9, <2>2, IterSteps
<1>16. ASSUME NEW n \in 1 .. N PROVE h[n] = WordOp(h[n - 1], words[n])
    <2>1. h[n] = F[<<h[n - 1], n>>] /\ h[n - 1] \in W
        BY <1>4, <1>15 DEF IsRun
    <2> QED
        BY <1>6, <1>9, <2>1
<1>17. h[0] = base /\ argsToMap(m, argv) = h[N].map /\ h \in [0 .. N -> W]
    BY <1>3, <1>4, <1>15 DEF IsRun
<1>18. \A n \in 0 .. N : h[n] = [map |-> h[n].map, option |-> h[n].option]
    BY <1>8, <1>17
<1>19. IsWords(h, ArgsBase(m, argv), words, argsToMap(m, argv))
    BY <1>16, <1>17, <1>18 DEF IsWords, base, N
<1> QED
    BY <1>19

\* t begins with s.
Starts(s, t) == Len(s) <= Len(t) /\ \A k \in 1 .. Len(s) : t[k] = s[k]

\* The words of the first items are the first words.
LEMMA FlatStarts ==
    ASSUME NEW V, NEW items \in Seq(Seq(V)), NEW N \in Nat, N = Len(items),
           NEW g, IsFlat(g, items, N, V), NEW i \in 0 .. N
    PROVE  Starts(g[i], g[N])
<1> DEFINE S == {d \in Nat : d <= N => Starts(g[N - d], g[N])}
<1>1. \A n \in 0 .. N : g[n] \in Seq(V)
    BY DEF IsFlat
<1>2. 0 \in S
    <2>1. N - 0 = N
        OBVIOUS
    <2>2. Starts(g[N], g[N])
        BY <1>1 DEF Starts
    <2> QED
        BY <2>1, <2>2
<1>3. ASSUME NEW d \in Nat, d \in S PROVE d + 1 \in S
    <2> SUFFICES ASSUME d + 1 <= N PROVE Starts(g[N - (d + 1)], g[N])
        OBVIOUS
    <2> DEFINE n == N - d
    <2>1. n \in 1 .. N /\ n - 1 \in 0 .. N /\ n \in 0 .. N /\ N \in 0 .. N /\ N - (d + 1) = n - 1
        OBVIOUS
    <2>2. Starts(g[n], g[N])
        BY <1>3
    <2> HIDE DEF n
    <2> DEFINE a == g[n - 1]
               b == g[n]
               c == g[N]
               x == items[n]
    <2>3. b = a \o x /\ a \in Seq(V) /\ b \in Seq(V) /\ c \in Seq(V)
        BY <1>1, <2>1 DEF IsFlat
    <2>4. x \in Seq(V)
        BY <2>1, ElementType
    <2>5. Starts(b, c)
        BY <2>2
    <2> HIDE DEF a, b, c, x
    <2>6. Len(a) \in Nat /\ Len(b) = Len(a) + Len(x) /\ Len(x) \in Nat /\ \A k \in 1 .. Len(a) : b[k] = a[k]
        BY <2>3, <2>4
    <2>7. Starts(a, c)
        <3>1. Len(b) <= Len(c) /\ Len(c) \in Nat /\ \A k \in 1 .. Len(b) : c[k] = b[k]
            BY <2>3, <2>5 DEF Starts
        <3>2. Len(a) <= Len(c)
            BY <2>6, <3>1
        <3>3. ASSUME NEW k \in 1 .. Len(a) PROVE c[k] = a[k]
            <4>1. k \in 1 .. Len(b)
                BY <2>6
            <4> QED
                BY <2>6, <3>1, <4>1
        <3> QED
            BY <3>2, <3>3 DEF Starts
    <2> QED
        BY <2>1, <2>7 DEF a, c
<1>4. \A d \in Nat : d \in S
    <2> HIDE DEF S
    <2> QED
        BY <1>2, <1>3, SetInduction
<1>5. N - i \in Nat /\ N - i <= N /\ N - (N - i) = i
    OBVIOUS
<1> QED
    BY <1>4, <1>5

\* The words of the item x are those behind the first a of all words.
WordsAt(a, b, x, words) ==
    /\ a \in Nat /\ b = a + Len(x) /\ a + Len(x) <= Len(words)
    /\ Len(x) \in Nat /\ Len(words) \in Nat
    /\ \A k \in 1 .. Len(x) : words[a + k] = x[k]

\* Where the words of an item are.
LEMMA WordsOf ==
    ASSUME NEW V, NEW items \in Seq(Seq(V)), NEW N \in Nat, N = Len(items),
           NEW g, IsFlat(g, items, N, V), NEW i \in 1 .. N
    PROVE  WordsAt(Len(g[i - 1]), Len(g[i]), items[i], g[N])
<1> DEFINE p == g[i - 1]
           b == g[i]
           c == g[N]
           x == items[i]
<1>1. i - 1 \in 0 .. N /\ i \in 0 .. N /\ N \in 0 .. N
    OBVIOUS
<1>2. b = p \o x /\ p \in Seq(V) /\ b \in Seq(V) /\ c \in Seq(V)
    BY <1>1 DEF IsFlat
<1>3. x \in Seq(V)
    BY ElementType
<1>4. Starts(b, c)
    BY <1>1, FlatStarts
<1> HIDE DEF p, b, c, x
<1>5. Len(b) <= Len(c) /\ \A k \in 1 .. Len(b) : c[k] = b[k]
    BY <1>4 DEF Starts
<1>6. /\ Len(p) \in Nat /\ Len(x) \in Nat /\ Len(c) \in Nat /\ Len(b) = Len(p) + Len(x)
      /\ \A k \in 1 .. Len(x) : b[Len(p) + k] = x[k]
    BY <1>2, <1>3
<1>7. ASSUME NEW k \in 1 .. Len(x) PROVE c[Len(p) + k] = x[k]
    <2>1. Len(p) + k \in 1 .. Len(b)
        BY <1>6
    <2> QED
        BY <1>5, <1>6, <2>1
<1>8. Len(p) + Len(x) <= Len(c)
    BY <1>5, <1>6
<1> QED
    BY <1>6, <1>7, <1>8 DEF p, b, c, x, WordsAt

\* The words between the places a and b put k and v into the Map, and no option waits.
ItemPut(h, a, b, k, v) == h[b].option = NULL /\ h[b].map = Put(h[a].map, k, v)

\* An item at a time: the option that waited has its value.
LEMMA ItemSteps ==
    ASSUME NEW V, NEW items, CommandLine(items, V), NEW N \in Nat, N = Len(items),
           NEW g, IsFlat(g, items, N, V), NEW m, NEW new, NEW h, IsWords(h, m, g[N], new),
           NEW i \in 1 .. N, h[Len(g[i - 1])].option = NULL
    PROVE  ItemPut(h, Len(g[i - 1]), Len(g[i]), ArgKeys(items)[i], ArgValues(items)[i])
<1> DEFINE a == Len(g[i - 1])
           x == items[i]
           words == g[N]
<1>1. items \in Seq(Seq(V))
    BY DEF CommandLine
<1>2. /\ a \in Nat /\ Len(g[i]) = a + Len(x) /\ a + Len(x) <= Len(words)
      /\ Len(x) \in Nat /\ Len(words) \in Nat
      /\ \A k \in 1 .. Len(x) : words[a + k] = x[k]
    <2>1. WordsAt(a, Len(g[i]), x, words)
        BY <1>1, WordsOf
    <2> HIDE DEF a, x, words
    <2> QED
        BY <2>1 DEF WordsAt
<1>3. \/ Len(x) = 2 /\ getMappedKey(x[1], CLI) # NULL
      \/ Len(x) = 1 /\ getMappedKey(x[1], CLI) = NULL
    BY DEF CommandLine
<1>4. /\ ArgKeys(items)[i] = IF Len(x) = 2 THEN getMappedKey(x[1], CLI) ELSE NULL
      /\ ArgValues(items)[i] = x[2]
    BY DEF ArgKeys, ArgValues
<1>5. \A n \in 1 .. Len(words) : h[n] = WordOp(h[n - 1], words[n])
    BY DEF IsWords
<1>6. h[a].option = NULL /\ \A n \in 0 .. Len(words) : h[n] = [map |-> h[n].map, option |-> h[n].option]
    BY DEF IsWords
<1> HIDE DEF a, x, words
<1>7. h[a + 1] = [map |-> h[a].map, option |-> getMappedKey(x[1], CLI)]
    <2>1. a + 1 \in 1 .. Len(words) /\ (a + 1) - 1 = a /\ a \in 0 .. Len(words) /\ 1 \in 1 .. Len(x)
        BY <1>2, <1>3
    <2>2. h[a + 1] = WordOp(h[a], x[1])
        BY <1>2, <1>5, <2>1
    <2>3. h[a] = [map |-> h[a].map, option |-> h[a].option]
        BY <1>6, <2>1
    <2>4. WordOp(h[a], x[1]) = [h[a] EXCEPT !.option = getMappedKey(x[1], CLI)]
        BY <1>6 DEF WordOp
    <2>5. [h[a] EXCEPT !.option = getMappedKey(x[1], CLI)]
            = [map |-> h[a].map, option |-> getMappedKey(x[1], CLI)]
        BY <2>3
    <2> QED
        BY <2>2, <2>4, <2>5
<1>8. CASE Len(x) = 1 /\ getMappedKey(x[1], CLI) = NULL
    <2>1. Len(g[i]) = a + 1 /\ ArgKeys(items)[i] = NULL
        BY <1>2, <1>4, <1>8
    <2>2. h[a + 1].option = NULL /\ h[a + 1].map = h[a].map
        BY <1>7, <1>8
    <2> QED
        BY <2>1, <2>2 DEF ItemPut, Put, a
<1>9. CASE Len(x) = 2 /\ getMappedKey(x[1], CLI) # NULL
    <2> DEFINE k == getMappedKey(x[1], CLI)
    <2>1. Len(g[i]) = a + 2 /\ ArgKeys(items)[i] = k /\ k # NULL
        BY <1>2, <1>4, <1>9
    <2>2. a + 2 \in 1 .. Len(words) /\ (a + 2) - 1 = a + 1 /\ 2 \in 1 .. Len(x)
        BY <1>2, <1>9
    <2>3. h[a + 2] = WordOp(h[a + 1], x[2])
        BY <1>2, <1>5, <2>2
    <2>4. h[a + 1].option = k /\ h[a + 1].map = h[a].map
        BY <1>7
    <2> HIDE DEF k
    <2>5. h[a + 2] = [map |-> map_set(h[a].map, k, x[2]), option |-> NULL]
        BY <2>1, <2>3, <2>4 DEF WordOp
    <2>6. h[a + 2].option = NULL /\ h[a + 2].map = map_set(h[a].map, k, x[2])
        BY <2>5
    <2>7. Put(h[a].map, k, x[2]) = map_set(h[a].map, k, x[2])
        BY <2>1 DEF Put
    <2> QED
        BY <1>4, <2>1, <2>6, <2>7 DEF a, ItemPut
<1> QED
    BY <1>3, <1>8, <1>9

\* Two sequences, one behind the other.
Behind(s, t, u, C) ==
    /\ u \in Seq(C) /\ Len(u) = Len(s) + Len(t)
    /\ \A k \in 1 .. Len(s) : u[k] = s[k]
    /\ \A k \in 1 .. Len(t) : u[Len(s) + k] = t[k]

\* What \o does.
LEMMA OneBehind ==
    ASSUME NEW C, NEW s \in Seq(C), NEW t \in Seq(C), NEW u, u = s \o t
    PROVE  Behind(s, t, u, C)
    BY DEF Behind

\* The words behind the program and the mode.
LEMMA ArgvWords ==
    ASSUME NEW V, NEW items, NEW x \in Seq(V), x = FlattenSeq(items), NEW mode \in V, mode # NULL,
           NEW argv, argv = Argv(mode, items)
    PROVE  ~ (Len(argv) < 2) /\ argv[2] = mode /\ SubSeq(argv, 3, Len(argv)) = x
<1> DEFINE C == V \cup {"homenet"}
           s == <<"homenet">>
           t == <<mode>>
           r == t \o x
<1>1. argv = s \o r
    BY DEF Argv
<1>2. s \in Seq(C) /\ t \in Seq(C) /\ x \in Seq(C) /\ Len(s) = 1 /\ Len(t) = 1 /\ t[1] = mode
    OBVIOUS
<1> HIDE DEF s, t, C
<1>3. r \in Seq(C) /\ Len(r) = 1 + Len(x) /\ r[1] = mode /\ \A k \in 1 .. Len(x) : r[1 + k] = x[k]
    <2>1. /\ r \in Seq(C) /\ Len(r) = Len(t) + Len(x)
          /\ \A k \in 1 .. Len(t) : r[k] = t[k]
          /\ \A k \in 1 .. Len(x) : r[Len(t) + k] = x[k]
        <3>1. r = t \o x
            OBVIOUS
        <3> HIDE DEF r
        <3>2. Behind(t, x, r, C)
            BY <1>2, <3>1, OneBehind
        <3> QED
            BY <3>2 DEF Behind
    <2> HIDE DEF r
    <2> QED
        BY <1>2, <2>1
<1> HIDE DEF r
<1>4. Len(x) \in Nat
    OBVIOUS
<1>5. /\ argv \in Seq(C) /\ Len(argv) = 2 + Len(x) /\ argv[2] = mode
      /\ \A k \in 1 .. Len(r) : argv[Len(s) + k] = r[k]
    <2>1. /\ argv \in Seq(C) /\ Len(argv) = Len(s) + Len(r)
          /\ \A k \in 1 .. Len(r) : argv[Len(s) + k] = r[k]
        <3>1. Behind(s, r, argv, C)
            BY <1>1, <1>2, <1>3, OneBehind
        <3> QED
            BY <3>1 DEF Behind
    <2>2. 1 \in 1 .. Len(r) /\ 2 = Len(s) + 1
        BY <1>2, <1>3, <1>4
    <2>3. argv[2] = r[1]
        BY <2>1, <2>2
    <2> QED
        BY <1>2, <1>3, <1>4, <2>1, <2>3
<1>6. ASSUME NEW k \in 1 .. Len(x) PROVE argv[k + 2] = x[k]
    <2>1. 1 + k \in 1 .. Len(r) /\ k + 2 = Len(s) + (1 + k)
        BY <1>2, <1>3, <1>4
    <2>2. argv[Len(s) + (1 + k)] = r[1 + k]
        BY <1>5, <2>1
    <2> QED
        BY <1>3, <2>1, <2>2
<1> DEFINE n == Len(argv)
           q == SubSeq(argv, 3, n)
<1>7. q = [k \in 1 .. Len(x) |-> argv[k + 2]]
    <2>1. n \in Nat /\ n - 2 = Len(x) /\ 3 \in 1 .. n + 1
        BY <1>4, <1>5
    <2>2. q \in Seq(C) /\ Len(q) = Len(x)
        BY <1>4, <1>5
    <2>3. \A k \in 1 .. Len(x) : q[k] = argv[k + 2]
        BY <1>4, <1>5
    <2> HIDE DEF q, n
    <2> QED
        BY <2>2, <2>3
<1>8. x = [k \in 1 .. Len(x) |-> x[k]]
    OBVIOUS
<1>9. q = x
    <2> HIDE DEF q
    <2> QED
        BY <1>6, <1>7, <1>8
<1> QED
    BY <1>4, <1>5, <1>9

\* argsToMap without a mode reads nothing.
LEMMA NoArgs ==
    ASSUME NEW K, NEW V, NULL \notin K, Options \subseteq K, NEW m, UMap(m, K, V), NEW items
    PROVE  argsToMap(m, Argv(NULL, items)) = m
<1> DEFINE argv == Argv(NULL, items)
           words == SubSeq(argv, 3, Len(argv))
<1>1. argv = <<"homenet">> \o << >>
    BY DEF Argv
<1>2. argv = <<"homenet">>
    BY <1>1
<1>3. Len(argv) = 1 /\ Len(argv) < 2 /\ words = << >>
    BY <1>2
<1>4. << >> \in Seq(V) /\ Len(<< >>) = 0
    OBVIOUS
<1> HIDE DEF argv, words
<1>5. ArgsBase(m, argv) = m
    BY <1>3 DEF ArgsBase
<1>6. words \in Seq(V) /\ Len(words) = 0 /\ words = SubSeq(argv, 3, Len(argv))
    BY <1>3, <1>4 DEF words
<1>7. UMap(ArgsBase(m, argv), K, V)
    BY <1>5
<1>8. PICK h : IsWords(h, ArgsBase(m, argv), words, argsToMap(m, argv))
    BY <1>6, <1>7, WordSteps
<1>9. h[0].map = m /\ argsToMap(m, argv) = h[0].map
    BY <1>5, <1>6, <1>8 DEF IsWords
<1> QED
    BY <1>9 DEF argv

\* argsToMap with a mode puts the mode and then the options, item by item.
LEMMA ArgsPut ==
    ASSUME NEW K, NEW V, NULL \notin K, Options \subseteq K, NEW items, CommandLine(items, V),
           NEW mode \in V, mode # NULL, NEW m, UMap(map_set(m, "mode", mode), K, V)
    PROVE  /\ UMap(argsToMap(m, Argv(mode, items)), K, V)
           /\ Puts(argsToMap(m, Argv(mode, items)), map_set(m, "mode", mode),
                   ArgKeys(items), ArgValues(items), 1 .. Len(items))
<1> DEFINE argv == Argv(mode, items)
           base == map_set(m, "mode", mode)
           N == Len(items)
           keys == ArgKeys(items)
           values == ArgValues(items)
<1>1. items \in Seq(Seq(V)) /\ N \in Nat /\ N = Len(items)
    BY DEF CommandLine
<1> HIDE DEF N
<1>2. PICK g : IsFlat(g, items, N, V) /\ FlattenSeq(items) = g[N]
    BY <1>1, Flat
<1> DEFINE words == g[N]
<1>3. words \in Seq(V) /\ g[0] = << >> /\ words = FlattenSeq(items)
    BY <1>1, <1>2 DEF IsFlat
<1> HIDE DEF words
<1>4. ~ (Len(argv) < 2) /\ argv[2] = mode /\ SubSeq(argv, 3, Len(argv)) = words
    BY <1>3, ArgvWords
<1> HIDE DEF argv
<1>5. ArgsBase(m, argv) = base
    BY <1>4 DEF ArgsBase
<1>6. words = SubSeq(argv, 3, Len(argv)) /\ UMap(ArgsBase(m, argv), K, V)
    BY <1>4, <1>5
<1> HIDE DEF base
<1>7. PICK h : IsWords(h, ArgsBase(m, argv), words, argsToMap(m, argv))
    BY <1>3, <1>6, WordSteps
<1> DEFINE new == argsToMap(m, argv)
<1>8. IsWords(h, base, g[N], new)
    BY <1>5, <1>7 DEF words
<1> HIDE DEF new
<1>9. h[0] = [map |-> base, option |-> NULL] /\ new = h[Len(g[N])].map
    BY <1>8 DEF IsWords
<1> HIDE DEF keys, values
<1>10. ASSUME NEW i \in 1 .. N, h[Len(g[i - 1])].option = NULL
       PROVE  /\ h[Len(g[i])].option = NULL
              /\ h[Len(g[i])].map = Put(h[Len(g[i - 1])].map, keys[i], values[i])
    <2>1. ItemPut(h, Len(g[i - 1]), Len(g[i]), ArgKeys(items)[i], ArgValues(items)[i])
        BY <1>1, <1>2, <1>8, <1>10, ItemSteps
    <2> QED
        BY <2>1 DEF ItemPut, keys, values
<1> DEFINE S == {n \in Nat : n <= N => h[Len(g[n])].option = NULL}
<1>11. \A n \in Nat : n \in S
    <2>1. 0 \in S
        <3>1. Len(g[0]) = 0
            BY <1>3
        <3> QED
            BY <1>9, <3>1
    <2>2. ASSUME NEW n \in Nat, n \in S PROVE n + 1 \in S
        <3>1. ASSUME n + 1 <= N PROVE h[Len(g[n + 1])].option = NULL
            <4>1. n + 1 \in 1 .. N /\ (n + 1) - 1 = n /\ n <= N
                BY <1>1, <3>1
            <4>2. h[Len(g[n])].option = NULL
                BY <2>2, <4>1
            <4> QED
                BY <1>10, <4>1, <4>2
        <3> QED
            BY <3>1
    <2> HIDE DEF S
    <2> QED
        BY <2>1, <2>2, SetInduction
<1> DEFINE f == [n \in 0 .. N |-> h[Len(g[n])].map]
<1>12. f[0] = base
    <2>1. Len(g[0]) = 0 /\ 0 \in 0 .. N
        BY <1>1, <1>3
    <2> QED
        BY <1>9, <2>1
<1>13. f[N] = argsToMap(m, argv)
    BY <1>1, <1>9 DEF new
<1>14. ASSUME NEW n \in 1 .. N PROVE f[n] = Put(f[n - 1], keys[n], values[n])
    <2>1. n - 1 \in 0 .. N /\ n \in 0 .. N /\ n - 1 \in Nat /\ n - 1 <= N
        BY <1>1
    <2>2. h[Len(g[n - 1])].option = NULL
        BY <1>11, <2>1
    <2>3. h[Len(g[n])].map = Put(h[Len(g[n - 1])].map, keys[n], values[n])
        BY <1>10, <2>2
    <2> QED
        BY <2>1, <2>3
<1>15. ASSUME NEW n \in 1 .. N PROVE keys[n] \in K \cup {NULL} /\ (keys[n] # NULL => values[n] \in V)
    <2>1. n \in 1 .. Len(items) /\ items[n] \in Seq(V)
        BY <1>1, ElementType
    <2>2. keys[n] = (IF Len(items[n]) = 2 THEN getMappedKey(items[n][1], CLI) ELSE NULL)
          /\ values[n] = items[n][2]
        BY <2>1 DEF keys, values, ArgKeys, ArgValues
    <2>3. getMappedKey(items[n][1], CLI) \in K \cup {NULL}
        BY Mapped
    <2>4. Len(items[n]) = 2 => items[n][2] \in V
        BY <2>1
    <2> QED
        BY <2>2, <2>3, <2>4
<1> HIDE DEF f
<1>16. IsPuts(f, base, keys, values, N, K, V)
    BY <1>12, <1>14, <1>15 DEF IsPuts
<1>17. UMap(base, K, V)
    BY DEF base
<1>18. UMap(f[N], K, V) /\ Puts(f[N], base, keys, values, 1 .. N)
    BY <1>1, <1>16, <1>17, PutsRun
<1> QED
    BY <1>13, <1>18 DEF argv, base, keys, values, N

\* The mode of a start: none, or a word.
Mode(mode, V) == mode = NULL \/ mode \in V

\* A lookup after argsToMap: the last such option of the command line, else what
\* was there.
LEMMA ArgsLookup ==
    ASSUME NEW K, NEW V, NULL \notin K, NULL \notin V, Options \subseteq K,
           NEW items, CommandLine(items, V), NEW mode, Mode(mode, V),
           NEW m, UMap(m, K, V), NEW j \in 1 .. 16, NEW key, key = mapping[j][1]
    PROVE  /\ UMap(argsToMap(m, Argv(mode, items)), K, V)
           /\ map_get(argsToMap(m, Argv(mode, items)), key, NULL)
                = IF FromArgs(mode, items, key) # NULL THEN FromArgs(mode, items, key)
                  ELSE map_get(m, key, NULL)
<1> DEFINE all == argsToMap(m, Argv(mode, items))
           from == FromArgs(mode, items, key)
<1>1. key # NULL
    BY Mapping
<1>2. CASE mode = NULL
    <2>1. all = m
        BY <1>2, NoArgs
    <2>2. from = NULL
        BY <1>2 DEF FromArgs
    <2> HIDE DEF all, from
    <2> QED
        BY <2>1, <2>2 DEF all, from
<1>3. CASE mode # NULL
    <2> DEFINE N == Len(items)
               keys == ArgKeys(items)
               values == ArgValues(items)
               base == map_set(m, "mode", mode)
               S == {i \in DOMAIN items : Len(items[i]) = 2 /\ getMappedKey(items[i][1], CLI) = key}
               found == IF S = {} THEN NULL ELSE items[Max(S)][2]
    <2>1. mode \in V /\ items \in Seq(Seq(V)) /\ N \in Nat /\ DOMAIN items = 1 .. N
        BY <1>3 DEF Mode, CommandLine
    <2>2. "mode" \in K
        <3>1. mapping[1][1] = "mode"
            BY DEF mapping
        <3> QED
            BY <3>1 DEF Options
    <2>3. Changes(m, base, "mode", mode, NULL)
        BY <2>1, <2>2, SetChanges DEF UMap
    <2>4. UMap(base, K, V)
        <3>1. base \in Maps(K, V)
            BY <2>1, <2>2, MapSetType DEF UMap, Maps
        <3> QED
            BY <2>3, <3>1 DEF UMap, Changes
    <2>5. /\ map_get(base, "mode", NULL) = mode
          /\ key # "mode" => map_get(base, key, NULL) = map_get(m, key, NULL)
        BY <2>3 DEF Changes, Agree
    <2>6. UMap(all, K, V) /\ Puts(all, base, keys, values, 1 .. N)
        BY <1>3, <2>1, <2>4, ArgsPut
    <2>7. from = IF key = "mode" THEN mode ELSE found
        BY <1>3 DEF FromArgs, LastOf
    <2>8. S \subseteq 1 .. N /\ \A i : i \in S <=> i \in 1 .. N /\ keys[i] = key
        <3>1. \A i \in 1 .. N : keys[i] = IF Len(items[i]) = 2 THEN getMappedKey(items[i][1], CLI) ELSE NULL
            BY DEF ArgKeys
        <3> HIDE DEF keys
        <3> QED
            BY <1>1, <2>1, <3>1
    <2>9. ASSUME NEW i \in S PROVE items[i][2] \in V /\ values[i] = items[i][2]
        <3>1. i \in 1 .. N /\ Len(items[i]) = 2
            BY <2>8
        <3>2. items[i] \in Seq(V)
            BY <2>1, <3>1, ElementType
        <3>3. items[i][2] \in V
            BY <3>1, <3>2
        <3> QED
            BY <3>1, <3>3 DEF ArgValues
    <2>10. key = "mode" => S = {}
        BY Mapped
    <2> HIDE DEF all, from, base, keys, values, N, S
    <2>11. Gets(all, base, key, NULL, S, values)
        BY <1>1, <2>1, <2>6, <2>8, PutsLookup
    <2>12. CASE S = {}
        <3>1. map_get(all, key, NULL) = map_get(base, key, NULL)
            BY <2>11, <2>12 DEF Gets
        <3>2. CASE key = "mode"
            BY <1>3, <2>5, <2>6, <2>7, <3>1, <3>2 DEF all, from
        <3>3. CASE key # "mode"
            <4>1. from = NULL
                BY <2>7, <2>12, <3>3
            <4> QED
                BY <2>5, <2>6, <3>1, <3>3, <4>1 DEF all, from
        <3> QED
            BY <3>2, <3>3
    <2>13. CASE S # {}
        <3>1. Max(S) \in S
            BY <2>1, <2>8, <2>13, MaxGreatest
        <3>2. map_get(all, key, NULL) = values[Max(S)]
            BY <2>11, <2>13 DEF Gets
        <3>3. from = items[Max(S)][2]
            BY <2>7, <2>10, <2>13
        <3>4. values[Max(S)] = items[Max(S)][2] /\ items[Max(S)][2] # NULL
            BY <2>9, <3>1
        <3> QED
            BY <2>6, <3>2, <3>3, <3>4 DEF all, from
    <2> QED
        BY <2>12, <2>13
<1> QED
    BY <1>2, <1>3

\* The first of three words that is one.
LEMMA FirstOfThree ==
    ASSUME NEW x, NEW y, NEW z
    PROVE  First(<<x, y, z>>) = IF x # NULL THEN x ELSE IF y # NULL THEN y ELSE z
<1> DEFINE w == <<x, y, z>>
           P == {i \in DOMAIN w : w[i] # NULL}
<1>1. DOMAIN w = {1, 2, 3} /\ w[1] = x /\ w[2] = y /\ w[3] = z
    OBVIOUS
<1>2. First(w) = IF P = {} THEN NULL ELSE w[Min(P)]
    BY DEF First
<1> HIDE DEF w
<1>3. P \subseteq Nat
    BY <1>1
<1>4. P # {} => Min(P) \in P /\ \A i \in P : Min(P) <= i
    <2> HIDE DEF P
    <2> QED
        BY <1>3, MinFacts
<1>5. \A i : i \in P <=> i \in {1, 2, 3} /\ w[i] # NULL
    BY <1>1
<1> HIDE DEF P
<1>6. ASSUME NEW n \in {1, 2, 3}, n \in P, \A i \in P : n <= i PROVE First(w) = w[n]
    <2>1. Min(P) \in P /\ Min(P) <= n /\ n <= Min(P)
        BY <1>4, <1>6
    <2>2. Min(P) \in {1, 2, 3}
        BY <1>5, <2>1
    <2>3. Min(P) = n
        BY <2>1, <2>2
    <2> QED
        BY <1>2, <1>6, <2>3
<1>7. CASE x # NULL
    <2>1. 1 \in P /\ \A i \in P : 1 <= i
        BY <1>1, <1>5, <1>7
    <2> QED
        BY <1>1, <1>6, <1>7, <2>1 DEF w
<1>8. CASE x = NULL /\ y # NULL
    <2>1. 2 \in P /\ \A i \in P : 2 <= i
        BY <1>1, <1>5, <1>8
    <2> QED
        BY <1>1, <1>6, <1>8, <2>1 DEF w
<1>9. CASE x = NULL /\ y = NULL /\ z # NULL
    <2>1. 3 \in P /\ \A i \in P : 3 <= i
        BY <1>1, <1>5, <1>9
    <2> QED
        BY <1>1, <1>6, <1>9, <2>1 DEF w
<1>10. CASE x = NULL /\ y = NULL /\ z = NULL
    <2>1. P = {}
        BY <1>1, <1>5, <1>10
    <2> QED
        BY <1>2, <1>10, <2>1 DEF w
<1> QED
    BY <1>7, <1>8, <1>9, <1>10

\* The inputs of a start of the program: words in V, keys in K, none of them the
\* null pointer; an option of the command line has a value.
StartOf(mode, items, env, files, K, V) ==
    /\ CommandLine(items, V) /\ Mode(mode, V) /\ Environment(env, V)
    /\ \A p \in DOMAIN files : ConfigFile(files[p], K, V)

\* The value over the one that was there.
Over(new, old) == IF new # NULL THEN new ELSE old

\* The order of the code, and of the comment in store.c: the value of the command
\* line, else of the environment, else of the file as it is read.
InOrder(mode, items, env, files) ==
    LET argv == Argv(mode, items)
        file == FileOf(argv, env, files)
        all  == Collect(argv, env, files)
    IN \A i \in DOMAIN mapping :
         LET key == mapping[i][1]
         IN getValue(all, key, NULL)
              = First(<<FromArgs(mode, items, key), getEnv(env, EnvKey(key)),
                        FromFile(file, key)>>)

\* It is kept in every start: the second pass reads all sources again, so what
\* the first one left behind is overwritten by the source it came from.
LEMMA Ordered ==
    ASSUME NEW K, NEW V, NULL \notin K, NULL \notin V, Options \subseteq K,
           NEW mode, NEW items, NEW env, NEW files, StartOf(mode, items, env, files, K, V)
    PROVE  InOrder(mode, items, env, files)
<1> DEFINE argv == Argv(mode, items)
           file == FileOf(argv, env, files)
           args == argsToMap(map_init, argv)
           m0 == FirstPass(argv, env)
           m1 == configFileToMap(m0, Closed, file, NULL).map
           m2 == envToMap(m1, env)
           all == argsToMap(m2, argv)
           From(key) == FromArgs(mode, items, key)
           Env(key) == getEnv(env, EnvKey(key))
<1>1. CommandLine(items, V) /\ Mode(mode, V) /\ Environment(env, V)
      /\ \A p \in DOMAIN files : ConfigFile(files[p], K, V)
    BY DEF StartOf
<1>2. ASSUME NEW m, UMap(m, K, V)
      PROVE  /\ UMap(argsToMap(m, argv), K, V)
             /\ \A i \in 1 .. 16 : map_get(argsToMap(m, argv), mapping[i][1], NULL)
                                     = Over(From(mapping[i][1]), map_get(m, mapping[i][1], NULL))
    <2>1. ASSUME NEW i \in 1 .. 16
          PROVE  /\ UMap(argsToMap(m, argv), K, V)
                 /\ map_get(argsToMap(m, argv), mapping[i][1], NULL)
                      = Over(From(mapping[i][1]), map_get(m, mapping[i][1], NULL))
        BY <1>1, <1>2, ArgsLookup DEF Over
    <2>2. 1 \in 1 .. 16
        OBVIOUS
    <2> HIDE DEF argv, From
    <2> QED
        BY <2>1, <2>2
<1>3. ASSUME NEW m, UMap(m, K, V)
      PROVE  /\ UMap(envToMap(m, env), K, V)
             /\ \A i \in 1 .. 16 : map_get(envToMap(m, env), mapping[i][1], NULL)
                                     = Over(Env(mapping[i][1]), map_get(m, mapping[i][1], NULL))
    <2>1. ASSUME NEW i \in 1 .. 16
          PROVE  /\ UMap(envToMap(m, env), K, V)
                 /\ map_get(envToMap(m, env), mapping[i][1], NULL)
                      = Over(Env(mapping[i][1]), map_get(m, mapping[i][1], NULL))
        BY <1>1, <1>3, EnvLookup DEF Over
    <2>2. 1 \in 1 .. 16
        OBVIOUS
    <2> HIDE DEF Env
    <2> QED
        BY <2>1, <2>2
<1>4. ConfigFile(file, K, V)
    <2> DEFINE path == getValue(FirstPass(argv, env), "config-file", "homenet.conf")
    <2>1. file = IF path \in DOMAIN files THEN files[path] ELSE NoSuchFile
        BY DEF FileOf
    <2> HIDE DEF path, file, argv
    <2>2. ConfigFile(NoSuchFile, K, V)
        BY DEF ConfigFile, NoSuchFile
    <2> QED
        BY <1>1, <2>1, <2>2
<1>5. Collect(argv, env, files) = all
    BY DEF Collect, SecondPass
<1>6. m0 = args \/ m0 = envToMap(args, env)
    BY DEF FirstPass
<1>7. UMap(map_init, K, V) /\ \A key : map_get(map_init, key, NULL) = NULL
    BY DEF UMap, Maps, map_init, Unique, map_get, map_getItem
<1> HIDE DEF argv, From, Env, file
<1>8. /\ UMap(args, K, V)
      /\ \A i \in 1 .. 16 : map_get(args, mapping[i][1], NULL) = Over(From(mapping[i][1]), NULL)
    BY <1>2, <1>7
<1> HIDE DEF args
<1>9. /\ UMap(m0, K, V)
      /\ \A i \in 1 .. 16 :
            \/ map_get(m0, mapping[i][1], NULL) = Over(From(mapping[i][1]), NULL)
            \/ map_get(m0, mapping[i][1], NULL)
                 = Over(Env(mapping[i][1]), Over(From(mapping[i][1]), NULL))
    <2>1. CASE m0 = args
        <3> HIDE DEF m0
        <3> QED
            BY <1>8, <2>1
    <2>2. CASE m0 = envToMap(args, env)
        <3> HIDE DEF m0
        <3>1. /\ UMap(m0, K, V)
              /\ \A i \in 1 .. 16 : map_get(m0, mapping[i][1], NULL)
                                      = Over(Env(mapping[i][1]), map_get(args, mapping[i][1], NULL))
            BY <1>3, <1>8, <2>2
        <3>2. ASSUME NEW i \in 1 .. 16
              PROVE  map_get(m0, mapping[i][1], NULL)
                       = Over(Env(mapping[i][1]), Over(From(mapping[i][1]), NULL))
            BY <1>8, <3>1
        <3> QED
            BY <3>1, <3>2
    <2> QED
        BY <1>6, <2>1, <2>2
<1> HIDE DEF m0
<1>10. /\ UMap(m1, K, V)
       /\ \A i \in 1 .. 16 : map_get(m1, mapping[i][1], NULL)
                               = Over(FromFile(file, mapping[i][1]), map_get(m0, mapping[i][1], NULL))
    <2>1. ASSUME NEW i \in 1 .. 16
          PROVE  /\ UMap(m1, K, V)
                 /\ map_get(m1, mapping[i][1], NULL)
                      = Over(FromFile(file, mapping[i][1]), map_get(m0, mapping[i][1], NULL))
        <3>1. mapping[i][1] # NULL
            BY Mapping
        <3> QED
            BY <1>4, <1>9, <3>1, FileLookup DEF Over
    <2>2. 1 \in 1 .. 16
        OBVIOUS
    <2> HIDE DEF m1
    <2> QED
        BY <2>1, <2>2
<1> HIDE DEF m1
<1>11. /\ UMap(m2, K, V)
       /\ \A i \in 1 .. 16 : map_get(m2, mapping[i][1], NULL)
                               = Over(Env(mapping[i][1]), map_get(m1, mapping[i][1], NULL))
    BY <1>3, <1>10
<1> HIDE DEF m2
<1>12. \A i \in 1 .. 16 : map_get(all, mapping[i][1], NULL)
                            = Over(From(mapping[i][1]), map_get(m2, mapping[i][1], NULL))
    BY <1>2, <1>11
<1> HIDE DEF all
<1>13. ASSUME NEW i \in 1 .. 16
       PROVE  getValue(all, mapping[i][1], NULL)
                = First(<<From(mapping[i][1]), Env(mapping[i][1]), FromFile(file, mapping[i][1])>>)
    <2> DEFINE key == mapping[i][1]
               x == From(key)
               y == Env(key)
               z == FromFile(file, key)
               v == map_get(m0, key, NULL)
    <2>1. map_get(all, key, NULL) = Over(x, Over(y, Over(z, v)))
        BY <1>10, <1>11, <1>12
    <2>2. v = Over(x, NULL) \/ v = Over(y, Over(x, NULL))
        BY <1>9
    <2>3. getValue(all, key, NULL) = map_get(all, key, NULL)
        BY DEF getValue
    <2> HIDE DEF key, x, y, z, v
    <2>4. First(<<x, y, z>>) = IF x # NULL THEN x ELSE IF y # NULL THEN y ELSE z
        BY FirstOfThree
    <2>5. Over(x, Over(y, Over(z, v))) = IF x # NULL THEN x ELSE IF y # NULL THEN y ELSE z
        BY <2>2 DEF Over
    <2>6. getValue(all, key, NULL) = First(<<x, y, z>>)
        BY <2>1, <2>3, <2>4, <2>5
    <2> QED
        BY <2>6 DEF x, y, z, key
<1>14. DOMAIN mapping = 1 .. 16
    BY Mapping
<1>15. ASSUME NEW i \in DOMAIN mapping
       PROVE  getValue(Collect(argv, env, files), mapping[i][1], NULL)
                = First(<<FromArgs(mode, items, mapping[i][1]), getEnv(env, EnvKey(mapping[i][1])),
                          FromFile(file, mapping[i][1])>>)
    BY <1>5, <1>13, <1>14 DEF From, Env
<1> QED
    BY <1>15 DEF InOrder, argv, file

\* What the order leaves to the reader of homenet.conf: the command line, else one
\* of the other two.
LEMMA Resolved ==
    ASSUME NEW K, NEW V, NULL \notin K, NULL \notin V, Options \subseteq K,
           NEW mode, NEW items, NEW env, NEW files, StartOf(mode, items, env, files, K, V)
    PROVE  Resolution(mode, items, env, files)
<1> DEFINE argv == Argv(mode, items)
           file == FileOf(argv, env, files)
           all == Collect(argv, env, files)
           path == getValue(FirstPass(argv, env), "config-file", "homenet.conf")
<1>1. InOrder(mode, items, env, files)
    BY Ordered
<1>2. ConfigFile(file, K, V)
    <2>1. file = IF path \in DOMAIN files THEN files[path] ELSE NoSuchFile
        BY DEF FileOf
    <2> HIDE DEF path, file, argv
    <2>2. ConfigFile(NoSuchFile, K, V)
        BY DEF ConfigFile, NoSuchFile
    <2> QED
        BY <2>1, <2>2 DEF StartOf
<1>3. ASSUME NEW i \in DOMAIN mapping
      PROVE  LET key  == mapping[i][1]
                 arg  == FromArgs(mode, items, key)
                 S    == OptionLines(file, key)
                 rest == {getEnv(env, EnvKey(key)), Written(file, S)} \ {NULL}
             IN /\ arg # NULL => getValue(all, key, NULL) = arg
                /\ arg = NULL /\ Whole(file, S) =>
                     getValue(all, key, NULL) \in IF rest = {} THEN {NULL} ELSE rest
    <2> DEFINE key == mapping[i][1]
               x == FromArgs(mode, items, key)
               y == getEnv(env, EnvKey(key))
               S == OptionLines(file, key)
               z == FromFile(file, key)
               w == Written(file, S)
               got == getValue(all, key, NULL)
    <2>1. got = First(<<x, y, z>>)
        BY <1>1 DEF InOrder
    <2>2. Whole(file, S) => z = w
        <3>1. z = IF S = {} THEN NULL ELSE Value(file, Max(S))
            BY DEF FromFile, LastOf
        <3>2. S = {} => w = NULL
            BY DEF Written, LastOf
        <3>3. Len(file.lines) \in Nat /\ S \subseteq 1 .. Len(file.lines)
            BY <1>2 DEF ConfigFile, OptionLines, InSection
        <3> HIDE DEF S, file
        <3>4. S # {} => Max(S) \in 1 .. Len(file.lines)
            BY <3>3, MaxGreatest
        <3> QED
            BY <3>1, <3>2, <3>3, <3>4, WholeRead
    <2> HIDE DEF x, y, z, w, got
    <2>3. First(<<x, y, z>>) = IF x # NULL THEN x ELSE IF y # NULL THEN y ELSE z
        BY FirstOfThree
    <2>4. /\ x # NULL => got = x
          /\ x = NULL /\ Whole(file, S) =>
               got \in IF {y, w} \ {NULL} = {} THEN {NULL} ELSE {y, w} \ {NULL}
        BY <2>1, <2>2, <2>3
    <2> QED
        BY <2>4 DEF x, y, w, got
<1> QED
    BY <1>3 DEF Resolution

\* Precedence for every start of the program: each option has the value of the
\* command line, else one of those of the environment and of the part of the config
\* file above any section, the last one there (Ordered says which).  confInit reads
\* the command line and the environment once to find the file and then all three
\* again over what it had: nothing that the first pass stored survives the source
\* it must give way to.
THEOREM PrecedenceCorrect ==
    ASSUME NEW K, NEW V, NULL \notin K, NULL \notin V,
           Of("config") => StartOf(probe.mode, probe.items, probe.env, probe.files, K, V)
    PROVE  Precedence
<1> DEFINE L == K \cup Options
<1>1. NULL \notin L /\ Options \subseteq L
    BY Mapping DEF Options
<1>2. ASSUME NEW file, ConfigFile(file, K, V) PROVE ConfigFile(file, L, V)
    BY <1>1, <1>2 DEF ConfigFile
<1> SUFFICES ASSUME Of("config") PROVE Resolution(probe.mode, probe.items, probe.env, probe.files)
    BY DEF Precedence
<1>3. StartOf(probe.mode, probe.items, probe.env, probe.files, L, V)
    BY <1>2 DEF StartOf
<1> HIDE DEF L
<1> QED
    BY <1>1, <1>3, Resolved
==============================================================================
