--------------------------- MODULE ContainersProofs ---------------------------
(***************************************************************************)
(* Map and List of utils.c for every sequence of calls: a Map is a         *)
(* function of its keys, the watch list a set but for what was added       *)
(* first.  MdnsProofs rests on the facts about map_set, and, as            *)
(* LibraryProofs, on the induction over data stated first: a property of   *)
(* every number is a set the numbers are in, and the operator of a fold or *)
(* of a recursive function is a function on the states it keeps to.        *)
(***************************************************************************)
EXTENDS Containers, FiniteSetTheorems, WellFoundedInduction, TLAPS

(***************************************************************************)
(* Induction over data                                                     *)
(***************************************************************************)

\* A set that has 0, and with every number the next one, has all of them.
LEMMA SetInduction ==
    ASSUME NEW S, 0 \in S, \A n \in Nat : n \in S => n + 1 \in S
    PROVE  \A n \in Nat : n \in S
<1> DEFINE R == OpToRel(<, Nat)
           T == {n \in Nat : n \notin S}
<1> SUFFICES ASSUME T # {} PROVE FALSE
    OBVIOUS
<1>1. IsWellFoundedOn(R, Nat)
    BY NatLessThanWellFounded
<1>2. \A x, y \in Nat : <<x, y>> \in R <=> x < y
    BY DEF OpToRel
<1> HIDE DEF R
<1>3. PICK x \in T : \A y \in T : <<y, x>> \notin R
    <2>1. T \subseteq Nat
        OBVIOUS
    <2> HIDE DEF T
    <2> QED
        BY <1>1, <2>1, WFMin
<1>4. x \in Nat /\ x # 0 /\ x - 1 \in Nat
    OBVIOUS
<1>5. <<x - 1, x>> \in R
    BY <1>2, <1>4
<1>6. x - 1 \notin T
    <2> HIDE DEF T
    <2> QED
        BY <1>3, <1>5
<1> QED
    BY <1>4, <1>6

\* A set of numbers has a least one, as the walks through a list look for it.
LEMMA Least ==
    ASSUME NEW T, T \subseteq Nat, T # {}
    PROVE  \E x \in T : \A y \in T : x <= y
<1> DEFINE R == OpToRel(<, Nat)
<1>1. IsWellFoundedOn(R, Nat)
    BY NatLessThanWellFounded
<1>2. \A x, y \in Nat : <<x, y>> \in R <=> x < y
    BY DEF OpToRel
<1> HIDE DEF R
<1>3. PICK x \in T : \A y \in T : <<y, x>> \notin R
    BY <1>1, WFMin
<1>4. ASSUME NEW y \in T PROVE x <= y
    <2>1. x \in Nat /\ y \in Nat
        OBVIOUS
    <2>2. ~ (y < x)
        BY <1>2, <1>3, <2>1
    <2> QED
        BY <2>1, <2>2
<1> QED
    BY <1>4

\* An element of a sequence has the type of its elements.
LEMMA ElementType ==
    ASSUME NEW S, NEW m \in Seq(S), NEW i \in 1 .. Len(m)
    PROVE  m[i] \in S
OBVIOUS

\* Two sequences with the same elements at the same places.
LEMMA SameSequence ==
    ASSUME NEW S, NEW m \in Seq(S), NEW n \in Seq(S), Len(m) = Len(n),
           \A i \in 1 .. Len(m) : m[i] = n[i]
    PROVE  m = n
OBVIOUS

\* What is put in front of a sequence.
LEMMA InFront ==
    ASSUME NEW S, NEW m \in Seq(S), NEW x \in S
    PROVE  /\ <<x>> \o m \in Seq(S) /\ Len(<<x>> \o m) = Len(m) + 1
           /\ (<<x>> \o m)[1] = x
           /\ \A i \in 1 .. Len(m) : (<<x>> \o m)[i + 1] = m[i]
           /\ \A j \in 1 .. Len(<<x>> \o m) :
                 \/ j = 1
                 \/ j - 1 \in 1 .. Len(m) /\ (<<x>> \o m)[j] = m[j - 1]
<1>1. <<x>> \o m \in Seq(S) /\ Len(<<x>> \o m) = Len(m) + 1
    OBVIOUS
<1>2. (<<x>> \o m)[1] = x
    OBVIOUS
<1>3. \A i \in 1 .. Len(m) : (<<x>> \o m)[i + 1] = m[i]
    OBVIOUS
<1>4. ASSUME NEW j \in 1 .. Len(<<x>> \o m), j # 1
      PROVE  j - 1 \in 1 .. Len(m) /\ (<<x>> \o m)[j] = m[j - 1]
    <2>1. j - 1 \in 1 .. Len(m) /\ (j - 1) + 1 = j
        BY <1>1, <1>4
    <2> QED
        BY <2>1, <1>3
<1> QED
    BY <1>1, <1>2, <1>3, <1>4

\* The front element replaced by another one.
LEMMA FrontReplaced ==
    ASSUME NEW S, NEW m \in Seq(S), NEW x \in S, NEW y \in S
    PROVE  [(<<x>> \o m) EXCEPT ![1] = y] = <<y>> \o m
<1> DEFINE p == <<x>> \o m
           q == <<y>> \o m
<1>1. /\ p \in Seq(S) /\ Len(p) = Len(m) + 1
      /\ q \in Seq(S) /\ Len(q) = Len(m) + 1
      /\ q[1] = y /\ \A j \in 2 .. Len(p) : q[j] = p[j]
    OBVIOUS
<1> HIDE DEF p, q
<1>2. /\ [p EXCEPT ![1] = y] \in Seq(S) /\ Len([p EXCEPT ![1] = y]) = Len(q)
      /\ \A j \in 1 .. Len(q) : [p EXCEPT ![1] = y][j] = q[j]
    BY <1>1
<1>3. [p EXCEPT ![1] = y] = q
    BY <1>1, <1>2, SameSequence
<1> QED
    BY <1>3 DEF p, q

\* Max of the set that FoldLeft takes its next index from.
LEMMA MaxFacts ==
    ASSUME NEW n \in Nat, NEW s, s \subseteq 1 .. (n + 1), n + 1 \in s
    PROVE  Max(s) = n + 1
<1>1. \A y \in s : y \in Int /\ n + 1 >= y
    OBVIOUS
<1>2. Max(s) \in s /\ \A y \in s : Max(s) >= y
    BY <1>1 DEF Max
<1>3. Max(s) \in Int /\ Max(s) >= n + 1 /\ n + 1 >= Max(s)
    BY <1>1, <1>2
<1> QED
    BY <1>3

\* The greatest of some indices is one of them.
LEMMA MaxIn ==
    ASSUME NEW N \in Nat, NEW s \in SUBSET (1 .. N), s # {}
    PROVE  Max(s) \in 1 .. N
<1> DEFINE T == {N - x : x \in s}
<1>1. \A x \in s : x \in Int /\ N - x \in Nat /\ N - x \in T
    OBVIOUS
<1>2. PICK y \in T : \A z \in T : y <= z
    <2>1. T \subseteq Nat /\ T # {}
        BY <1>1
    <2> HIDE DEF T
    <2> QED
        BY <2>1, Least
<1>3. PICK x \in s : y = N - x
    OBVIOUS
<1>4. ASSUME NEW z \in s PROVE x >= z
    <2>1. N - x <= N - z
        BY <1>1, <1>2, <1>3
    <2> QED
        BY <1>1, <2>1
<1>5. Max(s) \in s
    BY <1>4 DEF Max
<1> QED
    BY <1>5

\* The function that FoldLeft chooses, on the states W, with the operator F of
\* a state and the place of the next element.
IsIter(g, W, N, base, F) ==
    /\ g \in [SUBSET (1 .. N) -> W]
    /\ \A s \in SUBSET (1 .. N) :
          g[s] = IF s = {} THEN base ELSE F[<<g[s \ {Max(s)}], Max(s)>>]

\* What such a function has to do on the first elements only.
Unfolds(g, W, N, base, F) ==
    /\ g[{}] = base
    /\ \A n \in 1 .. N : g[1 .. (n - 1)] \in W =>
          g[1 .. n] = F[<<g[1 .. (n - 1)], n>>]

\* The states f that g goes through, from the left.
IsRun(f, g, W, N, base, F) ==
    /\ f \in [0 .. N -> W]
    /\ f[0] = base /\ f[N] = g[1 .. N]
    /\ \A n \in 1 .. N : f[n] = F[<<f[n - 1], n>>]

\* FoldLeft has a function to choose.
LEMMA IterExists ==
    ASSUME NEW W, NEW N \in Nat, NEW base \in W, NEW F \in [W \X (1 .. N) -> W]
    PROVE  \E g : IsIter(g, W, N, base, F)
<1> DEFINE Good(n, g) == \A s \in SUBSET (1 .. n) :
              g[s] = IF s = {} THEN base ELSE F[<<g[s \ {Max(s)}], Max(s)>>]
           Has(n) == \E g \in [SUBSET (1 .. n) -> W] : Good(n, g)
           S == {n \in Nat : n <= N => Has(n)}
<1>1. 0 \in S
    <2> DEFINE g == [s \in SUBSET (1 .. 0) |-> base]
    <2>1. \A s \in SUBSET (1 .. 0) : s = {}
        OBVIOUS
    <2>2. g \in [SUBSET (1 .. 0) -> W] /\ Good(0, g)
        BY <2>1
    <2> QED
        BY <2>2
<1>2. ASSUME NEW n \in Nat, n \in S PROVE n + 1 \in S
    <2> HIDE DEF Has
    <2> SUFFICES ASSUME n + 1 <= N PROVE Has(n + 1)
        OBVIOUS
    <2>0. Has(n)
        BY <1>2
    <2> USE DEF Has
    <2>1. PICK g \in [SUBSET (1 .. n) -> W] : Good(n, g)
        BY <2>0
    <2> DEFINE h == [s \in SUBSET (1 .. (n + 1)) |->
                        IF n + 1 \in s THEN F[<<g[s \ {n + 1}], n + 1>>] ELSE g[s]]
    <2>2. ASSUME NEW s \in SUBSET (1 .. (n + 1)), n + 1 \in s
          PROVE  /\ Max(s) = n + 1 /\ s \ {n + 1} \in SUBSET (1 .. n)
                 /\ h[s] \in W /\ h[s] = F[<<h[s \ {Max(s)}], Max(s)>>]
        <3>1. Max(s) = n + 1 /\ s \ {n + 1} \in SUBSET (1 .. n)
            <4>1. s \subseteq 1 .. (n + 1)
                OBVIOUS
            <4>2. Max(s) = n + 1
                BY <2>2, <4>1, MaxFacts
            <4>3. \A y \in s \ {n + 1} : y \in 1 .. n
                BY <4>1
            <4> QED
                BY <4>2, <4>3
        <3>2. s \ {n + 1} \in SUBSET (1 .. (n + 1)) /\ n + 1 \in 1 .. N
            OBVIOUS
        <3>3. h[s \ {n + 1}] = g[s \ {n + 1}] /\ g[s \ {n + 1}] \in W
            BY <3>1, <3>2
        <3> QED
            BY <2>2, <3>1, <3>2, <3>3
    <2>3. ASSUME NEW s \in SUBSET (1 .. (n + 1)), n + 1 \notin s
          PROVE  /\ s \in SUBSET (1 .. n) /\ h[s] = g[s] /\ h[s] \in W
                 /\ h[s \ {Max(s)}] = g[s \ {Max(s)}]
        <3>1. s \in SUBSET (1 .. n)
            <4>1. \A y \in s : y \in 1 .. n
                BY <2>3
            <4> QED
                BY <4>1
        <3>2. s \ {Max(s)} \in SUBSET (1 .. n) /\ n + 1 \notin s \ {Max(s)}
              /\ s \ {Max(s)} \in SUBSET (1 .. (n + 1))
            BY <2>3, <3>1
        <3>3. h[s] = g[s] /\ g[s] \in W
            BY <2>3, <3>1
        <3>4. h[s \ {Max(s)}] = g[s \ {Max(s)}]
            BY <3>2
        <3> QED
            BY <3>1, <3>3, <3>4
    <2>4. h \in [SUBSET (1 .. (n + 1)) -> W]
        BY <2>2, <2>3
    <2>5. Good(n + 1, h)
        <3> SUFFICES ASSUME NEW s \in SUBSET (1 .. (n + 1))
                     PROVE  h[s] = IF s = {} THEN base
                                   ELSE F[<<h[s \ {Max(s)}], Max(s)>>]
            OBVIOUS
        <3>1. CASE n + 1 \in s
            BY <2>2, <3>1
        <3>2. CASE n + 1 \notin s
            BY <2>1, <2>3, <3>2
        <3> QED
            BY <3>1, <3>2
    <2> QED
        BY <2>4, <2>5
<1>3. N \in S
    <2> HIDE DEF S
    <2> QED
        BY <1>1, <1>2, SetInduction
<1>4. Has(N)
    <2> HIDE DEF Has
    <2> QED
        BY <1>3
<1> QED
    BY <1>4 DEF IsIter

\* The indices FoldLeft takes, the last one first.
LEMMA UpTo ==
    ASSUME NEW n \in Nat \ {0}
    PROVE  1 .. n # {} /\ Max(1 .. n) = n /\ (1 .. n) \ {n} = 1 .. (n - 1)
<1>1. n - 1 \in Nat /\ n \in 1 .. n
    OBVIOUS
<1>2. 1 .. n \subseteq 1 .. ((n - 1) + 1) /\ (n - 1) + 1 \in 1 .. n
    OBVIOUS
<1>3. Max(1 .. n) = (n - 1) + 1
    BY <1>1, <1>2, MaxFacts
<1>4. (1 .. n) \ {n} = 1 .. (n - 1)
    OBVIOUS
<1> QED
    BY <1>1, <1>3, <1>4

\* What FoldLeft chose, read from the left.
LEMMA IterSteps ==
    ASSUME NEW W, NEW N \in Nat, NEW base \in W, NEW F \in [W \X (1 .. N) -> W],
           NEW iter, Unfolds(iter, W, N, base, F)
    PROVE  \E f : IsRun(f, iter, W, N, base, F)
<1> USE DEF Unfolds
<1> DEFINE S == {n \in Nat : n <= N => iter[1 .. n] \in W}
           f == [n \in 0 .. N |-> iter[1 .. n]]
<1>1. 1 .. 0 = {}
    OBVIOUS
<1>2. 0 \in S
    BY <1>1
<1>3. ASSUME NEW n \in Nat, n \in S PROVE n + 1 \in S
    <2> SUFFICES ASSUME n + 1 <= N PROVE iter[1 .. (n + 1)] \in W
        OBVIOUS
    <2>1. n + 1 \in 1 .. N /\ (n + 1) - 1 = n /\ iter[1 .. n] \in W
        BY <1>3
    <2>2. iter[1 .. (n + 1)] = F[<<iter[1 .. n], n + 1>>]
        BY <2>1
    <2> QED
        BY <2>1, <2>2
<1>4. \A n \in Nat : n \in S
    <2> HIDE DEF S
    <2> QED
        BY <1>2, <1>3, SetInduction
<1>5. f \in [0 .. N -> W]
    BY <1>4
<1>6. ASSUME NEW n \in 1 .. N PROVE f[n] = F[<<f[n - 1], n>>]
    <2>1. n - 1 \in 0 .. N /\ n \in 0 .. N
        OBVIOUS
    <2>2. f[n] = iter[1 .. n] /\ f[n - 1] = iter[1 .. (n - 1)] /\ f[n - 1] \in W
        BY <1>5, <2>1
    <2> QED
        BY <2>2
<1>7. f[0] = base /\ f[N] = iter[1 .. N]
    BY <1>1
<1> HIDE DEF f
<1> QED
    BY <1>5, <1>6, <1>7 DEF IsRun

\* A function defined by recursion on the numbers up to N: base first, then the
\* function F of the value before and the number.
IsRec(g, W, N, base, F) ==
    /\ g \in [0 .. N -> W]
    /\ g[0] = base
    /\ \A n \in 1 .. N : g[n] = F[<<g[n - 1], n>>]

\* A loop that counts to N has such a function.
LEMMA RecExists ==
    ASSUME NEW W, NEW N \in Nat, NEW base \in W, NEW F \in [W \X (1 .. N) -> W]
    PROVE  \E g : IsRec(g, W, N, base, F)
<1> DEFINE Good(n, g) == g[0] = base /\ \A k \in 1 .. n : g[k] = F[<<g[k - 1], k>>]
           Has(n) == \E g \in [0 .. n -> W] : Good(n, g)
           S == {n \in Nat : n <= N => Has(n)}
<1>1. 0 \in S
    <2> DEFINE g == [k \in 0 .. 0 |-> base]
    <2>1. g \in [0 .. 0 -> W] /\ Good(0, g)
        OBVIOUS
    <2> QED
        BY <2>1
<1>2. ASSUME NEW n \in Nat, n \in S PROVE n + 1 \in S
    <2> HIDE DEF Has
    <2> SUFFICES ASSUME n + 1 <= N PROVE Has(n + 1)
        OBVIOUS
    <2>0. Has(n)
        BY <1>2
    <2> USE DEF Has
    <2>1. PICK g \in [0 .. n -> W] : Good(n, g)
        BY <2>0
    <2> DEFINE h == [k \in 0 .. n + 1 |-> IF k = n + 1 THEN F[<<g[n], n + 1>>] ELSE g[k]]
    <2>2. g[n] \in W /\ n + 1 \in 1 .. N /\ F[<<g[n], n + 1>>] \in W
        OBVIOUS
    <2>3. h \in [0 .. n + 1 -> W]
        BY <2>2
    <2>4. ASSUME NEW k \in 1 .. n + 1 PROVE h[k] = F[<<h[k - 1], k>>]
        <3>1. CASE k = n + 1
            <4>1. k - 1 = n /\ n \in 0 .. n + 1 /\ n # n + 1
                BY <3>1
            <4>2. h[n] = g[n] /\ h[k] = F[<<g[n], n + 1>>]
                BY <3>1, <4>1
            <4> QED
                BY <3>1, <4>1, <4>2
        <3>2. CASE k # n + 1
            <4>1. k \in 1 .. n /\ k - 1 \in 0 .. n
                BY <3>2
            <4>2. h[k] = g[k] /\ h[k - 1] = g[k - 1]
                BY <4>1
            <4> QED
                BY <2>1, <4>1, <4>2
        <3> QED
            BY <3>1, <3>2
    <2>5. h[0] = base
        BY <2>1
    <2> QED
        BY <2>3, <2>4, <2>5
<1>3. N \in S
    <2> HIDE DEF S
    <2> QED
        BY <1>1, <1>2, SetInduction
<1>4. Has(N)
    <2> HIDE DEF Has
    <2> QED
        BY <1>3
<1> QED
    BY <1>4 DEF IsRec

(***************************************************************************)
(* map_getItem and map_set                                                 *)
(***************************************************************************)
\* The first Item with a key: what the walk of map_getItem finds.
LEMMA ItemFound ==
    ASSUME NEW S, NEW m \in Seq(S), NEW k
    PROVE  /\ map_getItem(m, k) \in 0 .. Len(m)
           /\ map_getItem(m, k) = 0 <=> \A j \in 1 .. Len(m) : m[j].key # k
           /\ map_getItem(m, k) # 0 =>
                 /\ m[map_getItem(m, k)].key = k
                 /\ \A j \in 1 .. Len(m) : m[j].key = k => map_getItem(m, k) <= j
<1> DEFINE P == {i \in DOMAIN m : m[i].key = k}
<1>1. DOMAIN m = 1 .. Len(m) /\ P \subseteq Nat /\ 0 \notin P
    OBVIOUS
<1>2. CASE P = {}
    <2>1. map_getItem(m, k) = 0
        BY <1>2 DEF map_getItem
    <2> QED
        BY <1>1, <1>2, <2>1
<1>3. CASE P # {}
    <2>1. map_getItem(m, k) = CHOOSE i \in P : \A j \in P : i <= j
        BY <1>3 DEF map_getItem
    <2> HIDE DEF P
    <2>2. \E x \in P : \A y \in P : x <= y
        BY <1>1, <1>3, Least
    <2>3. map_getItem(m, k) \in P /\ \A j \in P : map_getItem(m, k) <= j
        BY <2>1, <2>2
    <2> USE DEF P
    <2> QED
        BY <1>1, <1>3, <2>3
<1> QED
    BY <1>2, <1>3

\* map_set keeps the types of keys and values.
LEMMA MapSetType ==
    ASSUME NEW K, NEW V, NEW m \in Seq([key : K, value : V]), NEW k \in K, NEW v \in V
    PROVE  map_set(m, k, v) \in Seq([key : K, value : V])
<1> DEFINE i == map_getItem(m, k)
<1>1. i \in 0 .. Len(m)
    BY ItemFound
<1>2. CASE i = 0
    <2>1. map_set(m, k, v) = <<Item(k, v)>> \o m
        BY <1>2 DEF map_set
    <2>2. Item(k, v) \in [key : K, value : V]
        BY DEF Item
    <2> QED
        BY <2>1, <2>2
<1>3. CASE i # 0
    <2>0. i \in 1 .. Len(m)
        <3> HIDE DEF i
        <3> QED
            BY <1>1, <1>3
    <2>1. map_set(m, k, v) = [m EXCEPT ![i].value = v]
        BY <1>3 DEF map_set
    <2> HIDE DEF i
    <2>2. m[i] \in [key : K, value : V]
        BY <2>0, ElementType
    <2>3. [m[i] EXCEPT !.value = v] \in [key : K, value : V]
        BY <2>2
    <2> QED
        BY <2>0, <2>1, <2>2, <2>3
<1> QED
    BY <1>2, <1>3

\* The first Item with a key is the one map_getItem finds.
LEMMA ItemIs ==
    ASSUME NEW S, NEW m \in Seq(S), NEW k,
           NEW i \in 1 .. Len(m), m[i].key = k,
           \A j \in 1 .. Len(m) : m[j].key = k => i <= j
    PROVE  map_getItem(m, k) = i
<1> DEFINE x == map_getItem(m, k)
<1>1. /\ x \in 0 .. Len(m) /\ (x = 0 <=> \A j \in 1 .. Len(m) : m[j].key # k)
      /\ x # 0 => m[x].key = k /\ \A j \in 1 .. Len(m) : m[j].key = k => x <= j
    BY ItemFound
<1> HIDE DEF x
<1>2. x # 0
    BY <1>1
<1>3. x \in 1 .. Len(m) /\ i <= x /\ x <= i
    BY <1>1, <1>2
<1>4. x = i
    BY <1>3
<1> QED
    BY <1>4 DEF x

\* The Maps with keys in K and values in V.
Maps(K, V) == Seq([key : K, value : V])

\* The Map n is m with v at k.
SetAt(n, m, k, v, none) ==
    /\ map_keys(n) = map_keys(m) \cup {k}
    /\ map_get(n, k, none) = v
    /\ \A x \in map_keys(m) : x # k => map_get(n, x, none) = map_get(m, x, none)

\* A Map is a function of its keys: map_set changes it at one key.
LEMMA MapSetGet ==
    ASSUME NEW K, NEW V, NEW m \in Maps(K, V), NEW k \in K, NEW v \in V, NEW none
    PROVE  SetAt(map_set(m, k, v), m, k, v, none)
<1> DEFINE I == [key : K, value : V]
           i == map_getItem(m, k)
           n == map_set(m, k, v)
<1>0. m \in Seq([key : K, value : V])
    BY DEF Maps
<1>1. /\ i \in 0 .. Len(m) /\ (i = 0 <=> \A j \in 1 .. Len(m) : m[j].key # k)
      /\ i # 0 => m[i].key = k /\ \A j \in 1 .. Len(m) : m[j].key = k => i <= j
    BY <1>0, ItemFound
<1>2. /\ i # 0 => n = [m EXCEPT ![i].value = v]
      /\ i = 0 => n = <<Item(k, v)>> \o m
    BY DEF map_set
<1>3. n \in Seq(I)
    BY <1>0, MapSetType
<1>4. Item(k, v) \in I /\ Item(k, v).key = k /\ Item(k, v).value = v
    BY DEF Item
<1> HIDE DEF i, n, I
<1>5. ASSUME NEW x \in map_keys(m)
      PROVE  /\ map_getItem(m, x) \in 1 .. Len(m) /\ m[map_getItem(m, x)].key = x
             /\ \A j \in 1 .. Len(m) : m[j].key = x => map_getItem(m, x) <= j
             /\ map_get(m, x, none) = m[map_getItem(m, x)].value
    <2>1. PICK y \in 1 .. Len(m) : m[y].key = x
        BY <1>0, <1>5 DEF map_keys
    <2>2. /\ map_getItem(m, x) \in 0 .. Len(m)
          /\ (map_getItem(m, x) = 0 <=> \A j \in 1 .. Len(m) : m[j].key # x)
          /\ map_getItem(m, x) # 0 =>
                /\ m[map_getItem(m, x)].key = x
                /\ \A j \in 1 .. Len(m) : m[j].key = x => map_getItem(m, x) <= j
        BY <1>0, ItemFound
    <2>3. map_getItem(m, x) # 0
        BY <2>1, <2>2
    <2>4. map_get(m, x, none) = m[map_getItem(m, x)].value
        BY <2>3 DEF map_get
    <2> QED
        BY <2>2, <2>3, <2>4
<1>6. CASE i # 0
    <2>1. i \in 1 .. Len(m)
        BY <1>1, <1>6
    <2>2. m[i] \in I
        BY <1>0, <2>1, ElementType DEF I
    <2>3. n = [m EXCEPT ![i] = [m[i] EXCEPT !.value = v]]
        BY <1>2, <1>6
    <2>4. [m[i] EXCEPT !.value = v].key = k /\ [m[i] EXCEPT !.value = v].value = v
        BY <1>1, <1>6, <2>2 DEF I
    <2>5. /\ Len(n) = Len(m) /\ n[i] = [m[i] EXCEPT !.value = v]
          /\ \A j \in 1 .. Len(m) : j # i => n[j] = m[j]
        BY <1>0, <2>1, <2>3
    <2>6. \A j \in 1 .. Len(m) : n[j].key = m[j].key
        BY <1>1, <1>6, <2>4, <2>5
    <2>7. DOMAIN n = 1 .. Len(m) /\ DOMAIN m = 1 .. Len(m)
        BY <1>0, <1>3, <2>5
    <2>8. map_keys(n) = map_keys(m) /\ k \in map_keys(m)
        BY <1>1, <1>6, <2>1, <2>6, <2>7 DEF map_keys
    <2>9. ASSUME NEW x \in map_keys(m) PROVE map_getItem(n, x) = map_getItem(m, x)
        <3> DEFINE y == map_getItem(m, x)
        <3>1. y \in 1 .. Len(n) /\ n[y].key = x
              /\ \A j \in 1 .. Len(n) : n[j].key = x => y <= j
            BY <1>5, <2>5, <2>6
        <3> HIDE DEF y
        <3> QED
            BY <1>3, <3>1, ItemIs DEF y
    <2>10. map_get(n, k, none) = v
        <3>1. map_getItem(n, k) = i
            BY <2>8, <2>9 DEF i
        <3> QED
            BY <1>6, <2>4, <2>5, <3>1 DEF map_get
    <2>11. ASSUME NEW x \in map_keys(m), x # k
           PROVE  map_get(n, x, none) = map_get(m, x, none)
        <3>1. map_getItem(n, x) = map_getItem(m, x)
            BY <2>9
        <3>2. map_getItem(m, x) \in 1 .. Len(m) /\ map_getItem(m, x) # i
            BY <1>1, <1>5, <1>6, <2>11
        <3>3. n[map_getItem(m, x)] = m[map_getItem(m, x)] /\ map_getItem(m, x) # 0
            BY <2>5, <3>2
        <3> QED
            BY <3>1, <3>3 DEF map_get
    <2> QED
        BY <2>8, <2>10, <2>11 DEF n, SetAt
<1>7. CASE i = 0
    <2>1. n = <<Item(k, v)>> \o m /\ \A j \in 1 .. Len(m) : m[j].key # k
        BY <1>1, <1>2, <1>7
    <2>2. /\ Len(n) = Len(m) + 1 /\ n[1] = Item(k, v)
          /\ \A j \in 1 .. Len(m) : n[j + 1] = m[j]
          /\ \A j \in 1 .. Len(n) : \/ j = 1
                                    \/ j - 1 \in 1 .. Len(m) /\ n[j] = m[j - 1]
        <3>1. m \in Seq(I)
            BY <1>0 DEF I
        <3> QED
            BY <1>4, <2>1, <3>1, InFront
    <2>3. DOMAIN n = 1 .. Len(n) /\ DOMAIN m = 1 .. Len(m) /\ Len(m) \in Nat
        BY <1>0, <1>3
    <2>4. map_keys(n) = map_keys(m) \cup {k}
        <3>1. \A j \in 1 .. Len(n) : n[j].key \in map_keys(m) \cup {k}
            BY <1>4, <2>2, <2>3 DEF map_keys
        <3>2. \A j \in 1 .. Len(m) : j + 1 \in 1 .. Len(n) /\ n[j + 1].key = m[j].key
            BY <2>2, <2>3
        <3>3. 1 \in 1 .. Len(n) /\ n[1].key = k
            BY <1>4, <2>2, <2>3
        <3>4. \A x \in map_keys(m) : \E j \in 1 .. Len(n) : n[j].key = x
            BY <2>3, <3>2 DEF map_keys
        <3>5. \A x \in map_keys(m) \cup {k} : x \in map_keys(n)
            BY <2>3, <3>3, <3>4 DEF map_keys
        <3>6. \A x \in map_keys(n) : x \in map_keys(m) \cup {k}
            BY <2>3, <3>1 DEF map_keys
        <3> QED
            BY <3>5, <3>6
    <2>5. map_get(n, k, none) = v
        <3>1. 1 \in 1 .. Len(n) /\ n[1].key = k /\ \A j \in 1 .. Len(n) : 1 <= j
            BY <1>4, <2>2, <2>3
        <3>2. map_getItem(n, k) = 1
            BY <1>3, <3>1, ItemIs
        <3> QED
            BY <1>4, <2>2, <3>2 DEF map_get
    <2>6. ASSUME NEW x \in map_keys(m), x # k
          PROVE  map_get(n, x, none) = map_get(m, x, none)
        <3> DEFINE y == map_getItem(m, x)
        <3>1. /\ y \in 1 .. Len(m) /\ m[y].key = x /\ map_get(m, x, none) = m[y].value
              /\ \A j \in 1 .. Len(m) : m[j].key = x => y <= j
            BY <1>5
        <3> HIDE DEF y
        <3>2. y + 1 \in 1 .. Len(n) /\ n[y + 1] = m[y] /\ y + 1 # 0
            BY <2>2, <2>3, <3>1
        <3>3. ASSUME NEW j \in 1 .. Len(n), n[j].key = x PROVE y + 1 <= j
            <4>1. j - 1 \in 1 .. Len(m) /\ m[j - 1].key = x
                BY <1>4, <2>2, <2>6, <3>3
            <4>2. y <= j - 1
                BY <3>1, <4>1
            <4> QED
                BY <2>3, <3>1, <4>2
        <3>4. map_getItem(n, x) = y + 1
            <4> DEFINE z == y + 1
            <4>1. z \in 1 .. Len(n) /\ n[z].key = x /\ \A j \in 1 .. Len(n) : n[j].key = x => z <= j
                BY <3>1, <3>2, <3>3
            <4> HIDE DEF z
            <4>2. map_getItem(n, x) = z
                BY <1>3, <4>1, ItemIs
            <4> QED
                BY <4>2 DEF z
        <3> QED
            BY <3>1, <3>2, <3>4 DEF map_get
    <2> QED
        BY <2>4, <2>5, <2>6 DEF n, SetAt
<1> QED
    BY <1>6, <1>7

(***************************************************************************)
(* The keys of a Map                                                       *)
(***************************************************************************)
\* Each key stands once in the walk.
Unique(m) == \A i, j \in 1 .. Len(m) : m[i].key = m[j].key => i = j

\* What map_get finds in a Map with unique keys.
LEMMA UniqueGet ==
    ASSUME NEW S, NEW m \in Seq(S), Unique(m), NEW none
    PROVE  /\ \A i \in 1 .. Len(m) : map_get(m, m[i].key, none) = m[i].value
           /\ \A x : x \notin map_keys(m) => map_get(m, x, none) = none
<1>1. ASSUME NEW i \in 1 .. Len(m) PROVE map_get(m, m[i].key, none) = m[i].value
    <2> DEFINE k == m[i].key
    <2>1. \A j \in 1 .. Len(m) : m[j].key = k => i <= j
        BY DEF Unique
    <2>2. m[i].key = k
        OBVIOUS
    <2> HIDE DEF k
    <2>3. map_getItem(m, k) = i /\ i # 0
        BY <2>1, <2>2, ItemIs
    <2>4. map_get(m, k, none) = m[i].value
        BY <2>3 DEF map_get
    <2> QED
        BY <2>4 DEF k
<1>2. ASSUME NEW x, x \notin map_keys(m) PROVE map_get(m, x, none) = none
    <2>1. \A j \in 1 .. Len(m) : m[j].key # x
        BY <1>2 DEF map_keys
    <2>2. map_getItem(m, x) = 0 <=> \A j \in 1 .. Len(m) : m[j].key # x
        BY ItemFound
    <2>3. map_getItem(m, x) = 0
        BY <2>1, <2>2
    <2> QED
        BY <2>3 DEF map_get
<1> QED
    BY <1>1, <1>2

\* A Map with every key once has as many Items as keys.
LEMMA UniqueCount ==
    ASSUME NEW S, NEW m \in Seq(S), Unique(m)
    PROVE  Len(m) = Cardinality(map_keys(m))
<1> DEFINE f == [i \in 1 .. Len(m) |-> m[i].key]
<1>1. IsFiniteSet(1 .. Len(m)) /\ Cardinality(1 .. Len(m)) = Len(m)
    <2> DEFINE N == Len(m)
    <2>1. N \in Nat
        OBVIOUS
    <2> HIDE DEF N
    <2>2. IsFiniteSet(1 .. N) /\ Cardinality(1 .. N) = IF 1 > N THEN 0 ELSE N - 1 + 1
        BY <2>1, FS_Interval
    <2>3. Cardinality(1 .. N) = N
        BY <2>1, <2>2
    <2> QED
        BY <2>2, <2>3 DEF N
<1>2. f \in Bijection(1 .. Len(m), map_keys(m))
    <2>1. f \in [1 .. Len(m) -> map_keys(m)]
        BY DEF map_keys
    <2>2. \A x \in map_keys(m) : \E i \in 1 .. Len(m) : f[i] = x
        BY DEF map_keys
    <2>3. \A i, j \in 1 .. Len(m) : f[i] = f[j] => i = j
        BY DEF Unique
    <2> HIDE DEF f
    <2> QED
        BY <2>1, <2>2, <2>3 DEF Bijection, Injection, Surjection, IsInjective
<1>3. Cardinality(map_keys(m)) = Cardinality(1 .. Len(m))
    BY <1>1, <1>2, FS_Bijection DEF ExistsBijection
<1> QED
    BY <1>1, <1>3

\* RemoveAt moves what stands behind the place by one.
LEMMA Removed ==
    ASSUME NEW S, NEW m \in Seq(S), NEW i \in 1 .. Len(m)
    PROVE  /\ RemoveAt(m, i) \in Seq(S) /\ Len(RemoveAt(m, i)) = Len(m) - 1
           /\ \A j \in 1 .. Len(m) - 1 :
                 RemoveAt(m, i)[j] = IF j < i THEN m[j] ELSE m[j + 1]
<1> DEFINE a == SubSeq(m, 1, i - 1)
           b == SubSeq(m, i + 1, Len(m))
<1>1. /\ a \in Seq(S) /\ Len(a) = i - 1 /\ \A j \in 1 .. i - 1 : a[j] = m[j]
    OBVIOUS
<1>2. /\ b \in Seq(S) /\ Len(b) = Len(m) - i /\ \A j \in 1 .. Len(m) - i : b[j] = m[i + j]
    OBVIOUS
<1>3. RemoveAt(m, i) = a \o b
    BY DEF RemoveAt
<1> HIDE DEF a, b
<1>4. a \o b \in Seq(S) /\ Len(a \o b) = Len(m) - 1
    <2>1. a \in Seq(S) /\ b \in Seq(S) /\ Len(a) = i - 1 /\ Len(b) = Len(m) - i
        BY <1>1, <1>2
    <2>2. a \o b \in Seq(S)
        BY <2>1
    <2>3. Len(a \o b) = Len(a) + Len(b)
        BY <2>1
    <2> QED
        BY <2>1, <2>2, <2>3
<1>5. ASSUME NEW j \in 1 .. Len(m) - 1 PROVE (a \o b)[j] = IF j < i THEN m[j] ELSE m[j + 1]
    <2>1. CASE j < i
        BY <1>1, <1>2, <2>1
    <2>2. CASE ~(j < i)
        <3>1. j - (i - 1) \in 1 .. Len(m) - i /\ i + (j - (i - 1)) = j + 1
            BY <2>2
        <3>2. (a \o b)[j] = b[j - (i - 1)]
            BY <1>1, <1>2, <2>2
        <3> QED
            BY <1>2, <2>2, <3>1, <3>2
    <2> QED
        BY <2>1, <2>2
<1> QED
    BY <1>3, <1>4, <1>5

\* The Maps m and n agree but for the key k.
Agree(m, n, k, none) == \A x : x # k => map_get(n, x, none) = map_get(m, x, none)

\* A Map m becomes n, where k has the value v (none: is not there).
Changes(m, n, k, v, none) ==
    Unique(n) /\ map_get(n, k, none) = v /\ Agree(m, n, k, none)

\* The Items of other keys are in both.
OthersStay(m, n, k) ==
    /\ \A i \in 1 .. Len(m) : m[i].key # k => \E j \in 1 .. Len(n) : n[j] = m[i]
    /\ \A j \in 1 .. Len(n) : n[j].key # k => \E i \in 1 .. Len(m) : m[i] = n[j]

\* One key changes if the other Items stay.
LEMMA OneKey ==
    ASSUME NEW S, NEW m \in Seq(S), NEW n \in Seq(S), Unique(m), Unique(n), NEW k, NEW none,
           OthersStay(m, n, k)
    PROVE  Agree(m, n, k, none)
<1> SUFFICES ASSUME NEW x, x # k PROVE map_get(n, x, none) = map_get(m, x, none)
    BY DEF Agree
<1>1. CASE x \in map_keys(m)
    <2>1. PICK i \in 1 .. Len(m) : m[i].key = x
        BY <1>1 DEF map_keys
    <2>2. PICK j \in 1 .. Len(n) : n[j] = m[i]
        BY <2>1 DEF OthersStay
    <2>3. map_get(m, m[i].key, none) = m[i].value
        BY UniqueGet
    <2>4. map_get(n, n[j].key, none) = n[j].value
        BY UniqueGet
    <2> QED
        BY <2>1, <2>2, <2>3, <2>4
<1>2. CASE x \notin map_keys(m)
    <2>1. \A i \in 1 .. Len(m) : m[i].key # x
        BY <1>2 DEF map_keys
    <2>2. \A j \in 1 .. Len(n) : n[j].key # x
        BY <2>1 DEF OthersStay
    <2>3. x \notin map_keys(n)
        BY <2>2 DEF map_keys
    <2>4. map_get(m, x, none) = none
        BY <1>2, UniqueGet
    <2>5. map_get(n, x, none) = none
        BY <2>3, UniqueGet
    <2> QED
        BY <2>4, <2>5
<1> QED
    BY <1>1, <1>2

\* map_set gives its key the value, and no other key another one.
LEMMA SetChanges ==
    ASSUME NEW K, NEW V, NEW m \in Maps(K, V), Unique(m), NEW k \in K, NEW v \in V, NEW none
    PROVE  Changes(m, map_set(m, k, v), k, v, none)
<1> DEFINE I == [key : K, value : V]
           i == map_getItem(m, k)
           n == map_set(m, k, v)
<1>0. m \in Seq([key : K, value : V])
    BY DEF Maps
<1>1. m \in Seq(I) /\ n \in Seq(I)
    BY <1>0, MapSetType
<1>2. /\ i \in 0 .. Len(m) /\ (i = 0 <=> \A j \in 1 .. Len(m) : m[j].key # k)
      /\ i # 0 => m[i].key = k
    BY <1>0, ItemFound
<1>3. /\ i # 0 => n = [m EXCEPT ![i].value = v]
      /\ i = 0 => n = <<Item(k, v)>> \o m
    BY DEF map_set
<1>4. Item(k, v) \in I /\ Item(k, v).key = k /\ Item(k, v).value = v
    BY DEF Item
<1>5. map_get(n, k, none) = v
    BY MapSetGet DEF SetAt
<1> HIDE DEF i, n, I
<1>6. CASE i # 0
    <2>1. i \in 1 .. Len(m) /\ m[i] \in I
        <3>1. i \in 1 .. Len(m)
            BY <1>2, <1>6
        <3> QED
            BY <1>1, <3>1, ElementType
    <2>2. n = [m EXCEPT ![i] = [m[i] EXCEPT !.value = v]]
        BY <1>3, <1>6
    <2>3. /\ Len(n) = Len(m) /\ n[i] = [m[i] EXCEPT !.value = v]
          /\ \A j \in 1 .. Len(m) : j # i => n[j] = m[j]
        BY <1>1, <2>1, <2>2
    <2>4. n[i].key = k /\ m[i].key = k
        BY <1>2, <1>6, <2>1, <2>3 DEF I
    <2>5. \A j \in 1 .. Len(m) : n[j].key = m[j].key
        BY <2>3, <2>4
    <2>6. Unique(n)
        BY <2>3, <2>5 DEF Unique
    <2>7. OthersStay(m, n, k)
        BY <2>3, <2>4 DEF OthersStay
    <2>8. Agree(m, n, k, none)
        BY <1>1, <2>6, <2>7, OneKey
    <2> QED
        BY <1>5, <2>6, <2>8 DEF Changes, n
<1>7. CASE i = 0
    <2>1. n = <<Item(k, v)>> \o m /\ \A j \in 1 .. Len(m) : m[j].key # k
        BY <1>2, <1>3, <1>7
    <2>2. /\ Len(n) = Len(m) + 1 /\ n[1] = Item(k, v) /\ Len(m) \in Nat
          /\ \A j \in 1 .. Len(m) : n[j + 1] = m[j]
          /\ \A j \in 1 .. Len(n) : \/ j = 1
                                    \/ j - 1 \in 1 .. Len(m) /\ n[j] = m[j - 1]
        BY <1>1, <1>4, <2>1, InFront
    <2>3. Unique(n)
        <3> SUFFICES ASSUME NEW a \in 1 .. Len(n), NEW b \in 1 .. Len(n), n[a].key = n[b].key
                     PROVE  a = b
            BY DEF Unique
        <3>1. CASE a = 1 /\ b = 1
            BY <3>1
        <3>2. CASE a # 1 /\ b = 1
            BY <1>4, <2>1, <2>2, <3>2
        <3>3. CASE a = 1 /\ b # 1
            BY <1>4, <2>1, <2>2, <3>3
        <3>4. CASE a # 1 /\ b # 1
            <4>1. a - 1 \in 1 .. Len(m) /\ b - 1 \in 1 .. Len(m)
                  /\ m[a - 1].key = m[b - 1].key
                BY <2>2, <3>4
            <4>2. a - 1 = b - 1
                BY <4>1 DEF Unique
            <4> QED
                BY <4>2
        <3> QED
            BY <3>1, <3>2, <3>3, <3>4
    <2>4. \A j \in 1 .. Len(m) : \E l \in 1 .. Len(n) : n[l] = m[j]
        <3>1. \A j \in 1 .. Len(m) : j + 1 \in 1 .. Len(n) /\ n[j + 1] = m[j]
            BY <2>2
        <3> QED
            BY <3>1
    <2>5. \A j \in 1 .. Len(n) : n[j].key # k => \E l \in 1 .. Len(m) : m[l] = n[j]
        <3>1. \A j \in 1 .. Len(n) : n[j].key # k => j - 1 \in 1 .. Len(m) /\ n[j] = m[j - 1]
            BY <1>4, <2>2
        <3> QED
            BY <3>1
    <2>6. Agree(m, n, k, none)
        <3>1. OthersStay(m, n, k)
            BY <2>4, <2>5 DEF OthersStay
        <3> QED
            BY <1>1, <2>3, <3>1, OneKey
    <2> QED
        BY <1>5, <2>3, <2>6 DEF Changes, n
<1> QED
    BY <1>6, <1>7

\* map_del takes its key away, and changes no other key.
LEMMA DelChanges ==
    ASSUME NEW K, NEW V, NEW m \in Maps(K, V), Unique(m), NEW k, NEW none
    PROVE  map_del(m, k) \in Maps(K, V) /\ Changes(m, map_del(m, k), k, none, none)
<1> DEFINE I == [key : K, value : V]
           i == map_getItem(m, k)
           n == map_del(m, k)
<1>1. m \in Seq(I) /\ Maps(K, V) = Seq(I)
    BY DEF Maps
<1> HIDE DEF I
<1>2. /\ i \in 0 .. Len(m) /\ (i = 0 <=> \A j \in 1 .. Len(m) : m[j].key # k)
      /\ i # 0 => m[i].key = k
    BY <1>1, ItemFound
<1>3. n = IF i = 0 THEN m ELSE RemoveAt(m, i)
    BY DEF map_del
<1> HIDE DEF i, n
<1>4. CASE i = 0
    <2>1. n = m /\ \A j \in 1 .. Len(m) : m[j].key # k
        BY <1>2, <1>3, <1>4
    <2>2. k \notin map_keys(m)
        BY <1>1, <2>1 DEF map_keys
    <2>3. map_get(m, k, none) = none
        BY <1>1, <2>2, UniqueGet
    <2>4. Unique(n) /\ map_get(n, k, none) = none
        BY <2>1, <2>3
    <2>5. Agree(m, n, k, none)
        BY <2>1 DEF Agree
    <2> QED
        BY <2>1, <2>4, <2>5 DEF Changes, n
<1>5. CASE i # 0
    <2>1. i \in 1 .. Len(m) /\ n = RemoveAt(m, i) /\ m[i].key = k
        BY <1>2, <1>3, <1>5
    <2>2. /\ n \in Seq(I) /\ Len(n) = Len(m) - 1 /\ Len(m) \in Nat
          /\ \A j \in 1 .. Len(m) - 1 : n[j] = IF j < i THEN m[j] ELSE m[j + 1]
        <3>1. /\ RemoveAt(m, i) \in Seq(I) /\ Len(RemoveAt(m, i)) = Len(m) - 1
              /\ \A j \in 1 .. Len(m) - 1 :
                    RemoveAt(m, i)[j] = IF j < i THEN m[j] ELSE m[j + 1]
            BY <1>1, <2>1, Removed
        <3>2. Len(m) \in Nat
            BY <1>1
        <3> QED
            BY <2>1, <3>1, <3>2
    <2> DEFINE at(j) == IF j < i THEN j ELSE j + 1
    <2>3. \A j \in 1 .. Len(n) : at(j) \in 1 .. Len(m) /\ at(j) # i /\ n[j] = m[at(j)]
        BY <2>1, <2>2
    <2>4. \A a, b \in 1 .. Len(n) : at(a) = at(b) => a = b
        BY <2>1, <2>2
    <2>5. \A j \in 1 .. Len(m) : j # i => \E l \in 1 .. Len(n) : n[l] = m[j]
        <3> SUFFICES ASSUME NEW j \in 1 .. Len(m), j # i
                     PROVE  \E l \in 1 .. Len(n) : n[l] = m[j]
            OBVIOUS
        <3>1. CASE j < i
            <4>1. j \in 1 .. Len(n) /\ n[j] = m[j]
                BY <2>1, <2>2, <3>1
            <4> QED
                BY <4>1
        <3>2. CASE ~(j < i)
            <4>1. j - 1 \in 1 .. Len(m) - 1 /\ ~(j - 1 < i) /\ (j - 1) + 1 = j
                BY <2>1, <2>2, <3>2
            <4>2. n[j - 1] = m[j]
                BY <2>2, <4>1
            <4> QED
                BY <2>2, <4>1, <4>2
        <3> QED
            BY <3>1, <3>2
    <2> HIDE DEF at
    <2>6. Unique(n)
        BY <2>3, <2>4 DEF Unique
    <2>7. \A j \in 1 .. Len(n) : n[j].key # k
        BY <2>1, <2>3 DEF Unique
    <2>8. map_get(n, k, none) = none
        <3>1. k \notin map_keys(n)
            BY <2>2, <2>7 DEF map_keys
        <3> QED
            BY <2>2, <2>6, <3>1, UniqueGet
    <2>9. OthersStay(m, n, k)
        BY <2>1, <2>3, <2>5 DEF OthersStay
    <2>10. Agree(m, n, k, none)
        BY <1>1, <2>2, <2>6, <2>9, OneKey
    <2> QED
        BY <1>1, <2>2, <2>6, <2>8, <2>10 DEF Changes, n
<1> QED
    BY <1>4, <1>5

(***************************************************************************)
(* A Map after any sequence of calls                                       *)
(***************************************************************************)
\* The calls: map_set of a key and a value, map_del of a key.
Calls(K, V) == {"set", "del"} \X K \X V

\* A call keeps the types of keys and values.
LEMMA MapOpType ==
    ASSUME NEW K, NEW V, NEW m \in Maps(K, V), NEW o \in Calls(K, V)
    PROVE  MapOp(m, o) \in Maps(K, V)
<1>1. o[2] \in K /\ o[3] \in V
    BY DEF Calls
<1>2. map_set(m, o[2], o[3]) \in Maps(K, V)
    BY <1>1, MapSetType DEF Maps
<1>3. map_del(m, o[2]) \in Maps(K, V)
    <2> DEFINE I == [key : K, value : V]
               i == map_getItem(m, o[2])
    <2>1. m \in Seq(I) /\ i \in 0 .. Len(m)
        BY ItemFound DEF Maps
    <2>2. map_del(m, o[2]) = IF i = 0 THEN m ELSE RemoveAt(m, i)
        BY DEF map_del
    <2> HIDE DEF I, i
    <2>3. i # 0 => RemoveAt(m, i) \in Seq(I)
        <3>1. i # 0 => i \in 1 .. Len(m)
            BY <2>1
        <3> QED
            BY <2>1, <3>1, Removed
    <2>4. map_del(m, o[2]) \in Seq(I)
        BY <2>1, <2>2, <2>3
    <2> QED
        BY <2>4 DEF I, Maps
<1> QED
    BY <1>2, <1>3 DEF MapOp

\* The Map after each of the calls.
LEMMA MapSteps ==
    ASSUME NEW K, NEW V, NEW ops \in Seq(Calls(K, V))
    PROVE  \E f \in [0 .. Len(ops) -> Maps(K, V)] :
              /\ f[0] = map_init
              /\ \A n \in 1 .. Len(ops) : f[n] = MapOp(f[n - 1], ops[n])
              /\ MapAfter(ops) = f[Len(ops)]
<1> DEFINE N == Len(ops)
           op(t, a) == MapOp(t, a)
           F == [w \in Maps(K, V) \X (1 .. N) |-> op(w[1], ops[w[2]])]
           iter == CHOOSE g : g = [I \in SUBSET DOMAIN ops |->
                       IF I = {} THEN map_init ELSE op(g[I \ {Max(I)}], ops[Max(I)])]
<1>1. \A t \in Maps(K, V), n \in 1 .. N : op(t, ops[n]) \in Maps(K, V)
    BY MapOpType, ElementType
<1>2. MapAfter(ops) = iter[DOMAIN ops]
    BY DEF MapAfter, FoldLeft, MapThenFoldSet
<1>3. map_init \in Maps(K, V) /\ N \in Nat /\ DOMAIN ops = 1 .. N
    BY DEF Maps, map_init
<1> HIDE DEF op, N
<1>4. /\ F \in [Maps(K, V) \X (1 .. N) -> Maps(K, V)]
      /\ \A t \in Maps(K, V), n \in 1 .. N : F[<<t, n>>] = op(t, ops[n])
    BY <1>1
<1> HIDE DEF F
<1>5. PICK g : IsIter(g, Maps(K, V), N, map_init, F)
    BY <1>3, <1>4, IterExists
<1>6. ASSUME NEW I \in SUBSET (1 .. N), I # {}
      PROVE  g[I] = op(g[I \ {Max(I)}], ops[Max(I)])
    <2>1. Max(I) \in 1 .. N
        BY <1>3, <1>6, MaxIn
    <2>2. g[I] = F[<<g[I \ {Max(I)}], Max(I)>>] /\ g[I \ {Max(I)}] \in Maps(K, V)
        BY <1>5, <1>6 DEF IsIter
    <2> QED
        BY <1>4, <2>1, <2>2
<1>7. g = [I \in SUBSET DOMAIN ops |->
                       IF I = {} THEN map_init ELSE op(g[I \ {Max(I)}], ops[Max(I)])]
    BY <1>3, <1>5, <1>6 DEF IsIter
<1>8. iter = [I \in SUBSET DOMAIN ops |->
                       IF I = {} THEN map_init ELSE op(iter[I \ {Max(I)}], ops[Max(I)])]
    BY <1>7
<1> HIDE DEF iter
<1>9. ASSUME NEW n \in 1 .. N PROVE iter[1 .. n] = op(iter[1 .. (n - 1)], ops[n])
    <2>1. 1 .. n \in SUBSET DOMAIN ops /\ n \in Nat \ {0}
        BY <1>3
    <2>2. 1 .. n # {} /\ Max(1 .. n) = n /\ (1 .. n) \ {n} = 1 .. (n - 1)
        BY <2>1, UpTo
    <2> QED
        BY <1>8, <2>1, <2>2
<1>10. PICK f : IsRun(f, iter, Maps(K, V), N, map_init, F)
    <2>1. iter[{}] = map_init
        BY <1>3, <1>8
    <2>2. Unfolds(iter, Maps(K, V), N, map_init, F)
        BY <1>4, <1>9, <2>1 DEF Unfolds
    <2> QED
        BY <1>3, <1>4, <2>2, IterSteps
<1>11. ASSUME NEW n \in 1 .. N PROVE f[n] = op(f[n - 1], ops[n])
    <2>1. f[n] = F[<<f[n - 1], n>>] /\ f[n - 1] \in Maps(K, V)
        BY <1>3, <1>10 DEF IsRun
    <2> QED
        BY <1>4, <2>1
<1> QED
    BY <1>2, <1>3, <1>10, <1>11 DEF op, N, IsRun

\* What a call leaves at its own key.
Leaves(o) == IF o[1] = "del" THEN "none" ELSE o[3]

\* The call i is the last of the first n on the key k.
IsLast(ops, n, k, i) ==
    i \in 1 .. n /\ ops[i][2] = k /\ \A j \in 1 .. n : ops[j][2] = k => j <= i

\* The Map m is what the first n calls say.
Tells(m, ops, n) ==
    /\ Unique(m)
    /\ \A k : (\A i \in 1 .. n : ops[i][2] # k) => map_get(m, k, "none") = "none"
    /\ \A k : \A i : IsLast(ops, n, k, i) => map_get(m, k, "none") = Leaves(ops[i])

\* One more call.
LEMMA OneMore ==
    ASSUME NEW K, NEW V, NEW ops \in Seq(Calls(K, V)), NEW n \in 1 .. Len(ops),
           NEW m \in Maps(K, V), Tells(m, ops, n - 1)
    PROVE  Tells(MapOp(m, ops[n]), ops, n)
<1> DEFINE o == ops[n]
           q == MapOp(m, o)
<1>1. o \in Calls(K, V)
    BY ElementType
<1> HIDE DEF o
<1>2. o[2] \in K /\ o[3] \in V /\ (o[1] = "set" \/ o[1] = "del")
    BY <1>1 DEF Calls
<1>3. Unique(m)
    BY DEF Tells
<1>4. Changes(m, q, o[2], Leaves(o), "none")
    <2>1. CASE o[1] = "set"
        <3>1. q = map_set(m, o[2], o[3]) /\ Leaves(o) = o[3]
            BY <2>1 DEF MapOp, Leaves
        <3>2. Changes(m, map_set(m, o[2], o[3]), o[2], o[3], "none")
            BY <1>2, <1>3, SetChanges
        <3> QED
            BY <3>1, <3>2
    <2>2. CASE o[1] = "del"
        <3>1. q = map_del(m, o[2]) /\ Leaves(o) = "none"
            BY <2>2 DEF MapOp, Leaves
        <3>2. Changes(m, map_del(m, o[2]), o[2], "none", "none")
            BY <1>3, DelChanges
        <3> QED
            BY <3>1, <3>2
    <2> QED
        BY <1>2, <2>1, <2>2
<1> HIDE DEF q
<1>5. Unique(q) /\ map_get(q, o[2], "none") = Leaves(o)
    BY <1>4 DEF Changes
<1>6. \A x : x # o[2] => map_get(q, x, "none") = map_get(m, x, "none")
    BY <1>4 DEF Changes, Agree
<1>7. /\ n \in 1 .. n /\ \A i \in 1 .. n - 1 : i \in 1 .. n
      /\ \A i \in 1 .. n : i = n \/ i \in 1 .. n - 1
    OBVIOUS
<1>8. ASSUME NEW k, \A i \in 1 .. n : ops[i][2] # k
      PROVE  map_get(q, k, "none") = "none"
    <2>1. k # o[2] /\ \A i \in 1 .. n - 1 : ops[i][2] # k
        BY <1>7, <1>8 DEF o
    <2>2. map_get(m, k, "none") = "none"
        BY <2>1 DEF Tells
    <2> QED
        BY <1>6, <2>1, <2>2
<1>9. ASSUME NEW k, NEW i, IsLast(ops, n, k, i)
      PROVE  map_get(q, k, "none") = Leaves(ops[i])
    <2>1. i \in 1 .. n /\ ops[i][2] = k /\ \A j \in 1 .. n : ops[j][2] = k => j <= i
        BY <1>9 DEF IsLast
    <2>2. CASE i = n
        <3>1. k = o[2] /\ ops[i] = o
            BY <2>1, <2>2 DEF o
        <3> QED
            BY <1>5, <3>1
    <2>3. CASE i # n
        <3>1. i \in 1 .. n - 1
            BY <1>7, <2>1, <2>3
        <3>2. k # o[2]
            <4>1. ~(n <= i)
                BY <3>1
            <4>2. ops[n][2] # k
                BY <1>7, <2>1, <4>1
            <4> QED
                BY <4>2 DEF o
        <3>3. IsLast(ops, n - 1, k, i)
            BY <1>7, <2>1, <3>1 DEF IsLast
        <3>4. map_get(m, k, "none") = Leaves(ops[i])
            BY <3>3 DEF Tells
        <3> QED
            BY <1>6, <3>2, <3>4
    <2> QED
        BY <2>2, <2>3
<1>10. Tells(q, ops, n)
    BY <1>5, <1>8, <1>9 DEF Tells
<1> QED
    BY <1>10 DEF q, o

\* The last call on a key, if there is one.
LEMMA LastFound ==
    ASSUME NEW S, NEW ops \in Seq(S), NEW k
    PROVE  \/ LastOn(ops, k) = 0 /\ \A i \in 1 .. Len(ops) : ops[i][2] # k
           \/ LastOn(ops, k) # 0 /\ IsLast(ops, Len(ops), k, LastOn(ops, k))
<1> DEFINE P == {i \in DOMAIN ops : ops[i][2] = k}
           N == Len(ops)
           T == {N - i : i \in P}
<1>1. N \in Nat /\ DOMAIN ops = 1 .. N
    OBVIOUS
<1>2. CASE P = {}
    <2>1. LastOn(ops, k) = 0
        BY <1>2 DEF LastOn
    <2> QED
        BY <1>1, <1>2, <2>1
<1>3. CASE P # {}
    <2> HIDE DEF N
    <2>1. \A i \in P : i \in 1 .. N /\ N - i \in Nat
        BY <1>1
    <2>2. LastOn(ops, k) = CHOOSE i \in P : \A j \in P : j <= i
        BY <1>3 DEF LastOn
    <2>3. \A j \in 1 .. N : ops[j][2] = k <=> j \in P
        BY <1>1
    <2> HIDE DEF P
    <2>4. T \subseteq Nat /\ T # {}
        BY <1>3, <2>1
    <2>5. PICK y \in T : \A z \in T : y <= z
        <3> HIDE DEF T
        <3> QED
            BY <2>4, Least
    <2>6. PICK i \in P : y = N - i
        OBVIOUS
    <2>7. ASSUME NEW j \in P PROVE j <= i
        <3>1. N - i <= N - j
            BY <2>5, <2>6
        <3> QED
            BY <1>1, <2>1, <3>1
    <2>8. LastOn(ops, k) \in P /\ \A j \in P : j <= LastOn(ops, k)
        BY <2>2, <2>7
    <2>9. LastOn(ops, k) \in 1 .. N /\ LastOn(ops, k) # 0
        BY <2>1, <2>8
    <2> QED
        BY <2>3, <2>8, <2>9 DEF IsLast, N
<1> QED
    BY <1>2, <1>3

\* After any sequence of map_set and map_del on any keys and values a key is
\* found with the value it was last set to, a deleted one is not found, and the
\* walk of map_forEach visits each key once: the Maps of utils.c that hold the
\* listening sockets, the waiting sockets and the mDNS store are functions.
THEOREM MapCorrect ==
    ASSUME NEW K, NEW V, NEW ops \in Seq(Calls(K, V)), NEW Keys
    PROVE  MapIsFunction(ops, Keys)
<1> DEFINE N == Len(ops)
           W == Maps(K, V)
<1>1. N \in Nat
    OBVIOUS
<1>2. PICK f \in [0 .. N -> W] :
         /\ f[0] = map_init
         /\ \A n \in 1 .. N : f[n] = MapOp(f[n - 1], ops[n])
         /\ MapAfter(ops) = f[N]
    BY MapSteps
<1> HIDE DEF W
<1> DEFINE S == {n \in Nat : n <= N => Tells(f[n], ops, n)}
<1>3. 0 \in S
    <2>1. map_init \in Seq({}) /\ Len(map_init) = 0 /\ map_keys(map_init) = {}
        BY DEF map_init, map_keys
    <2>2. Unique(map_init)
        BY <2>1 DEF Unique
    <2>3. \A k : map_get(map_init, k, "none") = "none"
        BY <2>1, <2>2, UniqueGet
    <2>4. \A k, i : ~ IsLast(ops, 0, k, i)
        BY DEF IsLast
    <2>5. Tells(map_init, ops, 0)
        BY <2>2, <2>3, <2>4 DEF Tells
    <2> QED
        BY <1>2, <2>5
<1>4. ASSUME NEW n \in Nat, n \in S PROVE n + 1 \in S
    <2> SUFFICES ASSUME n + 1 <= N PROVE Tells(f[n + 1], ops, n + 1)
        OBVIOUS
    <2>1. n + 1 \in 1 .. N /\ (n + 1) - 1 = n /\ n \in 0 .. N
        BY <1>1
    <2>2. Tells(f[n], ops, (n + 1) - 1)
        BY <1>1, <1>4, <2>1
    <2>3. f[n] \in Maps(K, V)
        BY <1>2, <2>1 DEF W
    <2>4. Tells(MapOp(f[n], ops[n + 1]), ops, n + 1)
        BY <2>1, <2>2, <2>3, OneMore
    <2>5. f[n + 1] = MapOp(f[n], ops[n + 1])
        BY <1>2, <2>1
    <2> QED
        BY <2>4, <2>5
<1>5. Tells(f[N], ops, N)
    <2>1. N \in S
        <3> HIDE DEF S
        <3> QED
            BY <1>1, <1>3, <1>4, SetInduction
    <2> QED
        BY <1>1, <2>1
<1> DEFINE m == MapAfter(ops)
<1>6. m \in Seq([key : K, value : V]) /\ Tells(m, ops, N)
    BY <1>1, <1>2, <1>5 DEF Maps, W
<1> HIDE DEF m
<1>7. Len(m) = Cardinality(map_keys(m))
    BY <1>6, UniqueCount DEF Tells
<1>8. ASSUME NEW k
      PROVE  map_get(m, k, "none")
               = IF LastOn(ops, k) = 0 \/ ops[LastOn(ops, k)][1] = "del"
                 THEN "none" ELSE ops[LastOn(ops, k)][3]
    <2>1. CASE LastOn(ops, k) = 0 /\ \A i \in 1 .. N : ops[i][2] # k
        BY <1>6, <2>1 DEF Tells
    <2>2. CASE LastOn(ops, k) # 0 /\ IsLast(ops, N, k, LastOn(ops, k))
        <3>1. map_get(m, k, "none") = Leaves(ops[LastOn(ops, k)])
            BY <1>6, <2>2 DEF Tells
        <3> QED
            BY <2>2, <3>1 DEF Leaves
    <2> QED
        BY <2>1, <2>2, LastFound
<1> QED
    BY <1>7, <1>8 DEF MapIsFunction, m

(***************************************************************************)
(* The watch list after any sequence of calls                              *)
(***************************************************************************)
\* The calls: list_add and list_remove of an element.
ListCalls(D) == {"add", "remove"} \X D

\* What list_remove takes out, if it is there in front of the last node.
LEMMA RemoveFrom ==
    ASSUME NEW D, NEW l \in Seq(D), NEW x
    PROVE  \/ list_remove(l, x) = l /\ \A i \in 1 .. Len(l) - 1 : l[i] # x
           \/ \E i \in 1 .. Len(l) - 1 : l[i] = x /\ list_remove(l, x) = RemoveAt(l, i)
<1> DEFINE P == {i \in 1 .. Len(l) - 1 : l[i] = x}
<1>1. CASE P = {}
    BY <1>1 DEF list_remove
<1>2. CASE P # {}
    <2>1. list_remove(l, x) = RemoveAt(l, CHOOSE i \in P : \A j \in P : i <= j)
        BY <1>2 DEF list_remove
    <2>2. P \subseteq Nat
        OBVIOUS
    <2> HIDE DEF P
    <2>3. \E i \in P : \A j \in P : i <= j
        BY <1>2, <2>2, Least
    <2>4. PICK i \in P : list_remove(l, x) = RemoveAt(l, i)
        BY <2>1, <2>3
    <2> USE DEF P
    <2> QED
        BY <2>4
<1> QED
    BY <1>1, <1>2

\* A call on the list keeps the type of its elements.
LEMMA ListOpType ==
    ASSUME NEW D, NEW l \in Seq(D), NEW o \in ListCalls(D)
    PROVE  ListOp(l, o) \in Seq(D)
<1>1. o[2] \in D /\ Len(l) \in Nat
    BY DEF ListCalls
<1>2. list_add(l, o[2]) \in Seq(D)
    BY <1>1, InFront DEF list_add
<1>3. list_remove(l, o[2]) \in Seq(D)
    <2>1. \A i \in 1 .. Len(l) - 1 : RemoveAt(l, i) \in Seq(D)
        <3> TAKE i \in 1 .. Len(l) - 1
        <3>1. i \in 1 .. Len(l)
            BY <1>1
        <3> QED
            BY <3>1, Removed
    <2> QED
        BY <2>1, RemoveFrom
<1> QED
    BY <1>2, <1>3 DEF ListOp

\* What the list may hold.
Sets(D) == SUBSET D

\* The reference does too.
LEMMA SetOpType ==
    ASSUME NEW D, NEW S \in Sets(D), NEW o \in ListCalls(D), NEW bottom
    PROVE  SetOp(S, o, bottom) \in Sets(D)
<1>1. o[2] \in D
    BY DEF ListCalls
<1> QED
    BY <1>1 DEF SetOp, Sets

\* The List after each of the calls.
LEMMA ListSteps ==
    ASSUME NEW D, NEW ops \in Seq(ListCalls(D))
    PROVE  \E f \in [0 .. Len(ops) -> Seq(D)] :
              /\ f[0] = list_init
              /\ \A n \in 1 .. Len(ops) : f[n] = ListOp(f[n - 1], ops[n])
              /\ ListAfter(ops) = f[Len(ops)]
<1> DEFINE N == Len(ops)
           op(t, a) == ListOp(t, a)
           F == [w \in Seq(D) \X (1 .. N) |-> op(w[1], ops[w[2]])]
           iter == CHOOSE g : g = [I \in SUBSET DOMAIN ops |->
                       IF I = {} THEN list_init ELSE op(g[I \ {Max(I)}], ops[Max(I)])]
<1>1. \A t \in Seq(D), n \in 1 .. N : op(t, ops[n]) \in Seq(D)
    BY ListOpType, ElementType
<1>2. ListAfter(ops) = iter[DOMAIN ops]
    BY DEF ListAfter, FoldLeft, MapThenFoldSet
<1>3. list_init \in Seq(D) /\ N \in Nat /\ DOMAIN ops = 1 .. N
    BY DEF list_init
<1> HIDE DEF op, N
<1>4. /\ F \in [Seq(D) \X (1 .. N) -> Seq(D)]
      /\ \A t \in Seq(D), n \in 1 .. N : F[<<t, n>>] = op(t, ops[n])
    BY <1>1
<1> HIDE DEF F
<1>5. PICK g : IsIter(g, Seq(D), N, list_init, F)
    BY <1>3, <1>4, IterExists
<1>6. ASSUME NEW I \in SUBSET (1 .. N), I # {}
      PROVE  g[I] = op(g[I \ {Max(I)}], ops[Max(I)])
    <2>1. Max(I) \in 1 .. N
        BY <1>3, <1>6, MaxIn
    <2>2. g[I] = F[<<g[I \ {Max(I)}], Max(I)>>] /\ g[I \ {Max(I)}] \in Seq(D)
        BY <1>5, <1>6 DEF IsIter
    <2> QED
        BY <1>4, <2>1, <2>2
<1>7. g = [I \in SUBSET DOMAIN ops |->
                       IF I = {} THEN list_init ELSE op(g[I \ {Max(I)}], ops[Max(I)])]
    BY <1>3, <1>5, <1>6 DEF IsIter
<1>8. iter = [I \in SUBSET DOMAIN ops |->
                       IF I = {} THEN list_init ELSE op(iter[I \ {Max(I)}], ops[Max(I)])]
    BY <1>7
<1> HIDE DEF iter
<1>9. ASSUME NEW n \in 1 .. N PROVE iter[1 .. n] = op(iter[1 .. (n - 1)], ops[n])
    <2>1. 1 .. n \in SUBSET DOMAIN ops /\ n \in Nat \ {0}
        BY <1>3
    <2>2. 1 .. n # {} /\ Max(1 .. n) = n /\ (1 .. n) \ {n} = 1 .. (n - 1)
        BY <2>1, UpTo
    <2> QED
        BY <1>8, <2>1, <2>2
<1>10. PICK f : IsRun(f, iter, Seq(D), N, list_init, F)
    <2>1. iter[{}] = list_init
        BY <1>3, <1>8
    <2>2. Unfolds(iter, Seq(D), N, list_init, F)
        BY <1>4, <1>9, <2>1 DEF Unfolds
    <2> QED
        BY <1>3, <1>4, <2>2, IterSteps
<1>11. ASSUME NEW n \in 1 .. N PROVE f[n] = op(f[n - 1], ops[n])
    <2>1. f[n] = F[<<f[n - 1], n>>] /\ f[n - 1] \in Seq(D)
        BY <1>3, <1>10 DEF IsRun
    <2> QED
        BY <1>4, <2>1
<1> QED
    BY <1>2, <1>3, <1>10, <1>11 DEF op, N, IsRun

\* The set after each of the calls.
SetRun(f, D, ops, bottom) ==
    /\ f \in [0 .. Len(ops) -> Sets(D)] /\ f[0] = {}
    /\ \A n \in 1 .. Len(ops) : f[n] = SetOp(f[n - 1], ops[n], bottom)
    /\ SetAfter(ops, bottom) = f[Len(ops)]

\* The reference goes through such sets.
LEMMA SetSteps ==
    ASSUME NEW D, NEW ops \in Seq(ListCalls(D)), NEW bottom \in D
    PROVE  \E f : SetRun(f, D, ops, bottom)
<1> DEFINE N == Len(ops)
           op(t, a) == SetOp(t, a, bottom)
           F == [w \in Sets(D) \X (1 .. N) |-> op(w[1], ops[w[2]])]
           iter == CHOOSE g : g = [I \in SUBSET DOMAIN ops |->
                       IF I = {} THEN {} ELSE op(g[I \ {Max(I)}], ops[Max(I)])]
<1>1. \A t \in Sets(D), n \in 1 .. N : op(t, ops[n]) \in Sets(D)
    BY SetOpType, ElementType
<1>2. SetAfter(ops, bottom) = iter[DOMAIN ops]
    BY DEF SetAfter, FoldLeft, MapThenFoldSet
<1>3. {} \in Sets(D) /\ N \in Nat /\ DOMAIN ops = 1 .. N
    BY DEF Sets
<1> HIDE DEF op, N
<1>4. /\ F \in [Sets(D) \X (1 .. N) -> Sets(D)]
      /\ \A t \in Sets(D), n \in 1 .. N : F[<<t, n>>] = op(t, ops[n])
    BY <1>1
<1> HIDE DEF F
<1>5. PICK g : IsIter(g, Sets(D), N, {}, F)
    BY <1>3, <1>4, IterExists
<1>6. ASSUME NEW I \in SUBSET (1 .. N), I # {}
      PROVE  g[I] = op(g[I \ {Max(I)}], ops[Max(I)])
    <2>1. Max(I) \in 1 .. N
        BY <1>3, <1>6, MaxIn
    <2>2. g[I] = F[<<g[I \ {Max(I)}], Max(I)>>] /\ g[I \ {Max(I)}] \in Sets(D)
        BY <1>5, <1>6 DEF IsIter
    <2> QED
        BY <1>4, <2>1, <2>2
<1>7. g = [I \in SUBSET DOMAIN ops |->
                       IF I = {} THEN {} ELSE op(g[I \ {Max(I)}], ops[Max(I)])]
    BY <1>3, <1>5, <1>6 DEF IsIter
<1>8. iter = [I \in SUBSET DOMAIN ops |->
                       IF I = {} THEN {} ELSE op(iter[I \ {Max(I)}], ops[Max(I)])]
    BY <1>7
<1> HIDE DEF iter
<1>9. ASSUME NEW n \in 1 .. N PROVE iter[1 .. n] = op(iter[1 .. (n - 1)], ops[n])
    <2>1. 1 .. n \in SUBSET DOMAIN ops /\ n \in Nat \ {0}
        BY <1>3
    <2>2. 1 .. n # {} /\ Max(1 .. n) = n /\ (1 .. n) \ {n} = 1 .. (n - 1)
        BY <2>1, UpTo
    <2> QED
        BY <1>8, <2>1, <2>2
<1>10. PICK f : IsRun(f, iter, Sets(D), N, {}, F)
    <2>1. iter[{}] = {}
        BY <1>3, <1>8
    <2>2. Unfolds(iter, Sets(D), N, {}, F)
        BY <1>4, <1>9, <2>1 DEF Unfolds
    <2> QED
        BY <1>3, <1>4, <2>2, IterSteps
<1>11. ASSUME NEW n \in 1 .. N PROVE f[n] = op(f[n - 1], ops[n])
    <2>1. f[n] = F[<<f[n - 1], n>>] /\ f[n - 1] \in Sets(D)
        BY <1>3, <1>10 DEF IsRun
    <2> QED
        BY <1>4, <2>1
<1> QED
    BY <1>2, <1>3, <1>10, <1>11 DEF op, N, IsRun, SetRun

\* A prefix of the calls gives the set that all of them go through.
LEMMA PrefixSet ==
    ASSUME NEW D, NEW ops \in Seq(ListCalls(D)), NEW bottom \in D, NEW i \in 0 .. Len(ops),
           NEW g \in [0 .. Len(ops) -> Sets(D)], g[0] = {},
           \A n \in 1 .. Len(ops) : g[n] = SetOp(g[n - 1], ops[n], bottom)
    PROVE  SetAfter(SubSeq(ops, 1, i), bottom) = g[i]
<1> DEFINE pre == SubSeq(ops, 1, i)
<1>1. pre \in Seq(ListCalls(D)) /\ Len(pre) = i /\ i \in Nat /\ \A n \in 1 .. i : pre[n] = ops[n]
    OBVIOUS
<1> HIDE DEF pre
<1>2. PICK h : SetRun(h, D, pre, bottom)
    BY <1>1, SetSteps
<1> USE DEF SetRun
<1> DEFINE S == {n \in Nat : n <= i => h[n] = g[n]}
<1>3. 0 \in S
    BY <1>2
<1>4. ASSUME NEW n \in Nat, n \in S PROVE n + 1 \in S
    <2> SUFFICES ASSUME n + 1 <= i PROVE h[n + 1] = g[n + 1]
        OBVIOUS
    <2>1. n + 1 \in 1 .. i /\ n + 1 \in 1 .. Len(ops) /\ (n + 1) - 1 = n
        BY <1>1
    <2>2. h[n] = g[n]
        BY <1>1, <1>4, <2>1
    <2>3. h[n + 1] = SetOp(h[n], pre[n + 1], bottom)
        BY <1>1, <1>2, <2>1
    <2>4. g[n + 1] = SetOp(g[n], ops[n + 1], bottom)
        BY <2>1
    <2> QED
        BY <1>1, <2>1, <2>2, <2>3, <2>4
<1>5. i \in S
    <2> HIDE DEF S
    <2> QED
        BY <1>1, <1>3, <1>4, SetInduction
<1>6. SetAfter(pre, bottom) = g[i]
    BY <1>1, <1>2, <1>5
<1> QED
    BY <1>6 DEF pre

\* The List l holds the elements of S once each, and bottom at its end.
Holds(l, S, bottom) ==
    /\ Len(l) # 0 /\ l[Len(l)] = bottom
    /\ \A i \in 1 .. Len(l) : l[i] \in S
    /\ \A x \in S : \E i \in 1 .. Len(l) : l[i] = x
    /\ \A i, j \in 1 .. Len(l) : l[i] = l[j] => i = j

\* list_add of what is absent adds it to the set.
LEMMA AddHolds ==
    ASSUME NEW D, NEW l \in Seq(D), NEW S, NEW bottom, Holds(l, S, bottom), NEW x \in D, x \notin S
    PROVE  Holds(list_add(l, x), S \cup {x}, bottom)
<1> DEFINE n == list_add(l, x)
<1>1. /\ n \in Seq(D) /\ Len(n) = Len(l) + 1 /\ n[1] = x /\ Len(l) \in Nat
      /\ \A i \in 1 .. Len(l) : n[i + 1] = l[i]
      /\ \A j \in 1 .. Len(n) : j = 1 \/ (j - 1 \in 1 .. Len(l) /\ n[j] = l[j - 1])
    BY InFront DEF list_add
<1> HIDE DEF n
<1>2. Len(n) # 0 /\ n[Len(n)] = bottom
    <2>1. Len(l) \in 1 .. Len(l) /\ l[Len(l)] = bottom
        BY <1>1 DEF Holds
    <2> QED
        BY <1>1, <2>1
<1>3. \A i \in 1 .. Len(n) : n[i] \in S \cup {x}
    BY <1>1 DEF Holds
<1>4. ASSUME NEW y \in S \cup {x} PROVE \E i \in 1 .. Len(n) : n[i] = y
    <2>1. CASE y = x
        <3>1. 1 \in 1 .. Len(n) /\ n[1] = y
            BY <1>1, <2>1
        <3> QED
            BY <3>1
    <2>2. CASE y \in S
        <3>1. PICK i \in 1 .. Len(l) : l[i] = y
            BY <2>2 DEF Holds
        <3>2. i + 1 \in 1 .. Len(n) /\ n[i + 1] = y
            BY <1>1, <3>1
        <3> QED
            BY <3>2
    <2> QED
        BY <2>1, <2>2
<1>5. ASSUME NEW a \in 1 .. Len(n), NEW b \in 1 .. Len(n), n[a] = n[b] PROVE a = b
    <2>1. \A j \in 1 .. Len(n) : j # 1 => n[j] \in S
        BY <1>1 DEF Holds
    <2>2. CASE a # 1 /\ b # 1
        <3>1. a - 1 \in 1 .. Len(l) /\ b - 1 \in 1 .. Len(l) /\ l[a - 1] = l[b - 1]
            BY <1>1, <1>5, <2>2
        <3>2. a - 1 = b - 1
            BY <3>1 DEF Holds
        <3> QED
            BY <3>2
    <2> QED
        BY <1>1, <1>5, <2>1, <2>2
<1>6. Holds(n, S \cup {x}, bottom)
    BY <1>2, <1>3, <1>4, <1>5 DEF Holds
<1> QED
    BY <1>6 DEF n

\* list_remove takes it out of the set, unless it is the last node.
LEMMA RemoveHolds ==
    ASSUME NEW D, NEW l \in Seq(D), NEW S, NEW bottom, Holds(l, S, bottom), NEW x
    PROVE  Holds(list_remove(l, x), IF x = bottom THEN S ELSE S \ {x}, bottom)
<1> DEFINE n == list_remove(l, x)
           T == IF x = bottom THEN S ELSE S \ {x}
<1>1. /\ Len(l) \in Nat /\ Len(l) # 0 /\ l[Len(l)] = bottom
      /\ \A i \in 1 .. Len(l) : l[i] \in S
      /\ \A y \in S : \E i \in 1 .. Len(l) : l[i] = y
      /\ \A i, j \in 1 .. Len(l) : l[i] = l[j] => i = j
    BY DEF Holds
<1>2. CASE n = l /\ \A i \in 1 .. Len(l) - 1 : l[i] # x
    <2>1. x # bottom => x \notin S
        BY <1>1, <1>2
    <2>2. T = S
        BY <2>1
    <2> HIDE DEF n, T
    <2>3. Holds(n, T, bottom)
        BY <1>2, <2>2
    <2> QED
        BY <2>3 DEF n, T
<1>3. CASE \E i \in 1 .. Len(l) - 1 : l[i] = x /\ n = RemoveAt(l, i)
    <2> HIDE DEF n
    <2>1. PICK i \in 1 .. Len(l) - 1 : l[i] = x /\ n = RemoveAt(l, i)
        BY <1>3
    <2>2. i \in 1 .. Len(l) /\ i # Len(l) /\ Len(l) \in 1 .. Len(l)
        BY <1>1
    <2>3. T = S \ {x}
        BY <1>1, <2>1, <2>2
    <2> HIDE DEF T
    <2>4. /\ Len(n) = Len(l) - 1
          /\ \A j \in 1 .. Len(l) - 1 : n[j] = IF j < i THEN l[j] ELSE l[j + 1]
        BY <2>1, <2>2, Removed
    <2> DEFINE at(j) == IF j < i THEN j ELSE j + 1
    <2>5. \A j \in 1 .. Len(n) : at(j) \in 1 .. Len(l) /\ at(j) # i /\ n[j] = l[at(j)]
        BY <1>1, <2>2, <2>4
    <2>6. \A a, b \in 1 .. Len(n) : at(a) = at(b) => a = b
        BY <1>1, <2>2, <2>4
    <2>7. Len(n) # 0 /\ n[Len(n)] = bottom
        <3>1. Len(n) \in 1 .. Len(l) - 1 /\ ~(Len(n) < i) /\ Len(n) + 1 = Len(l)
            BY <1>1, <2>2, <2>4
        <3> QED
            BY <1>1, <2>4, <3>1
    <2>8. \A j \in 1 .. Len(l) : j # i => \E k \in 1 .. Len(n) : n[k] = l[j]
        <3> SUFFICES ASSUME NEW j \in 1 .. Len(l), j # i
                     PROVE  \E k \in 1 .. Len(n) : n[k] = l[j]
            OBVIOUS
        <3>1. CASE j < i
            <4>1. j \in 1 .. Len(n) /\ n[j] = l[j]
                BY <1>1, <2>2, <2>4, <3>1
            <4> QED
                BY <4>1
        <3>2. CASE ~(j < i)
            <4>1. j - 1 \in 1 .. Len(l) - 1 /\ ~(j - 1 < i) /\ (j - 1) + 1 = j
                BY <1>1, <2>2, <3>2
            <4>2. n[j - 1] = l[j]
                BY <2>4, <4>1
            <4> QED
                BY <2>4, <4>1, <4>2
        <3> QED
            BY <3>1, <3>2
    <2> HIDE DEF at
    <2>9. \A j \in 1 .. Len(n) : n[j] \in T
        BY <1>1, <2>1, <2>2, <2>3, <2>5
    <2>10. \A y \in T : \E k \in 1 .. Len(n) : n[k] = y
        BY <1>1, <2>1, <2>2, <2>3, <2>8
    <2>11. ASSUME NEW a \in 1 .. Len(n), NEW b \in 1 .. Len(n), n[a] = n[b] PROVE a = b
        <3>1. at(a) = at(b)
            BY <1>1, <2>5, <2>11
        <3> QED
            BY <2>6, <3>1
    <2>12. Holds(n, T, bottom)
        BY <2>7, <2>9, <2>10, <2>11 DEF Holds
    <2> QED
        BY <2>12 DEF n, T
<1> QED
    BY <1>2, <1>3, RemoveFrom

\* After any sequence of list_add and list_remove that adds only what is absent,
\* the watch list holds what was added and not removed, each once, and what was
\* added first for ever: list_remove never looks at the last node.
THEOREM ListCorrect ==
    ASSUME NEW D, NEW ops \in Seq(ListCalls(D)), Legal(ops)
    PROVE  ListIsSet(ops)
<1> SUFFICES ASSUME ops # << >>, ops[1][1] = "add"
             PROVE  /\ {ListAfter(ops)[i] : i \in DOMAIN ListAfter(ops)}
                          = SetAfter(ops, ops[1][2])
                    /\ \A i, j \in DOMAIN ListAfter(ops) :
                          ListAfter(ops)[i] = ListAfter(ops)[j] => i = j
    BY DEF ListIsSet
<1> DEFINE N == Len(ops)
           bottom == ops[1][2]
<1>1. N \in Nat /\ N # 0 /\ 1 \in 1 .. N /\ DOMAIN ops = 1 .. N
    OBVIOUS
<1>2. \A n \in 1 .. N : ops[n] \in ListCalls(D)
    BY ElementType
<1>3. \A n \in 1 .. N : ops[n][2] \in D /\ (ops[n][1] = "add" \/ ops[n][1] = "remove")
    BY <1>2 DEF ListCalls
<1>4. PICK f \in [0 .. N -> Seq(D)] :
         /\ f[0] = list_init
         /\ \A n \in 1 .. N : f[n] = ListOp(f[n - 1], ops[n])
         /\ ListAfter(ops) = f[N]
    BY ListSteps
<1>0. bottom \in D
    BY <1>1, <1>3
<1> HIDE DEF bottom
<1>5. PICK g : SetRun(g, D, ops, bottom)
    BY <1>0, SetSteps
<1>6. ASSUME NEW n \in 1 .. N, ops[n][1] = "add" PROVE ops[n][2] \notin g[n - 1]
    <2>1. n - 1 \in 0 .. N
        BY <1>1
    <2>2. SetAfter(SubSeq(ops, 1, n - 1), bottom) = g[n - 1]
        BY <1>0, <1>5, <2>1, PrefixSet DEF SetRun
    <2>3. ops[n][2] \notin SetAfter(SubSeq(ops, 1, n - 1), bottom)
        BY <1>1, <1>6 DEF Legal, bottom
    <2> QED
        BY <2>2, <2>3
<1> HIDE DEF N
<1> DEFINE S == {n \in Nat : n + 1 <= N => Holds(f[n + 1], g[n + 1], bottom)}
<1>7. 0 \in S
    <2>1. f[1] = ListOp(list_init, ops[1]) /\ g[1] = SetOp({}, ops[1], bottom)
        <3>1. 1 - 1 = 0
            OBVIOUS
        <3> QED
            BY <1>1, <1>4, <1>5, <3>1 DEF N, SetRun
    <2>2. f[1] = <<bottom>> \o list_init /\ g[1] = {} \cup {bottom}
        BY <2>1 DEF ListOp, SetOp, list_add, bottom
    <2>3. f[1] = <<bottom>> /\ g[1] = {bottom}
        BY <2>2 DEF list_init
    <2>4. Len(f[1]) = 1 /\ f[1][1] = bottom
        BY <2>3
    <2>5. Holds(f[1], g[1], bottom)
        BY <2>3, <2>4 DEF Holds
    <2> QED
        BY <2>5
<1>8. ASSUME NEW n \in Nat, n \in S PROVE n + 1 \in S
    <2> DEFINE k == n + 2
    <2> SUFFICES ASSUME k <= N PROVE Holds(f[k], g[k], bottom)
        <3>1. (n + 1) + 1 = k
            OBVIOUS
        <3> HIDE DEF k
        <3> QED
            BY <3>1
    <2>1. k \in 1 .. N /\ k - 1 = n + 1 /\ n + 1 <= N /\ n + 1 \in 0 .. N
        BY <1>1
    <2>2. Holds(f[n + 1], g[n + 1], bottom)
        BY <1>8, <2>1
    <2> HIDE DEF k, S
    <2>3. f[n + 1] \in Seq(D)
        BY <1>4, <2>1
    <2>4. f[k] = ListOp(f[n + 1], ops[k]) /\ g[k] = SetOp(g[n + 1], ops[k], bottom)
        BY <1>4, <1>5, <2>1 DEF N, SetRun
    <2>5. CASE ops[k][1] = "add"
        <3>1. f[k] = list_add(f[n + 1], ops[k][2]) /\ g[k] = g[n + 1] \cup {ops[k][2]}
            BY <2>4, <2>5 DEF ListOp, SetOp
        <3>2. ops[k][2] \notin g[n + 1] /\ ops[k][2] \in D
            BY <1>3, <1>6, <2>1, <2>5
        <3>3. Holds(list_add(f[n + 1], ops[k][2]), g[n + 1] \cup {ops[k][2]}, bottom)
            BY <2>2, <2>3, <3>2, AddHolds
        <3> QED
            BY <3>1, <3>3
    <2>6. CASE ops[k][1] = "remove"
        <3>1. /\ f[k] = list_remove(f[n + 1], ops[k][2])
              /\ g[k] = IF ops[k][2] = bottom THEN g[n + 1] ELSE g[n + 1] \ {ops[k][2]}
            BY <2>4, <2>6 DEF ListOp, SetOp
        <3>2. Holds(list_remove(f[n + 1], ops[k][2]),
                    IF ops[k][2] = bottom THEN g[n + 1] ELSE g[n + 1] \ {ops[k][2]}, bottom)
            BY <2>2, <2>3, RemoveHolds
        <3> QED
            BY <3>1, <3>2
    <2> QED
        BY <1>3, <2>1, <2>5, <2>6
<1>9. Holds(f[N], g[N], bottom)
    <2>1. N - 1 \in Nat /\ (N - 1) + 1 = N
        BY <1>1
    <2>2. N - 1 \in S
        <3> HIDE DEF S
        <3> QED
            BY <1>7, <1>8, <2>1, SetInduction
    <2> QED
        BY <1>1, <2>1, <2>2
<1>10. f[N] \in Seq(D) /\ DOMAIN f[N] = 1 .. Len(f[N])
    BY <1>1, <1>4
<1>11. {f[N][i] : i \in DOMAIN f[N]} = g[N]
    <2>1. \A y : y \in g[N] <=> \E i \in 1 .. Len(f[N]) : f[N][i] = y
        BY <1>9 DEF Holds
    <2> QED
        BY <1>10, <2>1
<1>12. \A i, j \in DOMAIN f[N] : f[N][i] = f[N][j] => i = j
    BY <1>9, <1>10 DEF Holds
<1> QED
    BY <1>4, <1>5, <1>11, <1>12 DEF N, bottom, SetRun
===============================================================================
