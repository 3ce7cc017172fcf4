------------------------------ MODULE MdnsProofs ------------------------------
(***************************************************************************)
(* The mDNS store of the bridges, for any bridges, services and            *)
(* announcements: the store knows what was last heard of every address     *)
(* (LatestWins), a record keeps its key (KeyStable), of two bridges one    *)
(* learns of the other (OneLearns), nobody answers too often (NoStorm),    *)
(* and a query finds what it may (QueryFinds).                             *)
(*                                                                         *)
(* The answers of a packet, and the fields of an answer, are walked        *)
(* through by folds: first each fold is unrolled into the states it goes   *)
(* through, then each state is related to what the reference heard.  The   *)
(* inductive invariant MdnsInv follows, and one lemma for each action.     *)
(***************************************************************************)
EXTENDS Mdns, ContainersProofs

(***************************************************************************)
(* The folds, unrolled                                                     *)
(***************************************************************************)

\* The data of a record, a Map of strings,
Data  == Seq([key : STRING, value : STRING])
\* and the fields of a text.
Pairs == STRING \X STRING

\* The fields of a text one after the other, as the reference takes them.
LEMMA FieldMapSteps ==
    ASSUME NEW txt \in Seq(Pairs)
    PROVE  \E f \in [0 .. Len(txt) -> Data] :
              /\ f[0] = map_init
              /\ \A n \in 1 .. Len(txt) : f[n] = map_set(f[n - 1], txt[n][1], txt[n][2])
              /\ FieldMap(txt) = f[Len(txt)]
<1> DEFINE N == Len(txt)
           op(t, a) == map_set(t, a[1], a[2])
           F == [w \in Data \X (1 .. N) |-> op(w[1], txt[w[2]])]
           iter == CHOOSE g : g = [I \in SUBSET DOMAIN txt |->
                       IF I = {} THEN map_init ELSE op(g[I \ {Max(I)}], txt[Max(I)])]
<1>1. \A t \in Data, n \in 1 .. N : op(t, txt[n]) \in Data
    BY MapSetType DEF Data, Pairs
<1>2. FieldMap(txt) = iter[DOMAIN txt]
    BY DEF FieldMap, FoldLeft, MapThenFoldSet
<1>3. map_init \in Data /\ N \in Nat /\ DOMAIN txt = 1 .. N
    BY DEF Data, map_init
<1> HIDE DEF op, N
<1>4. /\ F \in [Data \X (1 .. N) -> Data]
      /\ \A t \in Data, n \in 1 .. N : F[<<t, n>>] = op(t, txt[n])
    BY <1>1
<1> HIDE DEF F
<1>5. PICK g : IsIter(g, Data, N, map_init, F)
    BY <1>3, <1>4, IterExists
<1>6. ASSUME NEW I \in SUBSET (1 .. N), I # {}
      PROVE  g[I] = op(g[I \ {Max(I)}], txt[Max(I)])
    <2>1. Max(I) \in 1 .. N
        BY <1>3, <1>6, MaxIn
    <2>2. g[I] = F[<<g[I \ {Max(I)}], Max(I)>>] /\ g[I \ {Max(I)}] \in Data
        BY <1>5, <1>6 DEF IsIter
    <2> QED
        BY <1>4, <2>1, <2>2
<1>7. g = [I \in SUBSET DOMAIN txt |->
                       IF I = {} THEN map_init ELSE op(g[I \ {Max(I)}], txt[Max(I)])]
    BY <1>3, <1>5, <1>6 DEF IsIter
<1>8. iter = [I \in SUBSET DOMAIN txt |->
                       IF I = {} THEN map_init ELSE op(iter[I \ {Max(I)}], txt[Max(I)])]
    BY <1>7
<1> HIDE DEF iter
<1>9. ASSUME NEW n \in 1 .. N PROVE iter[1 .. n] = op(iter[1 .. (n - 1)], txt[n])
    <2>1. 1 .. n \in SUBSET DOMAIN txt /\ n \in Nat \ {0}
        BY <1>3
    <2>2. 1 .. n # {} /\ Max(1 .. n) = n /\ (1 .. n) \ {n} = 1 .. (n - 1)
        BY <2>1, UpTo
    <2> QED
        BY <1>8, <2>1, <2>2
<1>10. PICK f : IsRun(f, iter, Data, N, map_init, F)
    <2>1. iter[{}] = map_init
        BY <1>3, <1>8
    <2>2. Unfolds(iter, Data, N, map_init, F)
        BY <1>4, <1>9, <2>1 DEF Unfolds
    <2> QED
        BY <1>3, <1>4, <2>2, IterSteps
<1>11. ASSUME NEW n \in 1 .. N PROVE f[n] = op(f[n - 1], txt[n])
    <2>1. f[n] = F[<<f[n - 1], n>>] /\ f[n - 1] \in Data
        BY <1>3, <1>10 DEF IsRun
    <2> QED
        BY <1>4, <2>1
<1> QED
    BY <1>2, <1>3, <1>10, <1>11 DEF op, N, IsRun

(***************************************************************************)
(* One field                                                               *)
(***************************************************************************)
Hosts == Bridges \cup {a.from : a \in Ads}
\* The Items of mdnsStore.
Items == [key : Nat, value : Records]

\* The state of handleMdnsRead between two fields.
States == {s \in [store : Seq(Items), key : Nat, rec : Nat, stop : BOOLEAN] :
              s.rec <= Len(s.store)}

\* What a state of the walk through the answers is made of.
LEMMA StateFacts ==
    ASSUME NEW s \in States
    PROVE  /\ s \in [store : Seq(Items), key : Nat, rec : Nat, stop : BOOLEAN]
           /\ s.store \in Seq(Items) /\ s.key \in Nat /\ s.rec \in 0 .. Len(s.store)
           /\ s.stop \in BOOLEAN
BY DEF States

\* The record at place i with other fields.
WithData(m, i, d) == [m EXCEPT ![i].value.data = d]

\* New data for one record leave all other records, its name and its address.
LEMMA WithDataFacts ==
    ASSUME NEW m \in Seq(Items), NEW i \in 1 .. Len(m), NEW d \in Data
    PROVE  /\ WithData(m, i, d) \in Seq(Items) /\ Len(WithData(m, i, d)) = Len(m)
           /\ \A j \in 1 .. Len(m) : j # i => WithData(m, i, d)[j] = m[j]
           /\ WithData(m, i, d)[i].key = m[i].key
           /\ WithData(m, i, d)[i].value =
                 [ip |-> m[i].value.ip, name |-> m[i].value.name, data |-> d]
<1> DEFINE x == [m[i] EXCEPT !.value = [m[i].value EXCEPT !.data = d]]
<1>0. m[i] \in Items
    BY ElementType
<1>1. m[i] \in Items /\ m[i].value \in Records
    BY <1>0 DEF Items
<1>2. [m[i].value EXCEPT !.data = d] =
          [ip |-> m[i].value.ip, name |-> m[i].value.name, data |-> d]
    BY <1>1 DEF Records
<1>3. [ip |-> m[i].value.ip, name |-> m[i].value.name, data |-> d] \in Records
    BY <1>1 DEF Records, Data
<1>4. x \in Items /\ x.key = m[i].key
      /\ x.value = [ip |-> m[i].value.ip, name |-> m[i].value.name, data |-> d]
    BY <1>1, <1>2, <1>3 DEF Items
<1>5. WithData(m, i, d) = [m EXCEPT ![i] = x]
    BY DEF WithData
<1> HIDE DEF x
<1>6. WithData(m, i, d) \in Seq(Items) /\ Len(WithData(m, i, d)) = Len(m)
      /\ WithData(m, i, d)[i] = x
      /\ \A j \in 1 .. Len(m) : j # i => WithData(m, i, d)[j] = m[j]
    BY <1>4, <1>5
<1> QED
    BY <1>4, <1>6

\* The store stays one.
LEMMA WithDataType ==
    ASSUME NEW m \in Seq(Items), NEW i \in 1 .. Len(m), NEW d \in Data
    PROVE  WithData(m, i, d) \in Seq(Items) /\ Len(WithData(m, i, d)) = Len(m)
BY WithDataFacts

\* The record has the new data.
LEMMA WithDataValue ==
    ASSUME NEW m \in Seq(Items), NEW i \in 1 .. Len(m), NEW d \in Data
    PROVE  WithData(m, i, d)[i].value.data = d /\ Len(WithData(m, i, d)) = Len(m)
<1>1. WithData(m, i, d)[i].value =
          [ip |-> m[i].value.ip, name |-> m[i].value.name, data |-> d]
    BY WithDataFacts
<1> QED
    BY <1>1, WithDataType

\* The first record of an address: what getMdnsRecordForIpAddr finds.
LEMMA RecordFound ==
    ASSUME NEW m \in Seq(Items), NEW ip
    PROVE  LET i == getMdnsRecordForIpAddr(m, ip) IN
           /\ i \in 0 .. Len(m)
           /\ i = 0 <=> \A j \in 1 .. Len(m) : m[j].value.ip # ip
           /\ i # 0 =>
                 /\ m[i].value.ip = ip
                 /\ \A j \in 1 .. Len(m) : m[j].value.ip = ip => i <= j
<1> DEFINE P == {j \in DOMAIN m : m[j].value.ip = ip}
           i == getMdnsRecordForIpAddr(m, ip)
<1>1. DOMAIN m = 1 .. Len(m) /\ P \subseteq Nat /\ 0 \notin P
    OBVIOUS
<1>2. CASE P = {}
    <2>1. i = 0
        BY <1>2 DEF getMdnsRecordForIpAddr
    <2> HIDE DEF i
    <2> QED
        BY <1>1, <1>2, <2>1 DEF i
<1>3. CASE P # {}
    <2>1. i = CHOOSE x \in P : \A j \in P : x <= j
        BY <1>3 DEF getMdnsRecordForIpAddr
    <2> HIDE DEF P, i
    <2>2. \E x \in P : \A y \in P : x <= y
        BY <1>1, <1>3, Least
    <2>3. i \in P /\ \A j \in P : i <= j
        BY <2>1, <2>2
    <2> USE DEF P
    <2>4. /\ i \in 0 .. Len(m) /\ i # 0 /\ m[i].value.ip = ip /\ i \in 1 .. Len(m)
          /\ \A j \in 1 .. Len(m) : m[j].value.ip = ip => i <= j
        BY <1>1, <2>3
    <2> QED
        BY <2>4 DEF i
<1> QED
    BY <1>2, <1>3

\* A record an answer may add.
LEMMA AddedFacts ==
    ASSUME NEW m \in Seq(Items), NEW k \in Nat, NEW v \in Records
    PROVE  map_set(m, k, v) \in Seq(Items) /\ 1 <= Len(map_set(m, k, v))
<1> DEFINE i == map_getItem(m, k)
<1>1. map_set(m, k, v) \in Seq(Items)
    BY MapSetType DEF Items
<1>2. i \in 0 .. Len(m)
    BY ItemFound
<1>3. map_set(m, k, v) = IF i # 0 THEN [m EXCEPT ![i].value = v] ELSE <<Item(k, v)>> \o m
    BY DEF map_set
<1> HIDE DEF i
<1>4. CASE i # 0
    BY <1>1, <1>2, <1>3, <1>4
<1>5. CASE i = 0
    <2>1. <<Item(k, v)>> \in Seq(Items)
        BY DEF Item, Items
    <2> QED
        BY <1>1, <1>3, <1>5, <2>1
<1> QED
    BY <1>4, <1>5

\* A new store, key and record in the state of a walk.
LEMMA StateSet ==
    ASSUME NEW A, NEW B, NEW C, NEW s \in [store : A, key : B, rec : C, stop : BOOLEAN],
           NEW i \in C, NEW k \in B, NEW x \in A, ~s.stop, NEW t,
           \/ t = [s EXCEPT !.rec = i, !.key = k, !.store = x]
           \/ t = [s EXCEPT !.rec = i, !.store = x] /\ k = s.key
    PROVE  /\ t \in [store : A, key : B, rec : C, stop : BOOLEAN]
           /\ t.store = x /\ t.key = k /\ t.rec = i /\ ~t.stop
OBVIOUS

\* The state t after the PORT of an answer: the record of this name and address
\* without its fields, or a new one.
Placed(s, t, name, ip) ==
    LET i == getMdnsRecordForIpAddr(s.store, ip)
    IN /\ ~t.stop
       /\ IF SameRecord(s, i, name)
          THEN t.store = WithData(s.store, i, map_init) /\ t.key = s.key /\ t.rec = i
          ELSE /\ t.store = map_set(s.store, s.key + 1,
                                    [ip |-> ip, name |-> name, data |-> map_init])
               /\ t.key = s.key + 1 /\ t.rec = 1

\* The PORT field finds or makes the record of the address.
LEMMA PlacedFacts ==
    ASSUME NEW s \in States, NEW from \in Hosts, NEW name \in HnNames \cup Bridges,
           NEW f \in Pairs, ~s.stop, s.rec = 0, f[1] = "PORT"
    PROVE  LET t == Field(s, from, name, f) IN
           t \in States /\ Placed(s, t, name, <<from, f[2]>>)
<1> DEFINE ip == <<from, f[2]>>
           i == getMdnsRecordForIpAddr(s.store, ip)
           v == [ip |-> ip, name |-> name, data |-> map_init]
<1>0. s \in [store : Seq(Items), key : Nat, rec : Nat, stop : BOOLEAN]
      /\ s.rec \in 0 .. Len(s.store) /\ s.store \in Seq(Items) /\ s.key \in Nat
    BY StateFacts
<1>1. i \in 0 .. Len(s.store)
    BY <1>0, RecordFound
<1>2. Field(s, from, name, f) =
          IF SameRecord(s, i, name) THEN UpdateRecord([s EXCEPT !.rec = i])
          ELSE AddRecord(s, name, ip)
    BY DEF Field, NoRecord
<1>3. v \in Records
    BY DEF Records, Hosts, Pairs, map_init
<1>4. CASE SameRecord(s, i, name)
    <2> DEFINE x == WithData(s.store, i, map_init)
               t == [s EXCEPT !.rec = i, !.store = x]
    <2> HIDE DEF i
    <2>1. i \in 1 .. Len(s.store)
        BY <1>1, <1>4 DEF SameRecord
    <2>2. UpdateRecord([s EXCEPT !.rec = i]) = t
        BY <1>0, <2>1 DEF UpdateRecord, map_cleanup, map_init, WithData
    <2>3. map_init \in Data
        BY DEF Data, map_init
    <2>4. x \in Seq(Items) /\ Len(x) = Len(s.store)
        BY <1>0, <2>1, <2>3, WithDataType
    <2> HIDE DEF x
    <2>7. t = [s EXCEPT !.rec = i, !.store = x] /\ i \in Nat
        BY <2>1
    <2> HIDE DEF t
    <2>5. /\ t \in [store : Seq(Items), key : Nat, rec : Nat, stop : BOOLEAN]
          /\ t.store = x /\ t.key = s.key /\ t.rec = i /\ ~t.stop
        BY <1>0, <2>7, <2>4, StateSet
    <2>6. t \in States
        BY <2>1, <2>4, <2>5 DEF States
    <2> QED
        BY <1>2, <1>4, <2>2, <2>5, <2>6 DEF Placed, i, x
<1>5. CASE ~SameRecord(s, i, name)
    <2> DEFINE t == AddRecord(s, name, ip)
               k == s.key + 1
               x == map_set(s.store, k, v)
    <2>1. t = [s EXCEPT !.rec = 1, !.key = k, !.store = x]
        BY DEF AddRecord
    <2> HIDE DEF t, v
    <2>2. k \in Nat
        BY <1>0
    <2> HIDE DEF k
    <2>3. x \in Seq(Items) /\ 1 <= Len(x)
        BY <1>0, <1>3, <2>2, AddedFacts
    <2> HIDE DEF x
    <2>4. /\ t \in [store : Seq(Items), key : Nat, rec : Nat, stop : BOOLEAN]
          /\ t.store = x /\ t.key = k /\ t.rec = 1 /\ ~t.stop
        BY <1>0, <2>1, <2>2, <2>3, StateSet
    <2>5. t \in States
        BY <2>3, <2>4 DEF States
    <2> QED
        BY <1>2, <1>5, <2>4, <2>5 DEF Placed, v, t, x, k
<1> QED
    BY <1>4, <1>5

\* A field after the PORT goes into the record, one before it ends the answer.
LEMMA FieldFacts ==
    ASSUME NEW s \in States, NEW from, NEW name, NEW f \in Pairs
    PROVE  LET t == Field(s, from, name, f)
               d == map_set(s.store[s.rec].value.data, f[1], f[2])
           IN
           /\ s.stop => t = s
           /\ ~s.stop /\ s.rec = 0 /\ f[1] # "PORT" =>
                 t \in States /\ t.stop /\ t.store = s.store /\ t.key = s.key
           /\ ~s.stop /\ s.rec # 0 =>
                 /\ t \in States /\ ~t.stop /\ t.key = s.key /\ t.rec = s.rec
                 /\ t.store = WithData(s.store, s.rec, d)
<1> DEFINE t == Field(s, from, name, f)
           d == map_set(s.store[s.rec].value.data, f[1], f[2])
<1> USE DEF NoRecord
<1>0. s \in [store : Seq(Items), key : Nat, rec : Nat, stop : BOOLEAN]
      /\ s.rec \in 0 .. Len(s.store) /\ s.store \in Seq(Items)
    BY StateFacts
<1>1. CASE s.stop
    BY <1>1 DEF Field
<1>2. CASE ~s.stop /\ s.rec = 0 /\ f[1] # "PORT"
    <2>1. t = [s EXCEPT !.stop = TRUE]
        BY <1>2 DEF Field
    <2> HIDE DEF t
    <2>2. /\ t \in [store : Seq(Items), key : Nat, rec : Nat, stop : BOOLEAN]
          /\ t.stop /\ t.store = s.store /\ t.key = s.key /\ t.rec = s.rec
        BY <1>0, <2>1
    <2>3. t \in States
        BY <1>0, <2>2 DEF States
    <2> QED
        BY <1>2, <2>2, <2>3 DEF t
<1>3. CASE ~s.stop /\ s.rec # 0
    <2>1. s.rec \in 1 .. Len(s.store)
        BY <1>0, <1>3
    <2>2. d \in Data
        <3>1. s.store[s.rec] \in Items
            BY <1>0, <2>1, ElementType
        <3>2. s.store[s.rec].value.data \in Seq([key : STRING, value : STRING])
            BY <3>1 DEF Items, Records
        <3> QED
            BY <3>2, MapSetType DEF Data, Pairs
    <2>3. t = [s EXCEPT !.store[s.rec].value.data = d]
        BY <1>3 DEF Field
    <2> HIDE DEF d
    <2>4. t = [s EXCEPT !.store = WithData(s.store, s.rec, d)]
        BY <1>0, <2>3 DEF WithData
    <2>5. /\ WithData(s.store, s.rec, d) \in Seq(Items)
          /\ Len(WithData(s.store, s.rec, d)) = Len(s.store)
        BY <1>0, <2>1, <2>2, WithDataFacts
    <2> HIDE DEF t
    <2>6. /\ t \in [store : Seq(Items), key : Nat, rec : Nat, stop : BOOLEAN]
          /\ ~t.stop /\ t.key = s.key /\ t.rec = s.rec
          /\ t.store = WithData(s.store, s.rec, d)
        BY <1>0, <1>3, <2>4, <2>5
    <2>7. t \in States
        BY <1>0, <2>5, <2>6 DEF States
    <2> QED
        BY <1>3, <2>6, <2>7 DEF t, d
<1> QED
    BY <1>1, <1>2, <1>3

\* A field keeps the state of the walk one.
LEMMA FieldType ==
    ASSUME NEW s \in States, NEW from \in Hosts, NEW name \in HnNames \cup Bridges,
           NEW f \in Pairs
    PROVE  Field(s, from, name, f) \in States
<1>1. CASE ~s.stop /\ s.rec = 0 /\ f[1] = "PORT"
    BY <1>1, PlacedFacts
<1>2. CASE ~(~s.stop /\ s.rec = 0 /\ f[1] = "PORT")
    BY <1>2, FieldFacts
<1> QED
    BY <1>1, <1>2

\* The fields of an answer one after the other.
LEMMA FieldsSteps ==
    ASSUME NEW s \in States, NEW from \in Hosts, NEW name \in HnNames \cup Bridges,
           NEW txt \in Seq(Pairs)
    PROVE  \E f \in [0 .. Len(txt) -> States] :
              /\ f[0] = s
              /\ \A n \in 1 .. Len(txt) : f[n] = Field(f[n - 1], from, name, txt[n])
              /\ Fields(s, from, name, txt) = f[Len(txt)]
<1> DEFINE N == Len(txt)
           op(t, a) == Field(t, from, name, a)
           F == [w \in States \X (1 .. N) |-> op(w[1], txt[w[2]])]
           iter == CHOOSE g : g = [I \in SUBSET DOMAIN txt |->
                       IF I = {} THEN s ELSE op(g[I \ {Max(I)}], txt[Max(I)])]
<1>1. \A t \in States, n \in 1 .. N : op(t, txt[n]) \in States
    BY FieldType, ElementType
<1>2. Fields(s, from, name, txt) = iter[DOMAIN txt]
    BY DEF Fields, FoldLeft, MapThenFoldSet
<1>3. s \in States /\ N \in Nat /\ DOMAIN txt = 1 .. N
    OBVIOUS
<1> HIDE DEF op, N
<1>4. /\ F \in [States \X (1 .. N) -> States]
      /\ \A t \in States, n \in 1 .. N : F[<<t, n>>] = op(t, txt[n])
    BY <1>1
<1> HIDE DEF F
<1>5. PICK g : IsIter(g, States, N, s, F)
    BY <1>3, <1>4, IterExists
<1>6. ASSUME NEW I \in SUBSET (1 .. N), I # {}
      PROVE  g[I] = op(g[I \ {Max(I)}], txt[Max(I)])
    <2>1. Max(I) \in 1 .. N
        BY <1>3, <1>6, MaxIn
    <2>2. g[I] = F[<<g[I \ {Max(I)}], Max(I)>>] /\ g[I \ {Max(I)}] \in States
        BY <1>5, <1>6 DEF IsIter
    <2> QED
        BY <1>4, <2>1, <2>2
<1>7. g = [I \in SUBSET DOMAIN txt |->
                       IF I = {} THEN s ELSE op(g[I \ {Max(I)}], txt[Max(I)])]
    BY <1>3, <1>5, <1>6 DEF IsIter
<1>8. iter = [I \in SUBSET DOMAIN txt |->
                       IF I = {} THEN s ELSE op(iter[I \ {Max(I)}], txt[Max(I)])]
    BY <1>7
<1> HIDE DEF iter
<1>9. ASSUME NEW n \in 1 .. N PROVE iter[1 .. n] = op(iter[1 .. (n - 1)], txt[n])
    <2>1. 1 .. n \in SUBSET DOMAIN txt /\ n \in Nat \ {0}
        BY <1>3
    <2>2. 1 .. n # {} /\ Max(1 .. n) = n /\ (1 .. n) \ {n} = 1 .. (n - 1)
        BY <2>1, UpTo
    <2> QED
        BY <1>8, <2>1, <2>2
<1>10. PICK f : IsRun(f, iter, States, N, s, F)
    <2>1. iter[{}] = s
        BY <1>3, <1>8
    <2>2. Unfolds(iter, States, N, s, F)
        BY <1>4, <1>9, <2>1 DEF Unfolds
    <2> QED
        BY <1>3, <1>4, <2>2, IterSteps
<1>11. ASSUME NEW n \in 1 .. N PROVE f[n] = op(f[n - 1], txt[n])
    <2>1. f[n] = F[<<f[n - 1], n>>] /\ f[n - 1] \in States
        BY <1>3, <1>10 DEF IsRun
    <2> QED
        BY <1>4, <2>1
<1> QED
    BY <1>2, <1>3, <1>10, <1>11 DEF op, N, IsRun

\* So do all fields of an answer,
LEMMA FieldsType ==
    ASSUME NEW s \in States, NEW from \in Hosts, NEW name \in HnNames \cup Bridges,
           NEW txt \in Seq(Pairs)
    PROVE  Fields(s, from, name, txt) \in States
<1>1. PICK f \in [0 .. Len(txt) -> States] : Fields(s, from, name, txt) = f[Len(txt)]
    BY FieldsSteps
<1> QED
    BY <1>1

\* the start of the next answer,
LEMMA BlankState ==
    ASSUME NEW s \in States
    PROVE  LET t == [s EXCEPT !.rec = NoRecord, !.stop = FALSE] IN
           t \in States /\ t.store = s.store /\ t.key = s.key /\ t.rec = 0 /\ ~t.stop
<1> DEFINE t == [s EXCEPT !.rec = NoRecord, !.stop = FALSE]
<1>1. s \in [store : Seq(Items), key : Nat, rec : Nat, stop : BOOLEAN]
      /\ s.store \in Seq(Items)
    BY StateFacts
<1>2. /\ t \in [store : Seq(Items), key : Nat, rec : Nat, stop : BOOLEAN]
      /\ t.store = s.store /\ t.key = s.key /\ t.rec = 0 /\ ~t.stop
    BY <1>1 DEF NoRecord
<1> HIDE DEF t
<1>3. t \in States
    BY <1>1, <1>2 DEF States
<1> QED
    BY <1>2, <1>3 DEF t

\* and the whole answer.
LEMMA AnswerType ==
    ASSUME NEW b \in Bridges, NEW s \in States, NEW from \in Hosts, NEW a \in Answers
    PROVE  Answer(b, s, from, a) \in States
<1>1. CASE ~Wanted(b, a.name)
    BY <1>1 DEF Answer
<1>2. CASE Wanted(b, a.name)
    <2> DEFINE t == [s EXCEPT !.rec = NoRecord, !.stop = FALSE]
    <2>1. t \in States
        BY BlankState
    <2>2. a.name \in HnNames \cup Bridges /\ a.txt \in Seq(Pairs)
        BY <1>2 DEF Wanted, Answers, Pairs
    <2>3. Answer(b, s, from, a) = Fields(t, from, a.name, a.txt)
        BY <1>2 DEF Answer
    <2> HIDE DEF t
    <2>4. Fields(t, from, a.name, a.txt) \in States
        BY <2>1, <2>2, FieldsType
    <2> QED
        BY <2>3, <2>4
<1> QED
    BY <1>1, <1>2

\* The answers of a packet one after the other.
LEMMA AnswersSteps ==
    ASSUME NEW b \in Bridges, NEW s \in States, NEW from \in Hosts, NEW answers \in Seq(Answers)
    PROVE  \E f \in [0 .. Len(answers) -> States] :
              /\ f[0] = s
              /\ \A n \in 1 .. Len(answers) : f[n] = Answer(b, f[n - 1], from, answers[n])
              /\ AllAnswers(b, s, from, answers) = f[Len(answers)]
<1> DEFINE N == Len(answers)
           op(t, a) == Answer(b, t, from, a)
           F == [w \in States \X (1 .. N) |-> op(w[1], answers[w[2]])]
           iter == CHOOSE g : g = [I \in SUBSET DOMAIN answers |->
                       IF I = {} THEN s ELSE op(g[I \ {Max(I)}], answers[Max(I)])]
<1>1. \A t \in States, n \in 1 .. N : op(t, answers[n]) \in States
    BY AnswerType, ElementType
<1>2. AllAnswers(b, s, from, answers) = iter[DOMAIN answers]
    BY DEF AllAnswers, FoldLeft, MapThenFoldSet
<1>3. s \in States /\ N \in Nat /\ DOMAIN answers = 1 .. N
    OBVIOUS
<1> HIDE DEF op, N
<1>4. /\ F \in [States \X (1 .. N) -> States]
      /\ \A t \in States, n \in 1 .. N : F[<<t, n>>] = op(t, answers[n])
    BY <1>1
<1> HIDE DEF F
<1>5. PICK g : IsIter(g, States, N, s, F)
    BY <1>3, <1>4, IterExists
<1>6. ASSUME NEW I \in SUBSET (1 .. N), I # {}
      PROVE  g[I] = op(g[I \ {Max(I)}], answers[Max(I)])
    <2>1. Max(I) \in 1 .. N
        BY <1>3, <1>6, MaxIn
    <2>2. g[I] = F[<<g[I \ {Max(I)}], Max(I)>>] /\ g[I \ {Max(I)}] \in States
        BY <1>5, <1>6 DEF IsIter
    <2> QED
        BY <1>4, <2>1, <2>2
<1>7. g = [I \in SUBSET DOMAIN answers |->
                       IF I = {} THEN s ELSE op(g[I \ {Max(I)}], answers[Max(I)])]
    BY <1>3, <1>5, <1>6 DEF IsIter
<1>8. iter = [I \in SUBSET DOMAIN answers |->
                       IF I = {} THEN s ELSE op(iter[I \ {Max(I)}], answers[Max(I)])]
    BY <1>7
<1> HIDE DEF iter
<1>9. ASSUME NEW n \in 1 .. N PROVE iter[1 .. n] = op(iter[1 .. (n - 1)], answers[n])
    <2>1. 1 .. n \in SUBSET DOMAIN answers /\ n \in Nat \ {0}
        BY <1>3
    <2>2. 1 .. n # {} /\ Max(1 .. n) = n /\ (1 .. n) \ {n} = 1 .. (n - 1)
        BY <2>1, UpTo
    <2> QED
        BY <1>8, <2>1, <2>2
<1>10. PICK f : IsRun(f, iter, States, N, s, F)
    <2>1. iter[{}] = s
        BY <1>3, <1>8
    <2>2. Unfolds(iter, States, N, s, F)
        BY <1>4, <1>9, <2>1 DEF Unfolds
    <2> QED
        BY <1>3, <1>4, <2>2, IterSteps
<1>11. ASSUME NEW n \in 1 .. N PROVE f[n] = op(f[n - 1], answers[n])
    <2>1. f[n] = F[<<f[n - 1], n>>] /\ f[n - 1] \in States
        BY <1>3, <1>10 DEF IsRun
    <2> QED
        BY <1>4, <2>1
<1> QED
    BY <1>2, <1>3, <1>10, <1>11 DEF op, N, IsRun

\* What the reference remembers of the addresses.
Hearings == Seq([key : Hosts \X STRING,
                 value : [name : HnNames \cup Bridges, data : Data]])

\* The reference keeps its types too:
LEMMA FieldMapType ==
    ASSUME NEW txt \in Seq(Pairs)
    PROVE  FieldMap(txt) \in Data
<1>1. PICK f \in [0 .. Len(txt) -> Data] : FieldMap(txt) = f[Len(txt)]
    BY FieldMapSteps
<1> QED
    BY <1>1

\* what it heard stays what was said by hosts.
LEMMA ToldType ==
    ASSUME NEW b \in Bridges, NEW h \in Hearings, NEW from \in Hosts, NEW a \in Answers
    PROVE  Told(b, h, from, a) \in Hearings
<1>1. CASE ~Announces(b, a)
    BY <1>1 DEF Told
<1>2. CASE Announces(b, a)
    <2> DEFINE ip == <<from, a.txt[1][2]>>
               v == [name |-> a.name, data |-> FieldMap(Tail(a.txt))]
    <2>1. /\ a.name \in HnNames \cup Bridges /\ a.txt \in Seq(Pairs)
          /\ a.txt # << >>
        BY <1>2 DEF Announces, Wanted, Answers, Pairs
    <2>2. Tail(a.txt) \in Seq(Pairs) /\ a.txt[1] \in Pairs
        BY <2>1
    <2>3. FieldMap(Tail(a.txt)) \in Data
        BY <2>2, FieldMapType
    <2>4. ip \in Hosts \X STRING
        BY <2>2 DEF Pairs
    <2>5. v \in [name : HnNames \cup Bridges, data : Data]
        BY <2>1, <2>3
    <2>6. Told(b, h, from, a) = map_set(h, ip, v)
        BY <1>2 DEF Told
    <2> DEFINE K == Hosts \X STRING
               V == [name : HnNames \cup Bridges, data : Data]
    <2>7. h \in Seq([key : K, value : V]) /\ ip \in K /\ v \in V
        BY <2>4, <2>5 DEF Hearings
    <2> HIDE DEF ip, v, K, V
    <2>8. map_set(h, ip, v) \in Seq([key : K, value : V])
        BY <2>7, MapSetType
    <2> QED
        BY <2>6, <2>8 DEF Hearings, K, V
<1> QED
    BY <1>1, <1>2

\* What the reference hears of them.
LEMMA ToldSteps ==
    ASSUME NEW b \in Bridges, NEW h \in Hearings, NEW from \in Hosts, NEW answers \in Seq(Answers)
    PROVE  \E f \in [0 .. Len(answers) -> Hearings] :
              /\ f[0] = h
              /\ \A n \in 1 .. Len(answers) : f[n] = Told(b, f[n - 1], from, answers[n])
              /\ AllTold(b, h, from, answers) = f[Len(answers)]
<1> DEFINE N == Len(answers)
           op(t, a) == Told(b, t, from, a)
           F == [w \in Hearings \X (1 .. N) |-> op(w[1], answers[w[2]])]
           iter == CHOOSE g : g = [I \in SUBSET DOMAIN answers |->
                       IF I = {} THEN h ELSE op(g[I \ {Max(I)}], answers[Max(I)])]
<1>1. \A t \in Hearings, n \in 1 .. N : op(t, answers[n]) \in Hearings
    BY ToldType, ElementType
<1>2. AllTold(b, h, from, answers) = iter[DOMAIN answers]
    BY DEF AllTold, FoldLeft, MapThenFoldSet
<1>3. h \in Hearings /\ N \in Nat /\ DOMAIN answers = 1 .. N
    OBVIOUS
<1> HIDE DEF op, N
<1>4. /\ F \in [Hearings \X (1 .. N) -> Hearings]
      /\ \A t \in Hearings, n \in 1 .. N : F[<<t, n>>] = op(t, answers[n])
    BY <1>1
<1> HIDE DEF F
<1>5. PICK g : IsIter(g, Hearings, N, h, F)
    BY <1>3, <1>4, IterExists
<1>6. ASSUME NEW I \in SUBSET (1 .. N), I # {}
      PROVE  g[I] = op(g[I \ {Max(I)}], answers[Max(I)])
    <2>1. Max(I) \in 1 .. N
        BY <1>3, <1>6, MaxIn
    <2>2. g[I] = F[<<g[I \ {Max(I)}], Max(I)>>] /\ g[I \ {Max(I)}] \in Hearings
        BY <1>5, <1>6 DEF IsIter
    <2> QED
        BY <1>4, <2>1, <2>2
<1>7. g = [I \in SUBSET DOMAIN answers |->
                       IF I = {} THEN h ELSE op(g[I \ {Max(I)}], answers[Max(I)])]
    BY <1>3, <1>5, <1>6 DEF IsIter
<1>8. iter = [I \in SUBSET DOMAIN answers |->
                       IF I = {} THEN h ELSE op(iter[I \ {Max(I)}], answers[Max(I)])]
    BY <1>7
<1> HIDE DEF iter
<1>9. ASSUME NEW n \in 1 .. N PROVE iter[1 .. n] = op(iter[1 .. (n - 1)], answers[n])
    <2>1. 1 .. n \in SUBSET DOMAIN answers /\ n \in Nat \ {0}
        BY <1>3
    <2>2. 1 .. n # {} /\ Max(1 .. n) = n /\ (1 .. n) \ {n} = 1 .. (n - 1)
        BY <2>1, UpTo
    <2> QED
        BY <1>8, <2>1, <2>2
<1>10. PICK f : IsRun(f, iter, Hearings, N, h, F)
    <2>1. iter[{}] = h
        BY <1>3, <1>8
    <2>2. Unfolds(iter, Hearings, N, h, F)
        BY <1>4, <1>9, <2>1 DEF Unfolds
    <2> QED
        BY <1>3, <1>4, <2>2, IterSteps
<1>11. ASSUME NEW n \in 1 .. N PROVE f[n] = op(f[n - 1], answers[n])
    <2>1. f[n] = F[<<f[n - 1], n>>] /\ f[n - 1] \in Hearings
        BY <1>3, <1>10 DEF IsRun
    <2> QED
        BY <1>4, <2>1
<1> QED
    BY <1>2, <1>3, <1>10, <1>11 DEF op, N, IsRun


(***************************************************************************)
(* What an answer does to the store                                        *)
(***************************************************************************)
LEMMA WithDataTwice ==
    ASSUME NEW m \in Seq(Items), NEW i \in 1 .. Len(m), NEW d \in Data, NEW e \in Data
    PROVE  /\ WithData(WithData(m, i, d), i, e) = WithData(m, i, e)
           /\ m[i].value.data = d => WithData(m, i, d) = m
<1>1. m[i] \in Items
    BY ElementType
<1>2. WithData(WithData(m, i, d), i, e) = WithData(m, i, e)
    BY <1>1 DEF WithData, Items, Records, Data
<1>3. ASSUME m[i].value.data = d PROVE WithData(m, i, d) = m
    <2>1. [m[i].value EXCEPT !.data = d] = m[i].value
        BY <1>1, <1>3 DEF Items, Records
    <2>2. [m[i] EXCEPT !.value = m[i].value] = m[i]
        BY <1>1 DEF Items
    <2>3. [m EXCEPT ![i] = m[i]] = m
        OBVIOUS
    <2> QED
        BY <2>1, <2>2, <2>3 DEF WithData
<1> QED
    BY <1>2, <1>3

\* The listen keys in use are ones that were issued.
Issued(s) == \A j \in 1 .. Len(s.store) : s.store[j].key <= s.key

\* The Item of a new record.
NewItem(s, name, ip, d) == Item(s.key + 1, [ip |-> ip, name |-> name, data |-> d])

\* A new record is an Item.
LEMMA NewItemFacts ==
    ASSUME NEW s \in States, NEW name \in HnNames \cup Bridges, NEW ip \in Hosts \X STRING,
           NEW d \in Data
    PROVE  NewItem(s, name, ip, d) \in Items
<1>1. s.key + 1 \in Nat
    BY StateFacts
<1>2. [ip |-> ip, name |-> name, data |-> d] \in Records
    BY DEF Records, Hosts, Data, Pairs
<1> QED
    BY <1>1, <1>2 DEF NewItem, Item, Items

\* A key that was never issued is put in front of the store.
LEMMA AddsInFront ==
    ASSUME NEW s \in States, Issued(s), NEW v
    PROVE  map_set(s.store, s.key + 1, v) = <<Item(s.key + 1, v)>> \o s.store
<1>1. s.store \in Seq([key : Nat, value : Records]) /\ s.key \in Nat
    BY StateFacts DEF Items
<1>2. \A j \in 1 .. Len(s.store) : s.store[j].key # s.key + 1
    <2>1. \A j \in 1 .. Len(s.store) : s.store[j] \in [key : Nat, value : Records]
        BY <1>1, ElementType
    <2> QED
        BY <1>1, <2>1 DEF Issued
<1> DEFINE m == s.store
           k == s.key + 1
<1>3. map_getItem(m, k) = 0
    <2>1. m \in Seq([key : Nat, value : Records]) /\ k \in Nat
        BY <1>1
    <2>2. \A j \in 1 .. Len(m) : m[j].key # k
        BY <1>2
    <2> HIDE DEF m, k
    <2>3. map_getItem(m, k) = 0 <=> \A j \in 1 .. Len(m) : m[j].key # k
        BY <2>1, ItemFound
    <2> QED
        BY <2>2, <2>3
<1> QED
    BY <1>3 DEF map_set

\* No port at the front: nothing is kept.
LEMMA FieldsQuiet ==
    ASSUME NEW s \in States, ~s.stop, s.rec = 0, NEW from \in Hosts,
           NEW name \in HnNames \cup Bridges, NEW txt \in Seq(Pairs),
           txt # << >> => txt[1][1] # "PORT"
    PROVE  LET t == Fields(s, from, name, txt) IN t.store = s.store /\ t.key = s.key
<1>1. PICK f \in [0 .. Len(txt) -> States] :
         /\ f[0] = s
         /\ \A n \in 1 .. Len(txt) : f[n] = Field(f[n - 1], from, name, txt[n])
         /\ Fields(s, from, name, txt) = f[Len(txt)]
    BY FieldsSteps
<1> DEFINE Q(n) == /\ f[n].store = s.store /\ f[n].key = s.key
                   /\ IF n = 0 THEN ~f[n].stop /\ f[n].rec = 0 ELSE f[n].stop
           S == {n \in Nat : n <= Len(txt) => Q(n)}
<1>2. 0 \in S
    BY <1>1
<1>3. ASSUME NEW n \in Nat, n \in S PROVE n + 1 \in S
    <2> SUFFICES ASSUME n + 1 <= Len(txt) PROVE Q(n + 1)
        OBVIOUS
    <2>1. Q(n)
        BY <1>3
    <2>2. /\ n + 1 \in 1 .. Len(txt) /\ (n + 1) - 1 = n /\ f[n] \in States
          /\ txt[n + 1] \in Pairs
        OBVIOUS
    <2>3. f[n + 1] = Field(f[n], from, name, txt[n + 1])
        BY <1>1, <2>2
    <2>4. CASE n = 0
        <3>1. txt[n + 1][1] # "PORT"
            BY <2>4
        <3> QED
            BY <2>1, <2>2, <2>3, <2>4, <3>1, FieldFacts
    <2>5. CASE n # 0
        BY <2>1, <2>2, <2>3, <2>5, FieldFacts
    <2> QED
        BY <2>4, <2>5
<1>4. Len(txt) \in S
    <2> HIDE DEF S
    <2> QED
        BY <1>2, <1>3, SetInduction
<1> QED
    BY <1>1, <1>4

\* What is left of an answer: the record of this name and address with the
\* fields d, or a new record in front of the others.
Kept(s, u, name, ip, d) ==
    LET i == getMdnsRecordForIpAddr(s.store, ip)
    IN IF SameRecord(s, i, name)
       THEN u.store = WithData(s.store, i, d) /\ u.key = s.key
       ELSE u.store = <<NewItem(s, name, ip, d)>> \o s.store /\ u.key = s.key + 1

\* The data of the record put in front.
LEMMA NewItemData ==
    ASSUME NEW s \in States, NEW name \in HnNames \cup Bridges, NEW ip \in Hosts \X STRING,
           NEW d \in Data
    PROVE  WithData(<<NewItem(s, name, ip, map_init)>> \o s.store, 1, d)
              = <<NewItem(s, name, ip, d)>> \o s.store
<1> DEFINE x == NewItem(s, name, ip, map_init)
           y == NewItem(s, name, ip, d)
           m == s.store
<1>1. map_init \in Data
    BY DEF Data, map_init
<1>2. x \in Items /\ y \in Items
    BY <1>1, NewItemFacts
<1>3. m \in Seq(Items)
    BY StateFacts
<1>4. [x EXCEPT !.value = [x.value EXCEPT !.data = d]] = y
    BY DEF NewItem, Item
<1> HIDE DEF x, y, m
<1>5. <<x>> \o m \in Seq(Items) /\ Len(<<x>> \o m) = Len(m) + 1 /\ (<<x>> \o m)[1] = x
    BY <1>2, <1>3, InFront
<1>6. WithData(<<x>> \o m, 1, d) = [(<<x>> \o m) EXCEPT ![1] = y]
    BY <1>4, <1>5 DEF WithData
<1>7. [(<<x>> \o m) EXCEPT ![1] = y] = <<y>> \o m
    BY <1>2, <1>3, FrontReplaced
<1> QED
    BY <1>6, <1>7 DEF x, y, m

\* After the PORT the record is there, without fields.
LEMMA PlacedRecord ==
    ASSUME NEW s \in States, Issued(s), NEW name \in HnNames \cup Bridges,
           NEW ip \in Hosts \X STRING, NEW t \in States, Placed(s, t, name, ip)
    PROVE  /\ t.rec \in 1 .. Len(t.store) /\ t.store[t.rec].value.data = map_init
           /\ \A d \in Data : \A u :
                 u.store = WithData(t.store, t.rec, d) /\ u.key = t.key =>
                    Kept(s, u, name, ip, d)
<1> DEFINE i == getMdnsRecordForIpAddr(s.store, ip)
<1>1. s.store \in Seq(Items) /\ i \in 0 .. Len(s.store)
    BY StateFacts, RecordFound
<1>2. map_init \in Data
    BY DEF Data, map_init
<1>3. CASE SameRecord(s, i, name)
    <2>1. t.store = WithData(s.store, i, map_init) /\ t.key = s.key /\ t.rec = i
        BY <1>3 DEF Placed
    <2>2. i \in 1 .. Len(s.store)
        BY <1>1, <1>3 DEF SameRecord
    <2>3. \A u, d : u.store = WithData(s.store, i, d) /\ u.key = s.key =>
                      Kept(s, u, name, ip, d)
        BY <1>3 DEF Kept
    <2> HIDE DEF i
    <2>4. Len(t.store) = Len(s.store) /\ t.store[t.rec].value.data = map_init
        BY <1>1, <1>2, <2>1, <2>2, WithDataValue
    <2>5. \A d \in Data : WithData(t.store, t.rec, d) = WithData(s.store, i, d)
        BY <1>1, <1>2, <2>1, <2>2, WithDataTwice
    <2> QED
        BY <2>1, <2>2, <2>3, <2>4, <2>5
<1>4. CASE ~SameRecord(s, i, name)
    <2> DEFINE x == NewItem(s, name, ip, map_init)
    <2>1. t.store = <<x>> \o s.store /\ t.key = s.key + 1 /\ t.rec = 1
        BY <1>4, AddsInFront DEF Placed, NewItem
    <2>2. \A u, d : u.store = <<NewItem(s, name, ip, d)>> \o s.store /\ u.key = s.key + 1 =>
                      Kept(s, u, name, ip, d)
        BY <1>4 DEF Kept
    <2>3. x \in Items /\ x.value.data = map_init
        <3>1. x \in Items
            BY <1>2, NewItemFacts
        <3> QED
            BY <3>1 DEF NewItem, Item
    <2>4. \A d \in Data : WithData(t.store, 1, d) = <<NewItem(s, name, ip, d)>> \o s.store
        BY <2>1, NewItemData
    <2> HIDE DEF x, i
    <2>5. Len(t.store) = Len(s.store) + 1 /\ t.store[1] = x
        BY <1>1, <2>1, <2>3, InFront
    <2>6. 1 \in 1 .. Len(t.store)
        BY <1>1, <2>5
    <2> QED
        BY <2>1, <2>2, <2>3, <2>4, <2>5, <2>6
<1> QED
    BY <1>3, <1>4

\* A port at the front: the fields after it are kept, as the reference takes them.
LEMMA FieldsKept ==
    ASSUME NEW s \in States, Issued(s), ~s.stop, s.rec = 0, NEW from \in Hosts,
           NEW name \in HnNames \cup Bridges, NEW txt \in Seq(Pairs),
           txt # << >>, txt[1][1] = "PORT"
    PROVE  Kept(s, Fields(s, from, name, txt), name, <<from, txt[1][2]>>,
                FieldMap(Tail(txt)))
<1> DEFINE N == Len(txt)
           ip == <<from, txt[1][2]>>
           rest == Tail(txt)
<1>1. /\ N \in Nat /\ N >= 1 /\ txt[1] \in Pairs /\ rest \in Seq(Pairs)
      /\ Len(rest) = N - 1 /\ \A n \in 1 .. N - 1 : rest[n] = txt[n + 1]
    OBVIOUS
<1>2. ip \in Hosts \X STRING
    BY <1>1 DEF Pairs
<1>3. PICK f \in [0 .. N -> States] :
         /\ f[0] = s
         /\ \A n \in 1 .. N : f[n] = Field(f[n - 1], from, name, txt[n])
         /\ Fields(s, from, name, txt) = f[N]
    BY FieldsSteps
<1>4. PICK g \in [0 .. Len(rest) -> Data] :
         /\ g[0] = map_init
         /\ \A n \in 1 .. Len(rest) : g[n] = map_set(g[n - 1], rest[n][1], rest[n][2])
         /\ FieldMap(rest) = g[Len(rest)]
    BY <1>1, FieldMapSteps
<1> DEFINE t == f[1]
<1>5. t \in States /\ Placed(s, t, name, ip)
    <2>1. t = Field(s, from, name, txt[1])
        BY <1>1, <1>3
    <2> QED
        BY <1>1, <2>1, PlacedFacts
<1>6. t.rec \in 1 .. Len(t.store) /\ t.store[t.rec].value.data = map_init /\ ~t.stop
    <2> HIDE DEF t, ip
    <2>1. t.rec \in 1 .. Len(t.store) /\ t.store[t.rec].value.data = map_init
        BY <1>2, <1>5, PlacedRecord
    <2>2. ~t.stop
        BY <1>5 DEF Placed
    <2> QED
        BY <2>1, <2>2
<1>7. t.store \in Seq(Items)
    BY <1>5, StateFacts
<1> HIDE DEF t, ip, N, rest
<1> DEFINE Q(n) == /\ f[n + 1].store = WithData(t.store, t.rec, g[n])
                   /\ f[n + 1].key = t.key /\ f[n + 1].rec = t.rec /\ ~f[n + 1].stop
           S == {n \in Nat : n <= N - 1 => Q(n)}
<1>8. 0 \in S
    <2>1. g[0] \in Data /\ t.store[t.rec].value.data = g[0]
        BY <1>1, <1>4, <1>6
    <2>2. WithData(t.store, t.rec, g[0]) = t.store
        BY <1>6, <1>7, <2>1, WithDataTwice
    <2>3. Q(0)
        BY <1>6, <2>2 DEF t
    <2> QED
        BY <2>3
<1>9. ASSUME NEW n \in Nat, n \in S PROVE n + 1 \in S
    <2> SUFFICES ASSUME n + 1 <= N - 1 PROVE Q(n + 1)
        OBVIOUS
    <2>1. Q(n)
        BY <1>1, <1>9
    <2>2. /\ n + 1 \in 1 .. Len(rest) /\ n \in 0 .. Len(rest) /\ (n + 1) - 1 = n
          /\ n + 2 \in 1 .. N /\ (n + 2) - 1 = n + 1 /\ (n + 1) + 1 = n + 2
          /\ n + 1 \in 0 .. N
        <3>1. N \in Nat /\ Len(rest) = N - 1 /\ n + 2 <= N
            BY <1>1
        <3> HIDE DEF S, Q
        <3> QED
            BY <3>1
    <2>3. f[n + 2] = Field(f[n + 1], from, name, txt[n + 2])
        BY <1>3, <2>2
    <2>4. /\ rest[n + 1] = txt[n + 2] /\ txt[n + 2] \in Pairs
        BY <1>1, <2>2 DEF N
    <2>5. g[n + 1] = map_set(g[n], txt[n + 2][1], txt[n + 2][2])
        BY <1>4, <2>2, <2>4
    <2>6. g[n] \in Data /\ g[n + 1] \in Data
        BY <2>2
    <2>7. f[n + 1].store[t.rec].value.data = g[n]
        BY <1>6, <1>7, <2>1, <2>6, WithDataValue
    <2>8. /\ f[n + 2].store = WithData(f[n + 1].store, t.rec, g[n + 1])
          /\ f[n + 2].key = t.key /\ f[n + 2].rec = t.rec /\ ~f[n + 2].stop
        <3>1. f[n + 1] \in States /\ f[n + 1].rec # 0
            BY <1>6, <2>1, <2>2
        <3> QED
            BY <2>1, <2>3, <2>4, <2>5, <2>7, <3>1, FieldFacts
    <2>9. WithData(f[n + 1].store, t.rec, g[n + 1]) = WithData(t.store, t.rec, g[n + 1])
        BY <1>6, <1>7, <2>1, <2>6, WithDataTwice
    <2> QED
        BY <2>2, <2>8, <2>9
<1>10. Q(N - 1)
    <2>1. N - 1 \in S
        <3>1. N - 1 \in Nat
            BY <1>1
        <3> HIDE DEF S
        <3> QED
            BY <3>1, <1>8, <1>9, SetInduction
    <2> QED
        BY <1>1, <2>1
<1>11. /\ f[N].store = WithData(t.store, t.rec, FieldMap(rest)) /\ f[N].key = t.key
       /\ FieldMap(rest) \in Data
    BY <1>1, <1>4, <1>10
<1>12. Kept(s, f[N], name, ip, FieldMap(rest))
    BY <1>2, <1>5, <1>11, PlacedRecord
<1> QED
    BY <1>3, <1>12 DEF ip, rest

(***************************************************************************)
(* Lookups after a change                                                  *)
(***************************************************************************)
LEMMA RecordIs ==
    ASSUME NEW m \in Seq(Items), NEW ip, NEW i \in 1 .. Len(m), m[i].value.ip = ip,
           \A j \in 1 .. Len(m) : m[j].value.ip = ip => i <= j
    PROVE  getMdnsRecordForIpAddr(m, ip) = i
<1> DEFINE x == getMdnsRecordForIpAddr(m, ip)
<1>1. /\ x \in 0 .. Len(m) /\ (x = 0 <=> \A j \in 1 .. Len(m) : m[j].value.ip # ip)
      /\ x # 0 => m[x].value.ip = ip
                  /\ \A j \in 1 .. Len(m) : m[j].value.ip = ip => x <= j
    BY RecordFound
<1> HIDE DEF x
<1>2. x # 0
    BY <1>1
<1>3. x \in 1 .. Len(m) /\ i <= x /\ x <= i
    BY <1>1, <1>2
<1>4. x = i
    BY <1>3
<1> QED
    BY <1>4 DEF x

(***************************************************************************)
(* What holds of a store after every answer                                *)
(***************************************************************************)
\* The listen keys are those that were drawn, the last one in front.
Numbered(s) ==
    s.key = Len(s.store) /\ \A j \in 1 .. Len(s.store) : s.store[j].key = s.key + 1 - j

\* A record stays, at the same distance from the end, with its address and name.
Grows(s, u) ==
    /\ s.key <= u.key
    /\ \A j \in 1 .. s.key :
         /\ u.store[j + (u.key - s.key)].value.ip = s.store[j].value.ip
         /\ u.store[j + (u.key - s.key)].value.name = s.store[j].value.name

\* The record found for ip is what h says.
Latest(m, h, ip) ==
    LET i == getMdnsRecordForIpAddr(m, ip)
        v == map_get(h, ip, << >>)
    IN i # 0 /\ m[i].value.name = v.name /\ m[i].value.data = v.data

\* The store knows every address heard of, with what was last said, and no other.
Linked(m, h) ==
    /\ \A ip \in map_keys(h) : Latest(m, h, ip)
    /\ \A j \in 1 .. Len(m) : m[j].value.ip \in map_keys(h)

\* A store numbered from 1 leaves the next key free.
LEMMA NumberedIssued ==
    ASSUME NEW s \in States, Numbered(s)
    PROVE  Issued(s) /\ s.key = Len(s.store) /\ s.store \in Seq(Items) /\ s.key \in Nat
BY StateFacts DEF Numbered, Issued

\* The lookups of a store in which only the fields of one record changed.
LEMMA SameFound ==
    ASSUME NEW m \in Seq(Items), NEW n \in Seq(Items), Len(m) = Len(n),
           \A j \in 1 .. Len(m) : n[j].value.ip = m[j].value.ip, NEW ip,
           getMdnsRecordForIpAddr(m, ip) # 0
    PROVE  getMdnsRecordForIpAddr(n, ip) = getMdnsRecordForIpAddr(m, ip)
<1> DEFINE i == getMdnsRecordForIpAddr(m, ip)
<1>1. /\ i \in 0 .. Len(m) /\ i # 0 /\ m[i].value.ip = ip
      /\ \A j \in 1 .. Len(m) : m[j].value.ip = ip => i <= j
    BY RecordFound
<1> HIDE DEF i
<1>2. /\ i \in 1 .. Len(n) /\ n[i].value.ip = ip
      /\ \A j \in 1 .. Len(n) : n[j].value.ip = ip => i <= j
    BY <1>1
<1> QED
    BY <1>2, RecordIs DEF i

\* The lookups of a store with one more record in front.
LEMMA FrontFound ==
    ASSUME NEW m \in Seq(Items), NEW x \in Items, NEW ip
    PROVE  LET n == <<x>> \o m IN
           /\ x.value.ip = ip => getMdnsRecordForIpAddr(n, ip) = 1
           /\ x.value.ip # ip /\ getMdnsRecordForIpAddr(m, ip) # 0 =>
                 getMdnsRecordForIpAddr(n, ip) = getMdnsRecordForIpAddr(m, ip) + 1
<1> DEFINE n == <<x>> \o m
           i == getMdnsRecordForIpAddr(m, ip)
<1>1. /\ n \in Seq(Items) /\ Len(n) = Len(m) + 1 /\ n[1] = x /\ Len(m) \in Nat
      /\ \A j \in 1 .. Len(m) : n[j + 1] = m[j]
      /\ \A j \in 1 .. Len(n) : \/ j = 1
                                \/ j - 1 \in 1 .. Len(m) /\ n[j] = m[j - 1]
    BY InFront
<1> HIDE DEF n
<1>2. ASSUME x.value.ip = ip PROVE getMdnsRecordForIpAddr(n, ip) = 1
    <2>1. 1 \in 1 .. Len(n) /\ n[1].value.ip = ip /\ \A j \in 1 .. Len(n) : 1 <= j
        BY <1>1, <1>2
    <2> QED
        BY <1>1, <2>1, RecordIs
<1>3. ASSUME x.value.ip # ip, i # 0 PROVE getMdnsRecordForIpAddr(n, ip) = i + 1
    <2>1. /\ i \in 1 .. Len(m) /\ m[i].value.ip = ip
          /\ \A j \in 1 .. Len(m) : m[j].value.ip = ip => i <= j
        BY <1>3, RecordFound
    <2> HIDE DEF i
    <2> DEFINE z == i + 1
    <2>2. z \in 1 .. Len(n) /\ n[z].value.ip = ip
        BY <1>1, <2>1
    <2>3. ASSUME NEW j \in 1 .. Len(n), n[j].value.ip = ip PROVE z <= j
        <3>1. j - 1 \in 1 .. Len(m) /\ m[j - 1].value.ip = ip
            BY <1>1, <1>3, <2>3
        <3>2. i <= j - 1
            BY <2>1, <3>1
        <3> QED
            BY <1>1, <2>1, <3>2
    <2> HIDE DEF z
    <2>4. getMdnsRecordForIpAddr(n, ip) = z
        BY <1>1, <2>2, <2>3, RecordIs
    <2> QED
        BY <2>4 DEF z
<1> QED
    BY <1>2, <1>3 DEF n

\* UpdateRecord: the record of the address has the name of the answer.
LEMMA SameNameKept ==
    ASSUME NEW s \in States, Numbered(s), NEW name \in HnNames \cup Bridges,
           NEW ip \in Hosts \X STRING, NEW d \in Data, NEW u \in States,
           NEW i, i = getMdnsRecordForIpAddr(s.store, ip), SameRecord(s, i, name),
           u.store = WithData(s.store, i, d), u.key = s.key
    PROVE  /\ i \in 1 .. Len(s.store) /\ s.store[i].value.ip = ip
           /\ s.store[i].value.name = name
           /\ Len(u.store) = Len(s.store) /\ s.store \in Seq(Items) /\ u.store \in Seq(Items)
           /\ \A j \in 1 .. Len(s.store) :
                 /\ u.store[j].key = s.store[j].key
                 /\ u.store[j].value.ip = s.store[j].value.ip
                 /\ u.store[j].value.name = s.store[j].value.name
                 /\ u.store[j].value.data = IF j = i THEN d ELSE s.store[j].value.data
<1>1. s.store \in Seq(Items) /\ u.store \in Seq(Items)
    BY StateFacts
<1>2. i \in 0 .. Len(s.store) /\ (i # 0 => s.store[i].value.ip = ip)
    BY <1>1, RecordFound
<1>3. i \in 1 .. Len(s.store) /\ s.store[i].value.name = name
    BY <1>2 DEF SameRecord
<1>4. /\ Len(u.store) = Len(s.store)
      /\ \A j \in 1 .. Len(s.store) : j # i => u.store[j] = s.store[j]
      /\ u.store[i].key = s.store[i].key
      /\ u.store[i].value =
            [ip |-> s.store[i].value.ip, name |-> s.store[i].value.name, data |-> d]
    BY <1>1, <1>3, WithDataFacts
<1>5. /\ u.store[i].value.ip = s.store[i].value.ip
      /\ u.store[i].value.name = s.store[i].value.name
      /\ u.store[i].value.data = d
    BY <1>4
<1>6. ASSUME NEW j \in 1 .. Len(s.store)
      PROVE  /\ u.store[j].key = s.store[j].key
             /\ u.store[j].value.ip = s.store[j].value.ip
             /\ u.store[j].value.name = s.store[j].value.name
             /\ u.store[j].value.data = IF j = i THEN d ELSE s.store[j].value.data
    <2>1. CASE j = i
        BY <1>4, <1>5, <2>1
    <2>2. CASE j # i
        BY <1>4, <2>2
    <2> QED
        BY <2>1, <2>2
<1>7. s.store[i].value.ip = ip
    BY <1>2, <1>3
<1> QED
    BY <1>1, <1>3, <1>4, <1>6, <1>7

\* AddRecord: another name, or no record, puts a new one in front.
LEMMA NewNameKept ==
    ASSUME NEW s \in States, Numbered(s), NEW name \in HnNames \cup Bridges,
           NEW ip \in Hosts \X STRING, NEW d \in Data, NEW u \in States,
           u.store = <<NewItem(s, name, ip, d)>> \o s.store, u.key = s.key + 1
    PROVE  LET x == NewItem(s, name, ip, d) IN
           /\ x \in Items /\ x.key = u.key
           /\ x.value.ip = ip /\ x.value.name = name /\ x.value.data = d
           /\ Len(u.store) = Len(s.store) + 1 /\ s.store \in Seq(Items)
           /\ u.store[1] = x /\ u.store = <<x>> \o s.store
           /\ \A j \in 1 .. Len(s.store) : u.store[j + 1] = s.store[j]
           /\ \A j \in 1 .. Len(u.store) :
                 \/ j = 1
                 \/ j - 1 \in 1 .. Len(s.store) /\ u.store[j] = s.store[j - 1]
<1> DEFINE x == NewItem(s, name, ip, d)
<1>1. x \in Items
    BY NewItemFacts
<1>2. /\ x.key = u.key /\ x.value.ip = ip /\ x.value.name = name /\ x.value.data = d
    BY DEF NewItem, Item
<1>3. s.store \in Seq(Items)
    BY StateFacts
<1> HIDE DEF x
<1>4. u.store = <<x>> \o s.store
    BY DEF x
<1>5. /\ Len(u.store) = Len(s.store) + 1 /\ u.store[1] = x
      /\ \A j \in 1 .. Len(s.store) : u.store[j + 1] = s.store[j]
      /\ \A j \in 1 .. Len(u.store) :
            \/ j = 1
            \/ j - 1 \in 1 .. Len(s.store) /\ u.store[j] = s.store[j - 1]
    BY <1>1, <1>3, <1>4, InFront
<1> QED
    BY <1>1, <1>2, <1>3, <1>4, <1>5 DEF x

\* The announcement of one answer keeps the store numbered, keeps its records,
\* and is found under its address.
LEMMA KeptNumbered ==
    ASSUME NEW s \in States, Numbered(s), NEW name \in HnNames \cup Bridges,
           NEW ip \in Hosts \X STRING, NEW d \in Data, NEW u \in States,
           Kept(s, u, name, ip, d)
    PROVE  Numbered(u) /\ Grows(s, u)
<1> DEFINE i == getMdnsRecordForIpAddr(s.store, ip)
<1>1. s.key = Len(s.store) /\ Len(s.store) \in Nat /\ s.key \in Nat
    BY NumberedIssued
<1>2. CASE SameRecord(s, i, name)
    <2>1. u.store = WithData(s.store, i, d) /\ u.key = s.key
        BY <1>2 DEF Kept
    <2>2. /\ Len(u.store) = Len(s.store)
          /\ \A j \in 1 .. Len(s.store) :
                 /\ u.store[j].key = s.store[j].key
                 /\ u.store[j].value.ip = s.store[j].value.ip
                 /\ u.store[j].value.name = s.store[j].value.name
        BY <1>2, <2>1, SameNameKept
    <2>3. Numbered(u)
        BY <1>1, <2>1, <2>2 DEF Numbered
    <2>4. \A j \in 1 .. s.key : j + (u.key - s.key) = j
        BY <1>1, <2>1
    <2>5. Grows(s, u)
        BY <1>1, <2>1, <2>2, <2>4 DEF Grows
    <2> QED
        BY <2>3, <2>5
<1>3. CASE ~SameRecord(s, i, name)
    <2> DEFINE x == NewItem(s, name, ip, d)
    <2>1. u.store = <<x>> \o s.store /\ u.key = s.key + 1
        BY <1>3 DEF Kept
    <2>2. /\ Len(u.store) = Len(s.store) + 1 /\ u.store[1] = x /\ x.key = u.key
          /\ \A j \in 1 .. Len(s.store) : u.store[j + 1] = s.store[j]
          /\ \A j \in 1 .. Len(u.store) :
                 \/ j = 1
                 \/ j - 1 \in 1 .. Len(s.store) /\ u.store[j] = s.store[j - 1]
        BY <2>1, NewNameKept
    <2> HIDE DEF x
    <2>3. ASSUME NEW j \in 1 .. Len(u.store) PROVE u.store[j].key = u.key + 1 - j
        <3>1. CASE j = 1
            BY <1>1, <2>1, <2>2, <3>1
        <3>2. CASE j # 1
            <4>1. j - 1 \in 1 .. Len(s.store) /\ u.store[j] = s.store[j - 1]
                BY <2>2, <3>2
            <4>2. s.store[j - 1].key = s.key + 1 - (j - 1)
                BY <4>1 DEF Numbered
            <4> QED
                BY <1>1, <2>1, <4>1, <4>2
        <3> QED
            BY <3>1, <3>2
    <2>4. Numbered(u)
        BY <1>1, <2>1, <2>2, <2>3 DEF Numbered
    <2>5. \A j \in 1 .. s.key : j + (u.key - s.key) = j + 1
        BY <1>1, <2>1
    <2>6. Grows(s, u)
        BY <1>1, <2>1, <2>2, <2>5 DEF Grows
    <2> QED
        BY <2>4, <2>6
<1> QED
    BY <1>2, <1>3

\* Either way the store goes on knowing what was heard.
LEMMA KeptLinked ==
    ASSUME NEW s \in States, Numbered(s), NEW name \in HnNames \cup Bridges,
           NEW ip \in Hosts \X STRING, NEW d \in Data, NEW u \in States,
           Kept(s, u, name, ip, d), NEW h \in Hearings, NEW g \in Hearings,
           Linked(s.store, h), map_keys(g) = map_keys(h) \cup {ip},
           map_get(g, ip, << >>) = [name |-> name, data |-> d],
           \A x \in map_keys(h) : x # ip => map_get(g, x, << >>) = map_get(h, x, << >>)
    PROVE  Linked(u.store, g)
<1> DEFINE i == getMdnsRecordForIpAddr(s.store, ip)
<1>1. \A q \in map_keys(g) : q = ip \/ (q # ip /\ q \in map_keys(h))
    OBVIOUS
<1>2. map_get(g, ip, << >>).name = name /\ map_get(g, ip, << >>).data = d
    OBVIOUS
<1>3. CASE SameRecord(s, i, name)
    <2> HIDE DEF i
    <2>0. u.store = WithData(s.store, i, d) /\ u.key = s.key
          /\ i = getMdnsRecordForIpAddr(s.store, ip)
        BY <1>3 DEF Kept, i
    <2>1. /\ i \in 1 .. Len(s.store) /\ s.store[i].value.ip = ip
          /\ s.store[i].value.name = name
          /\ Len(u.store) = Len(s.store) /\ s.store \in Seq(Items) /\ u.store \in Seq(Items)
          /\ \A j \in 1 .. Len(s.store) :
                 /\ u.store[j].value.ip = s.store[j].value.ip
                 /\ u.store[j].value.name = s.store[j].value.name
                 /\ u.store[j].value.data = IF j = i THEN d ELSE s.store[j].value.data
        BY <1>3, <2>0, SameNameKept
    <2>2. Latest(u.store, g, ip)
        <3>1. getMdnsRecordForIpAddr(u.store, ip) = i /\ i # 0
            <4>1. i # 0 /\ getMdnsRecordForIpAddr(s.store, ip) # 0
                BY <2>0, <2>1
            <4>2. getMdnsRecordForIpAddr(u.store, ip) = getMdnsRecordForIpAddr(s.store, ip)
                BY <2>1, <4>1, SameFound
            <4> QED
                BY <2>0, <4>1, <4>2
        <3> QED
            BY <1>2, <2>1, <3>1 DEF Latest
    <2>3. ASSUME NEW q \in map_keys(h), q # ip PROVE Latest(u.store, g, q)
        <3> DEFINE k == getMdnsRecordForIpAddr(s.store, q)
        <3>1. /\ k # 0 /\ s.store[k].value.name = map_get(h, q, << >>).name
              /\ s.store[k].value.data = map_get(h, q, << >>).data
            BY DEF Linked, Latest
        <3>2. k \in 0 .. Len(s.store) /\ s.store[k].value.ip = q
            BY <2>1, <3>1, RecordFound
        <3>3. getMdnsRecordForIpAddr(u.store, q) = k
            BY <2>1, <3>1, SameFound
        <3> HIDE DEF k
        <3>4. k \in 1 .. Len(s.store) /\ k # i
            BY <2>1, <2>3, <3>1, <3>2
        <3>5. u.store[k].value.name = s.store[k].value.name
              /\ u.store[k].value.data = s.store[k].value.data
            BY <2>1, <3>4
        <3>6. map_get(g, q, << >>) = map_get(h, q, << >>)
            BY <2>3
        <3> QED
            BY <3>1, <3>3, <3>5, <3>6 DEF Latest
    <2>4. \A j \in 1 .. Len(u.store) : u.store[j].value.ip \in map_keys(g)
        BY <2>1 DEF Linked
    <2> QED
        BY <1>1, <2>2, <2>3, <2>4 DEF Linked
<1>4. CASE ~SameRecord(s, i, name)
    <2> DEFINE x == NewItem(s, name, ip, d)
    <2>0. u.store = <<x>> \o s.store /\ u.key = s.key + 1
        BY <1>4 DEF Kept
    <2>1. /\ Len(u.store) = Len(s.store) + 1 /\ u.store[1] = x /\ x \in Items
          /\ x.value.ip = ip /\ x.value.name = name /\ x.value.data = d
          /\ s.store \in Seq(Items)
          /\ \A j \in 1 .. Len(s.store) : u.store[j + 1] = s.store[j]
          /\ \A j \in 1 .. Len(u.store) :
                 \/ j = 1
                 \/ j - 1 \in 1 .. Len(s.store) /\ u.store[j] = s.store[j - 1]
        BY <2>0, NewNameKept
    <2> HIDE DEF x, i
    <2>2. Latest(u.store, g, ip)
        <3>1. getMdnsRecordForIpAddr(u.store, ip) = 1
            BY <2>0, <2>1, FrontFound
        <3> QED
            BY <1>2, <2>1, <3>1 DEF Latest
    <2>3. ASSUME NEW q \in map_keys(h), q # ip PROVE Latest(u.store, g, q)
        <3> DEFINE k == getMdnsRecordForIpAddr(s.store, q)
        <3>1. /\ k # 0 /\ s.store[k].value.name = map_get(h, q, << >>).name
              /\ s.store[k].value.data = map_get(h, q, << >>).data
            BY DEF Linked, Latest
        <3>2. k \in 0 .. Len(s.store)
            BY <2>1, <3>1, RecordFound
        <3>3. getMdnsRecordForIpAddr(u.store, q) = k + 1
            BY <2>0, <2>1, <2>3, <3>1, FrontFound
        <3> HIDE DEF k
        <3>4. k \in 1 .. Len(s.store) /\ k + 1 # 0
            BY <3>1, <3>2
        <3>5. u.store[k + 1] = s.store[k]
            BY <2>1, <3>4
        <3>6. map_get(g, q, << >>) = map_get(h, q, << >>)
            BY <2>3
        <3> QED
            BY <3>1, <3>3, <3>4, <3>5, <3>6 DEF Latest
    <2>4. ASSUME NEW j \in 1 .. Len(u.store) PROVE u.store[j].value.ip \in map_keys(g)
        BY <2>1 DEF Linked
    <2> QED
        BY <1>1, <2>2, <2>3, <2>4 DEF Linked
<1> QED
    BY <1>3, <1>4

\* A store nobody touched stays numbered.
LEMMA SameStore ==
    ASSUME NEW s \in States, Numbered(s), NEW u \in States,
           u.store = s.store, u.key = s.key
    PROVE  Numbered(u) /\ Grows(s, u)
<1>1. s.key \in Nat
    BY StateFacts
<1>2. \A j \in 1 .. s.key : j + (u.key - s.key) = j
    BY <1>1
<1> QED
    BY <1>1, <1>2 DEF Numbered, Grows

\* Whether it stands in the answer's own words (Announces) or is skipped: after an
\* answer the store and what the reference heard are still linked.
LEMMA AnswerFacts ==
    ASSUME NEW b \in Bridges, NEW s \in States, Numbered(s), NEW from \in Hosts, NEW a \in Answers,
           NEW h \in Hearings, Linked(s.store, h)
    PROVE  LET u == Answer(b, s, from, a) IN
           /\ u \in States /\ Numbered(u) /\ Grows(s, u)
           /\ Linked(u.store, Told(b, h, from, a))
<1> DEFINE u == Answer(b, s, from, a)
           t == [s EXCEPT !.rec = NoRecord, !.stop = FALSE]
<1>1. u \in States
    BY AnswerType
<1>2. t \in States /\ t.store = s.store /\ t.key = s.key /\ t.rec = 0 /\ ~t.stop
    BY BlankState
<1>3. Numbered(t) /\ Issued(t)
    <2> HIDE DEF t
    <2>1. Numbered(t)
        BY <1>2, SameStore
    <2> QED
        BY <1>2, <2>1, NumberedIssued
<1>4. a.txt \in Seq(Pairs)
    BY DEF Answers, Pairs
<1>5. CASE ~Announces(b, a)
    <2>1. Told(b, h, from, a) = h
        BY <1>5 DEF Told
    <2>2. u.store = s.store /\ u.key = s.key
        <3>1. CASE ~Wanted(b, a.name)
            BY <3>1 DEF Answer
        <3>2. CASE Wanted(b, a.name)
            <4>1. a.name \in HnNames \cup Bridges /\ (a.txt # << >> => a.txt[1][1] # "PORT")
                BY <1>5, <3>2 DEF Announces, Wanted
            <4>2. u = Fields(t, from, a.name, a.txt)
                BY <3>2 DEF Answer
            <4> HIDE DEF t, u
            <4> QED
                BY <1>2, <1>4, <4>1, <4>2, FieldsQuiet
        <3> QED
            BY <3>1, <3>2
    <2> HIDE DEF u
    <2>3. Numbered(u) /\ Grows(s, u)
        BY <1>1, <2>2, SameStore
    <2> QED
        BY <1>1, <2>1, <2>2, <2>3 DEF u
<1>6. CASE Announces(b, a)
    <2> DEFINE ip == <<from, a.txt[1][2]>>
               d == FieldMap(Tail(a.txt))
               v == [name |-> a.name, data |-> d]
               g == Told(b, h, from, a)
    <2>1. /\ a.name \in HnNames \cup Bridges /\ a.txt # << >> /\ a.txt[1][1] = "PORT"
        BY <1>6 DEF Announces, Wanted
    <2>2. Tail(a.txt) \in Seq(Pairs) /\ a.txt[1] \in Pairs
        BY <1>4, <2>1
    <2>3. d \in Data
        BY <2>2, FieldMapType
    <2>4. ip \in Hosts \X STRING
        BY <2>2 DEF Pairs
    <2>5. g = map_set(h, ip, v) /\ g \in Hearings
        BY <1>6, ToldType DEF Told
    <2>6. u = Fields(t, from, a.name, a.txt)
        BY <1>6 DEF Answer, Announces
    <2> HIDE DEF t, u
    <2>7. Kept(t, u, a.name, ip, d)
        BY <1>2, <1>3, <1>4, <2>1, <2>6, FieldsKept
    <2> HIDE DEF ip, d, g
    <2>8. Numbered(u) /\ Grows(t, u)
        BY <1>1, <1>2, <1>3, <2>1, <2>3, <2>4, <2>7, KeptNumbered
    <2>9. Grows(s, u)
        BY <1>2, <2>8 DEF Grows
    <2>10. /\ map_keys(g) = map_keys(h) \cup {ip} /\ map_get(g, ip, << >>) = v
           /\ \A x \in map_keys(h) : x # ip => map_get(g, x, << >>) = map_get(h, x, << >>)
        <3> DEFINE K == Hosts \X STRING
                   V == [name : HnNames \cup Bridges, data : Data]
        <3>1. h \in Seq([key : K, value : V]) /\ ip \in K
            BY <2>4 DEF Hearings
        <3>2. v \in V
            BY <2>1, <2>3
        <3> DEFINE none == << >>
        <3> HIDE DEF K, V, v, none
        <3>3. SetAt(map_set(h, ip, v), h, ip, v, none)
            BY <3>1, <3>2, MapSetGet DEF Maps
        <3> QED
            BY <2>5, <3>3 DEF none, SetAt
    <2>11. Linked(u.store, g)
        BY <1>1, <1>2, <1>3, <2>1, <2>3, <2>4, <2>5, <2>7, <2>10, KeptLinked
    <2> QED
        BY <1>1, <2>8, <2>9, <2>11 DEF u, g
<1> QED
    BY <1>5, <1>6

\* Stores that grow one after the other.
LEMMA GrowsOn ==
    ASSUME NEW r \in States, NEW s \in States, NEW t \in States,
           Numbered(r), Numbered(s), Numbered(t), Grows(r, s), Grows(s, t)
    PROVE  Grows(r, t)
<1>1. r.key \in Nat /\ s.key \in Nat /\ t.key \in Nat /\ r.key <= s.key /\ s.key <= t.key
    BY StateFacts DEF Grows
<1>2. ASSUME NEW j \in 1 .. r.key
      PROVE  /\ t.store[j + (t.key - r.key)].value.ip = r.store[j].value.ip
             /\ t.store[j + (t.key - r.key)].value.name = r.store[j].value.name
    <2> DEFINE k == j + (s.key - r.key)
    <2>1. k \in 1 .. s.key /\ k + (t.key - s.key) = j + (t.key - r.key)
        BY <1>1
    <2>2. /\ s.store[k].value.ip = r.store[j].value.ip
          /\ s.store[k].value.name = r.store[j].value.name
        BY DEF Grows
    <2> HIDE DEF k
    <2>3. /\ t.store[k + (t.key - s.key)].value.ip = s.store[k].value.ip
          /\ t.store[k + (t.key - s.key)].value.name = s.store[k].value.name
        BY <2>1 DEF Grows
    <2> QED
        BY <2>1, <2>2, <2>3
<1> QED
    BY <1>1, <1>2 DEF Grows

\* All answers of a packet.
LEMMA AnswersFacts ==
    ASSUME NEW b \in Bridges, NEW s \in States, Numbered(s), NEW from \in Hosts,
           NEW answers \in Seq(Answers), NEW h \in Hearings, Linked(s.store, h)
    PROVE  LET u == AllAnswers(b, s, from, answers) IN
           /\ u \in States /\ Numbered(u) /\ Grows(s, u)
           /\ AllTold(b, h, from, answers) \in Hearings
           /\ Linked(u.store, AllTold(b, h, from, answers))
<1>1. PICK f \in [0 .. Len(answers) -> States] :
         /\ f[0] = s
         /\ \A n \in 1 .. Len(answers) : f[n] = Answer(b, f[n - 1], from, answers[n])
         /\ AllAnswers(b, s, from, answers) = f[Len(answers)]
    BY AnswersSteps
<1>2. PICK g \in [0 .. Len(answers) -> Hearings] :
         /\ g[0] = h
         /\ \A n \in 1 .. Len(answers) : g[n] = Told(b, g[n - 1], from, answers[n])
         /\ AllTold(b, h, from, answers) = g[Len(answers)]
    BY ToldSteps
<1> DEFINE N == Len(answers)
           Q(n) == Numbered(f[n]) /\ Grows(s, f[n]) /\ Linked(f[n].store, g[n])
           S == {n \in Nat : n <= N => Q(n)}
<1>3. 0 \in S
    BY <1>1, <1>2, SameStore
<1>4. ASSUME NEW n \in Nat, n \in S PROVE n + 1 \in S
    <2> SUFFICES ASSUME n + 1 <= N PROVE Q(n + 1)
        OBVIOUS
    <2>1. N \in Nat
        OBVIOUS
    <2>2. n + 1 \in 1 .. N /\ (n + 1) - 1 = n /\ n \in 0 .. N /\ n + 1 \in 0 .. N
        BY <2>1
    <2>3. Q(n)
        BY <1>4, <2>2
    <2>4. answers[n + 1] \in Answers
        BY <2>2, ElementType
    <2>5. /\ f[n + 1] = Answer(b, f[n], from, answers[n + 1])
          /\ g[n + 1] = Told(b, g[n], from, answers[n + 1])
        BY <1>1, <1>2, <2>2
    <2>6. f[n] \in States /\ f[n + 1] \in States /\ g[n] \in Hearings
        BY <2>2
    <2>7. Numbered(f[n + 1]) /\ Grows(f[n], f[n + 1]) /\ Linked(f[n + 1].store, g[n + 1])
        BY <2>3, <2>4, <2>5, <2>6, AnswerFacts
    <2>8. Grows(s, f[n + 1])
        BY <2>3, <2>6, <2>7, GrowsOn
    <2> QED
        BY <2>7, <2>8
<1>5. N \in S
    <2>1. N \in Nat
        OBVIOUS
    <2> HIDE DEF S, N
    <2> QED
        BY <1>3, <1>4, <2>1, SetInduction
<1> QED
    BY <1>1, <1>2, <1>5

(***************************************************************************)
(* The invariant                                                           *)
(***************************************************************************)
Packets == [to : Bridges, from : Hosts, questions : Seq(STRING), answers : Seq(Answers)]

\* The types of the variables.
TypeInv ==
    /\ up \subseteq Bridges /\ now \in 0 .. MaxTime /\ ads \in 0 .. MaxAds
    /\ mdnsStore \in [Bridges -> Seq(Items)] /\ issued \in [Bridges -> Nat]
    /\ lastMdnsBroadcast \in [Bridges -> Int] /\ mdnsLastRefresh \in [Bridges -> Int]
    /\ heard \in [Bridges -> Hearings]
    /\ net \subseteq Packets /\ \A p \in net : p.to \in up

\* What handleMdnsRead starts from.
Current(b) == [store |-> mdnsStore[b], key |-> issued[b], rec |-> NoRecord, stop |-> FALSE]

\* Keys count up to the number of records, and the store knows what was heard.
StoreInv ==
    \A b \in Bridges : Numbered(Current(b)) /\ Linked(mdnsStore[b], heard[b])

\* The times a bridge remembers have passed.
TimeInv ==
    \A b \in Bridges :
        /\ lastMdnsBroadcast[b] \in {Never} \cup 0 .. now
        /\ mdnsLastRefresh[b] \in {Never} \cup 0 .. now
        /\ b \notin up => lastMdnsBroadcast[b] = Never

\* The answer of bridge b to whoever asks.
Own(b) == <<[name |-> b, txt |-> <<<<"PORT", "own">>>>]>>

\* Bridge c knows b, or is about to be told, or b is still to answer a question.
Learns(c, b) ==
    \/ Knows(c, b)
    \/ \E p \in net : p.to = c /\ p.answers = Own(b)
    \/ /\ lastMdnsBroadcast[b] = Never
       /\ \E p \in net : p.to = b /\ p.answers = << >> /\ ForUs(b, p)

\* Of two bridges that are up one learns of the other, if nothing is lost.
LearnInv ==
    ~lossy => \A b, c \in up : b # c => Learns(b, c) \/ Learns(c, b)

\* The inductive invariant.
MdnsInv == TypeInv /\ StoreInv /\ TimeInv /\ LearnInv

\* Who sends, and what.
LEMMA HostsIn == /\ \A a \in Ads : a.from \in Hosts /\ a.answers \in Seq(Answers)
                 /\ Bridges \subseteq Hosts /\ Bridges \subseteq STRING
BY NamesAssumption DEF Hosts

\* The answer of a bridge for itself is one answer.
LEMMA OwnType ==
    ASSUME NEW b \in Bridges
    PROVE  Own(b) \in Seq(Answers) /\ Len(Own(b)) = 1
           /\ Own(b)[1] = [name |-> b, txt |-> <<<<"PORT", "own">>>>]
<1> DEFINE f == <<"PORT", "own">>
<1>1. f \in STRING \X STRING
    <2>1. "PORT" \in STRING /\ "own" \in STRING
        BY NamesAssumption
    <2> QED
        BY <2>1
<1> HIDE DEF f
<1>2. <<f>> \in Seq(STRING \X STRING)
    BY <1>1
<1>3. [name |-> b, txt |-> <<f>>] \in Answers
    BY <1>2, HostsIn DEF Answers
<1>4. [name |-> b, txt |-> <<<<"PORT", "own">>>>] \in Answers
    BY <1>3 DEF f
<1> QED
    BY <1>4 DEF Own

\* The store of a bridge as the state of a walk.
LEMMA CurrentType ==
    ASSUME TypeInv, NEW b \in Bridges
    PROVE  /\ Current(b) \in States /\ Current(b).store = mdnsStore[b]
           /\ Current(b).key = issued[b]
<1>1. mdnsStore[b] \in Seq(Items) /\ issued[b] \in Nat
    BY DEF TypeInv
<1>2. Current(b) \in [store : Seq(Items), key : Nat, rec : Nat, stop : BOOLEAN]
    BY <1>1 DEF Current, NoRecord
<1>3. /\ Current(b).store = mdnsStore[b] /\ Current(b).key = issued[b]
      /\ Current(b).rec = 0
    BY DEF Current, NoRecord
<1> QED
    BY <1>1, <1>2, <1>3 DEF States

\* What handleMdnsRead does with the answers of a packet.
LEMMA HandleAnswersFacts ==
    ASSUME MdnsInv, NEW p \in net, HandleAnswers(p.to, p)
    PROVE  LET b == p.to
               s == Current(b)
               u == AllAnswers(b, s, p.from, p.answers)
               g == AllTold(b, heard[b], p.from, p.answers)
           IN /\ b \in up /\ b \in Bridges /\ p \in Packets /\ p.answers # << >>
              /\ u \in States /\ Numbered(u) /\ Grows(s, u) /\ g \in Hearings
              /\ Linked(u.store, g)
              /\ mdnsStore' = [mdnsStore EXCEPT ![b] = u.store]
              /\ issued' = [issued EXCEPT ![b] = u.key]
              /\ heard' = [heard EXCEPT ![b] = g]
              /\ net' = net \ {p}
              /\ UNCHANGED <<up, lastMdnsBroadcast, mdnsLastRefresh, now, ads, lossy>>
<1> DEFINE b == p.to
           s == Current(b)
           u == AllAnswers(b, s, p.from, p.answers)
           g == AllTold(b, heard[b], p.from, p.answers)
<1>1. p \in Packets /\ b \in up /\ b \in Bridges
    BY DEF MdnsInv, TypeInv
<1>2. p.from \in Hosts /\ p.answers \in Seq(Answers)
    BY <1>1 DEF Packets
<1>3. s \in States /\ s.store = mdnsStore[b] /\ heard[b] \in Hearings
    BY <1>1, CurrentType DEF MdnsInv, TypeInv
<1>4. Numbered(s) /\ Linked(s.store, heard[b])
    BY <1>1, <1>3 DEF MdnsInv, StoreInv
<1>5. /\ mdnsStore' = [mdnsStore EXCEPT ![b] = u.store]
      /\ issued' = [issued EXCEPT ![b] = u.key]
      /\ heard' = [heard EXCEPT ![b] = g]
      /\ net' = net \ {p} /\ p.answers # << >>
      /\ UNCHANGED <<up, lastMdnsBroadcast, mdnsLastRefresh, now, ads, lossy>>
    BY DEF HandleAnswers, Current
<1> HIDE DEF b, s
<1>6. /\ u \in States /\ Numbered(u) /\ Grows(s, u)
      /\ g \in Hearings /\ Linked(u.store, g)
    BY <1>1, <1>2, <1>3, <1>4, AnswersFacts
<1> QED
    BY <1>1, <1>5, <1>6 DEF b, s

\* No bridge is up at the start.
LEMMA InitMdns == Init => MdnsInv
<1> SUFFICES ASSUME Init PROVE MdnsInv
    OBVIOUS
<1>1. map_init \in Seq(Items) /\ map_init \in Hearings /\ Len(map_init) = 0
      /\ map_init = << >>
    BY DEF map_init, Hearings
<1>2. TypeInv
    BY <1>1, MdnsAssumption DEF Init, TypeInv
<1>3. ASSUME NEW b \in Bridges
      PROVE  Numbered(Current(b)) /\ Linked(mdnsStore[b], heard[b])
    <2>1. Current(b).store = map_init /\ Current(b).key = 0
        BY DEF Init, Current
    <2>2. mdnsStore[b] = map_init /\ heard[b] = map_init
        BY <1>1 DEF Init
    <2>3. map_keys(map_init) = {}
        BY DEF map_keys, map_init
    <2> QED
        BY <1>1, <2>1, <2>2, <2>3 DEF Numbered, Linked
<1>4. TimeInv
    BY DEF Init, TimeInv
<1>5. LearnInv
    BY DEF Init, LearnInv
<1> QED
    BY <1>2, <1>3, <1>4, <1>5 DEF MdnsInv, StoreInv

\* A step that leaves the store of every bridge alone.
LEMMA StoreStays ==
    ASSUME MdnsInv, UNCHANGED <<mdnsStore, issued, heard>>
    PROVE  StoreInv'
<1>1. \A b : Current(b)' = Current(b)
    BY DEF Current
<1> QED
    BY <1>1 DEF MdnsInv, StoreInv

\* Who is known depends on the stores only.
LEMMA KnowsStays ==
    ASSUME UNCHANGED mdnsStore, NEW b, NEW c
    PROVE  Knows(b, c)' <=> Knows(b, c)
BY DEF Knows

\* Nothing is forgotten while no packet is handled.
LEMMA LearnsStays ==
    ASSUME UNCHANGED <<mdnsStore, lastMdnsBroadcast>>, net \subseteq net',
           NEW b, NEW c, Learns(c, b)
    PROVE  Learns(c, b)'
<1>1. \A p : ForUs(b, p)' = ForUs(b, p)
    BY DEF ForUs
<1> QED
    BY <1>1, KnowsStays DEF Learns

\* The packets ps are one copy of a message for each bridge of the group.
Copies(ps, group, from, questions, answers) ==
    /\ \A p \in ps :
         /\ p \in Packets /\ p.to \in group /\ p.from = from
         /\ p.questions = questions /\ p.answers = answers
    /\ \A b \in group : \E p \in ps :
         p.to = b /\ p.questions = questions /\ p.answers = answers

\* mdns_send gives every bridge a copy.
LEMMA SentTypes ==
    ASSUME NEW group \in SUBSET Bridges, NEW from \in Hosts, NEW questions \in Seq(STRING),
           NEW answers \in Seq(Answers)
    PROVE  Copies(mdns_send(group, from, questions, answers), group, from, questions, answers)
<1> DEFINE P(b) == [to |-> b, from |-> from, questions |-> questions, answers |-> answers]
           ps == mdns_send(group, from, questions, answers)
<1>1. \A b \in group : /\ P(b) \in Packets /\ P(b).to = b /\ P(b).from = from
                       /\ P(b).questions = questions /\ P(b).answers = answers
    BY DEF Packets
<1>2. ps = {P(b) : b \in group}
    BY DEF mdns_send
<1> HIDE DEF P, ps
<1>3. \A p \in ps : \E b \in group : p = P(b)
    BY <1>2
<1>4. \A b \in group : P(b) \in ps
    BY <1>2
<1>5. \A p \in ps : /\ p \in Packets /\ p.to \in group /\ p.from = from
                    /\ p.questions = questions /\ p.answers = answers
    BY <1>1, <1>3
<1>6. \A b \in group : \E p \in ps :
         p.to = b /\ p.questions = questions /\ p.answers = answers
    BY <1>1, <1>4
<1> QED
    BY <1>5, <1>6 DEF Copies, ps

\* sendMdnsQuery does.
LEMMA QueryTypes ==
    ASSUME NEW group \in SUBSET Bridges, NEW b \in Bridges,
           NEW name \in {"hn.local", "bridge.hn.local"}
    PROVE  Copies(sendMdnsQuery(group, b, name), group, b, <<name>>, << >>)
<1> DEFINE questions == <<name>>
           answers == << >>
<1>1. name \in STRING /\ b \in Hosts
    BY NamesAssumption, HostsIn
<1>2. questions \in Seq(STRING) /\ answers \in Seq(Answers)
    BY <1>1
<1>3. sendMdnsQuery(group, b, name) = mdns_send(group, b, questions, answers)
    BY DEF sendMdnsQuery
<1> HIDE DEF questions, answers
<1>4. Copies(mdns_send(group, b, questions, answers), group, b, questions, answers)
    BY <1>1, <1>2, SentTypes
<1> QED
    BY <1>3, <1>4 DEF questions, answers

(***************************************************************************)
(* The steps                                                               *)
(***************************************************************************)
\* A step that only sends: the store and the times of every bridge stay.
LEMMA SendStep ==
    ASSUME MdnsInv, UNCHANGED <<context, lossy, heard, now>>,
           UNCHANGED up, ads' \in 0 .. MaxAds, NEW ps, net' = net \cup ps,
           \A p \in ps : p \in Packets /\ p.to \in up
    PROVE  MdnsInv'
<1>1. TypeInv'
    BY DEF MdnsInv, TypeInv, context
<1>2. StoreInv'
    BY StoreStays DEF context
<1>3. TimeInv'
    BY DEF MdnsInv, TimeInv, context
<1>4. LearnInv'
    <2> SUFFICES ASSUME ~lossy', NEW b \in up', NEW c \in up', b # c
                 PROVE  Learns(b, c)' \/ Learns(c, b)'
        BY DEF LearnInv
    <2>1. Learns(b, c) \/ Learns(c, b)
        BY DEF MdnsInv, LearnInv
    <2> QED
        BY <2>1, LearnsStays DEF context
<1> QED
    BY <1>1, <1>2, <1>3, <1>4 DEF MdnsInv

\* A service announces itself.
LEMMA AnnounceStep ==
    ASSUME MdnsInv, NEW a \in Ads, Announce(a)
    PROVE  MdnsInv'
<1> DEFINE none == << >>
           ps == mdns_send(up \cap a.reach, a.from, none, a.answers)
<1>1. a.from \in Hosts /\ a.answers \in Seq(Answers) /\ none \in Seq(STRING)
    BY HostsIn
<1>2. up \cap a.reach \in SUBSET Bridges
    BY DEF MdnsInv, TypeInv
<1>3. /\ net' = net \cup ps /\ UNCHANGED <<up, context, now, lossy, heard>>
      /\ ads < MaxAds /\ ads' = ads + 1
    BY DEF Announce
<1> HIDE DEF none
<1>4. Copies(ps, up \cap a.reach, a.from, none, a.answers)
    BY <1>1, <1>2, SentTypes
<1>5. \A p \in ps : p \in Packets /\ p.to \in up
    BY <1>4 DEF Copies
<1>6. ads' \in 0 .. MaxAds
    BY <1>3, MdnsAssumption DEF MdnsInv, TypeInv
<1> HIDE DEF ps
<1> QED
    BY <1>3, <1>5, <1>6, SendStep

\* A bridge asks the services again.
LEMMA HouseKeepingStep ==
    ASSUME MdnsInv, NEW b \in Bridges, HouseKeeping(b)
    PROVE  MdnsInv'
<1> DEFINE ps == sendMdnsQuery(up, b, "hn.local")
<1>1. up \in SUBSET Bridges
    BY DEF MdnsInv, TypeInv
<1>2. Copies(ps, up, b, <<"hn.local">>, << >>)
    BY <1>1, QueryTypes
<1>3. \A p \in ps : p \in Packets /\ p.to \in up
    BY <1>2 DEF Copies
<1>4. /\ net' = net \cup ps /\ mdnsLastRefresh' = [mdnsLastRefresh EXCEPT ![b] = now]
      /\ UNCHANGED <<up, mdnsStore, lastMdnsBroadcast, issued, now, ads, lossy, heard>>
    BY DEF HouseKeeping
<1> HIDE DEF ps
<1>5. TypeInv'
    BY <1>3, <1>4 DEF MdnsInv, TypeInv
<1>6. StoreInv'
    BY <1>4, StoreStays
<1>7. TimeInv'
    BY <1>4 DEF MdnsInv, TimeInv, TypeInv
<1>8. LearnInv'
    <2> SUFFICES ASSUME ~lossy', NEW d \in up', NEW c \in up', d # c
                 PROVE  Learns(d, c)' \/ Learns(c, d)'
        BY DEF LearnInv
    <2>1. Learns(d, c) \/ Learns(c, d)
        BY <1>4 DEF MdnsInv, LearnInv
    <2> QED
        BY <1>4, <2>1, LearnsStays
<1> QED
    BY <1>5, <1>6, <1>7, <1>8 DEF MdnsInv

\* The query of a bridge that starts comes back to itself, and it has answered
\* nobody yet: it is going to tell every bridge that runs.
LEMMA StartStep ==
    ASSUME MdnsInv, NEW b \in Bridges, Start(b)
    PROVE  MdnsInv'
<1> DEFINE ps == sendMdnsQuery(up', b, "bridge.hn.local")
<1>1. up' = up \cup {b} /\ b \notin up /\ net' = net \cup ps
      /\ UNCHANGED <<mdnsStore, lastMdnsBroadcast, mdnsLastRefresh, issued, now, ads,
                     lossy, heard>>
    BY DEF Start, context
<1>2. up' \in SUBSET Bridges
    BY <1>1 DEF MdnsInv, TypeInv
<1>3. Copies(ps, up', b, <<"bridge.hn.local">>, << >>)
    BY <1>2, QueryTypes
<1>4. \A p \in ps : p \in Packets /\ p.to \in up'
    BY <1>3 DEF Copies
<1>5. \E p \in ps : p.to = b /\ p.answers = << >> /\ ForUs(b, p)
    <2>1. PICK p \in ps : p.to = b /\ p.questions = <<"bridge.hn.local">> /\ p.answers = << >>
        BY <1>1, <1>3 DEF Copies
    <2>2. 1 \in DOMAIN p.questions /\ p.questions[1] = "bridge.hn.local"
        BY <2>1
    <2>3. ForUs(b, p)
        BY <2>2 DEF ForUs
    <2> QED
        BY <2>1, <2>3
<1> HIDE DEF ps
<1>6. TypeInv'
    BY <1>1, <1>2, <1>4 DEF MdnsInv, TypeInv
<1>7. StoreInv'
    BY <1>1, StoreStays
<1>8. TimeInv'
    BY <1>1 DEF MdnsInv, TimeInv
<1>9. LearnInv'
    <2> SUFFICES ASSUME ~lossy', NEW d \in up', NEW c \in up', d # c
                 PROVE  Learns(d, c)' \/ Learns(c, d)'
        BY DEF LearnInv
    <2>1. \A e : Learns(e, b)'
        <3>1. lastMdnsBroadcast'[b] = Never
            BY <1>1 DEF MdnsInv, TimeInv
        <3>2. \E p \in net' : p.to = b /\ p.answers = << >> /\ ForUs(b, p)'
            BY <1>1, <1>5 DEF ForUs
        <3> QED
            BY <3>1, <3>2 DEF Learns
    <2>2. CASE d = b \/ c = b
        BY <2>1, <2>2
    <2>3. CASE d # b /\ c # b
        <3>1. Learns(d, c) \/ Learns(c, d)
            BY <1>1, <2>3 DEF MdnsInv, LearnInv
        <3> QED
            BY <1>1, <3>1, LearnsStays
    <2> QED
        BY <2>2, <2>3
<1> QED
    BY <1>6, <1>7, <1>8, <1>9 DEF MdnsInv

\* Time passes.
LEMMA TickStep ==
    ASSUME MdnsInv, Tick
    PROVE  MdnsInv'
<1>1. /\ now < MaxTime /\ now' = now + 1
      /\ UNCHANGED <<up, mdnsStore, lastMdnsBroadcast, mdnsLastRefresh, issued, net, ads,
                     lossy, heard>>
    BY DEF Tick, context
<1>2. now \in Nat /\ now' \in 0 .. MaxTime /\ 0 .. now \subseteq 0 .. now'
    BY <1>1, MdnsAssumption DEF MdnsInv, TypeInv
<1>3. TypeInv'
    BY <1>1, <1>2 DEF MdnsInv, TypeInv
<1>4. StoreInv'
    BY <1>1, StoreStays
<1>5. TimeInv'
    BY <1>1, <1>2 DEF MdnsInv, TimeInv
<1>6. LearnInv'
    <2> SUFFICES ASSUME ~lossy', NEW d \in up', NEW c \in up', d # c
                 PROVE  Learns(d, c)' \/ Learns(c, d)'
        BY DEF LearnInv
    <2>1. Learns(d, c) \/ Learns(c, d)
        BY <1>1 DEF MdnsInv, LearnInv
    <2> QED
        BY <1>1, <2>1, LearnsStays
<1> QED
    BY <1>3, <1>4, <1>5, <1>6 DEF MdnsInv

\* A step that takes a packet off the network and leaves the bridges alone.
LEMMA DropStep ==
    ASSUME MdnsInv, UNCHANGED <<up, context, now, ads, lossy, heard>>,
           NEW p \in net, net' = net \ {p}
    PROVE  TypeInv' /\ StoreInv' /\ TimeInv'
<1>1. UNCHANGED <<up, mdnsStore, lastMdnsBroadcast, mdnsLastRefresh, issued, now, ads,
                  lossy, heard>>
    BY DEF context
<1>2. TypeInv'
    BY <1>1 DEF MdnsInv, TypeInv
<1>3. StoreInv'
    BY <1>1, StoreStays
<1>4. TimeInv'
    BY <1>1 DEF MdnsInv, TimeInv
<1> QED
    BY <1>2, <1>3, <1>4

\* A packet is lost.
LEMMA LoseStep ==
    ASSUME MdnsInv, NEW p \in net, Lose(p)
    PROVE  MdnsInv'
<1>1. TypeInv' /\ StoreInv' /\ TimeInv'
    BY DropStep DEF Lose
<1>2. LearnInv'
    BY DEF Lose, LearnInv
<1> QED
    BY <1>1, <1>2 DEF MdnsInv

\* An answer cannot be sent.
LEMMA HandleQuestionUnsentStep ==
    ASSUME MdnsInv, NEW p \in net, HandleQuestionUnsent(p.to, p)
    PROVE  MdnsInv'
<1>1. TypeInv' /\ StoreInv' /\ TimeInv'
    BY DropStep DEF HandleQuestionUnsent
<1>2. LearnInv'
    BY DEF HandleQuestionUnsent, LearnInv
<1> QED
    BY <1>1, <1>2 DEF MdnsInv

\* A bridge has something to say of itself.
LEMMA OwnSays ==
    ASSUME NEW b \in Bridges
    PROVE  Own(b) # << >>
<1>1. Len(Own(b)) = 1
    BY OwnType
<1> QED
    BY <1>1

\* A question is dropped only by a bridge it is not for or that has answered.
LEMMA HandleQuestionNotStep ==
    ASSUME MdnsInv, NEW p \in net, HandleQuestionNot(p.to, p)
    PROVE  MdnsInv'
<1>1. TypeInv' /\ StoreInv' /\ TimeInv'
    BY DropStep DEF HandleQuestionNot
<1>2. /\ UNCHANGED <<up, mdnsStore, lastMdnsBroadcast, lossy>> /\ net' = net \ {p}
      /\ p.answers = << >> /\ (TooSoon(p.to) \/ ~ForUs(p.to, p))
    BY DEF HandleQuestionNot, context
<1>3. LearnInv'
    <2> SUFFICES ASSUME ~lossy', NEW d \in up', NEW c \in up', d # c
                 PROVE  Learns(d, c)' \/ Learns(c, d)'
        BY DEF LearnInv
    <2>1. Learns(d, c) \/ Learns(c, d)
        BY <1>2 DEF MdnsInv, LearnInv
    <2>2. ASSUME NEW e \in up, NEW f \in up, Learns(e, f) PROVE Learns(e, f)'
        <3>0. f \in Bridges
            BY DEF MdnsInv, TypeInv
        <3>1. CASE Knows(e, f)
            BY <1>2, <3>1, KnowsStays DEF Learns
        <3>2. CASE \E q \in net : q.to = e /\ q.answers = Own(f)
            <4>1. PICK q \in net : q.to = e /\ q.answers = Own(f)
                BY <3>2
            <4>2. q # p
                BY <1>2, <3>0, <4>1, OwnSays
            <4>3. q \in net'
                BY <1>2, <4>2
            <4> QED
                BY <4>1, <4>3 DEF Learns
        <3>3. CASE /\ lastMdnsBroadcast[f] = Never
                   /\ \E q \in net : q.to = f /\ q.answers = << >> /\ ForUs(f, q)
            <4>1. PICK q \in net : q.to = f /\ q.answers = << >> /\ ForUs(f, q)
                BY <3>3
            <4>2. ~TooSoon(f)
                BY <3>3, MdnsAssumption DEF TooSoon, MdnsInv, TypeInv
            <4>3. q # p
                BY <1>2, <4>1, <4>2
            <4>4. q \in net' /\ ForUs(f, q)' /\ lastMdnsBroadcast'[f] = Never
                BY <1>2, <3>3, <4>1, <4>3 DEF ForUs
            <4> QED
                BY <4>1, <4>4 DEF Learns
        <3> QED
            BY <2>2, <3>1, <3>2, <3>3 DEF Learns
    <2> QED
        BY <1>2, <2>1, <2>2
<1> QED
    BY <1>1, <1>3 DEF MdnsInv

\* An answer goes to every bridge that runs.
LEMMA HandleQuestionStep ==
    ASSUME MdnsInv, NEW p \in net, HandleQuestion(p.to, p)
    PROVE  MdnsInv'
<1> DEFINE b == p.to
           ps == mdns_send(up, b, p.questions, Own(b))
<1>1. /\ net' = (net \ {p}) \cup ps /\ p.answers = << >>
      /\ lastMdnsBroadcast' = [lastMdnsBroadcast EXCEPT ![b] = now]
      /\ UNCHANGED <<up, mdnsStore, mdnsLastRefresh, issued, now, ads, lossy, heard>>
    BY DEF HandleQuestion, Asked, Broadcasted, Own
<1>2. up \in SUBSET Bridges /\ b \in up /\ p \in Packets
    BY DEF MdnsInv, TypeInv
<1>3. b \in Bridges /\ b \in Hosts /\ p.questions \in Seq(STRING) /\ Own(b) \in Seq(Answers)
    BY <1>2, HostsIn, OwnType DEF Packets
<1>4. Copies(ps, up, b, p.questions, Own(b))
    BY <1>2, <1>3, SentTypes
<1>5. \A q \in ps : q \in Packets /\ q.to \in up
    BY <1>4 DEF Copies
<1>6. \A c \in up : \E q \in ps : q.to = c /\ q.answers = Own(b)
    BY <1>4 DEF Copies
<1> HIDE DEF ps
<1>7. TypeInv'
    BY <1>1, <1>3, <1>5 DEF MdnsInv, TypeInv
<1>8. StoreInv'
    BY <1>1, StoreStays
<1>9. TimeInv'
    BY <1>1, <1>2, <1>3 DEF MdnsInv, TimeInv, TypeInv
<1>10. LearnInv'
    <2> SUFFICES ASSUME ~lossy', NEW d \in up', NEW c \in up', d # c
                 PROVE  Learns(d, c)' \/ Learns(c, d)'
        BY DEF LearnInv
    <2>1. Learns(d, c) \/ Learns(c, d)
        BY <1>1 DEF MdnsInv, LearnInv
    <2>2. ASSUME NEW e \in up, NEW f \in up, Learns(e, f) PROVE Learns(e, f)'
        <3>0. f \in Bridges
            BY DEF MdnsInv, TypeInv
        <3>1. CASE f = b
            <4>1. \E q \in net' : q.to = e /\ q.answers = Own(f)
                BY <1>1, <1>6, <3>1
            <4> QED
                BY <4>1 DEF Learns, Own
        <3>2. CASE Knows(e, f)
            BY <1>1, <3>2, KnowsStays DEF Learns
        <3>3. CASE \E q \in net : q.to = e /\ q.answers = Own(f)
            <4>1. PICK q \in net : q.to = e /\ q.answers = Own(f)
                BY <3>3
            <4>2. q # p
                BY <1>1, <3>0, <4>1, OwnSays
            <4>3. q \in net'
                BY <1>1, <4>2
            <4> QED
                BY <4>1, <4>3 DEF Learns
        <3>4. CASE /\ f # b /\ lastMdnsBroadcast[f] = Never
                   /\ \E q \in net : q.to = f /\ q.answers = << >> /\ ForUs(f, q)
            <4>1. PICK q \in net : q.to = f /\ q.answers = << >> /\ ForUs(f, q)
                BY <3>4
            <4>2. q # p
                BY <3>4, <4>1
            <4>3. lastMdnsBroadcast'[f] = Never
                BY <1>1, <3>0, <3>4 DEF MdnsInv, TypeInv
            <4>4. q \in net' /\ ForUs(f, q)'
                BY <1>1, <4>1, <4>2 DEF ForUs
            <4> QED
                BY <4>1, <4>3, <4>4 DEF Learns
        <3> QED
            BY <2>2, <3>1, <3>2, <3>3, <3>4 DEF Learns
    <2> QED
        BY <1>1, <2>1, <2>2
<1> QED
    BY <1>7, <1>8, <1>9, <1>10 DEF MdnsInv

\* The reference hears of the bridge d from d's own answer.
LEMMA OwnHeard ==
    ASSUME NEW b \in Bridges, NEW d \in Bridges, b # d, NEW h \in Hearings, NEW from \in Hosts
    PROVE  \E ip \in map_keys(AllTold(b, h, from, Own(d))) :
              map_get(AllTold(b, h, from, Own(d)), ip, << >>).name = d
<1> DEFINE a == Own(d)[1]
           ip == <<from, a.txt[1][2]>>
           v == [name |-> a.name, data |-> FieldMap(Tail(a.txt))]
           none == << >>
<1>1. /\ Own(d) \in Seq(Answers) /\ Len(Own(d)) = 1 /\ a \in Answers
      /\ a = [name |-> d, txt |-> <<<<"PORT", "own">>>>]
    <2>1. Own(d) \in Seq(Answers) /\ Len(Own(d)) = 1
        BY OwnType
    <2>2. a \in Answers
        BY <2>1, ElementType
    <2> QED
        BY <2>1, <2>2, OwnType
<1>2. a.name = d /\ a.txt = <<<<"PORT", "own">>>>
    BY <1>1
<1>3. a.txt # << >> /\ a.txt[1][1] = "PORT" /\ a.txt \in Seq(Pairs) /\ Tail(a.txt) \in Seq(Pairs)
    <2>1. a.txt \in Seq(Pairs)
        BY <1>1 DEF Answers, Pairs
    <2>2. a.txt # << >> /\ a.txt[1][1] = "PORT"
        BY <1>2
    <2> HIDE DEF a
    <2> QED
        BY <2>1, <2>2
<1>4. Announces(b, a)
    BY <1>2, <1>3 DEF Announces, Wanted
<1>5. AllTold(b, h, from, Own(d)) = Told(b, h, from, a)
    <2> DEFINE o == Own(d)
    <2>0. o \in Seq(Answers) /\ Len(o) = 1 /\ o[1] = a
        BY <1>1
    <2> HIDE DEF o, a
    <2>1. PICK f \in [0 .. Len(o) -> Hearings] :
             /\ f[0] = h
             /\ \A n \in 1 .. Len(o) : f[n] = Told(b, f[n - 1], from, o[n])
             /\ AllTold(b, h, from, o) = f[Len(o)]
        BY <2>0, ToldSteps
    <2>2. f[1] = Told(b, f[1 - 1], from, o[1])
        BY <2>0, <2>1
    <2> QED
        BY <2>0, <2>1, <2>2 DEF o
<1>6. Told(b, h, from, a) = map_set(h, ip, v)
    BY <1>4 DEF Told
<1>7. ip \in Hosts \X STRING
    <2>1. a.txt[1] \in Pairs
        BY <1>3, ElementType
    <2> QED
        BY <2>1 DEF Pairs
<1>8. v \in [name : HnNames \cup Bridges, data : Data] /\ v.name = d
    <2>1. FieldMap(Tail(a.txt)) \in Data
        BY <1>3, FieldMapType
    <2> QED
        BY <1>2, <2>1
<1> DEFINE K == Hosts \X STRING
           V == [name : HnNames \cup Bridges, data : Data]
<1>9. h \in Maps(K, V)
    BY DEF Maps, Hearings
<1> HIDE DEF a, ip, v, K, V, none
<1>10. SetAt(map_set(h, ip, v), h, ip, v, none)
    BY <1>7, <1>8, <1>9, MapSetGet DEF K, V
<1>11. ip \in map_keys(map_set(h, ip, v)) /\ map_get(map_set(h, ip, v), ip, none).name = d
    BY <1>8, <1>10 DEF SetAt
<1> QED
    BY <1>5, <1>6, <1>11 DEF none

\* A bridge takes the answers of a packet and may answer its questions.
LEMMA HandleAnswersStep ==
    ASSUME MdnsInv, NEW p \in net, HandleAnswers(p.to, p)
    PROVE  MdnsInv'
<1> DEFINE b == p.to
           s == Current(b)
           u == AllAnswers(b, s, p.from, p.answers)
           g == AllTold(b, heard[b], p.from, p.answers)
<1>1. /\ b \in up /\ b \in Bridges /\ p \in Packets /\ p.answers # << >>
      /\ u \in States /\ Numbered(u) /\ Grows(s, u) /\ g \in Hearings
      /\ Linked(u.store, g)
      /\ mdnsStore' = [mdnsStore EXCEPT ![b] = u.store]
      /\ issued' = [issued EXCEPT ![b] = u.key]
      /\ heard' = [heard EXCEPT ![b] = g]
      /\ net' = net \ {p}
      /\ UNCHANGED <<up, lastMdnsBroadcast, mdnsLastRefresh, now, ads, lossy>>
    BY HandleAnswersFacts
<1>2. u.store \in Seq(Items) /\ u.key \in Nat /\ u.key = Len(u.store)
    BY <1>1, NumberedIssued
<1>3. /\ s \in States /\ s.store = mdnsStore[b] /\ s.key = issued[b]
    BY <1>1, CurrentType DEF MdnsInv
<1>4. s.key = Len(s.store) /\ s.key \in Nat /\ s.store \in Seq(Items)
    BY <1>1, <1>3, NumberedIssued DEF MdnsInv, StoreInv
<1>5. g = AllTold(b, heard[b], p.from, p.answers)
    OBVIOUS
<1> HIDE DEF u, s, g
<1>6. TypeInv'
    BY <1>1, <1>2 DEF MdnsInv, TypeInv
<1>7. StoreInv'
    <2> SUFFICES ASSUME NEW c \in Bridges
                 PROVE  Numbered(Current(c)') /\ Linked(mdnsStore'[c], heard'[c])
        BY DEF StoreInv
    <2>1. CASE c = b
        <3>1. mdnsStore'[c] = u.store /\ issued'[c] = u.key /\ heard'[c] = g
            BY <1>1, <2>1 DEF MdnsInv, TypeInv
        <3>2. Current(c)'.store = u.store /\ Current(c)'.key = u.key
            BY <3>1 DEF Current
        <3> QED
            BY <1>1, <3>1, <3>2 DEF Numbered
    <2>2. CASE c # b
        <3>1. mdnsStore'[c] = mdnsStore[c] /\ issued'[c] = issued[c] /\ heard'[c] = heard[c]
            BY <1>1, <2>2 DEF MdnsInv, TypeInv
        <3>2. Current(c)' = Current(c)
            BY <3>1 DEF Current
        <3> QED
            BY <3>1, <3>2 DEF MdnsInv, StoreInv
    <2> QED
        BY <2>1, <2>2
<1>8. TimeInv'
    BY <1>1 DEF MdnsInv, TimeInv
<1>9. ASSUME NEW e \in Bridges, NEW f \in Bridges, Knows(e, f) PROVE Knows(e, f)'
    <2>1. CASE e # b
        BY <1>1, <1>9, <2>1 DEF Knows, MdnsInv, TypeInv
    <2>2. CASE e = b
        <3>1. PICK j \in 1 .. s.key : s.store[j].value.name = f
            BY <1>3, <1>4, <1>9, <2>2 DEF Knows
        <3> DEFINE k == j + (u.key - s.key)
        <3>2. k \in 1 .. u.key
            <4>1. s.key <= u.key
                BY <1>1 DEF Grows
            <4>2. u.key \in Nat /\ s.key \in Nat /\ j \in 1 .. s.key
                BY <1>2, <1>4, <3>1
            <4> QED
                BY <4>1, <4>2
        <3>3. u.store[k].value.name = f
            BY <1>1, <3>1 DEF Grows
        <3> HIDE DEF k
        <3>4. mdnsStore'[e] = u.store /\ k \in DOMAIN u.store
            BY <1>1, <1>2, <2>2, <3>2 DEF MdnsInv, TypeInv
        <3> QED
            BY <3>3, <3>4 DEF Knows
    <2> QED
        BY <2>1, <2>2
<1>10. ASSUME NEW f \in Bridges, f # b, p.answers = Own(f) PROVE Knows(b, f)'
    <2>1. heard[b] \in Hearings /\ p.from \in Hosts
        BY <1>1 DEF MdnsInv, TypeInv, Packets
    <2>2. PICK ip \in map_keys(g) : map_get(g, ip, << >>).name = f
        BY <1>1, <1>5, <1>10, <2>1, OwnHeard
    <2> DEFINE i == getMdnsRecordForIpAddr(u.store, ip)
    <2>3. i # 0 /\ u.store[i].value.name = f
        BY <1>1, <2>2 DEF Linked, Latest
    <2>4. i \in 0 .. Len(u.store)
        BY <1>2, RecordFound
    <2> HIDE DEF i
    <2>5. i \in DOMAIN u.store /\ mdnsStore'[b] = u.store
        BY <1>1, <1>2, <2>3, <2>4 DEF MdnsInv, TypeInv
    <2> QED
        BY <2>3, <2>5 DEF Knows
<1>11. LearnInv'
    <2> SUFFICES ASSUME ~lossy', NEW d \in up', NEW c \in up', d # c
                 PROVE  Learns(d, c)' \/ Learns(c, d)'
        BY DEF LearnInv
    <2>1. Learns(d, c) \/ Learns(c, d)
        BY <1>1 DEF MdnsInv, LearnInv
    <2>2. ASSUME NEW e \in up, NEW f \in up, e # f, Learns(e, f) PROVE Learns(e, f)'
        <3>0. e \in Bridges /\ f \in Bridges
            BY DEF MdnsInv, TypeInv
        <3>1. CASE Knows(e, f)
            BY <1>9, <3>0, <3>1 DEF Learns
        <3>2. CASE \E q \in net : q.to = e /\ q.answers = Own(f)
            <4>1. PICK q \in net : q.to = e /\ q.answers = Own(f)
                BY <3>2
            <4>2. CASE q = p
                <5>1. Knows(e, f)'
                    BY <1>10, <2>2, <3>0, <4>1, <4>2
                <5> QED
                    BY <5>1 DEF Learns
            <4>3. CASE q # p
                <5>1. q \in net'
                    BY <1>1, <4>3
                <5> QED
                    BY <4>1, <5>1 DEF Learns
            <4> QED
                BY <4>2, <4>3
        <3>3. CASE /\ lastMdnsBroadcast[f] = Never
                   /\ \E q \in net : q.to = f /\ q.answers = << >> /\ ForUs(f, q)
            <4>1. PICK q \in net : q.to = f /\ q.answers = << >> /\ ForUs(f, q)
                BY <3>3
            <4>2. q \in net' /\ ForUs(f, q)' /\ lastMdnsBroadcast'[f] = Never
                BY <1>1, <3>3, <4>1 DEF ForUs
            <4> QED
                BY <4>1, <4>2 DEF Learns
        <3> QED
            BY <2>2, <3>1, <3>2, <3>3 DEF Learns
    <2> QED
        BY <1>1, <2>1, <2>2
<1> QED
    BY <1>6, <1>7, <1>8, <1>11 DEF MdnsInv

\* Every step keeps the invariant,
LEMMA NextMdns == MdnsInv /\ [Next]_vars => MdnsInv'
<1> SUFFICES ASSUME MdnsInv, [Next]_vars PROVE MdnsInv'
    OBVIOUS
<1>1. CASE Receive
    BY <1>1, HandleAnswersStep, HandleQuestionStep, HandleQuestionUnsentStep,
       HandleQuestionNotStep DEF Receive
<1>2. CASE Tick
    BY <1>2, TickStep
<1>3. CASE \E b \in Bridges : Start(b) \/ HouseKeeping(b)
    BY <1>3, StartStep, HouseKeepingStep
<1>4. CASE \E a \in Ads : Announce(a)
    BY <1>4, AnnounceStep
<1>5. CASE \E p \in net : Lose(p)
    BY <1>5, LoseStep
<1>6. CASE UNCHANGED vars
    <2>1. UNCHANGED <<up, context, net, now, ads, lossy, heard>>
        BY <1>6 DEF vars
    <2> DEFINE ps == {}
    <2>2. /\ net' = net \cup ps /\ ads' \in 0 .. MaxAds
          /\ \A p \in ps : p \in Packets /\ p.to \in up
        BY <2>1 DEF MdnsInv, TypeInv
    <2> HIDE DEF ps
    <2> QED
        BY <2>1, <2>2, SendStep
<1> QED
    BY <1>1, <1>2, <1>3, <1>4, <1>5, <1>6 DEF Next

\* so it always holds.
LEMMA MdnsAlways == Spec => []MdnsInv
BY InitMdns, NextMdns, PTL DEF Spec

(***************************************************************************)
(* The answers of a bridge                                                 *)
(***************************************************************************)
\* Answers went out one interval after another, none after the time the bridge
\* remembers: what makes NoStorm inductive.
StormInv ==
    /\ answered \in [Bridges -> Seq(Nat)]
    /\ \A b \in Bridges : \A i \in 1 .. Len(answered[b]) :
         /\ answered[b][i] <= lastMdnsBroadcast[b]
         /\ \A j \in 1 .. Len(answered[b]) :
              i < j => answered[b][j] - answered[b][i] >= MinInterval

\* No other step touches the answers or the time of the last one,
LEMMA StormStays ==
    ASSUME StormInv, UNCHANGED <<lastMdnsBroadcast, answered>>
    PROVE  StormInv'
BY DEF StormInv

\* and an answer goes out when the interval has passed since that time.
LEMMA StormStep ==
    ASSUME MdnsInv, StormInv, NEW p \in net, HandleQuestion(p.to, p)
    PROVE  StormInv'
<1> DEFINE b == p.to
           s == answered[b]
           t == Append(s, now)
<1>1. /\ lastMdnsBroadcast' = [lastMdnsBroadcast EXCEPT ![b] = now]
      /\ answered' = [answered EXCEPT ![b] = t]
      /\ ~ (lastMdnsBroadcast[b] + MinInterval > now)
    BY DEF HandleQuestion, Asked, Broadcasted, TooSoon
<1>2. b \in Bridges /\ now \in Nat /\ lastMdnsBroadcast \in [Bridges -> Int]
    BY DEF MdnsInv, TypeInv
<1>3. lastMdnsBroadcast[b] \in Int /\ MinInterval \in Nat
    BY <1>2, MdnsAssumption
<1>4. s \in Seq(Nat)
    BY <1>2 DEF StormInv
<1>5. \A i \in 1 .. Len(s) :
        /\ s[i] \in Nat /\ s[i] <= lastMdnsBroadcast[b] /\ s[i] + MinInterval <= now
        /\ \A j \in 1 .. Len(s) : i < j => s[j] - s[i] >= MinInterval
    BY <1>1, <1>2, <1>3, <1>4, ElementType DEF StormInv
<1>6. /\ t \in Seq(Nat) /\ Len(t) = Len(s) + 1 /\ t[Len(s) + 1] = now
      /\ Len(s) \in Nat /\ \A i \in 1 .. Len(s) : t[i] = s[i]
    BY <1>2, <1>4
<1>7. answered'[b] = t /\ lastMdnsBroadcast'[b] = now
    BY <1>1, <1>2 DEF StormInv
<1> HIDE DEF b, s, t
<1>8. \A i \in 1 .. Len(t) :
        /\ t[i] <= now
        /\ \A j \in 1 .. Len(t) : i < j => t[j] - t[i] >= MinInterval
    <2> SUFFICES ASSUME NEW i \in 1 .. Len(t)
                 PROVE  /\ t[i] <= now
                        /\ \A j \in 1 .. Len(t) : i < j => t[j] - t[i] >= MinInterval
        OBVIOUS
    <2>1. CASE i = Len(s) + 1
        BY <1>2, <1>6, <2>1
    <2>2. CASE i \in 1 .. Len(s)
        <3>1. t[i] <= now
            BY <1>2, <1>3, <1>5, <1>6, <2>2
        <3>2. ASSUME NEW j \in 1 .. Len(t), i < j PROVE t[j] - t[i] >= MinInterval
            <4>1. CASE j = Len(s) + 1
                BY <1>2, <1>3, <1>5, <1>6, <2>2, <4>1
            <4>2. CASE j \in 1 .. Len(s)
                BY <1>5, <1>6, <2>2, <3>2, <4>2
            <4> QED
                BY <1>6, <4>1, <4>2
        <3> QED
            BY <3>1, <3>2
    <2> QED
        BY <1>6, <2>1, <2>2
<1>9. ASSUME NEW c \in Bridges
      PROVE  \A i \in 1 .. Len(answered'[c]) :
               /\ answered'[c][i] <= lastMdnsBroadcast'[c]
               /\ \A j \in 1 .. Len(answered'[c]) :
                    i < j => answered'[c][j] - answered'[c][i] >= MinInterval
    <2>1. CASE c = b
        BY <1>7, <1>8, <2>1
    <2>2. CASE c # b
        <3>1. answered'[c] = answered[c] /\ lastMdnsBroadcast'[c] = lastMdnsBroadcast[c]
            BY <1>1, <1>2, <2>2 DEF StormInv
        <3> QED
            BY <3>1 DEF StormInv
    <2> QED
        BY <2>1, <2>2
<1>10. answered' \in [Bridges -> Seq(Nat)]
    BY <1>1, <1>2, <1>6 DEF StormInv
<1> QED
    BY <1>9, <1>10 DEF StormInv

\* The answers of every run.
LEMMA StormAlways == Spec => [](MdnsInv /\ StormInv)
<1>1. Init => StormInv
    <2> SUFFICES ASSUME Init PROVE StormInv
        OBVIOUS
    <2> DEFINE none == << >>
    <2>1. answered = [b \in Bridges |-> none]
        BY DEF Init
    <2>2. none \in Seq(Nat) /\ Len(none) = 0
        OBVIOUS
    <2> HIDE DEF none
    <2> QED
        BY <2>1, <2>2 DEF StormInv
<1>2. MdnsInv /\ StormInv /\ [Next]_vars => StormInv'
    <2> SUFFICES ASSUME MdnsInv, StormInv, [Next]_vars PROVE StormInv'
        OBVIOUS
    <2>1. CASE \E p \in net : HandleQuestion(p.to, p)
        BY <2>1, StormStep
    <2>2. CASE ~ \E p \in net : HandleQuestion(p.to, p)
        <3>1. UNCHANGED <<lastMdnsBroadcast, answered>>
            BY <2>2 DEF Next, Receive, HandleAnswers, HandleQuestionUnsent,
                   HandleQuestionNot, Tick, Start, HouseKeeping, Announce, Lose, context,
                   vars
        <3> QED
            BY <3>1, StormStays
    <2> QED
        BY <2>1, <2>2
<1> QED
    BY <1>1, <1>2, MdnsAlways, PTL DEF Spec

(***************************************************************************)
(* The theorems                                                            *)
(***************************************************************************)
\* The type invariant: records of known names under keys that were drawn, times
\* that have passed, packets for bridges that run.
THEOREM MdnsTypeCorrect == Spec => []TypeOK
<1>1. MdnsInv /\ StormInv => TypeOK
    <2> SUFFICES ASSUME MdnsInv, StormInv PROVE TypeOK
        OBVIOUS
    <2>1. ASSUME NEW b \in Bridges, NEW i \in DOMAIN mdnsStore[b]
          PROVE  /\ mdnsStore[b][i].key \in 1 .. issued[b]
                 /\ mdnsStore[b][i].value \in Records
        <3>1. mdnsStore[b] \in Seq(Items) /\ i \in 1 .. Len(mdnsStore[b])
            BY DEF MdnsInv, TypeInv
        <3>2. mdnsStore[b][i] \in Items
            BY <3>1, ElementType
        <3>3. /\ Current(b).key = issued[b] /\ Current(b).store = mdnsStore[b]
              /\ Numbered(Current(b)) /\ issued[b] \in Nat
            BY CurrentType DEF MdnsInv, StoreInv, TypeInv
        <3>4. issued[b] = Len(mdnsStore[b]) /\ mdnsStore[b][i].key = issued[b] + 1 - i
            BY <3>1, <3>3 DEF Numbered
        <3>5. mdnsStore[b][i].key \in 1 .. issued[b]
            BY <3>1, <3>3, <3>4
        <3> QED
            BY <3>2, <3>5 DEF Items
    <2>2. \A b \in Bridges : /\ lastMdnsBroadcast[b] \in {Never} \cup 0 .. now
                            /\ mdnsLastRefresh[b] \in {Never} \cup 0 .. now
        BY DEF MdnsInv, TimeInv
    <2>3. /\ up \subseteq Bridges /\ now \in 0 .. MaxTime /\ ads \in 0 .. MaxAds
          /\ \A p \in net : p.to \in up
        BY DEF MdnsInv, TypeInv
    <2>4. ASSUME NEW b \in Bridges PROVE answered[b] \in Seq(0 .. now)
        <3>1. answered[b] \in Seq(Nat) /\ now \in Nat /\ Never < 0
            BY MdnsAssumption DEF StormInv, MdnsInv, TypeInv
        <3>2. \A i \in 1 .. Len(answered[b]) : answered[b][i] \in 0 .. now
            <4>1. lastMdnsBroadcast[b] \in Int /\ lastMdnsBroadcast[b] <= now
                BY <2>2, <3>1, MdnsAssumption
            <4>2. \A i \in 1 .. Len(answered[b]) :
                    answered[b][i] \in Nat /\ answered[b][i] <= lastMdnsBroadcast[b]
                BY <3>1, ElementType DEF StormInv
            <4> QED
                BY <3>1, <4>1, <4>2
        <3> QED
            BY <3>1, <3>2
    <2> QED
        BY <2>1, <2>2, <2>3, <2>4 DEF TypeOK
<1> QED
    BY <1>1, StormAlways, PTL

\* The record a bridge finds for an address is what it was told last of it.
THEOREM LatestCorrect == Spec => []LatestWins
<1>1. MdnsInv => LatestWins
    <2> SUFFICES ASSUME MdnsInv, NEW b \in Bridges
                 PROVE  /\ \A ip \in map_keys(heard[b]) : Latest(mdnsStore[b], heard[b], ip)
                        /\ \A i \in DOMAIN mdnsStore[b] :
                             mdnsStore[b][i].value.ip \in map_keys(heard[b])
        BY DEF LatestWins, Latest
    <2>1. Linked(mdnsStore[b], heard[b]) /\ mdnsStore[b] \in Seq(Items)
        BY DEF MdnsInv, StoreInv, TypeInv
    <2> QED
        BY <2>1 DEF Linked
<1> QED
    BY <1>1, MdnsAlways, PTL

\* Of two bridges that run on a network without loss one learns of the other.
THEOREM LearnCorrect == Spec => []OneLearns
<1>1. MdnsInv => OneLearns
    BY DEF MdnsInv, LearnInv, Learns, OneLearns
<1> QED
    BY <1>1, MdnsAlways, PTL

\* The Item of a listen key, by the order in which keys are drawn.
LEMMA NumberedItem ==
    ASSUME NEW s \in States, Numbered(s), NEW k \in 1 .. s.key
    PROVE  map_getItem(s.store, k) = s.key + 1 - k /\ s.key + 1 - k \in 1 .. s.key
<1> DEFINE i == s.key + 1 - k
           m == s.store
<1>1. m \in Seq(Items) /\ s.key \in Nat /\ s.key = Len(m)
    BY NumberedIssued
<1>2. \A j \in 1 .. Len(m) : m[j].key = s.key + 1 - j
    BY DEF Numbered
<1>3. i \in 1 .. Len(m) /\ m[i].key = k
    BY <1>1, <1>2
<1>4. \A j \in 1 .. Len(m) : m[j].key = k => i <= j
    BY <1>1, <1>2
<1> HIDE DEF i, m
<1>5. map_getItem(m, k) = i
    BY <1>1, <1>3, <1>4, ItemIs
<1> QED
    BY <1>1, <1>3, <1>5 DEF i, m

\* A listen key keeps leading to the same address and name.
THEOREM KeyCorrect == Spec => KeyStable
<1>1. MdnsInv /\ [Next]_vars =>
        [\A b \in Bridges : \A k \in 1 .. issued[b] :
           /\ getIpAddrForId(mdnsStore'[b], k) = getIpAddrForId(mdnsStore[b], k)
           /\ mdnsStore'[b][map_getItem(mdnsStore'[b], k)].value.name
                = mdnsStore[b][map_getItem(mdnsStore[b], k)].value.name]_vars
    <2> SUFFICES ASSUME MdnsInv, Next, NEW b \in Bridges, NEW k \in 1 .. issued[b]
                 PROVE  /\ getIpAddrForId(mdnsStore'[b], k) = getIpAddrForId(mdnsStore[b], k)
                        /\ mdnsStore'[b][map_getItem(mdnsStore'[b], k)].value.name
                             = mdnsStore[b][map_getItem(mdnsStore[b], k)].value.name
        OBVIOUS
    <2>1. CASE mdnsStore'[b] = mdnsStore[b]
        BY <2>1
    <2>2. ASSUME NEW p \in net, HandleAnswers(p.to, p), p.to = b
          PROVE  /\ getIpAddrForId(mdnsStore'[b], k) = getIpAddrForId(mdnsStore[b], k)
                 /\ mdnsStore'[b][map_getItem(mdnsStore'[b], k)].value.name
                      = mdnsStore[b][map_getItem(mdnsStore[b], k)].value.name
        <3> DEFINE s == Current(b)
                   u == AllAnswers(b, s, p.from, p.answers)
                   j == s.key + 1 - k
        <3>1. /\ u \in States /\ Numbered(u) /\ Grows(s, u)
              /\ mdnsStore' = [mdnsStore EXCEPT ![b] = u.store]
            BY <2>2, HandleAnswersFacts
        <3>2. /\ s \in States /\ s.store = mdnsStore[b] /\ s.key = issued[b] /\ Numbered(s)
            BY CurrentType DEF MdnsInv, StoreInv
        <3> HIDE DEF s, u
        <3>3. s.key \in Nat /\ u.key \in Nat /\ s.key <= u.key
            BY <3>1, <3>2, StateFacts DEF Grows
        <3>4. k \in 1 .. s.key /\ k \in 1 .. u.key
            BY <3>2, <3>3
        <3>5. map_getItem(s.store, k) = j /\ j \in 1 .. s.key
            BY <3>2, <3>4, NumberedItem
        <3>6. map_getItem(u.store, k) = u.key + 1 - k
            BY <3>1, <3>4, NumberedItem
        <3>7. u.key + 1 - k = j + (u.key - s.key) /\ j # 0 /\ u.key + 1 - k # 0
            BY <3>3, <3>4
        <3>8. /\ u.store[j + (u.key - s.key)].value.ip = s.store[j].value.ip
              /\ u.store[j + (u.key - s.key)].value.name = s.store[j].value.name
            BY <3>1, <3>5 DEF Grows
        <3>9. mdnsStore'[b] = u.store
            BY <3>1 DEF MdnsInv, TypeInv
        <3> HIDE DEF j
        <3> QED
            BY <3>2, <3>5, <3>6, <3>7, <3>8, <3>9 DEF getIpAddrForId
    <2>3. ASSUME NEW p \in net, HandleAnswers(p.to, p), p.to # b
          PROVE  mdnsStore'[b] = mdnsStore[b]
        BY <2>3 DEF HandleAnswers, MdnsInv, TypeInv
    <2>4. ASSUME ~ \E p \in net : HandleAnswers(p.to, p) PROVE mdnsStore'[b] = mdnsStore[b]
        BY <2>4 DEF Next, Receive, HandleQuestion, HandleQuestionUnsent, HandleQuestionNot,
                    Tick, Start, HouseKeeping, Announce, Lose, context
    <2> QED
        BY <2>1, <2>2, <2>3, <2>4
<1> QED
    BY <1>1, MdnsAlways, PTL DEF Spec, KeyStable

\* Between two answers of a bridge the minimum interval passes, by the times at
\* which they went out.
THEOREM StormCorrect == Spec => []NoStorm
<1>1. StormInv => NoStorm
    BY DEF StormInv, NoStorm
<1> QED
    BY <1>1, StormAlways, PTL

(***************************************************************************)
(* Queries                                                                 *)
(***************************************************************************)
LEMMA TakeType ==
    ASSUME NEW f \in Seq(Items), NEW x \in Items, NEW name, NEW max
    PROVE  TakeItem(f, x, name, max) \in Seq(Items)
BY DEF TakeItem

\* The walk of getMdnsRecordsForName, one Item after the other.
LEMMA QuerySteps ==
    ASSUME NEW m \in Seq(Items), NEW name, NEW max \in Nat
    PROVE  \E f \in [0 .. Len(m) -> Seq(Items)] :
              /\ f[0] = << >>
              /\ \A n \in 1 .. Len(m) : f[n] = TakeItem(f[n - 1], m[n], name, max)
              /\ getMdnsRecordsForName(m, name, max) = f[Len(m)]
<1> DEFINE N == Len(m)
           op(t, a) == TakeItem(t, a, name, max)
           F == [w \in Seq(Items) \X (1 .. N) |-> op(w[1], m[w[2]])]
           iter == CHOOSE g : g = [I \in SUBSET DOMAIN m |->
                       IF I = {} THEN << >> ELSE op(g[I \ {Max(I)}], m[Max(I)])]
<1>1. \A t \in Seq(Items), n \in 1 .. N : op(t, m[n]) \in Seq(Items)
    BY TakeType, ElementType
<1>2. getMdnsRecordsForName(m, name, max) = iter[DOMAIN m]
    BY DEF getMdnsRecordsForName, FoldLeft, MapThenFoldSet
<1>3. << >> \in Seq(Items) /\ N \in Nat /\ DOMAIN m = 1 .. N
    OBVIOUS
<1> HIDE DEF op, N
<1>4. /\ F \in [Seq(Items) \X (1 .. N) -> Seq(Items)]
      /\ \A t \in Seq(Items), n \in 1 .. N : F[<<t, n>>] = op(t, m[n])
    BY <1>1
<1> HIDE DEF F
<1>5. PICK g : IsIter(g, Seq(Items), N, << >>, F)
    BY <1>3, <1>4, IterExists
<1>6. ASSUME NEW I \in SUBSET (1 .. N), I # {}
      PROVE  g[I] = op(g[I \ {Max(I)}], m[Max(I)])
    <2>1. Max(I) \in 1 .. N
        BY <1>3, <1>6, MaxIn
    <2>2. g[I] = F[<<g[I \ {Max(I)}], Max(I)>>] /\ g[I \ {Max(I)}] \in Seq(Items)
        BY <1>5, <1>6 DEF IsIter
    <2> QED
        BY <1>4, <2>1, <2>2
<1>7. g = [I \in SUBSET DOMAIN m |->
                       IF I = {} THEN << >> ELSE op(g[I \ {Max(I)}], m[Max(I)])]
    BY <1>3, <1>5, <1>6 DEF IsIter
<1>8. iter = [I \in SUBSET DOMAIN m |->
                       IF I = {} THEN << >> ELSE op(iter[I \ {Max(I)}], m[Max(I)])]
    BY <1>7
<1> HIDE DEF iter
<1>9. ASSUME NEW n \in 1 .. N PROVE iter[1 .. n] = op(iter[1 .. (n - 1)], m[n])
    <2>1. 1 .. n \in SUBSET DOMAIN m /\ n \in Nat \ {0}
        BY <1>3
    <2>2. 1 .. n # {} /\ Max(1 .. n) = n /\ (1 .. n) \ {n} = 1 .. (n - 1)
        BY <2>1, UpTo
    <2> QED
        BY <1>8, <2>1, <2>2
<1>10. PICK f : IsRun(f, iter, Seq(Items), N, << >>, F)
    <2>1. iter[{}] = << >>
        BY <1>3, <1>8
    <2>2. Unfolds(iter, Seq(Items), N, << >>, F)
        BY <1>4, <1>9, <2>1 DEF Unfolds
    <2> QED
        BY <1>3, <1>4, <2>2, IterSteps
<1>11. ASSUME NEW n \in 1 .. N PROVE f[n] = op(f[n - 1], m[n])
    <2>1. f[n] = F[<<f[n - 1], n>>] /\ f[n - 1] \in Seq(Items)
        BY <1>3, <1>10 DEF IsRun
    <2> QED
        BY <1>4, <2>1
<1> QED
    BY <1>2, <1>3, <1>10, <1>11 DEF op, N, IsRun

\* The places of the first n Items that match.
Places(m, n, name) == {j \in 1 .. n : Matches(m[j].value.name, name)}

\* The places of a name among the first records of the walk.
LEMMA PlacesGrow ==
    ASSUME NEW m \in Seq(Items), NEW n \in 0 .. Len(m), NEW name
    PROVE  /\ IsFiniteSet(Places(m, n, name)) /\ Cardinality(Places(m, n, name)) \in Nat
           /\ Cardinality(Places(m, n, name)) <= Cardinality(Places(m, Len(m), name))
           /\ n > 0 => Places(m, n, name) =
                 IF Matches(m[n].value.name, name) THEN Places(m, n - 1, name) \cup {n}
                 ELSE Places(m, n - 1, name)
<1>1. IsFiniteSet(1 .. Len(m))
    BY FS_Interval
<1>2. Places(m, Len(m), name) \in SUBSET (1 .. Len(m))
    BY DEF Places
<1>3. IsFiniteSet(Places(m, Len(m), name))
    BY <1>1, <1>2, FS_Subset
<1>4. Places(m, n, name) \in SUBSET Places(m, Len(m), name)
    BY DEF Places
<1>5. /\ IsFiniteSet(Places(m, n, name))
      /\ Cardinality(Places(m, n, name)) <= Cardinality(Places(m, Len(m), name))
    BY <1>3, <1>4, FS_Subset
<1>6. Cardinality(Places(m, n, name)) \in Nat
    BY <1>5, FS_CardinalityType
<1>7. ASSUME n > 0 PROVE Places(m, n, name) =
                 IF Matches(m[n].value.name, name) THEN Places(m, n - 1, name) \cup {n}
                 ELSE Places(m, n - 1, name)
    <2>1. 1 .. n = (1 .. (n - 1)) \cup {n}
        BY <1>7
    <2> QED
        BY <2>1 DEF Places
<1> QED
    BY <1>5, <1>6, <1>7

\* The result has room for max Items, and misses none of them if they are no more.
LEMMA QueryResult ==
    ASSUME NEW m \in Seq(Items), NEW name, NEW max \in Nat
    PROVE  LET res == getMdnsRecordsForName(m, name, max) IN
           /\ res \in Seq(Items) /\ Len(res) <= max
           /\ Cardinality(Places(m, Len(m), name)) <= max =>
                 \A j \in Places(m, Len(m), name) : \E k \in 1 .. Len(res) : res[k] = m[j]
<1> DEFINE C(n) == Cardinality(Places(m, n, name))
           Has(f, n) == \A j \in Places(m, n, name) : \E k \in 1 .. Len(f) : f[k] = m[j]
<1>1. PICK f \in [0 .. Len(m) -> Seq(Items)] :
         /\ f[0] = << >>
         /\ \A n \in 1 .. Len(m) : f[n] = TakeItem(f[n - 1], m[n], name, max)
         /\ getMdnsRecordsForName(m, name, max) = f[Len(m)]
    BY QuerySteps
<1> DEFINE Q(n) == /\ Len(f[n]) <= max /\ Len(f[n]) <= C(n)
                   /\ C(Len(m)) <= max => Has(f[n], n)
           S == {n \in Nat : n <= Len(m) => Q(n)}
<1>2. \A n \in 0 .. Len(m) : C(n) \in Nat /\ C(n) <= C(Len(m)) /\ f[n] \in Seq(Items)
    BY PlacesGrow
<1>3. Len(m) \in Nat
    OBVIOUS
<1>4. 0 \in S
    <2>1. Places(m, 0, name) = {} /\ Len(f[0]) = 0
        BY <1>1 DEF Places
    <2>2. 0 \in 0 .. Len(m)
        BY <1>3
    <2>3. C(0) \in Nat
        BY <1>2, <2>2
    <2> HIDE DEF C
    <2> QED
        BY <2>1, <2>3
<1>5. ASSUME NEW n \in Nat, n \in S PROVE n + 1 \in S
    <2> SUFFICES ASSUME n + 1 <= Len(m) PROVE Q(n + 1)
        OBVIOUS
    <2>1. n + 1 \in 1 .. Len(m) /\ (n + 1) - 1 = n /\ n \in 0 .. Len(m) /\ n + 1 \in 0 .. Len(m)
        BY <1>3
    <2>2. Q(n)
        BY <1>5, <2>1
    <2>3. f[n + 1] = TakeItem(f[n], m[n + 1], name, max)
        BY <1>1, <2>1
    <2>4. /\ C(n) \in Nat /\ C(n + 1) \in Nat /\ C(n + 1) <= C(Len(m)) /\ C(Len(m)) \in Nat
          /\ f[n] \in Seq(Items) /\ m[n + 1] \in Items
        BY <1>2, <1>3, <2>1
    <2>5. CASE ~Matches(m[n + 1].value.name, name)
        <3>1. f[n + 1] = f[n]
            BY <2>3, <2>5 DEF TakeItem
        <3>2. Places(m, n + 1, name) = Places(m, n, name)
            BY <2>1, <2>5, PlacesGrow
        <3> QED
            BY <2>2, <3>1, <3>2
    <2>6. CASE Matches(m[n + 1].value.name, name)
        <3>1. Places(m, n + 1, name) = Places(m, n, name) \cup {n + 1}
            BY <2>1, <2>6, PlacesGrow
        <3>2. n + 1 \notin Places(m, n, name)
            BY DEF Places
        <3>3. C(n + 1) = C(n) + 1
            BY <2>1, <3>1, <3>2, PlacesGrow, FS_AddElement
        <3>4. f[n + 1] = IF Len(f[n]) < max THEN Append(f[n], m[n + 1]) ELSE f[n]
            BY <2>3, <2>6 DEF TakeItem
        <3> HIDE DEF C
        <3>5. Len(f[n + 1]) <= max /\ Len(f[n + 1]) <= C(n + 1)
            BY <2>2, <2>4, <3>3, <3>4
        <3>6. ASSUME C(Len(m)) <= max PROVE Has(f[n + 1], n + 1)
            <4>1. Len(f[n]) < max /\ Has(f[n], n)
                BY <2>2, <2>4, <3>3, <3>6
            <4>2. f[n + 1] = Append(f[n], m[n + 1])
                BY <3>4, <4>1
            <4> DEFINE g == f[n]
                       h == f[n + 1]
            <4>3. /\ Len(h) = Len(g) + 1 /\ h[Len(g) + 1] = m[n + 1] /\ Len(g) \in Nat
                  /\ \A k \in 1 .. Len(g) : h[k] = g[k]
                BY <2>4, <4>2
            <4>4. \A j \in Places(m, n, name) : \E k \in 1 .. Len(g) : g[k] = m[j]
                BY <4>1
            <4> HIDE DEF g, h
            <4>5. \A j \in Places(m, n + 1, name) : \E k \in 1 .. Len(h) : h[k] = m[j]
                <5> SUFFICES ASSUME NEW j \in Places(m, n + 1, name)
                             PROVE  \E k \in 1 .. Len(h) : h[k] = m[j]
                    OBVIOUS
                <5>1. CASE j = n + 1
                    BY <4>3, <5>1
                <5>2. CASE j \in Places(m, n, name)
                    <6>1. PICK k \in 1 .. Len(g) : g[k] = m[j]
                        BY <4>4, <5>2
                    <6>2. k \in 1 .. Len(h) /\ h[k] = m[j]
                        BY <4>3, <6>1
                    <6> QED
                        BY <6>2
                <5> QED
                    BY <3>1, <5>1, <5>2
            <4> QED
                BY <4>5 DEF h
        <3> QED
            BY <3>5, <3>6
    <2> QED
        BY <2>5, <2>6
<1>6. Len(m) \in S
    <2> HIDE DEF S
    <2> QED
        BY <1>3, <1>4, <1>5, SetInduction
<1>7. Q(Len(m)) /\ f[Len(m)] \in Seq(Items)
    BY <1>3, <1>6
<1> QED
    BY <1>1, <1>7

\* A query finds the record a service was last heard under.
THEOREM QueryCorrect == Spec => []QueryFinds
<1>1. MdnsInv => QueryFinds
    <2> SUFFICES ASSUME MdnsInv, NEW b \in Bridges, NEW ip \in map_keys(heard[b]),
                        NEW q \in {map_get(heard[b], ip, << >>).name, "hn.local"}
                 PROVE  LET all == {i \in DOMAIN mdnsStore[b] :
                                      Matches(mdnsStore[b][i].value.name, q)}
                            res == getMdnsRecordsForName(mdnsStore[b], q, MaxItems)
                        IN /\ Len(res) <= MaxItems
                           /\ Cardinality(all) <= MaxItems =>
                                \E i \in DOMAIN res : res[i].value.ip = ip
        BY DEF QueryFinds
    <2> DEFINE m == mdnsStore[b]
               all == {i \in DOMAIN m : Matches(m[i].value.name, q)}
               res == getMdnsRecordsForName(m, q, MaxItems)
               i == getMdnsRecordForIpAddr(m, ip)
    <2>1. m \in Seq(Items) /\ MaxItems \in Nat
        BY MdnsAssumption DEF MdnsInv, TypeInv
    <2>2. i # 0 /\ m[i].value.name = map_get(heard[b], ip, << >>).name
        BY DEF MdnsInv, StoreInv, Linked, Latest
    <2>3. i \in 0 .. Len(m) /\ m[i].value.ip = ip
        BY <2>1, <2>2, RecordFound
    <2> HIDE DEF i
    <2>4. i \in 1 .. Len(m)
        BY <2>2, <2>3
    <2>5. m[i] \in Items
        BY <2>1, <2>4, ElementType
    <2>6. m[i].value.name \in HnNames \cup Bridges
        BY <2>5 DEF Items, Records
    <2>7. Matches(m[i].value.name, q)
        BY <2>2, <2>6 DEF Matches
    <2>8. all = Places(m, Len(m), q) /\ i \in Places(m, Len(m), q)
        BY <2>1, <2>4, <2>7 DEF Places
    <2> HIDE DEF m
    <2>9. /\ res \in Seq(Items) /\ Len(res) <= MaxItems
          /\ Cardinality(Places(m, Len(m), q)) <= MaxItems =>
                \A j \in Places(m, Len(m), q) : \E k \in 1 .. Len(res) : res[k] = m[j]
        BY <2>1, QueryResult
    <2> HIDE DEF res, all
    <2>10. ASSUME Cardinality(all) <= MaxItems PROVE \E k \in DOMAIN res : res[k].value.ip = ip
        <3>1. PICK k \in 1 .. Len(res) : res[k] = m[i]
            BY <2>8, <2>9, <2>10
        <3>2. k \in DOMAIN res
            BY <2>9
        <3> QED
            BY <2>3, <3>1, <3>2
    <2> QED
        BY <2>9, <2>10 DEF m, all, res
<1> QED
    BY <1>1, MdnsAlways, PTL
===============================================================================
