------------------------------ MODULE Containers ------------------------------
(***************************************************************************)
(* Map and List of utils.c.  Both are singly linked and grow at the front: *)
(* a Map is the sequence of its Items [key, value], a List the sequence of *)
(* its data, each in the order the walk visits it.                         *)
(***************************************************************************)
EXTENDS Integers, Sequences, FiniteSets, SequencesExt

Item(k, v) == [key |-> k, value |-> v]

map_init == << >>

map_keys(m) == {m[i].key : i \in DOMAIN m}

\* map_getItem: the first Item with the key, as its place in the walk.
map_getItem(m, k) ==
    LET P == {i \in DOMAIN m : m[i].key = k}
    IN IF P = {} THEN 0 ELSE CHOOSE i \in P : \A j \in P : i <= j

map_get(m, k, none) ==
    LET i == map_getItem(m, k) IN IF i = 0 THEN none ELSE m[i].value

\* Mutation: a second Item is added for a key that is there.
map_set_again(m, k, v) == <<Item(k, v)>> \o m

map_set(m, k, v) ==
    LET i == map_getItem(m, k)
    IN IF i # 0 THEN [m EXCEPT ![i].value = v] ELSE <<Item(k, v)>> \o m

map_del(m, k) ==
    LET i == map_getItem(m, k) IN IF i = 0 THEN m ELSE RemoveAt(m, i)

map_cleanup(m) == << >>

list_add(l, x) == <<x>> \o l

\* The walk stops at the last node: what was added first is never removed.
list_remove(l, x) ==
    LET P == {i \in 1 .. Len(l) - 1 : l[i] = x}
    IN IF P = {} THEN l
       ELSE RemoveAt(l, CHOOSE i \in P : \A j \in P : i <= j)

list_init == << >>

\* The static cursor of map_forEach is what is left of the walk: a call with a
\* map starts it again, a call with NULL (here << >>) moves it on.
map_forEach(m, cursor) ==
    IF m # << >> THEN m ELSE IF cursor # << >> THEN Tail(cursor) ELSE << >>

(***************************************************************************)
(* Reference: what the rest of the models takes the containers to be       *)
(***************************************************************************)
\* ops: a sequence of <<"set", key, value>> and <<"del", key, _>>.
MapOp(m, o) == IF o[1] = "set" THEN map_set(m, o[2], o[3]) ELSE map_del(m, o[2])

MapAfter(ops) == FoldLeft(LAMBDA m, o : MapOp(m, o), map_init, ops)

LastOn(ops, k) ==
    LET P == {i \in DOMAIN ops : ops[i][2] = k}
    IN IF P = {} THEN 0 ELSE CHOOSE i \in P : \A j \in P : j <= i

\* After any sequence of map_set and map_del a key is found with the value it was
\* last set to, a deleted key is not found, and the walk visits each key once:
\* listeningSocks, waitingSocks and mdnsStore are functions of the key.
MapIsFunction(ops, Keys) ==
    LET m == MapAfter(ops)
    IN /\ \A k \in Keys :
            LET i == LastOn(ops, k)
            IN map_get(m, k, "none")
                 = (IF i = 0 \/ ops[i][1] = "del" THEN "none" ELSE ops[i][3])
       /\ Len(m) = Cardinality(map_keys(m))

\* ops: a sequence of <<"add", x>> and <<"remove", x>>.
ListOp(l, o) == IF o[1] = "add" THEN list_add(l, o[2]) ELSE list_remove(l, o[2])

ListAfter(ops) == FoldLeft(LAMBDA l, o : ListOp(l, o), list_init, ops)

SetOp(S, o, bottom) ==
    IF o[1] = "add" THEN S \cup {o[2]} ELSE IF o[2] = bottom THEN S ELSE S \ {o[2]}

SetAfter(ops, bottom) == FoldLeft(LAMBDA S, o : SetOp(S, o, bottom), {}, ops)

\* Only what is absent is added, as the callers of list_add do.
Legal(ops) ==
    \A i \in DOMAIN ops :
        ops[i][1] = "add" => ops[i][2] \notin SetAfter(SubSeq(ops, 1, i - 1), ops[1][2])

\* The watch list of the event loop is the set of what was added and not removed,
\* where what was added first stays for ever: the list_remove of Bridge.
ListIsSet(ops) ==
    ops # << >> /\ ops[1][1] = "add" =>
        LET l == ListAfter(ops)
        IN /\ {l[i] : i \in DOMAIN l} = SetAfter(ops, ops[1][2])
           /\ \A i, j \in DOMAIN l : l[i] = l[j] => i = j
===============================================================================
