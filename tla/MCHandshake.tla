---------------------------- MODULE MCHandshake ----------------------------
(***************************************************************************)
(* Handshake for TLC: two bridges with different keys, and every session a *)
(* user can ask for with the right key of either, a wrong one or none.     *)
(***************************************************************************)
EXTENDS Handshake

CONSTANTS k1, k2, a, b

Keys == {k1, k2}
Salts == {a, b}

MCQueryKeys ==
    << [k \in Keys |-> IF k = k1 THEN a ELSE NULL],
       [k \in Keys |-> IF k = k2 THEN b ELSE NULL] >>

MCListenKeys == [k \in Keys |-> IF k = k1 THEN b ELSE NULL]

\* The key of the first bridge, that of the second, the listener's, none.
Creds == {[key |-> k1, salt |-> a], [key |-> k2, salt |-> b],
          [key |-> k1, salt |-> b], NULL}

\* The url of a client may also have a salt alone.
Passwords == Creds \cup {[key |-> NULL, salt |-> a]}

\* What a goal does not use has a fixed value.
MCSessions ==
    {s \in [goal : {"connect", "listen", "claim", "query"},
            url : [1..2 -> Passwords], pass : Creds,
            level : [1..2 -> 0..2], isIp : [1..2 -> BOOLEAN],
            queryAuth : BOOLEAN] :
        /\ s.goal \in {"connect", "claim"} => s.pass = NULL
        /\ s.goal # "connect" => s.url[2] = NULL /\ s.level[2] = 0 /\ ~s.isIp[2]
        /\ s.goal # "query" => ~s.queryAuth}
============================================================================
