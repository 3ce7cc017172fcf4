------------------------------ MODULE MCBridge ------------------------------
(***************************************************************************)
(* Bridge for TLC: the configurations of the runs, and the symmetry of the *)
(* addresses that are free at the start and of the one-time codes.         *)
(***************************************************************************)
EXTENDS Bridge, TLC

\* The addresses some run of the process starts with.
Initial == {ServerSock : c \in {d \in Confs : d.server}}
               \cup {FirstRLSock : c \in {d \in Confs : d.rl}}

Symmetry == Permutations(Sock \ Initial) \cup Permutations(Otp)

\* A bridge with a server port, alone, and one that is also a remote listener.
GateConf == [mode |-> "bridge", server |-> TRUE, rl |-> FALSE, emfile |-> FALSE]
HomeConf == [GateConf EXCEPT !.rl = TRUE]

\* Port = -1: only reachable through its remote listener.
PortlessConf == [HomeConf EXCEPT !.server = FALSE]

\* A bridge whose accept() fails now and then.
EmfileConf == [GateConf EXCEPT !.emfile = TRUE]

ListenConf == [GateConf EXCEPT !.mode = "listen"]
RLConf == [PortlessConf EXCEPT !.mode = "rl"]

Gate == {GateConf}
Home == {HomeConf}
Portless == {PortlessConf}
AllConfs ==
    {GateConf, HomeConf, PortlessConf, EmfileConf, ListenConf, RLConf}
=============================================================================
