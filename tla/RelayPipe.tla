------------------------------- MODULE RelayPipe -------------------------------
(***************************************************************************)
(* What one direction of a relay promises its two ends: the receiver gets  *)
(* a prefix of what the sender sent, in order and without holes, until the *)
(* relay closes or stalls.  A stalled relay delivers nothing new: it only  *)
(* repeats the byte that was due when it stalled.                          *)
(***************************************************************************)
EXTENDS Integers, Sequences, SequencesExt

VARIABLES
    sent,       \* everything the sender has sent
    got,        \* everything handed to the receiver
    state,      \* "open", "stalled" or "closed"
    again       \* the byte a stalled relay repeats, 0 before

vars == <<sent, got, state, again>>

Init == sent = << >> /\ got = << >> /\ state = "open" /\ again = 0

Send ==
    /\ \E b \in {Len(sent) + 1} : sent' = Append(sent, b)
    /\ UNCHANGED <<got, state, again>>

\* A longer prefix of what was sent.
Deliver ==
    /\ state = "open"
    /\ \E n \in Len(got) + 1 .. Len(sent) : got' = SubSeq(sent, 1, n)
    /\ UNCHANGED <<sent, state, again>>

\* The receiver is too slow.
Stall ==
    /\ state = "open" /\ Len(got) < Len(sent)
    /\ state' = "stalled"
    /\ again' = sent[Len(got) + 1]
    /\ UNCHANGED <<sent, got>>

Repeat ==
    /\ state = "stalled"
    /\ got' = Append(got, again)
    /\ UNCHANGED <<sent, state, again>>

Close ==
    /\ state = "open"
    /\ state' = "closed"
    /\ UNCHANGED <<sent, got, again>>

Next == Send \/ Deliver \/ Stall \/ Repeat \/ Close

Spec == Init /\ [][Next]_vars
===============================================================================
