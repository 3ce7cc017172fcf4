------------------------ MODULE RemoteListenProofs -------------------------
(***************************************************************************)
(* PatientRetry for any pauses.  The history variable fails counts what    *)
(* really happened, rlRetries what the code believes; the code resets its  *)
(* counter when the connection is made and again when it is closed, and    *)
(* the proof shows that the two agree whenever the counter is used.        *)
(***************************************************************************)
EXTENDS RemoteListen, TLAPS

\* While there is no connection the code's counter is the true one.
Counted == rlSock = "null" => rlRetries = fails

\* The inductive invariant.
Inv == TypeOK /\ Counted

\* What the lesser of two numbers is.
LEMMA Min2Facts ==
    ASSUME NEW a \in Nat, NEW b \in Nat
    PROVE  /\ Min2(a, b) \in 0..b
           /\ Min2(a, b) <= a
           /\ a <= b => Min2(a, b) = a
BY DEF Min2

\* The bounds of the counters are numbers.
LEMMA Bounds == MaxRetries \in Nat /\ MaxWait \in Nat /\ PingInterval \in Nat
BY WaitAssumption DEF MaxRetries, MaxWait

\* It holds at the start.
LEMMA InitInv == Init => Inv
<1> SUFFICES ASSUME Init PROVE Inv
    OBVIOUS
<1>1. /\ rlRetries \in 0..MaxRetries /\ fails \in 0..MaxRetries
      /\ sinceRetry \in 0..MaxWait /\ sincePing \in 0..PingInterval
      BY Bounds DEF Init
<1>2. /\ rlSock \in {"open", "dead", "null"} /\ link \in {"ok", "fin", "broken"}
      /\ pong \in BOOLEAN /\ remoteUp \in BOOLEAN /\ house \in BOOLEAN
      /\ Counted
      BY DEF Init, Counted
<1> QED BY <1>1, <1>2 DEF Inv, TypeOK

\* houseKeeping keeps it.
LEMMA HouseStep == Inv /\ HouseKeeping => Inv'
<1> SUFFICES ASSUME Inv, HouseKeeping PROVE Inv'
    OBVIOUS
<1> USE Bounds
<1>1. rlRetries + 1 \in Nat /\ fails + 1 \in Nat
      BY DEF Inv, TypeOK
<1>2. /\ Min2(rlRetries + 1, MaxRetries) \in 0..MaxRetries
      /\ Min2(fails + 1, MaxRetries) \in 0..MaxRetries
      BY <1>1, Min2Facts
<1>3. CASE PingDue(rlSock)
  <2>1. 0 \in 0..PingInterval
        OBVIOUS
  <2>2. pong' \in BOOLEAN /\ link' \in {"ok", "fin", "broken"}
        BY <1>3 DEF HouseKeeping, Inv, TypeOK
  <2> QED BY <1>3, <2>1, <2>2 DEF HouseKeeping, Inv, TypeOK, Counted
<1>4. CASE ~PingDue(rlSock)
  <2>1. tryRLStart
        BY <1>4 DEF HouseKeeping
  <2>2. /\ house' \in BOOLEAN /\ remoteUp' \in BOOLEAN
        /\ pong' \in BOOLEAN /\ sincePing' \in 0..PingInterval
    <3>1. 0 \in 0..PingInterval
          OBVIOUS
    <3> QED BY <1>4, <3>1, Zenon DEF HouseKeeping, Inv, TypeOK
  <2>3. CASE ~RetryDue
        BY <2>1, <2>2, <2>3 DEF tryRLStart, Inv, TypeOK, Counted
  <2>4. CASE RetryDue
        BY <2>1, <2>2, <2>4, <1>2
        DEF tryRLStart, RetryDue, Inv, TypeOK, Counted, MaxRetries, MaxWait
  <2> QED BY <2>3, <2>4
<1> QED BY <1>3, <1>4

\* Every step keeps it.
LEMMA NextInv == Inv /\ [Next]_vars => Inv'
<1> SUFFICES ASSUME Inv, [Next]_vars PROVE Inv'
    OBVIOUS
<1> USE Bounds DEF Inv, TypeOK, Counted
<1>1. CASE HouseKeeping
      BY <1>1, HouseStep
<1>2. CASE ReadEof
      BY <1>2 DEF ReadEof
<1>3. CASE ReadPong
      BY <1>3 DEF ReadPong
<1>4. CASE CloseEvent
      BY <1>4 DEF CloseEvent, MaxRetries
<1>5. CASE OtherEvent
      BY <1>5 DEF OtherEvent
<1>6. CASE SelectTimeout
  <2>1. sinceRetry + 1 \in Nat /\ sincePing + 1 \in Nat
        OBVIOUS
  <2> QED BY <1>6, <2>1, Min2Facts DEF SelectTimeout
<1>7. CASE RemoteStops
      BY <1>7 DEF RemoteStops
<1>8. CASE RemoteStarts
      BY <1>8 DEF RemoteStarts
<1>9. CASE UNCHANGED vars
      BY <1>9 DEF vars
<1> QED BY <1>1, <1>2, <1>3, <1>4, <1>5, <1>6, <1>7, <1>8, <1>9 DEF Next

\* Types, and the counter of tryRLStart is right whenever it is read.
THEOREM CounterCorrect == Spec => []Inv
BY InitInv, NextInv, PTL DEF Spec

\* Only houseKeeping makes an attempt, when tryRLStart finds it due.
LEMMA AttemptIsDue ==
    Inv /\ Next => (Attempt => sinceRetry >= getNextRetry(fails))
<1> SUFFICES ASSUME Inv, Next, Attempt PROVE sinceRetry >= getNextRetry(fails)
    OBVIOUS
<1> USE Bounds DEF Inv, TypeOK, Attempt
<1>1. HouseKeeping
  <2>1. ~ReadEof /\ ~ReadPong /\ ~CloseEvent /\ ~OtherEvent
        BY DEF ReadEof, ReadPong, CloseEvent, OtherEvent
  <2>2. ~RemoteStops /\ ~RemoteStarts
        BY DEF RemoteStops, RemoteStarts
  <2>3. ~SelectTimeout
    <3> SUFFICES ASSUME SelectTimeout PROVE FALSE
        OBVIOUS
    <3>1. sinceRetry' = Min2(sinceRetry + 1, MaxWait) /\ fails' = fails
          /\ rlSock' = rlSock
          BY DEF SelectTimeout
    <3>2. sinceRetry \in Nat /\ sinceRetry <= MaxWait
          OBVIOUS
    <3>3. sinceRetry' \in Nat /\ sinceRetry' >= sinceRetry
          BY <3>1, <3>2 DEF Min2
    <3>4. ~(sinceRetry' < sinceRetry)
          BY <3>2, <3>3
    <3>5. rlSock = "null" /\ rlSock' = "null" /\ fails' = fails
          BY <3>1
    <3> QED BY <3>4, <3>5
  <2> QED BY <2>1, <2>2, <2>3 DEF Next
<1>2. tryRLStart
      BY <1>1 DEF HouseKeeping, PingDue
<1>3. RetryDue
      BY <1>2 DEF tryRLStart
<1> QED BY <1>3 DEF RetryDue, Counted

\* However often the connection was lost and found again, and whatever the
\* three pauses are, an attempt of tryRLStart comes no earlier than the pause
\* for the attempts that really failed in a row.
THEOREM Patience == Spec => PatientRetry
<1>1. Inv /\ [Next]_vars => [Attempt => sinceRetry >= getNextRetry(fails)]_vars
      BY AttemptIsDue
<1> QED BY <1>1, CounterCorrect, PTL DEF Spec, PatientRetry
=============================================================================
