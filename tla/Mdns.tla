--------------------------------- MODULE Mdns ---------------------------------
(***************************************************************************)
(* mDNS between bridges and services on one local network: handleMdnsRead, *)
(* sendMdnsQuery and the lookups of store.c, the start and the refresh of  *)
(* homeNet.c.  Multicast reaches every running bridge, the sender too      *)
(* (IP_MULTICAST_LOOP); on a lossy network packets may vanish.             *)
(*                                                                         *)
(* A bridge stands for its own ip and its own name "<b>.bridge.hn.local".  *)
(* A packet has questions (names, all of type TXT: others are skipped) and *)
(* answers [name, txt] where txt is the sequence of the <<key, value>>     *)
(* pairs of "key=value;...".  A store is the Map of MdnsRecords by listen  *)
(* key; keys are numbered in the order generateCode draws them, which      *)
(* never draws one twice.                                                  *)
(***************************************************************************)
EXTENDS Containers

CONSTANTS
    Bridges,        \* the bridges of the network
    Ads,            \* the answer packets services send: [from, reach, answers]
    HnNames,        \* the names of services that end in ".hn.local"
    MaxAds,         \* bound: packets services send
    MaxTime,        \* bound: the clock
    MaxNet,         \* bound: nobody starts to talk while more are on their way
    MinInterval,    \* BROADCAST_MIN_INTERVAL_SECS
    Refresh,        \* REFRESH_INTERVAL_SECS
    MaxItems,       \* Item* items[10] of a QUERY
    Never           \* a time long before the start (the epoch)

ASSUME MdnsAssumption ==
    /\ MaxAds \in Nat /\ MaxTime \in Nat /\ MaxNet \in Nat
    /\ MinInterval \in Nat \ {0} /\ Refresh \in Nat \ {0} /\ MaxItems \in Nat
    /\ Never \in Int /\ Never + MinInterval <= 0 /\ Never + Refresh <= 0

\* An answer as dns_decode leaves it: a name and the fields of its text.  Every
\* field has a key and a value: the program does not survive one that has not
\* (a null pointer at store.c:669-697), and such a text is no input here.
Answers == [name : STRING, txt : Seq(STRING \X STRING)]

ASSUME NamesAssumption ==
    /\ {"PORT", "own", "hn.local", "bridge.hn.local"} \subseteq STRING
    /\ Bridges \subseteq STRING /\ HnNames \subseteq STRING
    /\ Ads \subseteq [from : STRING, reach : SUBSET Bridges, answers : Seq(Answers)]

VARIABLES
    up,                 \* the bridges that run
    mdnsStore,          \* BridgeContext.mdnsStore
    lastMdnsBroadcast,  \* BridgeContext.lastMdnsBroadcast
    mdnsLastRefresh,    \* BridgeContext.mdnsLastRefresh
    issued,             \* listen keys drawn so far
    net,                \* packets on their way: [to, from, questions, answers]
    now,                \* time(NULL)
    ads,                \* packets services have sent
    lossy,              \* whether packets are lost and mdns_send may fail
    heard,              \* history: what each bridge was last told of an address
    answered            \* history: when each bridge put an answer on the net

context == <<mdnsStore, lastMdnsBroadcast, mdnsLastRefresh, issued>>
vars == <<up, context, net, now, ads, lossy, heard, answered>>

Init ==
    /\ up = {}
    /\ mdnsStore = [b \in Bridges |-> map_init]
    /\ lastMdnsBroadcast = [b \in Bridges |-> Never]
    /\ mdnsLastRefresh = [b \in Bridges |-> Never]
    /\ issued = [b \in Bridges |-> 0]
    /\ net = {} /\ now = 0 /\ ads = 0
    /\ lossy \in BOOLEAN
    /\ heard = [b \in Bridges |-> << >>]
    /\ answered = [b \in Bridges |-> << >>]

\* mdns_send: one copy for every bridge that has joined the group.
mdns_send(group, from, questions, answers) ==
    {[to |-> b, from |-> from, questions |-> questions, answers |-> answers] :
        b \in group}

sendMdnsQuery(group, b, name) == mdns_send(group, b, <<name>>, << >>)

(***************************************************************************)
(* Lookups                                                                 *)
(***************************************************************************)
\* The first record of the walk with this address and port, 0 for NULL.
getMdnsRecordForIpAddr(store, ip) ==
    LET P == {i \in DOMAIN store : store[i].value.ip = ip}
    IN IF P = {} THEN 0 ELSE CHOOSE i \in P : \A j \in P : i <= j

\* A name is asked for by itself or by what follows one of its dots.
Matches(name, query) ==
    \/ name = query
    \/ query = "hn.local" /\ name \in HnNames \cup Bridges
    \/ query = "bridge.hn.local" /\ name \in Bridges

\* One Item of the walk: taken if it matches and a place is left.
TakeItem(found, item, name, max) ==
    IF Len(found) < max /\ Matches(item.value.name, name) THEN Append(found, item)
    ELSE found

\* Mutation: one place of the result is left unused.
getMdnsRecordsForName_short(store, name, max) ==
    FoldLeft(LAMBDA found, item : TakeItem(found, item, name, max - 1), << >>, store)

getMdnsRecordsForName(store, name, max) ==
    FoldLeft(LAMBDA found, item : TakeItem(found, item, name, max), << >>, store)

getIpAddrForId(store, id) ==
    LET i == map_getItem(store, id) IN IF i = 0 THEN << >> ELSE store[i].value.ip

(***************************************************************************)
(* handleMdnsRead: a packet with answers                                   *)
(***************************************************************************)
NoRecord == 0

\* Mutation: an update keeps the fields of the record.
UpdateRecord_merge(s) == s

\* map_cleanup of the record's fields before the new ones are set.
UpdateRecord(s) == [s EXCEPT !.store[s.rec].value.data = map_cleanup(@)]

\* Mutation: the listen key the lookup found is used again.
AddRecord_again(s, name, ip) ==
    LET i == getMdnsRecordForIpAddr(s.store, ip)
        k == IF i = 0 THEN s.key + 1 ELSE s.store[i].key
    IN [s EXCEPT !.rec = IF i = 0 THEN 1 ELSE i, !.key = IF i = 0 THEN k ELSE @,
                 !.store = map_set(@, k, [ip |-> ip, name |-> name,
                                          data |-> map_init])]

\* A record with a fresh listen key, in front of the others.
AddRecord(s, name, ip) ==
    [s EXCEPT !.rec = 1, !.key = s.key + 1,
              !.store = map_set(@, s.key + 1, [ip |-> ip, name |-> name,
                                               data |-> map_init])]

\* The record of this address, if its name is still this one.
SameRecord(s, i, name) == i # 0 /\ s.store[i].value.name = name

\* One "key=value": the first PORT finds or makes the record, later fields go
\* into it, a field before PORT ends the answer.
Field(s, from, name, f) ==
    IF s.stop THEN s
    ELSE IF f[1] = "PORT" /\ s.rec = NoRecord
    THEN LET ip == <<from, f[2]>>
             i  == getMdnsRecordForIpAddr(s.store, ip)
         IN IF SameRecord(s, i, name) THEN UpdateRecord([s EXCEPT !.rec = i])
            ELSE AddRecord(s, name, ip)
    ELSE IF s.rec # NoRecord
    THEN [s EXCEPT !.store[s.rec].value.data = map_set(@, f[1], f[2])]
    ELSE [s EXCEPT !.stop = TRUE]

\* Mutation: any name is taken.
Wanted_any(b, name) == name # b

Wanted(b, name) == name \in HnNames \cup Bridges /\ name # b

Fields(s, from, name, txt) ==
    FoldLeft(LAMBDA t, f : Field(t, from, name, f), s, txt)

Answer(b, s, from, a) ==
    IF Wanted(b, a.name)
    THEN Fields([s EXCEPT !.rec = NoRecord, !.stop = FALSE], from, a.name, a.txt)
    ELSE s

AllAnswers(b, s, from, answers) ==
    FoldLeft(LAMBDA t, a : Answer(b, t, from, a), s, answers)

\* Reference: an answer that starts with its port announces name and fields.
Announces(b, a) == Wanted(b, a.name) /\ a.txt # << >> /\ a.txt[1][1] = "PORT"

FieldMap(txt) == FoldLeft(LAMBDA m, f : map_set(m, f[1], f[2]), map_init, txt)

Told(b, h, from, a) ==
    IF Announces(b, a)
    THEN map_set(h, <<from, a.txt[1][2]>>,
                 [name |-> a.name, data |-> FieldMap(Tail(a.txt))])
    ELSE h

AllTold(b, h, from, answers) ==
    FoldLeft(LAMBDA t, a : Told(b, t, from, a), h, answers)

HandleAnswers(b, p) ==
    /\ p.to = b /\ b \in up /\ p.answers # << >>
    /\ LET s == AllAnswers(b, [store |-> mdnsStore[b], key |-> issued[b],
                               rec |-> NoRecord, stop |-> FALSE], p.from, p.answers)
       IN /\ mdnsStore' = [mdnsStore EXCEPT ![b] = s.store]
          /\ issued' = [issued EXCEPT ![b] = s.key]
    /\ heard' = [heard EXCEPT ![b] = AllTold(b, @, p.from, p.answers)]
    /\ net' = net \ {p}
    /\ UNCHANGED <<up, lastMdnsBroadcast, mdnsLastRefresh, now, ads, lossy,
                   answered>>

(***************************************************************************)
(* handleMdnsRead: a packet with questions only                            *)
(***************************************************************************)
TooSoon(b) == lastMdnsBroadcast[b] + MinInterval > now

\* Mutation: only the bridge's own name is looked for.
ForUs_own(b, p) == \E i \in DOMAIN p.questions : p.questions[i] = b

ForUs(b, p) ==
    \E i \in DOMAIN p.questions : p.questions[i] \in {b, "bridge.hn.local"}

Asked(b, p) ==
    /\ p.to = b /\ b \in up /\ p.answers = << >>
    /\ ~TooSoon(b) /\ ForUs(b, p)

\* Mutation: the time of the answer is not kept.
Broadcasted_forgotten(b) == lastMdnsBroadcast

\* The time of an answer that was sent is kept.
Broadcasted(b) == [lastMdnsBroadcast EXCEPT ![b] = now]

\* The questions are echoed beside the answer.
HandleQuestion(b, p) ==
    /\ Asked(b, p)
    /\ net' = (net \ {p}) \cup
                mdns_send(up, b, p.questions,
                          <<[name |-> b, txt |-> <<<<"PORT", "own">>>>]>>)
    /\ lastMdnsBroadcast' = Broadcasted(b)
    /\ answered' = [answered EXCEPT ![b] = Append(@, now)]
    /\ UNCHANGED <<up, mdnsStore, mdnsLastRefresh, issued, now, ads, lossy, heard>>

\* mdns_send fails: the question is gone, the time is not kept.
HandleQuestionUnsent(b, p) ==
    /\ Asked(b, p) /\ lossy
    /\ net' = net \ {p}
    /\ UNCHANGED <<up, context, now, ads, lossy, heard, answered>>

HandleQuestionNot(b, p) ==
    /\ p.to = b /\ b \in up /\ p.answers = << >>
    /\ TooSoon(b) \/ ~ForUs(b, p)
    /\ net' = net \ {p}
    /\ UNCHANGED <<up, context, now, ads, lossy, heard, answered>>

(***************************************************************************)
(* start_bridge, houseKeeping, services, time                              *)
(***************************************************************************)
Calm == Cardinality(net) <= MaxNet

\* The socket has joined the group when the query is sent.
Start(b) ==
    /\ b \notin up /\ Calm
    /\ up' = up \cup {b}
    /\ net' = net \cup sendMdnsQuery(up', b, "bridge.hn.local")
    /\ UNCHANGED <<context, now, ads, lossy, heard, answered>>

\* MDNS_QUERY is "hn.local": services answer it, bridges do not.
HouseKeeping(b) ==
    /\ b \in up /\ Calm /\ now - mdnsLastRefresh[b] >= Refresh
    /\ mdnsLastRefresh' = [mdnsLastRefresh EXCEPT ![b] = now]
    /\ net' = net \cup sendMdnsQuery(up, b, "hn.local")
    /\ UNCHANGED <<up, mdnsStore, lastMdnsBroadcast, issued, now, ads, lossy, heard,
                   answered>>

\* A service of the network announces itself to the bridges in reach (external).
Announce(a) ==
    /\ ads < MaxAds /\ up \cap a.reach # {} /\ Calm
    /\ ads' = ads + 1
    /\ net' = net \cup mdns_send(up \cap a.reach, a.from, << >>, a.answers)
    /\ UNCHANGED <<up, context, now, lossy, heard, answered>>

\* A packet is lost, or broken so that dns_decode fails.
Lose(p) ==
    /\ lossy /\ p \in net
    /\ net' = net \ {p}
    /\ UNCHANGED <<up, context, now, ads, lossy, heard, answered>>

Tick ==
    /\ now < MaxTime
    /\ now' = now + 1
    /\ UNCHANGED <<up, context, net, ads, lossy, heard, answered>>

Receive ==
    \E p \in net :
        \/ HandleAnswers(p.to, p) \/ HandleQuestion(p.to, p)
        \/ HandleQuestionUnsent(p.to, p) \/ HandleQuestionNot(p.to, p)

Next ==
    \/ Receive \/ Tick
    \/ \E b \in Bridges : Start(b) \/ HouseKeeping(b)
    \/ \E a \in Ads : Announce(a)
    \/ \E p \in net : Lose(p)

Spec == Init /\ [][Next]_vars

(***************************************************************************)
(* Properties                                                              *)
(***************************************************************************)
Records == [ip : (Bridges \cup {a.from : a \in Ads}) \X STRING,
            name : HnNames \cup Bridges, data : Seq([key : STRING, value : STRING])]

TypeOK ==
    /\ up \subseteq Bridges /\ now \in 0 .. MaxTime /\ ads \in 0 .. MaxAds
    /\ \A b \in Bridges :
         /\ \A i \in DOMAIN mdnsStore[b] :
              /\ mdnsStore[b][i].key \in 1 .. issued[b]
              /\ mdnsStore[b][i].value \in Records
         /\ lastMdnsBroadcast[b] \in {Never} \cup 0 .. now
         /\ mdnsLastRefresh[b] \in {Never} \cup 0 .. now
         /\ answered[b] \in Seq(0 .. now)
    /\ \A p \in net : p.to \in up

\* The record a bridge finds for an address is what it was told last of that
\* address: the name, and the fields of that packet alone, whatever names the
\* address went by before.
LatestWins ==
    \A b \in Bridges :
        /\ \A ip \in map_keys(heard[b]) :
             LET i == getMdnsRecordForIpAddr(mdnsStore[b], ip)
                 h == map_get(heard[b], ip, << >>)
             IN /\ i # 0
                /\ mdnsStore[b][i].value.name = h.name
                /\ mdnsStore[b][i].value.data = h.data
        /\ \A i \in DOMAIN mdnsStore[b] :
             mdnsStore[b][i].value.ip \in map_keys(heard[b])

\* A listen key handed out in a QUERY_RESPONSE keeps leading to the same address
\* and the same name: a client that connects with it later, after any number of
\* announcements, is not sent elsewhere.
KeyStable ==
    [][\A b \in Bridges : \A k \in 1 .. issued[b] :
         /\ getIpAddrForId(mdnsStore'[b], k) = getIpAddrForId(mdnsStore[b], k)
         /\ mdnsStore'[b][map_getItem(mdnsStore'[b], k)].value.name
              = mdnsStore[b][map_getItem(mdnsStore[b], k)].value.name]_vars

\* A query for a name finds the record a service was last heard under, as long as
\* the matching records fit in the result, and it never finds more than fit.
QueryFinds ==
    \A b \in Bridges : \A ip \in map_keys(heard[b]) :
        \A q \in {map_get(heard[b], ip, << >>).name, "hn.local"} :
            LET all == {i \in DOMAIN mdnsStore[b] : Matches(mdnsStore[b][i].value.name, q)}
                res == getMdnsRecordsForName(mdnsStore[b], q, MaxItems)
            IN /\ Len(res) <= MaxItems
               /\ Cardinality(all) <= MaxItems => \E i \in DOMAIN res : res[i].value.ip = ip

Knows(b, c) == \E i \in DOMAIN mdnsStore[b] : mdnsStore[b][i].value.name = c

\* Of two bridges that run one knows the other once no packet is on its way, if
\* none was lost: the query of the later one comes back to itself, and its answer
\* is not suppressed by the minimum interval unless it has just answered.
OneLearns ==
    \A b, c \in up :
        b # c /\ net = {} /\ ~lossy => Knows(b, c) \/ Knows(c, b)

\* Between two answers of a bridge the minimum interval passes, whoever asks and
\* whatever arrives (the comment of handleMdnsRead: "required to stop spamming or
\* infinite loops").  The times are those of the answers that went out, not the
\* bridge's own lastMdnsBroadcast: one that was not kept, or was kept for another
\* packet, lets an answer out too soon.
NoStorm ==
    \A b \in Bridges : \A i, j \in DOMAIN answered[b] :
        i < j => answered[b][j] - answered[b][i] >= MinInterval
===============================================================================
