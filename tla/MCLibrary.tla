------------------------------- MODULE MCLibrary -------------------------------
(***************************************************************************)
(* The byte stream of a relay and the functions the program is built from. *)
(* A behaviour is either one of SockStream (probe.kind = "stream") or a    *)
(* single state that holds one input of one of the pure functions.         *)
(***************************************************************************)
EXTENDS SockStream, Library, DnsCodec

\* Containers: two keys and two values, three elements.
MapOps == {<<"set", k, v>> : k \in {"a", "b"}, v \in {"x", "y"}}
            \cup {<<"del", k, "">> : k \in {"a", "b"}}

ListOps == {"add", "remove"} \X {1, 2, 3}

\* Configuration: files of up to three lines, some with no newline at the end; up
\* to two items on the command line, one of them no option.
Entry(k, v) == [kind |-> "entry", key |-> k, value |-> v]
Section(k) == [kind |-> "section", key |-> k, value |-> ""]
Lines == {Entry("Port", "2"), Entry("URL", "here"), Entry("k", "true"), Entry("RL Auth", "true"),
          Section("Listen Keys"), Section("Query Keys"),
          [kind |-> "other", key |-> "", value |-> ""]}
Files == {[lines |-> l, newline |-> TRUE] : l \in BoundedSeq(Lines, 3)}
           \cup {[lines |-> l, newline |-> FALSE] : l \in BoundedSeq(Lines, 2)}
CommandLines == {<< >>, <<<<"-p", "1">>>>, <<<<"-url", "-p">>>>, <<<<"-env", "true">>>>,
                 <<<<"stray">>, <<"-p", "1">>>>, <<<<"-p", "1">>, <<"-p", "3">>>>}
Envs == {<< >>, [PORT |-> "3"], [CONFIG_FILE |-> "no.conf", URL |-> "e"],
         "L-k" :> "l" @@ "Q-Port" :> "q"}

\* Http: an upgrade, a command, another request, neither.
Messages == {UpgradeRequest("h"), Command, <<<<"GET", "/", "HTTP/1.1">>, << >>>>, <<<<"hello">>>>}
Sessions == BoundedSeq(Messages, 2) \ {<< >>}

\* Text: blanks, backslashes and a letter that may be escaped.
Texts == BoundedSeq({"a", " ", "\\", "n"}, 4)
Words == BoundedSeq({"a", "b"}, 3)

\* Sha2: pieces of 0 to 9 cells; the cells of all of them are different.
Cut(sizes) ==
    LET before[i \in 1 .. Len(sizes)] == IF i = 1 THEN 0 ELSE before[i - 1] + sizes[i - 1]
    IN [i \in 1 .. Len(sizes) |-> [j \in 1 .. sizes[i] |-> before[i] + j]]

\* DnsCodec: names that share their ends, records of every type.
B == <<98, Dot>>
AB == <<97, Dot, 98, Dot>>
CB == <<99, Dot, 98, Dot>>
Root == <<Dot>>

Header == [id |-> 4660, opcode |-> 0, query |-> FALSE, aa |-> TRUE, tc |-> FALSE, rd |-> TRUE,
           ra |-> FALSE, z |-> FALSE, ad |-> FALSE, cd |-> TRUE, rcode |-> 3]

Record(n, t, d) == [name |-> n, type |-> t, class |-> 1, ttl |-> <<1, 2>>, data |-> d]

\* A name of one byte makes an MX too short for the decoder.
Records(n, m) ==
    {Record(n, RR.A, <<<<1, 2, 3, 4>>>>),
     Record(n, RR.NS, <<m>>),
     Record(n, RR.SOA, <<m, AB, <<1, 2>>, <<3, 4>>, <<5, 6>>, <<7, 8>>, <<9, 10>>>>),
     Record(n, RR.NULL, <<<<7>>>>),
     Record(n, RR.WKS, <<<<1, 2, 3, 4>>, <<6>>, <<9, 8>>>>),
     Record(n, RR.HINFO, <<<<5>>, << >>>>),
     Record(n, RR.MINFO, <<m, CB>>),
     Record(n, RR.TXT, <<<<1, 2, 3, 4, 5, 6, 7>>>>),
     Record(n, RR.TXT, <<<<1, 2, 3>>>>),
     Record(n, RR.AAAA, <<[i \in 1 .. 16 |-> i]>>),
     Record(n, RR.SRV, <<<<1>>, <<2>>, <<515>>, m>>),
     Record(n, RR.NAPTR, <<<<1>>, <<2>>, <<3>>, << >>, <<4, 5>>, m>>)}
      \cup (IF m = Root THEN {} ELSE {Record(n, RR.MX, <<<<10>>, m>>)})

Loc == Record(AB, RR.LOC, <<<<200>>, <<30000>>, <<1>>, <<1, 51, 30, 12, 748>>,
                            <<0, 0, 7, 39, 611>>, <<-5>>>>)

Opt(options) == [name |-> Root, type |-> RR.OPT, class |-> 1232, ttl |-> <<1>>, data |-> options]

Opts == {<< >>} \cup {<<Opt(o)>> : o \in {<< >>, <<<<3, 171, 5>>>>, <<<<9, 1>>, <<3, 16>>>>}}

Query(q, a, n, o) == Header @@ [questions |-> q, answers |-> a, nameservers |-> n, additional |-> o]

Question == [name |-> AB, type |-> RR.SRV, class |-> 1]

Answers == UNION {Records(n, m) : n \in {B, CB}, m \in {B, AB, CB, Root}}

Queries ==
    {Query(q, <<a>>, n, o) : q \in {<< >>, <<Question>>}, a \in Answers \cup {Loc},
                             n \in {<< >>, <<Record(B, RR.CNAME, <<AB>>)>>}, o \in Opts}

\* Packets with a question, or with an answer of n bytes; what follows is any
\* sequence of an end, a short label, pointers to themselves and to each other.
Packets ==
    {<<0, 1, 0, 0, 0, 1, 0, 0, 0, 0, 0, 0>> \o s : s \in BoundedSeq({0, 1, 192, 12, 14, 64}, 5)}
      \cup {<<0, 1, 0, 0, 0, 0, 0, 1, 0, 0, 0, 0, 0, 0, t, 0, 1, 0, 0, 0, 1, 0, n>> \o s :
              t \in {RR.A, RR.NS, RR.SOA, RR.TXT, RR.SRV, RR.OPT}, n \in {0, 4, 7},
              s \in BoundedSeq({0, 1, 192, 23}, 4)}

\* An OPT of one to four bytes.
ShortOpt(p) == Len(p) > 22 /\ p[15] = RR.OPT /\ p[23] \in 1 .. 4

Probes ==
    \/ probe = [kind |-> "stream"]
    \/ \E ops \in BoundedSeq(MapOps, 4) : probe = [kind |-> "map", ops |-> ops]
    \/ \E ops \in BoundedSeq(ListOps, 5) : Legal(ops) /\ probe = [kind |-> "list", ops |-> ops]
    \/ \E file \in Files, mode \in {"b", "listen", NULL}, items \in CommandLines, env \in Envs :
         probe = [kind |-> "config", mode |-> mode, items |-> items, env |-> env,
                  files |-> "homenet.conf" :> file]
    \/ \E all \in BoundedSeq(Sessions, 2) : probe = [kind |-> "http", all |-> all]
    \/ \E s \in Texts, C \in {{"a"}, {" ", "n"}} : probe = [kind |-> "text", s |-> s, C |-> C]
    \/ \E s, part \in Words : probe = [kind |-> "search", s |-> s, part |-> part]
    \/ \E family \in {"v4", "v6"}, port \in 0 .. 3 :
         probe = [kind |-> "address", a |-> [family |-> family, ip |-> "host", port |-> port]]
    \/ \E sizes \in BoundedSeq(0 .. 9, 3) : probe = [kind |-> "sha", chunks |-> Cut(sizes)]
    \/ \E q \in Queries : probe = [kind |-> "query", q |-> q]
    \/ \E a \in Answers, o \in Opts, n \in 12 .. 60 :
         probe = [kind |-> "room", q |-> Query(<<Question>>, <<a>>, << >>, o), plen |-> n]
    \/ \E p \in Packets, r \in {18, 30, 40} :
         ~ShortOpt(p) /\ probe = [kind |-> "packet", packet |-> p, room |-> r]

LibraryInit == Init /\ Probes

LibraryNext == probe.kind = "stream" /\ Next /\ UNCHANGED probe

LibrarySpec == LibraryInit /\ [][LibraryNext]_<<vars, probe>> /\ Fairness

\* DnsCodec: decoding undoes encoding.
Codec == Of("query") => RoundTrip(probe.q, 400)

\* DnsCodec: a buffer that is too small is not written past its end.
SmallBuffers == Of("room") => NoOverrun(probe.q, probe.plen)

\* DnsCodec: no packet is decoded for ever, and only want of bytes or of room stops
\* the decoder at an assert.
AnyPacket == Of("packet") => Answered(probe.packet, probe.room)
===============================================================================
