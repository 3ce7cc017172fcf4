------------------------------- MODULE DnsCodec -------------------------------
(***************************************************************************)
(* lib/dns/codec.c: dns_encode and dns_decode.  A packet is the sequence   *)
(* of its bytes.  A name is the sequence of its characters, with its dots; *)
(* a record is [name, type, class, ttl, data], where data is the sequence  *)
(* of its fields.  A field is a sequence: a number of 16 bits has one      *)
(* element, one of 32 bits its two halves.  For RR.OPT class is the        *)
(* payload size, ttl the DO bit, and a field is an option: its code and    *)
(* its data.  RR_GPOS (floating point numbers as text) is left out.  The   *)
(* makefile leaves assert() on: one that fails ends the program, here the  *)
(* error "abort".                                                          *)
(***************************************************************************)
EXTENDS Integers, Sequences, FiniteSets, SequencesExt

CONSTANTS
    MaxLabel,       \* MAX_DOMAIN_LABEL: labels are shorter
    MaxString,      \* 255, the longest string
    MaxSeg,         \* MAXSEG, names remembered for compression
    MaxLoop,        \* 256, pointers followed in one name
    Align,          \* MEM_ALIGN
    QuerySize,      \* sizeof(dns_query_t)
    QuestionSize,   \* sizeof(dns_question_t)
    AnswerSize,     \* sizeof(dns_answer_t)
    OptSize         \* sizeof(edns0_opt_t)

ASSUME CodecAssumption ==
    /\ {MaxLabel, MaxString, Align} \subseteq Nat \ {0}
    /\ {MaxSeg, MaxLoop, QuerySize, QuestionSize, AnswerSize, OptSize} \subseteq Nat

Dot == 46

\* dns_type_t
RR == [A |-> 1, NS |-> 2, MD |-> 3, MF |-> 4, CNAME |-> 5, SOA |-> 6, MB |-> 7, MG |-> 8,
       MR |-> 9, NULL |-> 10, WKS |-> 11, PTR |-> 12, HINFO |-> 13, MINFO |-> 14, MX |-> 15,
       TXT |-> 16, RP |-> 17, AFSDB |-> 18, X25 |-> 19, ISDN |-> 20, RT |-> 21, NSAP |-> 22,
       NSAP_PTR |-> 23, PX |-> 26, AAAA |-> 28, LOC |-> 29, SRV |-> 33, NAPTR |-> 35,
       OPT |-> 41, SPF |-> 99]

\* The types that share a structure.
MinfoLike == {RR.PX, RR.RP, RR.MINFO}
MxLike == {RR.AFSDB, RR.RT, RR.MX}
HinfoLike == {RR.NSAP, RR.ISDN, RR.HINFO}
TxtLike == {RR.X25, RR.SPF, RR.TXT}
NameLike == {RR.NSAP_PTR, RR.MD, RR.MF, RR.MB, RR.MG, RR.MR, RR.NS, RR.PTR, RR.CNAME}

NSID == 3

(***************************************************************************)
(* Encoding.  The context: the bytes written, the room that is left, the   *)
(* names seen, whether an OPT was, and the first error.                    *)
(***************************************************************************)
Fail(d, rc) == [d EXCEPT !.rc = rc]

Ok(d) == d.rc = "okay"

\* The assert at the start of a function: there is room.
econtext_okay(d) == IF Ok(d) /\ d.size = 0 THEN Fail(d, "abort") ELSE d

\* The check of the room and the write.
Put(d, bytes) ==
    IF ~Ok(d) THEN d
    ELSE IF d.size < Len(bytes) THEN Fail(d, "no memory")
    ELSE [d EXCEPT !.packet = @ \o bytes, !.size = @ - Len(bytes)]

write_uint16(v) == <<v \div 256, v % 256>>

write_uint32(v) == write_uint16(v[1]) \o write_uint16(v[2])

segment_find(d, name) ==
    LET S == {i \in DOMAIN d.segments : d.segments[i].name = name}
    IN IF S = {} THEN 0 ELSE Min(S)

DotOf(name) ==
    LET P == {i \in DOMAIN name : name[i] = Dot} IN IF P = {} THEN 0 ELSE Min(P)

\* The label in front of the first dot, remembered with its offset.
encode_segment(d, name) ==
    LET dot == DotOf(name)
        e == Put(d, <<dot - 1>> \o SubSeq(name, 1, dot - 1))
    IN IF dot = 0 \/ dot - 1 >= MaxLabel THEN Fail(d, "name error")
       ELSE [e EXCEPT !.segments = Append(@, [name |-> name, offset |-> Len(d.packet)])]

\* Mutation: the offset counts from the end of the header.
Pointer_body(offset) == <<192 + ((offset - 12) \div 256), (offset - 12) % 256>>

Pointer(offset) == <<192 + (offset \div 256), offset % 256>>

\* Label by label until the rest is known: then a pointer to it.
RECURSIVE Labels(_, _)
Labels(d, name) ==
    IF ~Ok(d) THEN d
    ELSE IF name = << >> \/ name[1] = Dot THEN Put(d, <<0>>)
    ELSE IF segment_find(d, name) # 0
    THEN Put(d, Pointer(d.segments[segment_find(d, name)].offset))
    ELSE IF Len(d.segments) = MaxSeg THEN Fail(d, "no memory")
    ELSE Labels(encode_segment(d, name), SubSeq(name, DotOf(name) + 1, Len(name)))

encode_domain(d, name) == Labels(econtext_okay(d), name)

\* Mutation: the byte of the length is forgotten in the check.
encode_string_tight(d, text) ==
    LET e == econtext_okay(d)
    IN IF ~Ok(e) THEN e
       ELSE IF Len(text) > MaxString THEN Fail(e, "bad string")
       ELSE IF e.size < Len(text) THEN Fail(e, "no memory")
       ELSE [e EXCEPT !.packet = @ \o <<Len(text)>> \o text, !.size = @ - Len(text) - 1]

encode_string(d, text) ==
    LET e == econtext_okay(d)
    IN IF ~Ok(e) THEN e
       ELSE IF Len(text) > MaxString THEN Fail(e, "bad string")
       ELSE Put(e, <<Len(text)>> \o text)

encode_question(d, q) ==
    Put(encode_domain(d, q.name), write_uint16(q.type) \o write_uint16(q.class))

\* The fields of a record, by type.
encode_rr_a(d, r) == Put(econtext_okay(d), r[1])

encode_rr_aaaa(d, r) == Put(econtext_okay(d), r[1])

encode_rr_soa(d, r) ==
    Put(encode_domain(encode_domain(d, r[1]), r[2]),
        FlattenSeq([i \in 1 .. 5 |-> write_uint32(r[i + 2])]))

\* Room for a name of one byte is asked for with the numbers.
encode_rr_srv(d, r) ==
    IF d.size = 0 THEN Fail(d, "abort")
    ELSE IF d.size < 7 THEN Fail(d, "no memory")
    ELSE encode_domain(Put(d, FlattenSeq([i \in 1 .. 3 |-> write_uint16(r[i][1])])), r[4])

encode_rr_wks(d, r) == Put(econtext_okay(d), r[1] \o write_uint16(r[2][1]) \o r[3])

encode_rr_naptr(d, r) ==
    LET n == Put(econtext_okay(d), write_uint16(r[1][1]) \o write_uint16(r[2][1]))
    IN encode_domain(encode_string(encode_string(encode_string(n, r[3]), r[4]), r[5]), r[6])

encode_rr_minfo(d, r) == encode_domain(encode_domain(d, r[1]), r[2])

encode_rr_mx(d, r) == encode_domain(Put(econtext_okay(d), write_uint16(r[1][1])), r[2])

encode_rr_hinfo(d, r) == encode_string(encode_string(d, r[1]), r[2])

\* Text of any length, in strings of at most MaxString.
Chunks(text) ==
    LET n == (Len(text) + MaxString - 1) \div MaxString
        end(i) == IF i = n THEN Len(text) ELSE i * MaxString
    IN [i \in 1 .. n |-> SubSeq(text, (i - 1) * MaxString + 1, end(i))]

encode_rr_txt(d, r) ==
    IF r[1] = << >> THEN Fail(d, "abort") ELSE FoldLeft(encode_string, d, Chunks(r[1]))

encode_rr_x(d, r) == Put(econtext_okay(d), r[1])

\* Hundredths of metres as a digit and a power of ten, 0 for the default.
Power(scale) == CHOOSE p \in 0 .. 9 : 10^p <= scale /\ (p = 9 \/ scale < 10^(p + 1))

eloc_scale(scale, default) ==
    LET s == IF scale = 0 THEN default ELSE scale
    IN 16 * (s \div 10^Power(s)) + Power(s)

\* An angle <<nw, deg, min, sec, frac>> in thousandths of seconds from the equator
\* or the meridian; LOC_BIAS is 2^31.
Thousandths(a) == a[2] * 3600000 + a[3] * 60000 + a[4] * 1000 + a[5]

Biased(v) == write_uint32(<<(v \div 65536) + 32768, v % 65536>>)

\* The four bytes written first are not taken from the room.
encode_rr_loc(d, r) ==
    LET bytes == <<0, eloc_scale(r[1][1], 100), eloc_scale(r[2][1], 1000000),
                   eloc_scale(r[3][1], 1000)>>
                 \o Biased(IF r[4][1] = 1 THEN Thousandths(r[4]) ELSE - Thousandths(r[4]))
                 \o Biased(IF r[5][1] = 1 THEN - Thousandths(r[5]) ELSE Thousandths(r[5]))
                 \o write_uint32(<<(r[6][1] + 10000000) \div 65536, (r[6][1] + 10000000) % 65536>>)
    IN IF d.size = 0 THEN Fail(d, "abort")
       ELSE IF d.size < 16 THEN Fail(d, "no memory")
       ELSE [d EXCEPT !.packet = @ \o bytes, !.size = @ - 12]

Hex(n) == IF n < 10 THEN 48 + n ELSE 55 + n

encode_edns0rr_nsid(d, o) ==
    LET hex == FlattenSeq([i \in 1 .. Len(o) - 1 |-> <<Hex(o[i + 1] \div 16), Hex(o[i + 1] % 16)>>])
    IN Put(econtext_okay(d), write_uint16(o[1]) \o write_uint16(Len(hex)) \o hex)

encode_edns0rr_raw(d, o) ==
    Put(econtext_okay(d), write_uint16(o[1]) \o write_uint16(Len(o) - 1) \o Tail(o))

encode_rr_opt(d, r) ==
    IF d.size = 0 THEN Fail(d, "abort")
    ELSE IF d.edns THEN Fail(d, "format error")
    ELSE IF d.size < 11 THEN Fail(d, "no memory")
    ELSE FoldLeft(LAMBDA e, o : IF o[1] = NSID THEN encode_edns0rr_nsid(e, o)
                                ELSE encode_edns0rr_raw(e, o),
                  [d EXCEPT !.edns = TRUE], r)

encode_rdata(d, type, r) ==
    CASE type = RR.A -> encode_rr_a(d, r)
      [] type = RR.SOA -> encode_rr_soa(d, r)
      [] type = RR.NAPTR -> encode_rr_naptr(d, r)
      [] type = RR.AAAA -> encode_rr_aaaa(d, r)
      [] type = RR.SRV -> encode_rr_srv(d, r)
      [] type = RR.WKS -> encode_rr_wks(d, r)
      [] type = RR.LOC -> encode_rr_loc(d, r)
      [] type = RR.OPT -> encode_rr_opt(d, r)
      [] type \in MinfoLike -> encode_rr_minfo(d, r)
      [] type \in MxLike -> encode_rr_mx(d, r)
      [] type \in HinfoLike -> encode_rr_hinfo(d, r)
      [] type \in TxtLike -> encode_rr_txt(d, r)
      [] type \in NameLike -> encode_domain(d, r[1])
      [] type = RR.NULL -> encode_rr_x(d, r)
      [] OTHER -> Fail(d, "not implemented")

\* The length of the fields is written when they are.
WithLength(e, n) ==
    LET len == write_uint16(Len(e.packet) - n)
    IN IF Ok(e) THEN [e EXCEPT !.packet[n - 1] = len[1], !.packet[n] = len[2]] ELSE e

encode_fields(d, a) ==
    IF Ok(d) THEN WithLength(encode_rdata(d, a.type, a.data), Len(d.packet)) ELSE d

encode_answer(d, a) ==
    LET ttl == IF a.type = RR.OPT THEN <<(d.rcode \div 16) % 256, 0, 128 * a.ttl[1], 0>>
               ELSE write_uint32(a.ttl)
    IN encode_fields(Put(encode_domain(d, a.name),
                         write_uint16(a.type) \o write_uint16(a.class) \o ttl \o <<0, 0>>), a)

Bit(b, v) == IF b THEN v ELSE 0

HeaderBytes(q) ==
    write_uint16(q.id)
      \o <<q.opcode * 8 + Bit(~q.query, 128) + Bit(q.aa, 4) + Bit(q.tc, 2) + Bit(q.rd, 1),
           (q.rcode % 16) + Bit(q.ra, 128) + Bit(q.z, 64) + Bit(q.ad, 32) + Bit(q.cd, 16)>>
      \o write_uint16(Len(q.questions)) \o write_uint16(Len(q.answers))
      \o write_uint16(Len(q.nameservers)) \o write_uint16(Len(q.additional))

\* One OPT record, and only among the additional ones.
NoEdns(d) == IF Ok(d) /\ d.edns THEN Fail(d, "format error") ELSE d

dns_encode(q, plen) ==
    LET d == [rc |-> "okay", packet |-> HeaderBytes(q), size |-> plen - 12,
              segments |-> << >>, edns |-> FALSE, rcode |-> q.rcode]
        e == FoldLeft(encode_question, d, q.questions)
    IN FoldLeft(encode_answer,
                NoEdns(FoldLeft(encode_answer, e, q.answers \o q.nameservers)), q.additional)

(***************************************************************************)
(* Decoding.  The context: the packet, the place and the number of bytes   *)
(* that are left, the room for the result, whether an OPT was seen, the    *)
(* first error, the fields of this record and the records done.  The two   *)
(* sizes are unsigned: one below zero stands for a huge one.  Bytes after  *)
(* the packet are the zeros the caller filled its buffer with.             *)
(***************************************************************************)
Fits(size, n) == size < 0 \/ size >= n

Byte(d, i) == IF i < Len(d.packet) THEN d.packet[i + 1] ELSE 0

Number(d, i) == 256 * Byte(d, i) + Byte(d, i + 1)

dcontext_okay(d) ==
    IF Ok(d) /\ (d.size = 0 \/ d.dest = 0) THEN Fail(d, "abort") ELSE d

Skipped(d, n) == [d EXCEPT !.at = @ + n, !.size = @ - n]

Field(d, v) == [d EXCEPT !.out = Append(@, v)]

\* The next n bytes as a field, from the byte after skip on.
Taken(d, skip, n) ==
    Field(Skipped(d, skip + n), [i \in 1 .. n |-> Byte(d, d.at + skip + i - 1)])

\* When the rest is no multiple of Align, the wrong part of it is skipped.
Aligned(dest) == IF dest % Align = 0 THEN dest ELSE dest - (Align - (dest % Align))

align_memory(d) ==
    IF ~Ok(d) THEN d
    ELSE IF d.dest = 0 THEN Fail(d, "abort")
    ELSE IF ~Fits(d.dest, Align) THEN Fail(d, "no memory")
    ELSE [d EXCEPT !.dest = Aligned(@)]

alloc_struct(d, n) ==
    LET e == align_memory(d)
    IN IF ~Ok(e) THEN e
       ELSE IF ~Fits(e.dest, n) THEN Fail(e, "no memory")
       ELSE [e EXCEPT !.dest = @ - n]

read_uint16(d) ==
    IF ~Ok(d) THEN d
    ELSE IF ~Fits(d.size, 2) THEN Fail(d, "abort")
    ELSE Field(Skipped(d, 2), <<Number(d, d.at)>>)

read_uint32(d) ==
    IF ~Ok(d) THEN d
    ELSE IF ~Fits(d.size, 4) THEN Fail(d, "abort")
    ELSE Field(Skipped(d, 4), <<Number(d, d.at), Number(d, d.at + 2)>>)

read_raw(d, len) ==
    LET c == dcontext_okay(d)
        e == align_memory(c)
    IN IF ~Ok(c) THEN c
       ELSE IF len = 0 THEN Field(c, << >>)
       ELSE IF ~Fits(c.size, len) THEN Fail(c, "format error")
       ELSE IF ~Ok(e) THEN e
       ELSE IF ~Fits(e.dest, len) THEN Fail(e, "no memory")
       ELSE [Taken(e, 0, len) EXCEPT !.dest = @ - len]

read_string(d) ==
    LET c == dcontext_okay(d)
        len == Byte(c, c.at)
    IN IF ~Ok(c) THEN c
       ELSE IF ~Fits(c.dest, len + 1) THEN Fail(c, "no memory")
       ELSE IF ~Fits(c.size, len + 1) THEN Fail(c, "format error")
       ELSE [Taken(c, 1, len) EXCEPT !.dest = @ - len - 1]

\* Mutation: pointers are followed without an end.
TooManyPointers_never(loop) == FALSE

TooManyPointers(loop) == loop = MaxLoop

\* The label at the place, its byte of length included; a pointer is followed, and
\* the place after the first one is where the reading goes on (back).  The root is
\* a dot of its own and is not passed over.  The NUL at the end is written without
\* a look at the room, and the last byte taken without one at what is left.
RECURSIVE Name(_, _, _, _, _)
Name(d, name, loop, back, steps) ==
    LET b == Byte(d, d.at)
        to == (b % 64) * 256 + Byte(d, d.at + 1)
        label == [i \in 1 .. b |-> Byte(d, d.at + i)]
        More(e, n, l, k) ==
          IF Byte(e, e.at) # 0 THEN Name(e, n, l, k, steps + 1)
          ELSE LET f == IF k = << >> THEN Skipped(e, 1) ELSE [e EXCEPT !.at = k[1], !.size = k[2]]
               IN Field([f EXCEPT !.dest = @ - 1], n)
    IN IF steps > MaxLoop * (Len(d.packet) + 1) THEN Fail(d, "hangs")
       ELSE IF b < 64
       THEN IF ~Fits(d.size, b + 1) THEN Fail(d, "format error")
            ELSE IF ~Fits(d.dest, b + 1) THEN Fail(d, "no memory")
            ELSE More([Skipped(d, IF b = 0 THEN 0 ELSE b + 1) EXCEPT !.dest = @ - (b + 1)],
                      name \o label \o <<Dot>>, loop, back)
       ELSE IF \/ b < 192
               \/ TooManyPointers(loop + 1)
               \/ ~Fits(d.size, 2)
               \/ to >= Len(d.packet)
       THEN Fail(d, "format error")
       ELSE More([d EXCEPT !.at = to, !.size = Len(d.packet) - to], name, loop + 1,
                 IF back = << >> THEN <<d.at + 2, d.size - 2>> ELSE back)

read_domain(d) ==
    LET c == dcontext_okay(d) IN IF Ok(c) THEN Name(c, << >>, 0, << >>, 0) ELSE c

Done(d, record) ==
    IF Ok(d) THEN [d EXCEPT !.got = Append(@, record), !.out = << >>] ELSE d

decode_question(d) ==
    LET e == read_domain(d)
        f == IF Ok(e) /\ ~Fits(e.size, 4) THEN Fail(e, "format error")
             ELSE read_uint16(read_uint16(e))
    IN IF Ok(f) /\ f.out[2][1] = RR.OPT THEN Fail(f, "format error")
       ELSE Done(f, [name |-> f.out[1], type |-> f.out[2][1], class |-> f.out[3][1]])

\* The check of the length most decoders start with.
Expect(d, c) == IF Ok(d) /\ ~c THEN Fail(d, "format error") ELSE d

decode_rr_soa(d, len) ==
    LET e == Expect(read_domain(read_domain(d)), len >= 20)
    IN FoldLeft(LAMBDA f, i : read_uint32(f), e, <<1, 2, 3, 4, 5>>)

decode_rr_a(d, len) ==
    LET c == Expect(dcontext_okay(d), len = 4) IN IF Ok(c) THEN Taken(c, 0, 4) ELSE c

decode_rr_aaaa(d, len) ==
    LET c == Expect(dcontext_okay(d), len = 16) IN IF Ok(c) THEN Taken(c, 0, 16) ELSE c

decode_rr_wks(d, len) ==
    LET c == Expect(dcontext_okay(d), len >= 6)
    IN IF Ok(c) THEN read_raw(read_uint16(Taken(c, 0, 4)), len - 6) ELSE c

decode_rr_mx(d, len) == read_domain(read_uint16(Expect(dcontext_okay(d), len >= 4)))

\* The strings as one text.
RECURSIVE Strings(_, _, _)
Strings(d, len, text) ==
    LET n == Byte(d, d.at)
        e == Taken(d, 1, n)
    IN IF len = 0
       THEN IF d.dest = 0 THEN Fail(d, "no memory")
            ELSE Field([d EXCEPT !.dest = @ - 1], text)
       ELSE IF ~Fits(d.size, 1) \/ n > len - 1 \/ ~Fits(d.size - 1, n)
       THEN Fail(d, "format error")
       ELSE IF ~Fits(d.dest, n) THEN Fail(d, "no memory")
       ELSE Strings([e EXCEPT !.dest = @ - n, !.out = d.out], len - 1 - n,
                    text \o e.out[Len(e.out)])

decode_rr_txt(d, len) ==
    LET c == dcontext_okay(d) IN IF Ok(c) THEN Strings(c, len, << >>) ELSE c

decode_rr_hinfo(d) == read_string(read_string(d))

decode_rr_srv(d, len) ==
    read_domain(read_uint16(read_uint16(read_uint16(Expect(dcontext_okay(d), len >= 7)))))

decode_rr_naptr(d, len) ==
    LET e == read_uint16(read_uint16(Expect(dcontext_okay(d), len >= 4)))
    IN read_domain(read_string(read_string(read_string(e))))

decode_rr_minfo(d) == read_domain(read_domain(d))

dloc_scale(b) == (b \div 16) * 10^(b % 16)

dloc_angle(nw, v) ==
    <<IF nw THEN 1 ELSE 0, v \div 3600000, (v \div 60000) % 60, (v \div 1000) % 60, v % 1000>>

\* Again four bytes are not taken from what is left.
decode_rr_loc(d, len) ==
    LET c == Expect(dcontext_okay(d), len >= 16)
        At(i) == Byte(d, d.at + i)
        e == Expect(c, At(0) = 0 /\ \A i \in 1 .. 3 : At(i) % 16 <= 9 /\ At(i) \div 16 <= 9)
        f == FoldLeft(LAMBDA g, i : read_uint32(g), [e EXCEPT !.at = @ + 4, !.out = << >>],
                      <<1, 2, 3>>)
        lat == (f.out[1][1] - 32768) * 65536 + f.out[1][2]
        lng == (f.out[2][1] - 32768) * 65536 + f.out[2][2]
        Abs(v) == IF v < 0 THEN - v ELSE v
    IN IF ~Ok(f) THEN f
       ELSE IF Abs(lat) > 90 * 3600000 \/ Abs(lng) > 180 * 3600000
       THEN Fail(f, "format error")
       ELSE [f EXCEPT !.out = d.out \o
               <<<<dloc_scale(At(1))>>, <<dloc_scale(At(2))>>, <<dloc_scale(At(3))>>,
                 dloc_angle(lat >= 0, Abs(lat)), dloc_angle(lng < 0, Abs(lng)),
                 <<f.out[3][1] * 65536 + f.out[3][2] - 10000000>> >>]

\* "0" .. "9", "A" .. "F", "a" .. "f"; 16 for any other character.
Digit(c) ==
    CASE c \in 48 .. 57 -> c - 48
      [] c \in 65 .. 70 -> c - 55
      [] c \in 97 .. 102 -> c - 87
      [] OTHER -> 16

decode_edns0rr_nsid(d, code, len) ==
    LET D == [i \in 1 .. len |-> Digit(Byte(d, d.at + i - 1))]
    IN IF len % 2 = 1 THEN Fail(d, "format error")
       ELSE IF ~Fits(d.dest, len \div 2) THEN Fail(d, "no memory")
       ELSE IF \E i \in 1 .. len : D[i] = 16 THEN Fail(d, "format error")
       ELSE Field([Skipped(d, len) EXCEPT !.dest = @ - (len \div 2)],
                  <<code>> \o [i \in 1 .. len \div 2 |-> 16 * D[2 * i - 1] + D[2 * i]])

decode_edns0rr_raw(d, code, len) ==
    IF ~Fits(d.dest, len) THEN Fail(d, "no memory")
    ELSE Field([Skipped(d, len) EXCEPT !.dest = @ - len],
               <<code>> \o [i \in 1 .. len |-> Byte(d, d.at + i - 1)])

\* The number of options in len bytes, -1 when they do not fit.
RECURSIVE Options(_, _, _)
Options(d, at, len) ==
    LET size == Number(d, at + 2) + 4
        n == Options(d, at + size, len - size)
    IN IF len = 0 THEN 0
       ELSE IF size > len \/ n < 0 THEN -1
       ELSE n + 1

decode_option(d) ==
    LET c == read_uint16(read_uint16(d))
        e == align_memory([c EXCEPT !.out = d.out])
        code == c.out[Len(d.out) + 1][1]
        len == c.out[Len(d.out) + 2][1]
    IN IF ~Ok(c) THEN c
       ELSE IF ~Ok(e) THEN e
       ELSE IF code = NSID THEN decode_edns0rr_nsid(e, code, len)
       ELSE decode_edns0rr_raw(e, code, len)

decode_rr_opt(d, len) ==
    LET c == dcontext_okay([d EXCEPT !.edns = TRUE])
        n == Options(c, c.at, len)
        e == alloc_struct(c, OptSize * n)
    IN IF d.edns THEN Fail(d, "format error")
       ELSE IF len = 0 THEN [d EXCEPT !.edns = TRUE]
       ELSE IF ~Ok(c) \/ len <= 4 THEN Fail(c, "abort")
       ELSE IF n < 0 THEN Fail(c, "format error")
       ELSE FoldLeft(LAMBDA f, i : IF Ok(f) THEN decode_option(f) ELSE f, e,
                     [i \in 1 .. n |-> i])

decode_rdata(d, type, len) ==
    CASE type = RR.A -> decode_rr_a(d, len)
      [] type = RR.SOA -> decode_rr_soa(d, len)
      [] type = RR.NAPTR -> decode_rr_naptr(d, len)
      [] type = RR.AAAA -> decode_rr_aaaa(d, len)
      [] type = RR.SRV -> decode_rr_srv(d, len)
      [] type = RR.WKS -> decode_rr_wks(d, len)
      [] type = RR.LOC -> decode_rr_loc(d, len)
      [] type = RR.OPT -> decode_rr_opt(d, len)
      [] type \in MinfoLike -> decode_rr_minfo(d)
      [] type \in MxLike -> decode_rr_mx(d, len)
      [] type \in HinfoLike -> decode_rr_hinfo(d)
      [] type \in TxtLike -> decode_rr_txt(d, len)
      [] type \in NameLike -> read_domain(d)
      [] OTHER -> read_raw(d, len)

\* For OPT the two fields in front mean something else.
Finished(f, r) ==
    Done(r, [name |-> f.out[1], type |-> Number(f, f.at), class |-> Number(f, f.at + 2),
             ttl |-> IF Number(f, f.at) = RR.OPT THEN <<Byte(f, f.at + 6) \div 128>>
                     ELSE <<Number(f, f.at + 4), Number(f, f.at + 6)>>,
             data |-> r.out])

\* Type, class, ttl and length, and the fields; the version of OPT is 0.
decode_fields(f) ==
    LET type == Number(f, f.at)
        opt == type = RR.OPT
        len == Number(f, f.at + 8)
        g == [Skipped(f, 10) EXCEPT
                !.out = << >>, !.rcode = IF opt THEN 16 * Byte(f, f.at + 4) + @ ELSE @]
        h == Expect(g, (opt => Byte(f, f.at + 5) = 0) /\ Fits(Len(g.packet) - g.at, len))
    IN IF ~Ok(f) THEN f
       ELSE IF ~Ok(h) THEN h
       ELSE Finished(f, decode_rdata(h, type, len))

decode_answer(d) ==
    LET e == read_domain(d) IN decode_fields(Expect(e, Fits(e.size, 10)))

Repeated(f(_), d, n) ==
    FoldLeft(LAMBDA e, i : IF Ok(e) THEN f(e) ELSE e, d, [i \in 1 .. n |-> i])

\* The four arrays; one that would have no elements may be NULL.
Arrays(d, counts) ==
    FoldLeft(LAMBDA e, c :
               LET a == alloc_struct([e EXCEPT !.rc = "okay"], c[1] * c[2])
               IN IF a.rc = "no memory" /\ c[1] = 0 THEN [a EXCEPT !.rc = e.rc]
                  ELSE IF Ok(a) THEN [a EXCEPT !.rc = e.rc] ELSE a,
             d, counts)

\* The bits of the two bytes of flags.
HeaderOf(d) ==
    LET o == Byte(d, 2)
        f == Byte(d, 3)
        Has(b, v) == (b \div v) % 2 = 1
    IN [id |-> Number(d, 0), opcode |-> (o \div 8) % 16, query |-> ~Has(o, 128),
        aa |-> Has(o, 4), tc |-> Has(o, 2), rd |-> Has(o, 1), ra |-> Has(f, 128),
        z |-> Has(f, 64), ad |-> Has(f, 32), cd |-> Has(f, 16)]

\* The records are the questions, then the three sections.
Result(d, n) ==
    LET Part(i, k) == SubSeq(d.got, i + 1, i + k)
    IN IF ~Ok(d) THEN [rc |-> d.rc]
       ELSE [rc |-> "okay",
             query |-> HeaderOf(d) @@
               [rcode |-> d.rcode, questions |-> Part(0, n[1]), answers |-> Part(n[1], n[2]),
                nameservers |-> Part(n[1] + n[2], n[3]),
                additional |-> Part(n[1] + n[2] + n[3], n[4])]]

\* The four counts of the header are n.
decode_sections(d, n) ==
    LET e == Arrays(d, <<<<n[1], QuestionSize>>, <<n[2], AnswerSize>>, <<n[3], AnswerSize>>,
                         <<n[4], AnswerSize>> >>)
        f == Repeated(decode_answer, Repeated(decode_question, e, n[1]), n[2] + n[3])
    IN Result(Repeated(decode_answer, NoEdns(f), n[4]), n)

dns_decode(packet, room) ==
    LET d == [rc |-> "okay", packet |-> packet, at |-> 12, size |-> Len(packet) - 12,
              dest |-> room - QuerySize, edns |-> FALSE, rcode |-> Byte([packet |-> packet], 3) % 16,
              out |-> << >>, got |-> << >>]
    IN IF Len(packet) < 12 THEN [rc |-> "format error"]
       ELSE decode_sections(d, [i \in 1 .. 4 |-> Number(d, 2 + 2 * i)])

(***************************************************************************)
(* Properties                                                              *)
(***************************************************************************)
\* What is encoded is decoded to the same: every type, names that share their ends
\* with one before in any section, texts longer than one string.
RoundTrip(q, room) ==
    LET Back(e) == Ok(e) /\ dns_decode(e.packet, room) = [rc |-> "okay", query |-> q]
    IN Back(dns_encode(q, 512))

\* A small buffer is never written past its end and never gets another packet: the
\* encoder gives up, and only for want of room (RR.OPT asks for 11 bytes more than
\* it writes), or has written what it writes with ample room.  RR.LOC, whose bytes
\* it does not count, is no input here.
NoOverrun(q, plen) ==
    LET Compare(e, ample) ==
          /\ Len(e.packet) <= plen
          /\ Ok(e) => e.packet = ample
          /\ ~Ok(e) => e.rc \in {"no memory", "abort"} /\ plen < Len(ample) + 11
    IN Compare(dns_encode(q, plen), dns_encode(q, 512).packet)

\* No packet keeps the decoder busy for ever, whatever its names point to.  It is
\* decoded, refused, or stops the process at an assert; what it is decoded to does
\* not depend on the room, and an assert fails only for want of bytes or of room:
\* with zeros behind it and room enough the packet is decoded or refused.  An OPT
\* of one to four bytes, which fails one whatever follows it, is no input here.
Answered(packet, room) ==
    LET Zeros == [i \in 1 .. 40 |-> 0]
        Judge(r, ample, long) ==
          /\ r.rc \in {"okay", "format error", "no memory", "abort"}
          /\ r.rc = "okay" => r = ample
          /\ long.rc \in {"okay", "format error"}
    IN Judge(dns_decode(packet, room), dns_decode(packet, 400), dns_decode(packet \o Zeros, 400))
===============================================================================
