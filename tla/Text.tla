--------------------------------- MODULE Text ---------------------------------
(***************************************************************************)
(* The string helpers of utils.c, which work in place on a char array, and *)
(* the textual form of addresses of netUtils.c.  A string is the sequence  *)
(* of its characters, each a one-letter string; an array ends with NUL.    *)
(***************************************************************************)
EXTENDS Integers, Sequences, FiniteSets, SequencesExt

NUL == "NUL"

Mem(s) == Append(s, NUL)

\* What a C function sees of an array: up to the first NUL.
CStr(a) ==
    SubSeq(a, 1, (CHOOSE i \in DOMAIN a : a[i] = NUL /\ \A j \in 1 .. i - 1 : a[j] # NUL) - 1)

\* The comparison stops at the first difference, at the latest at the NUL.
str_startswith(s, part) ==
    \A k \in 1 .. Len(part) : k <= Len(s) /\ s[k] = part[k]

str_contains(s, part) ==
    \E i \in 1 .. Len(s) : str_startswith(SubSeq(s, i, Len(s)), part)

\* before: the bytes in front of the string, read when part is longer.
str_endswith(before, s, part) ==
    LET all == before \o s
    IN \A k \in 1 .. Len(part) : all[Len(all) - Len(part) + k] = part[k]

str_charCount(s, c) == Cardinality({i \in DOMAIN s : s[i] = c})

str_findIndex(s, c) ==
    LET P == {i \in DOMAIN s : s[i] = c} IN IF P = {} THEN 0 ELSE Min(P)

\* Characters start .. end, counted from 1; end 0 for -1, the last one.
str_substring(s, start, end) == SubSeq(s, start, IF end = 0 THEN Len(s) ELSE end)

\* Mutation: a character is left out before it was looked at.
str_removeChars_early(s, C) ==
    LET Step[i \in 0 .. Len(s)] ==
          IF i = 0 THEN [str |-> Mem(s), shift |-> 0]
          ELSE LET p == Step[i - 1]
                   n == p.shift + (IF p.str[i] \in C THEN 1 ELSE 0)
               IN IF n = i THEN [p EXCEPT !.shift = n]
                  ELSE [str |-> [p.str EXCEPT ![i - n] = p.str[i]], shift |-> n]
        e == Step[Len(s)]
    IN CStr([e.str EXCEPT ![Len(s) + 1 - e.shift] = NUL])

\* Every character moves shift places down; one of C is overwritten by the next.
str_removeChars(s, C) ==
    LET Step[i \in 0 .. Len(s)] ==
          IF i = 0 THEN [str |-> Mem(s), shift |-> 0]
          ELSE LET p == Step[i - 1]
               IN [str |-> [p.str EXCEPT ![i - p.shift] = p.str[i]],
                   shift |-> p.shift + (IF p.str[i] \in C THEN 1 ELSE 0)]
        e == Step[Len(s)]
    IN CStr([e.str EXCEPT ![Len(s) + 1 - e.shift] = NUL])

str_removeLast(s, n) == SubSeq(s, 1, Len(s) - n)

\* Trims both ends, then copies down in place.
str_strip(s) ==
    LET N == {i \in DOMAIN s : s[i] # " "}
        start == Min(N)
        size == Max(N) + 1 - start
        Copy[i \in 0 .. size] ==
          IF i = 0 THEN Mem(s) ELSE [Copy[i - 1] EXCEPT ![i] = Copy[i - 1][start + i - 1]]
    IN IF N = {} THEN << >> ELSE CStr([Copy[size] EXCEPT ![size + 1] = NUL])

\* A backslash and one of the seven letters stand for a control character (the
\* capital letters here).
escapeChars ==
    [n |-> "N", t |-> "T", r |-> "R", b |-> "B", f |-> "F", a |-> "A", v |-> "V"]

str_unEscape(s) ==
    LET Step[n \in Nat] ==
          IF n = 0 THEN [str |-> Mem(s), i |-> 1, shift |-> 0]
          ELSE LET p == Step[n - 1] IN
               IF p.str[p.i] = NUL THEN p
               ELSE LET hit == p.str[p.i] = "\\" /\ p.str[p.i + 1] \in DOMAIN escapeChars
                        more == IF hit THEN 1 ELSE 0
                    IN [str |-> [p.str EXCEPT ![p.i - p.shift] =
                                   IF hit THEN escapeChars[p.str[p.i + 1]] ELSE p.str[p.i]],
                        i |-> p.i + 1 + more, shift |-> p.shift + more]
        e == Step[Len(s)]
    IN CStr([e.str EXCEPT ![e.i - e.shift] = NUL])

(***************************************************************************)
(* Addresses: [family, ip, port].  An ip of family "v4" is written with    *)
(* the characters IPv4, one of "v6" with IPv6, two of them colons.  Parsed *)
(* addresses are a struct sockaddr of 16 bytes, which half of a v6 ip does *)
(* not fit into: the ip is then "spilled", neither kept nor refused.       *)
(***************************************************************************)
IPv4 == <<"1", ".", "2">>
IPv6 == <<"f", ":", ":", "1">>
Localhost == <<"l", "h">>

\* inet_pton and inet_ntop.
inet_pton(family, s) ==
    IF s = (IF family = "v4" THEN IPv4 ELSE IPv6) THEN "host" ELSE "fail"

inet_ntop(a) ==
    CASE a.ip = "any" -> <<"0">> [] a.family = "v4" -> IPv4 [] OTHER -> IPv6

\* strtok with one delimiter: the n-th of its non-empty parts.
str_split(s, c, n) ==
    LET starts == {i \in DOMAIN s : s[i] # c /\ (i = 1 \/ s[i - 1] = c)}
        P == {i \in starts : Cardinality({j \in starts : j <= i}) = n}
    IN IF P = {} THEN << >>
       ELSE LET i == Min(P)
                E == {j \in i .. Len(s) : s[j] = c}
            IN SubSeq(s, i, IF E = {} THEN Len(s) ELSE Min(E) - 1)

\* Ports are one numeral; no text is no number.
Ports == <<"7", "8", "9">>

atoi(s) ==
    LET N == {n \in DOMAIN Ports : s = <<Ports[n]>>} IN IF N = {} THEN 0 ELSE Min(N)

ipAddr_setIp(family, addr) ==
    CASE addr = Localhost -> "any"
      [] family = "v6" /\ inet_pton(family, addr) = "host" -> "spilled"
      [] OTHER -> inet_pton(family, addr)

ipAddr_init(family, addr, port) ==
    [family |-> family, ip |-> ipAddr_setIp(family, addr), port |-> port]

\* "[v6]:port", "v6", "v4:port" or "v4".
str_toIpAddr(s) ==
    LET end == str_findIndex(s, "]")
    IN IF s # << >> /\ s[1] = "["
       THEN ipAddr_init("v6", str_substring(s, 2, end - 1),
                        atoi(str_split(SubSeq(s, end + 1, Len(s)), ":", 1)))
       ELSE IF str_charCount(s, ":") > 1 THEN ipAddr_init("v6", s, 0)
       ELSE ipAddr_init("v4", str_split(s, ":", 1), atoi(str_split(s, ":", 2)))

ipAddr_toString(a) ==
    IF a.port = 0 THEN inet_ntop(a)
    ELSE IF a.family = "v4" THEN inet_ntop(a) \o <<":", Ports[a.port]>>
    ELSE <<"[">> \o inet_ntop(a) \o <<"]", ":", Ports[a.port]>>

isDomainName(s) ==
    /\ str_charCount(s, ".") # 0 /\ Len(s) >= 3
    /\ str_charCount(s, "/") = 0 /\ str_charCount(s, ":") = 0

(***************************************************************************)
(* Properties                                                              *)
(***************************************************************************)
\* The loops that work in place give what their names say, for every text and at
\* both of its ends: characters removed, blanks trimmed, escapes replaced.
InPlace(s, C) ==
    /\ str_removeChars(s, C) = SelectSeq(s, LAMBDA c : c \notin C)
    /\ LET N == {i \in DOMAIN s : s[i] # " "}
       IN str_strip(s) = IF N = {} THEN << >> ELSE SubSeq(s, Min(N), Max(N))
    /\ LET E == {i \in 1 .. Len(s) - 1 : s[i] = "\\" /\ s[i + 1] \in DOMAIN escapeChars}
           put == [i \in DOMAIN s |-> IF i \in E THEN escapeChars[s[i + 1]]
                                      ELSE IF i - 1 \in E THEN NUL ELSE s[i]]
       IN str_unEscape(s) = SelectSeq(put, LAMBDA c : c # NUL)

\* The searches agree with the definition by concatenation; a part longer than the
\* text makes str_endswith look at the bytes in front of it.
Searches(before, s, part) ==
    /\ str_startswith(s, part) <=> IsPrefix(part, s)
    /\ str_contains(s, part) <=> s # << >> /\ \E i \in 1 .. Len(s) + 1 :
                                     IsPrefix(part, SubSeq(s, i, Len(s)))
    /\ Len(part) <= Len(s) => (str_endswith(before, s, part) <=> IsSuffix(part, s))

\* A v4 address that was written is read back: records compare addresses by their
\* text, and urls carry them.  Of a v6 address only the family and the port are,
\* with and without brackets (netUtils.test.c: such a text "breaks" str_toIpAddr).
AddressRoundTrip(a) ==
    LET b == str_toIpAddr(ipAddr_toString(a))
    IN /\ b.family = a.family /\ b.port = a.port
       /\ a.family = "v4" => b.ip = a.ip
===============================================================================
