------------------------------ MODULE IpExtract ------------------------------
(***************************************************************************)
(* UBootSerial.extract_ip_addr (uloader.py) at the level of characters:   *)
(* re.search of                                                            *)
(*     ((2[0-5]|1[0-9]|[0-9])?[0-9]\.){3}((2[0-5]|1[0-9]|[0-9])?[0-9])     *)
(* in a line, the split of the match at its dots, int() of its parts, and *)
(* is_valid_ipv4 of the match (IPv4Syntax) as gethost_addr applies it.     *)
(* A string is a sequence of one-character strings.  The search takes the *)
(* leftmost start at which the pattern matches and, there, the first way  *)
(* to match in the order a backtracking engine tries them: the optional   *)
(* group greedily first, its alternatives left to right.                   *)
(***************************************************************************)
EXTENDS Naturals, Sequences, SequencesExt

LOCAL V == INSTANCE IPv4Syntax WITH Classes <- {"dec"}, MaxParts <- 4, parts <- <<>>

DigitChars == <<"0", "1", "2", "3", "4", "5", "6", "7", "8", "9">>
Digit      == Range(DigitChars)
Octal      == {DigitChars[k] : k \in 1..8}

\* int() of one decimal digit
DigitVal(c) == CHOOSE n \in 0..9 : DigitChars[n + 1] = c

\* ipconfig and U-Boot print an octet in decimal without leading zeros
RECURSIVE Decimal(_)
Decimal(n) == IF n < 10 THEN <<DigitChars[n + 1]>>
              ELSE Decimal(n \div 10) \o <<DigitChars[(n % 10) + 1]>>

\* the octets of an address, joined by dots
Dotted(a) == Decimal(a[1]) \o <<".">> \o Decimal(a[2]) \o <<".">>
               \o Decimal(a[3]) \o <<".">> \o Decimal(a[4])

\* one octet (2[0-5]|1[0-9]|[0-9])?[0-9], as the character classes of its
\* ways to match in the engine's order: the group present (each of its
\* alternatives), then the group absent
Alternatives ==
    << <<{"2"}, {"0", "1", "2", "3", "4", "5"}, Digit>>, <<{"1"}, Digit, Digit>>,
       <<Digit, Digit>>, <<Digit>> >>

\* way a of the octet matches the characters of s from position i
MatchesAt(s, i, a) ==
    /\ i + Len(a) - 1 <= Len(s)
    /\ \A k \in 1..Len(a) : s[i + k - 1] \in a[k]

\* the parts matched from position i by octets k..4 (octets 1..3 each
\* followed by a dot), taking the first way that lets the rest match, or
\* <<>> when there is none
RECURSIVE MatchFrom(_, _, _)
MatchFrom(s, i, k) ==
    LET tries   == SelectSeq(Alternatives, LAMBDA a : MatchesAt(s, i, a))
        Rest(a) == IF k = 4 THEN <<>> ELSE MatchFrom(s, i + Len(a) + 1, k + 1)
        Ok(a)   == \/ k = 4
                   \/ /\ i + Len(a) <= Len(s)
                      /\ s[i + Len(a)] = "."
                      /\ Rest(a) # <<>>
        j       == SelectInSeq(tries, Ok)
    IN  IF j = 0 THEN <<>>
        ELSE <<SubSeq(s, i, i + Len(tries[j]) - 1)>> \o Rest(tries[j])

NoMatch == <<>>   \* re.search returned None: extract_ip_addr returns None

\* extract_ip_addr(line): the match at the leftmost start, split at its dots
ExtractIpAddr(s) ==
    LET starts == {i \in 1..Len(s) : MatchFrom(s, i, 1) # <<>>}
    IN  IF starts = {} THEN NoMatch ELSE MatchFrom(s, Min(starts), 1)

\* int() of a string of decimal digits; leading zeros do not make it octal
RECURSIVE IntOf(_)
IntOf(d) == IF d = <<>> THEN 0 ELSE 10 * IntOf(Front(d)) + DigitVal(Last(d))

\* the class of is_valid_ipv4's pattern that a part of digits matches
PartClass(d) ==
    CASE d = <<"0">>                           -> "zero"
      [] d[1] = "0" /\ \A k \in 2..Len(d) : d[k] \in Octal -> "oct"
      [] d[1] = "0"                            -> "other"
      [] IntOf(d) <= 255                       -> "dec"
      [] OTHER                                 -> "dec32"

\* gethost_addr's test: a match was found and is_valid_ipv4 accepts it
ValidMatch(m) == m # NoMatch /\ V!IsValidIPv4([k \in 1..4 |-> PartClass(m[k])])

\* int(host_ip_addr[k]) for k = 1..4, the octets the subnet test uses
OctetsOf(m) == [k \in 1..4 |-> IntOf(m[k])]
=============================================================================
