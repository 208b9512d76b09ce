----------------------------- MODULE IPv4Syntax -----------------------------
(***************************************************************************)
(* UBootSerial.is_valid_ipv4 (uloader.py) as a pure operator, compared     *)
(* with the IPv4 validity clause of the spec (section 8).  A string is     *)
(* abstracted to the sequence of its dot-separated parts (at least one:    *)
(* "" is one empty part), each part reduced to the class of the pattern's *)
(* alternatives it matches in full.  The pattern is anchored (^ ... $) and *)
(* the strings it is given are stripped, so a part is matched whole.       *)
(*                                                                         *)
(*   "dec"    1-255 without leading 0: [3-9]\d?|2(?:5[0-5]|[0-4]?\d)?|1\d{0,2} *)
(*   "zero"   "0"                                                          *)
(*   "oct"    other octal 0+[1-3]?[0-7]{0,2}, such as "00" or "0377"       *)
(*   "hex"    0x0*[0-9a-f]{1,2}                                            *)
(*   "hex32"  0x0*[0-9a-f]{1,8} with more than two digits                  *)
(*   "oct32"  0+[0-3]?[0-7]{0,10} beyond 0377                              *)
(*   "dec32"  256-4294967295 without leading 0 (the decimal alternatives)  *)
(*   "other"  anything else: empty, letters, "08", too large               *)
(***************************************************************************)
EXTENDS Naturals, Sequences

CONSTANTS
    Classes,   \* the part classes enumerated
    MaxParts   \* parts per string at most

AllClasses == {"dec", "zero", "oct", "hex", "hex32", "oct32", "dec32", "other"}

ASSUME Classes \subseteq AllClasses /\ MaxParts \in Nat \ {0}

\* the alternatives of one dotted part: decimal, hexadecimal or octal byte
ByteClasses == {"dec", "zero", "oct", "hex"}

\* the whole-string alternatives: hexadecimal, octal or decimal notation
\* of a 32-bit number, or a single dotted part
WordClasses == ByteClasses \cup {"hex32", "oct32", "dec32"}

\* the dotted variants: one byte, then the group (\. byte) 0 to 3 times
Dotted(parts) ==
    /\ Len(parts) \in 1..4
    /\ \A i \in 1..Len(parts) : parts[i] \in ByteClasses

\* a dot-free 32-bit number
Word(parts) == Len(parts) = 1 /\ parts[1] \in WordClasses

\* pattern.match(ip) is not None
IsValidIPv4(parts) == Dotted(parts) \/ Word(parts)

\* the spec's notion: a dotted quad of decimal octets 0-255
Reference(parts) ==
    /\ Len(parts) = 4
    /\ \A i \in 1..4 : parts[i] \in {"dec", "zero"}

VARIABLE parts

Init == parts \in UNION {[1..n -> Classes] : n \in 1..MaxParts}

Next == UNCHANGED parts

Spec == Init /\ [][Next]_parts

\* Spec section 8: is_valid_ipv4 accepts exactly the dotted quads; it
\* rejects "256.1.1.1" and "1.2.3".
IPv4ValidityContract == IsValidIPv4(parts) = Reference(parts)
=============================================================================
