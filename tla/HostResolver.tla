---------------------------- MODULE HostResolver ----------------------------
(***************************************************************************)
(* UBootSerial.gethost_addr (uloader.py): the scan of "ipconfig -all" that *)
(* pairs each host address with its subnet mask (the find_sm flag) and    *)
(* returns the first host address on the target's subnet, as a pure      *)
(* operator compared with the subnet resolver of the spec (section 8).    *)
(*                                                                         *)
(* A line of ipconfig's output is reduced to its kind ("ip": it holds     *)
(* "IP Address" or "IPv4 Address"; "mask": it holds "Subnet Mask";        *)
(* "other") and the address printed in it (a tuple of four octets, or     *)
(* Junk when it prints none).  The code sees the line as characters: its  *)
(* label's end, the address in decimal and a suffix, which it scans with  *)
(* extract_ip_addr and checks with is_valid_ipv4 (IpExtract).             *)
(***************************************************************************)
EXTENDS IpExtract, Bitwise

CONSTANTS
    Addrs,     \* host addresses ipconfig may print
    Masks,     \* subnet masks ipconfig may print
    Targets,   \* target addresses from "DHCP client bound to address"
    MaxLines   \* lines of ipconfig output at most

\* of other lengths than a printed address or a match, so TLC compares them
Junk == <<>>          \* the line prints no address
None == <<"None">>    \* gethost_addr falls off its loop: returns None

Lines ==
    {[kind |-> "ip", addr |-> a] : a \in Addrs \cup {Junk}}
      \cup {[kind |-> "mask", addr |-> m] : m \in Masks \cup {Junk}}
      \cup {[kind |-> "other", addr |-> Junk]}

\* the characters of line l: the end of its label (the "4" of "IPv4", the
\* dot leaders, the colon), the address, "(Preferred)" after an address
Text(l) ==
    LET label == IF l.kind = "mask" THEN <<"k", " ", ".", ":", " ">>
                 ELSE <<"4", " ", ".", ":", " ">>
        addr  == IF l.addr = Junk THEN <<>> ELSE Dotted(l.addr)
        tail  == IF l.kind = "ip" THEN <<"(", "P", ")">> ELSE <<>>
    IN  label \o addr \o tail

\* extract_ip_addr of every line, computed once for the whole run
Extracted == [l \in Lines |-> ExtractIpAddr(Text(l))]

\* extract_ip_addr(line) is not None and is_valid_ipv4 of its match
Found(l) == ValidMatch(Extracted[l])

\* host_ip_addr[0]: the matched string, its parts joined by dots
Joined(m) == m[1] \o <<".">> \o m[2] \o <<".">> \o m[3] \o <<".">> \o m[4]

\* the four nested ifs: int(tgt[i]) & int(mask[i]) == int(host[i]) & int(mask[i])
SameSubnet(tgt, host, mask) ==
    \A i \in 1..4 : (tgt[i] & OctetsOf(mask)[i]) = (OctetsOf(host)[i] & OctetsOf(mask)[i])

\* the loop state after a line: the host address found (None: go on), and
\* host_ip_addr and find_sm for the next line
Step(ret, hostIp, findSm) == [ret |-> ret, hostIp |-> hostIp, findSm |-> findSm]

\* a plausible bug: find_sm stays set after a mask that does not match
Scan_NoReset(lines, tgt, i, findSm, hostIp) ==
    LET l == lines[i] IN
    IF ~findSm /\ l.kind = "ip"
    THEN Step(None, Extracted[l], Found(l))
    ELSE IF findSm /\ l.kind = "mask" /\ Found(l)
    THEN IF SameSubnet(tgt, hostIp, Extracted[l])
         THEN Step(Joined(hostIp), hostIp, FALSE)
         ELSE Step(None, hostIp, TRUE)
    ELSE Step(None, hostIp, findSm)

\* one pass of the for loop on line i: the address branch (only while no
\* mask is awaited), else the mask branch
Scan(lines, tgt, i, findSm, hostIp) ==
    LET l == lines[i] IN
    IF ~findSm /\ l.kind = "ip"
    THEN Step(None, Extracted[l], Found(l))
    ELSE IF findSm /\ l.kind = "mask" /\ Found(l)
    THEN IF SameSubnet(tgt, hostIp, Extracted[l])
         THEN Step(Joined(hostIp), hostIp, FALSE)
         ELSE Step(None, hostIp, FALSE)
    ELSE Step(None, hostIp, findSm)

\* the for loop over the lines from line i; falling off it returns None
RECURSIVE Loop(_, _, _, _, _)
Loop(lines, tgt, i, findSm, hostIp) ==
    IF i > Len(lines) THEN None
    ELSE LET r == Scan(lines, tgt, i, findSm, hostIp) IN
         IF r.ret # None THEN r.ret
         ELSE Loop(lines, tgt, i + 1, r.findSm, r.hostIp)

GetHostAddr(lines, tgt) == Loop(lines, tgt, 1, FALSE, None)

-----------------------------------------------------------------------------
(* The spec's resolver.  Its candidates are the host's (address, mask)    *)
(* pairs: an address line's mask is the next address-or-mask line when    *)
(* that is a mask line.  The device mask m of the spec is the candidate's *)
(* own mask: the DHCP line gives the target no mask.                       *)

MaskOf(lines, i) ==
    LET rest == SubSeq(lines, i + 1, Len(lines))
        j    == SelectInSeq(rest, LAMBDA l : l.kind # "other")
    IN  IF j > 0 /\ rest[j].kind = "mask" THEN rest[j].addr ELSE Junk

Candidate(lines, tgt, i) ==
    /\ lines[i].kind = "ip" /\ Found(lines[i])
    /\ MaskOf(lines, i) # Junk
    /\ \A k \in 1..4 : (lines[i].addr[k] & MaskOf(lines, i)[k])
                         = (tgt[k] & MaskOf(lines, i)[k])

Resolve(lines, tgt) ==
    LET j == SelectInSeq([i \in DOMAIN lines |-> i], LAMBDA i : Candidate(lines, tgt, i))
    IN  IF j = 0 THEN None ELSE Dotted(lines[j].addr)

\* ipconfig's usual layout: every address line is followed at once by the
\* valid mask line printed for it
WellFormed(lines) ==
    \A i \in DOMAIN lines :
        lines[i].kind = "ip" =>
            i < Len(lines) /\ lines[i + 1].kind = "mask" /\ lines[i + 1].addr # Junk

-----------------------------------------------------------------------------
VARIABLES lines, tgt

Init ==
    /\ lines \in UNION {[1..n -> Lines] : n \in 0..MaxLines}
    /\ tgt \in Targets

Next == UNCHANGED <<lines, tgt>>

Spec == Init /\ [][Next]_<<lines, tgt>>

\* Spec section 8: on ipconfig output that prints each address with its
\* mask, gethost_addr returns the first host address whose subnet holds
\* the target, and None when there is none; the find_sm flag must pair
\* every address with its own mask and be reset after each mask.
ResolvesWellFormedOutput ==
    WellFormed(lines) => GetHostAddr(lines, tgt) = Resolve(lines, tgt)
=============================================================================
