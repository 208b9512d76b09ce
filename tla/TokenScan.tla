----------------------------- MODULE TokenScan -----------------------------
(***************************************************************************)
(* UBootSerial.check_for_token (uloader.py) as a pure function of its      *)
(* inputs: the line already read, the lines readline() returns next, the  *)
(* token, and the tries budget, compared with the contract of the spec     *)
(* (section 8): true iff a line within tries reads starts with the token,  *)
(* false with no read when tries is 0.                                     *)
(***************************************************************************)
EXTENDS Integers, Sequences

CONSTANTS Kinds, MaxLen, MaxTries

NoTemp == "NoTemp"   \* temp_prompt still holds the int 0

\* line.find(token) == 0; every line starts with "" ("Empty")
StartsWith(l, tok) == tok = "Empty" \/ l = tok

\* readline() once the target has nothing more to say times out with ""
NextLine(rest) == IF rest = <<>> THEN "Empty" ELSE Head(rest)
Later(rest)    == IF rest = <<>> THEN <<>> ELSE Tail(rest)

\* The while loop, from the line in hand.  Comparing a line with the int
\* temp_prompt raises TypeError.
RECURSIVE Scan(_, _, _, _, _, _)
Scan(line, rest, tok, tries, temp, reads) ==
    IF StartsWith(line, tok) \/ tries = 0
    THEN [tries |-> tries, reads |-> reads, error |-> FALSE]
    ELSE LET l == NextLine(rest) IN
         IF ~StartsWith(l, tok)
         THEN [tries |-> tries - 1, reads |-> reads + 1, error |-> FALSE]
         ELSE IF temp = NoTemp
         THEN [tries |-> tries - 1, reads |-> reads + 1, error |-> TRUE]
         ELSE IF ~StartsWith(l, temp)
         THEN [tries |-> tries - 1, reads |-> reads + 1, error |-> FALSE]
         ELSE Scan(l, Later(rest), tok, tries - 1, temp, reads + 1)

\* check_for_token(line, token, tries); isPrompt is token == UBOOT_PROMPT
CheckForToken(line, rest, tok, tries, isPrompt) ==
    LET temp == IF isPrompt /\ ~StartsWith(line, tok) THEN line ELSE NoTemp
        r    == Scan(line, rest, tok, tries, temp, 0)
    IN  [ret    |-> IF r.error THEN "TypeError" ELSE r.tries # 0,
         reads  |-> r.reads,
         prompt |-> IF ~r.error /\ r.tries # 0 /\ temp # NoTemp THEN temp ELSE tok]

\* the contract: the line in hand or one of the next tries reads starts
\* with the token
Reference(line, rest, tok, tries) ==
    /\ tries # 0
    /\ \E i \in 0..tries :
         StartsWith(IF i = 0 THEN line ELSE NextLine(SubSeq(rest, i, Len(rest))), tok)

VARIABLES line, rest, tok, tries, isPrompt

Init ==
    /\ line \in Kinds
    /\ rest \in UNION {[1..n -> Kinds] : n \in 0..MaxLen}
    /\ tok \in Kinds
    /\ tries \in 0..MaxTries
    /\ isPrompt \in BOOLEAN

Next == UNCHANGED <<line, rest, tok, tries, isPrompt>>

Spec == Init /\ [][Next]_<<line, rest, tok, tries, isPrompt>>

\* Spec section 8: check_for_token answers whether a line within its tries
\* budget starts with the token (and never raises).
TokenScanContract ==
    CheckForToken(line, rest, tok, tries, isPrompt).ret = Reference(line, rest, tok, tries)
=============================================================================
