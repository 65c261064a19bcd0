------------------------------- MODULE Match -------------------------------
(***************************************************************************)
(* Masks and permissions: match() and match_replace() of src/src/match.c   *)
(* and is_perm() of perm.c, which decide who is given a mode, who may      *)
(* connect and who is ignored, as functions of their arguments.            *)
(*                                                                         *)
(* A string is a sequence of characters; case, which match() ignores, is   *)
(* left out.  Names of people and hosts hold neither "*" nor "?".          *)
(***************************************************************************)
EXTENDS Integers, Sequences, FiniteSets

CONSTANTS
    MaskNames,       \* strings to match
    RuleLists,   \* lists of rules, each [mask, allowed]
    Hosts        \* what "@@" stands for; << >> when the host is unknown

ASSUME MatchAssumption ==
    LET Char == STRING \ {"end"} IN
    /\ MaskNames \subseteq Seq(Char \ {"*", "?"})
    /\ \A list \in RuleLists : list \in Seq([mask : Seq(Char), allowed : BOOLEAN])
    /\ Hosts \subseteq Seq(Char \ {"*", "?"})

CharAt(s, i) == IF i <= Len(s) THEN s[i] ELSE "end"

\* Fault: a name that has ended matches the rest of a mask from a star on.
MatchForgetsRest(str, pat) ==
    LET f[at \in (1 .. Len(str) + 1) \X (1 .. Len(pat) + 1)] ==
        LET s == at[1]               p == at[2]
            c == CharAt(str, s)      later == CharAt(str, s + 1)
            m == CharAt(pat, p)      next == CharAt(pat, p + 1)
        IN
        IF c = "end" /\ m \in {"end", "*"} THEN TRUE
        ELSE IF c = "end" \/ m = "end" THEN FALSE
        ELSE IF c = m \/ m = "?" THEN f[<<s + 1, p + 1>>]
        ELSE IF m # "*" THEN FALSE
        ELSE IF c = next THEN f[<<s, p + 1>>]
        ELSE IF later = next THEN f[<<s + 1, p + 1>>]
        ELSE f[<<s + 1, p>>]
    IN f[<<1, 1>>]

(* match(): a star ends where what follows it in the mask first turns up,  *)
(* and there is no way back.                                               *)
Match(str, pat) ==
    LET f[at \in (1 .. Len(str) + 1) \X (1 .. Len(pat) + 1)] ==
        LET s == at[1]               p == at[2]
            c == CharAt(str, s)      later == CharAt(str, s + 1)
            m == CharAt(pat, p)      next == CharAt(pat, p + 1)
        IN
        IF c = "end" /\ (m = "end" \/ (m = "*" /\ next = "end")) THEN TRUE
        ELSE IF c = "end" \/ m = "end" THEN FALSE
        ELSE IF c = m \/ m = "?" THEN f[<<s + 1, p + 1>>]
        ELSE IF m # "*" THEN FALSE
        ELSE IF c = next THEN f[<<s, p + 1>>]
        ELSE IF later = next THEN f[<<s + 1, p + 1>>]
        ELSE f[<<s + 1, p>>]
    IN f[<<1, 1>>]

(* match_replace() puts the host in the place of the last "@@".            *)
Replaced(pat, host) ==
    LET at == {i \in 1 .. Len(pat) - 1 : pat[i] = "@" /\ pat[i + 1] = "@"} IN
    IF host = << >> \/ at = {} THEN pat
    ELSE LET i == CHOOSE i \in at : \A j \in at : j <= i IN
         SubSeq(pat, 1, i - 1) \o host \o SubSeq(pat, i + 2, Len(pat))

\* Fault: the first rule that matches decides.
FirstRuleDecides(list, name, host) ==
    LET hits == {i \in DOMAIN list : Match(name, Replaced(list[i].mask, host))} IN
    \E i \in hits : list[i].allowed /\ \A j \in hits : i <= j

(* is_perm(): the last rule that matches decides, and none permits nothing.*)
IsPerm(list, name, host) ==
    LET hits == {i \in DOMAIN list : Match(name, Replaced(list[i].mask, host))} IN
    \E i \in hits : list[i].allowed /\ \A j \in hits : j <= i
------------------------------------------------------------------------------
(* What a mask stands for: "?" for a character, "*" for any number.        *)
Covers(pat, str) ==
    LET g[at \in (1 .. Len(str) + 1) \X (1 .. Len(pat) + 1)] ==
        LET s == at[1] p == at[2] IN
        IF p > Len(pat) THEN s > Len(str)
        ELSE IF pat[p] = "*"
        THEN g[<<s, p + 1>>] \/ (s <= Len(str) /\ g[<<s + 1, p>>])
        ELSE s <= Len(str) /\ pat[p] \in {str[s], "?"} /\ g[<<s + 1, p + 1>>]
    IN g[<<1, 1>>]

(* The masks that match() decides exactly: a star at the end at the most.  *)
Plain(pat) == \A i \in DOMAIN pat : pat[i] = "*" => i = Len(pat)

(* The rule whose mask covers name, for any host.                          *)
Covering(list, name, host) ==
    {i \in DOMAIN list : Covers(Replaced(list[i].mask, host), name)}

(* Who is permitted by a list is covered by one of its rules, and who is   *)
(* covered plainly is permitted.                                           *)
PermitsCovered ==
    \A list \in RuleLists, host \in Hosts, name \in MaskNames :
        LET covering == Covering(list, name, host)
            plain(i) == Plain(Replaced(list[i].mask, host))
            later(i) == {j \in covering : j > i}
            may == {i \in covering : list[i].allowed}
        IN
        /\ IsPerm(list, name, host) =>
               \E i \in may : \A j \in later(i) : list[j].allowed \/ ~plain(j)
        /\ (\E i \in may : plain(i) /\ later(i) = {}) => IsPerm(list, name, host)
=============================================================================
