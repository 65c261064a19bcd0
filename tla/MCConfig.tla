------------------------------ MODULE MCConfig ------------------------------
(***************************************************************************)
(* Files for TLC: two good ones, one without a list, one whose last list   *)
(* has no end and one with a number that is out of range.                  *)
(***************************************************************************)
EXTENDS Config

CONSTANTS default, lunch, secret, host, other, chan

Line(kind) == [kind |-> kind]
Open(list) == [kind |-> "open", list |-> list]
Has(item) == [kind |-> "item", value |-> item]
Set(name, value) == [kind |-> "set", name |-> name, value |-> value]

MCConfigs ==
    [awaymsg : Text \cup {None}, autoaway : {"never", "detach", "noclients"},
     usequitmsg : BOOLEAN]

\* Everything, before, between and after the lists.
MCWhole ==
    <<Set("password", secret), Set("awaymsg", lunch), Set("awaymsg", default),
      Open("channels"), Has(chan), Line("close"),
      Set("autoaway", "noclients"), Set("maxclients", 1),
      Open("connhosts"), Has(host), Has(other), Line("close"),
      Set("usequitmsg", FALSE), Set("maxclients", 2)>>

\* Only what must be there.
MCShort ==
    <<Set("password", secret), Set("autoaway", "detach"), Set("usequitmsg", TRUE),
      Open("connhosts"), Has(other), Line("close")>>

\* No list at all, and a number that does not fit an int.
MCNoList == <<Set("autoaway", "never"), Set("awaymsg", default), Set("maxclients", 4)>>

\* The list of channels has no end, and one begins inside of it.
MCNoEnd ==
    <<Set("password", secret), Set("awaymsg", default), Set("maxclients", 2),
      Open("channels"), Has(chan), Open("connhosts"), Has(host)>>

\* A list nobody knows, a line to refuse, and two numbers.
MCWrong ==
    <<Set("password", None), Open("invalid"), Has(host), Line("close"), Line("bad"),
      Set("maxclients", 9), Set("maxclients", 2),
      Open("connhosts"), Has(host), Line("close"), Line("close")>>

MCFiles == {MCWhole, MCShort, MCNoList, MCNoEnd, MCWrong}
=============================================================================
