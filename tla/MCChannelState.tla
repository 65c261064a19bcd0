--------------------------- MODULE MCChannelState ---------------------------
(***************************************************************************)
(* Settings for TLC.                                                       *)
(***************************************************************************)
EXTENDS ChannelState

CONSTANTS n, me

Set(leave, rejoin, tries) ==
    [leave |-> leave, rejoin |-> rejoin, jointries |-> tries]

MCStateConfigs == {Set(FALSE, TRUE, 1)}

\* Logs of their own for all channels, or the logs of the rule for all.
MCLogRules == {[own |-> Channel, all |-> FALSE], [own |-> {}, all |-> TRUE]}

\* A mode for n or for miau itself, next to others with parameters.
MCModeLines ==
    { [flags |-> <<"+", "l", "o">>, params |-> <<"9", me>>],
      [flags |-> <<"-", "l", "o", "+", "v">>, params |-> <<me, n>>],
      [flags |-> <<"-", "k", "+", "b", "o">>, params |-> <<"key", "mask", n>>] }

(* Masks and names of two characters, one of which "@@" stands for.        *)
Strings(letters, k) == UNION {[1 .. l -> letters] : l \in 0 .. k}
Mask(k) == Strings({"x", "@", "*", "?"}, k)
Rule(k) == [mask : Mask(k), allowed : BOOLEAN]

MCMaskNames == Strings({"x", "@"}, 4)
MCRuleLists == [1 .. 1 -> Rule(3)] \cup [1 .. 2 -> Rule(2)]
MCHosts == {<< >>, <<"x", "x">>}
=============================================================================
