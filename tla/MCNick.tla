------------------------------- MODULE MCNick -------------------------------
(* Two nicks to be configured, in lists of both orders, of one and of      *)
(* none, and a nick that miau makes up.                                    *)
EXTENDS Nick

CONSTANTS a, b, g

MCNames == {a, b, g}
MCGenerated == {g}
MCLists == {<<>>, <<a>>, <<a, b>>, <<b, a>>}
==============================================================================
