------------------------------- MODULE Config -------------------------------
(***************************************************************************)
(* Reading miaurc: parse_cfg() of src/src/parser.c, called from main() and *)
(* from rehash(), with what it keeps from one file to the next: the list   *)
(* it is in (listid), whether it has read a file (virgin), and errno, by   *)
(* which assign_int() knows a number that is out of range.  The settings   *)
(* of Away are read with a password, a number and two lists, one of each   *)
(* kind that there is.                                                     *)
(*                                                                         *)
(* A file is a sequence of lines without comments and blanks.  A line that *)
(* parse_error() refuses wherever it stands is "bad"; that a setting whose *)
(* value holds a brace begins a list inside of another one is left out.    *)
(***************************************************************************)
EXTENDS Away, Sequences, FiniteSets

CONSTANTS
    Files,       \* what may be in miaurc
    Password,    \* passwords
    Item,        \* lines of lists
    IntMax,      \* largest int; larger numbers lose their upper bits
    LongMax      \* largest long; beyond it strtol() sets errno to ERANGE

Lists == {"connhosts", "channels"}

IsLine(l) ==
    \/ l.kind \in {"bad", "close"}
    \/ l.kind = "open" /\ l.list \in Lists \cup {"invalid"}
    \/ l.kind = "item" /\ l.value \in Item
    \/ /\ l.kind = "set"
       /\ \/ l.name = "awaymsg" /\ l.value \in Text \cup {None}
          \/ l.name = "autoaway" /\ l.value \in {"never", "detach", "noclients"}
          \/ l.name = "usequitmsg" /\ l.value \in BOOLEAN
          \/ l.name = "password" /\ l.value \in Password \cup {None}
          \/ l.name = "maxclients" /\ l.value \in Int

ASSUME ConfigAssumption ==
    /\ \A f \in Files : /\ Len(f) \in Nat /\ DOMAIN f = 1 .. Len(f)
                       /\ \A i \in DOMAIN f : IsLine(f[i])
    /\ IntMax \in Nat \ {0}
    /\ LongMax \in Nat
    /\ IntMax <= LongMax
    /\ None \notin Password
    /\ Configs = [awaymsg : Text \cup {None}, autoaway : {"never", "detach", "noclients"},
                  usequitmsg : BOOLEAN]

VARIABLES
    password,    \* cfg.password
    maxclients,  \* cfg.maxclients
    connhosts,   \* connhostlist
    channels,    \* the channels that miaurc put on the passive list
    listid,      \* static listid: a list, "invalid", or "none"
    erange       \* errno is ERANGE

parserVars == <<password, maxclients, connhosts, channels, listid, erange>>
configVars == <<vars, parserVars>>
------------------------------------------------------------------------------
(* The parser, which was in list from, with errno at ERANGE or not (r),    *)
(* when it began to read f.                                                *)

\* The last of some lines, or none of none.
LastOf(lines) == {j \in lines : \A k \in lines : k <= j}

Turns(f, i) == {j \in 1 .. i - 1 : f[j].kind \in {"open", "close"}}

\* Fault: a list that begins inside of another one is only refused.
ListAtRefused(f, i, from) ==
    IF \E j \in LastOf(Turns(f, i)) : TRUE
    THEN LET j == CHOOSE j \in LastOf(Turns(f, i)) : TRUE
             inside == IF Turns(f, j) = {} THEN from # "none"
                       ELSE \E k \in LastOf(Turns(f, j)) : f[k].kind = "open"
         IN
         IF f[j].kind = "close" THEN "none" ELSE IF inside THEN "invalid" ELSE f[j].list
    ELSE from

(* The list that line i is in: parse_list_line() begins a list inside of   *)
(* another one as parse_param() does, and a "}" ends whichever it is.      *)
ListAt(f, i, from) ==
    IF \E j \in LastOf(Turns(f, i)) : TRUE
    THEN LET j == CHOOSE j \in LastOf(Turns(f, i)) : TRUE IN
         IF f[j].kind = "open" THEN f[j].list ELSE "none"
    ELSE from

(* The lines that are taken for settings called name.                      *)
Settings(f, from, name) ==
    {i \in DOMAIN f : /\ f[i].kind = "set"
                      /\ f[i].name = name
                      /\ ListAt(f, i, from) = "none"}

(* The last assignment holds; before is what holds without one.            *)
Assigned(f, lines, before) ==
    IF \E i \in LastOf(lines) : TRUE
    THEN f[CHOOSE i \in LastOf(lines) : TRUE].value
    ELSE before

\* strtol() of line i leaves errno at ERANGE.
OutOfRange(f, i) == f[i].value > LongMax \/ f[i].value < -LongMax - 1

(* Nothing sets errno back while a file is read.                           *)
Refused(f, from, r, i) ==
    r \/ \E j \in Settings(f, from, "maxclients") : j <= i /\ OutOfRange(f, j)

\* What an int keeps of a long.
AsInt(n) == ((n + IntMax + 1) % (2 * (IntMax + 1))) - IntMax - 1

(* assign_int(), with 1 as the least.                                      *)
AssignInt(f, from, r, before) ==
    LET taken == {i \in Settings(f, from, "maxclients") : ~Refused(f, from, r, i)}
        n == AsInt(Assigned(f, taken, before))
    IN
    IF n < 1 THEN 1 ELSE n

(* The items of a list, in their order.                                    *)
Items(f, from, list) ==
    LET mine == {i \in DOMAIN f : f[i].kind = "item" /\ ListAt(f, i, from) = list}
        nth(k) == CHOOSE i \in mine : Cardinality({j \in mine : j <= i}) = k
    IN [k \in 1 .. Cardinality(mine) |-> f[nth(k)].value]

(* The settings of Away: free_resources() has freed the message, the       *)
(* others are as they were.                                                *)
Read(f, from, before) ==
    [awaymsg |-> Assigned(f, Settings(f, from, "awaymsg"), None),
     autoaway |-> Assigned(f, Settings(f, from, "autoaway"), before.autoaway),
     usequitmsg |-> Assigned(f, Settings(f, from, "usequitmsg"), before.usequitmsg)]

(* What is not among the settings of Away; rehash() keeps a password that  *)
(* is missing.                                                             *)
ReadRest(f, from, r, pass, n) ==
    LET new == Assigned(f, Settings(f, from, "password"), None) IN
    /\ password' = IF new = None THEN pass ELSE new
    /\ maxclients' = AssignInt(f, from, r, n)
    /\ connhosts' = Items(f, from, "connhosts")
    /\ listid' = ListAt(f, Len(f) + 1, from)
    /\ erange' = Refused(f, from, r, Len(f))
------------------------------------------------------------------------------
\* The settings that miau comes with.
Defaults == [awaymsg |-> None, autoaway |-> "detach", usequitmsg |-> TRUE]
DefaultClients == IF IntMax < 3 THEN IntMax ELSE 3

(* main() goes on only with a password and a host that may connect.        *)
ConfigInit ==
    \E f \in Files :
        /\ Assigned(f, Settings(f, "none", "password"), None) # None
        /\ Items(f, "none", "connhosts") # << >>
        /\ Init
        /\ cfg = Read(f, "none", Defaults)
        /\ password = Assigned(f, Settings(f, "none", "password"), None)
        /\ maxclients = AssignInt(f, "none", FALSE, DefaultClients)
        /\ connhosts = Items(f, "none", "connhosts")
        /\ channels = {Items(f, "none", "channels")[k] :
                          k \in DOMAIN Items(f, "none", "channels")}
        /\ listid = ListAt(f, Len(f) + 1, "none")
        /\ erange = Refused(f, "none", FALSE, Len(f))

(* rehash(): only the first file says which channels to join.              *)
Reload(f, drop) ==
    /\ Rehash(Read(f, listid, cfg), drop)
    /\ ReadRest(f, listid, erange, password, maxclients)
    /\ UNCHANGED channels

(* A client is taken while there is room, and if its host may connect.     *)
Enters ==
    /\ clients < maxclients
    /\ connhosts # << >>
    /\ Attach
    /\ UNCHANGED parserVars

(* Any call that fails leaves another number in errno.                     *)
OtherFailure ==
    /\ erange
    /\ erange' = FALSE
    /\ UNCHANGED <<vars, password, maxclients, connhosts, channels, listid>>

AwayStep ==
    /\ \/ Connect
       \/ Accepted
       \/ \E disconn \in BOOLEAN : Welcome(disconn)
       \/ ServerInfo
       \/ ServerDrop
       \/ \E reason \in Text \cup {None} : Detach(reason)
       \/ \E m \in Text \cup {None} : ClientAway(m)
    /\ UNCHANGED parserVars

ConfigNext ==
    \/ AwayStep
    \/ Enters
    \/ \E f \in Files, drop \in BOOLEAN : Reload(f, drop)
    \/ OtherFailure

ConfigSpec == ConfigInit /\ [][ConfigNext]_configVars
------------------------------------------------------------------------------
(* What a file says, to a reader who knows nothing of parser.c.            *)

Opened(f, i) == Cardinality({j \in 1 .. i : f[j].kind = "open"})
Closed(f, i) == Cardinality({j \in 1 .. i : f[j].kind = "close"})

(* Lists are opened and closed in turn, each once at the most, items are   *)
(* inside and settings outside of them, and a number is a positive int.    *)
Good(f) ==
    /\ Opened(f, Len(f)) = Closed(f, Len(f))
    /\ \A i \in DOMAIN f :
           /\ Opened(f, i) - Closed(f, i) \in {0, 1}
           /\ f[i].kind = "item" <=> Opened(f, i - 1) > Closed(f, i - 1)
                                     /\ f[i].kind # "close"
           /\ f[i].kind # "bad"
           /\ f[i].kind = "open" =>
                  /\ f[i].list # "invalid"
                  /\ \A j \in 1 .. i - 1 : f[j].kind = "open" => f[j].list # f[i].list
           /\ f[i].kind = "set" /\ f[i].name = "maxclients" => f[i].value \in 1 .. IntMax

GoodFiles == {f \in Files : Good(f) /\ Opened(f, Len(f)) > 0}

(* The value that f has for a setting, or before.                          *)
Says(f, name, before) ==
    LET set == {i \in DOMAIN f : f[i].kind = "set" /\ f[i].name = name} IN
    IF set = {} THEN before
    ELSE f[CHOOSE i \in set : \A j \in set : j <= i].value

(* The lines between the line that opens the list and the next "}".        *)
Holds(f, list) ==
    LET opens == {i \in DOMAIN f : f[i].kind = "open" /\ f[i].list = list}
        first == CHOOSE i \in opens : TRUE
        end == CHOOSE i \in first .. Len(f) :
                   f[i].kind = "close" /\ \A j \in first .. i - 1 : f[j].kind # "close"
    IN
    IF opens = {} THEN << >>
    ELSE [k \in 1 .. end - first - 1 |-> f[first + k].value]

(* A good file that has a list and is read                                 *)
(*   - leaves the parser outside of any list, and its hosts are those that *)
(*     may connect, whatever files miau has read before: a list that an    *)
(*     earlier file left open costs the settings before the first list at  *)
(*     the most, and reading the file again mends that;                    *)
(*   - gives every setting the value that the file has for it, if the      *)
(*     parser was outside of any list, and the numbers, if errno was not   *)
(*     ERANGE: a message that is missing is gone, a password that is       *)
(*     missing and all others are as before.                               *)
GoodFileIsRead ==
    [][\A f \in GoodFiles, drop \in BOOLEAN :
           Reload(f, drop) =>
               /\ listid' = "none"
               /\ connhosts' = Holds(f, "connhosts")
               /\ listid = "none" =>
                      /\ cfg'.awaymsg = Says(f, "awaymsg", None)
                      /\ cfg'.autoaway = Says(f, "autoaway", cfg.autoaway)
                      /\ cfg'.usequitmsg = Says(f, "usequitmsg", cfg.usequitmsg)
                      /\ password' = IF Says(f, "password", None) = None
                                     THEN password ELSE Says(f, "password", None)
                      /\ ~erange => maxclients' = Says(f, "maxclients", maxclients)]_configVars
=============================================================================
