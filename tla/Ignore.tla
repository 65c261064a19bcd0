------------------------------- MODULE Ignore -------------------------------
(***************************************************************************)
(* The ignore list, src/src/ignore.c, a table of table.c: an array with    *)
(* holes of pointers to entries, which come from the same heap as the      *)
(* nodes of Lists.  It keeps miau from answering the CTCP queries of a     *)
(* host for some seconds, parse_msg_me_ctcp() in server.c, and a timer     *)
(* keeps it from answering anyone too often, check_timers() in miau.c.     *)
(*                                                                         *)
(* Entries are of the type IGNORE_CTCP, which is the only one there is.    *)
(***************************************************************************)
EXTENDS Lists

CONSTANTS
    Host,         \* hosts of those who ask
    Ttl,          \* seconds that ignore_add() is given
    ReplyTime     \* seconds from reply to reply

ASSUME IgnoreAssumption ==
    /\ Ttl \in Nat
    /\ ReplyTime \in Nat \ {0}

VARIABLES
    ignores,      \* ignores.data, with a length of ignores.amount
    hostname,     \* the fields of the entries in memory
    ttl,
    allowreply,   \* status.allowreply
    replytimer,   \* timers.reply
    attended,     \* c_clients.connected > 0
    since,        \* ghost: seconds since a host was answered last
    sinceany      \* ghost: seconds since any host was

ignoreVars == <<ignores, hostname, ttl, allowreply, replytimer>>
ghosts == <<since, sinceany>>
allVars == <<listsVars, ignoreVars, attended, ghosts>>

Long == Ttl + ReplyTime
Older(s) == IF s = Long THEN s ELSE s + 1
------------------------------------------------------------------------------
(* table.c.                                                                *)

Holes(data) == {i \in DOMAIN data : data[i] = NULL}

\* Fault: the last entry that is used goes with the holes after it.
CompactTooFar(data) ==
    LET used == DOMAIN data \ Holes(data) IN
    IF Cardinality(used) < 2 THEN << >>
    ELSE LET n == CHOOSE n \in used : \A i \in used : i <= n
         IN SubSeq(data, 1, IF n = Len(data) THEN n ELSE n - 1)

(* table_compact(): what is free at the end of the array goes.             *)
TableCompact(data) ==
    LET used == DOMAIN data \ Holes(data) IN
    IF used = {} THEN << >>
    ELSE SubSeq(data, 1, CHOOSE n \in used : \A i \in used : i <= n)

(* table_add_item(): the last hole is filled, or the array grows.          *)
TableAddItem(data, item) ==
    LET holes == Holes(data) IN
    IF holes = {} THEN Append(data, item)
    ELSE [data EXCEPT ![CHOOSE i \in holes : \A j \in holes : j <= i] = item]

(* table_rem_item() of the items at these places.                          *)
TableRemItems(data, places) ==
    TableCompact([i \in DOMAIN data |-> IF i \in places THEN NULL ELSE data[i]])
------------------------------------------------------------------------------
IgnoreInit ==
    /\ ignores = << >>
    /\ hostname = [n \in Node |-> Junk]
    /\ ttl = [n \in Node |-> Junk]
    /\ allowreply = TRUE
    /\ replytimer = 0
    /\ attended = FALSE
    /\ since = [h \in Host |-> Long]
    /\ sinceany = Long

(* is_ignore().                                                            *)
IsIgnore(h) == \E i \in DOMAIN ignores : ignores[i] # NULL /\ hostname[ignores[i]] = h

\* Fault: the timer goes on from where it is.
ReplyKeepsTimer(h, n) ==
    /\ ~attended /\ allowreply /\ ~IsIgnore(h)
    /\ Malloc(n)
    /\ ignores' = TableAddItem(ignores, n)
    /\ hostname' = [hostname EXCEPT ![n] = h]
    /\ ttl' = [ttl EXCEPT ![n] = Ttl]
    /\ allowreply' = FALSE
    /\ since' = [since EXCEPT ![h] = 0]
    /\ sinceany' = 0
    /\ UNCHANGED <<replytimer, attended, next, prev, last, list, head, tail>>

(* A CTCP query that parse_msg_me_ctcp() answers, and ignore_add().        *)
Reply(h, n) ==
    /\ ~attended /\ allowreply /\ ~IsIgnore(h)
    /\ Malloc(n)
    /\ ignores' = TableAddItem(ignores, n)
    /\ hostname' = [hostname EXCEPT ![n] = h]
    /\ ttl' = [ttl EXCEPT ![n] = Ttl]
    /\ allowreply' = FALSE
    /\ replytimer' = 0
    /\ since' = [since EXCEPT ![h] = 0]
    /\ sinceany' = 0
    /\ UNCHANGED <<attended, next, prev, last, list, head, tail>>

(* A second passes for check_timers(): ignores_process() takes one off     *)
(* every entry or frees it, and the timer of the replies goes on.          *)
Second ==
    LET over == {i \in DOMAIN ignores \ Holes(ignores) : ttl[ignores[i]] = 0}
        freed == {ignores[i] : i \in over}
        kept == {ignores[i] : i \in DOMAIN ignores} \ (freed \cup {NULL})
        due == replytimer + 1 >= ReplyTime
    IN
    /\ ignores' = TableRemItems(ignores, over)
    /\ alloc' = alloc \ freed
    /\ hostname' = [n \in Node |-> IF n \in freed THEN Junk ELSE hostname[n]]
    /\ ttl' = [n \in Node |->
           IF n \in freed THEN Junk ELSE IF n \in kept THEN ttl[n] - 1 ELSE ttl[n]]
    /\ allowreply' = (allowreply \/ due)
    /\ replytimer' = IF due THEN 0 ELSE replytimer + 1
    /\ since' = [h \in Host |-> Older(since[h])]
    /\ sinceany' = Older(sinceany)
    /\ UNCHANGED <<attended, next, prev, last, list, head, tail>>

(* The first client attaches or the last one leaves.                       *)
Attach ==
    /\ attended' = ~attended
    /\ UNCHANGED <<listsVars, ignoreVars, ghosts>>

(* Lists are used meanwhile.                                               *)
UseLists ==
    /\ ListsNext
    /\ UNCHANGED <<ignoreVars, attended, ghosts>>

AllNext ==
    \/ UseLists
    \/ \E h \in Host, n \in Node : Reply(h, n)
    \/ Second
    \/ Attach

AllInit == ListsInit /\ IgnoreInit

AllSpec == AllInit /\ [][AllNext]_allVars
------------------------------------------------------------------------------
(* The seconds for which a host is still ignored.                          *)
Left(h) ==
    LET at == {i \in DOMAIN ignores : ignores[i] # NULL /\ hostname[ignores[i]] = h}
    IN IF at = {} THEN 0 ELSE ttl[ignores[CHOOSE i \in at : TRUE]] + 1

Hosts == INSTANCE IgnoredHosts WITH left <- [h \in Host |-> Left(h)], Time <- Ttl + 1

(* The table with its holes is a set of hosts, each with the time for      *)
(* which it is ignored: no entry is lost with the holes that table_rem_    *)
(* item() makes and table_compact() takes away, and none is kept for       *)
(* longer or twice, whatever else uses the heap.                           *)
ImplementsIgnored == Hosts!Spec

(* No host is answered again before Ttl seconds are over, and no two hosts *)
(* within the time that the reply timer runs.                              *)
RepliesSpaced ==
    [][\A h \in Host : since'[h] < since[h] =>
           since[h] > Ttl /\ sinceany >= ReplyTime]_allVars
=============================================================================
