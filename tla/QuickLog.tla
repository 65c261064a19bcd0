------------------------------ MODULE QuickLog ------------------------------
(***************************************************************************)
(* The quicklog of miau and its inbox: what the client missed.  Lines of   *)
(* the server are kept in memory by qlog_write() of src/src/qlog.c,        *)
(* replayed to a client that attaches by fakeconnect() of miau.c, and      *)
(* private messages that grow too old go to the inbox file.                *)
(*                                                                         *)
(* A line is what the properties tell apart: its age, whether it is a      *)
(* private message, and its fate so far.  The clock counts seconds, as     *)
(* time() does, and so do qloglength and autoqlog here: they stand for the *)
(* minutes of the settings, 60 times as many.                              *)
(***************************************************************************)
EXTENDS Integers, Sequences

CONSTANTS
    Configs,     \* settings of qloglength, autoqlog, flushqlog and inbox
    MaxClients,  \* cfg.maxclients
    MaxLog,      \* bound: lines in the quicklog
    MaxAge       \* bound: older lines are all alike

ASSUME QuickLogAssumption ==
    /\ MaxClients \in Nat
    /\ MaxLog \in Nat
    /\ MaxAge \in Nat
    /\ \A c \in Configs :
        /\ c.qloglength \in 0 .. MaxAge - 1
        /\ c.autoqlog \in -1 .. MaxAge - 1
        /\ c.flushqlog \in BOOLEAN
        /\ c.inbox \in BOOLEAN

VARIABLES
    cfg,         \* the settings in force
    clients,     \* c_clients.connected
    registered,  \* i_server.connected = 2
    inbox,       \* the inbox is open
    qlog,        \* the list of lines, the oldest first
    lost         \* ghost: how private messages that nobody has seen were
                 \* dropped although the inbox was open

vars == <<cfg, clients, registered, inbox, qlog, lost>>

Age == 0 .. MaxAge
Fate == {"unseen", "seen", "asked", "replayed"}
Line == [age : Age, privmsg : BOOLEAN, fate : Fate]

(* The age of a line, and of all lines, by seconds later.                  *)
Older(a, by) == IF a + by > MaxAge THEN MaxAge ELSE a + by
Aged(q, by) == [i \in 1 .. Len(q) |-> [q[i] EXCEPT !.age = Older(@, by)]]

Missed(q) == \E i \in 1 .. Len(q) : q[i].privmsg /\ q[i].fate = "unseen"
------------------------------------------------------------------------------
(* How many lines qlog_flush() takes from the head: it stops at the first  *)
(* line that is younger than age.                                          *)
Cut(q, age) ==
    CHOOSE k \in 0 .. Len(q) :
        /\ \A i \in 1 .. k : q[i].age >= age
        /\ k < Len(q) => q[k + 1].age < age

Flush(q, age) == SubSeq(q, Cut(q, age) + 1, Len(q))

(* What qlog_flush() without move_to_inbox takes, unseen, for good.        *)
Loses(q, age, cause) ==
    IF inbox /\ Missed(SubSeq(q, 1, Cut(q, age))) THEN {cause} ELSE {}

\* Fault: a line that is exactly as old as the replay reaches is left out.
ReplayedShort(q, age) ==
    [i \in 1 .. Len(q) |->
        IF age = 0 \/ q[i].age < age THEN [q[i] EXCEPT !.fate = "replayed"] ELSE q[i]]

(* qlog_replay(): lines that are older than age are skipped, none if 0.    *)
Replayed(q, age) ==
    [i \in 1 .. Len(q) |->
        IF age = 0 \/ q[i].age <= age THEN [q[i] EXCEPT !.fate = "replayed"] ELSE q[i]]

(* list_add_tail() of qlog_write().                                        *)
Appended(q, line) == Append(q, line)

(* qlog_write().  MaxLog bounds the list.                                  *)
Write(privmsg, fate) ==
    LET q == Flush(qlog, cfg.qloglength) IN
    /\ Len(q) < MaxLog
    /\ qlog' = Appended(q, [age |-> 0, privmsg |-> privmsg, fate |-> fate])
------------------------------------------------------------------------------
Init ==
    /\ cfg \in Configs
    /\ clients = 0
    /\ registered = FALSE
    /\ inbox \in {FALSE, cfg.inbox}
    /\ qlog = <<>>
    /\ lost = {}

(* server_reply() of a line that is passed on: it goes to the clients, and *)
(* to the quicklog unless clients have it and flushqlog is set.            *)
Receive(privmsg) ==
    /\ IF clients = 0 THEN Write(privmsg, "unseen")
       ELSE ~cfg.flushqlog /\ Write(privmsg, "seen")
    /\ UNCHANGED <<cfg, clients, registered, inbox, lost>>

(* pass_cmd() of a PRIVMSG or NOTICE of the client.                        *)
Say ==
    /\ clients > 0 /\ registered
    /\ ~cfg.flushqlog
    /\ Write(FALSE, "seen")
    /\ UNCHANGED <<cfg, clients, registered, inbox, lost>>

(* fakeconnect(): old lines leave, private ones to the inbox; then, if     *)
(* miau is registered, the rest is replayed as far as autoqlog reaches,    *)
(* and erased with flushqlog.  Flush and replay read the clock, and what   *)
(* is written between them to the client takes its time: late seconds.     *)
Attach(late) ==
    LET q == Aged(Flush(qlog, cfg.qloglength), late)
        reach == IF cfg.autoqlog = -1 THEN cfg.qloglength ELSE cfg.autoqlog
        r == Replayed(q, reach)
        cause == IF reach < cfg.qloglength THEN "autoqlog"
                 ELSE IF late > 1 THEN "slow attach" ELSE "attach"
    IN
    /\ clients < MaxClients
    /\ clients' = clients + 1
    /\ IF registered /\ reach > 0
       THEN /\ qlog' = IF cfg.flushqlog THEN Flush(r, 0) ELSE r
            /\ lost' = lost \cup (IF cfg.flushqlog THEN Loses(r, 0, cause) ELSE {})
       ELSE qlog' = q /\ UNCHANGED lost
    /\ UNCHANGED <<cfg, registered, inbox>>

(* client_drop().                                                          *)
Detach ==
    /\ clients > 0
    /\ clients' = clients - 1
    /\ UNCHANGED <<cfg, registered, inbox, qlog, lost>>

(* RPL_WELCOME of the server, and server_drop().                           *)
ServerUp == ~registered /\ registered' = TRUE
            /\ UNCHANGED <<cfg, clients, inbox, qlog, lost>>
ServerDrop == registered /\ registered' = FALSE
              /\ UNCHANGED <<cfg, clients, inbox, qlog, lost>>

(* FLUSHQLOG: lines older than keep are dropped.                           *)
FlushQlog(keep) ==
    /\ clients > 0
    /\ qlog' = Flush(qlog, keep)
    /\ lost' = lost \cup Loses(qlog, keep, "FLUSHQLOG")
    /\ UNCHANGED <<cfg, clients, registered, inbox>>

(* QUICKLOG: a client asks for a replay, which erases nothing.  A line     *)
(* that it gets as missed now has been asked for.                          *)
ReplayQlog(oldest) ==
    /\ clients > 0
    /\ qlog' = [i \in 1 .. Len(qlog) |->
                   IF qlog[i].fate = "unseen" /\ Replayed(qlog, oldest)[i].fate = "replayed"
                   THEN [qlog[i] EXCEPT !.fate = "asked"] ELSE qlog[i]]
    /\ UNCHANGED <<cfg, clients, registered, inbox, lost>>

(* DEL: the inbox is emptied, and opened again if that succeeds.           *)
DelInbox ==
    /\ clients > 0
    /\ inbox' \in IF cfg.inbox THEN BOOLEAN ELSE {FALSE}
    /\ UNCHANGED <<cfg, clients, registered, qlog, lost>>

\* Fault: settings are read again, and the lines stay.
RehashKeeps(c) ==
    /\ cfg' = c
    /\ inbox' \in IF ~c.inbox THEN {FALSE} ELSE IF inbox THEN {TRUE} ELSE BOOLEAN
    /\ UNCHANGED <<clients, registered, qlog, lost>>

(* rehash(): free_resources() drops every line before miaurc is read; the  *)
(* later flush finds nothing.  The inbox is closed, or opened if it can.   *)
Rehash(c) ==
    /\ cfg' = c
    /\ qlog' = Flush(qlog, 0)
    /\ lost' = lost \cup Loses(qlog, 0, "REHASH")
    /\ inbox' \in IF ~c.inbox THEN {FALSE} ELSE IF inbox THEN {TRUE} ELSE BOOLEAN
    /\ UNCHANGED <<clients, registered>>

(* escape() and free_resources() at exit, and the next start.              *)
Restart ==
    /\ clients' = 0
    /\ registered' = FALSE
    /\ qlog' = <<>>
    /\ lost' = lost \cup Loses(qlog, 0, "exit")
    /\ inbox' \in {FALSE, cfg.inbox}
    /\ UNCHANGED cfg

(* A second passes.                                                        *)
Tick ==
    /\ qlog' = Aged(qlog, 1)
    /\ UNCHANGED <<cfg, clients, registered, inbox, lost>>

Next ==
    \/ \E privmsg \in BOOLEAN : Receive(privmsg)
    \/ Say
    \/ \E late \in Age : Attach(late)
    \/ Detach
    \/ ServerUp
    \/ ServerDrop
    \/ \E keep \in Age : FlushQlog(keep)
    \/ \E oldest \in Age : ReplayQlog(oldest)
    \/ DelInbox
    \/ \E c \in Configs : Rehash(c)
    \/ Restart
    \/ Tick

Spec == Init /\ [][Next]_vars
------------------------------------------------------------------------------
TypeOK ==
    /\ cfg \in Configs
    /\ clients \in 0 .. MaxClients
    /\ registered \in BOOLEAN
    /\ inbox \in BOOLEAN
    /\ qlog \in Seq(Line) /\ Len(qlog) <= MaxLog
    /\ lost \subseteq {"attach", "slow attach", "autoqlog", "FLUSHQLOG", "REHASH", "exit"}

(* The list is in order of age, which qlog_flush() relies on when it stops *)
(* at the first young line: no older one hides behind it.                  *)
OldestFirst ==
    \A i, j \in 1 .. Len(qlog) : i <= j => qlog[j].age <= qlog[i].age

(* With flushqlog no client gets as missed what a client has seen before,  *)
(* live or replayed, unless it asked for it with QUICKLOG: no such line is *)
(* in the list, also right after flushqlog was set by REHASH.              *)
MissedIsUnseen ==
    cfg.flushqlog => \A i \in 1 .. Len(qlog) : qlog[i].fate \in {"unseen", "asked"}

(* With the inbox open, a private message that nobody has seen leaves the  *)
(* quicklog into the inbox or to a client that attaches, also if the clock *)
(* goes on by one second between flush and replay of fakeconnect(): the    *)
(* flush takes a line that is exactly qloglength old, and the replay still *)
(* has it.  Only FLUSHQLOG, REHASH, the exit, an autoqlog that is shorter  *)
(* than the quicklog and an attach of two seconds or more lose it.         *)
MovedOrReplayed == "attach" \notin lost
==============================================================================
