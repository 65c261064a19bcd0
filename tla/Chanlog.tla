------------------------------ MODULE Chanlog ------------------------------
(***************************************************************************)
(* Logs of channels: src/src/chanlog.c and its callers in channels.c and   *)
(* in rehash() of miau.c.  An entry of the channel lists has no log, one   *)
(* whose file could not be opened, or one that writes to the file of its   *)
(* own rule or to that of the rule for all channels.                       *)
(*                                                                         *)
(* What is written, with the kinds of lines a rule asks for, is left out.  *)
(***************************************************************************)
EXTENDS Channels

CONSTANT
    Rules        \* the logs that miaurc may ask for

ASSUME ChanlogAssumption == Rules \subseteq [own : SUBSET Channel, all : BOOLEAN]

VARIABLES
    rules,       \* chanlog_list (the channels of its rules), global_logtype
    log          \* log of the entry on the active or the passive list

chanlogVars == <<rules, log>>

Logs == {"none", "failed", "own", "all"}

ChanlogInit ==
    /\ rules \in Rules
    /\ log = [c \in Channel |-> "none"]
------------------------------------------------------------------------------
\* Fault: a channel that has a log already is left alone.
ChanlogOpenOnce(r, c, l) ==
    IF l # "none" THEN {l}
    ELSE IF c \in r.own THEN {"own", "failed"}
    ELSE IF r.all THEN {"all", "failed"}
    ELSE {"none"}

(* chanlog_open() with rules r for c, whose log is l: what the log may be  *)
(* afterwards.  A rule of its own replaces the log there is, the one for   *)
(* all channels does not.                                                  *)
ChanlogOpen(r, c, l) ==
    IF c \in r.own THEN {"own", "failed"}
    ELSE IF l = "none" /\ r.all THEN {"all", "failed"}
    ELSE {l}

(* channel_add(LIST_ACTIVE) opens, channel_rem() closes, and an entry that *)
(* is freed or gets on the old list has no log; a log goes to the passive  *)
(* list and back with its entry.                                           *)
ChanlogFollows ==
    /\ log' \in [Channel -> Logs]
    /\ \A c \in Channel :
           log'[c] \in IF c \in active' \ active THEN ChanlogOpen(rules, c, log[c])
                       ELSE IF c \in active' \cup passive' THEN {log[c]}
                       ELSE {"none"}
    /\ UNCHANGED rules

\* Fault: the logs are not opened again under the new rules.
ChanlogRehashCloses(r) ==
    /\ rules' = r
    /\ log' = [c \in Channel |->
           IF c \in active \/ c \notin active' \cup passive' THEN "none" ELSE log[c]]

(* rehash() closes the logs of the active channels and opens them under    *)
(* the new rules, before server_drop() may move the channels.              *)
ChanlogRehash(r) ==
    /\ rules' = r
    /\ log' \in [Channel -> Logs]
    /\ \A c \in Channel :
           log'[c] \in IF c \notin active' \cup passive' THEN {"none"}
                       ELSE IF c \in active THEN ChanlogOpen(r, c, "none")
                       ELSE {log[c]}
=============================================================================
