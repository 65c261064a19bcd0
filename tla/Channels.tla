------------------------------ MODULE Channels ------------------------------
(***************************************************************************)
(* The channels miau is on, wants to be on and has been on: the lists      *)
(* active_channels, passive_channels and old_channels of src/src/          *)
(* channels.c, the operations of channels.c on them, their callers in      *)
(* server.c (server_drop(), RPL_WELCOME, JOIN, PART, KICK), client.c       *)
(* (JOIN and PART of a client) and miau.c (clients_left(), fakeconnect(),  *)
(* the join timer), and the IRC server at the other end.                   *)
(*                                                                         *)
(* Lines travel in order both ways.  A line of several channels is one     *)
(* line to the server, which answers channel by channel.  The actions of   *)
(* the section "The IRC server" are external: they are what RFC 2812 lets  *)
(* a server do with the lines that miau sends.                             *)
(*                                                                         *)
(* Whether the quicklog holds a line of a channel, which decides if the    *)
(* channel becomes an old one, is left open here.                          *)
(***************************************************************************)
EXTENDS Integers, Sequences, FiniteSets

CONSTANTS
    Channel,     \* channel names
    Safe,        \* those that begin with '!'
    Configured,  \* the channels of miaurc, which are read at startup only
    Configs,     \* settings of leave, rejoin and jointries
    LineCap,     \* names that fit into one JOIN or PART line
    MaxClients,  \* cfg.maxclients
    MaxTries,    \* bound: of cfg.jointries
    MaxOld,      \* bound: entries of old_channels
    MaxOut,      \* bound: lines on the way to the server
    MaxIn        \* bound: lines on the way from the server

ASSUME ChannelsAssumption ==
    /\ IsFiniteSet(Channel)
    /\ Safe \subseteq Channel
    /\ Configured \subseteq Channel
    /\ MaxTries \in Nat \ {0}
    /\ Configs \subseteq
         [leave : BOOLEAN, rejoin : BOOLEAN, jointries : 0 .. MaxTries]
    /\ LineCap \in Nat
    /\ MaxClients \in Nat
    /\ MaxOld \in Nat
    /\ MaxOut \in Nat
    /\ MaxIn \in Nat

VARIABLES
    cfg,         \* cfg.leave, cfg.rejoin, cfg.jointries
    active,      \* active_channels
    passive,     \* passive_channels
    old,         \* old_channels, each entry with its jointries
    jointries,   \* jointries of the entries of active and passive
    clients,     \* c_clients.connected
    registered,  \* i_server.connected == 2
    out,         \* lines for the server, in the send queue or on the wire
    in,          \* lines of the server that miau has not read
    member       \* external: the channels the server has miau on

listVars == <<active, passive, old, jointries>>
vars == <<cfg, listVars, clients, registered, out, in, member>>

Unset == -1      \* JOINTRIES_UNSET
Smaller(x, y) == IF x <= y THEN x ELSE y

(* The channels of S whose names fit into a line; which of them come first *)
(* is left open.                                                           *)
Fits(S) ==
    {T \in SUBSET S : Cardinality(T) = Smaller(LineCap, Cardinality(S))}

Line(cmd, S) == [cmd |-> cmd, chans |-> S]
Event(cmd, c) == [cmd |-> cmd, chan |-> c]

Lines == [cmd : {"JOIN", "PART"}, chans : SUBSET Channel]
             \cup {Line("JOIN 0", {})}
Events == [cmd : {"JOIN", "PART", "KICK"}, chan : Channel]
------------------------------------------------------------------------------
(* channel_join_list(LIST_PASSIVE, rejoin, NULL).                          *)

\* Fault: jointries is not set when it is unset.
TriesNotSet(rejoin, c) == jointries[c]

(* The tries a passive channel has when its turn comes.                    *)
Tries(rejoin, c) ==
    IF (rejoin \/ (cfg.rejoin /\ ~cfg.leave)) /\ jointries[c] = Unset
    THEN IF cfg.jointries = 0 \/ c \in Safe THEN 1 ELSE cfg.jointries
    ELSE jointries[c]

(* The channels with a try left are named in one JOIN and lose that try,   *)
(* those without are removed from the list.                                *)
JoinPassive(rejoin) ==
    LET tried == {c \in passive : Tries(rejoin, c) > 0}
        over == {c \in passive : Tries(rejoin, c) = 0}
    IN
    /\ passive' = passive \ over
    /\ jointries' = [c \in Channel |->
           IF c \in tried THEN Tries(rejoin, c) - 1
           ELSE IF c \in over THEN Unset ELSE jointries[c]]
    /\ IF tried = {}
       THEN UNCHANGED out
       ELSE \E S \in Fits(tried) : out' = Append(out, Line("JOIN", S))

\* Fault: a passive channel stays on its list when it is joined.
ActivateKeepsPassive(c) ==
    /\ active' = active \cup {c}
    /\ UNCHANGED <<passive, jointries, old>>

(* channel_add(c, key, LIST_ACTIVE): the entry moves from the passive list *)
(* or else from the old one, or is a new one.                              *)
Activate(c) ==
    \/ /\ c \in active
       /\ UNCHANGED listVars
    \/ /\ c \in passive \ active
       /\ active' = active \cup {c}
       /\ passive' = passive \ {c}
       /\ UNCHANGED <<jointries, old>>
    \/ /\ c \notin active \cup passive
       /\ \E i \in DOMAIN old :
            /\ old[i].chan = c
            /\ \A j \in 1 .. i - 1 : old[j].chan # c
            /\ old' = SubSeq(old, 1, i - 1) \o SubSeq(old, i + 1, Len(old))
            /\ jointries' = [jointries EXCEPT ![c] = old[i].tries]
       /\ active' = active \cup {c}
       /\ UNCHANGED passive
    \/ /\ c \notin active \cup passive
       /\ \A i \in DOMAIN old : old[i].chan # c
       /\ active' = active \cup {c}
       /\ jointries' = [jointries EXCEPT ![c] = Unset]
       /\ UNCHANGED <<passive, old>>

(* channel_rem(c, LIST_ACTIVE): with quicklog the entry becomes an old one.*)
Deactivate(c) ==
    /\ active' = active \ {c}
    /\ jointries' = [jointries EXCEPT ![c] = Unset]
    /\ \/ UNCHANGED old
       \/ /\ Len(old) < MaxOld
          /\ old' = Append(old, [chan |-> c, tries |-> jointries[c]])
    /\ UNCHANGED passive

(* channel_rem(c, LIST_PASSIVE) for the channels of S.                     *)
Forget(S) ==
    /\ passive' = passive \ S
    /\ jointries' = [c \in Channel |-> IF c \in S THEN Unset ELSE jointries[c]]
    /\ UNCHANGED <<active, old>>

(* channel_add(c, key, LIST_PASSIVE).                                      *)
Want(c) ==
    /\ passive' = IF c \in active THEN passive ELSE passive \cup {c}
    /\ UNCHANGED <<active, old, jointries>>

(* Active channels become passive ones, or are forgotten.                  *)
Leave(keep) ==
    /\ active' = {}
    /\ passive' = IF keep THEN passive \cup active ELSE passive
    /\ jointries' = [c \in Channel |->
           IF c \in active /\ ~keep THEN Unset ELSE jointries[c]]
    /\ UNCHANGED old
------------------------------------------------------------------------------
Init ==
    /\ cfg \in Configs
    /\ active = {}
    /\ passive = Configured
    /\ old = << >>
    /\ jointries = [c \in Channel |-> Unset]
    /\ clients = 0
    /\ registered = FALSE
    /\ out = << >>
    /\ in = << >>
    /\ member = {}

(* RPL_WELCOME.                                                            *)
Welcome ==
    /\ ~registered
    /\ registered' = TRUE
    /\ jointries' = [c \in Channel |-> IF c \in passive THEN Unset ELSE jointries[c]]
    /\ UNCHANGED <<cfg, active, passive, old, clients, out, in, member>>

(* server_drop(), whatever the reason: nothing of the session is left.     *)
ServerDrop ==
    /\ registered
    /\ registered' = FALSE
    /\ Leave(cfg.rejoin)
    /\ out' = << >>
    /\ in' = << >>
    /\ member' = {}
    /\ UNCHANGED <<cfg, clients>>

(* The join timer of check_timers() is due.                                *)
JoinTimer ==
    /\ registered
    /\ cfg.rejoin
    /\ passive # {}
    /\ ~(clients = 0 /\ cfg.leave)
    /\ Len(out) < MaxOut
    /\ JoinPassive(FALSE)
    /\ UNCHANGED <<cfg, active, old, clients, registered, in, member>>

(* rehash() with new settings; server_drop() follows when the bind         *)
(* address, the real name or the user name has changed.                    *)
Rehash(new, drop) ==
    /\ cfg' = new
    /\ IF drop /\ registered
       THEN /\ registered' = FALSE
            /\ Leave(new.rejoin)
            /\ out' = << >>
            /\ in' = << >>
            /\ member' = {}
       ELSE UNCHANGED <<listVars, registered, out, in, member>>
    /\ UNCHANGED clients
------------------------------------------------------------------------------
(* Clients.  Their lines leave room in out for a line of the join timer.   *)
Room == Len(out) + 1 < MaxOut

(* channel_join_list(LIST_ACTIVE, 0, client): of the old channels, those   *)
(* that quicklog has lines of stay, and of the entries of one channel only *)
(* the first, which qlog_check() finds; a line of an active channel is     *)
(* never that of an old one.                                               *)
PurgeOld ==
    \E logged \in SUBSET (Channel \ active) :
        LET kept == {i \in DOMAIN old :
                        /\ old[i].chan \in logged
                        /\ \A j \in 1 .. i - 1 : old[j].chan # old[i].chan}
        IN
        \E at \in [1 .. Cardinality(kept) -> kept] :
            /\ \A k \in DOMAIN at, m \in DOMAIN at : k < m => at[k] < at[m]
            /\ old' = [k \in DOMAIN at |-> old[at[k]]]

(* fakeconnect() for a client that has just attached.                      *)
ClientAttaches ==
    /\ clients < MaxClients
    /\ clients' = clients + 1
    /\ IF registered
       THEN /\ Room
            /\ JoinPassive(TRUE)
            /\ PurgeOld
       ELSE UNCHANGED <<passive, jointries, old, out>>
    /\ UNCHANGED <<cfg, active, registered, in, member>>

\* Fault: the lists are changed and the server is not told.
ClientLeavesSilently ==
    /\ clients > 0
    /\ clients' = clients - 1
    /\ IF clients = 1 /\ cfg.leave THEN Leave(cfg.rejoin) ELSE UNCHANGED listVars
    /\ UNCHANGED <<cfg, registered, out, in, member>>

(* client_drop(), with clients_left() when it was the last one: the        *)
(* channels are left by PART with a message or by JOIN 0 without one.      *)
ClientLeaves ==
    /\ clients > 0
    /\ clients' = clients - 1
    /\ IF clients = 1 /\ active # {} /\ cfg.leave
       THEN /\ Room
            /\ Leave(cfg.rejoin)
            /\ \/ out' = Append(out, Line("JOIN 0", {}))
               \/ \E S \in Fits(active) : out' = Append(out, Line("PART", S))
       ELSE UNCHANGED <<listVars, out>>
    /\ UNCHANGED <<cfg, registered, in, member>>

(* JOIN of a client: a line for the server, or a wish for later.           *)
ClientJoins(c) ==
    /\ clients > 0
    /\ IF registered
       THEN /\ Room
            /\ out' = Append(out, Line("JOIN", {c}))
            /\ UNCHANGED listVars
       ELSE Want(c) /\ UNCHANGED out
    /\ UNCHANGED <<cfg, clients, registered, in, member>>

(* PART of a client.                                                       *)
ClientParts(c) ==
    /\ clients > 0
    /\ IF registered
       THEN /\ Room
            /\ out' = Append(out, Line("PART", {c}))
            /\ UNCHANGED listVars
       ELSE Forget({c} \cap passive) /\ UNCHANGED out
    /\ UNCHANGED <<cfg, clients, registered, in, member>>

(* JOIN 0 of a client.                                                     *)
ClientPartsAll ==
    /\ clients > 0
    /\ IF registered
       THEN /\ Room
            /\ out' = Append(out, Line("JOIN 0", {}))
            /\ UNCHANGED listVars
       ELSE Forget(passive) /\ UNCHANGED out
    /\ UNCHANGED <<cfg, clients, registered, in, member>>
------------------------------------------------------------------------------
(* The IRC server.                                                         *)

First(cmd) == registered /\ out # << >> /\ Head(out).cmd = cmd
Without(c) == <<Line(Head(out).cmd, Head(out).chans \ {c})>> \o Tail(out)

Tell(cmd, c) == Len(in) < MaxIn /\ in' = Append(in, Event(cmd, c))

(* The server lets miau on the channel unless it is there, or refuses it.  *)
ServerJoins(c) ==
    /\ First("JOIN")
    /\ c \in Head(out).chans
    /\ out' = Without(c)
    /\ \/ UNCHANGED <<in, member>>
       \/ /\ c \notin member
          /\ member' = member \cup {c}
          /\ Tell("JOIN", c)
    /\ UNCHANGED <<cfg, listVars, clients, registered>>

ServerParts(c) ==
    /\ \/ First("PART") /\ c \in Head(out).chans /\ out' = Without(c)
       \/ First("JOIN 0") /\ c \in member /\ UNCHANGED out
    /\ IF c \in member
       THEN Tell("PART", c) /\ member' = member \ {c}
       ELSE UNCHANGED <<in, member>>
    /\ UNCHANGED <<cfg, listVars, clients, registered>>

ServerIsDone ==
    /\ registered
    /\ out # << >>
    /\ Head(out).chans = {}
    /\ Head(out).cmd = "JOIN 0" => member = {}
    /\ out' = Tail(out)
    /\ UNCHANGED <<cfg, listVars, clients, registered, in, member>>

Server == ServerIsDone \/ \E c \in Channel : ServerJoins(c) \/ ServerParts(c)

(* Somebody kicks miau.                                                    *)
Kicked(c) ==
    /\ c \in member
    /\ member' = member \ {c}
    /\ Tell("KICK", c)
    /\ UNCHANGED <<cfg, listVars, clients, registered, out>>
------------------------------------------------------------------------------
(* server_reply() for a JOIN, PART or KICK of miau itself.                 *)
Reply ==
    /\ in # << >>
    /\ in' = Tail(in)
    /\ LET c == Head(in).chan IN
       \/ Head(in).cmd = "JOIN" /\ Activate(c)
       \/ Head(in).cmd # "JOIN" /\ c \in active /\ Deactivate(c)
       \/ Head(in).cmd # "JOIN" /\ c \notin active /\ UNCHANGED listVars
    /\ UNCHANGED <<cfg, clients, registered, out, member>>

Next ==
    \/ Welcome
    \/ ServerDrop
    \/ JoinTimer
    \/ \E new \in Configs, drop \in BOOLEAN : Rehash(new, drop)
    \/ ClientAttaches
    \/ ClientLeaves
    \/ \E c \in Channel : ClientJoins(c)
    \/ \E c \in Channel : ClientParts(c)
    \/ ClientPartsAll
    \/ Server
    \/ \E c \in Channel : Kicked(c)
    \/ Reply

(* run() reads what the server sends and looks at the join timer once a    *)
(* second; a server that is alive deals with the lines it gets.            *)
Fairness ==
    /\ WF_vars(JoinTimer)
    /\ WF_vars(Reply)
    /\ WF_vars(Server)

Spec == Init /\ [][Next]_vars

FairSpec == Spec /\ Fairness
------------------------------------------------------------------------------
TypeOK ==
    /\ cfg \in Configs
    /\ active \subseteq Channel
    /\ passive \subseteq Channel
    /\ old \in Seq([chan : Channel, tries : Unset .. MaxTries])
    /\ jointries \in [Channel -> Unset .. MaxTries]
    /\ clients \in 0 .. MaxClients
    /\ registered \in BOOLEAN
    /\ out \in Seq(Lines)
    /\ in \in Seq(Events)
    /\ member \subseteq Channel

(* A channel that miau is on is not on the list of those to join, and      *)
(* without a server miau is on none: "add chan to pass when already on     *)
(* active" (channels.c:93) never happens to the lists, in whatever order   *)
(* the lines of clients and of the server arrive.                          *)
OneHome == active \cap passive = {} /\ (active # {} => registered)

(* miau knows where it is: with no line on its way either way, the active  *)
(* channels are those the server has it on, although clients_left() takes  *)
(* channels off the list before they are left and JOIN puts them on it     *)
(* only when the server says so.                                           *)
Agreement == (registered /\ out = << >> /\ in = << >>) => active = member

(* Rejoins without leave: a channel to join is joined in the end, or given *)
(* up when its tries are used up, as long as the connection lasts.         *)
Settles ==
    LET open(c) == c \in passive /\ registered /\ cfg.rejoin /\ ~cfg.leave IN
    \A c \in Channel : open(c) ~> ~open(c)

(* miau.1:369-370, rejoin: "Rejoin channels after disconnecting from the   *)
(* server", which a client that is attached at that time may wait for.     *)
RejoinsAfterLoss ==
    LET open(c) == c \in passive /\ registered /\ cfg.rejoin /\ clients > 0 IN
    \A c \in Channel : open(c) ~> ~open(c)
=============================================================================
