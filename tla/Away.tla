-------------------------------- MODULE Away --------------------------------
(***************************************************************************)
(* Whether the user is away: status.awaystate and status.awaymsg of miau   *)
(* against what the server shows.  set_away() of src/src/miau.c marks the  *)
(* user when clients detach and when miau has registered, cmd_away() of    *)
(* client.c follows the AWAY of a client, fakeconnect() takes the mark     *)
(* back when a client attaches, and rehash() replaces the settings.        *)
(*                                                                         *)
(* Lines reach the server in the order in which they are written, so that  *)
(* shown, which is external, changes with the AWAY that miau writes.  A    *)
(* server has accepted miau before its RPL_WELCOME arrives: an AWAY that a *)
(* client sends in between counts, an earlier one does not.                *)
(***************************************************************************)
EXTENDS Integers

CONSTANTS
    Text,        \* away messages and quit reasons
    None,        \* no message
    Null,        \* what printf() writes for the NULL of a missing message
    Configs,     \* settings of awaymsg, autoaway and usequitmsg
    MaxClients   \* cfg.maxclients

ASSUME AwayAssumption ==
    /\ None \notin Text \cup {Null}
    /\ Null \notin Text
    /\ Configs \subseteq [awaymsg : Text \cup {None},
                          autoaway : {"never", "detach", "noclients"},
                          usequitmsg : BOOLEAN]
    /\ MaxClients \in Nat

VARIABLES
    cfg,         \* cfg.awaymsg, cfg.autoaway, cfg.usequitmsg
    clients,     \* c_clients.connected
    link,        \* i_server.connected: "none" 0, "registering" and
                 \* "accepted" 1, "registered" 2
    away,        \* status.awaystate & AWAY
    custom,      \* status.awaystate & CUSTOM
    awaymsg,     \* status.awaymsg
    shown,       \* external: the away message at the server, or None
    wish         \* ghost: the message that a client has set by hand, or None

awayVars == <<away, custom, awaymsg, shown>>
vars == <<cfg, clients, link, awayVars, wish>>

registered == link = "registered"

State == [away : BOOLEAN, custom : BOOLEAN, awaymsg : Text \cup {None},
          shown : Text \cup {None, Null}]

Current == [away |-> away, custom |-> custom, awaymsg |-> awaymsg, shown |-> shown]

Becomes(s) ==
    /\ away' = s.away
    /\ custom' = s.custom
    /\ awaymsg' = s.awaymsg
    /\ shown' = s.shown
------------------------------------------------------------------------------
(* AWAY with message m is written to the server.                           *)
Marked(s, m) == [s EXCEPT !.away = TRUE, !.shown = m]

(* AWAY without a message is written.                                      *)
Unmarked(s) == [s EXCEPT !.away = FALSE, !.shown = None]

\* Fault: a message set by hand gives way to any other.
SetAwayAlways(s, n, m) ==
    IF m = None /\ (cfg.awaymsg = None \/ n > 0 \/ s.away) THEN s
    ELSE IF m # None THEN [Marked(s, m) EXCEPT !.awaymsg = m]
    ELSE Marked(s, IF s.awaymsg # None THEN s.awaymsg ELSE cfg.awaymsg)

\* Fault: attached clients do not matter.
SetAwayAttended(s, n, m) ==
    IF m = None /\ cfg.awaymsg = None THEN s
    ELSE IF s.custom
    THEN IF s.away THEN s
         ELSE Marked(s, IF s.awaymsg = None THEN Null ELSE s.awaymsg)
    ELSE IF m # None THEN [Marked(s, m) EXCEPT !.awaymsg = m]
    ELSE IF s.away THEN s
    ELSE Marked(s, IF s.awaymsg # None THEN s.awaymsg ELSE cfg.awaymsg)

(* set_away(m) with n clients attached and a server.                       *)
SetAway(s, n, m) ==
    IF m = None /\ cfg.awaymsg = None THEN s
    ELSE IF s.custom
    THEN IF s.away THEN s
         ELSE Marked(s, IF s.awaymsg = None THEN Null ELSE s.awaymsg)
    ELSE IF m # None THEN [Marked(s, m) EXCEPT !.awaymsg = m]
    ELSE IF n > 0 \/ s.away THEN s
    ELSE Marked(s, IF s.awaymsg # None THEN s.awaymsg ELSE cfg.awaymsg)

(* clients_left(reason).                                                   *)
ClientsLeft(s, reason) ==
    IF cfg.autoaway = "never" THEN s
    ELSE SetAway(s, 0,
             IF reason # None /\ cfg.usequitmsg THEN reason ELSE cfg.awaymsg)

(* client_drop() of a client with its quit reason, n others being left.    *)
Detached(s, n, reason) ==
    IF n = 0 THEN ClientsLeft(s, reason)
    ELSE IF cfg.autoaway # "detach" THEN s
    ELSE SetAway(s, n,
             IF reason # None /\ cfg.usequitmsg THEN reason ELSE cfg.awaymsg)
------------------------------------------------------------------------------
Init ==
    /\ cfg \in Configs
    /\ clients = 0
    /\ link = "none"
    /\ away = FALSE
    /\ custom = FALSE
    /\ awaymsg = None
    /\ shown = None
    /\ wish = None

(* irc_connect() sends NICK and USER.                                      *)
Connect ==
    /\ link = "none"
    /\ link' = "registering"
    /\ UNCHANGED <<cfg, clients, awayVars, wish>>

(* The server registers miau and sends RPL_WELCOME.                        *)
Accepted ==
    /\ link = "registering"
    /\ link' = "accepted"
    /\ UNCHANGED <<cfg, clients, awayVars, wish>>

\* Fault: the mark of the last connection is kept.
WelcomeKeepsMark(disconn) ==
    LET s == SetAway(Current, clients, None) IN
    /\ link = "accepted"
    /\ link' = "registered"
    /\ IF disconn
       THEN clients' = 0 /\ Becomes(ClientsLeft(s, None))
       ELSE UNCHANGED clients /\ Becomes(s)
    /\ UNCHANGED <<cfg, wish>>

(* RPL_WELCOME: nobody is away by default.  With newserv_disconn all       *)
(* clients are then dropped.                                               *)
Welcome(disconn) ==
    LET s == SetAway([Current EXCEPT !.away = FALSE], clients, None) IN
    /\ link = "accepted"
    /\ link' = "registered"
    /\ IF disconn
       THEN clients' = 0 /\ Becomes(ClientsLeft(s, None))
       ELSE UNCHANGED clients /\ Becomes(s)
    /\ UNCHANGED <<cfg, wish>>

(* The server tells about itself and newserv_disconn drops all clients.    *)
ServerInfo ==
    /\ registered
    /\ clients' = 0
    /\ Becomes(ClientsLeft(Current, None))
    /\ UNCHANGED <<cfg, link, wish>>

(* server_drop() leaves status.awaystate as it is.                         *)
ServerDrop ==
    /\ link # "none"
    /\ link' = "none"
    /\ shown' = None
    /\ UNCHANGED <<cfg, clients, away, custom, awaymsg, wish>>

(* run() takes a client while there is room, fakeconnect() greets it.      *)
Attach ==
    /\ clients < MaxClients
    /\ clients' = clients + 1
    /\ Becomes(IF registered /\ ~custom /\ away THEN Unmarked(Current) ELSE Current)
    /\ UNCHANGED <<cfg, link, wish>>

(* QUIT with a reason or without one, or a lost connection.                *)
Detach(reason) ==
    /\ clients > 0
    /\ clients' = clients - 1
    /\ Becomes(IF registered THEN Detached(Current, clients - 1, reason)
                             ELSE Current)
    /\ UNCHANGED <<cfg, link, wish>>

(* AWAY of a client, which miau notes and passes on to the server.         *)
ClientAway(m) ==
    /\ clients > 0
    /\ away' = (m # None)
    /\ custom' = (m # None)
    /\ awaymsg' = m
    /\ shown' = IF link \in {"accepted", "registered"} THEN m ELSE shown
    /\ wish' = m
    /\ UNCHANGED <<cfg, clients, link>>

(* rehash() with settings that the new file has, after free_resources()    *)
(* has freed both cfg.awaymsg and status.awaymsg; a changed bind address   *)
(* or name drops the server.                                               *)
Rehash(new, drop) ==
    /\ cfg' = new
    /\ awaymsg' = None
    /\ link' = IF drop THEN "none" ELSE link
    /\ shown' = IF drop THEN None ELSE shown
    /\ UNCHANGED <<clients, away, custom, wish>>

Next ==
    \/ Connect
    \/ Accepted
    \/ \E disconn \in BOOLEAN : Welcome(disconn)
    \/ ServerInfo
    \/ ServerDrop
    \/ Attach
    \/ \E reason \in Text \cup {None} : Detach(reason)
    \/ \E m \in Text \cup {None} : ClientAway(m)
    \/ \E new \in Configs, drop \in BOOLEAN : Rehash(new, drop)

Spec == Init /\ [][Next]_vars
------------------------------------------------------------------------------
TypeOK ==
    /\ cfg \in Configs
    /\ clients \in 0 .. MaxClients
    /\ link \in {"none", "registering", "accepted", "registered"}
    /\ Current \in State
    /\ wish \in Text \cup {None}

(* Once registered, AWAY in status.awaystate is set only if the server     *)
(* shows the user away, and it is set whenever the server does so without  *)
(* a hand-set message: fakeconnect() and set_away() decide by that bit     *)
(* whether to write, and nothing else asks the server.  A hand-set message *)
(* may be shown without it: that of a client that was faster than the      *)
(* RPL_WELCOME, which clears the bit.                                      *)
Truth ==
    registered => /\ away => shown # None
                  /\ ~custom /\ shown # None => away

(* What the user has set by hand is what the server shows, as long as miau *)
(* still has the message: no client that leaves, attaches or is dropped    *)
(* replaces it, "miau will _not_ touch away-status nor message"            *)
(* (miau.1:394-396).                                                       *)
OwnWords == (registered /\ away /\ custom /\ awaymsg # None) => shown = wish

Unattended == registered /\ clients > 0 /\ ~custom /\ shown # None

(* With a client attached, miau does not mark the user away of its own     *)
(* accord unless autoaway is detach: not at a new server, not when another *)
(* client leaves, and the mark of earlier is gone when a client attaches.  *)
AttendedIsHere == [][(~Unattended /\ Unattended') => cfg.autoaway = "detach"]_vars
=============================================================================
