------------------------------ MODULE Session ------------------------------
(***************************************************************************)
(* The clients of miau: the one that is registering, c_newclient, and the  *)
(* table c_clients, through the turns of run() in src/src/miau.c.          *)
(*                                                                         *)
(* A turn of run() asks select() for the descriptors that can be read and  *)
(* then deals with the server, the listening socket, the clients and the   *)
(* registering client, in this order, before check_timers() ends it.  What *)
(* select() has said is not looked at again, whatever was closed or opened *)
(* meanwhile.  Accepted sockets are blocking, so that miau stands still    *)
(* when it reads one that has nothing to say.  A peer sends whole lines.   *)
(***************************************************************************)
EXTENDS Integers, FiniteSets

CONSTANTS
    Fds,            \* descriptors for clients; accept() takes the lowest free
    MaxSettings,    \* values of cfg.maxclients
    NewTimeout,     \* seconds until a silent registering client is dropped: 30
    ClientTimeout,  \* seconds until a silent client is dropped: 120
    ListenDelay     \* seconds between two clients that register: 15

ASSUME SessionAssumption ==
    /\ Fds \subseteq Nat \ {0}
    /\ IsFiniteSet(Fds)
    /\ MaxSettings \subseteq Nat \ {0}
    /\ NewTimeout \in Nat \ {0}
    /\ ClientTimeout \in Nat \ {0}
    /\ ListenDelay \in Nat \ {0}

VARIABLES
    pc,            \* where the turn of run() is
    ready,         \* what select() has reported and run() has not read yet
    idle,          \* timer of each client, by its descriptor
    registering,   \* i_newclient.connected
    socket,        \* c_newclient.socket
    dry,           \* c_newclient was accepted in this turn and has sent nothing
    init,          \* status.init
    passok,        \* status.passok
    timer,         \* c_newclient.timer
    said,          \* external: what the registering client has sent
    allowconnect,  \* status.allowconnect
    listentimer,   \* timers.listen
    maxclients     \* cfg.maxclients

newVars == <<registering, socket, init, said>>
listenVars == <<allowconnect, listentimer>>
vars == <<pc, ready, idle, newVars, dry, passok, timer, listenVars, maxclients>>

clients == DOMAIN idle
Commands == {"PASS", "NICK", "USER"}
Listen == 0    \* the listening socket in ready

\* Fault: one more than there are places.
ListeningOneMore ==
    allowconnect /\ ~registering /\ maxclients >= Cardinality(clients)

(* run() asks select() about the listening socket.                         *)
Listening == allowconnect /\ ~registering /\ maxclients > Cardinality(clients)

Init ==
    /\ pc = "select"
    /\ ready = {}
    /\ idle = [f \in {} |-> 0]
    /\ registering = FALSE
    /\ socket = 0
    /\ dry = FALSE
    /\ init = {}
    /\ passok = FALSE
    /\ timer = 0
    /\ said = {}
    /\ allowconnect = TRUE
    /\ listentimer = 0
    /\ maxclients \in MaxSettings
------------------------------------------------------------------------------
\* Fault: what was said so far counts for the next one.
DropNewclientKeepsInit ==
    IF registering
    THEN registering' = FALSE /\ socket' = 0 /\ said' = {} /\ UNCHANGED init
    ELSE UNCHANGED newVars

(* drop_newclient(), which leaves status.passok and the timer.             *)
DropNewclient ==
    IF registering
    THEN registering' = FALSE /\ socket' = 0 /\ said' = {} /\ init' = {}
    ELSE UNCHANGED newVars

(* client_drop_real() of the clients in fs.                                *)
Without(fs) == [f \in clients \ fs |-> idle[f]]

(* A phase of the turn ends and another begins.                            *)
Goes(from, to) == pc = from /\ pc' = to
------------------------------------------------------------------------------
(* select() waits for a second at most.                                    *)
Select ==
    /\ Goes("select", "server")
    /\ \E r \in SUBSET (clients \cup (IF socket > 0 THEN {socket} ELSE {})),
          l \in BOOLEAN :
          /\ l => Listening
          /\ ready' = IF l THEN r \cup {Listen} ELSE r
    /\ dry' = FALSE
    /\ UNCHANGED <<idle, newVars, passok, timer, listenVars, maxclients>>

(* The server sends nothing that concerns the clients.                     *)
ServerQuiet ==
    /\ Goes("server", "listen")
    /\ UNCHANGED <<ready, idle, newVars, dry, passok, timer, listenVars, maxclients>>

(* ERROR of the server.                                                    *)
ServerError ==
    /\ Goes("server", "listen")
    /\ DropNewclient
    /\ UNCHANGED <<ready, idle, dry, passok, timer, listenVars, maxclients>>

(* A new server has told about itself and newserv_disconn drops everybody. *)
ServerInfo ==
    /\ Goes("server", "listen")
    /\ DropNewclient
    /\ idle' = Without(clients)
    /\ UNCHANGED <<ready, dry, passok, timer, listenVars, maxclients>>

(* accept() has nothing to do.                                             *)
NobodyComes ==
    /\ Goes("listen", "clients")
    /\ Listen \notin ready
    /\ UNCHANGED <<ready, idle, newVars, dry, passok, timer, listenVars, maxclients>>

Free == Fds \ (clients \cup {socket})

(* A client comes, from an allowed host; silent if it has sent nothing yet.*)
Accept(silent) ==
    /\ Goes("listen", "clients")
    /\ Listen \in ready
    /\ \E f \in Free : (\A g \in Free : f <= g) /\ socket' = f
    /\ registering' = TRUE
    /\ said' = {}
    /\ dry' = silent
    /\ ready' = ready \ {Listen}
    /\ allowconnect' = FALSE
    /\ UNCHANGED <<idle, init, passok, timer, listentimer, maxclients>>

(* A client comes from a host that is not allowed.                         *)
AcceptDenied ==
    /\ Goes("listen", "clients")
    /\ Listen \in ready
    /\ socket' = 0
    /\ ready' = ready \ {Listen}
    /\ allowconnect' = FALSE
    /\ UNCHANGED <<idle, registering, init, said, dry, passok, timer,
                   listentimer, maxclients>>

(* accept() fails and sock_accept() returns 0, which is not -1.            *)
AcceptFails ==
    /\ Goes("listen", "clients")
    /\ Listen \in ready
    /\ socket' = 0
    /\ registering' = TRUE
    /\ said' = {}
    /\ ready' = ready \ {Listen}
    /\ allowconnect' = FALSE
    /\ UNCHANGED <<idle, init, dry, passok, timer, listentimer, maxclients>>

(* client_read() of a line, which sets the timer back.                     *)
ClientSays(f) ==
    /\ pc = "clients"
    /\ f \in clients \cap ready
    /\ ready' = ready \ {f}
    /\ idle' = [idle EXCEPT ![f] = 0]
    /\ UNCHANGED <<pc, newVars, dry, passok, timer, listenVars, maxclients>>

(* REHASH with another maxclients.                                         *)
ClientRehashes(f, m) ==
    /\ pc = "clients"
    /\ f \in clients \cap ready
    /\ ready' = ready \ {f}
    /\ idle' = [idle EXCEPT ![f] = 0]
    /\ maxclients' = m
    /\ UNCHANGED <<pc, newVars, dry, passok, timer, listenVars>>

(* QUIT, or the end of the connection.                                     *)
ClientLeaves(f) ==
    /\ pc = "clients"
    /\ f \in clients \cap ready
    /\ ready' = ready \ {f}
    /\ idle' = Without({f})
    /\ UNCHANGED <<pc, newVars, dry, passok, timer, listenVars, maxclients>>

(* All clients that were reported have been read.                          *)
ClientsDone ==
    /\ Goes("clients", "newclient")
    /\ clients \cap ready = {}
    /\ UNCHANGED <<ready, idle, newVars, dry, passok, timer, listenVars, maxclients>>
------------------------------------------------------------------------------
Reported == socket > 0 /\ socket \in ready

(* c_newclient is not, or no longer, reported.                             *)
NewclientSkipped ==
    /\ Goes("newclient", "timers")
    /\ ~Reported
    /\ ready' = {}
    /\ UNCHANGED <<idle, newVars, dry, passok, timer, listenVars, maxclients>>

(* irc_read() of a client whose descriptor was reported for another        *)
(* connection: recv() does not return before the peer sends something.     *)
NewclientBlocks ==
    /\ Goes("newclient", "blocked")
    /\ Reported
    /\ dry
    /\ UNCHANGED <<ready, idle, newVars, dry, passok, timer, listenVars, maxclients>>

PeerSends ==
    /\ Goes("blocked", "newclient")
    /\ dry' = FALSE
    /\ UNCHANGED <<ready, idle, newVars, passok, timer, listenVars, maxclients>>

NewclientLeaves ==
    /\ Goes("newclient", "timers")
    /\ Reported /\ ~dry
    /\ DropNewclient
    /\ ready' = {}
    /\ UNCHANGED <<idle, dry, passok, timer, listenVars, maxclients>>

\* Fault: the descriptor stays with c_newclient.
EnterKeepsSocket ==
    /\ idle' = [f \in clients \cup {socket} |-> IF f = socket THEN 0 ELSE idle[f]]
    /\ registering' = FALSE
    /\ init' = {}
    /\ said' = {}
    /\ passok' = FALSE
    /\ UNCHANGED socket

(* The client that has registered moves into the table.                    *)
Enter ==
    /\ idle' = [f \in clients \cup {socket} |-> IF f = socket THEN 0 ELSE idle[f]]
    /\ registering' = FALSE
    /\ socket' = 0
    /\ init' = {}
    /\ said' = {}
    /\ passok' = FALSE

(* read_newclient() of command c; a PASS, of which the first counts, comes *)
(* with the right password or not.                                         *)
NewclientSays(c, right) ==
    /\ Goes("newclient", "timers")
    /\ Reported /\ ~dry
    /\ ready' = {}
    /\ timer' = 0
    /\ LET now == init \cup {c}
           ok == passok \/ (c = "PASS" /\ c \notin init /\ right)
       IN  IF now = Commands /\ ok
           THEN Enter
           ELSE /\ init' = now
                /\ said' = said \cup {c}
                /\ passok' = ok
                /\ UNCHANGED <<idle, registering, socket>>
    /\ UNCHANGED <<dry, listenVars, maxclients>>

(* A line of any other kind.                                               *)
NewclientBabbles ==
    /\ Goes("newclient", "timers")
    /\ Reported /\ ~dry
    /\ ready' = {}
    /\ timer' = 0
    /\ UNCHANGED <<idle, newVars, dry, passok, listenVars, maxclients>>
------------------------------------------------------------------------------
(* proceed_timer() with t; it has run out when this is 0.                  *)
Proceeds(t, exceed) == IF t + 1 >= exceed THEN 0 ELSE t + 1

\* Fault: the PING that warns a client also sets its timer back.
ClientsAgePinged ==
    idle' = [f \in clients |-> IF idle[f] + 2 >= ClientTimeout THEN 0 ELSE idle[f] + 1]

(* A client whose timer runs out is dropped.                               *)
ClientsAge ==
    LET gone == {f \in clients : Proceeds(idle[f], ClientTimeout) = 0}
    IN  idle' = [f \in clients \ gone |-> idle[f] + 1]

\* Fault: only a client that has begun to register is timed.
NewclientAgesBegun ==
    /\ timer' = IF registering THEN Proceeds(timer, NewTimeout) ELSE timer
    /\ IF init # {} /\ timer' = 0 THEN DropNewclient ELSE UNCHANGED newVars

(* The same for the one that registers.                                    *)
NewclientAges ==
    /\ timer' = IF registering THEN Proceeds(timer, NewTimeout) ELSE timer
    /\ IF registering /\ timer' = 0 THEN DropNewclient ELSE UNCHANGED newVars

\* Fault: the timer rests until miau listens.
ListenAgesLate ==
    /\ listentimer' = IF allowconnect THEN Proceeds(listentimer, ListenDelay)
                                      ELSE listentimer
    /\ allowconnect' = (allowconnect \/ (allowconnect /\ listentimer' = 0))

(* Connections are allowed again from time to time.                        *)
ListenAges ==
    /\ listentimer' = Proceeds(listentimer, ListenDelay)
    /\ allowconnect' = (allowconnect \/ listentimer' = 0)

(* check_timers() after a second.                                          *)
Tick ==
    /\ Goes("timers", "select")
    /\ ClientsAge
    /\ NewclientAges
    /\ ListenAges
    /\ UNCHANGED <<ready, dry, passok, maxclients>>

(* check_timers() within the same second.                                  *)
NoTick ==
    /\ Goes("timers", "select")
    /\ UNCHANGED <<ready, idle, newVars, dry, passok, timer, listenVars, maxclients>>

NewclientReads ==
    \/ \E c \in Commands, right \in BOOLEAN : NewclientSays(c, right)
    \/ NewclientBabbles

ClientReads(f) == ClientSays(f) \/ \E m \in MaxSettings : ClientRehashes(f, m)

Next ==
    \/ Select
    \/ ServerQuiet
    \/ ServerError
    \/ ServerInfo
    \/ NobodyComes
    \/ \E silent \in BOOLEAN : Accept(silent)
    \/ AcceptDenied
    \/ AcceptFails
    \/ \E f \in Fds : ClientSays(f)
    \/ \E f \in Fds, m \in MaxSettings : ClientRehashes(f, m)
    \/ \E f \in Fds : ClientLeaves(f)
    \/ ClientsDone
    \/ NewclientSkipped
    \/ NewclientBlocks
    \/ PeerSends
    \/ NewclientLeaves
    \/ \E c \in Commands, right \in BOOLEAN : NewclientSays(c, right)
    \/ NewclientBabbles
    \/ Tick
    \/ NoTick

(* A turn goes on, unless a peer holds it up, and the seconds pass.        *)
Fairness ==
    /\ WF_vars(Next /\ pc # "blocked")
    /\ SF_vars(Tick)

Spec == Init /\ [][Next]_vars /\ Fairness
------------------------------------------------------------------------------
TypeOK ==
    /\ pc \in {"select", "server", "listen", "clients", "newclient", "blocked", "timers"}
    /\ ready \subseteq Fds \cup {Listen}
    /\ clients \subseteq Fds
    /\ idle \in [clients -> 0 .. ClientTimeout - 1]
    /\ socket \in Fds \cup {0}
    /\ timer \in 0 .. NewTimeout - 1
    /\ listentimer \in 0 .. ListenDelay - 1
    /\ init \subseteq Commands
    /\ said \subseteq Commands
    /\ maxclients \in MaxSettings
    /\ registering \in BOOLEAN
    /\ dry \in BOOLEAN
    /\ passok \in BOOLEAN
    /\ allowconnect \in BOOLEAN

(* Every connection has a descriptor of its own, and there is none for     *)
(* c_newclient but while a client registers: what one is sent never reaches*)
(* another, and closing one leaves the others.                             *)
OwnDescriptor == socket # 0 => registering /\ socket \notin clients

(* What status.init says the registering client has sent is what this one  *)
(* has sent, and not another before it: a client is in the table only      *)
(* after a PASS, a NICK and a USER of its own.                             *)
OwnHandshake == init \subseteq said

(* Those in the table and the one that registers had a place when they     *)
(* came: no more of them than some cfg.maxclients.                         *)
Places ==
    \E m \in MaxSettings :
        Cardinality(clients) + (IF registering THEN 1 ELSE 0) <= m

(* No turn is held up for ever by a peer.                                  *)
Turns == []<>(pc = "select")

(* A client that says nothing any more while it registers gives way to     *)
(* others.                                                                 *)
SilentIsDropped ==
    Turns /\ <>[][~NewclientReads]_vars => []<>~registering

(* A client in the table that says nothing any more is dropped.            *)
DeadIsDropped ==
    \A f \in Fds :
        Turns /\ <>[][~ClientReads(f) /\ ~NewclientReads]_vars => []<>(f \notin clients)

(* If there is a place and nobody registers, miau listens in the end.      *)
ListensAgain ==
    Turns /\ <>[](~registering /\ maxclients > Cardinality(clients)) => []<>Listening
=============================================================================
