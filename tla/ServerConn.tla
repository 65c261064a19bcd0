----------------------------- MODULE ServerConn -----------------------------
(***************************************************************************)
(* How miau chooses the IRC server to connect to and keeps, loses and      *)
(* regains the connection: server_change(), server_check_list() and        *)
(* server_drop() of src/src/server.c; the connecting part of run(), the    *)
(* server's timers in check_timers(), rehash() and the JUMP and STONED     *)
(* commands of src/src/miau.c; irc_connect() of src/src/irc.c.             *)
(*                                                                         *)
(* The list servers.servers starts with a fallback entry, a copy of the    *)
(* server of the last attempt; the configured servers follow it and        *)
(* i_server.current points into the list.  Here the fallback entry is at   *)
(* index 0.  status.reconnectdelay is not a variable: it is CONN_DISABLED  *)
(* exactly while no server is configured, as server_check_list() runs      *)
(* after every reading of the configuration.                               *)
(***************************************************************************)
EXTENDS Integers, Sequences, FiniteSets

CONSTANTS
    Server,      \* names (with port) of IRC servers
    Reliable,    \* those that serve miau in the end, see Reconnects
    Lists,       \* the server lists a configuration may hold
    Delay,       \* cfg.reconnectdelay
    Warn,        \* seconds of silence before miau sends PING
    StonedTimeout, \* seconds of silence before the server is given up
    GoodDelay    \* GOOD_SERVER_DELAY: seconds that make a server a good one

ASSUME ServerAssumption ==
    /\ Lists \subseteq Seq(Server)
    /\ Reliable \subseteq Server
    /\ Delay \in 1 .. 998        \* 999 is CONN_DISABLED
    /\ Warn \in Nat
    /\ StonedTimeout \in Nat \ {0}
    /\ GoodDelay \in Nat \ {0}

VARIABLES
    list,        \* servers.servers without the fallback entry
    fallback,    \* the fallback entry
    working,     \* the working flag of each entry of list
    current,     \* i_server.current: 0 is the fallback entry
    fresh,       \* servers.fresh: the list was read after the last attempt
    connected,   \* i_server.connected: 1 registering, 2 registered
    socket,      \* c_server.socket is open
    good_server, \* status.good_server: retry this server when it is lost
    good_timer,  \* timers.good_server
    lag,         \* c_server.timer, seconds since the last data
    connect_timer, \* timers.connect
    nevergiveup, \* cfg.nevergiveup
    asked,       \* the server a JUMP named and miau has not tried yet
    fate         \* what became of the process

listVars == <<list, nevergiveup>>
linkVars == <<connected, socket, lag, good_timer>>
vars == <<listVars, fallback, working, current, fresh, linkVars, good_server,
          connect_timer, asked, fate>>

Nowhere == -1     \* what i_server.current-- leaves: no entry of the list
NoServer == "none"
Running == fate = "running"
AllWorking(l) == [i \in DOMAIN l |-> TRUE]     \* the entries of add_server()

NameAt(c) == IF c = 0 THEN fallback ELSE list[c]

(* What server_change() reads: the list, i_server.current, the working     *)
(* flags, servers.fresh and status.good_server.                            *)
From(l, i, w, f, g) ==
    [list |-> l, at |-> i, working |-> w, fresh |-> f, good |-> g]

Here(f, g) == From(list, current, working, f, g)
------------------------------------------------------------------------------
(* The k-th entry of n that the walk of server_change(1, ...) comes to     *)
(* from entry i: after the last it goes on with the first configured one.  *)
Visited(i, n, k) == ((i + k - 1) % n) + 1

\* Fault: the walk does not stop where it began.
StopsNotAtStart(i, w) == {k \in DOMAIN w : w[Visited(i, Len(w), k)]}

(* How many steps the walk may stop after: at a working server, or back at *)
(* i, which never happens when i is the fallback entry.                    *)
Stops(i, w) ==
    {k \in DOMAIN w : w[Visited(i, Len(w), k)] \/ Visited(i, Len(w), k) = i}

\* Fault: server_reset() resets nothing.
ServerResetNothing(w) == w

ServerReset(w) == [i \in DOMAIN w |-> TRUE]

(* The walk from entry i ends at entry j.                                  *)
WalksTo(i, w, j) ==
    \E k \in Stops(i, w) :
        /\ \A n \in Stops(i, w) : k <= n
        /\ j = Visited(i, Len(w), k)

\* Fault: the walk comes first, and the server it ends at takes the blame.
ServerChangeBlamesNext(from, next, disable) ==
    LET i == IF from.fresh THEN 0 ELSE from.at IN
    /\ good_server' = FALSE
    /\ UNCHANGED fate
    /\ IF from.good \/ from.list = << >>
       THEN current' = from.at /\ working' = from.working
       ELSE \E j \in 0 .. Len(from.list) :
              /\ IF next THEN WalksTo(i, from.working, j) ELSE j = i
              /\ current' = j
              /\ working' = IF disable /\ j # 0
                            THEN [from.working EXCEPT ![j] = FALSE]
                            ELSE from.working

(* server_change(next, disable).  What it does to timers.connect is left   *)
(* out: every caller sets that timer before or after to the same effect.   *)
ServerChange(from, next, disable) ==
    LET i == IF from.fresh THEN 0 ELSE from.at
        w == IF disable /\ i # 0
             THEN [from.working EXCEPT ![i] = FALSE] ELSE from.working
    IN
    /\ good_server' = FALSE
    /\ \/ /\ from.good \/ from.list = << >>
          /\ current' = from.at
          /\ working' = from.working
          /\ UNCHANGED fate
       \/ /\ ~from.good /\ from.list # << >>
          /\ next /\ Stops(i, w) = {}
          /\ fate' = "hung"
          /\ current' = i
          /\ working' = w
       \/ /\ ~from.good /\ from.list # << >>
          /\ \E j \in 0 .. Len(from.list) :
                /\ IF next THEN WalksTo(i, w, j) ELSE j = i
                /\ IF j = 0 \/ w[j]
                   THEN /\ current' = j
                        /\ working' = w
                        /\ UNCHANGED fate
                   ELSE IF nevergiveup
                   THEN /\ current' = 1
                        /\ working' = ServerReset(w)
                        /\ UNCHANGED fate
                   ELSE /\ fate' = "gaveup"
                        /\ current' = j
                        /\ working' = w

(* server_drop(): what it does to the connection itself.                   *)
ServerDrop ==
    /\ connected' = 0
    /\ socket' = FALSE
    /\ UNCHANGED <<lag, good_timer>>

(* The connection is lost: drop it and choose the server to try next.      *)
Lose(disable) ==
    /\ ServerDrop
    /\ ServerChange(Here(fresh, good_server), TRUE, disable)
    /\ connect_timer' = 0
    /\ UNCHANGED <<listVars, fallback, fresh>>
------------------------------------------------------------------------------
Init ==
    /\ list \in Lists \ {<< >>}
    /\ fallback = NoServer
    /\ working = AllWorking(list)
    /\ current = 1
    /\ fresh = FALSE
    /\ connected = 0
    /\ socket = FALSE
    /\ good_server = FALSE
    /\ good_timer = 0
    /\ lag = 0
    /\ connect_timer = Delay
    /\ nevergiveup \in BOOLEAN
    /\ asked = NoServer
    /\ fate = "running"

(* run() finds that it is time to connect, and copies the server to the    *)
(* fallback entry before it tries.                                         *)
Attempt ==
    /\ Running
    /\ connected = 0
    /\ list # << >>
    /\ connect_timer > Delay
    /\ current # Nowhere
    /\ fallback' = NameAt(current)
    /\ fresh' = FALSE
    /\ connect_timer' = 0
    /\ lag' = 0
    /\ asked' = NoServer
    /\ UNCHANGED listVars

ConnectOK ==
    /\ Attempt
    /\ connected' = 1
    /\ socket' = TRUE
    /\ good_server' = FALSE
    /\ good_timer' = 0
    /\ UNCHANGED <<working, current, fate>>

(* SIGALRM arrives between connect() and alarm(0): connect_timeout()       *)
(* closes the socket of a connection that irc_connect() has reported.      *)
ConnectRaced ==
    /\ Attempt
    /\ connected' = 1
    /\ socket' = FALSE
    /\ good_server' = FALSE
    /\ good_timer' = 0
    /\ UNCHANGED <<working, current, fate>>

(* CONN_LOOKUP or CONN_CONNECT, also by time-out: the server is marked.    *)
ConnectFails ==
    /\ Attempt
    /\ ServerChange(Here(FALSE, good_server), TRUE, TRUE)
    /\ UNCHANGED <<connected, socket, good_timer>>

(* CONN_WRITE: the registration could not be written.                      *)
ConnectBreaks ==
    /\ Attempt
    /\ ServerChange(Here(FALSE, good_server), TRUE, FALSE)
    /\ UNCHANGED <<connected, socket, good_timer>>

(* CONN_SOCK, CONN_BIND or CONN_OTHER: miau exits.                         *)
ConnectFatal ==
    /\ Attempt
    /\ fate' = "exited"
    /\ UNCHANGED <<working, current, connected, socket, good_server, good_timer>>

(* run() follows an i_server.current that points at no entry.              *)
ConnectAstray ==
    /\ Running
    /\ connected = 0
    /\ list # << >>
    /\ connect_timer > Delay
    /\ current = Nowhere
    /\ fate' = "crashed"
    /\ UNCHANGED <<listVars, fallback, working, current, fresh, linkVars,
                   good_server, connect_timer, asked>>

Connect ==
    \/ ConnectOK
    \/ ConnectRaced
    \/ ConnectFails
    \/ ConnectBreaks
    \/ ConnectFatal
    \/ ConnectAstray
------------------------------------------------------------------------------
(* RPL_WELCOME, which a server sends once per connection.                  *)
Welcome ==
    /\ Running
    /\ connected = 1
    /\ socket
    /\ connected' = 2
    /\ lag' = 0
    /\ UNCHANGED <<listVars, fallback, working, current, fresh, socket,
                   good_timer, good_server, connect_timer, asked, fate>>

(* Any other line of the server: irc_read() resets the timer.              *)
ServerTalks ==
    /\ Running
    /\ connected > 0
    /\ socket
    /\ lag' = 0
    /\ UNCHANGED <<listVars, fallback, working, current, fresh, connected,
                   socket, good_timer, good_server, connect_timer, asked, fate>>

(* The server closes the connection without a word.                        *)
ServerCloses ==
    /\ Running
    /\ socket
    /\ Lose(FALSE)
    /\ UNCHANGED asked

(* ERROR, or 484 RPL_RESTRICTED with cfg.jumprestricted.  ERROR passes     *)
(* i_server.connected == 0 for disable, after server_drop() has cleared it.*)
ServerRejects ==
    /\ Running
    /\ socket
    /\ Lose(TRUE)
    /\ UNCHANGED asked
------------------------------------------------------------------------------
(* proceed_timer_safe(): a warning is due at Warn and every 5 seconds on.  *)
Warned(t) == t = Warn \/ (t > Warn /\ (t - Warn) % 5 = 0)

LaterConnect == IF connect_timer > Delay THEN connect_timer ELSE connect_timer + 1

(* A second passes without a server to watch.                              *)
TickIdle ==
    /\ Running
    /\ connected = 0
    /\ connect_timer' = LaterConnect
    /\ UNCHANGED <<listVars, fallback, working, current, fresh, linkVars,
                   good_server, asked, fate>>

(* A second passes and the server is not lost; without lag a registered    *)
(* one becomes a good server in the end.                                   *)
TickConnected ==
    LET counts == ~Warned(lag + 1) /\ ~good_server /\ connected = 2
        due == counts /\ good_timer + 1 >= GoodDelay
    IN
    /\ Running
    /\ connected > 0
    /\ lag + 1 < StonedTimeout
    /\ lag' = lag + 1
    /\ connect_timer' = LaterConnect
    /\ good_timer' = IF due THEN 0 ELSE IF counts THEN good_timer + 1 ELSE good_timer
    /\ good_server' = (good_server \/ due)
    /\ UNCHANGED <<listVars, fallback, working, current, fresh, connected,
                   socket, asked, fate>>

(* A second passes and the server has been silent for too long.            *)
TickStoned ==
    /\ Running
    /\ connected > 0
    /\ lag + 1 >= StonedTimeout
    /\ connected' = 0
    /\ socket' = FALSE
    /\ lag' = 0
    /\ connect_timer' = 0
    /\ ServerChange(Here(fresh, good_server), TRUE, FALSE)
    /\ UNCHANGED <<listVars, fallback, fresh, good_timer, asked>>

Tick == TickIdle \/ TickConnected \/ TickStoned
------------------------------------------------------------------------------
(* server_check_list() finds name at entry i of l, the last one that has   *)
(* it, or leaves i_server.current at entry i if none has.                  *)
Found(l, name, i) ==
    /\ i \in DOMAIN l
    /\ l[i] = name
    /\ \A j \in DOMAIN l : l[j] = name => j <= i

NotFound(l, name) == \A j \in DOMAIN l : l[j] # name

(* The STONED command.                                                     *)
Stoned ==
    /\ Running
    /\ Lose(FALSE)
    /\ asked' = NoServer

\* Fault: JUMP leaves the server marked as dysfunctional.
JumpToUnmarked(n) ==
    /\ Running
    /\ n \in IF list = << >> THEN {0} ELSE DOMAIN list
    /\ ServerDrop
    /\ ServerChange(From(list, n, working, FALSE, good_server), FALSE, FALSE)
    /\ fresh' = FALSE
    /\ connect_timer' = Delay
    /\ asked' = IF n = 0 THEN NoServer ELSE list[n]
    /\ UNCHANGED <<listVars, fallback>>

(* JUMP with a number, which is clamped to the configured servers: the     *)
(* server is marked as working and connected to at the next second.        *)
JumpTo(n) ==
    LET w == IF n = 0 THEN working ELSE [working EXCEPT ![n] = TRUE] IN
    /\ Running
    /\ n \in IF list = << >> THEN {0} ELSE DOMAIN list
    /\ ServerDrop
    /\ ServerChange(From(list, n, w, FALSE, good_server), FALSE, FALSE)
    /\ fresh' = FALSE
    /\ connect_timer' = Delay
    /\ asked' = IF n = 0 THEN NoServer ELSE list[n]
    /\ UNCHANGED <<listVars, fallback>>

(* JUMP without a number: not to this server again.                        *)
JumpNext ==
    /\ Running
    /\ ServerDrop
    /\ ServerChange(Here(fresh, FALSE), TRUE, FALSE)
    /\ connect_timer' = Delay
    /\ asked' = NoServer
    /\ UNCHANGED <<listVars, fallback, fresh>>

(* A client attaches: fakeconnect() calls server_check_list(), which reads *)
(* i_server.current unless no server is configured.                        *)
ClientAttaches ==
    /\ Running
    /\ \/ /\ list # << >> /\ current = Nowhere
          /\ fate' = "crashed"
          /\ UNCHANGED <<current, fresh>>
       \/ /\ list # << >> /\ current # Nowhere
          /\ \E i \in DOMAIN list : Found(list, NameAt(current), i) /\ current' = i
          /\ fresh' = FALSE
          /\ UNCHANGED fate
       \/ /\ \/ list = << >>
             \/ current # Nowhere /\ NotFound(list, NameAt(current))
          /\ UNCHANGED <<current, fresh, fate>>
    /\ UNCHANGED <<listVars, fallback, working, linkVars, good_server,
                   connect_timer, asked>>

(* rehash() reads list l, all of whose entries are new ones, and the entry *)
(* of the server it is on is i.                                            *)
Reread(l, i) ==
    /\ Running
    /\ Found(l, fallback, i) \/ (i = 0 /\ NotFound(l, fallback))
    /\ list' = l
    /\ nevergiveup' \in BOOLEAN
    /\ fresh' = TRUE
    /\ asked' = NoServer
    /\ UNCHANGED fallback

(* REHASH or SIGHUP that changes the server list and nothing else here.    *)
Rehash(l, i) ==
    /\ Reread(l, i)
    /\ current' = i
    /\ working' = AllWorking(l)
    /\ UNCHANGED <<linkVars, good_server, connect_timer, fate>>

(* The bind address has changed as well.                                   *)
RehashBind(l, i) ==
    /\ Reread(l, i)
    /\ ServerDrop
    /\ ServerChange(From(l, i, AllWorking(l), TRUE, good_server), TRUE, FALSE)
    /\ connect_timer' = 0

(* The real name or user name has changed, and perhaps the bind address:   *)
(* i_server.current-- leaves the list before server_change() is called.    *)
RehashIdentity(l, i) ==
    /\ Reread(l, i)
    /\ ServerDrop
    /\ \E rebind \in BOOLEAN :
          ServerChange(From(l, Nowhere, AllWorking(l), TRUE,
                            good_server /\ ~rebind), TRUE, FALSE)
    /\ connect_timer' = Delay - 3

(* DIE, SIGTERM or SIGINT.                                                 *)
Die ==
    /\ Running
    /\ ServerDrop
    /\ fate' = "exited"
    /\ connect_timer' = 0
    /\ UNCHANGED <<listVars, fallback, working, current, fresh, good_server,
                   asked>>

Operator ==
    \/ Stoned
    \/ \E n \in 0 .. Len(list) : JumpTo(n)
    \/ JumpNext
    \/ ClientAttaches
    \/ \E l \in Lists : \E i \in 0 .. Len(l) : Rehash(l, i)
    \/ \E l \in Lists : \E i \in 0 .. Len(l) : RehashBind(l, i)
    \/ \E l \in Lists : \E i \in 0 .. Len(l) : RehashIdentity(l, i)
    \/ Die

Next ==
    \/ Connect
    \/ Welcome
    \/ ServerTalks
    \/ ServerCloses
    \/ ServerRejects
    \/ Tick
    \/ Operator

(* run() looks at the connection and at the clock on every turn of its     *)
(* loop, which select() holds up for a second at most.                     *)
Fairness == WF_vars(Connect) /\ WF_vars(Tick)

Spec == Init /\ [][Next]_vars

FairSpec == Spec /\ Fairness
------------------------------------------------------------------------------
TypeOK ==
    /\ list \in Lists
    /\ nevergiveup \in BOOLEAN
    /\ fallback \in Server \cup {NoServer}
    /\ working \in [DOMAIN list -> BOOLEAN]
    /\ current \in {Nowhere, 0} \cup DOMAIN list
    /\ fresh \in BOOLEAN
    /\ connected \in 0 .. 2
    /\ socket \in BOOLEAN
    /\ good_server \in BOOLEAN
    /\ good_timer \in 0 .. GoodDelay - 1
    /\ lag \in 0 .. StonedTimeout - 1
    /\ connect_timer \in -2 .. Delay + 1
    /\ asked \in Server \cup {NoServer}
    /\ fate \in {"running", "gaveup", "exited", "crashed", "hung"}

(* The walk of server_change() ends (server.c:288-289): it stops at a      *)
(* working server or where it began, and it never begins at the fallback   *)
(* entry, to which it does not return, with every server marked.           *)
WalkEnds == fate # "hung"

(* A server is marked as dysfunctional only for an attempt or a connection *)
(* that was its own, however REHASH, JUMP and attaching clients have moved *)
(* i_server.current in the meantime.                                       *)
BlamesItsOwn ==
    [][\A i \in DOMAIN working :
          (list' = list /\ working[i] /\ ~working'[i]) => list[i] = fallback']_vars

(* miau.1:236-238: JUMP with a number goes to that server "even if marked  *)
(* as not working".  It is the next one tried, whatever happens before,    *)
(* unless another command says otherwise.                                  *)
JumpIsHonoured ==
    [][(Attempt /\ asked # NoServer) => fallback' = asked]_vars

(* Steps after which miau may not be blamed for staying where it is: a     *)
(* command, a connection that the alarm closed, a server that talks but    *)
(* never registers miau, and a reliable server that does not serve it.     *)
Disturbed ==
    \/ Operator /\ ~Connect /\ ~Tick
    \/ ConnectRaced
    \/ ServerTalks /\ connected = 1
    \/ fallback' \in Reliable /\ (ConnectFails \/ ConnectBreaks)
    \/ fallback \in Reliable /\ (ServerRejects \/ ServerCloses \/ TickStoned)

(* Losses after which the server is not marked as dysfunctional.           *)
Unmarked ==
    \/ ConnectBreaks /\ ~ConnectFails
    \/ ServerCloses /\ ~ServerRejects
    \/ TickStoned

HasReliable == \E i \in DOMAIN list : list[i] \in Reliable

(* With nevergiveup miau gets back to a server in the end if one of the    *)
(* list is reliable from then on and the others serve miau or get marked:  *)
(* whatever the marks of the past are, they do not keep it from that one.  *)
Reconnects ==
    (<>[][~Disturbed /\ ~Unmarked]_vars /\ []<>HasReliable)
        => []<>(connected = 2 \/ ~Running)
=============================================================================
