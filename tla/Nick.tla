-------------------------------- MODULE Nick --------------------------------
(***************************************************************************)
(* The nick names of miau: the list of the configuration, which of them is *)
(* offered to a server that refuses some, and how the first one is got     *)
(* back later; get_nick(), run() and check_timers() of miau.c, and what    *)
(* server_reply() of server.c makes of the server's answers.               *)
(*                                                                         *)
(* A request is judged by the server when its answer is read.  How a nick  *)
(* is made up (randname(), gen_tries) and which refusals are kept from     *)
(* clients (getting_nick) are left out, no other state depends on them.    *)
(***************************************************************************)
EXTENDS Integers, Sequences

CONSTANTS
    Names,       \* nick names
    Generated,   \* those miau makes up
    Lists,       \* what "nicknames" of the configuration may be
    GetNick,     \* cfg.getnick: 1, with no client; 2, with clients
    Interval,    \* cfg.getnickinterval
    Release,     \* seconds for which a nick is left to somebody
    MaxLines     \* bound: requests without an answer

ASSUME NickAssumption ==
    /\ Generated \subseteq Names /\ Generated # {}
    /\ Lists \subseteq Seq(Names)
    /\ GetNick \subseteq {1, 2}
    /\ Interval \in Nat /\ Release \in Nat /\ MaxLines \in Nat \ {0}

VARIABLES
    nicks,       \* nicknames.nicks, never empty
    fill,        \* whether cfg.nickfillchar lets miau make up a nick
    current,     \* nicknames.current: a place on the list, NULL or Freed
    next,        \* nicknames.next
    nickname,    \* status.nickname
    got_nick,    \* status.got_nick
    timer,       \* timers.nickname
    connected,   \* i_server.connected
    clients,     \* whether clients are connected
    lines,       \* external: nicks asked for and not yet answered
    refused      \* external: nicks the server refuses, others have them

settings == <<nicks, fill>>
place == <<current, next>>
vars == <<nicks, fill, current, next, nickname, got_nick, timer, connected,
          clients, lines, refused>>

NULL == 0
Freed == -1
First == nicks[1]
CanSend == Len(lines) < MaxLines
------------------------------------------------------------------------------
(* A first connection has been tried.                                      *)
Init ==
    /\ nicks \in Lists \ {<<>>} /\ fill \in BOOLEAN
    /\ current = 1 /\ next = "NEXT"
    /\ nickname = First /\ got_nick = TRUE
    /\ timer = 0
    /\ connected = 0 /\ clients = FALSE
    /\ lines = <<>> /\ refused \in SUBSET Names

(* run() starts each connection with the first nick of the list.           *)
Connect ==
    /\ connected = 0
    /\ current' = 1 /\ next' = "NEXT"
    /\ nickname' = First /\ got_nick' = TRUE
    /\ \/ connected' = 1 /\ lines' = <<First>>
       \/ UNCHANGED <<connected, lines>>
    /\ UNCHANGED <<settings, timer, clients, refused>>

Disconnect ==
    /\ connected # 0
    /\ connected' = 0 /\ lines' = <<>>
    /\ UNCHANGED <<settings, place, nickname, got_nick, timer, clients, refused>>
------------------------------------------------------------------------------
(* The place on the list get_nick() goes to, the next one or the first.    *)
Following ==
    IF next = "FIRST" THEN 1
    ELSE IF next = "NEXT" /\ current # NULL
    THEN IF current < Len(nicks) THEN current + 1 ELSE NULL
    ELSE current

\* Fault: at the end of the list a nick is made up, allowed or not.
GetNickStops ==
    /\ current' = Following
    /\ IF Following = NULL
          THEN next' = "GEN" /\ UNCHANGED nickname
          ELSE next' = "NEXT" /\ nickname' = nicks[Following]
    /\ got_nick' = FALSE
    /\ lines' = Append(Tail(lines), nickname')

(* get_nick(), the server having refused status.nickname.                  *)
GetNewNick ==
    /\ \/ /\ Following # NULL
          /\ current' = Following
          /\ nickname' = nicks[Following]
          /\ next' = IF next = "FIRST" THEN "NEXT" ELSE next
       \/ /\ Following = NULL /\ ~fill
          /\ current' = 1
          /\ nickname' = First
          /\ UNCHANGED next
       \/ /\ Following = NULL /\ fill
          /\ current' = NULL
          /\ nickname' \in Generated
          /\ next' = "GEN"
    /\ got_nick' = FALSE
    /\ lines' = Append(Tail(lines), nickname')

(* 432, 433 or 437; once connected it is left at that.                     *)
Refused ==
    /\ lines # <<>> /\ Head(lines) \in refused
    /\ IF connected = 1
          THEN GetNewNick
          ELSE lines' = Tail(lines) /\ UNCHANGED <<place, nickname, got_nick>>
    /\ UNCHANGED <<settings, timer, connected, clients, refused>>

(* 001.                                                                    *)
Welcome ==
    /\ connected = 1
    /\ lines # <<>> /\ Head(lines) \notin refused
    /\ connected' = 2
    /\ nickname' = Head(lines)
    /\ lines' = Tail(lines)
    /\ UNCHANGED <<settings, place, got_nick, timer, clients, refused>>

\* Fault: a nick that is lost is not missed.
NowKnownAsStill(n) == nickname' = n /\ got_nick' = (got_nick \/ n = First)

(* NICK from the server, about us.                                         *)
NowKnownAs(n) == nickname' = n /\ got_nick' = (n = First)

(* What was asked for, or nothing if it is the nick we have already.       *)
Granted ==
    /\ connected = 2
    /\ lines # <<>> /\ Head(lines) \notin refused
    /\ IF Head(lines) = nickname
          THEN UNCHANGED <<nickname, got_nick>>
          ELSE NowKnownAs(Head(lines))
    /\ lines' = Tail(lines)
    /\ UNCHANGED <<settings, place, timer, connected, clients, refused>>

Forced(n) ==
    /\ connected = 2
    /\ n \notin refused /\ n # nickname
    /\ NowKnownAs(n)
    /\ UNCHANGED <<settings, place, timer, connected, clients, lines, refused>>
------------------------------------------------------------------------------
(* A client's NICK, which is passed on, ...                                *)
ClientAsks(n) ==
    /\ connected = 2 /\ clients
    /\ CanSend /\ lines' = Append(lines, n)
    /\ UNCHANGED <<settings, place, nickname, got_nick, timer, connected, clients, refused>>

(* ... and one by remote_cmd(), to leave our nick to somebody for a while. *)
Leave(n) ==
    /\ connected = 2
    /\ CanSend /\ lines' = Append(lines, n)
    /\ timer' = -Release
    /\ UNCHANGED <<settings, place, nickname, got_nick, connected, clients, refused>>

MayAsk == IF clients THEN 2 \in GetNick ELSE 1 \in GetNick

(* check_timers() with a queue that takes lines (msgtimer > 0).            *)
Tick ==
    /\ ~got_nick /\ GetNick # {} /\ connected = 2
    /\ IF timer + 1 < Interval
          THEN timer' = timer + 1 /\ UNCHANGED lines
          ELSE /\ timer' = 0
               /\ IF MayAsk
                     THEN CanSend /\ lines' = Append(lines, First)
                     ELSE UNCHANGED lines
    /\ UNCHANGED <<settings, place, nickname, got_nick, connected, clients, refused>>

\* Fault: the list goes on where the old one was left.
RereadKeepsPlace(list, filled) ==
    /\ nicks' = IF list = <<>> THEN <<nickname>> ELSE list
    /\ fill' = (filled \/ list = <<>>)
    /\ current' = IF current = NULL THEN NULL ELSE Freed
    /\ UNCHANGED next

(* The nodes of the old list are gone; a configuration without nicks gets  *)
(* the one we use, and a filling character.                                *)
Reread(list, filled) ==
    /\ nicks' = IF list = <<>> THEN <<nickname>> ELSE list
    /\ fill' = (filled \/ list = <<>>)
    /\ current' = IF current = NULL THEN NULL ELSE Freed
    /\ next' = "FIRST"

\* Fault: the nick is compared with the one that was the first before.
RehashOldFirst(list, filled) ==
    /\ Reread(list, filled)
    /\ IF First # nickname
          THEN got_nick' = FALSE /\ timer' = Interval
          ELSE got_nick' = (got_nick \/ list = <<>>) /\ UNCHANGED timer
    /\ UNCHANGED <<nickname, connected, clients, lines, refused>>

(* rehash().                                                               *)
Rehash(list, filled) ==
    /\ Reread(list, filled)
    /\ IF nicks'[1] # nickname
          THEN got_nick' = FALSE /\ timer' = Interval
          ELSE got_nick' = (got_nick \/ list = <<>>) /\ UNCHANGED timer
    /\ UNCHANGED <<nickname, connected, clients, lines, refused>>

ClientsChange ==
    /\ clients' = ~clients
    /\ UNCHANGED <<settings, place, nickname, got_nick, timer, connected, lines, refused>>

(* Others take and leave nicks.                                            *)
OthersChange(n) ==
    /\ n \notin refused => connected # 2 \/ n # nickname
    /\ refused' = IF n \in refused THEN refused \ {n} ELSE refused \cup {n}
    /\ UNCHANGED <<settings, place, nickname, got_nick, timer, connected, clients, lines>>

Answered == Refused \/ Welcome \/ Granted
Rehashed == \E list \in Lists, filled \in BOOLEAN : Rehash(list, filled)
Left == \E n \in Names : Leave(n)

Next ==
    \/ Connect \/ Disconnect
    \/ Answered
    \/ \E n \in Names : Forced(n) \/ ClientAsks(n) \/ OthersChange(n)
    \/ Left
    \/ Tick
    \/ Rehashed
    \/ ClientsChange

(* The server answers, and check_timers() is called each second, now and   *)
(* then with a queue that takes lines.                                     *)
Spec == Init /\ [][Next]_vars /\ WF_vars(Answered) /\ SF_vars(Tick)
------------------------------------------------------------------------------
(* get_nick() goes on from nicknames.current only while that is a node of  *)
(* the list there is: rehash() frees the list without looking at it.       *)
PlaceOnList == next = "NEXT" => current \in 1 .. Len(nicks)

(* status.got_nick is true of the first nick of the list only, through     *)
(* refusals, reconnections, changes by others and a new list; nothing      *)
(* would be done to get that nick otherwise.                               *)
GotTheFirst == got_nick => nickname = First

(* The first nick is got in the end if nobody has it: with cfg.getnick     *)
(* allowing it and nobody asking us to leave it, we have it again and      *)
(* again, whatever clients and services change it to.                      *)
WantedInTheEnd ==
    \A n \in Names :
        (/\ <>[](connected = 2 /\ MayAsk /\ First = n /\ n \notin refused)
         /\ <>[][~Left]_vars)
        => []<>(nickname = n)

(* A server that refuses some nicks gets an acceptable one in the end: if  *)
(* a nick of the list is free, and those miau makes up are, miau registers *)
(* on a connection that lasts.                                             *)
Registers ==
    \A n \in Names :
        (/\ <>[](connected # 0)
         /\ <>[](/\ \E i \in 1 .. Len(nicks) : nicks[i] = n
                 /\ ({n} \cup Generated) \cap refused = {})
         /\ <>[][~Rehashed]_vars)
        => <>[](connected = 2)
==============================================================================
