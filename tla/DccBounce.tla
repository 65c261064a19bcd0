------------------------------ MODULE DccBounce ------------------------------
(***************************************************************************)
(* DCC connections that go through miau, src/src/dcc.c: for an offer miau  *)
(* listens on a socket of its own, src; when somebody comes to it, miau    *)
(* opens dest to the one who made the offer, and then copies between both. *)
(* A turn of run() in miau.c asks select() once, lets clients be read, and *)
(* then looks at each bounce by what select() has reported before.         *)
(*                                                                         *)
(* select() is asked about readers only, and the set of writers is left as *)
(* it was filled: every socket in it counts as writable in a turn in which *)
(* anything is readable.  What is copied is left out; peers and the        *)
(* operating system may end, refuse or fill up a connection at any time.   *)
(***************************************************************************)
EXTENDS Integers, FiniteSets

CONSTANTS
    Slots,       \* bound: the length of the table dccs
    Fds,         \* bound: descriptors; accept() and socket() take the lowest
    MaxOthers,   \* bound: sockets of clients
    Timeout,     \* 80 seconds
    MaxAge       \* bound: older is all alike

ASSUME DccAssumption ==
    /\ Slots \in Nat
    /\ Fds \subseteq Nat \ {0}
    /\ MaxOthers \in Nat
    /\ Timeout \in Nat /\ MaxAge \in Nat /\ MaxAge > Timeout

VARIABLES
    dccs,        \* the table of bounces, NULL where an entry is free
    dccbounce,   \* cfg.dccbounce
    others,      \* sockets of clients
    open,        \* external: descriptors that are open
    rfds, wfds,  \* the sets of this turn's select()
    pc, at,      \* where run() is in its turn, and at which bounce
    lost         \* ghost: descriptors that nobody closes any more

dccVars == <<dccs, dccbounce, others, open, rfds, wfds, pc, at, lost>>

NULL == [src |-> 0, dest |-> 0, src_wa |-> FALSE, dest_wa |-> FALSE,
         connected |-> FALSE, age |-> 0]
Index == 1 .. Slots

Used == {i \in Index : dccs[i] # NULL}
Sockets(b) == {b.src, b.dest} \ {0}
Lowest(S) == CHOOSE d \in S : \A e \in S : d <= e
FreeFd == Lowest(Fds \ open)
CanOpen == Fds \ open # {}

(* table_add_item(): the last free entry, or else one more at the end.     *)
Amount == IF Used = {} THEN 0 ELSE CHOOSE n \in Used : \A i \in Used : i <= n
NewIndex ==
    LET holes == 1 .. Amount \ Used IN
    IF holes # {} THEN CHOOSE n \in holes : \A i \in holes : i <= n ELSE Amount + 1
------------------------------------------------------------------------------
DccInit ==
    /\ dccs = [i \in Index |-> NULL]
    /\ dccbounce \in BOOLEAN
    /\ others = {} /\ open = {}
    /\ rfds = {} /\ wfds = {}
    /\ pc = "select" /\ at = 0
    /\ lost = {}

\* Fault: the far socket is left open.
KillKeepsDest(i, b) ==
    /\ dccs' = [dccs EXCEPT ![i] = NULL]
    /\ open' = open \ {b.src}

(* dcc_killbounce(), b being the entry as the code has it by then.         *)
Kill(i, b) ==
    /\ dccs' = [dccs EXCEPT ![i] = NULL]
    /\ open' = open \ Sockets(b)

(* dcc_socketsubscribe().                                                  *)
Readers ==
    {d \in Fds : \E b \in {dccs[i] : i \in Used} :
        \/ d = b.src /\ (~b.connected \/ b.dest_wa)
        \/ d = b.dest /\ b.connected /\ b.src_wa}

Writers ==
    {d \in Fds : \E b \in {dccs[i] : i \in Used} :
        \/ d = b.dest /\ ~b.dest_wa
        \/ d = b.src /\ b.connected /\ ~b.src_wa}

(* run() calls select(), after which it goes on to its timers if nothing   *)
(* is readable; "elsewhere" is the server or the socket clients come to.   *)
Select(ready, elsewhere) ==
    LET any == elsewhere \/ ready # {} IN
    /\ pc = "select"
    /\ ready \subseteq others \cup (IF dccbounce THEN Readers ELSE {})
    /\ pc' = IF any THEN "clients" ELSE "timers"
    /\ rfds' = ready
    /\ wfds' = IF any /\ dccbounce THEN Writers ELSE {}
    /\ UNCHANGED <<dccs, dccbounce, others, open, at, lost>>

(* Lines of the server and of clients: clients come and go, ...            *)
ClientComes ==
    /\ pc = "clients"
    /\ CanOpen /\ Cardinality(others) < MaxOthers
    /\ others' = others \cup {FreeFd}
    /\ open' = open \cup {FreeFd}
    /\ UNCHANGED <<dccs, dccbounce, rfds, wfds, pc, at, lost>>

ClientGoes(d) ==
    /\ pc = "clients"
    /\ others' = others \ {d}
    /\ open' = open \ {d}
    /\ UNCHANGED <<dccs, dccbounce, rfds, wfds, pc, at, lost>>

MayOffer == dccbounce /\ others # {}

(* dcc_addbounce(), the entry having its socket by then.                   *)
AddBounce(src) == [dccs EXCEPT ![NewIndex] = [NULL EXCEPT !.src = src]]

(* ... one offers a DCC SEND or CHAT or gets such an offer, for which      *)
(* dcc_realinitiate() listens; if it cannot, the new entry goes again, ... *)
Offer ==
    /\ pc = "clients"
    /\ MayOffer
    /\ CanOpen /\ NewIndex <= Slots
    /\ dccs' = AddBounce(FreeFd)
    /\ open' = open \cup {FreeFd}
    /\ UNCHANGED <<dccbounce, others, rfds, wfds, pc, at, lost>>

(* ... and a REHASH, which leaves the table alone.                         *)
DccRehash ==
    /\ pc = "clients"
    /\ dccbounce' = ~dccbounce
    /\ UNCHANGED <<dccs, others, open, rfds, wfds, pc, at, lost>>

ClientsDone ==
    /\ pc = "clients"
    /\ IF dccbounce
          THEN pc' = "bounces" /\ at' = 1 /\ UNCHANGED <<rfds, wfds>>
          ELSE pc' = "timers" /\ rfds' = {} /\ wfds' = {} /\ UNCHANGED at
    /\ UNCHANGED <<dccs, dccbounce, others, open, lost>>
------------------------------------------------------------------------------
(* dcc_socketcheck(), one bounce after the other.                          *)
NextBounce ==
    /\ IF at < Amount
          THEN at' = at + 1 /\ UNCHANGED <<pc, rfds, wfds>>
          ELSE pc' = "timers" /\ at' = 0 /\ rfds' = {} /\ wfds' = {}
    /\ UNCHANGED <<dccbounce, others>>

NoBounce ==
    /\ pc = "bounces" /\ at \notin Used
    /\ NextBounce
    /\ UNCHANGED <<dccs, open, lost>>

At == pc = "bounces" /\ at \in Used

(* dest counts as writable before src has been accepted: its connection    *)
(* has failed, or whoever came to src is accepted.                         *)
Dialed(b) == ~b.connected /\ b.dest \in wfds

ConnectFails ==
    /\ At /\ Dialed(dccs[at])
    /\ Kill(at, dccs[at])
    /\ NextBounce
    /\ UNCHANGED lost

Accept ==
    LET b == dccs[at] IN
    /\ At /\ Dialed(b)
    /\ CanOpen
    /\ dccs' = [dccs EXCEPT ![at] = [b EXCEPT !.src = FreeFd, !.connected = TRUE]]
    /\ open' = (open \ {b.src}) \cup {FreeFd}
    /\ NextBounce
    /\ UNCHANGED lost

(* sock_accept() fails with 0, which takes the place of the socket that    *)
(* listens, so that nobody closes it.                                      *)
AcceptFails ==
    LET b == dccs[at] IN
    /\ At /\ Dialed(b)
    /\ Kill(at, [b EXCEPT !.src = 0])
    /\ lost' = lost \cup {b.src}
    /\ NextBounce

(* Somebody has come to src: dest is opened and connects.  The age counts  *)
(* no more.                                                                *)
Incoming(b) == ~b.connected /\ b.dest = 0 /\ b.src \in rfds

Dial ==
    LET b == dccs[at] IN
    /\ At /\ Incoming(b)
    /\ CanOpen
    /\ dccs' = [dccs EXCEPT ![at] = [b EXCEPT !.dest = FreeFd, !.age = 0]]
    /\ open' = open \cup {FreeFd}
    /\ NextBounce
    /\ UNCHANGED lost

DialFails ==
    /\ At /\ Incoming(dccs[at])
    /\ Kill(at, dccs[at])
    /\ NextBounce
    /\ UNCHANGED lost

Wait ==
    /\ At /\ ~dccs[at].connected
    /\ ~Dialed(dccs[at]) /\ ~Incoming(dccs[at])
    /\ NextBounce
    /\ UNCHANGED <<dccs, open, lost>>

(* Both are connected: what is readable on one is copied to the other,     *)
(* which may be full then, ...                                             *)
Copy ==
    LET b == dccs[at]
        src_wa == b.src_wa \/ b.src \in wfds
        dest_wa == b.dest_wa \/ b.dest \in wfds
    IN
    /\ At /\ b.connected
    /\ \E to_dest \in IF b.src \in rfds THEN {FALSE, dest_wa} ELSE {dest_wa},
          to_src \in IF b.dest \in rfds THEN {FALSE, src_wa} ELSE {src_wa} :
         dccs' = [dccs EXCEPT ![at] = [b EXCEPT !.src_wa = to_src, !.dest_wa = to_dest]]
    /\ NextBounce
    /\ UNCHANGED <<open, lost>>

(* ... or one of them has ended, or takes no more.                         *)
End ==
    LET b == dccs[at] IN
    /\ At /\ b.connected
    /\ b.src \in rfds \/ b.dest \in rfds
    /\ Kill(at, b)
    /\ NextBounce
    /\ UNCHANGED lost

Bounce ==
    \/ NoBounce \/ ConnectFails \/ Accept \/ AcceptFails
    \/ Dial \/ DialFails \/ Wait \/ Copy \/ End
------------------------------------------------------------------------------
TimedOut(i) == i \in Used /\ dccs[i].dest = 0 /\ dccs[i].age + 1 > Timeout

\* Fault: the loop ends at the first entry that is free.
ExpiredToHole == {i \in Index : TimedOut(i) /\ \A j \in 1 .. i : j \in Used}

(* What dcc_timer() gives up.                                              *)
Expired == {i \in Index : TimedOut(i)}

(* check_timers(), when a second has passed, and when not.                 *)
Tick ==
    LET gone == IF dccbounce THEN Expired ELSE {}
        Older(b) == IF b.dest = 0 /\ b.age < MaxAge THEN [b EXCEPT !.age = @ + 1] ELSE b
    IN
    /\ pc = "timers"
    /\ dccs' = [i \in Index |-> IF i \in gone \/ i \notin Used THEN NULL ELSE Older(dccs[i])]
    /\ open' = open \ UNION {Sockets(dccs[i]) : i \in gone}
    /\ pc' = "select"
    /\ UNCHANGED <<dccbounce, others, rfds, wfds, at, lost>>

NoTick ==
    /\ pc = "timers"
    /\ pc' = "select"
    /\ UNCHANGED <<dccs, dccbounce, others, open, rfds, wfds, at, lost>>

Asked ==
    \E ready \in SUBSET (others \cup Readers), elsewhere \in BOOLEAN : Select(ready, elsewhere)

DccNext ==
    \/ Asked
    \/ ClientComes
    \/ \E d \in others : ClientGoes(d)
    \/ Offer
    \/ DccRehash
    \/ ClientsDone
    \/ Bounce
    \/ Tick
    \/ NoTick

(* Turns go on, and seconds pass.                                          *)
DccFairness ==
    /\ WF_dccVars(Asked)
    /\ WF_dccVars(ClientsDone)
    /\ WF_dccVars(Bounce)
    /\ WF_dccVars(Tick \/ NoTick)
    /\ SF_dccVars(Tick)

DccSpec == DccInit /\ [][DccNext]_dccVars /\ DccFairness
------------------------------------------------------------------------------
(* Each open descriptor has one owner, a client or a bounce, and none has  *)
(* two, although numbers come back within a turn and bounces close what    *)
(* they believe to be theirs: the one way to lose a descriptor is an       *)
(* accept() that fails.                                                    *)
Owned ==
    /\ open = others \cup lost \cup UNION {Sockets(dccs[i]) : i \in Used}
    /\ \A i \in Used :
        /\ dccs[i].src # dccs[i].dest
        /\ Sockets(dccs[i]) \cap (others \cup lost) = {}
        /\ \A j \in Used \ {i} : Sockets(dccs[i]) \cap Sockets(dccs[j]) = {}
    /\ others \cap lost = {}

(* No bounce stays half open: as long as the settings have DCC bounced and *)
(* something is read now and then, whoever the offer was for comes and is  *)
(* connected, or the bounce is given up.                                   *)
Decided ==
    (<>[]dccbounce /\ []<>(pc = "clients")) =>
        \A i \in Index : []<>(dccs[i] = NULL \/ dccs[i].connected)
==============================================================================
