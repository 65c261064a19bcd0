---------------------------- MODULE SessionProofs ----------------------------
(***************************************************************************)
(* Descriptors, the handshake and the places of the client table, for any  *)
(* number of descriptors, any settings of maxclients and any timeouts.     *)
(***************************************************************************)
EXTENDS Session, FiniteSetTheorems, TLAPS

Fit(n) == \E m \in MaxSettings : n <= m

(* While the listening socket is reported nobody registers and there is a  *)
(* place.                                                                  *)
Offered ==
    Listen \in ready =>
        /\ pc \in {"server", "listen"}
        /\ ~registering
        /\ Fit(Cardinality(clients) + 1)

(* Without a registering client nothing of the handshake is left.          *)
Blank == ~registering => init = {}

(* After the last descriptor was read none is left for the next turn.      *)
Read == pc \in {"timers", "select"} => ready = {}

IInv == TypeOK /\ OwnDescriptor /\ OwnHandshake /\ Places /\ Offered /\ Blank /\ Read
------------------------------------------------------------------------------
(* Fewer clients fit where more did.                                       *)
LEMMA FitsLess ==
    ASSUME NEW a \in Int, NEW b \in Int, a <= b, Fit(b)
    PROVE Fit(a)
<1>1. PICK m \in MaxSettings : b <= m
  BY DEF Fit
<1>2. m \in Int
  BY SessionAssumption
<1>3. a <= m
  BY <1>1, <1>2
<1> QED
  BY <1>3 DEF Fit

LEMMA Counts ==
    ASSUME NEW S, S \subseteq Fds
    PROVE IsFiniteSet(S) /\ Cardinality(S) \in Nat
  BY SessionAssumption, FS_Subset, FS_CardinalityType

LEMMA CountsLess ==
    ASSUME NEW S, S \subseteq Fds, NEW T, T \subseteq S
    PROVE Cardinality(T) <= Cardinality(S)
<1>1. IsFiniteSet(S)
  BY Counts
<1> QED
  BY <1>1, FS_Subset

LEMMA CountsOneMore ==
    ASSUME NEW S, S \subseteq Fds, NEW f, f \notin S
    PROVE Cardinality(S \cup {f}) = Cardinality(S) + 1
<1>1. IsFiniteSet(S)
  BY Counts
<1> QED
  BY <1>1, FS_AddElement

(* What the invariant says of a part of its variables: a step that leaves  *)
(* the table or takes clients from it, and leaves c_newclient or ends it.  *)
LEMMA Shrinks ==
    ASSUME TypeOK, OwnDescriptor, OwnHandshake, Places, Blank,
           clients' \subseteq clients,
           \/ registering' = FALSE /\ socket' = 0 /\ said' = {} /\ init' = {}
           \/ UNCHANGED newVars
    PROVE OwnDescriptor' /\ OwnHandshake' /\ Places' /\ Blank'
          /\ (Fit(Cardinality(clients) + 1) => Fit(Cardinality(clients') + 1))
<1>1. clients \subseteq Fds /\ clients' \subseteq Fds
  BY DEF TypeOK
<1>2. Cardinality(clients) \in Nat /\ Cardinality(clients') \in Nat
  BY <1>1, Counts
<1>3. Cardinality(clients') <= Cardinality(clients)
  BY <1>1, CountsLess
<1>4. OwnDescriptor' /\ OwnHandshake' /\ Blank'
  BY DEF OwnDescriptor, OwnHandshake, Blank, newVars
<1> DEFINE c == Cardinality(clients)
           d == Cardinality(clients')
           n == IF registering THEN 1 ELSE 0
           k == IF registering' THEN 1 ELSE 0
<1>5. n \in Nat /\ k \in Nat /\ k <= n
  BY DEF TypeOK, newVars
<1>6. Fit(c + n)
  BY DEF Places, Fit
<1>7. Fit(d + k) => Places'
  BY DEF Places, Fit
<1>8. c \in Nat /\ d \in Nat /\ d <= c
  BY <1>2, <1>3
<1> HIDE DEF c, d, n, k
<1>9. d + k <= c + n /\ d + k \in Int /\ c + n \in Int
  BY <1>5, <1>8
<1>10. Places'
  BY <1>6, <1>7, <1>9, FitsLess
<1>11. d + 1 <= c + 1 /\ d + 1 \in Int /\ c + 1 \in Int
  BY <1>8
<1>12. Fit(c + 1) => Fit(d + 1)
  BY <1>11, FitsLess
<1> QED
  BY <1>4, <1>10, <1>12 DEF c, d

(* drop_newclient() is one of the two.                                     *)
LEMMA Dropped ==
    DropNewclient =>
        \/ registering' = FALSE /\ socket' = 0 /\ said' = {} /\ init' = {}
        \/ UNCHANGED newVars
  BY DEF DropNewclient

(* The timers stay in their ranges.                                        *)
LEMMA ProceedsInRange ==
    ASSUME NEW exceed \in Nat \ {0}, NEW t \in 0 .. exceed - 1
    PROVE Proceeds(t, exceed) \in 0 .. exceed - 1
  BY DEF Proceeds

(* Some clients of the table, each with its timer.                         *)
LEMMA WithoutIs ==
    ASSUME TypeOK, NEW fs
    PROVE /\ DOMAIN Without(fs) = clients \ fs
          /\ Without(fs) \in [clients \ fs -> 0 .. ClientTimeout - 1]
  BY DEF TypeOK, Without, clients
------------------------------------------------------------------------------
LEMMA InitHolds == Init => IInv
<1> SUFFICES ASSUME Init PROVE IInv
  OBVIOUS
<1>1. clients = {} /\ idle \in [clients -> 0 .. ClientTimeout - 1]
  BY DEF Init, clients
<1>2. 0 \in 0 .. NewTimeout - 1 /\ 0 \in 0 .. ListenDelay - 1
  BY SessionAssumption
<1>3. TypeOK
  BY <1>1, <1>2 DEF Init, TypeOK, Listen, Commands
<1>4. Cardinality(clients) = 0
  BY <1>1, FS_EmptySet
<1>5. maxclients \in MaxSettings /\ 0 <= maxclients
  BY SessionAssumption DEF Init
<1>6. Places
  BY <1>4, <1>5 DEF Init, Places
<1> QED
  BY <1>3, <1>6 DEF Init, IInv, OwnDescriptor, OwnHandshake, Offered, Blank, Read, Listen

(* What is left to show for a step that takes clients out of the table.    *)
LEMMA ShrinkingKeeps ==
    ASSUME IInv, TypeOK', clients' \subseteq clients,
           \/ registering' = FALSE /\ socket' = 0 /\ said' = {} /\ init' = {}
           \/ UNCHANGED newVars,
           Listen \in ready' => Listen \in ready /\ pc' \in {"server", "listen"},
           pc' \in {"timers", "select"} => ready' = {}
    PROVE IInv'
<1>1. /\ OwnDescriptor' /\ OwnHandshake' /\ Places' /\ Blank'
      /\ Fit(Cardinality(clients) + 1) => Fit(Cardinality(clients') + 1)
  BY Shrinks DEF IInv
<1>2. Listen \in ready' => ~registering'
  BY DEF IInv, Offered, newVars
<1>3. Fit(Cardinality(clients) + 1)' <=> Fit(Cardinality(clients') + 1)
  BY DEF Fit
<1>4. Offered'
  BY <1>1, <1>2, <1>3 DEF IInv, Offered
<1>5. Read'
  BY DEF Read
<1> QED
  BY <1>1, <1>4, <1>5 DEF IInv

LEMMA SelectKeeps == ASSUME IInv, Select PROVE IInv'
<1>1. clients' = clients /\ UNCHANGED newVars
  BY DEF Select, clients
<1>2. PICK r \in SUBSET (clients \cup (IF socket > 0 THEN {socket} ELSE {})),
           l \in BOOLEAN :
           (l => Listening) /\ ready' = (IF l THEN r \cup {Listen} ELSE r)
  BY DEF Select
<1>3. r \subseteq Fds /\ Listen \notin r
  <2>1. clients \subseteq Fds /\ socket \in Fds \cup {0}
    BY DEF IInv, TypeOK
  <2>2. 0 \notin Fds /\ ~(0 > 0)
    BY SessionAssumption
  <2> QED
    BY <2>1, <2>2 DEF Listen
<1>4. TypeOK'
  BY <1>1, <1>2, <1>3 DEF IInv, TypeOK, Select, Goes, newVars, listenVars
<1>5. Listen \in ready' => Listening
  BY <1>2, <1>3
<1>6. OwnDescriptor' /\ OwnHandshake' /\ Places' /\ Blank'
  BY <1>1, Shrinks DEF IInv
<1>7. Listening => ~registering' /\ Fit(Cardinality(clients) + 1)
  <2> SUFFICES ASSUME Listening PROVE ~registering' /\ Fit(Cardinality(clients) + 1)
    OBVIOUS
  <2>1. Cardinality(clients) \in Nat /\ maxclients \in MaxSettings
    BY Counts DEF IInv, TypeOK
  <2>2. maxclients > Cardinality(clients) /\ maxclients \in Nat
    BY <2>1, SessionAssumption DEF Listening
  <2>3. Cardinality(clients) + 1 <= maxclients
    BY <2>1, <2>2
  <2> QED
    BY <1>1, <2>1, <2>3 DEF Fit, Listening, newVars
<1>8. Offered'
  BY <1>1, <1>5, <1>7 DEF Offered, Select, Goes, Fit
<1>9. Read'
  BY DEF Read, Select, Goes
<1> QED
  BY <1>4, <1>6, <1>8, <1>9 DEF IInv

LEMMA AcceptKeeps == ASSUME IInv, NEW silent, silent \in BOOLEAN, Accept(silent) PROVE IInv'
<1>1. PICK f \in Free : socket' = f
  BY DEF Accept
<1>2. f \in Fds /\ f \notin clients /\ clients' = clients
  BY DEF Free, Accept, clients
<1>3. ~registering /\ init = {} /\ Fit(Cardinality(clients) + 1)
  BY DEF Accept, IInv, Offered, Blank
<1>4. TypeOK'
  BY <1>1, <1>2 DEF IInv, TypeOK, Accept, Goes
<1>5. Places'
  BY <1>2, <1>3 DEF Places, Fit, Accept
<1> QED
  BY <1>1, <1>2, <1>3, <1>4, <1>5
  DEF IInv, OwnDescriptor, OwnHandshake, Offered, Blank, Read, Accept, Goes

LEMMA AcceptFailsKeeps == ASSUME IInv, AcceptFails PROVE IInv'
<1>1. clients' = clients
  BY DEF AcceptFails, clients
<1>2. ~registering /\ init = {} /\ Fit(Cardinality(clients) + 1)
  BY DEF AcceptFails, IInv, Offered, Blank
<1>3. TypeOK'
  BY <1>1 DEF IInv, TypeOK, AcceptFails, Goes
<1>4. Places'
  BY <1>1, <1>2 DEF Places, Fit, AcceptFails
<1> QED
  BY <1>1, <1>2, <1>3, <1>4
  DEF IInv, OwnDescriptor, OwnHandshake, Offered, Blank, Read, AcceptFails, Goes

LEMMA AcceptDeniedKeeps == ASSUME IInv, AcceptDenied PROVE IInv'
<1>1. ~registering /\ init = {} /\ socket = 0 /\ clients' = clients
  BY DEF AcceptDenied, IInv, Offered, Blank, OwnDescriptor, clients
<1>2. UNCHANGED newVars
  BY <1>1 DEF AcceptDenied, newVars
<1>3. TypeOK'
  BY <1>1 DEF IInv, TypeOK, AcceptDenied, Goes
<1>4. Listen \notin ready' /\ pc' = "clients"
  BY DEF AcceptDenied, Goes
<1> QED
  BY <1>1, <1>2, <1>3, <1>4, ShrinkingKeeps

(* Clients that read a line keep their place.                              *)
LEMMA ClientReadsKeeps ==
    ASSUME IInv, NEW f \in Fds, NEW m \in MaxSettings,
           ClientSays(f) \/ ClientRehashes(f, m)
    PROVE IInv'
<1>1. /\ f \in clients /\ ready' = ready \ {f} /\ idle' = [idle EXCEPT ![f] = 0]
      /\ UNCHANGED <<pc, newVars, dry, passok, timer, listenVars>>
      /\ maxclients' \in MaxSettings /\ pc = "clients"
  BY DEF ClientSays, ClientRehashes, IInv, TypeOK
<1>2. idle \in [clients -> 0 .. ClientTimeout - 1]
  BY DEF IInv, TypeOK
<1>3. clients' = clients /\ idle' \in [clients -> 0 .. ClientTimeout - 1]
  <2>1. 0 \in 0 .. ClientTimeout - 1
    BY SessionAssumption
  <2> QED
    BY <1>1, <1>2, <2>1 DEF clients
<1>4. TypeOK'
  BY <1>1, <1>3 DEF IInv, TypeOK, newVars, listenVars
<1>5. Listen \notin ready'
  BY <1>1 DEF IInv, Offered
<1> QED
  BY <1>1, <1>3, <1>4, <1>5, ShrinkingKeeps

LEMMA ClientLeavesKeeps == ASSUME IInv, NEW f \in Fds, ClientLeaves(f) PROVE IInv'
<1>1. /\ ready' = ready \ {f} /\ idle' = Without({f})
      /\ UNCHANGED <<pc, newVars, dry, passok, timer, listenVars, maxclients>>
      /\ pc = "clients"
  BY DEF ClientLeaves
<1>2. clients' = clients \ {f} /\ idle' \in [clients' -> 0 .. ClientTimeout - 1]
  BY <1>1, WithoutIs DEF IInv, clients
<1>3. TypeOK'
  BY <1>1, <1>2 DEF IInv, TypeOK, newVars, listenVars
<1>4. Listen \notin ready'
  BY <1>1 DEF IInv, Offered
<1> QED
  BY <1>1, <1>2, <1>3, <1>4, ShrinkingKeeps

(* The server's lines.                                                     *)
LEMMA ServerKeeps ==
    ASSUME IInv, ServerQuiet \/ ServerError \/ ServerInfo
    PROVE IInv'
<1>1. /\ pc' = "listen" /\ UNCHANGED <<ready, dry, passok, timer, listenVars, maxclients>>
      /\ DropNewclient \/ UNCHANGED newVars
      /\ idle' = Without(clients) \/ idle' = idle
  BY DEF ServerQuiet, ServerError, ServerInfo, Goes
<1>2. \/ registering' = FALSE /\ socket' = 0 /\ said' = {} /\ init' = {}
      \/ UNCHANGED newVars
  BY <1>1, Dropped
<1>3. clients' \subseteq clients /\ idle' \in [clients' -> 0 .. ClientTimeout - 1]
  BY <1>1, WithoutIs DEF IInv, TypeOK, clients
<1>4. TypeOK'
  BY <1>1, <1>2, <1>3 DEF IInv, TypeOK, newVars, listenVars
<1>5. Listen \in ready' => Listen \in ready
  BY <1>1
<1> QED
  BY <1>1, <1>2, <1>3, <1>4, <1>5, ShrinkingKeeps

(* The steps that read nothing, and the end of the registering client.     *)
LEMMA QuietKeeps ==
    ASSUME IInv,
           \/ NobodyComes \/ ClientsDone \/ NewclientSkipped \/ NewclientBlocks
           \/ PeerSends \/ NewclientLeaves \/ NewclientBabbles \/ NoTick
    PROVE IInv'
<1>1. /\ pc' \in {"clients", "newclient", "timers", "blocked", "select"}
      /\ UNCHANGED <<idle, passok, listenVars, maxclients>>
      /\ dry' \in BOOLEAN
      /\ timer' = timer \/ timer' = 0
      /\ DropNewclient \/ UNCHANGED newVars
      /\ ready' = ready \/ ready' = {}
  BY DEF NobodyComes, ClientsDone, NewclientSkipped, NewclientBlocks, PeerSends,
         NewclientLeaves, NewclientBabbles, NoTick, Goes, IInv, TypeOK
<1>2. pc' \in {"timers", "select"} => ready' = {}
  BY DEF NobodyComes, ClientsDone, NewclientSkipped, NewclientBlocks, PeerSends,
         NewclientLeaves, NewclientBabbles, NoTick, Goes, IInv, Read
<1>3. Listen \notin ready'
  <2>1. pc \notin {"server", "listen"} \/ Listen \notin ready
    BY DEF NobodyComes, ClientsDone, NewclientSkipped, NewclientBlocks, PeerSends,
           NewclientLeaves, NewclientBabbles, NoTick, Goes
  <2> QED
    BY <1>1, <2>1 DEF IInv, Offered
<1>4. \/ registering' = FALSE /\ socket' = 0 /\ said' = {} /\ init' = {}
      \/ UNCHANGED newVars
  BY <1>1, Dropped
<1>5. clients' = clients
  BY <1>1 DEF clients
<1>6. timer' \in 0 .. NewTimeout - 1
  <2>1. 0 \in 0 .. NewTimeout - 1
    BY SessionAssumption
  <2> QED
    BY <1>1, <2>1 DEF IInv, TypeOK
<1>7. TypeOK'
  BY <1>1, <1>4, <1>5, <1>6 DEF IInv, TypeOK, newVars, listenVars
<1> QED
  BY <1>2, <1>3, <1>4, <1>5, <1>7, ShrinkingKeeps

LEMMA NewclientSaysKeeps ==
    ASSUME IInv, NEW c \in Commands, NEW right \in BOOLEAN, NewclientSays(c, right)
    PROVE IInv'
<1> DEFINE now == init \cup {c}
           ok == passok \/ (c = "PASS" /\ c \notin init /\ right)
<1>1. /\ pc' = "timers" /\ ready' = {} /\ timer' = 0 /\ Reported
      /\ UNCHANGED <<dry, listenVars, maxclients>>
  BY DEF NewclientSays, Goes
<1>2. timer' \in 0 .. NewTimeout - 1
  BY <1>1, SessionAssumption
<1>3. CASE Enter
  <2>1. socket \in Fds /\ socket \notin clients /\ registering
    BY <1>1 DEF Reported, IInv, TypeOK, OwnDescriptor
  <2>2. clients' = clients \cup {socket}
    BY <1>3 DEF Enter, clients
  <2>3. idle' \in [clients' -> 0 .. ClientTimeout - 1]
    <3>1. 0 \in 0 .. ClientTimeout - 1
      BY SessionAssumption
    <3>2. idle \in [clients -> 0 .. ClientTimeout - 1]
      BY DEF IInv, TypeOK
    <3> QED
      BY <1>3, <2>2, <3>1, <3>2 DEF Enter
  <2>4. TypeOK'
    BY <1>1, <1>2, <1>3, <2>1, <2>2, <2>3 DEF IInv, TypeOK, Enter, listenVars
  <2>5. Cardinality(clients') = Cardinality(clients) + 1
    BY <2>1, <2>2, CountsOneMore DEF IInv, TypeOK
  <2>6. Cardinality(clients') \in Nat
    BY <2>4, Counts DEF TypeOK
  <2>7. Places'
    <3>1. PICK m \in MaxSettings : Cardinality(clients) + 1 <= m
      BY <2>1 DEF IInv, Places
    <3>2. Cardinality(clients') + 0 <= m
      BY <2>5, <2>6, <3>1
    <3> QED
      BY <1>3, <3>2 DEF Places, Enter
  <2> QED
    BY <1>1, <1>3, <2>4, <2>7
    DEF IInv, OwnDescriptor, OwnHandshake, Offered, Blank, Read, Enter
<1>4. CASE /\ init' = now /\ said' = said \cup {c} /\ passok' = ok
           /\ UNCHANGED <<idle, registering, socket>>
  <2>1. clients' = clients
    BY <1>4 DEF clients
  <2>2. ok \in BOOLEAN
    BY DEF IInv, TypeOK
  <2>3. TypeOK'
    <3> HIDE DEF ok
    <3> QED
      BY <1>1, <1>2, <1>4, <2>1, <2>2 DEF IInv, TypeOK, listenVars
  <2>4. socket # 0 /\ registering
    BY <1>1 DEF Reported, IInv, OwnDescriptor
  <2>5. Places'
    BY <1>4, <2>1 DEF IInv, Places
  <2> QED
    BY <1>1, <1>4, <2>1, <2>3, <2>4, <2>5
    DEF IInv, OwnDescriptor, OwnHandshake, Offered, Blank, Read
<1> QED
  BY <1>3, <1>4 DEF NewclientSays

LEMMA TickKeeps == ASSUME IInv, Tick PROVE IInv'
<1> DEFINE gone == {f \in clients : Proceeds(idle[f], ClientTimeout) = 0}
<1>1. /\ pc' = "select" /\ UNCHANGED <<ready, dry, passok, maxclients>> /\ ready = {}
      /\ DropNewclient \/ UNCHANGED newVars
  BY DEF Tick, Goes, NewclientAges, IInv, Read
<1>2. \/ registering' = FALSE /\ socket' = 0 /\ said' = {} /\ init' = {}
      \/ UNCHANGED newVars
  BY <1>1, Dropped
<1>3. idle' = [f \in clients \ gone |-> idle[f] + 1]
  BY DEF Tick, ClientsAge
<1>4. clients' = clients \ gone
  BY <1>3 DEF clients
<1>5. \A f \in clients \ gone : idle[f] + 1 \in 0 .. ClientTimeout - 1
  <2> SUFFICES ASSUME NEW f \in clients, f \notin gone
               PROVE idle[f] + 1 \in 0 .. ClientTimeout - 1
    OBVIOUS
  <2>1. idle[f] \in 0 .. ClientTimeout - 1
    BY DEF IInv, TypeOK
  <2>2. ~(idle[f] + 1 >= ClientTimeout)
    BY DEF Proceeds
  <2> QED
    BY <2>1, <2>2, SessionAssumption
<1>6. idle' \in [clients' -> 0 .. ClientTimeout - 1]
  <2> HIDE DEF gone
  <2> QED
    BY <1>3, <1>4, <1>5
<1>7. timer' \in 0 .. NewTimeout - 1
  BY ProceedsInRange, SessionAssumption DEF Tick, NewclientAges, IInv, TypeOK
<1>8. listentimer' \in 0 .. ListenDelay - 1 /\ allowconnect' \in BOOLEAN
  <2>1. listentimer' \in 0 .. ListenDelay - 1
    BY ProceedsInRange, SessionAssumption DEF Tick, ListenAges, IInv, TypeOK
  <2> QED
    BY <2>1 DEF Tick, ListenAges, IInv, TypeOK
<1> HIDE DEF gone
<1>9. TypeOK'
  BY <1>1, <1>2, <1>4, <1>6, <1>7, <1>8 DEF IInv, TypeOK, newVars
<1>10. clients' \subseteq clients /\ Listen \notin ready' /\ ready' = {}
  BY <1>1, <1>4
<1> QED
  BY <1>1, <1>2, <1>9, <1>10, ShrinkingKeeps

LEMMA NextKeeps == IInv /\ [Next]_vars => IInv'
<1>1. IInv /\ Next => IInv'
  <2> SUFFICES ASSUME IInv, Next PROVE IInv'
    OBVIOUS
  <2>1. CASE Select
    BY <2>1, SelectKeeps
  <2>2. CASE ServerQuiet \/ ServerError \/ ServerInfo
    BY <2>2, ServerKeeps
  <2>3. CASE \E silent \in BOOLEAN : Accept(silent)
    BY <2>3, AcceptKeeps
  <2>4. CASE AcceptDenied
    BY <2>4, AcceptDeniedKeeps
  <2>5. CASE AcceptFails
    BY <2>5, AcceptFailsKeeps
  <2>6. CASE \/ \E f \in Fds : ClientSays(f)
             \/ \E f \in Fds, m \in MaxSettings : ClientRehashes(f, m)
    <3>1. maxclients \in MaxSettings
      BY DEF IInv, TypeOK
    <3> QED
      BY <2>6, <3>1, ClientReadsKeeps
  <2>7. CASE \E f \in Fds : ClientLeaves(f)
    BY <2>7, ClientLeavesKeeps
  <2>8. CASE \/ NobodyComes \/ ClientsDone \/ NewclientSkipped \/ NewclientBlocks
             \/ PeerSends \/ NewclientLeaves \/ NewclientBabbles \/ NoTick
    BY <2>8, QuietKeeps
  <2>9. CASE \E c \in Commands, right \in BOOLEAN : NewclientSays(c, right)
    BY <2>9, NewclientSaysKeeps
  <2>10. CASE Tick
    BY <2>10, TickKeeps
  <2> QED
    BY <2>1, <2>2, <2>3, <2>4, <2>5, <2>6, <2>7, <2>8, <2>9, <2>10 DEF Next
<1>2. IInv /\ UNCHANGED vars => IInv'
  BY DEF vars, newVars, listenVars, IInv, TypeOK, OwnDescriptor, OwnHandshake,
         Places, Offered, Blank, Read, clients, Fit
<1> QED
  BY <1>1, <1>2

LEMMA Inductive == Spec => []IInv
  BY InitHolds, NextKeeps, PTL DEF Spec
------------------------------------------------------------------------------
(* Timers, descriptors and the state of the handshake stay in range.       *)
THEOREM TypeCorrect == Spec => []TypeOK
<1>1. IInv => TypeOK
  BY DEF IInv
<1> QED
  BY <1>1, Inductive, PTL

(* No two connections have the same descriptor.                            *)
THEOREM OwnDescriptorHolds == Spec => []OwnDescriptor
<1>1. IInv => OwnDescriptor
  BY DEF IInv
<1> QED
  BY <1>1, Inductive, PTL

(* A client registers with its own PASS, NICK and USER.                    *)
THEOREM OwnHandshakeHolds == Spec => []OwnHandshake
<1>1. IInv => OwnHandshake
  BY DEF IInv
<1> QED
  BY <1>1, Inductive, PTL

(* The table and the registering client never outgrow maxclients, whatever *)
(* REHASH makes of it meanwhile.                                           *)
THEOREM PlacesHold == Spec => []Places
<1>1. IInv => Places
  BY DEF IInv
<1> QED
  BY <1>1, Inductive, PTL
=============================================================================
