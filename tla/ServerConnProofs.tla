-------------------------- MODULE ServerConnProofs --------------------------
(***************************************************************************)
(* Proofs about ServerConn for every server list, every set of servers and *)
(* every value of the delays: its types, that the walk of server_change()  *)
(* ends, that a server is marked for its own failures only, and that the   *)
(* server a JUMP names is the next one tried.                              *)
(***************************************************************************)
EXTENDS ServerConn, SequenceTheorems, TLAPS

(* After every change some server is left to try: the marks are reset when *)
(* the last one is given.                                                  *)
SomeWorks == list # << >> => \E i \in DOMAIN list : working[i]

(* i_server.current points at no entry only between rehash() and the next  *)
(* choice of a server.                                                     *)
AstrayIsFresh ==
    current = Nowhere => connected = 0 /\ (fresh \/ list = << >>)

(* A connection is one to the current server, if that is configured.       *)
OnCurrent == (connected > 0 /\ current > 0) => list[current] = fallback

(* The server a JUMP asked for is current until it is tried.               *)
AskedIsCurrent ==
    asked # NoServer =>
        /\ connected = 0
        /\ current \in DOMAIN list
        /\ list[current] = asked

Linked == socket => connected > 0

RunInv ==
    /\ SomeWorks
    /\ AstrayIsFresh
    /\ OnCurrent
    /\ AskedIsCurrent
    /\ Linked

IInv ==
    /\ TypeOK
    /\ WalkEnds
    /\ Running => RunInv
------------------------------------------------------------------------------
(* The flags of a list form a sequence of its length.                      *)
LEMMA FlagsSeq ==
    ASSUME NEW l \in Seq(Server), NEW w \in [DOMAIN l -> BOOLEAN]
    PROVE  /\ w \in Seq(BOOLEAN)
           /\ Len(w) = Len(l)
           /\ DOMAIN w = 1 .. Len(l)
           /\ DOMAIN l = 1 .. Len(l)
           /\ Len(l) \in Nat
<1>1. Len(l) \in Nat /\ DOMAIN l = 1 .. Len(l)
  BY LenProperties
<1>2. w \in [1 .. Len(l) -> BOOLEAN]
  BY <1>1
<1>3. w \in Seq(BOOLEAN)
  BY <1>1, <1>2, SeqDef
<1>4. Len(w) = Len(l)
  BY <1>1, <1>2, <1>3, LenProperties
<1> QED
  BY <1>1, <1>2, <1>3, <1>4

(* Every step of the walk comes to a configured server.                    *)
LEMMA VisitedIsEntry ==
    ASSUME NEW i \in Int, NEW n \in Nat \ {0}, NEW k \in 1 .. n
    PROVE  Visited(i, n, k) \in 1 .. n
BY DEF Visited

(* The walk from the fallback entry meets every server, a walk from a      *)
(* configured one comes back to it: either ends if some server works.      *)
LEMMA WalkMeets ==
    ASSUME NEW n \in Nat \ {0}, NEW i \in 0 .. n, NEW j \in 1 .. n,
           i = 0 \/ j = i
    PROVE  \E k \in 1 .. n : Visited(i, n, k) = j
<1>1. CASE i = 0
  <2>1. (0 + j - 1) % n = j - 1
    BY Z3
  <2>2. Visited(i, n, j) = j
    BY <1>1, <2>1 DEF Visited
  <2> QED
    BY <2>2
<1>2. CASE i # 0
  <2>1. (i + n - 1) % n = i - 1
    BY <1>2, Z3
  <2>2. Visited(i, n, n) = i
    BY <1>2, <2>1 DEF Visited
  <2> QED
    BY <1>2, <2>2
<1> QED
  BY <1>1, <1>2
------------------------------------------------------------------------------
(* What server_change() promises its callers.                              *)
Changed(l, at, w, f, g, next, disable) ==
    /\ good_server' = FALSE
    /\ current' \in {Nowhere, 0} \cup DOMAIN l
    /\ working' \in [DOMAIN l -> BOOLEAN]
    /\ fate' \in {fate, "gaveup"}
    /\ (fate' # "gaveup" /\ l # << >>) => \E i \in DOMAIN l : working'[i]
    /\ current' = Nowhere => at = Nowhere /\ (g \/ l = << >>)
    /\ ~next => (current' = at /\ working' = w /\ fate' = fate)
    /\ \A i \in DOMAIN l : w[i] /\ ~working'[i] => disable /\ ~f /\ i = at

LEMMA ServerChangeFacts ==
    ASSUME NEW l \in Seq(Server),
           NEW at \in {Nowhere, 0} \cup DOMAIN l,
           NEW w \in [DOMAIN l -> BOOLEAN],
           NEW f \in BOOLEAN, NEW g \in BOOLEAN,
           NEW next \in BOOLEAN, NEW disable \in BOOLEAN,
           l # << >> => \E i \in DOMAIN l : w[i],
           at = Nowhere => (f \/ g \/ l = << >>),
           ~next => (~disable /\ ~f /\ at # Nowhere /\ (at = 0 \/ w[at])),
           ServerChange(From(l, at, w, f, g), next, disable)
    PROVE  Changed(l, at, w, f, g, next, disable)
<1>1. /\ DOMAIN l = 1 .. Len(l)
      /\ Len(l) \in Nat
  BY FlagsSeq
<1>2. good_server' = FALSE
  BY DEF ServerChange
<1> DEFINE i == IF f THEN 0 ELSE at
           v == IF disable /\ i # 0 THEN [w EXCEPT ![i] = FALSE] ELSE w
<1>3. CASE g \/ l = << >>
  <2>1. current' = at /\ working' = w /\ fate' = fate
    BY <1>3 DEF ServerChange, From
  <2> QED
    BY <1>1, <1>2, <1>3, <2>1 DEF Changed
<1>4. CASE ~(g \/ l = << >>)
  <2>1. Len(l) \in Nat \ {0}
    BY <1>1, <1>4, EmptySeq
  <2>2. i \in 0 .. Len(l)
    BY <1>1, <1>4
  <2>3. /\ v \in [DOMAIN l -> BOOLEAN]
        /\ v \in Seq(BOOLEAN)
        /\ Len(v) = Len(l)
        /\ DOMAIN v = 1 .. Len(l)
    <3>1. v \in [DOMAIN l -> BOOLEAN]
      OBVIOUS
    <3> QED
      BY <3>1, FlagsSeq
  <2>4. \A k \in DOMAIN l : w[k] /\ ~v[k] => disable /\ ~f /\ k = at
    BY <1>1, <2>2
  <2>5. ~(next /\ Stops(i, v) = {})
    <3>1. PICK k \in 1 .. Len(l) : w[k]
      BY <1>1, <1>4
    <3>0. i = 0 => v = w
      OBVIOUS
    <3> HIDE DEF i, v
    <3> DEFINE e == IF i = 0 THEN k ELSE i
    <3>2. e \in 1 .. Len(l) /\ (i = 0 \/ e = i)
      BY <2>2, <3>1
    <3>4. v[e] \/ e = i
      BY <3>1, <3>0
    <3> HIDE DEF e
    <3>3. PICK n \in 1 .. Len(l) : Visited(i, Len(l), n) = e
      BY <2>1, <2>2, <3>2, WalkMeets
    <3>5. n \in Stops(i, v)
      BY <2>3, <3>3, <3>4 DEF Stops
    <3> QED
      BY <3>5
  <2>6. PICK j \in 0 .. Len(l) :
          /\ IF next THEN WalksTo(i, v, j) ELSE j = i
          /\ IF j = 0 \/ v[j]
             THEN /\ current' = j
                  /\ working' = v
                  /\ UNCHANGED fate
             ELSE IF nevergiveup
             THEN /\ current' = 1
                  /\ working' = ServerReset(v)
                  /\ UNCHANGED fate
             ELSE /\ fate' = "gaveup"
                  /\ current' = j
                  /\ working' = v
    BY <1>4, <2>5 DEF ServerChange, From
  <2>7. next => j \in DOMAIN l
    <3> HIDE DEF i, v
    <3> SUFFICES ASSUME next PROVE j \in DOMAIN l
      OBVIOUS
    <3>1. PICK k \in DOMAIN v : j = Visited(i, Len(v), k)
      BY <2>6 DEF WalksTo, Stops
    <3>2. Visited(i, Len(l), k) \in 1 .. Len(l)
      BY <2>1, <2>2, <2>3, VisitedIsEntry
    <3> QED
      BY <1>1, <2>3, <3>1, <3>2
  <2>8. ~next => (i = at /\ j = at /\ v = w /\ (j = 0 \/ v[j]))
    BY <2>6
  <2>9. ServerReset(v) = [k \in DOMAIN l |-> TRUE]
    BY <2>3, <1>1 DEF ServerReset
  <2>10. 1 \in DOMAIN l
    BY <1>1, <2>1
  <2> HIDE DEF i, v
  <2>11. /\ working' \in [DOMAIN l -> BOOLEAN]
         /\ current' \in {0} \cup DOMAIN l
         /\ fate' \in {fate, "gaveup"}
    <3>1. ServerReset(v) \in [DOMAIN l -> BOOLEAN]
      BY <2>9
    <3>2. j \in {0} \cup DOMAIN l
      BY <1>1
    <3>3. working' \in {v, ServerReset(v)} /\ current' \in {j, 1}
      BY <2>6
    <3> QED
      BY <2>3, <2>6, <2>10, <3>1, <3>2, <3>3
  <2>12. fate' # "gaveup" => \E k \in DOMAIN l : working'[k]
    <3>1. CASE j # 0
      BY <1>1, <2>3, <2>6, <2>9, <2>10, <3>1
    <3>2. CASE j = 0
      <4>1. ~next
        BY <1>1, <2>7, <3>2
      <4> QED
        BY <1>4, <2>6, <2>8, <3>2, <4>1
    <3> QED
      BY <3>1, <3>2
  <2>13. \A k \in DOMAIN l : w[k] /\ ~working'[k] => disable /\ ~f /\ k = at
    BY <2>4, <2>6, <2>9
  <2>14. ~next => (current' = at /\ working' = w /\ fate' = fate)
    BY <2>6, <2>8
  <2>15. current' # Nowhere
    BY <1>1, <2>11 DEF Nowhere
  <2> QED
    BY <1>2, <2>11, <2>12, <2>13, <2>14, <2>15 DEF Changed
<1> QED
  BY <1>3, <1>4
------------------------------------------------------------------------------
(* The types of what server_change() does not touch.                       *)
RestType ==
    /\ list \in Lists
    /\ nevergiveup \in BOOLEAN
    /\ fallback \in Server \cup {NoServer}
    /\ fresh \in BOOLEAN
    /\ connected \in 0 .. 2
    /\ socket \in BOOLEAN
    /\ good_timer \in 0 .. GoodDelay - 1
    /\ lag \in 0 .. StonedTimeout - 1
    /\ connect_timer \in -2 .. Delay + 1
    /\ asked \in Server \cup {NoServer}

(* The invariant holds after a step that calls server_change() with the    *)
(* connection closed.                                                      *)
LEMMA AfterChange ==
    ASSUME NEW at, NEW w, NEW f, NEW g, NEW next, NEW disable,
           Changed(list', at, w, f, g, next, disable),
           RestType', fate = "running",
           connected' = 0, socket' = FALSE,
           at = Nowhere => (fresh' \/ list' = << >>),
           asked' # NoServer =>
               (next = FALSE /\ at \in DOMAIN list' /\ list'[at] = asked')
    PROVE  IInv'
<1>1. TypeOK'
  BY DEF Changed, RestType, TypeOK
<1>2. WalkEnds'
  BY DEF Changed, WalkEnds
<1>3. ASSUME Running' PROVE RunInv'
  <2>1. SomeWorks'
    BY <1>3 DEF Changed, SomeWorks, Running
  <2>2. AstrayIsFresh'
    BY DEF Changed, AstrayIsFresh
  <2>3. OnCurrent'
    BY DEF OnCurrent
  <2>4. AskedIsCurrent'
    BY DEF Changed, AskedIsCurrent
  <2>5. Linked'
    BY DEF Linked
  <2> QED
    BY <2>1, <2>2, <2>3, <2>4, <2>5 DEF RunInv
<1> QED
  BY <1>1, <1>2, <1>3 DEF IInv

LEMMA ListType == TypeOK => list \in Seq(Server)
BY ServerAssumption DEF TypeOK

(* server_change() called with the values that the variables have, but for *)
(* fresh and good_server.                                                  *)
LEMMA ChangeHere ==
    ASSUME IInv, Running, NEW f \in BOOLEAN, NEW g \in BOOLEAN,
           NEW disable \in BOOLEAN,
           f = fresh \/ current # Nowhere,
           ServerChange(Here(f, g), TRUE, disable)
    PROVE  Changed(list, current, working, f, g, TRUE, disable)
<1>1. /\ list \in Seq(Server)
      /\ current \in {Nowhere, 0} \cup DOMAIN list
      /\ working \in [DOMAIN list -> BOOLEAN]
  BY ListType DEF IInv, TypeOK
<1>2. list # << >> => \E i \in DOMAIN list : working[i]
  BY DEF IInv, RunInv, SomeWorks
<1>3. current = Nowhere => (f \/ g \/ list = << >>)
  BY DEF IInv, RunInv, AstrayIsFresh
<1> QED
  BY <1>1, <1>2, <1>3, ServerChangeFacts DEF Here

LEMMA LoseFacts ==
    ASSUME IInv, Running, NEW disable \in BOOLEAN, Lose(disable),
           asked' = NoServer \/ (socket /\ UNCHANGED asked)
    PROVE  /\ IInv'
           /\ Changed(list, current, working, fresh, good_server, TRUE, disable)
<1>1. Changed(list, current, working, fresh, good_server, TRUE, disable)
  <2>1. fresh \in BOOLEAN /\ good_server \in BOOLEAN
    BY DEF IInv, TypeOK
  <2> QED
    BY <2>1, ChangeHere DEF Lose
<1>2. asked' = NoServer
  BY DEF IInv, RunInv, Linked, AskedIsCurrent
<1>3. RestType' /\ list' = list /\ fresh' = fresh
  <2>1. /\ UNCHANGED <<list, nevergiveup, fallback, fresh, lag, good_timer>>
        /\ connected' = 0
        /\ socket' = FALSE
        /\ connect_timer' = 0
    BY DEF Lose, ServerDrop, listVars
  <2>2. connected' \in 0 .. 2 /\ connect_timer' \in -2 .. Delay + 1
    BY <2>1, ServerAssumption
  <2>3. /\ list' \in Lists
        /\ nevergiveup' \in BOOLEAN
        /\ fallback' \in Server \cup {NoServer}
        /\ fresh' \in BOOLEAN
        /\ socket' \in BOOLEAN
        /\ good_timer' \in 0 .. GoodDelay - 1
        /\ lag' \in 0 .. StonedTimeout - 1
        /\ asked' \in Server \cup {NoServer}
    BY <1>2, <2>1 DEF IInv, TypeOK
  <2> QED
    BY <2>1, <2>2, <2>3 DEF RestType
<1>4. current = Nowhere => (fresh' \/ list' = << >>)
  BY <1>3 DEF IInv, RunInv, AstrayIsFresh
<1>5. IInv'
  BY <1>1, <1>2, <1>3, <1>4, AfterChange DEF Lose, ServerDrop, Running
<1> QED
  BY <1>1, <1>5

LEMMA AttemptFacts ==
    ASSUME IInv, Attempt, NEW disable \in BOOLEAN,
           ServerChange(Here(FALSE, good_server), TRUE, disable)
    PROVE  Changed(list, current, working, FALSE, good_server, TRUE, disable)
<1>1. current # Nowhere /\ Running
  BY DEF Attempt
<1>2. good_server \in BOOLEAN
  BY DEF IInv, TypeOK
<1> QED
  BY <1>1, <1>2, ChangeHere

LEMMA AttemptType ==
    ASSUME IInv, Attempt, connected' \in 0 .. 2, socket' \in BOOLEAN,
           good_timer' \in 0 .. GoodDelay - 1
    PROVE  /\ RestType'
           /\ UNCHANGED <<list, nevergiveup>>
           /\ fresh' = FALSE
           /\ asked' = NoServer
           /\ fate = "running"
<1>1. NameAt(current) \in Server \cup {NoServer}
  <2>1. /\ current \in {0} \cup DOMAIN list
        /\ fallback \in Server \cup {NoServer}
    BY DEF IInv, TypeOK, Attempt
  <2>2. \A i \in DOMAIN list : list[i] \in Server
    BY ListType, LenProperties, ElementOfSeq DEF IInv
  <2> QED
    BY <2>1, <2>2 DEF NameAt
<1>2. /\ UNCHANGED <<list, nevergiveup>>
      /\ fresh' = FALSE
      /\ asked' = NoServer
      /\ fate = "running"
      /\ fallback' = NameAt(current)
      /\ connect_timer' = 0
      /\ lag' = 0
  BY DEF Attempt, listVars, Running
<1>3. 0 \in -2 .. Delay + 1 /\ 0 \in 0 .. StonedTimeout - 1
  BY ServerAssumption
<1> QED
  BY <1>1, <1>2, <1>3 DEF IInv, TypeOK, RestType

LEMMA InitInv == Init => IInv
<1> SUFFICES ASSUME Init PROVE IInv
  OBVIOUS
<1>1. /\ list \in Lists
      /\ list # << >>
      /\ working = [i \in DOMAIN list |-> TRUE]
  BY DEF Init, AllWorking
<1>2. 1 \in DOMAIN list
  BY <1>1, ServerAssumption, EmptySeq, LenProperties
<1>3. TypeOK
  <2>1. /\ 0 \in 0 .. 2
        /\ 0 \in 0 .. GoodDelay - 1
        /\ 0 \in 0 .. StonedTimeout - 1
        /\ Delay \in -2 .. Delay + 1
    BY ServerAssumption
  <2>2. working \in [DOMAIN list -> BOOLEAN]
    BY <1>1
  <2> QED
    BY <1>1, <1>2, <2>1, <2>2 DEF Init, TypeOK
<1>4. SomeWorks
  BY <1>1, <1>2 DEF SomeWorks
<1>5. WalkEnds /\ AstrayIsFresh /\ OnCurrent /\ AskedIsCurrent /\ Linked
  BY DEF Init, WalkEnds, AstrayIsFresh, OnCurrent, AskedIsCurrent, Linked, Nowhere
<1> QED
  BY <1>3, <1>4, <1>5 DEF IInv, RunInv

(* Steps that leave the list, the marks and the choice as they are.        *)
LEMMA KeepsChoice ==
    ASSUME IInv, Running, RestType', good_server' \in BOOLEAN,
           UNCHANGED <<list, working, current>>,
           fate' \in {"running", "gaveup", "exited", "crashed"},
           AstrayIsFresh', OnCurrent', AskedIsCurrent', Linked'
    PROVE  IInv'
<1>1. TypeOK'
  BY DEF IInv, TypeOK, RestType
<1>2. WalkEnds'
  BY DEF WalkEnds
<1>3. SomeWorks'
  BY DEF IInv, RunInv, SomeWorks
<1> QED
  BY <1>1, <1>2, <1>3 DEF IInv, RunInv

LEMMA RunFacts == IInv /\ Running => TypeOK /\ RestType /\ RunInv
BY DEF IInv, TypeOK, RestType

LEMMA ConnectInv == IInv /\ Connect => IInv'
<1> SUFFICES ASSUME IInv, Connect PROVE IInv'
  OBVIOUS
<1>0. RestType /\ TypeOK
  BY DEF IInv, TypeOK, RestType
<1>1. ASSUME Attempt, connected' = 1, socket' \in BOOLEAN,
             good_server' = FALSE, good_timer' = 0,
             UNCHANGED <<working, current, fate>>
      PROVE  IInv'
  <2>1. /\ RestType'
        /\ UNCHANGED list
        /\ asked' = NoServer
        /\ fate = "running"
    <3>1. connected' \in 0 .. 2 /\ good_timer' \in 0 .. GoodDelay - 1
      BY <1>1, ServerAssumption
    <3> QED
      BY <1>1, <3>1, AttemptType
  <2>2. current # Nowhere /\ fallback' = NameAt(current)
    BY <1>1 DEF Attempt
  <2>3. AstrayIsFresh' /\ OnCurrent' /\ AskedIsCurrent' /\ Linked'
    BY <1>0, <1>1, <2>1, <2>2
    DEF AstrayIsFresh, OnCurrent, AskedIsCurrent, Linked, NameAt
  <2> QED
    BY <1>1, <2>1, <2>3, KeepsChoice DEF Running
<1>2. CASE ConnectOK
  BY <1>1, <1>2 DEF ConnectOK
<1>3. CASE ConnectRaced
  BY <1>1, <1>3 DEF ConnectRaced
<1>4. ASSUME NEW disable \in BOOLEAN, Attempt,
             ServerChange(Here(FALSE, good_server), TRUE, disable),
             UNCHANGED <<connected, socket, good_timer>>
      PROVE  IInv'
  <2>1. Changed(list, current, working, FALSE, good_server, TRUE, disable)
    BY <1>4, AttemptFacts
  <2>2. /\ RestType'
        /\ UNCHANGED list
        /\ asked' = NoServer
        /\ fate = "running"
    BY <1>0, <1>4, AttemptType DEF RestType
  <2>3. /\ connected' = 0
        /\ socket' = FALSE
        /\ current # Nowhere
    BY <1>0, <1>4, <2>2
    DEF Attempt, IInv, RunInv, Linked, Running, RestType
  <2> QED
    BY <2>1, <2>2, <2>3, AfterChange
<1>5. CASE ConnectFails
  BY <1>4, <1>5 DEF ConnectFails
<1>6. CASE ConnectBreaks
  BY <1>4, <1>6 DEF ConnectBreaks
<1>7. CASE ConnectFatal
  <2>1. RestType' /\ UNCHANGED <<list, working, current>>
    BY <1>0, <1>7, AttemptType DEF ConnectFatal, RestType
  <2>2. TypeOK'
    BY <1>0, <1>7, <2>1 DEF ConnectFatal, TypeOK, RestType
  <2> QED
    BY <1>7, <2>2 DEF ConnectFatal, IInv, WalkEnds, Running
<1>8. CASE ConnectAstray
  <2>1. TypeOK'
    BY <1>0, <1>8 DEF ConnectAstray, TypeOK, listVars, linkVars
  <2> QED
    BY <1>8, <2>1 DEF ConnectAstray, IInv, WalkEnds, Running
<1> QED
  BY <1>2, <1>3, <1>5, <1>6, <1>7, <1>8 DEF Connect

LEMMA ServerInv ==
    IInv /\ (Welcome \/ ServerTalks \/ ServerCloses \/ ServerRejects) => IInv'
<1> SUFFICES ASSUME IInv, Welcome \/ ServerTalks \/ ServerCloses \/ ServerRejects
             PROVE  IInv'
  OBVIOUS
<1>0. RestType /\ TypeOK
  BY DEF IInv, TypeOK, RestType
<1>1. ASSUME Running, connected > 0, connected' \in 1 .. 2, lag' = 0,
             UNCHANGED <<list, nevergiveup, fallback, working, current, fresh,
                         socket, good_timer, good_server, connect_timer, asked,
                         fate>>
      PROVE  IInv'
  <2>1. RestType'
    BY <1>0, <1>1, ServerAssumption DEF RestType
  <2>2. RunInv
    BY <1>1 DEF IInv
  <2>3. AstrayIsFresh' /\ OnCurrent' /\ AskedIsCurrent' /\ Linked'
    BY <1>0, <1>1, <2>2
    DEF RunInv, AstrayIsFresh, OnCurrent, AskedIsCurrent, Linked, RestType
  <2> QED
    BY <1>0, <1>1, <2>1, <2>3, KeepsChoice DEF TypeOK, Running
<1>2. CASE Welcome
  BY <1>0, <1>1, <1>2 DEF Welcome, listVars, RestType
<1>3. CASE ServerTalks
  BY <1>0, <1>1, <1>3 DEF ServerTalks, listVars, RestType
<1>4. CASE ServerCloses
  BY <1>4, LoseFacts DEF ServerCloses
<1>5. CASE ServerRejects
  BY <1>5, LoseFacts DEF ServerRejects
<1> QED
  BY <1>2, <1>3, <1>4, <1>5

LEMMA TickInv == IInv /\ Tick => IInv'
<1> SUFFICES ASSUME IInv, Tick PROVE IInv'
  OBVIOUS
<1>0. Running /\ RestType /\ TypeOK /\ RunInv
  BY DEF IInv, TypeOK, RestType, Tick, TickIdle, TickConnected, TickStoned
<1>1. LaterConnect \in -2 .. Delay + 1
  BY <1>0, ServerAssumption DEF LaterConnect, RestType
<1>2. CASE TickIdle
  <2>1. UNCHANGED <<list, nevergiveup, fallback, working, current, fresh,
                    connected, socket, lag, good_timer, good_server, asked, fate>>
    BY <1>2 DEF TickIdle, listVars, linkVars
  <2>2. RestType'
    BY <1>0, <1>1, <1>2, <2>1 DEF TickIdle, RestType
  <2>3. AstrayIsFresh' /\ OnCurrent' /\ AskedIsCurrent' /\ Linked'
    BY <1>0, <2>1 DEF RunInv, AstrayIsFresh, OnCurrent, AskedIsCurrent, Linked
  <2> QED
    BY <1>0, <2>1, <2>2, <2>3, KeepsChoice DEF TypeOK, Running
<1>3. CASE TickConnected
  <2>1. UNCHANGED <<list, nevergiveup, fallback, working, current, fresh,
                    connected, socket, asked, fate>>
    BY <1>3 DEF TickConnected, listVars
  <2>2. /\ lag' \in 0 .. StonedTimeout - 1
        /\ good_timer' \in 0 .. GoodDelay - 1
        /\ good_server' \in BOOLEAN
    <3>1. lag' = lag + 1 /\ lag + 1 < StonedTimeout
      BY <1>3 DEF TickConnected
    <3>2. \/ good_timer' = 0
          \/ good_timer' = good_timer + 1 /\ ~(good_timer + 1 >= GoodDelay)
                /\ ~good_server
          \/ good_timer' = good_timer
      BY <1>0, <1>3 DEF TickConnected
    <3>3. good_server' \in BOOLEAN
      BY <1>3 DEF TickConnected
    <3>4. lag' \in 0 .. StonedTimeout - 1
      BY <1>0, <3>1, ServerAssumption DEF RestType
    <3>5. good_timer' \in 0 .. GoodDelay - 1
      BY <1>0, <3>2, ServerAssumption DEF RestType
    <3> QED
      BY <3>3, <3>4, <3>5
  <2>3. RestType'
    BY <1>0, <1>1, <1>3, <2>1, <2>2 DEF TickConnected, RestType
  <2>4. AstrayIsFresh' /\ OnCurrent' /\ AskedIsCurrent' /\ Linked'
    BY <1>0, <2>1 DEF RunInv, AstrayIsFresh, OnCurrent, AskedIsCurrent, Linked
  <2> QED
    BY <1>0, <2>1, <2>2, <2>3, <2>4, KeepsChoice DEF TypeOK, Running
<1>4. CASE TickStoned
  <2>1. /\ UNCHANGED <<list, nevergiveup, fallback, fresh, good_timer, asked>>
        /\ connected > 0
        /\ connected' = 0
        /\ socket' = FALSE
        /\ lag' = 0
        /\ connect_timer' = 0
        /\ ServerChange(Here(fresh, good_server), TRUE, FALSE)
    BY <1>4 DEF TickStoned, listVars
  <2>2. asked = NoServer
    BY <1>0, <2>1 DEF RunInv, AskedIsCurrent, RestType
  <2>3. Changed(list, current, working, fresh, good_server, TRUE, FALSE)
    BY <1>0, <2>1, ChangeHere DEF TypeOK
  <2>4. RestType'
    <3>1. /\ 0 \in -2 .. Delay + 1
          /\ 0 \in 0 .. StonedTimeout - 1
          /\ 0 \in 0 .. 2
      BY ServerAssumption
    <3> QED
      BY <1>0, <2>1, <3>1 DEF RestType
  <2>5. current = Nowhere => (fresh' \/ list' = << >>)
    BY <1>0, <2>1 DEF RunInv, AstrayIsFresh
  <2> QED
    BY <1>0, <2>1, <2>2, <2>3, <2>4, <2>5, AfterChange DEF Running
<1> QED
  BY <1>2, <1>3, <1>4 DEF Tick

LEMMA DropType ==
    ASSUME RestType, ServerDrop, UNCHANGED <<list, nevergiveup, fallback>>,
           fresh' \in BOOLEAN, asked' \in Server \cup {NoServer},
           connect_timer' \in {0, Delay, Delay - 3}
    PROVE  RestType' /\ connected' = 0 /\ socket' = FALSE
<1>1. /\ connected' \in 0 .. 2
      /\ connected' = 0
      /\ socket' = FALSE
      /\ lag' = lag
      /\ good_timer' = good_timer
  BY DEF ServerDrop
<1>2. connect_timer' \in -2 .. Delay + 1
  BY ServerAssumption
<1> QED
  BY <1>1, <1>2 DEF RestType

LEMMA JumpInv ==
    IInv /\ (JumpNext \/ \E n \in 0 .. Len(list) : JumpTo(n)) => IInv'
<1> SUFFICES ASSUME IInv, JumpNext \/ \E n \in 0 .. Len(list) : JumpTo(n)
             PROVE  IInv'
  OBVIOUS
<1>0. /\ RestType
      /\ TypeOK
      /\ Running
      /\ RunInv
      /\ NoServer \in Server \cup {NoServer}
  BY DEF IInv, TypeOK, RestType, JumpNext, JumpTo
<1>1. ASSUME NEW n \in 0 .. Len(list), JumpTo(n)
      PROVE  IInv'
  <2> DEFINE w == IF n = 0 THEN working ELSE [working EXCEPT ![n] = TRUE]
  <2>1. /\ UNCHANGED <<list, nevergiveup, fallback>>
        /\ ServerDrop
        /\ fresh' = FALSE
        /\ connect_timer' = Delay
        /\ n \in IF list = << >> THEN {0} ELSE DOMAIN list
        /\ asked' = IF n = 0 THEN NoServer ELSE list[n]
    BY <1>1 DEF JumpTo, listVars
  <2>2. ServerChange(From(list, n, w, FALSE, good_server), FALSE, FALSE)
    BY <1>1 DEF JumpTo
  <2>3. /\ list \in Seq(Server)
        /\ DOMAIN list = 1 .. Len(list)
        /\ Len(list) \in Nat
    BY <1>0, ListType, LenProperties
  <2>4. w \in [DOMAIN list -> BOOLEAN]
    BY <1>0 DEF TypeOK
  <2>5. /\ n \in {Nowhere, 0} \cup DOMAIN list
        /\ n # Nowhere
        /\ n = 0 \/ w[n]
    BY <1>0, <2>3 DEF Nowhere, TypeOK
  <2>6. list # << >> => \E i \in DOMAIN list : w[i]
    BY <1>0 DEF RunInv, SomeWorks, TypeOK
  <2>7. asked' \in Server \cup {NoServer}
    BY <1>0, <2>1, <2>3, ElementOfSeq
  <2>8. asked' # NoServer => (n \in DOMAIN list /\ list[n] = asked')
    BY <2>1, <2>3
  <2>9. good_server \in BOOLEAN
    BY <1>0 DEF TypeOK
  <2> HIDE DEF w
  <2>10. Changed(list, n, w, FALSE, good_server, FALSE, FALSE)
    BY <2>2, <2>3, <2>4, <2>5, <2>6, <2>9, ServerChangeFacts
  <2>11. RestType' /\ connected' = 0 /\ socket' = FALSE
    BY <1>0, <2>1, <2>7, DropType
  <2> QED
    BY <1>0, <2>1, <2>5, <2>8, <2>10, <2>11, AfterChange DEF Running
<1>2. CASE JumpNext
  <2>1. /\ UNCHANGED <<list, nevergiveup, fallback, fresh>>
        /\ ServerDrop
        /\ asked' = NoServer
        /\ connect_timer' = Delay
        /\ ServerChange(Here(fresh, FALSE), TRUE, FALSE)
    BY <1>2 DEF JumpNext, listVars
  <2>2. Changed(list, current, working, fresh, FALSE, TRUE, FALSE)
    BY <1>0, <2>1, ChangeHere DEF TypeOK
  <2>3. RestType' /\ connected' = 0 /\ socket' = FALSE
    BY <1>0, <2>1, DropType DEF RestType
  <2>4. current = Nowhere => (fresh' \/ list' = << >>)
    BY <1>0, <2>1 DEF RunInv, AstrayIsFresh
  <2> QED
    BY <1>0, <2>1, <2>2, <2>3, <2>4, AfterChange DEF Running
<1> QED
  BY <1>1, <1>2

LEMMA AttachInv == IInv /\ ClientAttaches => IInv'
<1> SUFFICES ASSUME IInv, ClientAttaches PROVE IInv'
  OBVIOUS
<1>0. RestType /\ TypeOK /\ Running /\ RunInv
  BY DEF IInv, TypeOK, RestType, ClientAttaches
<1>1. UNCHANGED <<list, nevergiveup, fallback, working, connected, socket, lag,
                  good_timer, good_server, connect_timer, asked>>
  BY DEF ClientAttaches, listVars, linkVars
<1>2. CASE UNCHANGED <<current, fresh>>
  <2>1. RestType' /\ fate' \in {"running", "crashed"}
    BY <1>0, <1>1, <1>2 DEF RestType, ClientAttaches, Running
  <2>2. AstrayIsFresh' /\ OnCurrent' /\ AskedIsCurrent' /\ Linked'
    BY <1>0, <1>1, <1>2
    DEF RunInv, AstrayIsFresh, OnCurrent, AskedIsCurrent, Linked
  <2> QED
    BY <1>0, <1>1, <1>2, <2>1, <2>2, KeepsChoice DEF TypeOK
<1>3. CASE ~UNCHANGED <<current, fresh>>
  <2>1. /\ list # << >> /\ current # Nowhere
        /\ \E i \in DOMAIN list : Found(list, NameAt(current), i) /\ current' = i
        /\ fresh' = FALSE
        /\ UNCHANGED fate
    BY <1>3 DEF ClientAttaches
  <2>2. /\ current' \in DOMAIN list
        /\ list[current'] = NameAt(current)
    BY <2>1 DEF Found
  <2>3. DOMAIN list = 1 .. Len(list) /\ Len(list) \in Nat
    BY <1>0, ListType, LenProperties
  <2>4. TypeOK' /\ WalkEnds'
    BY <1>0, <1>1, <2>1, <2>2 DEF TypeOK, WalkEnds, Running
  <2>5. current \in {0} \cup DOMAIN list /\ current' # Nowhere
    BY <1>0, <2>1, <2>2, <2>3 DEF TypeOK, Nowhere
  <2>6. OnCurrent'
    BY <1>0, <1>1, <2>2, <2>3, <2>5 DEF RunInv, OnCurrent, NameAt
  <2>7. AskedIsCurrent'
    BY <1>0, <1>1, <2>2, <2>3, <2>5 DEF RunInv, AskedIsCurrent, NameAt
  <2>8. SomeWorks' /\ AstrayIsFresh' /\ Linked'
    BY <1>0, <1>1, <2>5 DEF RunInv, SomeWorks, AstrayIsFresh, Linked
  <2> QED
    BY <2>4, <2>6, <2>7, <2>8 DEF IInv, RunInv
<1> QED
  BY <1>2, <1>3

LEMMA RehashInv ==
    ASSUME IInv, NEW l \in Lists, NEW i \in 0 .. Len(l),
           Rehash(l, i) \/ RehashBind(l, i) \/ RehashIdentity(l, i)
    PROVE  IInv'
<1>0. RestType /\ TypeOK /\ Running /\ RunInv
  BY DEF IInv, TypeOK, RestType, Rehash, RehashBind, RehashIdentity, Reread
<1>1. Reread(l, i)
  BY DEF Rehash, RehashBind, RehashIdentity
<1>2. /\ list' = l
      /\ nevergiveup' \in BOOLEAN
      /\ fresh' = TRUE
      /\ asked' = NoServer
      /\ UNCHANGED fallback
  BY <1>1 DEF Reread
<1>3. /\ l \in Seq(Server)
      /\ DOMAIN l = 1 .. Len(l)
      /\ Len(l) \in Nat
  BY ServerAssumption, LenProperties
<1>4. i \in {0} \cup DOMAIN l /\ (i > 0 => l[i] = fallback)
  BY <1>1, <1>3 DEF Reread, Found
<1>5. /\ AllWorking(l) \in [DOMAIN l -> BOOLEAN]
      /\ l # << >> => \E k \in DOMAIN l : AllWorking(l)[k]
  <2>1. l # << >> => 1 \in DOMAIN l
    BY <1>3, EmptySeq
  <2> QED
    BY <2>1 DEF AllWorking
<1>6. CASE Rehash(l, i)
  <2>1. /\ UNCHANGED <<connected, socket, lag, good_timer, good_server,
                      connect_timer, fate>>
        /\ current' = i
        /\ working' = AllWorking(l)
    BY <1>6 DEF Rehash, linkVars
  <2>2. TypeOK' /\ WalkEnds'
    BY <1>0, <1>2, <1>4, <1>5, <2>1 DEF TypeOK, WalkEnds, Running
  <2>3. current' # Nowhere
    BY <1>3, <1>4, <2>1 DEF Nowhere
  <2>4. SomeWorks' /\ AstrayIsFresh' /\ OnCurrent' /\ AskedIsCurrent' /\ Linked'
    BY <1>0, <1>2, <1>4, <1>5, <2>1, <2>3
    DEF RunInv, SomeWorks, AstrayIsFresh, OnCurrent, AskedIsCurrent, Linked
  <2> QED
    BY <2>2, <2>4 DEF IInv, RunInv
<1>7. ASSUME NEW at \in {Nowhere, 0} \cup DOMAIN l, NEW g \in BOOLEAN,
             ServerChange(From(l, at, AllWorking(l), TRUE, g), TRUE, FALSE),
             ServerDrop, connect_timer' \in {0, Delay, Delay - 3}
      PROVE  IInv'
  <2>1. Changed(l, at, AllWorking(l), TRUE, g, TRUE, FALSE)
    BY <1>3, <1>5, <1>7, ServerChangeFacts
  <2>2. /\ connect_timer' \in -2 .. Delay + 1
        /\ connected' \in 0 .. 2
        /\ connected' = 0
        /\ socket' = FALSE
        /\ UNCHANGED <<lag, good_timer>>
    BY <1>7, ServerAssumption DEF ServerDrop
  <2>3. RestType'
    BY <1>0, <1>2, <2>2 DEF RestType
  <2> QED
    BY <1>0, <1>2, <2>1, <2>2, <2>3, AfterChange DEF Running
<1>8. CASE RehashBind(l, i)
  BY <1>0, <1>4, <1>7, <1>8 DEF RehashBind, TypeOK
<1>9. CASE RehashIdentity(l, i)
  <2>1. PICK rebind \in BOOLEAN :
          ServerChange(From(l, Nowhere, AllWorking(l), TRUE,
                            good_server /\ ~rebind), TRUE, FALSE)
    BY <1>9 DEF RehashIdentity
  <2>2. (good_server /\ ~rebind) \in BOOLEAN
    OBVIOUS
  <2> QED
    BY <1>7, <1>9, <2>1, <2>2 DEF RehashIdentity
<1> QED
  BY <1>6, <1>8, <1>9

LEMMA OperatorInv == IInv /\ Operator => IInv'
<1> SUFFICES ASSUME IInv, Operator PROVE IInv'
  OBVIOUS
<1>1. CASE Stoned
  BY <1>1, LoseFacts DEF Stoned
<1>2. CASE JumpNext \/ \E n \in 0 .. Len(list) : JumpTo(n)
  BY <1>2, JumpInv
<1>3. CASE ClientAttaches
  BY <1>3, AttachInv
<1>4. CASE \E l \in Lists : \E i \in 0 .. Len(l) :
             Rehash(l, i) \/ RehashBind(l, i) \/ RehashIdentity(l, i)
  BY <1>4, RehashInv
<1>5. CASE Die
  <2>1. /\ UNCHANGED <<list, nevergiveup, fallback, working, current, fresh,
                      good_server, asked, lag, good_timer>>
        /\ connected' = 0
        /\ socket' = FALSE
        /\ connect_timer' = 0
        /\ fate' = "exited"
    BY <1>5 DEF Die, ServerDrop, listVars
  <2>2. 0 \in 0 .. 2 /\ 0 \in -2 .. Delay + 1
    BY ServerAssumption
  <2>3. TypeOK'
    BY <2>1, <2>2 DEF IInv, TypeOK
  <2> QED
    BY <2>1, <2>3 DEF IInv, WalkEnds, Running
<1> QED
  BY <1>1, <1>2, <1>3, <1>4, <1>5 DEF Operator

LEMMA StepInv == IInv /\ [Next]_vars => IInv'
<1> SUFFICES ASSUME IInv, [Next]_vars PROVE IInv'
  OBVIOUS
<1>1. CASE Next
  BY <1>1, ConnectInv, ServerInv, TickInv, OperatorInv DEF Next
<1>2. CASE UNCHANGED vars
  BY <1>2
  DEF IInv, TypeOK, WalkEnds, Running, RunInv, SomeWorks, AstrayIsFresh,
      OnCurrent, AskedIsCurrent, Linked, vars, listVars, linkVars
<1> QED
  BY <1>1, <1>2

LEMMA Reachable == Spec => []IInv
BY InitInv, StepInv, PTL DEF Spec

(* The variables of the server list and of the connection hold what they   *)
(* are declared to hold: i_server.current points at an entry of the list   *)
(* that is there, or nowhere.                                              *)
THEOREM TypeCorrect == Spec => []TypeOK
<1>1. IInv => TypeOK
  BY DEF IInv
<1> QED
  BY <1>1, Reachable, PTL

(* The walk of server_change() along the servers always ends.              *)
THEOREM TheWalkEnds == Spec => []WalkEnds
<1>1. IInv => WalkEnds
  BY DEF IInv
<1> QED
  BY <1>1, Reachable, PTL

(* The server that a JUMP named is the next one that miau tries.           *)
THEOREM JumpsAreHonoured == Spec => JumpIsHonoured
<1>1. IInv /\ [Next]_vars
        => [(Attempt /\ asked # NoServer) => fallback' = asked]_vars
  <2> SUFFICES ASSUME IInv, Attempt, asked # NoServer PROVE fallback' = asked
    OBVIOUS
  <2>1. AskedIsCurrent /\ TypeOK
    BY DEF IInv, RunInv, Attempt
  <2>2. DOMAIN list = 1 .. Len(list) /\ Len(list) \in Nat
    BY <2>1, ListType, LenProperties
  <2>3. current # 0
    BY <2>1, <2>2 DEF AskedIsCurrent
  <2> QED
    BY <2>1, <2>3 DEF AskedIsCurrent, Attempt, NameAt
<1> QED
  BY <1>1, Reachable, PTL DEF Spec, JumpIsHonoured
------------------------------------------------------------------------------
(* A step marks no server that it leaves in the list.                      *)
MarksNone == \A i \in DOMAIN working : working[i] => working'[i]

(* A server_change() that is not told to disable marks none.               *)
LEMMA UnblamedKeepsMarks ==
    ASSUME NEW l, NEW at, NEW w, NEW f, NEW g, NEW next,
           ServerChange(From(l, at, w, f, g), next, FALSE)
    PROVE  working' \in {w, [i \in DOMAIN w |-> TRUE]}
BY DEF ServerChange, From, ServerReset

LEMMA OperatorMarksNone ==
    ASSUME IInv, Operator, list' = list PROVE MarksNone
<1>0. DOMAIN working = DOMAIN list
  BY DEF IInv, TypeOK
<1>1. CASE Stoned
  BY <1>1, UnblamedKeepsMarks DEF Stoned, Lose, Here, MarksNone
<1>2. ASSUME NEW n \in 0 .. Len(list), JumpTo(n)
      PROVE  MarksNone
  <2> DEFINE w == IF n = 0 THEN working ELSE [working EXCEPT ![n] = TRUE]
  <2>1. ServerChange(From(list, n, w, FALSE, good_server), FALSE, FALSE)
    BY <1>2 DEF JumpTo
  <2>2. DOMAIN w = DOMAIN working /\ \A i \in DOMAIN w : working[i] => w[i]
    OBVIOUS
  <2> HIDE DEF w
  <2>3. working' \in {w, [i \in DOMAIN w |-> TRUE]}
    BY <2>1, UnblamedKeepsMarks
  <2> QED
    BY <2>2, <2>3 DEF MarksNone
<1>3. CASE JumpNext
  BY <1>3, UnblamedKeepsMarks DEF JumpNext, Here, MarksNone
<1>4. CASE ClientAttaches
  BY <1>4 DEF ClientAttaches, MarksNone
<1>5. ASSUME NEW l \in Lists, NEW i \in 0 .. Len(l),
             Rehash(l, i) \/ RehashBind(l, i) \/ RehashIdentity(l, i)
      PROVE  MarksNone
  <2>1. l = list
    BY <1>5 DEF Rehash, RehashBind, RehashIdentity, Reread
  <2>2. AllWorking(list) = [k \in DOMAIN working |-> TRUE]
    BY <1>0 DEF AllWorking
  <2>3. working' \in {AllWorking(list), [k \in DOMAIN AllWorking(list) |-> TRUE]}
    BY <1>5, <2>1, UnblamedKeepsMarks DEF Rehash, RehashBind, RehashIdentity
  <2> QED
    BY <2>2, <2>3 DEF MarksNone
<1>6. CASE Die
  BY <1>6 DEF Die, MarksNone
<1> QED
  BY <1>1, <1>2, <1>3, <1>4, <1>5, <1>6 DEF Operator

(* Only the server of the attempt or connection that has just failed is    *)
(* marked as dysfunctional.                                                *)
THEOREM BlameIsFair == Spec => BlamesItsOwn
<1> DEFINE Fair == \A i \in DOMAIN working :
             (list' = list /\ working[i] /\ ~working'[i]) => list[i] = fallback'
<1>1. ASSUME IInv, Next PROVE Fair
  <2>0. DOMAIN working = DOMAIN list /\ DOMAIN list = 1 .. Len(list)
    BY <1>1, ListType, LenProperties DEF IInv, TypeOK
  <2>1. CASE Operator
    BY <1>1, <2>1, OperatorMarksNone DEF MarksNone
  <2>2. CASE ServerRejects
    <3>1. Changed(list, current, working, fresh, good_server, TRUE, TRUE)
      BY <1>1, <2>2, LoseFacts DEF ServerRejects
    <3>2. /\ connected > 0
          /\ OnCurrent
          /\ fallback' = fallback
      BY <1>1, <2>2 DEF ServerRejects, Lose, IInv, RunInv, Linked
    <3> QED
      BY <2>0, <3>1, <3>2 DEF Changed, OnCurrent
  <2>3. CASE ServerCloses
    BY <2>3, UnblamedKeepsMarks DEF ServerCloses, Lose, Here
  <2>4. CASE Tick
    BY <2>4, UnblamedKeepsMarks
    DEF Tick, TickIdle, TickConnected, TickStoned, Here
  <2>5. CASE ConnectFails
    <3>1. Changed(list, current, working, FALSE, good_server, TRUE, TRUE)
      BY <1>1, <2>5, AttemptFacts DEF ConnectFails
    <3>2. fallback' = NameAt(current)
      BY <2>5 DEF ConnectFails, Attempt
    <3> QED
      BY <2>0, <3>1, <3>2 DEF Changed, NameAt
  <2>6. CASE ConnectBreaks
    BY <2>6, UnblamedKeepsMarks DEF ConnectBreaks, Here
  <2>7. CASE Welcome \/ ServerTalks \/ ConnectOK \/ ConnectRaced
             \/ ConnectFatal \/ ConnectAstray
    BY <2>7 DEF Welcome, ServerTalks, ConnectOK, ConnectRaced, ConnectFatal,
                ConnectAstray
  <2> QED
    BY <1>1, <2>1, <2>2, <2>3, <2>4, <2>5, <2>6, <2>7 DEF Next, Connect
<1>2. IInv /\ [Next]_vars
        => [Fair]_vars
  BY <1>1
<1> QED
  BY <1>2, Reachable, PTL DEF Spec, BlamesItsOwn
=============================================================================
