----------------------------- MODULE NickProofs -----------------------------
(***************************************************************************)
(* Where get_nick() stands on the list, and that status.got_nick tells the *)
(* truth, for any names, lists and intervals.                              *)
(***************************************************************************)
EXTENDS Nick, TLAPS

TypeInv ==
    /\ nicks \in Seq(Names) /\ nicks # <<>>
    /\ current \in Int
    /\ next \in {"FIRST", "NEXT", "GEN"}
    /\ nickname \in Names
    /\ got_nick \in BOOLEAN
    /\ connected \in 0 .. 2
    /\ lines \in Seq(Names)

(* Nicks are made up only behind the end of the list, and only as long as  *)
(* that is allowed: rehash() starts over.                                  *)
MadeUpBehind == next = "GEN" => current = NULL /\ fill

(* While miau registers, its one request is for the nick it takes for its  *)
(* own, so that RPL_WELCOME changes no nick that got_nick was said of.     *)
Introduced == connected = 1 => lines = <<nickname>>

IInv == TypeInv /\ PlaceOnList /\ MadeUpBehind /\ Introduced /\ GotTheFirst
------------------------------------------------------------------------------
(* A list that is not empty has a first nick.                              *)
LEMMA FirstIsNick ==
    ASSUME NEW list \in Seq(Names), list # <<>>
    PROVE  Len(list) \in Nat /\ 1 \in 1 .. Len(list) /\ list[1] \in Names
  OBVIOUS

(* Initial states satisfy the invariant.                                   *)
LEMMA InitHolds == Init => IInv
  <1> SUFFICES ASSUME Init PROVE IInv
    OBVIOUS
  <1> USE NickAssumption
  <1>1. nicks \in Seq(Names) /\ nicks # <<>>
    BY DEF Init
  <1>2. Len(nicks) \in Nat /\ 1 \in 1 .. Len(nicks) /\ First \in Names
    BY <1>1, FirstIsNick DEF First
  <1> QED
    BY <1>1, <1>2 DEF Init, IInv, TypeInv, PlaceOnList, MadeUpBehind, Introduced,
                      GotTheFirst, First, NULL

(* get_nick() moves to a node of the list, or behind its end.              *)
LEMMA FollowingIs ==
    ASSUME IInv
    PROVE  Following \in 1 .. Len(nicks) \/ Following = NULL
  <1>1. Len(nicks) \in Nat /\ 1 \in 1 .. Len(nicks)
    BY FirstIsNick DEF IInv, TypeInv
  <1>2. CASE next = "FIRST"
    BY <1>1, <1>2 DEF Following
  <1>3. CASE next = "NEXT"
    BY <1>1, <1>3 DEF Following, IInv, PlaceOnList, NULL
  <1>4. CASE next = "GEN"
    BY <1>4 DEF Following, IInv, MadeUpBehind, NULL
  <1> QED
    BY <1>2, <1>3, <1>4 DEF IInv, TypeInv

(* get_nick() keeps the invariant on a connection that registers.          *)
LEMMA GetNewNickKeeps ==
    ASSUME IInv, GetNewNick, connected = 1, UNCHANGED <<nicks, fill, connected>>
    PROVE  IInv'
  <1> USE NickAssumption
  <1>1. /\ Len(nicks) \in Nat /\ 1 \in 1 .. Len(nicks) /\ First \in Names
        /\ nicks \in Seq(Names)
    BY FirstIsNick DEF IInv, TypeInv, First
  <1>2. lines = <<nickname>>
    BY DEF IInv, Introduced
  <1>3. /\ nickname' \in Names /\ current' \in Int
        /\ next' \in {"FIRST", "NEXT", "GEN"}
        /\ PlaceOnList' /\ MadeUpBehind'
    <2>1. CASE Following # NULL
      <3>1. Following \in 1 .. Len(nicks)
        BY <2>1, FollowingIs
      <3>2. nicks[Following] \in Names
        BY <1>1, <3>1
      <3>3. current' = Following /\ nickname' = nicks[Following]
        BY <2>1 DEF GetNewNick
      <3>4. next' = "NEXT"
        BY <2>1 DEF GetNewNick, Following, IInv, TypeInv, MadeUpBehind, NULL
      <3> QED
        BY <1>1, <3>1, <3>2, <3>3, <3>4 DEF PlaceOnList, MadeUpBehind
    <2>2. CASE Following = NULL /\ ~fill
      <3>1. current' = 1 /\ nickname' = First /\ next' = next
        BY <2>2 DEF GetNewNick
      <3>2. next # "GEN"
        BY <2>2 DEF IInv, MadeUpBehind
      <3> QED
        BY <1>1, <3>1, <3>2 DEF PlaceOnList, MadeUpBehind, IInv, TypeInv
    <2>3. CASE Following = NULL /\ fill
      BY <2>3 DEF GetNewNick, PlaceOnList, MadeUpBehind, NULL
    <2> QED
      BY <2>1, <2>2, <2>3 
  <1>4. got_nick' = FALSE
    BY DEF GetNewNick
  <1>5. lines' = <<nickname'>>
    BY <1>2, <1>3 DEF GetNewNick
  <1>6. TypeInv' /\ Introduced'
    <2>1. <<nickname'>> \in Seq(Names)
      BY <1>3
    <2> QED
      BY <1>1, <1>3, <1>4, <1>5, <2>1 DEF IInv, TypeInv, Introduced
  <1>7. GotTheFirst'
    BY <1>4 DEF GotTheFirst
  <1> QED
    BY <1>3, <1>6, <1>7 DEF IInv

(* On a connection that has registered, only requests, the nick and        *)
(* got_nick change, the latter two together.                               *)
LEMMA RegisteredKeeps ==
    ASSUME IInv, connected # 1, UNCHANGED <<nicks, fill, current, next, connected>>,
           lines' \in Seq(Names), nickname' \in Names, got_nick' \in BOOLEAN,
           got_nick' => nickname' = First
    PROVE  IInv'
  <1>1. TypeInv' /\ Introduced'
    BY DEF IInv, TypeInv, Introduced
  <1>2. PlaceOnList' /\ MadeUpBehind'
    BY DEF IInv, PlaceOnList, MadeUpBehind
  <1>3. GotTheFirst'
    BY DEF GotTheFirst, First
  <1> QED
    BY <1>1, <1>2, <1>3 DEF IInv

(* Every step keeps the invariant.                                         *)
LEMMA NextKeeps == IInv /\ [Next]_vars => IInv'
  <1> SUFFICES ASSUME IInv, [Next]_vars PROVE IInv'
    OBVIOUS
  <1> USE NickAssumption
  <1>1. /\ Len(nicks) \in Nat /\ 1 \in 1 .. Len(nicks) /\ First \in Names
        /\ nicks \in Seq(Names) /\ nicks # <<>>
    BY FirstIsNick DEF IInv, TypeInv, First
  <1>2. lines # <<>> => Head(lines) \in Names /\ Tail(lines) \in Seq(Names)
    BY DEF IInv, TypeInv
  <1>3. CASE Connect
    <2>1. /\ UNCHANGED nicks /\ nickname' = First /\ current' = 1 /\ next' = "NEXT"
          /\ got_nick' = TRUE
      BY <1>3 DEF Connect, settings
    <2>2. \/ connected' = 1 /\ lines' = <<First>>
          \/ connected' = 0 /\ lines' = lines
      BY <1>3 DEF Connect
    <2>3. lines' \in Seq(Names) /\ connected' \in 0 .. 2
      <3>1. <<First>> \in Seq(Names)
        BY <1>1
      <3>2. lines \in Seq(Names)
        BY DEF IInv, TypeInv
      <3>3. CASE connected' = 1 /\ lines' = <<First>>
        BY <3>1, <3>3
      <3>4. CASE connected' = 0 /\ lines' = lines
        BY <3>2, <3>4
      <3> QED
        BY <2>2, <3>3, <3>4
    <2>4. TypeInv'
      BY <1>1, <2>1, <2>3 DEF TypeInv
    <2>5. PlaceOnList' /\ MadeUpBehind' /\ Introduced'
      BY <1>1, <2>1, <2>2 DEF PlaceOnList, MadeUpBehind, Introduced
    <2>6. GotTheFirst'
      BY <2>1 DEF GotTheFirst, First
    <2> QED
      BY <2>4, <2>5, <2>6 DEF IInv
  <1>4. CASE Disconnect
    <2>1. connected' = 0 /\ lines' = <<>> /\ UNCHANGED <<settings, place, nickname, got_nick>>
      BY <1>4 DEF Disconnect
    <2>2. TypeInv' /\ Introduced'
      BY <2>1 DEF IInv, TypeInv, Introduced, settings, place
    <2>3. PlaceOnList' /\ MadeUpBehind'
      BY <2>1 DEF IInv, PlaceOnList, MadeUpBehind, settings, place
    <2>4. GotTheFirst'
      BY <2>1 DEF IInv, GotTheFirst, First, settings
    <2> QED
      BY <2>2, <2>3, <2>4 DEF IInv
  <1>5. CASE Refused
    <2>1. CASE connected = 1
      BY <1>5, <2>1, GetNewNickKeeps DEF Refused, settings
    <2>2. CASE connected # 1
      <3>1. /\ UNCHANGED <<nicks, fill, current, next, nickname, got_nick, connected>>
            /\ lines' \in Seq(Names)
        BY <1>2, <1>5, <2>2 DEF Refused, settings, place
      <3> QED
        BY <2>2, <3>1, RegisteredKeeps DEF IInv, TypeInv, GotTheFirst
    <2> QED
      BY <2>1, <2>2
  <1>6. CASE Welcome
    <2>1. Head(lines) = nickname /\ Tail(lines) = <<>>
      BY <1>6 DEF Welcome, IInv, Introduced
    <2>2. /\ UNCHANGED <<nicks, fill, current, next, nickname, got_nick>>
          /\ connected' = 2 /\ lines' = <<>>
      BY <1>6, <2>1 DEF Welcome, settings, place
    <2>3. TypeInv' /\ Introduced'
      BY <2>2 DEF IInv, TypeInv, Introduced
    <2>4. PlaceOnList' /\ MadeUpBehind'
      BY <2>2 DEF IInv, PlaceOnList, MadeUpBehind
    <2>5. GotTheFirst'
      BY <2>2 DEF IInv, GotTheFirst, First
    <2> QED
      BY <2>3, <2>4, <2>5 DEF IInv
  <1>7. CASE Granted
    <2>1. /\ UNCHANGED <<nicks, fill, current, next, connected>> /\ connected = 2
          /\ lines' \in Seq(Names) /\ Head(lines) \in Names
      BY <1>2, <1>7 DEF Granted, settings, place
    <2>2. CASE Head(lines) = nickname
      <3>1. UNCHANGED <<nickname, got_nick>>
        BY <1>7, <2>2 DEF Granted
      <3> QED
        BY <2>1, <3>1, RegisteredKeeps DEF IInv, TypeInv, GotTheFirst
    <2>3. CASE Head(lines) # nickname
      <3>1. nickname' = Head(lines) /\ got_nick' = (Head(lines) = First)
        BY <1>7, <2>3 DEF Granted, NowKnownAs
      <3>2. got_nick' \in BOOLEAN /\ (got_nick' => nickname' = First)
        BY <3>1
      <3>3. nickname' \in Names /\ connected # 1
        BY <2>1, <3>1
      <3> QED
        BY <2>1, <3>2, <3>3, RegisteredKeeps
    <2> QED
      BY <2>2, <2>3
  <1>8. ASSUME NEW n \in Names, Forced(n) PROVE IInv'
    <2>1. /\ UNCHANGED <<nicks, fill, current, next, connected, lines>> /\ connected = 2
          /\ nickname' = n /\ got_nick' = (n = First)
      BY <1>8 DEF Forced, NowKnownAs, settings, place
    <2>2. lines' \in Seq(Names) /\ nickname' \in Names /\ connected # 1
      BY <2>1 DEF IInv, TypeInv
    <2>3. got_nick' \in BOOLEAN /\ (got_nick' => nickname' = First)
      BY <2>1
    <2> QED
      BY <2>1, <2>2, <2>3, RegisteredKeeps
  <1>9. ASSUME NEW n \in Names, ClientAsks(n) \/ Leave(n) PROVE IInv'
    <2>1. /\ UNCHANGED <<nicks, fill, current, next, nickname, got_nick, connected>>
          /\ connected = 2
          /\ lines' = Append(lines, n)
      BY <1>9 DEF ClientAsks, Leave, settings, place
    <2>2. lines' \in Seq(Names)
      BY <2>1 DEF IInv, TypeInv
    <2> QED
      BY <2>1, <2>2, RegisteredKeeps DEF IInv, TypeInv, GotTheFirst
  <1>10. CASE Tick
    <2>1. /\ UNCHANGED <<nicks, fill, current, next, nickname, got_nick, connected>>
          /\ connected = 2
      BY <1>10 DEF Tick, settings, place
    <2>2. lines' \in Seq(Names)
      BY <1>1, <1>10 DEF Tick, IInv, TypeInv
    <2> QED
      BY <2>1, <2>2, RegisteredKeeps DEF IInv, TypeInv, GotTheFirst
  <1>11. ASSUME NEW list \in Lists, NEW filled \in BOOLEAN, Rehash(list, filled) PROVE IInv'
    <2>1. list \in Seq(Names)
      OBVIOUS
    <2>2. nicks' \in Seq(Names) /\ nicks' # <<>>
      BY <1>11, <2>1 DEF Rehash, Reread, IInv, TypeInv
    <2>3. /\ next' = "FIRST" /\ current' \in Int
          /\ UNCHANGED <<nickname, connected, lines>>
      BY <1>11 DEF Rehash, Reread, NULL, Freed
    <2>4. CASE nicks'[1] # nickname
      <3>1. got_nick' = FALSE
        BY <1>11, <2>4 DEF Rehash
      <3> QED
        BY <2>2, <2>3, <3>1 DEF IInv, TypeInv, PlaceOnList, MadeUpBehind, Introduced,
                                GotTheFirst
    <2>5. CASE nicks'[1] = nickname
      <3>1. got_nick' \in BOOLEAN
        BY <1>11, <2>5 DEF Rehash, IInv, TypeInv
      <3>2. TypeInv' /\ PlaceOnList' /\ MadeUpBehind' /\ Introduced'
        BY <2>2, <2>3, <3>1 DEF IInv, TypeInv, PlaceOnList, MadeUpBehind, Introduced
      <3>3. GotTheFirst'
        BY <2>3, <2>5 DEF GotTheFirst, First
      <3> QED
        BY <3>2, <3>3 DEF IInv
    <2> QED
      BY <2>4, <2>5
  <1>12. CASE ClientsChange \/ \E n \in Names : OthersChange(n)
    BY <1>12 DEF ClientsChange, OthersChange, IInv, TypeInv, PlaceOnList, MadeUpBehind,
                 Introduced, GotTheFirst, First, settings, place
  <1>13. CASE UNCHANGED vars
    BY <1>13 DEF vars, IInv, TypeInv, PlaceOnList, MadeUpBehind, Introduced,
                 GotTheFirst, First
  <1> QED
    BY <1>3, <1>4, <1>5, <1>6, <1>7, <1>8, <1>9, <1>10, <1>11, <1>12, <1>13
    DEF Next, Answered, Rehashed, Left

(* The invariant holds at all times.                                       *)
LEMMA Invariant == Spec => []IInv
  BY InitHolds, NextKeeps, PTL DEF Spec

(* get_nick() never follows a node of a list that rehash() has freed.      *)
THEOREM NeverAstray == Spec => []PlaceOnList
  <1>1. IInv => PlaceOnList
    BY DEF IInv
  <1> QED
    BY <1>1, Invariant, PTL

(* status.got_nick is set only while we have the first nick of the list.   *)
THEOREM GotNickIsTrue == Spec => []GotTheFirst
  <1>1. IInv => GotTheFirst
    BY DEF IInv
  <1> QED
    BY <1>1, Invariant, PTL
==============================================================================
