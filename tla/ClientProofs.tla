----------------------------- MODULE ClientProofs -----------------------------
(***************************************************************************)
(* What set_away() does to a state, and from it that miau knows what the   *)
(* server shows, for every set of messages and settings and any number of  *)
(* clients; that reading miaurc is one of the changes of settings of which *)
(* this speaks, for all files; and who owns the descriptors that clients   *)
(* have bounced.                                                           *)
(***************************************************************************)
EXTENDS Config, DccBounce, FiniteSetTheorems, SequenceTheorems,
        WellFoundedInduction, TLAPS

(* set_away(), however often it runs, keeps CUSTOM, keeps a hand-set       *)
(* message, and either does nothing or marks the user away; with a         *)
(* hand-set message it is that one that it shows.                          *)
Advances(s, t) ==
    /\ t \in State
    /\ t.custom = s.custom
    /\ s.custom => t.awaymsg = s.awaymsg
    /\ \/ t = s
       \/ /\ t.away
          /\ t.shown # None
          /\ s.custom /\ s.awaymsg # None => t.shown = s.awaymsg

(* Before RPL_WELCOME only an AWAY of a client can be shown.               *)
Early ==
    /\ link \in {"none", "registering"} => shown = None
    /\ ~registered /\ shown # None => custom

(* A hand-set message that miau has is the one that was set last.          *)
Noted == custom /\ awaymsg # None => awaymsg = wish

IInv == TypeOK /\ Early /\ Noted /\ Truth /\ OwnWords
------------------------------------------------------------------------------
(* Marking sets the two fields, and the message may be noted besides.      *)
LEMMA MarkedIs ==
    ASSUME NEW s \in State, NEW m \in Text \cup {Null}
    PROVE /\ Marked(s, m) \in State
          /\ Marked(s, m).away
          /\ Marked(s, m).custom = s.custom
          /\ Marked(s, m).awaymsg = s.awaymsg
          /\ Marked(s, m).shown = m
  BY DEF Marked, State

LEMMA NotedIs ==
    ASSUME NEW s \in State, NEW m \in Text
    PROVE /\ [s EXCEPT !.awaymsg = m] \in State
          /\ [s EXCEPT !.awaymsg = m].away = s.away
          /\ [s EXCEPT !.awaymsg = m].custom = s.custom
          /\ [s EXCEPT !.awaymsg = m].shown = s.shown
  BY DEF State

LEMMA SetAwayAdvances ==
    ASSUME NEW s \in State, NEW n \in Nat, NEW m \in Text \cup {None},
           cfg \in Configs
    PROVE Advances(s, SetAway(s, n, m))
<1>1. cfg.awaymsg \in Text \cup {None}
  BY AwayAssumption
<1>2. s.awaymsg \in Text \cup {None}
  BY DEF State
<1>3. Advances(s, s)
  BY DEF Advances
<1>4. CASE m = None /\ cfg.awaymsg = None
  BY <1>3, <1>4 DEF SetAway
<1>5. CASE ~(m = None /\ cfg.awaymsg = None) /\ s.custom
  <2>1. CASE s.away
    BY <1>3, <1>5, <2>1 DEF SetAway
  <2>2. CASE ~s.away
    <3> DEFINE text == IF s.awaymsg = None THEN Null ELSE s.awaymsg
    <3>1. text \in Text \cup {Null}
      BY <1>2
    <3>2. text # None
      BY <1>2, AwayAssumption
    <3>3. SetAway(s, n, m) = Marked(s, text)
      BY <1>5, <2>2 DEF SetAway
    <3>4. s.awaymsg # None => text = s.awaymsg
      OBVIOUS
    <3> HIDE DEF text
    <3> QED
      BY <3>1, <3>2, <3>3, <3>4, MarkedIs DEF Advances
  <2> QED
    BY <2>1, <2>2
<1>6. CASE ~s.custom /\ m # None
  <2>1. m \in Text
    BY <1>6
  <2>2. m # None
    BY <1>6
  <2>3. SetAway(s, n, m) = [Marked(s, m) EXCEPT !.awaymsg = m]
    BY <1>6 DEF SetAway
  <2> DEFINE t == Marked(s, m)
  <2>4. t \in State /\ t.away /\ t.custom = s.custom /\ t.shown = m
    BY <2>1, MarkedIs
  <2> HIDE DEF t
  <2>5. SetAway(s, n, m) = [t EXCEPT !.awaymsg = m]
    BY <2>3 DEF t
  <2> QED
    BY <1>6, <2>1, <2>2, <2>4, <2>5, NotedIs DEF Advances
<1>7. CASE ~s.custom /\ m = None /\ cfg.awaymsg # None
  <2>1. CASE n > 0 \/ s.away
    BY <1>3, <1>7, <2>1 DEF SetAway
  <2>2. CASE ~(n > 0 \/ s.away)
    <3> DEFINE text == IF s.awaymsg # None THEN s.awaymsg ELSE cfg.awaymsg
    <3>1. text \in Text
      BY <1>1, <1>2, <1>7
    <3>2. text # None
      BY <1>7
    <3>3. SetAway(s, n, m) = Marked(s, text)
      BY <1>7, <2>2 DEF SetAway
    <3> HIDE DEF text
    <3> QED
      BY <1>7, <3>1, <3>2, <3>3, MarkedIs DEF Advances
  <2> QED
    BY <2>1, <2>2
<1> QED
  BY <1>4, <1>5, <1>6, <1>7

(* What advances twice advances.                                           *)
LEMMA AdvancesTwice ==
    ASSUME NEW s, NEW t, NEW u, Advances(s, t), Advances(t, u)
    PROVE Advances(s, u)
  BY DEF Advances

LEMMA ClientsLeftAdvances ==
    ASSUME NEW s \in State, NEW reason \in Text \cup {None}, cfg \in Configs
    PROVE Advances(s, ClientsLeft(s, reason))
<1> DEFINE text == IF reason # None /\ cfg.usequitmsg THEN reason ELSE cfg.awaymsg
<1>1. text \in Text \cup {None}
  BY AwayAssumption
<1>2. CASE cfg.autoaway = "never"
  BY <1>2 DEF ClientsLeft, Advances
<1>3. CASE cfg.autoaway # "never"
  <2>1. ClientsLeft(s, reason) = SetAway(s, 0, text)
    BY <1>3 DEF ClientsLeft
  <2> HIDE DEF text
  <2> QED
    BY <1>1, <2>1, SetAwayAdvances
<1> QED
  BY <1>2, <1>3

LEMMA DetachedAdvances ==
    ASSUME NEW s \in State, NEW n \in Nat, NEW reason \in Text \cup {None},
           cfg \in Configs
    PROVE Advances(s, Detached(s, n, reason))
<1> DEFINE text == IF reason # None /\ cfg.usequitmsg THEN reason ELSE cfg.awaymsg
<1>1. text \in Text \cup {None}
  BY AwayAssumption
<1>2. CASE n = 0
  BY <1>2, ClientsLeftAdvances DEF Detached
<1>3. CASE n # 0 /\ cfg.autoaway # "detach"
  BY <1>3 DEF Detached, Advances
<1>4. CASE n # 0 /\ cfg.autoaway = "detach"
  <2>1. Detached(s, n, reason) = SetAway(s, n, text)
    BY <1>4 DEF Detached
  <2> HIDE DEF text
  <2> QED
    BY <1>1, <2>1, SetAwayAdvances
<1> QED
  BY <1>2, <1>3, <1>4
------------------------------------------------------------------------------
LEMMA InitHolds == Init => IInv
<1> SUFFICES ASSUME Init PROVE IInv
  OBVIOUS
<1>1. Current \in State
  BY DEF Init, Current, State
<1>2. clients \in 0 .. MaxClients
  BY AwayAssumption DEF Init
<1> QED
  BY <1>1, <1>2 DEF Init, IInv, TypeOK, Early, Noted, Truth, OwnWords, registered

(* A registered miau that advances from a state in which AWAY is true of   *)
(* the server, or unset with nothing shown but a hand-set message.         *)
LEMMA AdvanceKeeps ==
    ASSUME IInv, NEW s \in State, Advances(s, [away |-> away', custom |-> custom',
                                 awaymsg |-> awaymsg', shown |-> shown']),
           s.custom = custom, s.awaymsg = awaymsg, s.shown = shown,
           s.away => away /\ registered,
           ~custom /\ shown # None => s.away,
           UNCHANGED wish, registered'
    PROVE /\ Current' \in State
          /\ Early' /\ Noted' /\ Truth' /\ OwnWords'
<1> DEFINE t == [away |-> away', custom |-> custom', awaymsg |-> awaymsg',
                 shown |-> shown']
<1>1. t.away = away' /\ t.custom = custom' /\ t.awaymsg = awaymsg' /\ t.shown = shown'
  OBVIOUS
<1>2. Current' = t
  BY DEF Current
<1>3. Advances(s, t)
  OBVIOUS
<1> HIDE DEF t
<1>4. t \in State /\ custom' = custom /\ (custom => awaymsg' = awaymsg)
  BY <1>1, <1>3 DEF Advances
<1>5. \/ away' = s.away /\ shown' = shown
      \/ away' /\ shown' # None /\ (custom /\ awaymsg # None => shown' = awaymsg)
  BY <1>1, <1>3 DEF Advances
<1>6. Early' /\ Noted'
  BY <1>4 DEF IInv, Early, Noted, registered
<1>7. Truth'
  BY <1>4, <1>5 DEF IInv, Truth
<1>8. OwnWords'
  BY <1>4, <1>5 DEF IInv, OwnWords, Noted
<1> QED
  BY <1>2, <1>4, <1>6, <1>7, <1>8

(* The same for the two actions in which clients leave a registered miau.  *)
LEMMA LeavingKeeps ==
    ASSUME IInv, registered, registered', UNCHANGED wish,
           NEW t, Advances(Current, t), Becomes(t)
    PROVE Current' \in State /\ Early' /\ Noted' /\ Truth' /\ OwnWords'
<1> DEFINE u == [away |-> away', custom |-> custom', awaymsg |-> awaymsg',
                 shown |-> shown']
<1>1. Current \in State
  BY DEF IInv, TypeOK
<1>2. t = u
  BY DEF Advances, Becomes, State
<1>3. /\ Current.custom = custom /\ Current.awaymsg = awaymsg
      /\ Current.shown = shown /\ Current.away = away
  BY DEF Current
<1>4. ~custom /\ shown # None => away
  BY DEF IInv, Truth
<1>5. Advances(Current, u)
  BY <1>2
<1> QED
  BY <1>1, <1>3, <1>4, <1>5, AdvanceKeeps

LEMMA NextKeeps == IInv /\ [Next]_vars => IInv'
<1> SUFFICES ASSUME IInv, [Next]_vars PROVE IInv'
  OBVIOUS
<1>1. TypeOK /\ cfg \in Configs /\ Current \in State /\ MaxClients \in Nat
  BY AwayAssumption DEF IInv, TypeOK
<1>2. /\ away \in BOOLEAN /\ custom \in BOOLEAN /\ awaymsg \in Text \cup {None}
      /\ shown \in Text \cup {None, Null}
  BY <1>1 DEF Current, State
<1>3. CASE Connect \/ Accepted
  <2>1. UNCHANGED Current
    BY <1>3 DEF Connect, Accepted, Current, awayVars
  <2>2. TypeOK'
    BY <1>1, <1>3, <2>1 DEF TypeOK, Connect, Accepted
  <2> QED
    BY <1>3, <2>2 DEF IInv, Early, Noted, Truth, OwnWords, Connect, Accepted,
                      awayVars, registered
<1>4. ASSUME NEW disconn \in BOOLEAN, Welcome(disconn)
      PROVE IInv'
  <2> DEFINE s == [Current EXCEPT !.away = FALSE]
             t == SetAway(s, clients, None)
             u == IF disconn THEN ClientsLeft(t, None) ELSE t
  <2>1. /\ s \in State /\ ~s.away /\ s.custom = custom
        /\ s.awaymsg = awaymsg /\ s.shown = shown
    BY <1>1 DEF State, Current
  <2>2. clients \in Nat /\ clients' \in 0 .. MaxClients
    BY <1>1, <1>4 DEF TypeOK, Welcome
  <2>3. Becomes(u) /\ registered' /\ ~registered
    BY <1>4 DEF Welcome, registered
  <2> HIDE DEF s
  <2>4. Advances(s, t)
    BY <1>1, <2>1, <2>2, SetAwayAdvances
  <2>5. t \in State
    BY <2>4 DEF Advances
  <2> HIDE DEF t
  <2>6. Advances(t, t)
    BY <2>5 DEF Advances
  <2>7. Advances(t, u)
    BY <1>1, <2>5, <2>6, ClientsLeftAdvances
  <2> HIDE DEF u
  <2>8. Advances(s, u)
    BY <2>4, <2>7, AdvancesTwice
  <2>9. u = [away |-> away', custom |-> custom', awaymsg |-> awaymsg',
             shown |-> shown']
    BY <2>3, <2>8 DEF Advances, Becomes, State
  <2>10. ~(~custom /\ shown # None)
    BY <2>3 DEF IInv, Early
  <2>11. UNCHANGED wish
    BY <1>4 DEF Welcome
  <2>12. Current' \in State /\ Early' /\ Noted' /\ Truth' /\ OwnWords'
    BY <2>1, <2>3, <2>8, <2>9, <2>10, <2>11, AdvanceKeeps
  <2>13. TypeOK'
    BY <1>1, <1>4, <2>2, <2>12 DEF TypeOK, Welcome
  <2> QED
    BY <2>12, <2>13 DEF IInv
<1>5. CASE ServerInfo
  <2>1. Advances(Current, ClientsLeft(Current, None))
    BY <1>1, ClientsLeftAdvances
  <2>2. Current' \in State /\ Early' /\ Noted' /\ Truth' /\ OwnWords'
    BY <1>5, <2>1, LeavingKeeps DEF ServerInfo, registered
  <2>3. TypeOK'
    BY <1>1, <1>5, <2>2 DEF TypeOK, ServerInfo
  <2> QED
    BY <2>2, <2>3 DEF IInv
<1>6. CASE ServerDrop
  <2>1. Current' \in State
    BY <1>2, <1>6 DEF ServerDrop, Current, State
  <2>2. TypeOK'
    BY <1>1, <1>6, <2>1 DEF TypeOK, ServerDrop
  <2> QED
    BY <1>6, <2>2 DEF IInv, Early, Noted, Truth, OwnWords, ServerDrop, registered
<1>7. CASE Attach
  <2>1. clients' \in 0 .. MaxClients
    BY <1>1, <1>7 DEF TypeOK, Attach
  <2>2. CASE registered /\ ~custom /\ away
    <3>1. ~away' /\ ~custom' /\ awaymsg' = awaymsg /\ shown' = None
      BY <1>7, <2>2 DEF Attach, Becomes, Unmarked, Current
    <3>2. Current' \in State
      BY <1>2, <1>7, <3>1, <2>2 DEF Current, State, Attach, Becomes, Unmarked
    <3>3. TypeOK'
      BY <1>1, <1>7, <2>1, <3>2 DEF TypeOK, Attach
    <3> QED
      BY <1>7, <3>1, <3>3 DEF IInv, Early, Noted, Truth, OwnWords, Attach, registered
  <2>3. CASE ~(registered /\ ~custom /\ away)
    <3>1. UNCHANGED awayVars
      BY <1>7, <2>3 DEF Attach, Becomes, Current, awayVars
    <3>2. Current' = Current
      BY <3>1 DEF Current, awayVars
    <3>3. TypeOK'
      BY <1>1, <1>7, <2>1, <3>2 DEF TypeOK, Attach
    <3> QED
      BY <1>7, <3>1, <3>3 DEF IInv, Early, Noted, Truth, OwnWords, Attach,
                              registered, awayVars
  <2> QED
    BY <2>2, <2>3
<1>8. ASSUME NEW reason \in Text \cup {None}, Detach(reason)
      PROVE IInv'
  <2>1. clients' \in 0 .. MaxClients /\ clients - 1 \in Nat
    BY <1>1, <1>8 DEF TypeOK, Detach
  <2>2. CASE registered
    <3>1. Advances(Current, Detached(Current, clients - 1, reason))
      BY <1>1, <2>1, DetachedAdvances
    <3>2. Current' \in State /\ Early' /\ Noted' /\ Truth' /\ OwnWords'
      BY <1>8, <2>2, <3>1, LeavingKeeps DEF Detach, registered
    <3>3. TypeOK'
      BY <1>1, <1>8, <2>1, <3>2 DEF TypeOK, Detach
    <3> QED
      BY <3>2, <3>3 DEF IInv
  <2>3. CASE ~registered
    <3>1. UNCHANGED awayVars
      BY <1>8, <2>3 DEF Detach, Becomes, Current, awayVars
    <3>2. Current' = Current
      BY <3>1 DEF Current, awayVars
    <3>3. TypeOK'
      BY <1>1, <1>8, <2>1, <3>2 DEF TypeOK, Detach
    <3> QED
      BY <1>8, <3>1, <3>3 DEF IInv, Early, Noted, Truth, OwnWords, Detach,
                              registered, awayVars
  <2> QED
    BY <2>2, <2>3
<1>9. ASSUME NEW m \in Text \cup {None}, ClientAway(m)
      PROVE IInv'
  <2>1. Current' \in State
    BY <1>2, <1>9 DEF ClientAway, Current, State
  <2>2. TypeOK'
    BY <1>1, <1>9, <2>1 DEF TypeOK, ClientAway, registered
  <2> QED
    BY <1>1, <1>9, <2>2 DEF IInv, Early, Noted, Truth, OwnWords, ClientAway,
                            registered, TypeOK
<1>10. ASSUME NEW new \in Configs, NEW drop \in BOOLEAN, Rehash(new, drop)
       PROVE IInv'
  <2>1. Current' \in State
    BY <1>2, <1>10 DEF Rehash, Current, State
  <2>2. TypeOK'
    BY <1>1, <1>10, <2>1 DEF TypeOK, Rehash
  <2> QED
    BY <1>10, <2>2 DEF IInv, Early, Noted, Truth, OwnWords, Rehash,
                       registered
<1>11. CASE UNCHANGED vars
  <2>1. Current' = Current
    BY <1>11 DEF vars, awayVars, Current
  <2> QED
    BY <1>1, <1>11, <2>1 DEF IInv, TypeOK, Early, Noted, Truth, OwnWords, vars,
                             awayVars, registered
<1> QED
  BY <1>3, <1>4, <1>5, <1>6, <1>7, <1>8, <1>9, <1>10, <1>11 DEF Next

LEMMA Inductive == Spec => []IInv
  BY InitHolds, NextKeeps, PTL DEF Spec
------------------------------------------------------------------------------
(* status.awaystate, status.awaymsg and the client count stay in range.    *)
THEOREM TypeCorrect == Spec => []TypeOK
<1>1. IInv => TypeOK
  BY DEF IInv
<1> QED
  BY <1>1, Inductive, PTL

(* A registered miau notes AWAY only if the server shows the user away,    *)
(* and does so whenever the message was not set by hand.                   *)
THEOREM TruthHolds == Spec => []Truth
<1>1. IInv => Truth
  BY DEF IInv
<1> QED
  BY <1>1, Inductive, PTL

(* set_away() never replaces the message that a user has set by hand.      *)
THEOREM OwnWordsHold == Spec => []OwnWords
<1>1. IInv => OwnWords
  BY DEF IInv
<1> QED
  BY <1>1, Inductive, PTL

(* With a client attached and no message set by hand, set_away() without a *)
(* message leaves things as they are.                                      *)
LEMMA NoMarkWhileAttended ==
    ASSUME NEW s, ~s.custom, clients > 0
    PROVE SetAway(s, clients, None) = s
  BY DEF SetAway

(* Only a client that detaches with autoaway set to detach marks a user    *)
(* away who has another client attached.                                   *)
LEMMA StepsAttended ==
    IInv /\ [Next]_vars => (~Unattended /\ Unattended' => cfg.autoaway = "detach")
<1> SUFFICES ASSUME IInv, Next, ~Unattended, Unattended',
                    cfg.autoaway # "detach"
             PROVE FALSE
  BY DEF vars, awayVars, Unattended, registered
<1> USE DEF Unattended, registered
<1>1. /\ link = "accepted" /\ shown # None => custom
      /\ link = "registered" /\ ~custom /\ shown # None => away
  BY DEF IInv, Early, Truth
<1>2. ~(Connect \/ Accepted \/ ServerDrop)
  BY DEF Connect, Accepted, ServerDrop
<1>3. ASSUME NEW disconn \in BOOLEAN, Welcome(disconn)
      PROVE FALSE
  <2> DEFINE s == [Current EXCEPT !.away = FALSE]
  <2>1. s.custom = custom /\ s.shown = shown /\ s \in State
    BY DEF Current, IInv, TypeOK, State
  <2> HIDE DEF s
  <2>2. ~disconn /\ Becomes(SetAway(s, clients, None)) /\ clients' = clients
    BY <1>3 DEF Welcome, s
  <2>3. clients \in Nat /\ cfg \in Configs
    BY AwayAssumption DEF IInv, TypeOK
  <2>4. SetAway(s, clients, None).custom = s.custom
    BY <2>1, <2>3, SetAwayAdvances DEF Advances
  <2>5. ~s.custom
    BY <2>1, <2>2, <2>4 DEF Becomes
  <2>6. SetAway(s, clients, None) = s
    BY <2>2, <2>5, NoMarkWhileAttended
  <2> QED
    BY <1>1, <1>3, <2>1, <2>2, <2>5, <2>6 DEF Becomes, Welcome
<1>4. ~ServerInfo
  BY DEF ServerInfo
<1>5. CASE Attach
  <2>1. clients \in Nat
    BY AwayAssumption DEF IInv, TypeOK
  <2> QED
    BY <1>1, <1>5 DEF Attach, Becomes, Unmarked, Current
<1>6. ASSUME NEW reason \in Text \cup {None}, Detach(reason)
      PROVE FALSE
  <2>1. clients > 0 /\ clients' = clients - 1 /\ registered
    BY <1>6 DEF Detach
  <2>2. clients - 1 # 0
    BY <2>1
  <2>3. Detached(Current, clients - 1, reason) = Current
    BY <2>2 DEF Detached
  <2>4. UNCHANGED awayVars
    BY <1>6, <2>1, <2>3 DEF Detach, Becomes, Current, awayVars
  <2> QED
    BY <1>6, <2>1, <2>4 DEF Detach, awayVars
<1>7. ASSUME NEW m \in Text \cup {None}, ClientAway(m)
      PROVE FALSE
  BY <1>7 DEF ClientAway
<1>8. ASSUME NEW new \in Configs, NEW drop \in BOOLEAN, Rehash(new, drop)
      PROVE FALSE
  BY <1>8 DEF Rehash
<1> QED
  BY <1>2, <1>3, <1>4, <1>5, <1>6, <1>7, <1>8 DEF Next

(* miau marks a user with an attached client away of its own accord only   *)
(* where autoaway is detach.                                               *)
THEOREM AttendedHolds == Spec => AttendedIsHere
<1>1. IInv /\ [Next]_vars
        => [~Unattended /\ Unattended' => cfg.autoaway = "detach"]_vars
  BY StepsAttended
<1> QED
  BY <1>1, Inductive, PTL DEF Spec, AttendedIsHere
------------------------------------------------------------------------------
(* What is assigned is the value of one of the lines, or what there was.   *)
LEMMA AssignedIs ==
    ASSUME NEW f, NEW lines, NEW S, NEW before \in S,
           \A i \in lines : f[i].value \in S
    PROVE Assigned(f, lines, before) \in S
<1>1. CASE \E i \in LastOf(lines) : TRUE
  <2>1. (CHOOSE i \in LastOf(lines) : TRUE) \in lines
    BY <1>1 DEF LastOf
  <2> QED
    BY <1>1, <2>1 DEF Assigned
<1>2. CASE ~\E i \in LastOf(lines) : TRUE
  BY <1>2 DEF Assigned
<1> QED
  BY <1>1, <1>2

(* free_resources() and the assign functions of parser.c leave values that *)
(* the settings may have, whatever the file and the list that the parser   *)
(* begins in.                                                              *)
LEMMA ReadIs ==
    ASSUME NEW f \in Files, NEW from, NEW before \in Configs
    PROVE Read(f, from, before) \in Configs
<1>1. \A i \in DOMAIN f : IsLine(f[i])
  BY ConfigAssumption
<1>2. /\ before.autoaway \in {"never", "detach", "noclients"}
      /\ before.usequitmsg \in BOOLEAN
  BY ConfigAssumption
<1>3. Assigned(f, Settings(f, from, "awaymsg"), None) \in Text \cup {None}
  <2>1. \A i \in Settings(f, from, "awaymsg") : f[i].value \in Text \cup {None}
    BY <1>1 DEF Settings, IsLine
  <2> QED
    BY <2>1, AssignedIs
<1>4. Assigned(f, Settings(f, from, "autoaway"), before.autoaway)
        \in {"never", "detach", "noclients"}
  <2>1. \A i \in Settings(f, from, "autoaway") :
            f[i].value \in {"never", "detach", "noclients"}
    BY <1>1 DEF Settings, IsLine
  <2> QED
    BY <1>2, <2>1, AssignedIs
<1>5. Assigned(f, Settings(f, from, "usequitmsg"), before.usequitmsg) \in BOOLEAN
  <2>1. \A i \in Settings(f, from, "usequitmsg") : f[i].value \in BOOLEAN
    BY <1>1 DEF Settings, IsLine
  <2> QED
    BY <1>2, <2>1, AssignedIs
<1> QED
  BY <1>3, <1>4, <1>5, ConfigAssumption DEF Read

Proper == cfg \in Configs

LEMMA ConfigSteps == Proper /\ [ConfigNext]_configVars => [Next]_vars /\ Proper'
<1> SUFFICES ASSUME Proper, [ConfigNext]_configVars
             PROVE [Next]_vars /\ cfg' \in Configs
  BY DEF Proper
<1> USE DEF Proper
<1>1. CASE AwayStep
  <2>1. Next
    BY <1>1 DEF AwayStep, Next
  <2>2. UNCHANGED cfg
    BY <1>1 DEF AwayStep, Connect, Accepted, Welcome, ServerInfo, ServerDrop, Detach,
                ClientAway
  <2> QED
    BY <2>1, <2>2
<1>2. CASE Enters
  BY <1>2 DEF Enters, Next, Attach
<1>3. ASSUME NEW f \in Files, NEW drop \in BOOLEAN, Reload(f, drop)
      PROVE Next /\ cfg' \in Configs
  <2>1. Read(f, listid, cfg) \in Configs
    BY ReadIs
  <2>2. Rehash(Read(f, listid, cfg), drop)
    BY <1>3 DEF Reload
  <2>3. \E new \in Configs, d \in BOOLEAN : Rehash(new, d)
    BY <2>1, <2>2
  <2>4. cfg' = Read(f, listid, cfg)
    BY <2>2 DEF Rehash
  <2> QED
    BY <2>1, <2>3, <2>4 DEF Next
<1>4. CASE OtherFailure
  BY <1>4 DEF OtherFailure, vars, awayVars
<1>5. CASE UNCHANGED configVars
  BY <1>5 DEF configVars, vars
<1> QED
  BY <1>1, <1>2, <1>3, <1>4, <1>5 DEF ConfigNext

(* Reading a miaurc, whatever it holds and wherever an earlier one has     *)
(* left the parser, is for the away state a change of settings as in Away: *)
(* the two modules composed do nothing that Away does not.                 *)
THEOREM ConfigImplementsAway == ConfigSpec => Spec
<1>1. ConfigInit => Init /\ Proper
  BY DEF ConfigInit, Init, Proper
<1> QED
  BY <1>1, ConfigSteps, PTL DEF ConfigSpec, Spec

(* So miau knows what the server shows with any file.                      *)
THEOREM TruthWithAnyFile == ConfigSpec => []Truth
  BY ConfigImplementsAway, TruthHolds, PTL

(* And no file makes it replace a message that was set by hand.            *)
THEOREM OwnWordsWithAnyFile == ConfigSpec => []OwnWords
  BY ConfigImplementsAway, OwnWordsHold, PTL

(* The file decides autoaway only when it is read.                         *)
THEOREM AttendedWithAnyFile == ConfigSpec => AttendedIsHere
  BY ConfigImplementsAway, AttendedHolds, PTL
------------------------------------------------------------------------------
LEMMA Least ==
    ASSUME NEW T \in SUBSET Nat, T # {}
    PROVE \E x \in T : \A y \in T : x <= y
<1> DEFINE R == OpToRel(<, Nat)
<1>1. IsWellFoundedOn(R, Nat)
  BY NatLessThanWellFounded
<1>2. \A x, y \in Nat : x < y => <<x, y>> \in R
  BY DEF OpToRel
<1> HIDE DEF R
<1>3. PICK x \in T : \A y \in T : ~ (<<y, x>> \in R)
  BY <1>1, WFMin
<1>4. \A y \in T : ~ (y < x)
  BY <1>2, <1>3, Zenon
<1>5. \A y \in T : x <= y
  BY <1>4
<1> QED
  BY <1>5

LEMMA Greatest ==
    ASSUME NEW n \in Nat, NEW T \in SUBSET (1 .. n), T # {}
    PROVE \E x \in T : \A y \in T : y <= x
<1> DEFINE D == {n - x : x \in T}
<1>1. D \in SUBSET Nat /\ D # {}
  <2>1. \A x \in T : n - x \in Nat
    OBVIOUS
  <2> QED
    BY <2>1
<1>2. PICK d \in D : \A e \in D : d <= e
  BY <1>1, Least
<1>3. PICK x \in T : d = n - x
  BY <1>2
<1>4. ASSUME NEW y \in T PROVE y <= x
  <2>1. n - x <= n - y
    BY <1>2, <1>3
  <2> QED
    BY <2>1
<1> QED
  BY <1>4

(* What a file says.  The lines up to line i have begun and ended lists,   *)
(* and line k is the last of those before line i that do.                  *)
IsTurn(l) == l.kind \in {"open", "close"}
Depth(f, i) == Opened(f, i) - Closed(f, i)
LastTurn(f, i, k) ==
    /\ k \in 1 .. i - 1
    /\ IsTurn(f[k])
    /\ \A j \in k + 1 .. i - 1 : ~IsTurn(f[j])

LEMMA FileFacts ==
    ASSUME NEW f \in Files
    PROVE /\ Len(f) \in Nat
          /\ DOMAIN f = 1 .. Len(f)
          /\ \A i \in DOMAIN f : IsLine(f[i])
  BY ConfigAssumption

(* Counting the lines of a kind, one line further.                         *)
OfKind(f, i, kind) == {j \in 1 .. i : f[j].kind = kind}

LEMMA CountStep ==
    ASSUME NEW f, NEW i \in Nat, NEW kind
    PROVE /\ Cardinality(OfKind(f, i, kind)) \in Nat
          /\ Cardinality(OfKind(f, i + 1, kind)) =
                 IF f[i + 1].kind = kind THEN Cardinality(OfKind(f, i, kind)) + 1
                 ELSE Cardinality(OfKind(f, i, kind))
<1> DEFINE before == OfKind(f, i, kind)
           now == OfKind(f, i + 1, kind)
<1>1. IsFiniteSet(before)
  <2>1. before \subseteq 1 .. i
    BY DEF OfKind
  <2>2. IsFiniteSet(1 .. i)
    BY FS_Interval
  <2> HIDE DEF before
  <2> QED
    BY <2>1, <2>2, FS_Subset
<1>2. Cardinality(before) \in Nat
  BY <1>1, FS_CardinalityType
<1>3. CASE f[i + 1].kind = kind
  <2>1. now = before \cup {i + 1}
    BY <1>3 DEF OfKind
  <2>2. i + 1 \notin before
    BY DEF OfKind
  <2> QED
    BY <1>1, <1>2, <1>3, <2>1, <2>2, FS_AddElement
<1>4. CASE f[i + 1].kind # kind
  <2>1. now = before
    BY <1>4 DEF OfKind
  <2> QED
    BY <1>2, <1>4, <2>1
<1> QED
  BY <1>3, <1>4

LEMMA DepthStep ==
    ASSUME NEW f, NEW i \in Nat
    PROVE /\ Opened(f, i) \in Nat /\ Closed(f, i) \in Nat
          /\ Opened(f, i + 1) = IF f[i + 1].kind = "open" THEN Opened(f, i) + 1
                                ELSE Opened(f, i)
          /\ Closed(f, i + 1) = IF f[i + 1].kind = "close" THEN Closed(f, i) + 1
                                ELSE Closed(f, i)
<1>1. /\ Opened(f, i) \in Nat
      /\ Opened(f, i + 1) = IF f[i + 1].kind = "open" THEN Opened(f, i) + 1
                            ELSE Opened(f, i)
  <2>1. \A n : Opened(f, n) = Cardinality(OfKind(f, n, "open"))
    BY DEF Opened, OfKind
  <2> QED
    BY <2>1, CountStep
<1>2. /\ Closed(f, i) \in Nat
      /\ Closed(f, i + 1) = IF f[i + 1].kind = "close" THEN Closed(f, i) + 1
                            ELSE Closed(f, i)
  <2>1. \A n : Closed(f, n) = Cardinality(OfKind(f, n, "close"))
    BY DEF Closed, OfKind
  <2> QED
    BY <2>1, CountStep
<1> QED
  BY <1>1, <1>2

LEMMA NoneYet == \A f : Opened(f, 0) = 0 /\ Closed(f, 0) = 0
<1>1. \A f, kind : {j \in 1 .. 0 : f[j].kind = kind} = {}
  OBVIOUS
<1> QED
  BY <1>1, FS_EmptySet DEF Opened, Closed

LEMMA SameDepth ==
    ASSUME NEW f, NEW k \in Nat, NEW i \in Nat, k <= i,
           \A j \in k + 1 .. i : ~IsTurn(f[j])
    PROVE Opened(f, i) = Opened(f, k) /\ Closed(f, i) = Closed(f, k)
<1>1. \A j \in k + 1 .. i : f[j].kind # "open" /\ f[j].kind # "close"
  BY DEF IsTurn
<1>2. {j \in 1 .. i : f[j].kind = "open"} = {j \in 1 .. k : f[j].kind = "open"}
  BY <1>1
<1>3. {j \in 1 .. i : f[j].kind = "close"} = {j \in 1 .. k : f[j].kind = "close"}
  BY <1>1
<1> QED
  BY <1>2, <1>3 DEF Opened, Closed

LEMMA DepthFacts ==
    ASSUME NEW f \in Files, Good(f), NEW i \in 0 .. Len(f)
    PROVE Opened(f, i) \in Nat /\ Closed(f, i) \in Nat /\ Depth(f, i) \in {0, 1}
<1>1. Opened(f, i) \in Nat /\ Closed(f, i) \in Nat
  BY FileFacts, DepthStep
<1>2. CASE i = 0
  BY <1>1, <1>2, NoneYet DEF Depth
<1>3. CASE i # 0
  BY <1>1, <1>3, FileFacts DEF Good, Depth
<1> QED
  BY <1>1, <1>2, <1>3

LEMMA TurnDepth ==
    ASSUME NEW f \in Files, Good(f), NEW k \in 1 .. Len(f)
    PROVE /\ f[k].kind = "open" => Depth(f, k - 1) = 0 /\ Depth(f, k) = 1
          /\ f[k].kind = "close" => Depth(f, k - 1) = 1 /\ Depth(f, k) = 0
<1>1. k - 1 \in 0 .. Len(f) /\ k \in 0 .. Len(f) /\ k - 1 \in Nat /\ (k - 1) + 1 = k
  BY FileFacts
<1>2. Depth(f, k - 1) \in {0, 1} /\ Depth(f, k) \in {0, 1}
  BY <1>1, DepthFacts
<1>3. /\ Opened(f, k - 1) \in Nat /\ Closed(f, k - 1) \in Nat
      /\ Opened(f, k) = IF f[k].kind = "open" THEN Opened(f, k - 1) + 1
                        ELSE Opened(f, k - 1)
      /\ Closed(f, k) = IF f[k].kind = "close" THEN Closed(f, k - 1) + 1
                        ELSE Closed(f, k - 1)
  BY <1>1, DepthStep
<1> QED
  BY <1>2, <1>3 DEF Depth

(* Before line i there is no turn, or a last one, which decides.           *)
LEMMA TurnsBefore ==
    ASSUME NEW f, NEW i \in Nat \ {0}
    PROVE Turns(f, i) = {} \/ \E k : LastTurn(f, i, k)
<1> SUFFICES ASSUME Turns(f, i) # {} PROVE \E k : LastTurn(f, i, k)
  OBVIOUS
<1>1. Turns(f, i) \in SUBSET (1 .. i - 1) /\ i - 1 \in Nat
  BY DEF Turns
<1>2. PICK k \in Turns(f, i) : \A j \in Turns(f, i) : j <= k
  BY <1>1, Greatest
<1>3. LastTurn(f, i, k)
  BY <1>2 DEF Turns, LastTurn, IsTurn
<1> QED
  BY <1>3

LEMMA TurnDecides ==
    ASSUME NEW f, NEW i \in Nat, NEW k, LastTurn(f, i, k), NEW from
    PROVE ListAt(f, i, from) = IF f[k].kind = "open" THEN f[k].list ELSE "none"
<1>1. k \in Turns(f, i) /\ \A j \in Turns(f, i) : j <= k
  BY DEF LastTurn, Turns, IsTurn
<1>2. LastOf(Turns(f, i)) = {k}
  BY <1>1 DEF LastOf, Turns
<1>3. (CHOOSE j \in LastOf(Turns(f, i)) : TRUE) = k
  BY <1>2
<1>4. \E j \in LastOf(Turns(f, i)) : TRUE
  BY <1>2
<1> QED
  BY <1>3, <1>4, Zenon DEF ListAt

LEMMA TurnInside ==
    ASSUME NEW f \in Files, Good(f), NEW i \in 1 .. Len(f) + 1, NEW k, LastTurn(f, i, k)
    PROVE /\ f[k].kind = "open" => Depth(f, i - 1) = 1
          /\ f[k].kind = "close" => Depth(f, i - 1) = 0
<1>1. /\ k \in 1 .. Len(f) /\ k \in Nat /\ i - 1 \in Nat /\ k <= i - 1
      /\ \A j \in k + 1 .. i - 1 : ~IsTurn(f[j])
  BY FileFacts DEF LastTurn
<1>2. Depth(f, i - 1) = Depth(f, k)
  BY <1>1, SameDepth DEF Depth
<1> QED
  BY <1>1, <1>2, TurnDepth

(* Outside of any list, for a parser that began outside of any.            *)
LEMMA OutsideIs ==
    ASSUME NEW f \in Files, Good(f), NEW i \in 1 .. Len(f) + 1, Depth(f, i - 1) = 0
    PROVE ListAt(f, i, "none") = "none"
<1>0. i \in Nat \ {0}
  BY FileFacts
<1>1. CASE Turns(f, i) = {}
  <2>1. LastOf(Turns(f, i)) = {}
    BY <1>1 DEF LastOf
  <2> QED
    BY <2>1 DEF ListAt
<1>2. CASE \E k : LastTurn(f, i, k)
  <2>1. PICK k : LastTurn(f, i, k)
    BY <1>2
  <2>2. f[k].kind # "open"
    BY <2>1, TurnInside
  <2> QED
    BY <1>0, <2>1, <2>2, TurnDecides
<1> QED
  BY <1>0, <1>1, <1>2, TurnsBefore

(* Inside of one, whatever the parser began in.                            *)
LEMMA InsideIs ==
    ASSUME NEW f \in Files, Good(f), NEW i \in 1 .. Len(f) + 1, Depth(f, i - 1) = 1
    PROVE \E k : LastTurn(f, i, k) /\ f[k].kind = "open"
<1>0. i \in Nat \ {0} /\ i - 1 \in Nat /\ 0 \in Nat
  BY FileFacts
<1>1. Turns(f, i) # {}
  <2>1. SUFFICES ASSUME Turns(f, i) = {} PROVE FALSE
    OBVIOUS
  <2>2. \A j \in 0 + 1 .. i - 1 : ~IsTurn(f[j])
    BY <2>1 DEF Turns, IsTurn
  <2>3. Opened(f, i - 1) = Opened(f, 0) /\ Closed(f, i - 1) = Closed(f, 0)
    BY <1>0, <2>2, SameDepth
  <2> QED
    BY <2>3, NoneYet DEF Depth
<1>2. PICK k : LastTurn(f, i, k)
  BY <1>0, <1>1, TurnsBefore
<1>3. f[k].kind \in {"open", "close"}
  BY <1>2 DEF LastTurn, IsTurn
<1>4. f[k].kind # "close"
  BY <1>2, TurnInside
<1> QED
  BY <1>2, <1>3, <1>4

(* A good file with a list leaves the parser outside of any.               *)
LEMMA GoodEnds ==
    ASSUME NEW f \in Files, Good(f), Opened(f, Len(f)) > 0, NEW from
    PROVE ListAt(f, Len(f) + 1, from) = "none"
<1> DEFINE i == Len(f) + 1
<1>0. i \in 1 .. Len(f) + 1 /\ i \in Nat \ {0} /\ i - 1 = Len(f) /\ Len(f) \in Nat /\ i \in Nat
  BY FileFacts
<1>1. Depth(f, Len(f)) = 0
  <2>1. Opened(f, Len(f)) = Closed(f, Len(f)) /\ Opened(f, Len(f)) \in Nat
    BY <1>0, DepthStep DEF Good
  <2> QED
    BY <2>1 DEF Depth
<1>2. Turns(f, i) # {}
  <2>1. {j \in 1 .. Len(f) : f[j].kind = "open"} # {}
    <3> SUFFICES ASSUME {j \in 1 .. Len(f) : f[j].kind = "open"} = {} PROVE FALSE
      OBVIOUS
    <3>1. Cardinality({j \in 1 .. Len(f) : f[j].kind = "open"}) = 0
      BY FS_EmptySet
    <3> QED
      BY <3>1 DEF Opened
  <2> QED
    BY <1>0, <2>1 DEF Turns
<1> HIDE DEF i
<1>3. PICK k : LastTurn(f, i, k)
  BY <1>0, <1>2, TurnsBefore
<1>4. f[k].kind # "open"
  BY <1>0, <1>1, <1>3, TurnInside
<1>5. ListAt(f, i, from) = "none"
  BY <1>0, <1>3, <1>4, TurnDecides
<1> QED
  BY <1>5 DEF i

(* The setting of a good file is what is assigned, to a parser outside of  *)
(* any list: no line of it is taken for the item of a list.                *)
SetLines(f, name) == {i \in DOMAIN f : f[i].kind = "set" /\ f[i].name = name}

LEMMA SettingsAre ==
    ASSUME NEW f \in Files, Good(f), NEW name
    PROVE Settings(f, "none", name) = SetLines(f, name)
<1>1. ASSUME NEW i \in DOMAIN f, f[i].kind = "set" PROVE ListAt(f, i, "none") = "none"
  <2>1. i \in 1 .. Len(f) /\ i - 1 \in 0 .. Len(f) /\ i \in 1 .. Len(f) + 1
    BY FileFacts
  <2>2. ~(Opened(f, i - 1) > Closed(f, i - 1))
    BY <1>1 DEF Good
  <2>3. Opened(f, i - 1) \in Nat /\ Closed(f, i - 1) \in Nat /\ Depth(f, i - 1) \in {0, 1}
    BY <2>1, DepthFacts
  <2>4. Depth(f, i - 1) = 0
    BY <2>2, <2>3 DEF Depth
  <2> QED
    BY <2>1, <2>4, OutsideIs
<1> QED
  BY <1>1 DEF Settings, SetLines

LEMMA AssignedSays ==
    ASSUME NEW f \in Files, NEW name, NEW before
    PROVE Assigned(f, SetLines(f, name), before) = Says(f, name, before)
<1> DEFINE S == SetLines(f, name)
<1>1. S \in SUBSET (1 .. Len(f)) /\ Len(f) \in Nat
  BY FileFacts DEF SetLines
<1>2. CASE S = {}
  <2>1. LastOf(S) = {}
    BY <1>2 DEF LastOf
  <2>2. Assigned(f, S, before) = before
    BY <2>1 DEF Assigned
  <2> QED
    BY <1>2, <2>2 DEF Says, SetLines
<1>3. CASE S # {}
  <2>1. PICK k \in S : \A j \in S : j <= k
    <3> HIDE DEF S
    <3> QED
      BY <1>1, <1>3, Greatest
  <2>2. \A i \in S : (\A j \in S : j <= i) => i = k
    BY <1>1, <2>1
  <2>3. LastOf(S) = {k}
    BY <2>1, <2>2 DEF LastOf
  <2>4. Assigned(f, S, before) = f[k].value
    <3> HIDE DEF S
    <3>1. (CHOOSE i \in LastOf(S) : TRUE) = k
      BY <2>3
    <3> QED
      BY <2>3, <3>1 DEF Assigned
  <2>5. (CHOOSE i \in S : \A j \in S : j <= i) = k
    <3> HIDE DEF S
    <3> QED
      BY <2>1, <2>2
  <2>6. Says(f, name, before) = f[k].value
    BY <1>3, <2>5 DEF Says, SetLines
  <2> QED
    BY <2>4, <2>6
<1> QED
  BY <1>2, <1>3

LEMMA GoodSettings ==
    ASSUME NEW f \in Files, Good(f), NEW name, NEW before
    PROVE Assigned(f, Settings(f, "none", name), before) = Says(f, name, before)
  BY SettingsAre, AssignedSays

(* The items of a list are the lines between its beginning and its end.    *)
LEMMA NoTurnInside ==
    ASSUME NEW f \in Files, Good(f), NEW o \in 1 .. Len(f), f[o].kind = "open",
           NEW e \in Nat, e <= Len(f) + 1, o < e,
           \A j \in o + 1 .. e - 1 : f[j].kind # "close"
    PROVE \A j \in o + 1 .. e - 1 : ~IsTurn(f[j])
<1> DEFINE T == {j \in o + 1 .. e - 1 : IsTurn(f[j])}
<1>0. Len(f) \in Nat /\ o \in Nat
  BY FileFacts
<1>1. SUFFICES ASSUME T # {} PROVE FALSE
  OBVIOUS
<1>2. PICK q \in T : \A j \in T : q <= j
  <2>1. T \in SUBSET Nat
    BY <1>0
  <2> HIDE DEF T
  <2> QED
    BY <1>1, <2>1, Least
<1>3. q \in o + 1 .. e - 1 /\ f[q].kind = "open"
  BY DEF IsTurn
<1>4. \A j \in o + 1 .. q - 1 : ~IsTurn(f[j])
  BY <1>0, <1>2, <1>3
<1>5. q \in 1 .. Len(f) /\ q - 1 \in Nat /\ o <= q - 1
  BY <1>0, <1>3
<1>6. Depth(f, q - 1) = Depth(f, o)
  BY <1>0, <1>4, <1>5, SameDepth DEF Depth
<1>7. Depth(f, o) = 1 /\ Depth(f, q - 1) = 0
  BY <1>3, <1>5, TurnDepth
<1> QED
  BY <1>6, <1>7

LEMMA ListEnds ==
    ASSUME NEW f \in Files, Good(f), NEW o \in 1 .. Len(f), f[o].kind = "open"
    PROVE \E e \in o + 1 .. Len(f) :
              f[e].kind = "close" /\ \A j \in o + 1 .. e - 1 : f[j].kind # "close"
<1> DEFINE T == {j \in o + 1 .. Len(f) : f[j].kind = "close"}
<1>0. Len(f) \in Nat /\ o \in Nat /\ o <= Len(f)
  BY FileFacts
<1>1. T # {}
  <2>1. SUFFICES ASSUME T = {} PROVE FALSE
    OBVIOUS
  <2>2. \A j \in o + 1 .. (Len(f) + 1) - 1 : f[j].kind # "close"
    BY <1>0, <2>1
  <2>3. \A j \in o + 1 .. Len(f) : ~IsTurn(f[j])
    <3>1. Len(f) + 1 \in Nat /\ Len(f) + 1 <= Len(f) + 1 /\ o < Len(f) + 1
          /\ (Len(f) + 1) - 1 = Len(f)
      BY <1>0
    <3>2. \A j \in o + 1 .. (Len(f) + 1) - 1 : ~IsTurn(f[j])
      BY <2>2, <3>1, NoTurnInside
    <3> QED
      BY <3>1, <3>2
  <2>4. Opened(f, Len(f)) = Opened(f, o) /\ Closed(f, Len(f)) = Closed(f, o)
    BY <1>0, <2>3, SameDepth
  <2>5. Depth(f, o) = 1
    BY TurnDepth
  <2>6. Opened(f, o) = Closed(f, o) /\ Closed(f, o) \in Nat
    BY <1>0, <2>4, DepthStep DEF Good
  <2> QED
    BY <2>5, <2>6 DEF Depth
<1>2. PICK e \in T : \A j \in T : e <= j
  <2>1. T \in SUBSET Nat
    BY <1>0
  <2> HIDE DEF T
  <2> QED
    BY <1>1, <2>1, Least
<1>3. \A j \in o + 1 .. e - 1 : f[j].kind # "close"
  BY <1>0, <1>2
<1> QED
  BY <1>2, <1>3

LEMMA GoodList ==
    ASSUME NEW f \in Files, Good(f), NEW from, NEW list, list # "none"
    PROVE Items(f, from, list) = Holds(f, list)
<1> DEFINE mine == {i \in DOMAIN f : f[i].kind = "item" /\ ListAt(f, i, from) = list}
           nth(k) == CHOOSE i \in mine : Cardinality({j \in mine : j <= i}) = k
           opens == {i \in DOMAIN f : f[i].kind = "open" /\ f[i].list = list}
           first == CHOOSE i \in opens : TRUE
           end == CHOOSE i \in first .. Len(f) :
                      f[i].kind = "close" /\ \A j \in first .. i - 1 : f[j].kind # "close"
<1>0. Len(f) \in Nat /\ DOMAIN f = 1 .. Len(f)
  BY FileFacts
<1>1. Items(f, from, list) = [k \in 1 .. Cardinality(mine) |-> f[nth(k)].value]
  BY DEF Items
<1>2. Holds(f, list) = IF opens = {} THEN << >>
                       ELSE [k \in 1 .. end - first - 1 |-> f[first + k].value]
  BY DEF Holds
\* An item of the list is behind the line that begins it.
<1>3. ASSUME NEW i \in mine
      PROVE \E k \in opens : LastTurn(f, i, k)
  <2>1. i \in 1 .. Len(f) /\ i - 1 \in 0 .. Len(f) /\ i \in 1 .. Len(f) + 1 /\ i \in Nat
    BY <1>0
  <2>2. Opened(f, i - 1) > Closed(f, i - 1)
    BY DEF Good
  <2>3. Opened(f, i - 1) \in Nat /\ Closed(f, i - 1) \in Nat /\ Depth(f, i - 1) \in {0, 1}
    BY <2>1, DepthFacts
  <2>4. Depth(f, i - 1) = 1
    BY <2>2, <2>3 DEF Depth
  <2>5. PICK k : LastTurn(f, i, k) /\ f[k].kind = "open"
    BY <2>1, <2>4, InsideIs
  <2>6. ListAt(f, i, from) = f[k].list
    BY <2>1, <2>5, TurnDecides
  <2>7. k \in opens
    BY <1>0, <2>1, <2>5, <2>6 DEF LastTurn
  <2> QED
    BY <2>5, <2>7
<1>4. CASE opens = {}
  <2>1. mine = {}
    BY <1>3, <1>4
  <2>2. Cardinality(mine) = 0
    BY <2>1, FS_EmptySet
  <2>3. Items(f, from, list) = [k \in 1 .. 0 |-> f[nth(k)].value]
    BY <1>1, <2>2
  <2> HIDE DEF mine, nth
  <2> DEFINE s == [k \in 1 .. 0 |-> f[nth(k)].value]
  <2>4. s \in Seq({}) /\ Len(s) = 0
    <3>1. DOMAIN s = 1 .. 0 /\ \A k \in 1 .. 0 : s[k] \in {}
      OBVIOUS
    <3> QED
      BY <3>1, SeqDef, LenProperties
  <2>5. s = << >>
    <3> HIDE DEF s
    <3> QED
      BY <2>4, EmptySeq
  <2> QED
    BY <1>2, <1>4, <2>3, <2>5
<1>5. CASE opens # {}
  <2>1. PICK o \in opens : TRUE
    BY <1>5
  <2>2. o \in 1 .. Len(f) /\ o \in Nat /\ f[o].kind = "open" /\ f[o].list = list
    BY <1>0
  <2>3. \A i \in opens : i = o
    <3> SUFFICES ASSUME NEW i \in opens, i # o PROVE FALSE
      OBVIOUS
    <3>1. i \in 1 .. Len(f) /\ f[i].kind = "open" /\ f[i].list = list
      BY <1>0
    <3>2. CASE i < o
      <4>1. i \in 1 .. o - 1
        BY <2>2, <3>1, <3>2
      <4> QED
        BY <1>0, <2>2, <3>1, <4>1 DEF Good
    <3>3. CASE o < i
      <4>1. o \in 1 .. i - 1
        BY <2>2, <3>1, <3>3
      <4> QED
        BY <1>0, <2>2, <3>1, <4>1 DEF Good
    <3> QED
      BY <2>2, <3>1, <3>2, <3>3
  <2>4. first = o
    <3> HIDE DEF opens
    <3> QED
      BY <2>1, <2>3
  <2>5. PICK e \in o + 1 .. Len(f) :
            f[e].kind = "close" /\ \A j \in o + 1 .. e - 1 : f[j].kind # "close"
    BY <2>2, ListEnds
  <2>6. end = e
    <3> DEFINE P(i) == f[i].kind = "close" /\ \A j \in o .. i - 1 : f[j].kind # "close"
    <3>1. e \in o .. Len(f) /\ P(e)
      <4>1. \A j \in o .. e - 1 : j = o \/ j \in o + 1 .. e - 1
        BY <1>0, <2>2, <2>5
      <4> QED
        BY <1>0, <2>2, <2>5, <4>1
    <3>2. \A i \in o .. Len(f) : P(i) => i = e
      <4> SUFFICES ASSUME NEW i \in o .. Len(f), P(i), i # e PROVE FALSE
        OBVIOUS
      <4>1. CASE i < e
        <5>1. i \in o .. e - 1
          BY <1>0, <2>2, <4>1
        <5> QED
          BY <3>1, <5>1
      <4>2. CASE e < i
        <5>1. e \in o .. i - 1
          BY <1>0, <2>2, <2>5, <4>2
        <5> QED
          BY <3>1, <5>1
      <4> QED
        BY <1>0, <2>2, <2>5, <4>1, <4>2
    <3>3. end = CHOOSE i \in o .. Len(f) : P(i)
      BY <2>4
    <3> HIDE DEF P, end
    <3> QED
      BY <3>1, <3>2, <3>3
  <2>7. \A j \in o + 1 .. e - 1 : ~IsTurn(f[j])
    <3>1. e \in Nat /\ e <= Len(f) + 1 /\ o < e
      BY <1>0, <2>2, <2>5
    <3> QED
      BY <2>2, <2>5, <3>1, NoTurnInside
  <2>8. ASSUME NEW i \in o + 1 .. e - 1 PROVE i \in mine
    <3>1. i \in 1 .. Len(f) /\ i \in 1 .. Len(f) + 1 /\ i \in Nat /\ i - 1 \in 0 .. Len(f)
      BY <1>0, <2>2, <2>5
    <3>2. LastTurn(f, i, o)
      <4>1. o \in 1 .. i - 1
        BY <2>2, <2>8
      <4>2. \A j \in o + 1 .. i - 1 : j \in o + 1 .. e - 1
        BY <2>2, <2>5, <2>8, <3>1
      <4> QED
        BY <2>2, <2>7, <4>1, <4>2 DEF LastTurn, IsTurn
    <3>3. Depth(f, i - 1) = 1
      BY <2>2, <3>1, <3>2, TurnInside
    <3>4. Opened(f, i - 1) > Closed(f, i - 1)
      BY <3>1, <3>3, DepthFacts DEF Depth
    <3>5. f[i].kind = "item"
      BY <1>0, <2>5, <3>1, <3>4 DEF Good
    <3>6. ListAt(f, i, from) = list
      BY <2>2, <3>1, <3>2, TurnDecides
    <3> QED
      BY <1>0, <3>1, <3>5, <3>6
  <2>9. ASSUME NEW i \in mine PROVE i \in o + 1 .. e - 1
    <3>1. LastTurn(f, i, o)
      BY <1>3, <2>3
    <3>2. i \in 1 .. Len(f) /\ o \in 1 .. i - 1 /\ f[i].kind = "item"
      BY <1>0, <3>1 DEF LastTurn
    <3>3. ~(e < i)
      <4> SUFFICES ASSUME e < i PROVE FALSE
        OBVIOUS
      <4>1. e \in o + 1 .. i - 1
        BY <2>2, <2>5, <3>2
      <4> QED
        BY <2>5, <3>1, <4>1 DEF LastTurn, IsTurn
    <3>4. i # e
      BY <2>5, <3>2
    <3> QED
      BY <2>2, <2>5, <3>2, <3>3, <3>4
  <2>10. mine = o + 1 .. e - 1
    BY <2>8, <2>9
  <2> HIDE DEF mine, end, first, opens
  <2>11. e \in Nat /\ o + 1 \in Int /\ e - 1 \in Int /\ o < e
    BY <1>0, <2>2, <2>5
  <2>12. Cardinality(mine) = e - o - 1
    <3>1. Cardinality(o + 1 .. e - 1) = IF o + 1 > e - 1 THEN 0 ELSE e - 1 - (o + 1) + 1
      BY <2>11, FS_Interval
    <3> QED
      BY <2>2, <2>10, <2>11, <3>1
  <2>13. \A i \in mine : Cardinality({j \in mine : j <= i}) = i - o
    <3> SUFFICES ASSUME NEW i \in o + 1 .. e - 1
                 PROVE Cardinality({j \in mine : j <= i}) = i - o
      BY <2>10
    <3>1. {j \in mine : j <= i} = o + 1 .. i
      BY <2>2, <2>10, <2>11
    <3>2. o \in Int /\ i \in Int /\ o + 1 <= i
      BY <2>2, <2>11
    <3>3. Cardinality(o + 1 .. i) = IF o + 1 > i THEN 0 ELSE i - (o + 1) + 1
      BY <2>11, <3>2, FS_Interval
    <3>4. Cardinality(o + 1 .. i) = i - o
      BY <2>11, <3>2, <3>3
    <3> QED
      BY <3>1, <3>4
  <2>14. ASSUME NEW k \in 1 .. e - o - 1 PROVE nth(k) = o + k
    <3>1. o + k \in mine /\ (o + k) - o = k
      BY <2>2, <2>10, <2>11
    <3>2. Cardinality({j \in mine : j <= o + k}) = k
      BY <2>13, <3>1
    <3>3. \A i \in mine : Cardinality({j \in mine : j <= i}) = k => i = o + k
      <4>1. \A i \in mine : i - o = k => i = o + k
        BY <2>2, <2>10, <2>11
      <4> QED
        BY <2>13, <4>1
    <3> QED
      BY <3>1, <3>2, <3>3
  <2> HIDE DEF nth
  <2>15. [k \in 1 .. e - o - 1 |-> f[nth(k)].value] = [k \in 1 .. e - o - 1 |-> f[o + k].value]
    BY <2>14
  <2> QED
    BY <1>1, <1>2, <1>5, <2>4, <2>6, <2>12, <2>15
<1> QED
  BY <1>4, <1>5

(* An int keeps what fits into it, and whatever it keeps is an int.        *)
LEMMA SmallRest == ASSUME NEW a \in Nat, NEW b \in Nat, a < b PROVE a % b = a
  OBVIOUS

LEMMA RestRange == ASSUME NEW a \in Int, NEW b \in Nat \ {0} PROVE a % b \in 0 .. b - 1
  OBVIOUS

LEMMA IntKeeps ==
    /\ \A n \in 1 .. IntMax : AsInt(n) = n
    /\ \A n \in Int : AsInt(n) \in -IntMax - 1 .. IntMax
<1>1. IntMax \in Nat
  BY ConfigAssumption
<1>2. ASSUME NEW n \in 1 .. IntMax PROVE AsInt(n) = n
  <2> DEFINE a == n + IntMax + 1
             b == 2 * (IntMax + 1)
  <2>1. a \in Nat /\ b \in Nat /\ a < b /\ n \in Int
    BY <1>1
  <2>2. a % b = a
    <3> HIDE DEF a, b
    <3> QED
      BY <2>1, SmallRest
  <2>3. AsInt(n) = (a % b) - IntMax - 1
    BY DEF AsInt
  <2>4. AsInt(n) = a - IntMax - 1
    <3> HIDE DEF a, b
    <3> QED
      BY <2>2, <2>3
  <2> QED
    BY <1>1, <2>1, <2>4
<1>3. ASSUME NEW n \in Int PROVE AsInt(n) \in -IntMax - 1 .. IntMax
  <2> DEFINE a == n + IntMax + 1
             b == 2 * (IntMax + 1)
  <2>1. a \in Int /\ b \in Nat \ {0}
    BY <1>1
  <2>2. a % b \in 0 .. b - 1
    <3> HIDE DEF a, b
    <3> QED
      BY <2>1, RestRange
  <2>3. AsInt(n) = (a % b) - IntMax - 1
    BY DEF AsInt
  <2>4. b - 1 = 2 * IntMax + 1
    BY <1>1
  <2>5. \A r \in 0 .. 2 * IntMax + 1 : r - IntMax - 1 \in -IntMax - 1 .. IntMax
    BY <1>1
  <2> HIDE DEF a, b
  <2> QED
    BY <2>2, <2>3, <2>4, <2>5
<1> QED
  BY <1>2, <1>3

ClientsFit == maxclients \in 1 .. IntMax

LEMMA NumberFits ==
    ASSUME NEW f \in Files, NEW from, NEW r, NEW n \in 1 .. IntMax
    PROVE AssignInt(f, from, r, n) \in 1 .. IntMax
<1> DEFINE taken == {i \in Settings(f, from, "maxclients") : ~Refused(f, from, r, i)}
<1>1. \A i \in taken : f[i].value \in Int
  BY FileFacts DEF Settings, IsLine
<1>2. Assigned(f, taken, n) \in Int
  <2> HIDE DEF taken
  <2>1. n \in Int
    BY ConfigAssumption
  <2> QED
    BY <1>1, <2>1, AssignedIs
<1>3. AsInt(Assigned(f, taken, n)) \in -IntMax - 1 .. IntMax
  BY <1>2, IntKeeps
<1>4. AssignInt(f, from, r, n) = IF AsInt(Assigned(f, taken, n)) < 1 THEN 1
                                 ELSE AsInt(Assigned(f, taken, n))
  BY DEF AssignInt
<1> HIDE DEF taken
<1> QED
  BY <1>3, <1>4, ConfigAssumption

LEMMA GoodNumber ==
    ASSUME NEW f \in Files, Good(f), NEW n \in 1 .. IntMax
    PROVE AssignInt(f, "none", FALSE, n) = Says(f, "maxclients", n)
<1> DEFINE set == SetLines(f, "maxclients")
<1>1. \A i \in set : f[i].value \in 1 .. IntMax
  BY DEF Good, SetLines
<1>2. \A i \in set : ~OutOfRange(f, i)
  <2>1. \A v \in 1 .. IntMax : ~(v > LongMax \/ v < -LongMax - 1)
    BY ConfigAssumption
  <2> QED
    BY <1>1, <2>1 DEF OutOfRange
<1>3. Settings(f, "none", "maxclients") = set
  BY SettingsAre
<1> HIDE DEF set
<1>4. \A i : ~Refused(f, "none", FALSE, i)
  BY <1>2, <1>3 DEF Refused
<1>5. {i \in Settings(f, "none", "maxclients") : ~Refused(f, "none", FALSE, i)} = set
  BY <1>3, <1>4
<1>6. Assigned(f, set, n) \in 1 .. IntMax
  BY <1>1, AssignedIs
<1>7. AsInt(Assigned(f, set, n)) = Assigned(f, set, n)
  BY <1>6, IntKeeps
<1>8. AssignInt(f, "none", FALSE, n) = Assigned(f, set, n)
  <2> DEFINE taken ==
        {i \in Settings(f, "none", "maxclients") : ~Refused(f, "none", FALSE, i)}
  <2>1. AssignInt(f, "none", FALSE, n) = IF AsInt(Assigned(f, taken, n)) < 1 THEN 1
                                         ELSE AsInt(Assigned(f, taken, n))
    BY DEF AssignInt
  <2>2. taken = set
    BY <1>5
  <2> HIDE DEF taken
  <2>3. ~(Assigned(f, set, n) < 1)
    BY <1>6, ConfigAssumption
  <2> QED
    BY <1>7, <2>1, <2>2, <2>3
<1>9. Assigned(f, set, n) = Says(f, "maxclients", n)
  BY AssignedSays DEF set
<1> QED
  BY <1>8, <1>9

LEMMA ConfigFits == ConfigInit => ClientsFit
<1> SUFFICES ASSUME ConfigInit PROVE maxclients \in 1 .. IntMax
  BY DEF ClientsFit
<1>1. PICK f \in Files : maxclients = AssignInt(f, "none", FALSE, DefaultClients)
  BY DEF ConfigInit
<1>2. DefaultClients \in 1 .. IntMax
  BY ConfigAssumption DEF DefaultClients
<1> QED
  BY <1>1, <1>2, NumberFits

LEMMA StepsFit == ClientsFit /\ [ConfigNext]_configVars => ClientsFit'
<1> SUFFICES ASSUME ClientsFit, [ConfigNext]_configVars PROVE maxclients' \in 1 .. IntMax
  BY DEF ClientsFit
<1>1. CASE UNCHANGED maxclients
  BY <1>1 DEF ClientsFit
<1>2. ASSUME NEW f \in Files, NEW drop \in BOOLEAN, Reload(f, drop)
      PROVE maxclients' \in 1 .. IntMax
  <2>1. maxclients' = AssignInt(f, listid, erange, maxclients)
    BY <1>2 DEF Reload, ReadRest
  <2> QED
    BY <2>1, NumberFits DEF ClientsFit
<1> QED
  BY <1>1, <1>2 DEF ConfigNext, AwayStep, Enters, OtherFailure, parserVars, configVars

LEMMA GoodReload ==
    ASSUME ClientsFit, NEW f \in GoodFiles, NEW drop \in BOOLEAN, Reload(f, drop)
    PROVE /\ listid' = "none"
          /\ connhosts' = Holds(f, "connhosts")
          /\ listid = "none" =>
                 /\ cfg'.awaymsg = Says(f, "awaymsg", None)
                 /\ cfg'.autoaway = Says(f, "autoaway", cfg.autoaway)
                 /\ cfg'.usequitmsg = Says(f, "usequitmsg", cfg.usequitmsg)
                 /\ password' = IF Says(f, "password", None) = None
                                THEN password ELSE Says(f, "password", None)
                 /\ ~erange => maxclients' = Says(f, "maxclients", maxclients)
<1>1. f \in Files /\ Good(f) /\ Opened(f, Len(f)) > 0
  BY DEF GoodFiles
<1>2. cfg' = Read(f, listid, cfg)
  BY DEF Reload, Rehash
<1>3. /\ connhosts' = Items(f, listid, "connhosts")
      /\ listid' = ListAt(f, Len(f) + 1, listid)
      /\ maxclients' = AssignInt(f, listid, erange, maxclients)
  BY DEF Reload, ReadRest
<1>4. password' = IF Assigned(f, Settings(f, listid, "password"), None) = None
                  THEN password ELSE Assigned(f, Settings(f, listid, "password"), None)
  BY DEF Reload, ReadRest
<1>5. listid' = "none"
  BY <1>1, <1>3, GoodEnds
<1>6. connhosts' = Holds(f, "connhosts")
  BY <1>1, <1>3, GoodList
<1>7. ASSUME listid = "none"
      PROVE /\ cfg'.awaymsg = Says(f, "awaymsg", None)
            /\ cfg'.autoaway = Says(f, "autoaway", cfg.autoaway)
            /\ cfg'.usequitmsg = Says(f, "usequitmsg", cfg.usequitmsg)
  <2>1. \A name, before : Assigned(f, Settings(f, "none", name), before)
                              = Says(f, name, before)
    BY <1>1, GoodSettings
  <2> QED
    BY <1>2, <1>7, <2>1 DEF Read
<1>8. ASSUME listid = "none"
      PROVE password' = IF Says(f, "password", None) = None
                        THEN password ELSE Says(f, "password", None)
  BY <1>1, <1>4, <1>8, GoodSettings
<1>9. ASSUME listid = "none", ~erange
      PROVE maxclients' = Says(f, "maxclients", maxclients)
  <2>1. maxclients' = AssignInt(f, "none", FALSE, maxclients)
    <3>1. \A i : Refused(f, "none", erange, i) <=> Refused(f, "none", FALSE, i)
      BY <1>9 DEF Refused
    <3> QED
      BY <1>3, <1>9, <3>1 DEF AssignInt
  <2> QED
    BY <1>1, <2>1, GoodNumber DEF ClientsFit
<1> QED
  BY <1>5, <1>6, <1>7, <1>8, <1>9

(* Reading a good miaurc leaves the parser outside of any list and the     *)
(* hosts of the file in force, whatever miau has read before, and gives    *)
(* every setting the value that the file has, unless an earlier file or an *)
(* earlier error has left something behind: parse_cfg() of parser.c, for   *)
(* all files, whatever their length, and any int.                          *)
THEOREM GoodFileHolds == ConfigSpec => GoodFileIsRead
<1>1. ASSUME ClientsFit
      PROVE [\A f \in GoodFiles, drop \in BOOLEAN :
                 Reload(f, drop) =>
                     /\ listid' = "none"
                     /\ connhosts' = Holds(f, "connhosts")
                     /\ listid = "none" =>
                            /\ cfg'.awaymsg = Says(f, "awaymsg", None)
                            /\ cfg'.autoaway = Says(f, "autoaway", cfg.autoaway)
                            /\ cfg'.usequitmsg = Says(f, "usequitmsg", cfg.usequitmsg)
                            /\ password' = IF Says(f, "password", None) = None
                                           THEN password ELSE Says(f, "password", None)
                            /\ ~erange => maxclients' = Says(f, "maxclients", maxclients)
            ]_configVars
  BY <1>1, GoodReload
<1> QED
  BY <1>1, ConfigFits, StepsFit, PTL DEF ConfigSpec, GoodFileIsRead
------------------------------------------------------------------------------
(* The descriptors of DccBounce.                                           *)

Bounces ==
    [src : Fds \cup {0}, dest : Fds \cup {0}, src_wa : BOOLEAN, dest_wa : BOOLEAN,
     connected : BOOLEAN, age : Int]

Sound(b) == b = NULL \/ (b.src # 0 /\ b.src # b.dest)

(* The sockets of all bounces but that at i.                               *)
Rest(i) == UNION {Sockets(dccs[j]) : j \in Index \ {i}}

Kept ==
    /\ dccs \in [Index -> Bounces]
    /\ others \subseteq Fds /\ open \subseteq Fds /\ lost \subseteq Fds
    /\ \A i \in Index : Sound(dccs[i])
    /\ open = others \cup lost \cup UNION {Sockets(dccs[i]) : i \in Index}
    /\ \A i \in Index : Sockets(dccs[i]) \cap (others \cup lost) = {}
    /\ \A i, j \in Index : i # j => Sockets(dccs[i]) \cap Sockets(dccs[j]) = {}
    /\ others \cap lost = {}

LEMMA FreeIsFree == CanOpen => FreeFd \in Fds \ open
<1> SUFFICES ASSUME CanOpen PROVE FreeFd \in Fds \ open
  OBVIOUS
<1>1. Fds \ open \in SUBSET Nat /\ Fds \ open # {}
  BY DccAssumption DEF CanOpen
<1>2. \E x \in Fds \ open : \A y \in Fds \ open : x <= y
  BY <1>1, Least
<1> QED
  BY <1>2 DEF FreeFd, Lowest

LEMMA NullFits == NULL \in Bounces /\ Sound(NULL) /\ Sockets(NULL) = {}
  BY DEF NULL, Bounces, Sound, Sockets

(* The invariant is Owned and more.                                        *)
LEMMA KeptIsOwned == Kept => Owned
<1> SUFFICES ASSUME Kept PROVE Owned
  OBVIOUS
<1>1. \A i \in Index : i \notin Used => Sockets(dccs[i]) = {}
  BY NullFits DEF Used
<1>2. Used \subseteq Index /\ \A i \in Used : dccs[i] # NULL
  BY DEF Used
<1>3. UNION {Sockets(dccs[i]) : i \in Index} = UNION {Sockets(dccs[i]) : i \in Used}
  BY <1>1, <1>2
<1>4. \A i \in Used : dccs[i].src # dccs[i].dest
  BY <1>2 DEF Kept, Sound
<1> QED
  BY <1>2, <1>3, <1>4 DEF Kept, Owned

(* What is open belongs to clients, is lost, or belongs to the bounce at i *)
(* or to the rest.                                                         *)
LEMMA Parts ==
    ASSUME Kept, NEW i \in Index
    PROVE /\ open = others \cup lost \cup Sockets(dccs[i]) \cup Rest(i)
          /\ Sockets(dccs[i]) \cap (others \cup lost) = {}
          /\ Sockets(dccs[i]) \cap Rest(i) = {}
          /\ Rest(i) \cap (others \cup lost) = {}
<1>1. UNION {Sockets(dccs[j]) : j \in Index} = Sockets(dccs[i]) \cup Rest(i)
  BY DEF Rest
<1>2. Sockets(dccs[i]) \cap Rest(i) = {}
  BY DEF Rest, Kept
<1>3. Rest(i) \cap (others \cup lost) = {}
  BY DEF Rest, Kept
<1> QED
  BY <1>1, <1>2, <1>3 DEF Kept

(* A step that changes the bounce at i to b, and gives to clients, to what *)
(* is lost and to b none of the sockets of the rest.                       *)
LEMMA Replaced ==
    ASSUME Kept, NEW i \in Index, NEW b \in Bounces, Sound(b),
           dccs' = [dccs EXCEPT ![i] = b],
           others' \subseteq Fds, lost' \subseteq Fds, open' \subseteq Fds,
           open' = others' \cup lost' \cup Sockets(b) \cup Rest(i),
           Sockets(b) \cap (others' \cup lost') = {},
           Sockets(b) \cap Rest(i) = {},
           Rest(i) \cap (others' \cup lost') = {},
           others' \cap lost' = {}
    PROVE Kept'
<1>1. dccs' \in [Index -> Bounces]
  BY DEF Kept
<1>2. dccs'[i] = b /\ \A j \in Index \ {i} : dccs'[j] = dccs[j]
  BY DEF Kept
<1>3. \A j \in Index : Sound(dccs'[j])
  BY <1>2 DEF Kept
<1>4. UNION {Sockets(dccs'[j]) : j \in Index} = Sockets(b) \cup Rest(i)
  BY <1>2 DEF Rest
<1>5. \A j \in Index \ {i} : Sockets(dccs[j]) \subseteq Rest(i)
  BY DEF Rest
<1>6. \A j \in Index : Sockets(dccs'[j]) \cap (others' \cup lost') = {}
  BY <1>2, <1>5
<1>7. ASSUME NEW j \in Index, NEW k \in Index, j # k
      PROVE Sockets(dccs'[j]) \cap Sockets(dccs'[k]) = {}
  <2>1. CASE j = i
    BY <1>2, <1>5, <1>7, <2>1
  <2>2. CASE k = i
    BY <1>2, <1>5, <1>7, <2>2
  <2>3. CASE j # i /\ k # i
    BY <1>2, <1>7, <2>3 DEF Kept
  <2> QED
    BY <2>1, <2>2, <2>3
<1>8. open' = others' \cup lost' \cup UNION {Sockets(dccs'[j]) : j \in Index}
  BY <1>4
<1>9. \A j, k \in Index : j # k => Sockets(dccs'[j]) \cap Sockets(dccs'[k]) = {}
  BY <1>7
<1> QED
  BY <1>1, <1>3, <1>6, <1>8, <1>9 DEF Kept

LEMMA ZeroIsNone == 0 \notin Fds
  BY DccAssumption

LEMMA AmountIs ==
    /\ Amount \in 0 .. Slots
    /\ \A i \in Used : i <= Amount
<1>1. Slots \in Nat /\ Used \in SUBSET (1 .. Slots)
  BY DccAssumption DEF Used, Index
<1>2. CASE Used = {}
  BY <1>1, <1>2 DEF Amount
<1>3. CASE Used # {}
  <2>1. \E x \in Used : \A y \in Used : y <= x
    BY <1>1, <1>3, Greatest
  <2>2. Amount \in Used /\ \A i \in Used : i <= Amount
    BY <1>3, <2>1 DEF Amount
  <2> QED
    BY <1>1, <2>2
<1> QED
  BY <1>2, <1>3

(* The entry that table_add_item() takes is free.                          *)
LEMMA NewIsFree == NewIndex <= Slots => NewIndex \in Index \ Used
<1> SUFFICES ASSUME NewIndex <= Slots PROVE NewIndex \in Index \ Used
  OBVIOUS
<1> DEFINE holes == 1 .. Amount \ Used
<1>1. Slots \in Nat /\ Amount \in 0 .. Slots /\ Amount \in Nat
  BY DccAssumption, AmountIs
<1>2. CASE holes = {}
  <2>1. NewIndex = Amount + 1
    BY <1>2 DEF NewIndex
  <2>2. NewIndex \notin Used
    BY <1>1, <2>1, AmountIs
  <2> QED
    BY <1>1, <2>1, <2>2 DEF Index
<1>3. CASE holes # {}
  <2>1. holes \in SUBSET (1 .. Amount)
    OBVIOUS
  <2>2. \E x \in holes : \A y \in holes : y <= x
    BY <1>1, <1>3, <2>1, Greatest
  <2>3. NewIndex \in holes
    BY <1>3, <2>2 DEF NewIndex
  <2> QED
    BY <1>1, <2>3 DEF Index
<1> QED
  BY <1>2, <1>3

LEMMA KillKeeps ==
    ASSUME Kept, NEW i \in Index, Kill(i, dccs[i]), UNCHANGED <<others, lost>>
    PROVE Kept'
<1>1. dccs' = [dccs EXCEPT ![i] = NULL] /\ open' = open \ Sockets(dccs[i])
  BY DEF Kill
<1>2. open' = others' \cup lost' \cup Sockets(NULL) \cup Rest(i)
  BY <1>1, Parts, NullFits
<1>3. others' \subseteq Fds /\ lost' \subseteq Fds /\ open' \subseteq Fds /\ others' \cap lost' = {}
  BY <1>1 DEF Kept
<1>4. Rest(i) \cap (others' \cup lost') = {}
  BY Parts
<1> QED
  BY <1>1, <1>2, <1>3, <1>4, NullFits, Replaced

LEMMA SameKeeps ==
    ASSUME Kept, UNCHANGED <<dccs, others, open, lost>>
    PROVE Kept'
  BY DEF Kept, Rest

(* A descriptor that is free goes to clients.                              *)
LEMMA ComesKeeps == ASSUME Kept, ClientComes PROVE Kept'
<1>1. FreeFd \in Fds \ open
  BY FreeIsFree DEF ClientComes
<1>2. others' = others \cup {FreeFd} /\ open' = open \cup {FreeFd}
      /\ UNCHANGED <<dccs, lost>>
  BY DEF ClientComes
<1> HIDE DEF FreeFd
<1>3. \A i \in Index : Sockets(dccs[i]) \subseteq open
  BY DEF Kept
<1>4. \A i \in Index : Sockets(dccs'[i]) \cap (others' \cup lost') = {}
  BY <1>1, <1>2, <1>3 DEF Kept
<1>5. others' \cap lost' = {}
  BY <1>1, <1>2 DEF Kept
<1>6. open' = others' \cup lost' \cup UNION {Sockets(dccs'[i]) : i \in Index}
  BY <1>2 DEF Kept
<1> QED
  BY <1>1, <1>2, <1>4, <1>5, <1>6 DEF Kept

LEMMA GoesKeeps == ASSUME Kept, NEW d \in others, ClientGoes(d) PROVE Kept'
<1>1. others' = others \ {d} /\ open' = open \ {d} /\ UNCHANGED <<dccs, lost>>
  BY DEF ClientGoes
<1>2. d \notin lost /\ \A i \in Index : d \notin Sockets(dccs[i])
  BY DEF Kept
<1>3. open' = others' \cup lost' \cup UNION {Sockets(dccs'[i]) : i \in Index}
  BY <1>1, <1>2 DEF Kept
<1> QED
  BY <1>1, <1>3 DEF Kept

LEMMA OfferKeeps == ASSUME Kept, Offer PROVE Kept'
<1>1. PICK f \in Fds \ open : f = FreeFd
  BY FreeIsFree DEF Offer
<1> DEFINE i == NewIndex
           b == [NULL EXCEPT !.src = f]
<1>2. i \in Index /\ dccs[i] = NULL
  BY NewIsFree DEF Offer, Used
<1>3. dccs' = [dccs EXCEPT ![i] = b] /\ open' = open \cup {f}
      /\ UNCHANGED <<others, lost>>
  BY <1>1 DEF Offer, AddBounce
<1>4. b \in Bounces /\ Sound(b) /\ Sockets(b) = {f}
  <2>1. \A c \in Bounces : [c EXCEPT !.src = f] \in Bounces
    BY DEF Bounces
  <2>2. b \in Bounces
    BY <2>1, NullFits
  <2>3. b.src = f /\ b.dest = 0
    BY DEF NULL
  <2> QED
    BY <2>2, <2>3, ZeroIsNone DEF Sound, Sockets
<1> HIDE DEF i, b
<1>5. open' = others' \cup lost' \cup Sockets(b) \cup Rest(i)
  BY <1>2, <1>3, <1>4, Parts, NullFits
<1>6. Rest(i) \subseteq open /\ others \cup lost \subseteq open
      /\ Rest(i) \cap (others \cup lost) = {}
  BY <1>2, Parts
<1>7. others' \subseteq Fds /\ lost' \subseteq Fds /\ open' \subseteq Fds /\ others' \cap lost' = {}
  BY <1>1, <1>3 DEF Kept
<1> QED
  BY <1>1, <1>2, <1>3, <1>4, <1>5, <1>6, <1>7, Replaced

LEMMA AtIsUsed ==
    ASSUME Kept, At
    PROVE /\ at \in Index /\ dccs[at] \in Bounces /\ dccs[at] # NULL
          /\ dccs[at].src # 0 /\ dccs[at].src # dccs[at].dest
  BY DEF At, Used, Kept, Sound

LEMMA AcceptKeeps == ASSUME Kept, Accept PROVE Kept'
<1> DEFINE b == [dccs[at] EXCEPT !.src = FreeFd, !.connected = TRUE]
<1>1. At /\ FreeFd \in Fds \ open
  BY FreeIsFree DEF Accept
<1>2. dccs' = [dccs EXCEPT ![at] = b] /\ open' = (open \ {dccs[at].src}) \cup {FreeFd}
      /\ UNCHANGED <<others, lost>>
  BY DEF Accept, NextBounce
<1>3. at \in Index /\ dccs[at] \in Bounces /\ dccs[at].src # 0 /\ dccs[at].src # dccs[at].dest
  BY <1>1, AtIsUsed
<1>4. b \in Bounces /\ b.src = FreeFd /\ b.dest = dccs[at].dest
  BY <1>1, <1>3 DEF Bounces
<1> HIDE DEF b
<1>5. Sockets(dccs[at]) = {dccs[at].src} \cup (Sockets(b) \ {FreeFd})
  <2>1. dccs[at].dest # 0 => dccs[at].dest \in open
    BY <1>3, Parts DEF Sockets
  <2>2. dccs[at].dest # FreeFd
    BY <1>1, <2>1, ZeroIsNone
  <2> QED
    BY <1>3, <1>4, <2>2 DEF Sockets
<1>6. FreeFd \in Sockets(b) /\ Sound(b) /\ dccs[at].src \notin Sockets(b)
  <2>1. dccs[at].src \in open
    BY <1>3, Parts DEF Sockets
  <2>2. FreeFd # 0 /\ FreeFd # dccs[at].src
    BY <1>1, <2>1, ZeroIsNone
  <2>3. dccs[at].dest # FreeFd
    BY <1>1, <1>3, Parts, ZeroIsNone DEF Sockets
  <2> QED
    BY <1>3, <1>4, <2>2, <2>3 DEF Sockets, Sound
<1>7. open' = others' \cup lost' \cup Sockets(b) \cup Rest(at)
  BY <1>1, <1>2, <1>3, <1>5, <1>6, Parts
<1>8. Sockets(b) \cap (others' \cup lost') = {} /\ Sockets(b) \cap Rest(at) = {}
      /\ Rest(at) \cap (others' \cup lost') = {}
  BY <1>1, <1>2, <1>3, <1>5, Parts
<1>9. others' \subseteq Fds /\ lost' \subseteq Fds /\ open' \subseteq Fds /\ others' \cap lost' = {}
  BY <1>1, <1>2 DEF Kept
<1> QED
  BY <1>2, <1>3, <1>4, <1>6, <1>7, <1>8, <1>9, Replaced

LEMMA AcceptFailsKeeps == ASSUME Kept, AcceptFails PROVE Kept'
<1> DEFINE b == dccs[at]
<1>1. at \in Index /\ b \in Bounces /\ b.src # 0 /\ b.src # b.dest
  BY AtIsUsed DEF AcceptFails
<1>2. dccs' = [dccs EXCEPT ![at] = NULL] /\ open' = open \ Sockets([b EXCEPT !.src = 0])
      /\ lost' = lost \cup {b.src} /\ UNCHANGED others
  BY DEF AcceptFails, Kill, NextBounce
<1>3. Sockets([b EXCEPT !.src = 0]) = Sockets(b) \ {b.src} /\ b.src \in Sockets(b)
  BY <1>1 DEF Sockets, Bounces
<1> HIDE DEF b
<1>4. open = others \cup lost \cup Sockets(b) \cup Rest(at)
      /\ Sockets(b) \cap (others \cup lost) = {} /\ Sockets(b) \cap Rest(at) = {}
      /\ Rest(at) \cap (others \cup lost) = {}
  BY <1>1, Parts DEF b
<1>5. open' = others' \cup lost' \cup Sockets(NULL) \cup Rest(at)
  BY <1>2, <1>3, <1>4, NullFits
<1>6. others' \subseteq Fds /\ lost' \subseteq Fds /\ open' \subseteq Fds /\ others' \cap lost' = {}
  BY <1>2, <1>3, <1>4 DEF Kept
<1>7. Rest(at) \cap (others' \cup lost') = {}
  BY <1>2, <1>3, <1>4
<1> QED
  BY <1>1, <1>2, <1>5, <1>6, <1>7, NullFits, Replaced

LEMMA DialKeeps == ASSUME Kept, Dial PROVE Kept'
<1>0. PICK f \in Fds \ open : f = FreeFd
  BY FreeIsFree DEF Dial
<1>1. At /\ dccs[at].dest = 0
  BY DEF Dial, Incoming
<1> DEFINE b == [dccs[at] EXCEPT !.dest = f, !.age = 0]
<1>2. dccs' = [dccs EXCEPT ![at] = b] /\ open' = open \cup {f}
      /\ UNCHANGED <<others, lost>>
  BY <1>0 DEF Dial, NextBounce
<1>3. at \in Index /\ dccs[at] \in Bounces /\ dccs[at].src # 0
  BY <1>1, AtIsUsed
<1>4. b \in Bounces /\ b.src = dccs[at].src /\ b.dest = f
  <2>1. \A c \in Bounces : [c EXCEPT !.dest = f] \in Bounces
    BY DEF Bounces
  <2>2. \A c \in Bounces : [c EXCEPT !.age = 0] \in Bounces
    BY DEF Bounces
  <2>3. b = [[dccs[at] EXCEPT !.dest = f] EXCEPT !.age = 0]
    BY <1>3 DEF Bounces
  <2>4. b \in Bounces
    BY <1>3, <2>1, <2>2, <2>3
  <2>5. b.src = dccs[at].src /\ b.dest = f
    BY <1>3 DEF Bounces
  <2> QED
    BY <2>4, <2>5
<1> HIDE DEF b
<1>5. Sockets(dccs[at]) = {dccs[at].src} /\ dccs[at].src \in open
  BY <1>1, <1>3, Parts DEF Sockets
<1>6. Sockets(b) = {dccs[at].src, f} /\ Sound(b)
  BY <1>1, <1>3, <1>4, <1>5, ZeroIsNone DEF Sockets, Sound
<1>7. open' = others' \cup lost' \cup Sockets(b) \cup Rest(at)
  BY <1>2, <1>3, <1>5, <1>6, Parts
<1>8. Sockets(b) \cap (others' \cup lost') = {} /\ Sockets(b) \cap Rest(at) = {}
      /\ Rest(at) \cap (others' \cup lost') = {}
  BY <1>1, <1>2, <1>3, <1>5, <1>6, Parts
<1>9. others' \subseteq Fds /\ lost' \subseteq Fds /\ open' \subseteq Fds /\ others' \cap lost' = {}
  BY <1>1, <1>2 DEF Kept
<1> QED
  BY <1>2, <1>3, <1>4, <1>6, <1>7, <1>8, <1>9, Replaced

LEMMA CopyKeeps == ASSUME Kept, Copy PROVE Kept'
<1>1. at \in Index /\ dccs[at] \in Bounces /\ dccs[at].src # 0 /\ dccs[at].src # dccs[at].dest
  BY AtIsUsed DEF Copy
<1>2. UNCHANGED <<others, open, lost>>
  BY DEF Copy, NextBounce
<1>3. \E s, d \in BOOLEAN : dccs' = [dccs EXCEPT ![at] = [dccs[at] EXCEPT !.src_wa = s, !.dest_wa = d]]
  BY <1>1 DEF Copy, Bounces
<1>4. PICK s \in BOOLEAN, d \in BOOLEAN :
          dccs' = [dccs EXCEPT ![at] = [dccs[at] EXCEPT !.src_wa = s, !.dest_wa = d]]
  BY <1>3
<1> DEFINE b == [dccs[at] EXCEPT !.src_wa = s, !.dest_wa = d]
<1>5. b \in Bounces /\ b.src = dccs[at].src /\ b.dest = dccs[at].dest
  BY <1>1 DEF Bounces
<1> HIDE DEF b
<1>6. Sound(b) /\ Sockets(b) = Sockets(dccs[at])
  BY <1>1, <1>5 DEF Sound, Sockets
<1>7. open = others \cup lost \cup Sockets(b) \cup Rest(at)
      /\ Sockets(b) \cap (others \cup lost) = {} /\ Sockets(b) \cap Rest(at) = {}
      /\ Rest(at) \cap (others \cup lost) = {}
  BY <1>1, <1>6, Parts
<1>8. others' \subseteq Fds /\ lost' \subseteq Fds /\ open' \subseteq Fds /\ others' \cap lost' = {}
  BY <1>2 DEF Kept
<1>9. dccs' = [dccs EXCEPT ![at] = b]
  BY <1>4 DEF b
<1> QED
  BY <1>1, <1>2, <1>5, <1>6, <1>7, <1>8, <1>9, Replaced

LEMMA BounceKeeps == ASSUME Kept, Bounce PROVE Kept'
<1>1. CASE NoBounce
  BY <1>1, SameKeeps DEF NoBounce, NextBounce
<1>2. CASE ConnectFails
  BY <1>2, AtIsUsed, KillKeeps DEF ConnectFails, NextBounce
<1>3. CASE DialFails
  BY <1>3, AtIsUsed, KillKeeps DEF DialFails, NextBounce
<1>4. CASE End
  BY <1>4, AtIsUsed, KillKeeps DEF End, NextBounce
<1>5. CASE Wait
  BY <1>5, SameKeeps DEF Wait, NextBounce
<1> QED
  BY <1>1, <1>2, <1>3, <1>4, <1>5, AcceptKeeps, AcceptFailsKeeps, DialKeeps, CopyKeeps DEF Bounce

(* dcc_timer() frees entries with all they have, and the others keep it.   *)
LEMMA TickKeeps == ASSUME Kept, Tick PROVE Kept'
<1> DEFINE gone == IF dccbounce THEN Expired ELSE {}
           Older(b) == IF b.dest = 0 /\ b.age < MaxAge THEN [b EXCEPT !.age = @ + 1] ELSE b
<1>1. /\ dccs' = [i \in Index |-> IF i \in gone \/ i \notin Used THEN NULL ELSE Older(dccs[i])]
      /\ open' = open \ UNION {Sockets(dccs[i]) : i \in gone}
      /\ UNCHANGED <<others, lost>>
  BY DEF Tick
<1>2. gone \subseteq Index
  BY DEF Expired
<1>3. ASSUME NEW b \in Bounces
      PROVE /\ Older(b) \in Bounces
            /\ Sockets(Older(b)) = Sockets(b)
            /\ Older(b).src = b.src /\ Older(b).dest = b.dest
  BY <1>3 DEF Bounces, Sockets
<1> HIDE DEF gone, Older
<1>4. \A i \in Index : dccs[i] \in Bounces
  BY DEF Kept
<1>5. ASSUME NEW i \in Index
      PROVE /\ dccs'[i] \in Bounces /\ Sound(dccs'[i])
            /\ Sockets(dccs'[i]) = IF i \in gone THEN {} ELSE Sockets(dccs[i])
  <2>1. CASE i \in gone
    BY <1>1, <2>1, NullFits
  <2>2. CASE i \notin gone /\ i \notin Used
    BY <1>1, <2>2, NullFits DEF Used
  <2>3. CASE i \notin gone /\ i \in Used
    <3>1. dccs'[i] = Older(dccs[i]) /\ dccs[i] # NULL
      BY <1>1, <2>3 DEF Used
    <3>2. dccs[i].src # 0 /\ dccs[i].src # dccs[i].dest
      BY <3>1 DEF Kept, Sound
    <3> QED
      BY <1>3, <1>4, <2>3, <3>1, <3>2 DEF Sound
  <2> QED
    BY <2>1, <2>2, <2>3
<1>6. dccs' \in [Index -> Bounces]
  BY <1>1, <1>5
<1>7. UNION {Sockets(dccs'[i]) : i \in Index} = UNION {Sockets(dccs[i]) : i \in Index \ gone}
  BY <1>5, <1>2
<1>8. open' = others' \cup lost' \cup UNION {Sockets(dccs'[i]) : i \in Index}
  <2>1. \A i \in Index \ gone : \A j \in gone : Sockets(dccs[i]) \cap Sockets(dccs[j]) = {}
    BY <1>2 DEF Kept
  <2>2. \A j \in gone : Sockets(dccs[j]) \cap (others \cup lost) = {}
    BY <1>2 DEF Kept
  <2>3. open = others \cup lost \cup UNION {Sockets(dccs[i]) : i \in Index}
    BY DEF Kept
  <2>4. (UNION {Sockets(dccs[i]) : i \in Index}) \ (UNION {Sockets(dccs[i]) : i \in gone})
            = UNION {Sockets(dccs[i]) : i \in Index \ gone}
    BY <1>2, <2>1
  <2>5. (others \cup lost) \cap (UNION {Sockets(dccs[i]) : i \in gone}) = {}
    BY <2>2
  <2> QED
    BY <1>1, <1>7, <2>3, <2>4, <2>5
<1>9. \A i \in Index : Sockets(dccs'[i]) \subseteq Sockets(dccs[i])
  BY <1>5
<1>10. \A i, j \in Index : i # j => Sockets(dccs'[i]) \cap Sockets(dccs'[j]) = {}
  BY <1>9 DEF Kept
<1>11. \A i \in Index : Sockets(dccs'[i]) \cap (others' \cup lost') = {}
  BY <1>1, <1>9 DEF Kept
<1>12. others' \subseteq Fds /\ open' \subseteq Fds /\ lost' \subseteq Fds /\ others' \cap lost' = {}
  BY <1>1 DEF Kept
<1> QED
  BY <1>5, <1>6, <1>8, <1>10, <1>11, <1>12 DEF Kept

LEMMA InitKept == DccInit => Kept
<1> SUFFICES ASSUME DccInit PROVE Kept
  OBVIOUS
<1>1. \A i \in Index : dccs[i] = NULL
  BY DEF DccInit
<1>2. \A i \in Index : Sockets(dccs[i]) = {}
  BY <1>1, NullFits
<1>3. dccs \in [Index -> Bounces]
  BY NullFits DEF DccInit
<1> QED
  BY <1>1, <1>2, <1>3, NullFits DEF DccInit, Kept

LEMMA NextKept == Kept /\ [DccNext]_dccVars => Kept'
<1> SUFFICES ASSUME Kept, [DccNext]_dccVars PROVE Kept'
  OBVIOUS
<1>1. CASE Asked
  BY <1>1, SameKeeps DEF Asked, Select
<1>2. CASE DccRehash
  BY <1>2, SameKeeps DEF DccRehash
<1>3. CASE ClientsDone
  BY <1>3, SameKeeps DEF ClientsDone
<1>4. CASE NoTick
  BY <1>4, SameKeeps DEF NoTick
<1>5. CASE UNCHANGED dccVars
  BY <1>5, SameKeeps DEF dccVars
<1> QED
  BY <1>1, <1>2, <1>3, <1>4, <1>5, ComesKeeps, GoesKeeps, OfferKeeps, BounceKeeps, TickKeeps DEF DccNext

(* No descriptor belongs to two bounces or to a bounce and a client, and   *)
(* one that is open belongs to nobody only after a failed accept(): with   *)
(* any table, any clients, any descriptors and any timeout.                *)
THEOREM OwnedHolds == DccSpec => []Owned
<1>1. DccSpec => []Kept
  BY InitKept, NextKept, PTL DEF DccSpec
<1> QED
  BY <1>1, KeptIsOwned, PTL
=============================================================================
