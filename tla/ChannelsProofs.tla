--------------------------- MODULE ChannelsProofs ---------------------------
(***************************************************************************)
(* Proofs about Channels for every set of channels, every setting and      *)
(* every bound: its types, that no channel is on the active and the        *)
(* passive list at a time, and, provided that the names of all channels    *)
(* fit into one line, that miau agrees with the server on where it is.     *)
(* Then about ChannelState: that the count of automode covers its queues,  *)
(* that active channels have their logs, that miau knows where it is       *)
(* operator once it has read all lines, and last what masks decide.        *)
(***************************************************************************)
EXTENDS ChannelState, SequenceTheorems, FiniteSetTheorems, NaturalsInduction,
        TLAPS

Entries == [chan : Channel, tries : Unset .. MaxTries]

(* What miau takes channel c to be once it has read the lines s, being on  *)
(* the channels of on now: the last line about c decides.                  *)
Says(c, s, on) ==
    \/ \E i \in DOMAIN s : /\ s[i].cmd = "JOIN"
                           /\ s[i].chan = c
                           /\ \A j \in DOMAIN s : j > i => s[j].chan # c
    \/ c \in on /\ \A i \in DOMAIN s : s[i].chan # c

(* The line l makes the server take miau off channel c, and one of the     *)
(* lines s does.                                                           *)
Parts(c, l) == l.cmd = "JOIN 0" \/ (l.cmd = "PART" /\ c \in l.chans)
Parting(c, s) == \E i \in DOMAIN s : Parts(c, s[i])

(* The names of all channels fit into one line.                            *)
WholeLists == Cardinality(Channel) <= LineCap

ListsType ==
    /\ active \subseteq Channel
    /\ passive \subseteq Channel
    /\ old \in Seq(Entries)
    /\ jointries \in [Channel -> Unset .. MaxTries]

(* Without a connection no line is on its way.                             *)
Quiet == ~registered => (out = << >> /\ in = << >> /\ member = {})

(* The server has miau where miau will take itself to be, and besides only *)
(* where a line that leaves the channel is on its way.                     *)
Known(c, onServer, lines, s, on) ==
    /\ Says(c, s, on) => c \in onServer
    /\ c \in onServer => Says(c, s, on) \/ Parting(c, lines)

AllKnown == \A c \in Channel : Known(c, member, out, in, active)

SafeInv == TypeOK /\ OneHome /\ Quiet
------------------------------------------------------------------------------
LEMMA EventFacts ==
    ASSUME NEW s \in Seq(Events), NEW i \in DOMAIN s
    PROVE  s[i].cmd \in {"JOIN", "PART", "KICK"} /\ s[i].chan \in Channel
<1>1. s[i] \in Events
  BY ElementOfSeq, LenProperties
<1> QED
  BY <1>1 DEF Events, Event

LEMMA LineFacts ==
    ASSUME NEW s \in Seq(Lines), NEW i \in DOMAIN s
    PROVE  /\ s[i].cmd \in {"JOIN", "PART", "JOIN 0"}
           /\ s[i].chans \in SUBSET Channel
           /\ s[i] = Line(s[i].cmd, s[i].chans)
<1>1. s[i] \in Lines
  BY ElementOfSeq, LenProperties
<1>2. CASE s[i] \in [cmd : {"JOIN", "PART"}, chans : SUBSET Channel]
  BY <1>2 DEF Line
<1>3. CASE s[i] = Line("JOIN 0", {})
  <2>1. Line("JOIN 0", {}).cmd = "JOIN 0" /\ Line("JOIN 0", {}).chans = {}
    BY DEF Line
  <2> QED
    BY <1>3, <2>1
<1> QED
  BY <1>1, <1>2, <1>3 DEF Lines

LEMMA LineType ==
    ASSUME NEW cmd \in {"JOIN", "PART"}, NEW S \in SUBSET Channel
    PROVE  Line(cmd, S) \in Lines
BY DEF Lines, Line

LEMMA FitsIsSubset ==
    ASSUME NEW S \in SUBSET Channel, NEW T \in Fits(S)
    PROVE  T \in SUBSET Channel
BY DEF Fits

(* A line that the server sends settles what miau takes its channel to be, *)
(* and nothing about the others.                                           *)
LEMMA SaysAppend ==
    ASSUME NEW s \in Seq(Events), NEW e \in Events, NEW c, NEW on
    PROVE  Says(c, Append(s, e), on)
             <=> IF e.chan = c THEN e.cmd = "JOIN" ELSE Says(c, s, on)
<1> DEFINE t == Append(s, e)
<1>1. /\ Len(s) \in Nat
      /\ DOMAIN s = 1 .. Len(s)
      /\ DOMAIN t = 1 .. (Len(s) + 1)
      /\ \A i \in DOMAIN s : t[i] = s[i]
      /\ t[Len(s) + 1] = e
  BY AppendProperties, LenProperties
<1> HIDE DEF t
<1>2. CASE e.chan = c
  <2>1. \A i \in DOMAIN t : (\A j \in DOMAIN t : j > i => t[j].chan # c)
                               => i = Len(s) + 1
    BY <1>1, <1>2
  <2>2. \A j \in DOMAIN t : ~(j > Len(s) + 1)
    BY <1>1
  <2> QED
    BY <1>1, <1>2, <2>1, <2>2 DEF Says, t
<1>3. CASE e.chan # c
  <2>0. Len(s) + 1 \in DOMAIN t /\ DOMAIN s \subseteq DOMAIN t
    BY <1>1
  <2>1. \A i \in DOMAIN t : t[i].chan = c => i \in DOMAIN s
    BY <1>1, <1>3
  <2>2. (\A i \in DOMAIN t : t[i].chan # c) <=> \A i \in DOMAIN s : s[i].chan # c
    BY <1>1, <1>3
  <2>3. ASSUME NEW i \in DOMAIN s
        PROVE  (\A j \in DOMAIN t : j > i => t[j].chan # c)
                 <=> \A j \in DOMAIN s : j > i => s[j].chan # c
    BY <1>1, <1>3
  <2>4. (\E i \in DOMAIN t : /\ t[i].cmd = "JOIN" /\ t[i].chan = c
                             /\ \A j \in DOMAIN t : j > i => t[j].chan # c)
          <=> (\E i \in DOMAIN s : /\ s[i].cmd = "JOIN" /\ s[i].chan = c
                             /\ \A j \in DOMAIN s : j > i => s[j].chan # c)
    BY <1>1, <2>0, <2>1, <2>3
  <2>5. Says(c, t, on) <=> Says(c, s, on)
    BY <2>2, <2>4 DEF Says
  <2> QED
    BY <1>3, <2>5 DEF t
<1> QED
  BY <1>2, <1>3

(* Reading a line the way server_reply() does changes nothing of what miau *)
(* will take a channel to be.                                              *)
LEMMA SaysTail ==
    ASSUME NEW s \in Seq(Events), s # << >>, NEW c, NEW on, NEW to,
           IF Head(s).chan = c THEN c \in to <=> Head(s).cmd = "JOIN"
                               ELSE c \in to <=> c \in on
    PROVE  Says(c, Tail(s), to) <=> Says(c, s, on)
<1> DEFINE t == Tail(s)
<1>1. /\ Len(s) \in Nat \ {0}
      /\ DOMAIN s = 1 .. Len(s)
      /\ DOMAIN t = 1 .. (Len(s) - 1)
      /\ \A i \in DOMAIN t : t[i] = s[i + 1]
      /\ Head(s) = s[1]
  BY HeadTailProperties, LenProperties, EmptySeq
<1> HIDE DEF t
<1>2. ASSUME NEW i \in DOMAIN t
      PROVE  /\ i + 1 \in DOMAIN s
             /\ (\A j \in DOMAIN t : j > i => t[j].chan # c)
                  <=> \A j \in DOMAIN s : j > i + 1 => s[j].chan # c
  <2>1. ASSUME NEW j \in DOMAIN s, j > i + 1
        PROVE  j - 1 \in DOMAIN t /\ j - 1 > i /\ t[j - 1] = s[j]
    BY <1>1, <1>2, <2>1
  <2>2. ASSUME NEW j \in DOMAIN t, j > i
        PROVE  j + 1 \in DOMAIN s /\ j + 1 > i + 1 /\ t[j] = s[j + 1]
    BY <1>1, <1>2, <2>2
  <2> QED
    BY <1>1, <2>1, <2>2
<1>3. ASSUME NEW i \in DOMAIN s, i # 1 PROVE i - 1 \in DOMAIN t /\ t[i - 1] = s[i]
  BY <1>1, <1>3
<1>4. (\A j \in DOMAIN s : j > 1 => s[j].chan # c)
        <=> \A i \in DOMAIN t : t[i].chan # c
  <2>1. \A j \in DOMAIN s : j > 1 => j # 1
    BY <1>1
  <2>2. \A i \in DOMAIN t : i + 1 > 1 /\ i + 1 \in DOMAIN s
    BY <1>1
  <2> QED
    BY <1>1, <1>3, <2>1, <2>2
<1>5. (\E i \in DOMAIN t : /\ t[i].cmd = "JOIN" /\ t[i].chan = c
                           /\ \A j \in DOMAIN t : j > i => t[j].chan # c)
        <=> (\E i \in DOMAIN s \ {1} :
               /\ s[i].cmd = "JOIN" /\ s[i].chan = c
               /\ \A j \in DOMAIN s : j > i => s[j].chan # c)
  <2>1. ASSUME NEW i \in DOMAIN s \ {1}
        PROVE  i - 1 \in DOMAIN t /\ t[i - 1] = s[i] /\ (i - 1) + 1 = i
    BY <1>1, <1>3
  <2>2. ASSUME NEW i \in DOMAIN t
        PROVE  i + 1 \in DOMAIN s \ {1} /\ t[i] = s[i + 1]
    BY <1>1
  <2> QED
    BY <1>2, <2>1, <2>2
<1>6. 1 \in DOMAIN s
  BY <1>1
<1>7. (\A i \in DOMAIN s : s[i].chan # c)
        <=> (s[1].chan # c /\ \A i \in DOMAIN t : t[i].chan # c)
  BY <1>1, <1>4, <1>6
<1> QED
  BY <1>1, <1>4, <1>5, <1>6, <1>7 DEF Says, t

LEMMA SaysLess ==
    ASSUME NEW c, NEW s, NEW on
    PROVE  /\ Says(c, s, {}) => Says(c, s, on)
           /\ Says(c, s, on) /\ c \notin on => Says(c, s, {})
BY DEF Says
------------------------------------------------------------------------------
(* The operations on the lists.  Each keeps their types; what it does to   *)
(* the active and the passive channels is all that the callers depend on.  *)

LEMMA TriesType ==
    ASSUME TypeOK, NEW rejoin \in BOOLEAN, NEW c \in Channel
    PROVE  Tries(rejoin, c) \in Unset .. MaxTries
<1>1. /\ cfg.jointries \in 0 .. MaxTries
      /\ jointries[c] \in Unset .. MaxTries
      /\ MaxTries \in Nat \ {0}
  BY ChannelsAssumption DEF TypeOK
<1>2. cfg.jointries \in Unset .. MaxTries /\ 1 \in Unset .. MaxTries
  BY <1>1 DEF Unset
<1> QED
  BY <1>1, <1>2 DEF Tries

LEMMA JoinPassiveFacts ==
    ASSUME TypeOK, NEW rejoin \in BOOLEAN, JoinPassive(rejoin)
    PROVE  /\ passive' \subseteq passive
           /\ jointries' \in [Channel -> Unset .. MaxTries]
           /\ \/ out' = out
              \/ \E S \in SUBSET Channel : out' = Append(out, Line("JOIN", S))
<1> DEFINE tried == {c \in passive : Tries(rejoin, c) > 0}
           over == {c \in passive : Tries(rejoin, c) = 0}
<1>1. /\ jointries' = [c \in Channel |->
              IF c \in tried THEN Tries(rejoin, c) - 1
              ELSE IF c \in over THEN Unset ELSE jointries[c]]
      /\ passive' = passive \ over
      /\ tried \in SUBSET Channel
  BY DEF JoinPassive, TypeOK
<1>2. tried = {} \/ \E S \in Fits(tried) : out' = Append(out, Line("JOIN", S))
  BY DEF JoinPassive
<1>3. tried = {} => out' = out
  BY DEF JoinPassive
<1>4. \A c \in tried : Tries(rejoin, c) > 0
  OBVIOUS
<1> HIDE DEF tried, over
<1>5. ASSUME NEW c \in Channel
      PROVE  (IF c \in tried THEN Tries(rejoin, c) - 1
              ELSE IF c \in over THEN Unset ELSE jointries[c])
                 \in Unset .. MaxTries
  <2>1. /\ Tries(rejoin, c) \in Unset .. MaxTries
        /\ jointries[c] \in Unset .. MaxTries
        /\ MaxTries \in Nat
    BY TriesType, ChannelsAssumption DEF TypeOK
  <2>2. CASE c \in tried
    <3>1. Tries(rejoin, c) > 0
      BY <1>4, <2>2
    <3>2. Tries(rejoin, c) - 1 \in Unset .. MaxTries
      BY <2>1, <3>1 DEF Unset
    <3> QED
      BY <2>2, <3>2
  <2>3. Unset \in Unset .. MaxTries
    BY <2>1 DEF Unset
  <2> QED
    BY <2>1, <2>2, <2>3
<1>6. jointries' \in [Channel -> Unset .. MaxTries]
  BY <1>1, <1>5
<1>7. tried # {} =>
          \E S \in SUBSET Channel : out' = Append(out, Line("JOIN", S))
  BY <1>1, <1>2, FitsIsSubset
<1> QED
  BY <1>1, <1>3, <1>6, <1>7

LEMMA ActivateFacts ==
    ASSUME TypeOK, NEW c \in Channel, Activate(c)
    PROVE  /\ ListsType'
           /\ active' = active \cup {c}
           /\ passive' \subseteq passive
           /\ c \in passive' => c \in active
<1>1. Unset \in Unset .. MaxTries /\ MaxTries \in Nat
  BY ChannelsAssumption DEF Unset
<1>2. ASSUME NEW i \in DOMAIN old
      PROVE  /\ SubSeq(old, 1, i - 1) \o SubSeq(old, i + 1, Len(old)) \in Seq(Entries)
             /\ old[i].tries \in Unset .. MaxTries
  <2>1. /\ old \in Seq(Entries)
        /\ Len(old) \in Nat
        /\ i \in 1 .. Len(old)
    BY <1>2, LenProperties DEF TypeOK, Entries
  <2>2. SubSeq(old, 1, i - 1) \in Seq(Entries)
    BY <2>1, SubSeqProperties
  <2>3. SubSeq(old, i + 1, Len(old)) \in Seq(Entries)
    BY <2>1, SubSeqProperties
  <2>4. old[i] \in Entries
    BY <2>1, ElementOfSeq
  <2> QED
    BY <2>2, <2>3, <2>4, ConcatProperties DEF Entries
<1>3. ListsType
  BY DEF TypeOK, ListsType, Entries
<1>4. active' \subseteq Channel /\ passive' \subseteq passive
  BY <1>3 DEF Activate, ListsType, listVars
<1>5. old' \in Seq(Entries)
  BY <1>2, <1>3 DEF Activate, ListsType, listVars
<1>6. jointries' \in [Channel -> Unset .. MaxTries]
  BY <1>1, <1>2, <1>3 DEF Activate, ListsType, listVars
<1>7. active' = active \cup {c} /\ (c \in passive' => c \in active)
  BY DEF Activate, listVars
<1> QED
  BY <1>3, <1>4, <1>5, <1>6, <1>7 DEF ListsType

LEMMA DeactivateFacts ==
    ASSUME TypeOK, NEW c \in Channel, Deactivate(c)
    PROVE  ListsType' /\ active' = active \ {c} /\ passive' = passive
<1>1. Unset \in Unset .. MaxTries
  BY ChannelsAssumption DEF Unset
<1>2. [chan |-> c, tries |-> jointries[c]] \in Entries
  BY DEF TypeOK, Entries
<1>3. old \in Seq(Entries)
  BY DEF TypeOK, Entries
<1>4. Append(old, [chan |-> c, tries |-> jointries[c]]) \in Seq(Entries)
  BY <1>2, <1>3, AppendProperties
<1>5. old' \in Seq(Entries)
  BY <1>3, <1>4 DEF Deactivate
<1> QED
  BY <1>1, <1>5 DEF Deactivate, ListsType, TypeOK

LEMMA LeaveFacts ==
    ASSUME TypeOK, NEW keep, Leave(keep)
    PROVE  ListsType' /\ active' = {} /\ passive' \subseteq passive \cup active
<1>1. Unset \in Unset .. MaxTries
  BY ChannelsAssumption DEF Unset
<1> QED
  BY <1>1 DEF Leave, ListsType, TypeOK, Entries

LEMMA ForgetFacts ==
    ASSUME TypeOK, NEW S, Forget(S)
    PROVE  ListsType' /\ active' = active /\ passive' \subseteq passive
<1>1. Unset \in Unset .. MaxTries
  BY ChannelsAssumption DEF Unset
<1> QED
  BY <1>1 DEF Forget, ListsType, TypeOK, Entries

LEMMA WantFacts ==
    ASSUME TypeOK, NEW c \in Channel, Want(c)
    PROVE  /\ ListsType'
           /\ active' = active
           /\ passive' \subseteq passive \cup ({c} \ active)
BY DEF Want, ListsType, TypeOK, Entries

LEMMA PurgeOldFacts == TypeOK /\ PurgeOld => old' \in Seq(Entries)
<1> SUFFICES ASSUME TypeOK, PurgeOld PROVE old' \in Seq(Entries)
  OBVIOUS
<1>1. PICK kept \in SUBSET DOMAIN old :
        \E at \in [1 .. Cardinality(kept) -> kept] :
           old' = [k \in DOMAIN at |-> old[at[k]]]
  BY DEF PurgeOld
<1>2. old \in Seq(Entries) /\ DOMAIN old = 1 .. Len(old) /\ Len(old) \in Nat
  BY LenProperties DEF TypeOK, Entries
<1>3. Cardinality(kept) \in Nat
  <2>1. IsFiniteSet(1 .. Len(old))
    BY <1>2, FS_Interval
  <2>2. IsFiniteSet(kept)
    BY <1>2, <2>1, FS_Subset
  <2> QED
    BY <2>2, FS_CardinalityType
<1>4. \A i \in kept : old[i] \in Entries
  BY <1>1, <1>2, ElementOfSeq
<1>5. old' \in [1 .. Cardinality(kept) -> Entries]
  BY <1>1, <1>4
<1> QED
  BY <1>3, <1>5, SeqDef
------------------------------------------------------------------------------
(* Types, the lists and the quiet without a connection.                    *)

LEMMA InitSafe == Init => SafeInv
<1> SUFFICES ASSUME Init PROVE SafeInv
  OBVIOUS
<1>1. Unset \in Unset .. MaxTries /\ 0 \in 0 .. MaxClients
  BY ChannelsAssumption DEF Unset
<1>2. /\ << >> \in Seq(Lines)
      /\ << >> \in Seq(Events)
      /\ << >> \in Seq([chan : Channel, tries : Unset .. MaxTries])
  BY EmptySeq
<1> QED
  BY <1>1, <1>2, ChannelsAssumption DEF Init, SafeInv, TypeOK, OneHome, Quiet

(* What is left to show of a step that changes the lists in one of these   *)
(* ways, and the lines in any way.                                         *)
LEMMA SafeStep ==
    ASSUME SafeInv, ListsType', cfg' \in Configs, clients' \in 0 .. MaxClients,
           registered' \in BOOLEAN, out' \in Seq(Lines), in' \in Seq(Events),
           member' \subseteq Channel,
           active' \cap passive' = {}, active' # {} => registered', Quiet'
    PROVE  SafeInv'
BY DEF SafeInv, TypeOK, ListsType, Entries, OneHome

LEMMA SafeLists == TypeOK => ListsType
BY DEF TypeOK, ListsType, Entries

(* The connection is dropped.                                              *)
LEMMA DropSafe ==
    ASSUME SafeInv, NEW keep, Leave(keep), cfg' \in Configs,
           registered' = FALSE, out' = << >>, in' = << >>, member' = {},
           clients' = clients
    PROVE  SafeInv'
<1>1. ListsType' /\ active' = {}
  BY LeaveFacts DEF SafeInv
<1>2. << >> \in Seq(Lines) /\ << >> \in Seq(Events)
  BY EmptySeq
<1> QED
  BY <1>1, <1>2, SafeStep DEF SafeInv, TypeOK, Quiet

(* A line is sent by a client or for one, with the connection up.          *)
LEMMA SendType ==
    ASSUME TypeOK, NEW l \in Lines, out' = Append(out, l)
    PROVE  out' \in Seq(Lines)
BY AppendProperties DEF TypeOK

LEMMA MiauSafe ==
    SafeInv /\ (Welcome \/ ServerDrop \/ JoinTimer
                \/ \E new \in Configs, drop \in BOOLEAN : Rehash(new, drop))
        => SafeInv'
<1> SUFFICES ASSUME SafeInv,
                    Welcome \/ ServerDrop \/ JoinTimer
                    \/ \E new \in Configs, drop \in BOOLEAN : Rehash(new, drop)
             PROVE  SafeInv'
  OBVIOUS
<1>0. TypeOK /\ ListsType /\ OneHome /\ Quiet
  BY SafeLists DEF SafeInv
<1>1. CASE Welcome
  <2>1. Unset \in Unset .. MaxTries
    BY ChannelsAssumption DEF Unset
  <2>2. ListsType'
    BY <1>0, <1>1, <2>1 DEF Welcome, ListsType
  <2> QED
    BY <1>0, <1>1, <2>2, SafeStep DEF Welcome, TypeOK, OneHome, Quiet
<1>2. CASE ServerDrop
  BY <1>0, <1>2, DropSafe DEF ServerDrop, TypeOK
<1>3. CASE JoinTimer
  <2>1. /\ passive' \subseteq passive
        /\ jointries' \in [Channel -> Unset .. MaxTries]
        /\ \/ out' = out
           \/ \E S \in SUBSET Channel : out' = Append(out, Line("JOIN", S))
    BY <1>0, <1>3, JoinPassiveFacts DEF JoinTimer
  <2>2. out' \in Seq(Lines)
    BY <1>0, <2>1, LineType, SendType DEF TypeOK
  <2>3. ListsType' /\ active' \cap passive' = {}
    BY <1>0, <1>3, <2>1 DEF JoinTimer, ListsType, OneHome
  <2> QED
    BY <1>0, <1>3, <2>2, <2>3, SafeStep DEF JoinTimer, TypeOK, OneHome, Quiet
<1>4. ASSUME NEW new \in Configs, NEW drop \in BOOLEAN, Rehash(new, drop)
      PROVE  SafeInv'
  <2>1. CASE drop /\ registered
    BY <1>0, <1>4, <2>1, DropSafe DEF Rehash
  <2>2. CASE ~(drop /\ registered)
    <3>1. UNCHANGED <<active, passive, old, jointries, registered, out, in,
                      member, clients>> /\ cfg' \in Configs
      BY <1>4, <2>2 DEF Rehash, listVars
    <3> QED
      BY <1>0, <3>1 DEF SafeInv, TypeOK, OneHome, Quiet
  <2> QED
    BY <2>1, <2>2
<1> QED
  BY <1>1, <1>2, <1>3, <1>4

LEMMA ClientSafe ==
    SafeInv /\ (ClientAttaches \/ ClientLeaves \/ ClientPartsAll
                \/ \E c \in Channel : ClientJoins(c) \/ ClientParts(c))
        => SafeInv'
<1> SUFFICES ASSUME SafeInv,
                    ClientAttaches \/ ClientLeaves \/ ClientPartsAll
                    \/ \E c \in Channel : ClientJoins(c) \/ ClientParts(c)
             PROVE  SafeInv'
  OBVIOUS
<1>0. TypeOK /\ ListsType /\ OneHome /\ Quiet /\ Line("JOIN 0", {}) \in Lines
  BY SafeLists DEF SafeInv, Lines
<1>1. CASE ClientAttaches
  <2>1. clients' \in 0 .. MaxClients
    <3>1. /\ clients \in 0 .. MaxClients
          /\ clients < MaxClients
          /\ clients' = clients + 1
          /\ MaxClients \in Nat
      BY <1>0, <1>1, ChannelsAssumption DEF ClientAttaches, TypeOK
    <3> QED
      BY <3>1
  <2>2. CASE registered
    <3>1. /\ passive' \subseteq passive
          /\ jointries' \in [Channel -> Unset .. MaxTries]
          /\ \/ out' = out
             \/ \E S \in SUBSET Channel : out' = Append(out, Line("JOIN", S))
      BY <1>0, <1>1, <2>2, JoinPassiveFacts DEF ClientAttaches
    <3>2. out' \in Seq(Lines)
      BY <1>0, <3>1, LineType, SendType DEF TypeOK
    <3>3. old' \in Seq(Entries)
      BY <1>0, <1>1, <2>2, PurgeOldFacts DEF ClientAttaches
    <3>4. ListsType' /\ active' \cap passive' = {}
      BY <1>0, <1>1, <3>1, <3>3 DEF ClientAttaches, ListsType, OneHome
    <3> QED
      BY <1>0, <1>1, <2>1, <2>2, <3>2, <3>4, SafeStep
      DEF ClientAttaches, TypeOK, OneHome, Quiet
  <2>3. CASE ~registered
    <3>1. UNCHANGED <<cfg, active, passive, old, jointries, registered, out, in,
                      member>>
      BY <1>1, <2>3 DEF ClientAttaches
    <3> QED
      BY <1>0, <2>1, <3>1 DEF SafeInv, TypeOK, OneHome, Quiet
  <2> QED
    BY <2>2, <2>3
<1>2. CASE ClientLeaves
  <2>1. clients' \in 0 .. MaxClients
    <3>1. /\ clients \in 0 .. MaxClients
          /\ clients > 0
          /\ clients' = clients - 1
          /\ MaxClients \in Nat
      BY <1>0, <1>2, ChannelsAssumption DEF ClientLeaves, TypeOK
    <3> QED
      BY <3>1
  <2>2. CASE clients = 1 /\ active # {} /\ cfg.leave
    <3>1. ListsType' /\ active' = {}
      BY <1>0, <1>2, <2>2, LeaveFacts DEF ClientLeaves
    <3>2. ASSUME NEW S \in Fits(active) PROVE Line("PART", S) \in Lines
      BY <1>0, <3>2, FitsIsSubset, LineType DEF TypeOK
    <3>3. \E l \in Lines : out' = Append(out, l)
      BY <1>0, <1>2, <2>2, <3>2 DEF ClientLeaves
    <3>4. out' \in Seq(Lines)
      BY <1>0, <3>3, SendType
    <3>5. registered
      BY <1>0, <2>2 DEF OneHome
    <3> QED
      BY <1>0, <1>2, <2>1, <3>1, <3>4, <3>5, SafeStep
      DEF ClientLeaves, TypeOK, Quiet
  <2>3. CASE ~(clients = 1 /\ active # {} /\ cfg.leave)
    <3>1. UNCHANGED <<cfg, active, passive, old, jointries, registered, out, in,
                      member>>
      BY <1>2, <2>3 DEF ClientLeaves, listVars
    <3> QED
      BY <1>0, <2>1, <3>1 DEF SafeInv, TypeOK, OneHome, Quiet
  <2> QED
    BY <2>2, <2>3
<1>3. ASSUME UNCHANGED <<cfg, clients, registered, in, member>>,
             \/ registered /\ UNCHANGED listVars
                           /\ \E l \in Lines : out' = Append(out, l)
             \/ /\ ~registered /\ UNCHANGED out
                /\ \/ \E S \in SUBSET Channel : Forget(S)
                   \/ \E c \in Channel : Want(c)
      PROVE  SafeInv'
  <2>1. CASE registered
    <3>1. out' \in Seq(Lines)
      BY <1>0, <1>3, <2>1, SendType
    <3>2. ListsType'
      BY <1>0, <1>3, <2>1 DEF listVars, ListsType
    <3> QED
      BY <1>0, <1>3, <2>1, <3>1, <3>2, SafeStep
      DEF listVars, TypeOK, OneHome, Quiet
  <2>2. CASE ~registered
    <3>1. ListsType' /\ active' = active
      BY <1>0, <1>3, <2>2, ForgetFacts, WantFacts
    <3>2. active = {}
      BY <1>0, <2>2 DEF OneHome
    <3> QED
      BY <1>0, <1>3, <2>2, <3>1, <3>2, SafeStep DEF TypeOK, Quiet
  <2> QED
    BY <2>1, <2>2
<1>4. ASSUME NEW c \in Channel, ClientJoins(c) PROVE SafeInv'
  <2>1. Line("JOIN", {c}) \in Lines
    BY LineType
  <2> QED
    BY <1>3, <1>4, <2>1 DEF ClientJoins
<1>5. ASSUME NEW c \in Channel, ClientParts(c) PROVE SafeInv'
  <2>1. Line("PART", {c}) \in Lines /\ {c} \cap passive \in SUBSET Channel
    BY LineType
  <2> QED
    BY <1>3, <1>5, <2>1 DEF ClientParts
<1>6. CASE ClientPartsAll
  BY <1>0, <1>3, <1>6 DEF ClientPartsAll, TypeOK
<1> QED
  BY <1>1, <1>2, <1>4, <1>5, <1>6

(* t is the sequence s of elements of T with x for its first element.      *)
NewFirst(t, s, x, T) ==
    /\ t \in Seq(T)
    /\ DOMAIN t = DOMAIN s
    /\ t[1] = x
    /\ \A i \in DOMAIN s : i # 1 => t[i] = s[i]

LEMMA NewHead ==
    ASSUME NEW T, NEW s \in Seq(T), s # << >>, NEW x \in T
    PROVE  NewFirst(<<x>> \o Tail(s), s, x, T)
<1>1. /\ Len(s) \in Nat \ {0}
      /\ DOMAIN s = 1 .. Len(s)
      /\ Tail(s) \in Seq(T)
      /\ Len(Tail(s)) = Len(s) - 1
      /\ \A i \in 1 .. Len(Tail(s)) : Tail(s)[i] = s[i + 1]
  BY HeadTailProperties, LenProperties, EmptySeq
<1>2. <<x>> \in Seq(T) /\ Len(<<x>>) = 1 /\ <<x>>[1] = x
  OBVIOUS
<1> DEFINE t == <<x>> \o Tail(s)
<1>3. /\ t \in Seq(T)
      /\ Len(t) = 1 + Len(Tail(s))
      /\ \A i \in 1 .. 1 + Len(Tail(s)) :
             t[i] = IF i <= 1 THEN <<x>>[i] ELSE Tail(s)[i - 1]
  BY <1>1, <1>2, ConcatProperties
<1> HIDE DEF t
<1>4. DOMAIN t = 1 .. Len(t)
  BY <1>3, LenProperties
<1>5. NewFirst(t, s, x, T)
  BY <1>1, <1>2, <1>3, <1>4 DEF NewFirst
<1> QED
  BY <1>5 DEF t

LEMMA HeadLine ==
    ASSUME NEW s \in Seq(Lines), s # << >>
    PROVE  /\ 1 \in DOMAIN s
           /\ Head(s) = s[1]
           /\ Head(s).cmd \in {"JOIN", "PART", "JOIN 0"}
           /\ Head(s).chans \in SUBSET Channel
<1>1. /\ Len(s) \in Nat \ {0}
      /\ DOMAIN s = 1 .. Len(s)
      /\ Head(s) = s[1]
  BY HeadTailProperties, LenProperties, EmptySeq
<1>2. 1 \in DOMAIN s
  BY <1>1
<1> QED
  BY <1>1, <1>2, LineFacts

LEMMA WithoutType ==
    ASSUME NEW c, out \in Seq(Lines), out # << >>, Head(out).cmd # "JOIN 0"
    PROVE  /\ Without(c) \in Seq(Lines)
           /\ DOMAIN Without(c) = DOMAIN out
           /\ Without(c)[1].cmd = Head(out).cmd
           /\ Without(c)[1].chans = Head(out).chans \ {c}
           /\ \A i \in DOMAIN out : i # 1 => Without(c)[i] = out[i]
<1> DEFINE l == Line(Head(out).cmd, Head(out).chans \ {c})
           t == Without(c)
<1>1. Head(out).cmd \in {"JOIN", "PART"} /\ Head(out).chans \in SUBSET Channel
  BY HeadLine
<1>2. l \in Lines
  BY <1>1, LineType
<1>3. l.cmd = Head(out).cmd /\ l.chans = Head(out).chans \ {c}
  BY DEF Line
<1>4. t = <<l>> \o Tail(out)
  BY DEF Without
<1> HIDE DEF l, t
<1>5. NewFirst(t, out, l, Lines)
  BY <1>2, <1>4, NewHead
<1> QED
  BY <1>3, <1>5 DEF NewFirst, t

LEMMA TellType ==
    ASSUME in \in Seq(Events), NEW cmd \in {"JOIN", "PART", "KICK"},
           NEW c \in Channel, Tell(cmd, c)
    PROVE  /\ in' \in Seq(Events)
           /\ Event(cmd, c) \in Events
           /\ Event(cmd, c).cmd = cmd
           /\ Event(cmd, c).chan = c
<1>1. /\ Event(cmd, c) \in Events
      /\ Event(cmd, c).cmd = cmd
      /\ Event(cmd, c).chan = c
  BY DEF Event, Events
<1>2. in' = Append(in, Event(cmd, c))
  BY DEF Tell
<1> QED
  BY <1>1, <1>2, AppendProperties

LEMMA ServerSafe ==
    SafeInv /\ (Server \/ \E c \in Channel : Kicked(c)) => SafeInv'
<1> SUFFICES ASSUME SafeInv, Server \/ \E c \in Channel : Kicked(c)
             PROVE  SafeInv'
  OBVIOUS
<1>0. TypeOK /\ ListsType /\ OneHome /\ Quiet
  BY SafeLists DEF SafeInv
<1>1. ASSUME registered, UNCHANGED <<cfg, listVars, clients, registered>>,
             out' \in Seq(Lines), in' \in Seq(Events), member' \subseteq Channel
      PROVE  SafeInv'
  <2>1. ListsType'
    BY <1>0, <1>1 DEF listVars, ListsType
  <2> QED
    BY <1>0, <1>1, <2>1, SafeStep DEF listVars, TypeOK, OneHome, Quiet
<1>2. ASSUME NEW c \in Channel, ServerJoins(c) PROVE SafeInv'
  <2>1. /\ registered /\ out # << >> /\ Head(out).cmd = "JOIN"
        /\ out' = Without(c)
        /\ \/ in' = in /\ member' = member
           \/ member' = member \cup {c} /\ Tell("JOIN", c)
        /\ UNCHANGED <<cfg, listVars, clients, registered>>
    BY <1>2 DEF ServerJoins, First
  <2>2. out \in Seq(Lines) /\ in \in Seq(Events) /\ member \subseteq Channel
    BY <1>0 DEF TypeOK
  <2>3. out' \in Seq(Lines)
    BY <2>1, <2>2, WithoutType
  <2>4. in' \in Seq(Events)
    BY <2>1, <2>2, TellType
  <2>5. member' \subseteq Channel
    BY <2>1, <2>2
  <2> QED
    BY <1>1, <2>1, <2>3, <2>4, <2>5
<1>3. ASSUME NEW c \in Channel, ServerParts(c) PROVE SafeInv'
  <2>1. /\ registered /\ out # << >>
        /\ \/ Head(out).cmd = "PART" /\ out' = Without(c)
           \/ out' = out
        /\ \/ in' = in /\ member' = member
           \/ member' = member \ {c} /\ Tell("PART", c)
        /\ UNCHANGED <<cfg, listVars, clients, registered>>
    BY <1>3 DEF ServerParts, First
  <2>2. out \in Seq(Lines) /\ in \in Seq(Events) /\ member \subseteq Channel
    BY <1>0 DEF TypeOK
  <2>3. out' \in Seq(Lines)
    BY <2>1, <2>2, WithoutType
  <2>4. in' \in Seq(Events)
    BY <2>1, <2>2, TellType
  <2>5. member' \subseteq Channel
    BY <2>1, <2>2
  <2> QED
    BY <1>1, <2>1, <2>3, <2>4, <2>5
<1>4. CASE ServerIsDone
  <2>1. out' \in Seq(Lines)
    BY <1>0, <1>4, HeadTailProperties DEF ServerIsDone, TypeOK
  <2> QED
    BY <1>0, <1>1, <1>4, <2>1 DEF ServerIsDone, TypeOK
<1>5. ASSUME NEW c \in Channel, Kicked(c) PROVE SafeInv'
  <2>1. registered
    BY <1>0, <1>5 DEF Kicked, Quiet
  <2>2. in' \in Seq(Events)
    BY <1>0, <1>5, TellType DEF Kicked, TypeOK
  <2> QED
    BY <1>0, <1>1, <1>5, <2>1, <2>2 DEF Kicked, TypeOK
<1> QED
  BY <1>2, <1>3, <1>4, <1>5 DEF Server

(* What reading a line does to the active channels is what the line says.  *)
LEMMA ReplyFacts ==
    ASSUME SafeInv, Reply
    PROVE  /\ ListsType'
           /\ passive' \subseteq passive
           /\ active' \cap passive' = {}
           /\ in \in Seq(Events) /\ in # << >> /\ in' = Tail(in)
           /\ \A c \in Channel :
                IF Head(in).chan = c THEN c \in active' <=> Head(in).cmd = "JOIN"
                                     ELSE c \in active' <=> c \in active
<1>1. /\ in \in Seq(Events) /\ in # << >> /\ in' = Tail(in)
      /\ TypeOK /\ ListsType
      /\ active \cap passive = {}
  BY SafeLists DEF SafeInv, Reply, TypeOK, OneHome
<1> DEFINE e == Head(in)
<1>2. e.chan \in Channel /\ e = in[1]
  <2>1. 1 \in DOMAIN in /\ e = in[1]
    BY <1>1, HeadTailProperties, LenProperties, EmptySeq
  <2> QED
    BY <1>1, <2>1, EventFacts
<1>3. CASE e.cmd = "JOIN"
  <2>1. Activate(e.chan)
    BY <1>3 DEF Reply
  <2>2. /\ ListsType'
        /\ active' = active \cup {e.chan}
        /\ passive' \subseteq passive
        /\ e.chan \in passive' => e.chan \in active
    BY <1>1, <1>2, <2>1, ActivateFacts
  <2> QED
    BY <1>1, <1>3, <2>2
<1>4. CASE e.cmd # "JOIN" /\ e.chan \in active
  <2>1. Deactivate(e.chan)
    BY <1>4 DEF Reply
  <2>2. ListsType' /\ active' = active \ {e.chan} /\ passive' = passive
    BY <1>1, <1>2, <2>1, DeactivateFacts
  <2> QED
    BY <1>1, <1>4, <2>2
<1>5. CASE e.cmd # "JOIN" /\ e.chan \notin active
  <2>1. UNCHANGED <<active, passive, old, jointries>>
    BY <1>5 DEF Reply, listVars
  <2> QED
    BY <1>1, <1>5, <2>1 DEF ListsType
<1> QED
  BY <1>3, <1>4, <1>5

LEMMA ReplySafe == SafeInv /\ Reply => SafeInv'
<1> SUFFICES ASSUME SafeInv, Reply PROVE SafeInv'
  OBVIOUS
<1>1. registered
  BY DEF SafeInv, Quiet, Reply
<1>2. Tail(in) \in Seq(Events)
  BY ReplyFacts, HeadTailProperties
<1> QED
  BY <1>1, <1>2, ReplyFacts, SafeStep DEF Reply, SafeInv, TypeOK, Quiet

LEMMA StepSafe == SafeInv /\ [Next]_vars => SafeInv'
<1> SUFFICES ASSUME SafeInv, [Next]_vars PROVE SafeInv'
  OBVIOUS
<1>1. CASE UNCHANGED vars
  BY <1>1 DEF SafeInv, TypeOK, OneHome, Quiet, vars, listVars
<1>2. CASE Next
  BY <1>2, MiauSafe, ClientSafe, ServerSafe, ReplySafe DEF Next
<1> QED
  BY <1>1, <1>2
------------------------------------------------------------------------------
(* Agreement with the server.                                              *)

LEMMA PartingAppend ==
    ASSUME NEW s \in Seq(Lines), NEW l \in Lines, NEW c
    PROVE  Parting(c, Append(s, l)) <=> Parting(c, s) \/ Parts(c, l)
<1> DEFINE t == Append(s, l)
<1>1. /\ Len(s) \in Nat
      /\ DOMAIN s = 1 .. Len(s)
      /\ DOMAIN t = 1 .. (Len(s) + 1)
      /\ \A i \in DOMAIN s : t[i] = s[i]
      /\ t[Len(s) + 1] = l
  BY AppendProperties, LenProperties
<1> HIDE DEF t
<1>2. /\ DOMAIN t = DOMAIN s \cup {Len(s) + 1}
      /\ \A i \in DOMAIN s : t[i] = s[i]
      /\ t[Len(s) + 1] = l
  BY <1>1
<1>3. Parting(c, t) <=> Parting(c, s) \/ Parts(c, l)
  BY <1>2 DEF Parting
<1> QED
  BY <1>3 DEF t

LEMMA PartingTail ==
    ASSUME NEW s \in Seq(Lines), s # << >>, NEW c
    PROVE  Parting(c, s) <=> Parts(c, Head(s)) \/ Parting(c, Tail(s))
<1> DEFINE t == Tail(s)
<1>1. /\ Len(s) \in Nat \ {0}
      /\ DOMAIN s = 1 .. Len(s)
      /\ DOMAIN t = 1 .. (Len(s) - 1)
      /\ \A i \in DOMAIN t : t[i] = s[i + 1]
      /\ Head(s) = s[1]
  BY HeadTailProperties, LenProperties, EmptySeq
<1> HIDE DEF t
<1>2. 1 \in DOMAIN s
  BY <1>1
<1>3. \A i \in DOMAIN t : i + 1 \in DOMAIN s /\ t[i] = s[i + 1]
  BY <1>1
<1>4. ASSUME NEW i \in DOMAIN s, i # 1 PROVE i - 1 \in DOMAIN t /\ t[i - 1] = s[i]
  BY <1>1, <1>4
<1>5. Parting(c, s) <=> Parts(c, s[1]) \/ Parting(c, t)
  BY <1>2, <1>3, <1>4 DEF Parting
<1> QED
  BY <1>1, <1>5 DEF t

(* What the server has not done of its first line stays to be done.        *)
LEMMA PartingWithout ==
    ASSUME NEW c \in Channel, NEW d \in Channel,
           out \in Seq(Lines), out # << >>, Head(out).cmd # "JOIN 0",
           d # c \/ Head(out).cmd = "JOIN", Parting(d, out)
    PROVE  Parting(d, Without(c))
<1> DEFINE t == Without(c)
<1>1. /\ DOMAIN t = DOMAIN out
      /\ t[1].cmd = Head(out).cmd
      /\ t[1].chans = Head(out).chans \ {c}
      /\ \A i \in DOMAIN out : i # 1 => t[i] = out[i]
  BY WithoutType
<1>2. Head(out) = out[1]
  BY HeadLine
<1> HIDE DEF t
<1>3. PICK i \in DOMAIN out : Parts(d, out[i])
  BY DEF Parting
<1>4. CASE i = 1
  BY <1>1, <1>2, <1>3, <1>4 DEF Parts, Parting, t
<1>5. CASE i # 1
  BY <1>1, <1>3, <1>5 DEF Parting, t
<1> QED
  BY <1>4, <1>5

(* A line that names all channels of S is among those that may be sent,    *)
(* and no other is.                                                        *)
LEMMA FitsAll ==
    ASSUME WholeLists, NEW S \in SUBSET Channel, NEW T \in Fits(S)
    PROVE  T = S
<1>1. IsFiniteSet(Channel) /\ LineCap \in Nat
  BY ChannelsAssumption
<1>2. IsFiniteSet(S) /\ Cardinality(S) <= Cardinality(Channel)
  BY <1>1, FS_Subset
<1>3. Cardinality(S) \in Nat /\ Cardinality(Channel) \in Nat
  BY <1>1, <1>2, FS_CardinalityType
<1>4. Smaller(LineCap, Cardinality(S)) = Cardinality(S)
  BY <1>1, <1>2, <1>3 DEF WholeLists, Smaller
<1>5. T \in SUBSET S /\ Cardinality(T) = Cardinality(S)
  BY <1>4 DEF Fits
<1> QED
  BY <1>2, <1>5, FS_Subset

LEMMA NothingKnown ==
    in' = << >> /\ member' = {} /\ active' = {} => AllKnown'
<1> SUFFICES ASSUME in' = << >>, member' = {}, active' = {} PROVE AllKnown'
  OBVIOUS
<1>1. DOMAIN in' = {}
  OBVIOUS
<1>2. ASSUME NEW c PROVE ~Says(c, in', active')
  BY <1>1 DEF Says
<1> QED
  BY <1>2 DEF AllKnown, Known

(* A line for the server changes nothing of what miau takes itself to be.  *)
LEMMA SentKnown ==
    ASSUME TypeOK, AllKnown, UNCHANGED <<active, in, member>>,
           out' = out \/ \E l \in Lines : out' = Append(out, l)
    PROVE  AllKnown'
<1>1. out \in Seq(Lines)
  BY DEF TypeOK
<1>2. ASSUME NEW c \in Channel, Parting(c, out) PROVE Parting(c, out')
  BY <1>1, <1>2, PartingAppend
<1> QED
  BY <1>2 DEF AllKnown, Known

(* The last client leaves: miau takes itself off all channels, and the     *)
(* line on its way leaves them all.                                        *)
LEMMA LeavesKnown ==
    ASSUME WholeLists, SafeInv, AllKnown, ClientLeaves
    PROVE  AllKnown'
<1>0. TypeOK /\ out \in Seq(Lines) /\ active \in SUBSET Channel
  BY DEF SafeInv, TypeOK
<1>1. CASE clients = 1 /\ active # {} /\ cfg.leave
  <2>1. in' = in /\ member' = member /\ active' = {}
    BY <1>1 DEF ClientLeaves, Leave
  <2>2. \/ out' = Append(out, Line("JOIN 0", {}))
        \/ out' = Append(out, Line("PART", active))
    BY <1>0, <1>1, FitsAll DEF ClientLeaves
  <2>3. PICK l \in Lines : /\ out' = Append(out, l)
                           /\ l = Line("JOIN 0", {}) \/ l = Line("PART", active)
    <3>1. Line("JOIN 0", {}) \in Lines /\ Line("PART", active) \in Lines
      BY <1>0, LineType DEF Lines
    <3> QED
      BY <2>2, <3>1
  <2>4. ASSUME NEW c \in active PROVE Parts(c, l)
    <3>1. CASE l = Line("JOIN 0", {})
      <4>1. l.cmd = "JOIN 0"
        BY <3>1 DEF Line
      <4> QED
        BY <4>1 DEF Parts
    <3>2. CASE l = Line("PART", active)
      <4>1. l.cmd = "PART" /\ l.chans = active
        BY <3>2 DEF Line
      <4> QED
        BY <2>4, <4>1 DEF Parts
    <3> QED
      BY <2>3, <3>1, <3>2
  <2>5. ASSUME NEW c \in Channel PROVE Known(c, member', out', in', active')
    <3>1. Known(c, member, out, in, active)
      BY DEF AllKnown
    <3>2. Says(c, in, {}) => Says(c, in, active)
      BY SaysLess
    <3>3. Says(c, in, active) /\ c \notin active => Says(c, in, {})
      BY SaysLess
    <3>4. Parting(c, out') <=> Parting(c, out) \/ Parts(c, l)
      BY <1>0, <2>3, PartingAppend
    <3> QED
      BY <2>1, <2>4, <3>1, <3>2, <3>3, <3>4 DEF Known
  <2> QED
    BY <2>5 DEF AllKnown
<1>2. CASE ~(clients = 1 /\ active # {} /\ cfg.leave)
  BY <1>0, <1>2, SentKnown DEF ClientLeaves, listVars
<1> QED
  BY <1>1, <1>2

(* The server takes miau on a channel or off it and says so.               *)
LEMMA ToldKnown ==
    ASSUME TypeOK, AllKnown, active' = active,
           NEW c \in Channel, NEW cmd \in {"JOIN", "PART", "KICK"}, Tell(cmd, c),
           member' = IF cmd = "JOIN" THEN member \cup {c} ELSE member \ {c},
           \A d \in Channel \ {c} : Parting(d, out) => Parting(d, out')
    PROVE  AllKnown'
<1>1. in \in Seq(Events)
  BY DEF TypeOK
<1>2. PICK e \in Events : in' = Append(in, e) /\ e.cmd = cmd /\ e.chan = c
  BY <1>1, TellType DEF Tell
<1>3. ASSUME NEW d \in Channel PROVE Known(d, member', out', in', active')
  <2>1. Says(d, in', active')
          <=> IF d = c THEN cmd = "JOIN" ELSE Says(d, in, active)
    BY <1>1, <1>2, SaysAppend
  <2>2. Known(d, member, out, in, active)
    BY DEF AllKnown
  <2>3. CASE d = c
    BY <2>1, <2>3 DEF Known
  <2>4. CASE d # c
    <3>1. d \in member' <=> d \in member
      BY <2>4
    <3>2. Parting(d, out) => Parting(d, out')
      BY <2>4
    <3> QED
      BY <2>1, <2>2, <2>4, <3>1, <3>2 DEF Known
  <2> QED
    BY <2>3, <2>4
<1> QED
  BY <1>3 DEF AllKnown

LEMMA ServerKnown ==
    ASSUME TypeOK, Quiet, AllKnown, Server \/ \E c \in Channel : Kicked(c)
    PROVE  AllKnown'
<1>0. out \in Seq(Lines)
  BY DEF TypeOK
<1>1. ASSUME NEW c \in Channel, ServerJoins(c) PROVE AllKnown'
  <2>1. /\ out # << >> /\ Head(out).cmd = "JOIN" /\ out' = Without(c)
        /\ active' = active
        /\ \/ in' = in /\ member' = member
           \/ member' = member \cup {c} /\ Tell("JOIN", c)
    BY <1>1 DEF ServerJoins, First, listVars
  <2>2. ASSUME NEW d \in Channel, Parting(d, out) PROVE Parting(d, out')
    BY <1>0, <2>1, <2>2, PartingWithout
  <2>3. CASE in' = in /\ member' = member
    BY <2>1, <2>2, <2>3 DEF AllKnown, Known
  <2>4. CASE member' = member \cup {c} /\ Tell("JOIN", c)
    BY <2>1, <2>2, <2>4, ToldKnown
  <2> QED
    BY <2>1, <2>3, <2>4
<1>2. ASSUME NEW c \in Channel, ServerParts(c) PROVE AllKnown'
  <2>1. /\ out # << >>
        /\ \/ Head(out).cmd = "PART" /\ out' = Without(c)
           \/ out' = out
        /\ active' = active
    BY <1>2 DEF ServerParts, First, listVars
  <2>2. ASSUME NEW d \in Channel \ {c}, Parting(d, out) PROVE Parting(d, out')
    BY <1>0, <2>1, <2>2, PartingWithout
  <2>3. CASE c \in member
    <3>1. member' = member \ {c} /\ Tell("PART", c)
      BY <1>2, <2>3 DEF ServerParts
    <3> QED
      BY <2>1, <2>2, <3>1, ToldKnown
  <2>4. CASE c \notin member
    <3>1. in' = in /\ member' = member
      BY <1>2, <2>4 DEF ServerParts
    <3> QED
      BY <2>1, <2>2, <2>4, <3>1 DEF AllKnown, Known
  <2> QED
    BY <2>3, <2>4
<1>3. CASE ServerIsDone
  <2>1. /\ out # << >> /\ Head(out).chans = {} /\ out' = Tail(out)
        /\ Head(out).cmd = "JOIN 0" => member = {}
        /\ UNCHANGED <<active, in, member>>
    BY <1>3 DEF ServerIsDone, listVars
  <2>2. ASSUME NEW c \in member, c \in Channel, Parting(c, out)
        PROVE  Parting(c, out')
    <3>1. ~Parts(c, Head(out))
      BY <2>1, <2>2 DEF Parts
    <3> QED
      BY <1>0, <2>1, <2>2, <3>1, PartingTail
  <2> QED
    BY <2>1, <2>2 DEF AllKnown, Known
<1>4. ASSUME NEW c \in Channel, Kicked(c) PROVE AllKnown'
  BY <1>4, ToldKnown DEF Kicked, listVars
<1> QED
  BY <1>1, <1>2, <1>3, <1>4 DEF Server

LEMMA ReplyKnown ==
    ASSUME SafeInv, AllKnown, Reply
    PROVE  AllKnown'
<1>1. /\ in \in Seq(Events) /\ in # << >> /\ in' = Tail(in)
      /\ \A c \in Channel :
           IF Head(in).chan = c THEN c \in active' <=> Head(in).cmd = "JOIN"
                                ELSE c \in active' <=> c \in active
  BY ReplyFacts
<1>2. out' = out /\ member' = member
  BY DEF Reply
<1>3. ASSUME NEW c \in Channel PROVE Says(c, in', active') <=> Says(c, in, active)
  BY <1>1, SaysTail
<1> QED
  BY <1>2, <1>3 DEF AllKnown, Known

LEMMA MiauKnown ==
    ASSUME SafeInv, AllKnown,
           Welcome \/ ServerDrop \/ JoinTimer
           \/ \E new \in Configs, drop \in BOOLEAN : Rehash(new, drop)
    PROVE  AllKnown'
<1>0. TypeOK
  BY DEF SafeInv
<1>1. CASE Welcome
  BY <1>1 DEF Welcome, AllKnown
<1>2. CASE ServerDrop
  BY <1>2, NothingKnown DEF ServerDrop, Leave
<1>3. CASE JoinTimer
  <2>1. \/ out' = out
        \/ \E S \in SUBSET Channel : out' = Append(out, Line("JOIN", S))
    BY <1>0, <1>3, JoinPassiveFacts DEF JoinTimer
  <2>2. out' = out \/ \E l \in Lines : out' = Append(out, l)
    BY <2>1, LineType
  <2> QED
    BY <1>0, <1>3, <2>2, SentKnown DEF JoinTimer
<1>4. ASSUME NEW new \in Configs, NEW drop \in BOOLEAN, Rehash(new, drop)
      PROVE  AllKnown'
  <2>1. CASE drop /\ registered
    BY <1>4, <2>1, NothingKnown DEF Rehash, Leave
  <2>2. CASE ~(drop /\ registered)
    BY <1>4, <2>2 DEF Rehash, listVars, AllKnown
  <2> QED
    BY <2>1, <2>2
<1> QED
  BY <1>1, <1>2, <1>3, <1>4

LEMMA ClientKnown ==
    ASSUME SafeInv, AllKnown,
           ClientAttaches \/ ClientPartsAll
           \/ \E c \in Channel : ClientJoins(c) \/ ClientParts(c)
    PROVE  AllKnown'
<1>0. TypeOK /\ Line("JOIN 0", {}) \in Lines
  BY DEF SafeInv, Lines
<1>1. CASE ClientAttaches
  <2>1. CASE registered
    <3>1. \/ out' = out
          \/ \E S \in SUBSET Channel : out' = Append(out, Line("JOIN", S))
      BY <1>0, <1>1, <2>1, JoinPassiveFacts DEF ClientAttaches
    <3>2. out' = out \/ \E l \in Lines : out' = Append(out, l)
      BY <3>1, LineType
    <3> QED
      BY <1>0, <1>1, <3>2, SentKnown DEF ClientAttaches
  <2>2. CASE ~registered
    BY <1>0, <1>1, <2>2, SentKnown DEF ClientAttaches
  <2> QED
    BY <2>1, <2>2
<1>2. CASE ClientPartsAll
  BY <1>0, <1>2, SentKnown DEF ClientPartsAll, Forget, listVars
<1>3. ASSUME NEW c \in Channel, ClientJoins(c) PROVE AllKnown'
  <2>1. Line("JOIN", {c}) \in Lines
    BY LineType
  <2> QED
    BY <1>0, <1>3, <2>1, SentKnown DEF ClientJoins, Want, listVars
<1>4. ASSUME NEW c \in Channel, ClientParts(c) PROVE AllKnown'
  <2>1. Line("PART", {c}) \in Lines
    BY LineType
  <2> QED
    BY <1>0, <1>4, <2>1, SentKnown DEF ClientParts, Forget, listVars
<1> QED
  BY <1>1, <1>2, <1>3, <1>4

LEMMA StepKnown ==
    WholeLists /\ SafeInv /\ AllKnown /\ [Next]_vars => AllKnown'
<1> SUFFICES ASSUME WholeLists, SafeInv, AllKnown, [Next]_vars
             PROVE  AllKnown'
  OBVIOUS
<1>1. CASE UNCHANGED vars
  BY <1>1 DEF AllKnown, vars, listVars
<1>2. CASE Next
  <2>1. TypeOK /\ Quiet
    BY DEF SafeInv
  <2> QED
    BY <1>2, <2>1, MiauKnown, ClientKnown, LeavesKnown, ServerKnown, ReplyKnown
    DEF Next
<1> QED
  BY <1>1, <1>2

LEMMA KnownAgrees == SafeInv /\ AllKnown => Agreement
<1> SUFFICES ASSUME SafeInv, AllKnown, out = << >>, in = << >>
             PROVE  active = member
  BY DEF Agreement
<1>1. DOMAIN in = {} /\ DOMAIN out = {}
  OBVIOUS
<1>2. ASSUME NEW c \in Channel
      PROVE  (Says(c, in, active) <=> c \in active) /\ ~Parting(c, out)
  BY <1>1 DEF Says, Parting
<1>3. ASSUME NEW c \in Channel PROVE c \in member <=> c \in active
  BY <1>2 DEF AllKnown, Known
<1>4. active \subseteq Channel /\ member \subseteq Channel
  BY DEF SafeInv, TypeOK
<1> QED
  BY <1>3, <1>4
------------------------------------------------------------------------------
LEMMA AlwaysSafe == Spec => []SafeInv
BY InitSafe, StepSafe, PTL DEF Spec

(* The lists of channels.c hold channels, their jointries stay between     *)
(* JOINTRIES_UNSET and the largest cfg.jointries, and the lines both ways  *)
(* are of the kinds that miau and the server send.                         *)
THEOREM TypeCorrect == Spec => []TypeOK
<1>1. SafeInv => TypeOK
  BY DEF SafeInv
<1> QED
  BY <1>1, AlwaysSafe, PTL

(* channel_add() and channel_rem() keep a channel on one of the active and *)
(* the passive list, and a lost connection takes all off the active one.   *)
THEOREM OneHomeHolds == Spec => []OneHome
<1>1. SafeInv => OneHome
  BY DEF SafeInv
<1> QED
  BY <1>1, AlwaysSafe, PTL

(* When no line is on its way, active_channels is where the server has     *)
(* miau, for any number of channels whose names fit into one line of       *)
(* irc_write().                                                            *)
THEOREM AgreementHolds == WholeLists => (Spec => []Agreement)
<1> SUFFICES ASSUME WholeLists PROVE Spec => []Agreement
  OBVIOUS
<1>1. Init => AllKnown
  BY DEF Init, AllKnown, Known, Says
<1>2. SafeInv /\ AllKnown /\ [Next]_vars => AllKnown'
  BY StepKnown
<1> QED
  BY <1>1, <1>2, AlwaysSafe, KnownAgrees, PTL DEF Spec
------------------------------------------------------------------------------
(* Automatic modes and logs.  What is counted are the queued modes.        *)
CountInv ==
    /\ IsFiniteSet(queue)
    /\ automodes \in Nat
    /\ Covered

(* Less on the queue, and the count as it was.                             *)
LEMMA FewerCounted ==
    ASSUME CountInv, queue' \subseteq queue, UNCHANGED automodes
    PROVE CountInv'
<1>1. IsFiniteSet(queue') /\ Cardinality(queue') <= Cardinality(queue)
  BY FS_Subset DEF CountInv
<1>2. Cardinality(queue) \in Nat /\ Cardinality(queue') \in Nat
  BY <1>1, FS_CardinalityType DEF CountInv
<1> QED
  BY <1>1, <1>2 DEF CountInv, Covered

LEMMA QueuedCounted ==
    ASSUME CountInv, NEW c, NEW n, NEW granted \in SUBSET Modes,
           AutomodeQueue(c, n, granted)
    PROVE CountInv'
<1> DEFINE new == {<<c, n, m>> : m \in granted} \ queue
<1>1. queue' = queue \cup new /\ automodes' = automodes + Cardinality(new)
  BY DEF AutomodeQueue
<1>2. new \subseteq {<<c, n, "o">>} \cup {<<c, n, "v">>}
  BY DEF Modes
<1> DEFINE o == <<c, n, "o">>
           v == <<c, n, "v">>
<1>3. IsFiniteSet({o} \cup {v})
  <2> HIDE DEF o, v
  <2>1. IsFiniteSet({o})
    BY FS_Singleton
  <2> QED
    BY <2>1, FS_AddElement
<1>4. IsFiniteSet(new)
  BY <1>2, <1>3, FS_Subset
<1>5. queue \cap new = {}
  OBVIOUS
<1> HIDE DEF new
<1>6. /\ IsFiniteSet(queue')
      /\ Cardinality(queue') = Cardinality(queue) + Cardinality(new) - Cardinality({})
  BY <1>1, <1>4, <1>5, FS_Union DEF CountInv
<1>7. Cardinality(queue) \in Nat /\ Cardinality(new) \in Nat /\ Cardinality({}) = 0
  BY <1>4, FS_CardinalityType, FS_EmptySet DEF CountInv
<1> QED
  BY <1>1, <1>6, <1>7 DEF CountInv, Covered

LEMMA GivenCounted ==
    ASSUME CountInv, AutomodeTimer
    PROVE CountInv'
<1>1. queue' = queue \ Granted /\ automodes' = automodes - Cardinality(Granted)
  BY DEF AutomodeTimer
<1>2. queue \cap Granted = Granted /\ Granted \subseteq queue
  BY DEF Granted
<1>3. /\ IsFiniteSet(queue')
      /\ Cardinality(queue') = Cardinality(queue) - Cardinality(Granted)
  BY <1>1, <1>2, FS_Difference DEF CountInv
<1>4. IsFiniteSet(Granted)
  BY <1>2, FS_Subset DEF CountInv
<1>5. /\ Cardinality(queue) \in Nat /\ Cardinality(Granted) \in Nat
      /\ Cardinality(queue') \in Nat
  BY <1>3, <1>4, FS_CardinalityType DEF CountInv
<1> QED
  BY <1>1, <1>3, <1>5 DEF CountInv, Covered

LEMMA NewsCounted ==
    ASSUME CountInv, NewsReply
    PROVE CountInv'
<1> DEFINE e == Head(in)
<1>1. CASE e.cmd = "NAMES" /\ NamesReply(e.chan, e.alone)
  BY <1>1, FewerCounted DEF NamesReply
<1>2. CASE e.cmd = "MODE" /\ ModesChange(e.chan, e.line)
  <2>1. queue' \subseteq queue /\ UNCHANGED automodes
    BY <1>2 DEF ModesChange
  <2> QED
    BY <2>1, FewerCounted
<1>3. ASSUME NEW granted \in SUBSET Modes, AutomodeQueue(e.chan, e.nick, granted)
      PROVE CountInv'
  BY <1>3, QueuedCounted
<1>4. CASE \/ AutomodeDrop({e.chan} \cap active, e.nick)
           \/ AutomodeDrop(active, e.nick)
           \/ UNCHANGED automodeVars
  BY <1>4, FewerCounted DEF AutomodeDrop, automodeVars
<1> QED
  BY <1>1, <1>2, <1>3, <1>4 DEF NewsReply

LEMMA StepCounted == CountInv /\ [StateNext]_stateVars => CountInv'
<1> SUFFICES ASSUME CountInv, [StateNext]_stateVars PROVE CountInv'
  OBVIOUS
<1>1. CASE ListStep
  BY <1>1, FewerCounted DEF ListStep, Follow, AutomodeFollows, FollowQueue
<1>2. ASSUME NEW new, NEW drop, NEW r, RehashAll(new, drop, r)
      PROVE CountInv'
  BY <1>2, FewerCounted DEF RehashAll, AutomodeFollows, FollowQueue
<1>3. CASE ServerStep
  BY <1>3, FewerCounted DEF ServerStep, Admits, automodeVars
<1>4. CASE PeopleStep
  BY <1>4, FewerCounted DEF PeopleStep, Names, PersonJoins, PersonLeaves, PersonQuits,
                            ModesAreChanged, Elsewhere, automodeVars
<1>5. CASE NewsReply
  BY <1>5, NewsCounted
<1>6. CASE GiveModes
  BY <1>6, GivenCounted DEF GiveModes
<1>7. CASE UNCHANGED stateVars
  BY <1>7, FewerCounted DEF stateVars, automodeVars
<1> QED
  BY <1>1, <1>2, <1>3, <1>4, <1>5, <1>6, <1>7 DEF StateNext

(* status.automodes is never less than the modes that are queued, for any  *)
(* number of people and channels: no mode is left behind by a timer that   *)
(* thinks that there is none.                                              *)
THEOREM CoveredHolds == StateSpec => []Covered
<1>1. StateInit => CountInv
  BY FS_EmptySet DEF StateInit, AutomodeInit, CountInv, Covered
<1>2. CountInv => Covered
  BY DEF CountInv
<1> QED
  BY <1>1, <1>2, StepCounted, PTL DEF StateSpec

(* chanlog_open() gives a channel the log that the rules ask for.          *)
LEMMA OpenedIsLogged ==
    ASSUME NEW r, NEW c, NEW l, NEW k \in ChanlogOpen(r, c, l)
    PROVE /\ c \in r.own => k \in {"own", "failed"}
          /\ r.all => k # "none"
  BY DEF ChanlogOpen

LEMMA FollowLogged ==
    ASSUME ActiveIsLogged, ChanlogFollows, active' \subseteq Channel
    PROVE ActiveIsLogged'
<1> SUFFICES ASSUME NEW c \in active'
             PROVE /\ c \in rules.own => log'[c] \in {"own", "failed"}
                   /\ rules.all => log'[c] # "none"
  BY DEF ActiveIsLogged, ChanlogFollows
<1>1. CASE c \in active
  <2>1. log'[c] = log[c]
    BY <1>1 DEF ChanlogFollows
  <2> QED
    BY <1>1, <2>1 DEF ActiveIsLogged, ChanlogFollows
<1>2. CASE c \notin active
  <2>1. log'[c] \in ChanlogOpen(rules, c, log[c])
    BY <1>2 DEF ChanlogFollows
  <2> QED
    BY <2>1, OpenedIsLogged
<1> QED
  BY <1>1, <1>2

LEMMA RehashLogged ==
    ASSUME NEW r, ChanlogRehash(r), active' \subseteq active, active \subseteq Channel
    PROVE ActiveIsLogged'
<1> SUFFICES ASSUME NEW c \in active'
             PROVE /\ c \in r.own => log'[c] \in {"own", "failed"}
                   /\ r.all => log'[c] # "none"
  BY DEF ActiveIsLogged, ChanlogRehash
<1>1. log'[c] \in ChanlogOpen(r, c, "none")
  BY DEF ChanlogRehash
<1> QED
  BY <1>1, OpenedIsLogged

(* What the server says is about channels, and so is the active list.      *)
Spoken ==
    /\ active \subseteq Channel
    /\ in \in Seq(Events \cup News)

LEMMA ListStepSpoken ==
    ASSUME Spoken, ListStep
    PROVE Spoken'
<1>1. CASE Welcome \/ JoinTimer \/ ClientAttaches
  BY <1>1 DEF Spoken, Welcome, JoinTimer, ClientAttaches
<1>2. CASE ServerDrop
  BY <1>2 DEF Spoken, ServerDrop, Leave
<1>3. CASE ClientLeaves
  BY <1>3 DEF Spoken, ClientLeaves, Leave, listVars
<1>4. ASSUME NEW c \in Channel, ClientJoins(c) \/ ClientParts(c) \/ ClientPartsAll
      PROVE Spoken'
  BY <1>4 DEF Spoken, ClientJoins, ClientParts, ClientPartsAll, Want, Forget, listVars
<1>5. CASE ClientPartsAll
  BY <1>5 DEF Spoken, ClientPartsAll, Forget, listVars
<1>6. CASE in # << >> /\ Head(in).cmd \in ListCmds /\ Reply
  <2>1. in' \in Seq(Events \cup News) /\ Head(in) \in Events \cup News
    BY <1>6 DEF Spoken, Reply
  <2>2. Head(in).chan \in Channel
    BY <1>6, <2>1 DEF Events, News, ListCmds
  <2>3. active' \subseteq active \cup {Head(in).chan}
    BY <1>6 DEF Reply, Activate, Deactivate, listVars
  <2> QED
    BY <2>1, <2>2, <2>3 DEF Spoken
<1> QED
  BY <1>1, <1>2, <1>3, <1>4, <1>5, <1>6 DEF ListStep

LEMMA PeopleSpoken ==
    ASSUME Spoken, PeopleStep
    PROVE Spoken' /\ UNCHANGED <<active, rules, log>>
<1>1. UNCHANGED <<active, rules, log>>
  BY DEF PeopleStep, Names, PersonJoins, PersonLeaves, PersonQuits, ModesAreChanged,
         Elsewhere, listVars, chanlogVars
<1>2. ASSUME NEW e \in News, Send(e)
      PROVE in' \in Seq(Events \cup News)
  BY <1>2 DEF Send, Spoken
<1>3. ASSUME NEW c \in Channel, Names(c)
      PROVE in' \in Seq(Events \cup News)
  BY <1>2, <1>3 DEF Names, News
<1>4. ASSUME NEW c \in Channel, NEW n \in Nick, PersonJoins(c, n)
      PROVE in' \in Seq(Events \cup News)
  <2>1. [cmd |-> "JOINED", chan |-> c, nick |-> n] \in News
    BY DEF News
  <2> QED
    BY <1>2, <1>4, <2>1 DEF PersonJoins, Told, Spoken
<1>5. ASSUME NEW c \in Channel, NEW n \in Nick, NEW how \in {"PARTED", "KICKED"},
             PersonLeaves(c, n, how)
      PROVE in' \in Seq(Events \cup News)
  <2>1. [cmd |-> how, chan |-> c, nick |-> n] \in News
    BY DEF News
  <2> QED
    BY <1>2, <1>5, <2>1 DEF PersonLeaves, Told, Spoken
<1>6. ASSUME NEW n \in Nick, PersonQuits(n)
      PROVE in' \in Seq(Events \cup News)
  <2>1. [cmd |-> "QUIT", nick |-> n] \in News
    BY DEF News
  <2> QED
    BY <1>2, <1>6, <2>1 DEF PersonQuits, Spoken
<1>7. ASSUME NEW c \in Channel, NEW line \in ModeLines, ModesAreChanged(c, line)
      PROVE in' \in Seq(Events \cup News)
  <2>1. [cmd |-> "MODE", chan |-> c, line |-> line] \in News
    BY DEF News
  <2> QED
    BY <1>2, <1>7, <2>1 DEF ModesAreChanged
<1>8. in' \in Seq(Events \cup News)
  BY <1>3, <1>4, <1>5, <1>6, <1>7 DEF PeopleStep
<1> QED
  BY <1>1, <1>8 DEF Spoken

LEMMA ServerSpoken ==
    ASSUME Spoken, ServerStep
    PROVE Spoken' /\ UNCHANGED <<active, rules, log>>
<1>1. UNCHANGED <<active, rules, log>>
  BY DEF ServerStep, Admits, ServerJoins, ServerParts, ServerIsDone, Kicked, listVars,
         chanlogVars
<1>2. ASSUME NEW c \in Channel, NEW cmd \in {"JOIN", "PART", "KICK"}, Tell(cmd, c)
      PROVE in' \in Seq(Events \cup News)
  BY <1>2 DEF Tell, Event, Events, Spoken
<1>3. in' \in Seq(Events \cup News)
  BY <1>2 DEF ServerStep, Admits, ServerJoins, ServerParts, ServerIsDone, Kicked, Spoken
<1> QED
  BY <1>1, <1>3 DEF Spoken

LEMMA StepLogged ==
    Spoken /\ ActiveIsLogged /\ [StateNext]_stateVars => Spoken' /\ ActiveIsLogged'
<1> SUFFICES ASSUME Spoken, ActiveIsLogged, [StateNext]_stateVars
             PROVE Spoken' /\ ActiveIsLogged'
  OBVIOUS
<1>1. CASE ListStep
  <2>1. Spoken'
    BY <1>1, ListStepSpoken
  <2> QED
    BY <1>1, <2>1, FollowLogged DEF ListStep, Follow, Spoken
<1>2. ASSUME NEW new \in Configs, NEW drop \in BOOLEAN, NEW r \in Rules,
             RehashAll(new, drop, r)
      PROVE Spoken' /\ ActiveIsLogged'
  <2>1. active' \subseteq active /\ in' \in {in, << >>}
    BY <1>2 DEF RehashAll, Rehash, Leave, listVars
  <2> DEFINE says == Seq(Events \cup News)
  <2>2. in' \in says
    <3>1. in \in says /\ << >> \in says
      BY DEF Spoken
    <3> HIDE DEF says
    <3> QED
      BY <2>1, <3>1
  <2>3. Spoken'
    BY <2>1, <2>2 DEF Spoken
  <2> QED
    BY <1>2, <2>1, <2>3, RehashLogged DEF RehashAll, Spoken
<1>3. CASE ServerStep
  BY <1>3, ServerSpoken DEF ActiveIsLogged
<1>4. CASE PeopleStep
  BY <1>4, PeopleSpoken DEF ActiveIsLogged
<1>5. CASE NewsReply
  <2>1. in # << >> /\ in' = Tail(in) /\ UNCHANGED <<active, rules, log>>
    BY <1>5 DEF NewsReply, listVars, chanlogVars
  <2> QED
    BY <2>1 DEF Spoken, ActiveIsLogged
<1>6. CASE GiveModes
  BY <1>6 DEF GiveModes, vars, listVars, chanlogVars, Spoken, ActiveIsLogged
<1>7. CASE UNCHANGED stateVars
  BY <1>7 DEF stateVars, vars, listVars, chanlogVars, Spoken, ActiveIsLogged
<1> QED
  BY <1>1, <1>2, <1>3, <1>4, <1>5, <1>6, <1>7 DEF StateNext

(* An active channel has the log that the rules ask for after every step,  *)
(* also after rejoining with a log that is still open and after a REHASH   *)
(* that changes the rules, for any number of channels.                     *)
THEOREM LoggedHolds == StateSpec => []ActiveIsLogged
<1>1. StateInit => Spoken /\ ActiveIsLogged
  BY DEF StateInit, Init, Spoken, ActiveIsLogged
<1> QED
  BY <1>1, StepLogged, PTL DEF StateSpec
------------------------------------------------------------------------------
(* What parse_modes() makes of a line.  There is no induction here but by  *)
(* the least number of those where something is wrong.                     *)
LEMMA Least ==
    ASSUME NEW T \in SUBSET Nat, T # {}
    PROVE \E x \in T : \A y \in T : x <= y
<1> DEFINE R == OpToRel(<, Nat)
<1>1. IsWellFoundedOn(R, Nat)
  BY NatLessThanWellFounded
<1>2. \A x, y \in Nat : x < y => <<x, y>> \in R
  BY DEF OpToRel
<1> HIDE DEF R
<1>3. PICK x \in T : \A y \in T : ~ (<<y, x>> \in R)
  BY <1>1, WFMin
<1>4. \A y \in T : ~ (y < x)
  BY <1>2, <1>3, Zenon
<1>5. \A y \in T : x <= y
  BY <1>4
<1> QED
  BY <1>5

(* A function that is defined from its value before exists.                *)
Exists(S, start, n, step) ==
    \E f \in [0 .. n -> S] :
        f[0] = start /\ \A i \in 1 .. n : f[i] = step[<<i, f[i - 1]>>]

LEMMA Iterated ==
    ASSUME NEW S, NEW start \in S, NEW n \in Nat, NEW step \in [(1 .. n) \X S -> S]
    PROVE Exists(S, start, n, step)
<1> DEFINE Goes(m, f) == f[0] = start /\ \A i \in 1 .. m : f[i] = step[<<i, f[i - 1]>>]
           T == {m \in 0 .. n : \A f \in [0 .. m -> S] : ~Goes(m, f)}
<1>1. SUFFICES ASSUME T # {} PROVE FALSE
  BY DEF Exists
<1>2. PICK m \in T : \A k \in T : m <= k
  <2>1. T \in SUBSET Nat
    OBVIOUS
  <2> HIDE DEF T
  <2> QED
    BY <1>1, <2>1, Least
<1>3. CASE m = 0
  <2> DEFINE f == [i \in 0 .. 0 |-> start]
  <2>1. f \in [0 .. m -> S] /\ Goes(m, f)
    BY <1>3
  <2> QED
    BY <1>2, <2>1
<1>4. CASE m # 0
  <2>1. m \in 1 .. n /\ m - 1 \in 0 .. n /\ m - 1 \notin T
    BY <1>2, <1>4
  <2>2. PICK f \in [0 .. m - 1 -> S] : Goes(m - 1, f)
    BY <2>1
  <2> DEFINE g == [i \in 0 .. m |-> IF i = m THEN step[<<m, f[m - 1]>>] ELSE f[i]]
  <2>3. step[<<m, f[m - 1]>>] \in S
    BY <2>1, <2>2
  <2>4. g \in [0 .. m -> S]
    BY <2>1, <2>2, <2>3
  <2>5. g[0] = start
    BY <2>1, <2>2
  <2>6. ASSUME NEW i \in 1 .. m PROVE g[i] = step[<<i, g[i - 1]>>]
    <3>1. CASE i = m
      BY <2>1, <3>1
    <3>2. CASE i # m
      <4>1. i \in 1 .. m - 1 /\ i - 1 \in 0 .. m - 1 /\ i - 1 # m /\ i \in 0 .. m
        BY <2>1, <3>2
      <4>2. g[i] = f[i] /\ g[i - 1] = f[i - 1]
        BY <4>1, <3>2, <2>1
      <4> QED
        BY <4>1, <4>2, <2>2
    <3> QED
      BY <3>1, <3>2
  <2> QED
    BY <1>2, <2>4, <2>5, <2>6
<1> QED
  BY <1>3, <1>4

Who == Nick \cup {Me} \cup STRING
Acts == [sign : {"+", "-"}, flag : Modes, who : Who]
Parses == [sign : {"+", "-"}, used : Nat, acts : Seq(Acts)]
ParseStart == [sign |-> "+", used |-> 0, acts |-> << >>]

LEMMA ParseFlagType ==
    ASSUME NEW line \in ModeLines, NEW i \in 1 .. Len(line.flags), NEW s \in Parses
    PROVE ParseFlag(line, s, i) \in Parses
<1> DEFINE flag == line.flags[i]
           next == [s EXCEPT !.used = @ + 1]
           act == [sign |-> s.sign, flag |-> flag, who |-> line.params[next.used]]
<1>2. next \in Parses /\ next.used \in Nat /\ next.used > 0
  BY DEF Parses
<1>3. CASE flag \in {"+", "-"}
  <2>1. ParseFlag(line, s, i) = [s EXCEPT !.sign = flag]
    BY <1>3 DEF ParseFlag, Modes
  <2> QED
    BY <1>3, <2>1 DEF Parses
<1>4. CASE flag \in Modes /\ next.used <= Len(line.params)
  <2>1. ParseFlag(line, s, i) = [next EXCEPT !.acts = Append(@, act)]
    BY <1>4 DEF ParseFlag, Modes
  <2>2. line.params \in Seq(Who)
    BY StateAssumption DEF Who
  <2>3. line.params[next.used] \in Who
    <3>1. next.used \in 1 .. Len(line.params)
      BY <1>2, <1>4, <2>2, LenProperties
    <3> QED
      BY <3>1, <2>2, ElementOfSeq
  <2>4. act \in Acts
    BY <1>4, <2>3 DEF Acts, Parses
  <2>5. next.acts \in Seq(Acts)
    BY <1>2 DEF Parses
  <2>6. Append(next.acts, act) \in Seq(Acts)
    BY <2>4, <2>5, AppendProperties
  <2> HIDE DEF act, next
  <2> QED
    BY <2>1, <2>6, <1>2 DEF Parses
<1>5. CASE ~(flag \in {"+", "-"}) /\ ~(flag \in Modes /\ next.used <= Len(line.params))
  <2>1. ParseFlag(line, s, i) \in {next, s}
    BY <1>5 DEF ParseFlag, Modes
  <2> QED
    BY <2>1, <1>2
<1> QED
  BY <1>3, <1>4, <1>5

(* ParseModes goes through the flags one by one.                           *)
LEMMA ParsedInTurn ==
    ASSUME NEW line \in ModeLines
    PROVE \E f \in [0 .. Len(line.flags) -> Parses] :
              /\ f[0] = ParseStart
              /\ \A i \in 1 .. Len(line.flags) : f[i] = ParseFlag(line, f[i - 1], i)
              /\ ParseModes(line) = f[Len(line.flags)].acts
<1> DEFINE n == Len(line.flags)
           step == [x \in (1 .. n) \X Parses |-> ParseFlag(line, x[2], x[1])]
           Read(f) == [i \in 0 .. n |->
                          IF i = 0 THEN [sign |-> "+", used |-> 0, acts |-> << >>]
                          ELSE ParseFlag(line, f[i - 1], i)]
<1>1. n \in Nat
  BY StateAssumption, LenProperties
<1>2. step \in [(1 .. n) \X Parses -> Parses]
  BY ParseFlagType
<1>3. ParseStart \in Parses
  <2>1. << >> \in Seq(Acts)
    BY EmptySeq
  <2>2. ASSUME NEW e \in Seq(Acts)
        PROVE [sign |-> "+", used |-> 0, acts |-> e] \in Parses
    BY DEF Parses
  <2> QED
    BY <2>1, <2>2, Zenon DEF ParseStart
<1>4. PICK f \in [0 .. n -> Parses] :
          f[0] = ParseStart /\ \A i \in 1 .. n : f[i] = step[<<i, f[i - 1]>>]
  <2>1. Exists(Parses, ParseStart, n, step)
    <3> HIDE DEF n, step
    <3> QED
      BY <1>1, <1>2, <1>3, Iterated, Zenon
  <2> QED
    BY <2>1, Zenon DEF Exists
<1>5. \A i \in 1 .. n : f[i] = ParseFlag(line, f[i - 1], i)
  <2> SUFFICES ASSUME NEW i \in 1 .. n PROVE f[i] = ParseFlag(line, f[i - 1], i)
    OBVIOUS
  <2>1. i - 1 \in 0 .. n
    BY <1>1
  <2>2. <<i, f[i - 1]>> \in (1 .. n) \X Parses
    BY <1>4, <2>1
  <2> QED
    BY <1>4, <2>2
<1>6. f = Read(f)
  BY <1>1, <1>4, <1>5 DEF ParseStart
<1> DEFINE g == CHOOSE h : h = Read(h)
<1>7. g = Read(g)
  BY <1>6
<1>8. ParseModes(line) = g[n].acts
  BY DEF ParseModes
<1>9. g[n] = f[n]
  <2> HIDE DEF g
  <2> DEFINE T == {i \in 0 .. n : g[i] # f[i]}
  <2>1. SUFFICES ASSUME T # {} PROVE FALSE
    BY <1>1
  <2>2. PICK i \in T : \A j \in T : i <= j
    <3>1. T \in SUBSET Nat
      OBVIOUS
    <3> HIDE DEF T
    <3> QED
      BY <2>1, <3>1, Least
  <2>3. CASE i = 0
    BY <1>1, <1>7, <1>4, <2>2, <2>3 DEF ParseStart
  <2>4. CASE i # 0
    <3>1. /\ i \in 1 .. n /\ i \in 0 .. n
          /\ i - 1 \in 0 .. n /\ i - 1 \notin T
      BY <1>1, <2>2, <2>4
    <3>2. g[i - 1] = f[i - 1]
      BY <3>1
    <3>3. g[i] = ParseFlag(line, g[i - 1], i)
      BY <1>1, <1>7, <2>4, <3>1
    <3> QED
      BY <1>5, <2>2, <3>1, <3>2, <3>3
  <2> QED
    BY <2>3, <2>4
<1> QED
  BY <1>4, <1>5, <1>8, <1>9

(* How many parameters the flags of a line have used.                      *)
Used(line, i) == Cardinality({j \in 1 .. i : Takes(line, j)})

LEMMA SignStep ==
    ASSUME NEW line, NEW i \in Nat \ {0}
    PROVE Sign(line, i) = IF line.flags[i] \in {"+", "-"} THEN line.flags[i]
                          ELSE Sign(line, i - 1)
<1> DEFINE signs(k) == {j \in 1 .. k : line.flags[j] \in {"+", "-"}}
           last(k) == CHOOSE j \in signs(k) : \A l \in signs(k) : l <= j
<1>1. CASE line.flags[i] \in {"+", "-"}
  <2>1. i \in signs(i) /\ \A l \in signs(i) : l <= i
    BY <1>1
  <2>2. last(i) \in signs(i) /\ \A l \in signs(i) : l <= last(i)
    BY <2>1
  <2>3. last(i) = i
    BY <2>1, <2>2
  <2> QED
    BY <1>1, <2>1, <2>3 DEF Sign
<1>2. CASE line.flags[i] \notin {"+", "-"}
  <2> DEFINE Lasting(S) == IF S = {} THEN "+"
                           ELSE line.flags[CHOOSE j \in S : \A l \in S : l <= j]
  <2>1. signs(i) = signs(i - 1)
    BY <1>2
  <2>2. Sign(line, i) = Lasting(signs(i)) /\ Sign(line, i - 1) = Lasting(signs(i - 1))
    BY DEF Sign
  <2> HIDE DEF signs
  <2> QED
    BY <1>2, <2>1, <2>2
<1> QED
  BY <1>1, <1>2

LEMMA UsedStep ==
    ASSUME NEW line, NEW i \in Nat \ {0}
    PROVE /\ Used(line, i) = IF Takes(line, i) THEN Used(line, i - 1) + 1
                             ELSE Used(line, i - 1)
          /\ Used(line, i) \in Nat
          /\ Used(line, i - 1) \in Nat
<1> DEFINE took(k) == {j \in 1 .. k : Takes(line, j)}
<1>1. IsFiniteSet(took(i)) /\ IsFiniteSet(took(i - 1))
  <2>1. IsFiniteSet(1 .. i)
    BY FS_Interval
  <2>2. took(i) \subseteq 1 .. i /\ took(i - 1) \subseteq 1 .. i
    OBVIOUS
  <2> QED
    BY <2>1, <2>2, FS_Subset
<1>2. Used(line, i) = Cardinality(took(i)) /\ Used(line, i - 1) = Cardinality(took(i - 1))
  BY DEF Used
<1>3. CASE Takes(line, i)
  <2>1. took(i) = took(i - 1) \cup {i} /\ i \notin took(i - 1)
    BY <1>3
  <2> HIDE DEF took
  <2>2. Cardinality(took(i)) = Cardinality(took(i - 1)) + 1
    BY <1>1, <2>1, FS_AddElement
  <2> QED
    BY <1>1, <1>2, <1>3, <2>2, FS_CardinalityType
<1>4. CASE ~Takes(line, i)
  <2>1. took(i) = took(i - 1)
    BY <1>4
  <2> HIDE DEF took
  <2> QED
    BY <1>1, <1>2, <1>4, <2>1, FS_CardinalityType
<1> QED
  BY <1>3, <1>4

LEMMA UsedFits ==
    ASSUME NEW line \in ModeLines, NEW i \in 0 .. Len(line.flags)
    PROVE Used(line, i) <= Len(line.params) /\ Len(line.params) \in Nat
<1> DEFINE all == {j \in DOMAIN line.flags : Takes(line, j)}
           took == {j \in 1 .. i : Takes(line, j)}
<1>1. DOMAIN line.flags = 1 .. Len(line.flags) /\ Len(line.flags) \in Nat
  BY StateAssumption, LenProperties
<1>2. Len(line.params) \in Nat
  BY StateAssumption, LenProperties
<1>3. IsFiniteSet(all)
  <2>1. IsFiniteSet(1 .. Len(line.flags))
    BY <1>1, FS_Interval
  <2> QED
    BY <1>1, <2>1, FS_Subset
<1>4. took \subseteq all
  BY <1>1
<1>5. Cardinality(all) <= Len(line.params)
  BY StateAssumption
<1>6. IsFiniteSet(took) /\ Cardinality(took) <= Cardinality(all)
  <2> HIDE DEF took, all
  <2> QED
    BY <1>3, <1>4, FS_Subset
<1>7. Cardinality(took) \in Nat /\ Cardinality(all) \in Nat
  <2> HIDE DEF took, all
  <2> QED
    BY <1>3, <1>6, FS_CardinalityType
<1> QED
  BY <1>2, <1>5, <1>6, <1>7 DEF Used

(* The modes of a line that are miau's own, as the server means them, and  *)
(* as miau has found them.                                                 *)
Own(line, i) == {j \in 1 .. i : line.flags[j] = "o" /\ Param(line, j) = Me}
OwnActs(acts) == {k \in DOMAIN acts : acts[k].who = Me /\ acts[k].flag = "o"}
IsLast(k, S) == k \in S /\ \A j \in S : j <= k

ReadsRight(line, i, s) ==
    /\ s.sign = Sign(line, i)
    /\ s.used = Used(line, i)
    /\ Own(line, i) = {} <=> OwnActs(s.acts) = {}
    /\ \A j, k : IsLast(j, Own(line, i)) /\ IsLast(k, OwnActs(s.acts)) =>
           s.acts[k].sign = Sign(line, j)

LEMMA ReadsOn ==
    ASSUME NEW line \in ModeLines, NEW i \in 1 .. Len(line.flags),
           NEW s \in Parses, ReadsRight(line, i - 1, s)
    PROVE ReadsRight(line, i, ParseFlag(line, s, i))
<1> DEFINE flag == line.flags[i]
           next == [s EXCEPT !.used = @ + 1]
           act == [sign |-> s.sign, flag |-> flag, who |-> line.params[next.used]]
           t == ParseFlag(line, s, i)
<1> SUFFICES ReadsRight(line, i, t)
  OBVIOUS
<1>1. i \in Nat \ {0} /\ i \in 0 .. Len(line.flags)
  BY StateAssumption, LenProperties
<1>2. /\ s.sign = Sign(line, i - 1)
      /\ s.used = Used(line, i - 1)
      /\ Used(line, i - 1) \in Nat
      /\ next.used = Used(line, i - 1) + 1
      /\ next.sign = s.sign /\ next.acts = s.acts
      /\ s.acts \in Seq(Acts)
  BY <1>1, UsedStep DEF ReadsRight, Parses
<1>3. flag \in Modes => Takes(line, i) /\ next.used <= Len(line.params)
  <2>1. flag \in Modes => Takes(line, i)
    BY DEF Modes, Takes
  <2> QED
    BY <1>1, <1>2, <2>1, UsedStep, UsedFits
<1>4. CASE flag \in Modes
  <2>1. t = [next EXCEPT !.acts = Append(@, act)]
    BY <1>3, <1>4 DEF ParseFlag, Modes
  <2>2. Sign(line, i) = Sign(line, i - 1) /\ Used(line, i) = next.used
    BY <1>1, <1>2, <1>3, <1>4, SignStep, UsedStep DEF Modes
  <2>3. act.who = Param(line, i) /\ act.flag = flag /\ act.sign = Sign(line, i)
    BY <1>2, <2>2 DEF Param, Used
  <2>4. t.acts = Append(s.acts, act) /\ t.sign = s.sign /\ t.used = next.used
    BY <1>2, <2>1 DEF Parses
  <2> DEFINE n == Len(s.acts)
  <2>5. /\ n \in Nat /\ DOMAIN s.acts = 1 .. n
        /\ DOMAIN t.acts = 1 .. n + 1
        /\ t.acts[n + 1] = act
        /\ \A k \in 1 .. n : t.acts[k] = s.acts[k]
    BY <1>2, <2>4
  <2> HIDE DEF t, act, next
  <2>6. CASE flag = "o" /\ Param(line, i) = Me
    <3>1. IsLast(i, Own(line, i))
      BY <1>1, <2>6 DEF IsLast, Own
    <3>2. IsLast(n + 1, OwnActs(t.acts))
      BY <2>3, <2>5, <2>6 DEF IsLast, OwnActs
    <3>3. \A j : IsLast(j, Own(line, i)) => j = i
      BY <1>1, <3>1 DEF IsLast, Own
    <3>4. ASSUME NEW k, IsLast(k, OwnActs(t.acts)) PROVE k = n + 1
      <4>1. k \in 1 .. n + 1
        BY <2>5, <3>4 DEF IsLast, OwnActs
      <4>2. n + 1 <= k
        BY <3>2, <3>4 DEF IsLast
      <4> QED
        BY <2>5, <4>1, <4>2
    <3>5. t.sign = Sign(line, i) /\ t.used = Used(line, i)
      BY <1>2, <2>2, <2>4
    <3>6. t.acts[n + 1].sign = Sign(line, i)
      BY <2>3, <2>5
    <3>7. Own(line, i) # {} /\ OwnActs(t.acts) # {}
      BY <3>1, <3>2 DEF IsLast
    <3> QED
      BY <3>3, <3>4, <3>5, <3>6, <3>7, Zenon DEF ReadsRight
  <2>7. CASE ~(flag = "o" /\ Param(line, i) = Me)
    <3>1. Own(line, i) = Own(line, i - 1)
      BY <1>1, <2>7 DEF Own
    <3>2. \A k : k \in OwnActs(t.acts) <=> k \in OwnActs(s.acts)
      <4> SUFFICES ASSUME NEW k PROVE k \in OwnActs(t.acts) <=> k \in OwnActs(s.acts)
        OBVIOUS
      <4>1. CASE k = n + 1
        BY <2>3, <2>5, <2>7, <4>1 DEF OwnActs
      <4>2. CASE k # n + 1
        <5>1. k \in 1 .. n + 1 <=> k \in 1 .. n
          BY <2>5, <4>2
        <5> QED
          BY <2>5, <5>1 DEF OwnActs
      <4> QED
        BY <4>1, <4>2
    <3>3. \A k \in OwnActs(s.acts) : t.acts[k] = s.acts[k]
      BY <2>5 DEF OwnActs
    <3>4. OwnActs(t.acts) = OwnActs(s.acts)
      BY <3>2
    <3>5. t.sign = Sign(line, i) /\ t.used = Used(line, i)
      BY <1>2, <2>2, <2>4
    <3> QED
      BY <3>1, <3>3, <3>4, <3>5 DEF ReadsRight, IsLast
  <2> QED
    BY <2>6, <2>7
<1>5. CASE flag \notin Modes
  <2>1. Own(line, i) = Own(line, i - 1)
    BY <1>1, <1>5 DEF Own, Modes
  <2>2. /\ t.sign = IF flag \in {"+", "-"} THEN flag ELSE s.sign
        /\ t.acts = s.acts
        /\ t.used = IF flag \in {"k", "b"} \/ (flag = "l" /\ s.sign = "+")
                    THEN s.used + 1 ELSE s.used
    BY <1>5 DEF ParseFlag, Modes, Parses
  <2>3. t.sign = Sign(line, i)
    BY <1>1, <1>2, <2>2, SignStep
  <2>4. Takes(line, i) <=> flag \in {"k", "b"} \/ (flag = "l" /\ s.sign = "+")
    BY <1>1, <1>2, <1>5, SignStep DEF Takes, Modes
  <2>5. t.used = Used(line, i)
    BY <1>1, <1>2, <2>2, <2>4, UsedStep
  <2> HIDE DEF t
  <2> QED
    BY <2>1, <2>2, <2>3, <2>5 DEF ReadsRight
<1> QED
  BY <1>4, <1>5

(* miau finds a mode of its own in a line where there is one, and the last *)
(* one has the sign that it has for the server.                            *)
LEMMA ReadsModes ==
    ASSUME NEW line \in ModeLines
    PROVE LET acts == ParseModes(line) n == Len(line.flags) IN
          /\ Own(line, n) = {} <=> OwnActs(acts) = {}
          /\ \A j, k : IsLast(j, Own(line, n)) /\ IsLast(k, OwnActs(acts)) =>
                 acts[k].sign = Sign(line, j)
<1> DEFINE n == Len(line.flags)
<1>1. n \in Nat
  BY StateAssumption, LenProperties
<1>2. PICK f \in [0 .. n -> Parses] :
          /\ f[0] = ParseStart
          /\ \A i \in 1 .. n : f[i] = ParseFlag(line, f[i - 1], i)
          /\ ParseModes(line) = f[n].acts
  BY ParsedInTurn
<1>3. ReadsRight(line, 0, ParseStart)
  <2>1. 1 .. 0 = {} /\ DOMAIN ParseStart.acts = {}
    BY DEF ParseStart
  <2>2. Sign(line, 0) = "+" /\ Used(line, 0) = 0
    BY <2>1, FS_EmptySet DEF Sign, Used
  <2> QED
    BY <2>1, <2>2 DEF ReadsRight, ParseStart, Own, OwnActs, IsLast
<1> DEFINE T == {i \in 0 .. n : ~ReadsRight(line, i, f[i])}
<1>4. T = {}
  <2>1. SUFFICES ASSUME T # {} PROVE FALSE
    OBVIOUS
  <2>2. PICK i \in T : \A j \in T : i <= j
    <3>1. T \in SUBSET Nat
      OBVIOUS
    <3> HIDE DEF T
    <3> QED
      BY <2>1, <3>1, Least
  <2>3. i # 0
    BY <1>2, <1>3, <2>2
  <2>4. i \in 1 .. n /\ i - 1 \in 0 .. n /\ i - 1 \notin T
    BY <1>1, <2>2, <2>3
  <2>5. f[i - 1] \in Parses /\ ReadsRight(line, i - 1, f[i - 1])
    BY <1>2, <2>4
  <2>6. ReadsRight(line, i, f[i])
    BY <1>2, <2>4, <2>5, ReadsOn
  <2> QED
    BY <2>2, <2>6
<1>5. ReadsRight(line, n, f[n])
  BY <1>1, <1>4
<1> QED
  BY <1>2, <1>5 DEF ReadsRight
------------------------------------------------------------------------------
(* What miau takes itself to be on a channel, and how each line it has not *)
(* read yet will change that.                                              *)
Beliefs == {"out", "new", "no", "op"}

Taken(on, op) ==
    IF ~on THEN "out" ELSE IF op = Unknown THEN "new" ELSE IF op = 1 THEN "op" ELSE "no"

Belief(c) == Taken(c \in active, oper[c])

About(e, c) == e.cmd # "QUIT" /\ e.chan = c
IsJoin(e, c) == e.cmd = "JOIN" /\ About(e, c)

OwnModes(line) == Own(line, Len(line.flags))
Grants(line) == \E j : IsLast(j, OwnModes(line)) /\ Sign(line, j) = "+"

Learns(e, b, c) ==
    IF ~About(e, c) THEN b
    ELSE IF e.cmd = "JOIN" THEN "new"
    ELSE IF e.cmd \in {"PART", "KICK"} THEN "out"
    ELSE IF e.cmd = "NAMES" /\ b = "new" THEN IF e.alone THEN "op" ELSE "no"
    ELSE IF e.cmd = "MODE" /\ b # "out" /\ OwnModes(e.line) # {}
    THEN IF Grants(e.line) THEN "op" ELSE "no"
    ELSE b

(* B is what miau takes itself to be on c before it has read the lines s,  *)
(* now b, and after each of them; it is not on a channel that it joins.    *)
Foresees(c, b, s, B) ==
    /\ B \in [0 .. Len(s) -> Beliefs]
    /\ B[0] = b
    /\ \A k \in 1 .. Len(s) : /\ B[k] = Learns(s[k], B[k - 1], c)
                              /\ IsJoin(s[k], c) => B[k - 1] = "out"

Ends(c, b, s, last) == \E B : Foresees(c, b, s, B) /\ B[Len(s)] = last

(* In the end what it takes itself to be is what it is.                    *)
IsSo(c, b) ==
    /\ b # "out" => c \in member
    /\ b = "op" => c \in chanop
    /\ b = "new" => c \in naming

Aware(c) == \E last \in Beliefs : Ends(c, Belief(c), in, last) /\ IsSo(c, last)

(* Who comes first to a channel, without others, is its operator.          *)
World ==
    /\ chanop \subseteq member
    /\ naming \subseteq member
    /\ \A c \in naming : (\A n \in Nick : <<c, n>> \notin people) => c \in chanop

(* miau knows nothing of a channel where it is not.                        *)
Fields ==
    /\ oper \in [Channel -> Opers]
    /\ \A c \in Channel \ active : oper[c] = Unknown

(* Without quicklog no channel becomes an old one.                         *)
NoOld == old = << >> /\ \A c \in Channel : oldoper[c] = << >>

OperInv == Spoken /\ World /\ Fields /\ NoOld /\ \A c \in Channel : Aware(c)

Spoke == Seq(Events \cup News)

LEMMA LearnsType ==
    ASSUME NEW e, NEW b \in Beliefs, NEW c
    PROVE Learns(e, b, c) \in Beliefs
  BY DEF Learns, Beliefs

LEMMA EndsEmpty ==
    ASSUME NEW c, NEW b \in Beliefs
    PROVE Ends(c, b, << >>, b)
<1> DEFINE B == [k \in 0 .. 0 |-> b]
<1>1. Len(<< >>) = 0
  OBVIOUS
<1>2. Foresees(c, b, << >>, B) /\ B[0] = b
  BY <1>1 DEF Foresees
<1> QED
  BY <1>1, <1>2 DEF Ends

LEMMA EndsAppend ==
    ASSUME NEW c, NEW b, NEW s \in Spoke, NEW last, Ends(c, b, s, last),
           NEW e \in Events \cup News, IsJoin(e, c) => last = "out"
    PROVE Ends(c, b, Append(s, e), Learns(e, last, c))
<1> DEFINE n == Len(s)
           t == Append(s, e)
<1>1. PICK B : Foresees(c, b, s, B) /\ B[n] = last
  BY DEF Ends
<1>2. /\ n \in Nat /\ Len(t) = n + 1 /\ t[n + 1] = e
      /\ \A k \in 1 .. n : t[k] = s[k]
  BY AppendProperties, LenProperties DEF Spoke
<1> DEFINE C == [k \in 0 .. n + 1 |-> IF k <= n THEN B[k] ELSE Learns(e, last, c)]
<1> HIDE DEF t
<1>3. last \in Beliefs
  BY <1>1, <1>2 DEF Foresees
<1>4. C \in [0 .. Len(t) -> Beliefs] /\ C[0] = b
  BY <1>1, <1>2, <1>3, LearnsType DEF Foresees
<1>5. ASSUME NEW k \in 1 .. n + 1
      PROVE C[k] = Learns(t[k], C[k - 1], c) /\ (IsJoin(t[k], c) => C[k - 1] = "out")
  <2>1. CASE k = n + 1
    BY <1>1, <1>2, <2>1
  <2>2. CASE k # n + 1
    <3>1. k \in 1 .. n /\ C[k] = B[k] /\ C[k - 1] = B[k - 1]
      BY <1>2, <2>2
    <3> QED
      BY <1>1, <1>2, <3>1 DEF Foresees
  <2> QED
    BY <2>1, <2>2
<1>6. Foresees(c, b, t, C)
  BY <1>2, <1>4, <1>5 DEF Foresees
<1>7. C[n + 1] = Learns(e, last, c)
  BY <1>2
<1> HIDE DEF C
<1> QED
  BY <1>2, <1>6, <1>7 DEF Ends, t

LEMMA EndsTail ==
    ASSUME NEW c, NEW b, NEW s \in Spoke, NEW last, Ends(c, b, s, last), s # << >>
    PROVE /\ Ends(c, Learns(Head(s), b, c), Tail(s), last)
          /\ IsJoin(Head(s), c) => b = "out"
<1> DEFINE n == Len(s)
           t == Tail(s)
<1>1. PICK B : Foresees(c, b, s, B) /\ B[n] = last
  BY DEF Ends
<1>2. /\ n \in Nat \ {0} /\ Len(t) = n - 1 /\ Head(s) = s[1]
      /\ \A k \in 1 .. n - 1 : t[k] = s[k + 1]
  BY EmptySeq, HeadTailProperties, LenProperties DEF Spoke
<1> DEFINE C == [k \in 0 .. n - 1 |-> B[k + 1]]
<1> HIDE DEF t
<1>3. B[1] = Learns(Head(s), b, c) /\ (IsJoin(Head(s), c) => b = "out")
  <2>1. 1 \in 1 .. n /\ 1 - 1 = 0
    BY <1>2
  <2> QED
    BY <1>1, <1>2, <2>1 DEF Foresees
<1>4. C \in [0 .. Len(t) -> Beliefs] /\ C[0] = B[1]
  BY <1>1, <1>2 DEF Foresees
<1>5. ASSUME NEW k \in 1 .. n - 1
      PROVE C[k] = Learns(t[k], C[k - 1], c) /\ (IsJoin(t[k], c) => C[k - 1] = "out")
  <2>1. /\ k + 1 \in 1 .. n /\ (k + 1) - 1 = k /\ (k - 1) + 1 = k
        /\ k \in 0 .. n - 1 /\ k - 1 \in 0 .. n - 1
    BY <1>2
  <2>2. C[k] = B[k + 1] /\ C[k - 1] = B[k] /\ t[k] = s[k + 1]
    BY <1>2, <2>1
  <2>3. B[k + 1] = Learns(s[k + 1], B[k], c) /\ (IsJoin(s[k + 1], c) => B[k] = "out")
    BY <1>1, <2>1 DEF Foresees
  <2> QED
    BY <2>2, <2>3
<1>6. Foresees(c, B[1], t, C)
  BY <1>2, <1>4, <1>5 DEF Foresees
<1>7. C[n - 1] = last
  BY <1>1, <1>2
<1> HIDE DEF C
<1> QED
  BY <1>2, <1>3, <1>6, <1>7 DEF Ends, t

(* miau takes itself off the list of a channel before it is off.           *)
LEMMA EndsForgotten ==
    ASSUME NEW c, NEW b, NEW s \in Spoke, NEW last, Ends(c, b, s, last)
    PROVE Ends(c, "out", s, last) \/ Ends(c, "out", s, "out")
<1> DEFINE n == Len(s)
           joined(k) == \E j \in 1 .. k : IsJoin(s[j], c)
<1>1. PICK B : Foresees(c, b, s, B) /\ B[n] = last
  BY DEF Ends
<1>2. n \in Nat
  BY LenProperties DEF Spoke
<1> DEFINE C == [k \in 0 .. n |-> IF joined(k) THEN B[k] ELSE "out"]
<1>3. C \in [0 .. n -> Beliefs] /\ C[0] = "out"
  BY <1>1, <1>2 DEF Foresees, Beliefs
<1>4. ASSUME NEW k \in 1 .. n
      PROVE C[k] = Learns(s[k], C[k - 1], c) /\ (IsJoin(s[k], c) => C[k - 1] = "out")
  <2>1. /\ k \in 0 .. n /\ k - 1 \in 0 .. n
        /\ joined(k) <=> joined(k - 1) \/ IsJoin(s[k], c)
    BY <1>2
  <2>2. /\ C[k] = (IF joined(k) THEN B[k] ELSE "out")
        /\ C[k - 1] = (IF joined(k - 1) THEN B[k - 1] ELSE "out")
    BY <2>1
  <2>3. B[k] = Learns(s[k], B[k - 1], c) /\ (IsJoin(s[k], c) => B[k - 1] = "out")
    BY <1>1 DEF Foresees
  <2> HIDE DEF C, joined
  <2>4. CASE joined(k - 1)
    BY <2>1, <2>2, <2>3, <2>4
  <2>5. CASE ~joined(k - 1) /\ IsJoin(s[k], c)
    BY <2>1, <2>2, <2>3, <2>5
  <2>6. CASE ~joined(k - 1) /\ ~IsJoin(s[k], c)
    <3>1. Learns(s[k], "out", c) = "out"
      BY <2>6 DEF Learns, IsJoin
    <3> QED
      BY <2>1, <2>2, <2>6, <3>1
  <2> QED
    BY <2>4, <2>5, <2>6
<1>5. Foresees(c, "out", s, C)
  BY <1>2, <1>3, <1>4 DEF Foresees
<1>6. C[n] = last \/ C[n] = "out"
  BY <1>1, <1>2
<1> HIDE DEF C
<1> QED
  BY <1>5, <1>6 DEF Ends

LEMMA StaysAware ==
    ASSUME NEW c, Aware(c), Belief(c)' = Belief(c), UNCHANGED <<in, chanop, naming>>,
           c \in member => c \in member'
    PROVE Aware(c)'
<1>1. PICK last \in Beliefs : Ends(c, Belief(c), in, last) /\ IsSo(c, last)
  BY DEF Aware
<1>2. IsSo(c, last)'
  BY <1>1 DEF IsSo
<1>3. Ends(c, Belief(c)', in', last)
  BY <1>1
<1> QED
  BY <1>2, <1>3 DEF Aware

LEMMA SaidAware ==
    ASSUME NEW c, Aware(c), Spoken, NEW e \in Events \cup News, in' = Append(in, e),
           Belief(c)' = Belief(c),
           \A last \in Beliefs : IsSo(c, last) => /\ IsJoin(e, c) => last = "out"
                                                  /\ IsSo(c, Learns(e, last, c))'
    PROVE Aware(c)'
<1>1. PICK last \in Beliefs : Ends(c, Belief(c), in, last) /\ IsSo(c, last)
  BY DEF Aware
<1>2. in \in Spoke
  BY DEF Spoken, Spoke
<1>3. IsJoin(e, c) => last = "out"
  BY <1>1
<1>4. Ends(c, Belief(c), Append(in, e), Learns(e, last, c))
  BY <1>1, <1>2, <1>3, EndsAppend
<1>5. Ends(c, Belief(c)', in', Learns(e, last, c))
  BY <1>4
<1>6. Learns(e, last, c) \in Beliefs
  BY LearnsType
<1>7. IsSo(c, Learns(e, last, c))'
  BY <1>1
<1> QED
  BY <1>5, <1>6, <1>7 DEF Aware

LEMMA ReadAware ==
    ASSUME NEW c, Aware(c), Spoken, in # << >>, in' = Tail(in),
           UNCHANGED <<member, chanop, naming>>,
           (IsJoin(Head(in), c) => Belief(c) = "out") =>
               Belief(c)' = Learns(Head(in), Belief(c), c)
    PROVE Aware(c)'
<1>1. PICK last \in Beliefs : Ends(c, Belief(c), in, last) /\ IsSo(c, last)
  BY DEF Aware
<1>2. in \in Spoke
  BY DEF Spoken, Spoke
<1>3. /\ Ends(c, Learns(Head(in), Belief(c), c), Tail(in), last)
      /\ IsJoin(Head(in), c) => Belief(c) = "out"
  BY <1>1, <1>2, EndsTail
<1>4. Ends(c, Belief(c)', in', last)
  BY <1>3
<1>5. IsSo(c, last)'
  BY <1>1 DEF IsSo
<1> QED
  BY <1>4, <1>5 DEF Aware

LEMMA ForgottenAware ==
    ASSUME NEW c, Aware(c), Spoken, Belief(c)' = "out",
           UNCHANGED <<in, member, chanop, naming>>
    PROVE Aware(c)'
<1>1. PICK last \in Beliefs : Ends(c, Belief(c), in, last) /\ IsSo(c, last)
  BY DEF Aware
<1>2. in \in Spoke
  BY DEF Spoken, Spoke
<1>3. Ends(c, "out", in, last) \/ Ends(c, "out", in, "out")
  BY <1>1, <1>2, EndsForgotten
<1>4. Ends(c, Belief(c)', in', last) \/ Ends(c, Belief(c)', in', "out")
  BY <1>3
<1>5. IsSo(c, last)' /\ IsSo(c, "out")' /\ "out" \in Beliefs
  BY <1>1 DEF IsSo, Beliefs
<1> QED
  BY <1>4, <1>5 DEF Aware

LEMMA LostAware ==
    ASSUME NEW c, Belief(c)' = "out", in' = << >>
    PROVE Aware(c)'
<1>1. "out" \in Beliefs /\ IsSo(c, "out")'
  BY DEF Beliefs, IsSo
<1>2. Ends(c, "out", << >>, "out")
  BY <1>1, EndsEmpty
<1>3. Ends(c, Belief(c)', in', "out")
  BY <1>2
<1> QED
  BY <1>1, <1>3 DEF Aware

LEMMA WorldKept ==
    ASSUME World, WorldFollows
    PROVE World'
  BY DEF World, WorldFollows

LEMMA EmptyHasNone == \A c : EntriesOf(<< >>, c) = 0
<1> SUFFICES ASSUME NEW c PROVE EntriesOf(<< >>, c) = 0
  OBVIOUS
<1>1. {i \in DOMAIN << >> : << >>[i].chan = c} = {}
  OBVIOUS
<1> QED
  BY <1>1, FS_EmptySet, Zenon DEF EntriesOf

(* What the entries of the lists keep when a channel changes lists.        *)
LEMMA FollowFields ==
    ASSUME Fields, NoOld, AutomodeFollows, old' = << >>
    PROVE /\ Fields' /\ NoOld'
          /\ \A c \in Channel :
                 Belief(c)' = IF c \notin active' THEN "out"
                              ELSE IF c \in active THEN Belief(c) ELSE "new"
<1>1. \A c \in Channel : oldoper'[c] = << >>
  <2> SUFFICES ASSUME NEW c \in Channel PROVE oldoper'[c] = << >>
    OBVIOUS
  <2>1. EntriesOf(old, c) = 0 /\ EntriesOf(old', c) = 0 /\ oldoper[c] = << >>
    BY EmptyHasNone DEF NoOld
  <2>2. oldoper'[c] = SubSeq(oldoper[c], 1, EntriesOf(old', c))
    BY <2>1 DEF AutomodeFollows, FollowOld
  <2>3. SubSeq(<< >>, 1, 0) = << >>
    BY SubSeqEmpty
  <2> QED
    BY <2>1, <2>2, <2>3
<1>2. ASSUME NEW c \in Channel
      PROVE oper'[c] = IF c \in active \cap active' THEN oper[c] ELSE Unknown
  <2>1. oper'[c] = IF c \in Removed \cup (active \ active') THEN Unknown ELSE oper[c]
    BY DEF AutomodeFollows, FollowOper, NoOld
  <2>2. c \in active' => c \notin Removed
    BY DEF Removed
  <2>3. c \notin active => oper[c] = Unknown
    BY DEF Fields
  <2> QED
    BY <2>1, <2>2, <2>3
<1>3. \A c \in Channel : oper[c] \in Opers /\ Unknown \in Opers
  BY DEF Fields, Opers
<1>4. DOMAIN oper' = Channel /\ oper' = [c \in Channel |-> oper'[c]]
  BY DEF AutomodeFollows, FollowOper
<1>5. Fields'
  BY <1>2, <1>3, <1>4 DEF Fields
<1>6. \A c \in Channel :
          Belief(c)' = IF c \notin active' THEN "out"
                       ELSE IF c \in active THEN Belief(c) ELSE "new"
  BY <1>2 DEF Belief, Taken
<1> QED
  BY <1>1, <1>5, <1>6 DEF NoOld

(* Steps in which no channel comes to the active list or leaves it.        *)
LEMMA SameOper ==
    ASSUME OperInv, AutomodeFollows, WorldFollows, old' = << >>,
           UNCHANGED <<active, in, member>>
    PROVE OperInv'
<1>1. Fields' /\ NoOld' /\ World'
  BY FollowFields, WorldKept DEF OperInv
<1>2. UNCHANGED <<chanop, naming>>
  BY DEF OperInv, World, WorldFollows
<1>3. ASSUME NEW c \in Channel PROVE Aware(c)'
  <2>1. Belief(c)' = Belief(c)
    BY FollowFields DEF OperInv, Belief, Taken
  <2> QED
    BY <1>2, <2>1, StaysAware DEF OperInv
<1>4. Spoken'
  BY DEF OperInv, Spoken
<1> QED
  BY <1>1, <1>3, <1>4 DEF OperInv

(* The connection is lost.                                                 *)
LEMMA LostOper ==
    ASSUME OperInv, AutomodeFollows, WorldFollows, old' = << >>,
           active' = {}, in' = << >>, member' = {}
    PROVE OperInv'
<1>1. Fields' /\ NoOld' /\ World'
  BY FollowFields, WorldKept DEF OperInv
<1>2. ASSUME NEW c \in Channel PROVE Aware(c)'
  BY FollowFields, LostAware DEF OperInv
<1>3. Spoken'
  BY EmptySeq DEF Spoken
<1> QED
  BY <1>1, <1>2, <1>3 DEF OperInv

(* miau leaves all channels, and the server does not know it yet.          *)
LEMMA ForgottenOper ==
    ASSUME OperInv, AutomodeFollows, WorldFollows, old' = << >>,
           active' = {}, UNCHANGED <<in, member>>
    PROVE OperInv'
<1>1. Fields' /\ NoOld' /\ World'
  BY FollowFields, WorldKept DEF OperInv
<1>2. UNCHANGED <<chanop, naming>>
  BY DEF OperInv, World, WorldFollows
<1>3. ASSUME NEW c \in Channel PROVE Aware(c)'
  <2>1. Belief(c)' = "out"
    BY FollowFields DEF OperInv
  <2> QED
    BY <1>2, <2>1, ForgottenAware DEF OperInv
<1>4. Spoken'
  BY DEF OperInv, Spoken
<1> QED
  BY <1>1, <1>3, <1>4 DEF OperInv

LEMMA OwnReplyOper ==
    ASSUME OperInv, MaxOld = 0, in # << >>, Head(in).cmd \in ListCmds, Reply,
           AutomodeFollows, WorldFollows, Spoken'
    PROVE OperInv'
<1> DEFINE e == Head(in)
<1>1. in' = Tail(in) /\ UNCHANGED member
  BY DEF Reply
<1>2. UNCHANGED <<chanop, naming>>
  BY <1>1 DEF OperInv, World, WorldFollows
<1>3. old' = << >>
  <2>1. old = << >> /\ Len(old) = 0 /\ DOMAIN old = {}
    BY DEF OperInv, NoOld
  <2> QED
    BY <2>1 DEF Reply, Activate, Deactivate, listVars
<1>4. /\ e.cmd = "JOIN" => active' = active \cup {e.chan}
      /\ e.cmd # "JOIN" => active' = active \ {e.chan}
  BY DEF Reply, Activate, Deactivate, listVars
<1>5. Fields' /\ NoOld' /\ World'
  BY <1>3, FollowFields, WorldKept DEF OperInv
<1>6. ASSUME NEW c \in Channel PROVE Aware(c)'
  <2>1. Belief(c)' = IF c \notin active' THEN "out"
                     ELSE IF c \in active THEN Belief(c) ELSE "new"
    BY <1>3, FollowFields DEF OperInv
  <2>2. Belief(c) = "out" <=> c \notin active
    BY DEF Belief, Taken
  <2>3. ASSUME IsJoin(e, c) => Belief(c) = "out"
        PROVE Belief(c)' = Learns(e, Belief(c), c)
    <3>1. CASE ~About(e, c)
      <4>1. c # e.chan
        BY <3>1 DEF About, ListCmds
      <4> QED
        BY <1>4, <2>1, <2>2, <3>1, <4>1 DEF Learns
    <3>2. CASE About(e, c)
      BY <1>4, <2>1, <2>2, <2>3, <3>2 DEF Learns, About, IsJoin, ListCmds
    <3> QED
      BY <3>1, <3>2
  <2> QED
    BY <1>1, <1>2, <2>3, ReadAware DEF OperInv
<1> QED
  BY <1>5, <1>6 DEF OperInv

LEMMA ListOper ==
    ASSUME OperInv, MaxOld = 0, ListStep
    PROVE OperInv'
<1>1. AutomodeFollows /\ WorldFollows /\ Spoken'
  BY ListStepSpoken DEF ListStep, Follow, OperInv
<1>2. old = << >>
  BY DEF OperInv, NoOld
<1>3. CASE \/ Welcome \/ JoinTimer \/ ClientPartsAll
           \/ \E c \in Channel : ClientJoins(c) \/ ClientParts(c)
  <2>1. old' = << >> /\ UNCHANGED <<active, in, member>>
    BY <1>2, <1>3 DEF Welcome, JoinTimer, ClientPartsAll, ClientJoins, ClientParts,
                      Want, Forget, listVars
  <2> QED
    BY <1>1, <2>1, SameOper
<1>4. CASE ServerDrop
  <2>1. old' = << >> /\ active' = {} /\ in' = << >> /\ member' = {}
    BY <1>2, <1>4 DEF ServerDrop, Leave
  <2> QED
    BY <1>1, <2>1, LostOper
<1>5. CASE ClientAttaches
  <2>1. UNCHANGED <<active, in, member>>
    BY <1>5 DEF ClientAttaches
  <2>2. PurgeOld => old' = << >>
    <3> SUFFICES ASSUME PurgeOld PROVE old' = << >>
      OBVIOUS
    <3>1. PICK logged \in SUBSET (Channel \ active) :
              LET kept == {i \in DOMAIN old :
                              /\ old[i].chan \in logged
                              /\ \A j \in 1 .. i - 1 : old[j].chan # old[i].chan}
              IN \E at \in [1 .. Cardinality(kept) -> kept] :
                     old' = [k \in DOMAIN at |-> old[at[k]]]
      BY DEF PurgeOld
    <3> DEFINE kept == {i \in DOMAIN old :
                           /\ old[i].chan \in logged
                           /\ \A j \in 1 .. i - 1 : old[j].chan # old[i].chan}
    <3>2. kept = {} /\ Cardinality(kept) = 0
      BY <1>2, FS_EmptySet
    <3>3. PICK at \in [1 .. 0 -> {}] : old' = [k \in DOMAIN at |-> old[at[k]]]
      BY <3>1, <3>2
    <3>4. DOMAIN at = {}
      BY <3>3
    <3> QED
      BY <3>3, <3>4
  <2>3. old' = << >>
    BY <1>2, <1>5, <2>2 DEF ClientAttaches
  <2> QED
    BY <1>1, <2>1, <2>3, SameOper
<1>6. CASE ClientLeaves
  <2>1. UNCHANGED <<in, member>> /\ old' = << >>
    BY <1>2, <1>6 DEF ClientLeaves, Leave, listVars
  <2>2. active' \in {active, {}}
    BY <1>6 DEF ClientLeaves, Leave, listVars
  <2> QED
    BY <1>1, <2>1, <2>2, SameOper, ForgottenOper
<1>7. CASE in # << >> /\ Head(in).cmd \in ListCmds /\ Reply
  BY <1>1, <1>7, OwnReplyOper
<1> QED
  BY <1>3, <1>4, <1>5, <1>6, <1>7 DEF ListStep

LEMMA RehashOper ==
    ASSUME OperInv, NEW new, NEW drop, NEW r, RehashAll(new, drop, r)
    PROVE OperInv'
<1>1. AutomodeFollows /\ WorldFollows /\ old' = << >>
  BY DEF RehashAll, Rehash, Leave, listVars, OperInv, NoOld
<1>2. \/ active' = {} /\ in' = << >> /\ member' = {}
      \/ UNCHANGED <<active, in, member>>
  BY DEF RehashAll, Rehash, Leave, listVars
<1> QED
  BY <1>1, <1>2, SameOper, LostOper

(* The server says something, or nothing, and miau has not read it yet.    *)
Untouched == UNCHANGED <<active, old, oper, oldoper>>

LEMMA UntouchedFields ==
    ASSUME OperInv, Untouched
    PROVE Fields' /\ NoOld' /\ \A c \in Channel : Belief(c)' = Belief(c)
  BY DEF Untouched, OperInv, Fields, NoOld, Belief

LEMMA AdmitsOper ==
    ASSUME OperInv, Spoken', NEW c \in Channel, Admits(c)
    PROVE OperInv'
<1>1. Untouched
  BY DEF Admits, ServerJoins, listVars, automodeVars, Untouched
<1>2. naming = {} /\ UNCHANGED people
  BY DEF Admits
<1>3. CASE UNCHANGED <<in, member>>
  <2>1. naming' = {} /\ chanop' = chanop
    BY <1>3 DEF Admits
  <2>2. World'
    BY <1>3, <2>1 DEF OperInv, World
  <2>3. ASSUME NEW d \in Channel PROVE Aware(d)'
    BY <1>1, <1>2, <1>3, <2>1, UntouchedFields, StaysAware DEF OperInv
  <2> QED
    BY <1>1, <2>2, <2>3, UntouchedFields DEF OperInv
<1>4. CASE c \notin member /\ member' = member \cup {c} /\ Tell("JOIN", c)
  <2> DEFINE e == Event("JOIN", c)
  <2>1. in' = Append(in, e) /\ e \in Events \cup News
    BY <1>4 DEF Tell, Event, Events
  <2>2. /\ naming' = {c}
        /\ chanop' = chanop \cup {d \in {c} : \A n \in Nick : <<d, n>> \notin people}
    <3>1. member' \ member = {c}
      BY <1>4
    <3> QED
      BY <3>1 DEF Admits
  <2>3. World'
    BY <1>2, <1>4, <2>2 DEF OperInv, World
  <2>4. ASSUME NEW d \in Channel PROVE Aware(d)'
    <3>1. ASSUME NEW last \in Beliefs, IsSo(d, last)
          PROVE /\ IsJoin(e, d) => last = "out"
                /\ IsSo(d, Learns(e, last, d))'
      <4>1. CASE d = c
        <5>1. last = "out" /\ Learns(e, last, d) = "new"
          BY <1>4, <3>1, <4>1 DEF IsSo, Learns, About, Event
        <5> QED
          BY <1>4, <2>2, <4>1, <5>1 DEF IsSo
      <4>2. CASE d # c
        <5>1. ~IsJoin(e, d) /\ Learns(e, last, d) = last /\ last # "new"
          BY <1>2, <3>1, <4>2 DEF IsSo, Learns, IsJoin, About, Event
        <5> QED
          BY <1>4, <2>2, <3>1, <5>1 DEF IsSo
      <4> QED
        BY <4>1, <4>2
    <3>2. Belief(d)' = Belief(d)
      BY <1>1, UntouchedFields
    <3> HIDE DEF e
    <3> QED
      BY <2>1, <3>1, <3>2, SaidAware DEF OperInv
  <2> QED
    BY <1>1, <2>3, <2>4, UntouchedFields DEF OperInv
<1> QED
  BY <1>3, <1>4 DEF Admits, ServerJoins

LEMMA TakesOffOper ==
    ASSUME OperInv, Spoken', NEW c \in Channel, NEW cmd \in {"PART", "KICK"}, Untouched,
           WorldFollows, naming = {}, Tell(cmd, c), member' = member \ {c}
    PROVE OperInv'
<1> DEFINE e == Event(cmd, c)
<1>1. in' = Append(in, e) /\ e \in Events \cup News
  BY DEF Tell, Event, Events
<1>2. ASSUME NEW d \in Channel PROVE Aware(d)'
  <2>1. ASSUME NEW last \in Beliefs, IsSo(d, last)
        PROVE /\ IsJoin(e, d) => last = "out"
              /\ IsSo(d, Learns(e, last, d))'
    <3>1. ~IsJoin(e, d)
      BY DEF IsJoin, Event
    <3>2. CASE d = c
      <4>1. Learns(e, last, d) = "out"
        BY <3>2 DEF Learns, About, Event
      <4> QED
        BY <3>1, <4>1 DEF IsSo
    <3>3. CASE d # c
      <4>1. Learns(e, last, d) = last /\ last # "new"
        BY <2>1, <3>3 DEF IsSo, Learns, About, Event
      <4> QED
        BY <2>1, <3>1, <3>3, <4>1 DEF IsSo, WorldFollows
    <3> QED
      BY <3>2, <3>3
  <2>2. Belief(d)' = Belief(d)
    BY UntouchedFields
  <2> HIDE DEF e
  <2> QED
    BY <1>1, <2>1, <2>2, SaidAware DEF OperInv
<1> QED
  BY <1>2, UntouchedFields, WorldKept DEF OperInv

LEMMA SilentOper ==
    ASSUME OperInv, Spoken', Untouched, WorldFollows, UNCHANGED <<in, member>>
    PROVE OperInv'
<1>1. UNCHANGED <<chanop, naming>>
  BY DEF OperInv, World, WorldFollows
<1>2. ASSUME NEW c \in Channel PROVE Aware(c)'
  BY <1>1, UntouchedFields, StaysAware DEF OperInv
<1> QED
  BY <1>2, UntouchedFields, WorldKept DEF OperInv

LEMMA ServerOper ==
    ASSUME OperInv, ServerStep
    PROVE OperInv'
<1>1. Spoken'
  BY ServerSpoken DEF OperInv
<1>2. ASSUME NEW c \in Channel, Admits(c) PROVE OperInv'
  BY <1>1, <1>2, AdmitsOper
<1>3. ASSUME naming = {}, WorldFollows, UNCHANGED automodeVars, ServerIsDone
      PROVE OperInv'
  <2>1. Untouched /\ UNCHANGED <<in, member>>
    BY <1>3 DEF ServerIsDone, listVars, automodeVars, Untouched
  <2> QED
    BY <1>1, <1>3, <2>1, SilentOper
<1>4. ASSUME naming = {}, WorldFollows, UNCHANGED automodeVars, NEW c \in Channel,
             ServerParts(c) \/ Kicked(c)
      PROVE OperInv'
  <2>1. Untouched
    BY <1>4 DEF ServerParts, Kicked, listVars, automodeVars, Untouched
  <2>2. \/ UNCHANGED <<in, member>>
        \/ \E cmd \in {"PART", "KICK"} : Tell(cmd, c) /\ member' = member \ {c}
    BY <1>4 DEF ServerParts, Kicked
  <2> QED
    BY <1>1, <1>4, <2>1, <2>2, SilentOper, TakesOffOper
<1> QED
  BY <1>2, <1>3, <1>4 DEF ServerStep

(* What the server says of other people changes nothing of miau.           *)
LEMMA GossipOper ==
    ASSUME OperInv, Spoken', Untouched, naming = {}, UNCHANGED <<member, chanop, naming>>,
           NEW e \in Events \cup News, e.cmd \notin {"JOIN", "PART", "KICK", "NAMES", "MODE"},
           in' = Append(in, e) \/ UNCHANGED in
    PROVE OperInv'
<1>1. World'
  BY DEF OperInv, World
<1>2. ASSUME NEW c \in Channel PROVE Aware(c)'
  <2>1. Belief(c)' = Belief(c)
    BY UntouchedFields
  <2>2. ASSUME NEW last \in Beliefs, IsSo(c, last)
        PROVE /\ IsJoin(e, c) => last = "out"
              /\ IsSo(c, Learns(e, last, c))'
    <3>1. ~IsJoin(e, c) /\ Learns(e, last, c) = last
      BY DEF IsJoin, Learns
    <3> QED
      BY <2>2, <3>1 DEF IsSo
  <2>3. CASE UNCHANGED in
    BY <2>1, <2>3, StaysAware DEF OperInv
  <2>4. CASE in' = Append(in, e)
    BY <2>1, <2>2, <2>4, SaidAware DEF OperInv
  <2> QED
    BY <2>3, <2>4
<1> QED
  BY <1>1, <1>2, UntouchedFields DEF OperInv

LEMMA NamesOper ==
    ASSUME OperInv, Spoken', NEW c \in Channel, Names(c)
    PROVE OperInv'
<1>0. PICK alone \in BOOLEAN : alone = (\A n \in Nick : <<c, n>> \notin people)
  OBVIOUS
<1> DEFINE e == [cmd |-> "NAMES", chan |-> c, alone |-> alone]
<1>1. Untouched /\ UNCHANGED <<member, chanop, people>>
  BY DEF Names, Elsewhere, listVars, automodeVars, Untouched
<1>2. c \in member /\ naming \subseteq {c} /\ naming' = {}
  BY DEF Names
<1>3. in' = Append(in, e) /\ e \in Events \cup News
  BY <1>0 DEF Names, Send, News
<1>4. World'
  BY <1>1, <1>2 DEF OperInv, World
<1>5. ASSUME NEW d \in Channel PROVE Aware(d)'
  <2>1. Belief(d)' = Belief(d)
    BY <1>1, UntouchedFields
  <2>2. ASSUME NEW last \in Beliefs, IsSo(d, last)
        PROVE /\ IsJoin(e, d) => last = "out"
              /\ IsSo(d, Learns(e, last, d))'
    <3>1. ~IsJoin(e, d)
      BY DEF IsJoin
    <3>2. CASE d = c /\ last = "new"
      <4>1. Learns(e, last, d) = IF alone THEN "op" ELSE "no"
        BY <3>2 DEF Learns, About
      <4>2. alone => c \in chanop
        BY <1>0, <1>2, <2>2, <3>2 DEF IsSo, OperInv, World
      <4> QED
        BY <1>1, <1>2, <3>1, <3>2, <4>1, <4>2 DEF IsSo
    <3>3. CASE ~(d = c /\ last = "new")
      <4>1. Learns(e, last, d) = last
        BY <3>3 DEF Learns, About
      <4>2. last # "new"
        BY <1>2, <2>2, <3>3 DEF IsSo
      <4> QED
        BY <1>1, <2>2, <3>1, <4>1, <4>2 DEF IsSo
    <3> QED
      BY <3>2, <3>3
  <2> HIDE DEF e
  <2> QED
    BY <1>3, <2>1, <2>2, SaidAware DEF OperInv
<1> QED
  BY <1>1, <1>4, <1>5, UntouchedFields DEF OperInv

LEMMA LastExists ==
    ASSUME NEW n \in Nat, NEW S \in SUBSET (1 .. n), S # {}
    PROVE \E k : IsLast(k, S)
<1> DEFINE above == {m \in Nat : \A j \in S : j <= m}
<1>1. n \in above
  OBVIOUS
<1>2. PICK m \in above : \A k \in above : m <= k
  <2>1. above \in SUBSET Nat /\ above # {}
    BY <1>1
  <2> HIDE DEF above
  <2> QED
    BY <2>1, Least
<1>3. m \in S
  <2>1. SUFFICES ASSUME m \notin S PROVE FALSE
    OBVIOUS
  <2>2. m - 1 \in Nat
    <3>1. PICK j \in S : TRUE
      OBVIOUS
    <3>2. j \in 1 .. n /\ j <= m
      BY <1>2
    <3> QED
      BY <1>2, <3>2
  <2>3. \A j \in S : j <= m - 1
    BY <1>2, <2>1
  <2> QED
    BY <1>2, <2>2, <2>3
<1>4. IsLast(m, S)
  BY <1>2, <1>3 DEF IsLast
<1> QED
  BY <1>4

LEMMA LastIsOne ==
    ASSUME NEW S \in SUBSET Nat, NEW j, NEW k, IsLast(j, S), IsLast(k, S)
    PROVE j = k
  BY DEF IsLast

LEMMA OwnFacts ==
    ASSUME NEW line \in ModeLines
    PROVE /\ OwnModes(line) \in SUBSET Nat
          /\ OwnModes(line) # {} => \E j : IsLast(j, OwnModes(line))
<1>1. Len(line.flags) \in Nat
  BY StateAssumption, LenProperties
<1>2. OwnModes(line) \in SUBSET (1 .. Len(line.flags))
  BY DEF OwnModes, Own
<1>3. OwnModes(line) # {} => \E j : IsLast(j, OwnModes(line))
  BY <1>1, <1>2, LastExists, Zenon
<1> QED
  BY <1>1, <1>2, <1>3

(* The last mode of a line that is miau's own makes it operator or not.    *)
LEMMA GrantsLast ==
    ASSUME NEW line \in ModeLines, NEW j, IsLast(j, OwnModes(line))
    PROVE Grants(line) <=> Sign(line, j) = "+"
<1>1. \A k : IsLast(k, OwnModes(line)) => k = j
  BY OwnFacts, LastIsOne
<1> QED
  BY <1>1 DEF Grants

LEMMA ModesOper ==
    ASSUME OperInv, Spoken', NEW c \in Channel, NEW line \in ModeLines,
           ModesAreChanged(c, line)
    PROVE OperInv'
<1> DEFINE e == [cmd |-> "MODE", chan |-> c, line |-> line]
           mine == {i \in {i \in DOMAIN line.flags :
                              line.flags[i] \in Modes /\ Param(line, i) = Me} :
                       line.flags[i] = "o"}
<1>1. Untouched /\ UNCHANGED <<member, naming, people>> /\ naming = {} /\ c \in member
  BY DEF ModesAreChanged, Elsewhere, listVars, automodeVars, Untouched
<1>2. in' = Append(in, e) /\ e \in Events \cup News
  BY DEF ModesAreChanged, Send, News
<1>3. mine = OwnModes(line)
  <2>1. DOMAIN line.flags = 1 .. Len(line.flags)
    BY StateAssumption, LenProperties
  <2> QED
    BY <2>1 DEF OwnModes, Own, Modes
<1>4. chanop' = IF OwnModes(line) = {} THEN chanop
                ELSE IF Grants(line) THEN chanop \cup {c} ELSE chanop \ {c}
  <2>1. chanop' = IF mine = {} THEN chanop
                  ELSE IF Sign(line, CHOOSE i \in mine : \A j \in mine : j <= i) = "+"
                  THEN chanop \cup {c} ELSE chanop \ {c}
    BY DEF ModesAreChanged
  <2> HIDE DEF mine
  <2> DEFINE last == CHOOSE i \in mine : \A j \in mine : j <= i
  <2>2. mine # {} => IsLast(last, mine)
    BY <1>3, OwnFacts DEF IsLast
  <2>3. mine # {} => (Grants(line) <=> Sign(line, last) = "+")
    BY <1>3, <2>2, GrantsLast
  <2> QED
    BY <1>3, <2>1, <2>3
<1>5. World'
  BY <1>1, <1>4 DEF OperInv, World
<1>6. ASSUME NEW d \in Channel PROVE Aware(d)'
  <2>1. Belief(d)' = Belief(d)
    BY <1>1, UntouchedFields
  <2>2. ASSUME NEW last \in Beliefs, IsSo(d, last)
        PROVE /\ IsJoin(e, d) => last = "out"
              /\ IsSo(d, Learns(e, last, d))'
    <3>1. ~IsJoin(e, d)
      BY DEF IsJoin
    <3>2. last # "new"
      BY <1>1, <2>2 DEF IsSo
    <3>3. CASE d = c /\ last # "out" /\ OwnModes(line) # {}
      <4>1. Learns(e, last, d) = IF Grants(line) THEN "op" ELSE "no"
        BY <3>3 DEF Learns, About
      <4> QED
        BY <1>1, <1>4, <3>1, <3>3, <4>1 DEF IsSo
    <3>4. CASE ~(d = c /\ last # "out" /\ OwnModes(line) # {})
      <4>1. Learns(e, last, d) = last
        BY <3>4 DEF Learns, About
      <4>2. last = "op" => d \in chanop'
        BY <1>4, <2>2, <3>4 DEF IsSo
      <4> QED
        BY <1>1, <2>2, <3>1, <3>2, <4>1, <4>2 DEF IsSo
    <3> QED
      BY <3>3, <3>4
  <2> HIDE DEF e
  <2> QED
    BY <1>2, <2>1, <2>2, SaidAware DEF OperInv
<1> QED
  BY <1>1, <1>5, <1>6, UntouchedFields DEF OperInv

LEMMA PeopleOper ==
    ASSUME OperInv, PeopleStep
    PROVE OperInv'
<1>1. Spoken'
  BY PeopleSpoken DEF OperInv
<1>2. Untouched /\ UNCHANGED member
  BY DEF PeopleStep, Names, PersonJoins, PersonLeaves, PersonQuits, ModesAreChanged,
         Elsewhere, listVars, automodeVars, Untouched
<1>3. ASSUME NEW c \in Channel, Names(c) PROVE OperInv'
  BY <1>1, <1>3, NamesOper
<1>4. ASSUME NEW c \in Channel, NEW n \in Nick, PersonJoins(c, n) PROVE OperInv'
  <2> DEFINE e == [cmd |-> "JOINED", chan |-> c, nick |-> n]
  <2>1. e \in Events \cup News /\ e.cmd \notin {"JOIN", "PART", "KICK", "NAMES", "MODE"}
    BY DEF News
  <2>2. in' = Append(in, e) \/ UNCHANGED in
    BY <1>4 DEF PersonJoins, Told, Send
  <2>3. naming = {} /\ UNCHANGED <<chanop, naming>>
    BY <1>4 DEF PersonJoins
  <2> HIDE DEF e
  <2> QED
    BY <1>1, <1>2, <2>1, <2>2, <2>3, GossipOper
<1>5. ASSUME NEW c \in Channel, NEW n \in Nick, NEW how \in {"PARTED", "KICKED"},
             PersonLeaves(c, n, how)
      PROVE OperInv'
  <2> DEFINE e == [cmd |-> how, chan |-> c, nick |-> n]
  <2>1. e \in Events \cup News /\ e.cmd \notin {"JOIN", "PART", "KICK", "NAMES", "MODE"}
    BY DEF News
  <2>2. in' = Append(in, e) \/ UNCHANGED in
    BY <1>5 DEF PersonLeaves, Told, Send
  <2>3. naming = {} /\ UNCHANGED <<chanop, naming>>
    BY <1>5 DEF PersonLeaves
  <2> HIDE DEF e
  <2> QED
    BY <1>1, <1>2, <2>1, <2>2, <2>3, GossipOper
<1>6. ASSUME NEW n \in Nick, PersonQuits(n) PROVE OperInv'
  <2> DEFINE e == [cmd |-> "QUIT", nick |-> n]
  <2>1. e \in Events \cup News /\ e.cmd \notin {"JOIN", "PART", "KICK", "NAMES", "MODE"}
    BY DEF News
  <2>2. in' = Append(in, e) \/ UNCHANGED in
    BY <1>6 DEF PersonQuits, Send
  <2>3. naming = {} /\ UNCHANGED <<chanop, naming>>
    BY <1>6 DEF PersonQuits
  <2> HIDE DEF e
  <2> QED
    BY <1>1, <1>2, <2>1, <2>2, <2>3, GossipOper
<1>7. ASSUME NEW c \in Channel, NEW line \in ModeLines, ModesAreChanged(c, line)
      PROVE OperInv'
  BY <1>1, <1>7, ModesOper
<1> QED
  BY <1>3, <1>4, <1>5, <1>6, <1>7 DEF PeopleStep

(* What ModesChange makes of a line is what Learns makes of it.            *)
LEMMA ModesRead ==
    ASSUME Fields, NEW c \in Channel, NEW line \in ModeLines, ModesChange(c, line)
    PROVE /\ oper' \in [Channel -> Opers]
          /\ \A d \in Channel : d # c => oper'[d] = oper[d]
          /\ oper'[c] = IF c \in active /\ OwnModes(line) # {}
                        THEN IF Grants(line) THEN 1 ELSE 0
                        ELSE oper[c]
<1> DEFINE acts == ParseModes(line)
           own == OwnActs(acts)
<1>1. /\ OwnModes(line) = {} <=> own = {}
      /\ \A j, k : IsLast(j, OwnModes(line)) /\ IsLast(k, own) =>
             acts[k].sign = Sign(line, j)
  BY ReadsModes DEF OwnModes
<1>2. own = {i \in DOMAIN acts : acts[i].who = Me /\ acts[i].flag = "o"}
  BY DEF OwnActs
<1> HIDE DEF acts
<1>3. CASE c \in active /\ own # {}
  <2>1. PICK k \in own : /\ \A j \in own : j <= k
                         /\ oper' = [oper EXCEPT ![c] = IF acts[k].sign = "+" THEN 1 ELSE 0]
    BY <1>2, <1>3 DEF ModesChange, acts
  <2>2. IsLast(k, own) /\ OwnModes(line) # {}
    BY <1>1, <1>3, <2>1 DEF IsLast
  <2>3. PICK j : IsLast(j, OwnModes(line))
    BY <2>2, OwnFacts
  <2>4. Grants(line) <=> acts[k].sign = "+"
    BY <1>1, <2>2, <2>3, GrantsLast
  <2> QED
    BY <1>3, <2>1, <2>2, <2>4 DEF Fields, Opers
<1>4. CASE ~(c \in active /\ own # {})
  <2>1. UNCHANGED oper
    BY <1>2, <1>4 DEF ModesChange, acts
  <2> QED
    BY <1>1, <1>4, <2>1 DEF Fields
<1> QED
  BY <1>3, <1>4

LEMMA NewsOper ==
    ASSUME OperInv, NewsReply
    PROVE OperInv'
<1> DEFINE e == Head(in)
<1>1. /\ in # << >> /\ in' = Tail(in)
      /\ UNCHANGED <<active, old, member, people, chanop, naming>>
  BY DEF NewsReply, listVars, worldVars
<1>2. e \in Events \cup News /\ in' \in Seq(Events \cup News)
  BY <1>1, HeadTailProperties DEF OperInv, Spoken
<1>3. Spoken' /\ World'
  BY <1>1, <1>2 DEF OperInv, Spoken, World
<1>4. UNCHANGED oldoper
  BY DEF NewsReply, NamesReply, ModesChange, AutomodeQueue, AutomodeDrop, automodeVars
<1> SUFFICES /\ Fields'
             /\ \A c \in Channel : Belief(c)' = Learns(e, Belief(c), c)
  BY <1>1, <1>3, <1>4, ReadAware DEF OperInv, NoOld
<1>5. CASE e.cmd = "NAMES" /\ NamesReply(e.chan, e.alone)
  <2>1. oper' = IF e.chan \in active /\ oper[e.chan] = Unknown
                THEN [oper EXCEPT ![e.chan] = IF e.alone THEN 1 ELSE 0] ELSE oper
    BY <1>5 DEF NamesReply
  <2>2. Fields'
    BY <1>1, <2>1 DEF OperInv, Fields, Opers
  <2>3. ASSUME NEW c \in Channel PROVE Belief(c)' = Learns(e, Belief(c), c)
    <3>1. Learns(e, Belief(c), c) =
              IF c = e.chan /\ Belief(c) = "new" THEN IF e.alone THEN "op" ELSE "no"
              ELSE Belief(c)
      BY <1>5 DEF Learns, About
    <3>2. Belief(c) = "new" <=> c \in active /\ oper[c] = Unknown
      BY DEF Belief, Taken
    <3>3. oper'[c] = IF c = e.chan /\ Belief(c) = "new" THEN IF e.alone THEN 1 ELSE 0
                     ELSE oper[c]
      BY <2>1, <3>2 DEF OperInv, Fields
    <3> QED
      BY <1>1, <3>1, <3>2, <3>3 DEF Belief, Taken, Unknown
  <2> QED
    BY <2>2, <2>3
<1>6. CASE e.cmd = "MODE" /\ ModesChange(e.chan, e.line)
  <2>1. e.line \in ModeLines /\ e.chan \in Channel
    BY <1>2, <1>6 DEF Events, News
  <2>2. /\ oper' \in [Channel -> Opers]
        /\ \A d \in Channel : d # e.chan => oper'[d] = oper[d]
        /\ oper'[e.chan] = IF e.chan \in active /\ OwnModes(e.line) # {}
                           THEN IF Grants(e.line) THEN 1 ELSE 0
                           ELSE oper[e.chan]
    BY <1>6, <2>1, ModesRead DEF OperInv
  <2>3. Fields'
    BY <1>1, <2>2 DEF OperInv, Fields
  <2>4. ASSUME NEW c \in Channel PROVE Belief(c)' = Learns(e, Belief(c), c)
    <3>1. Learns(e, Belief(c), c) =
              IF c = e.chan /\ Belief(c) # "out" /\ OwnModes(e.line) # {}
              THEN IF Grants(e.line) THEN "op" ELSE "no"
              ELSE Belief(c)
      BY <1>6 DEF Learns, About
    <3>2. Belief(c) # "out" <=> c \in active
      BY DEF Belief, Taken
    <3> QED
      BY <1>1, <2>2, <3>1, <3>2 DEF Belief, Taken, Unknown
  <2> QED
    BY <2>3, <2>4
<1>7. CASE e.cmd \in {"JOINED", "PARTED", "KICKED", "QUIT"} /\ UNCHANGED oper
  <2>1. \A c \in Channel : Learns(e, Belief(c), c) = Belief(c)
    BY <1>7 DEF Learns
  <2> QED
    BY <1>1, <1>7, <2>1 DEF OperInv, Fields, Belief
<1> QED
  BY <1>5, <1>6, <1>7 DEF NewsReply, AutomodeQueue, AutomodeDrop, automodeVars

LEMMA StepOper == MaxOld = 0 /\ OperInv /\ [StateNext]_stateVars => OperInv'
<1> SUFFICES ASSUME MaxOld = 0, OperInv, [StateNext]_stateVars PROVE OperInv'
  OBVIOUS
<1>1. CASE ListStep
  BY <1>1, ListOper
<1>2. ASSUME NEW new \in Configs, NEW drop \in BOOLEAN, NEW r \in Rules,
             RehashAll(new, drop, r)
      PROVE OperInv'
  BY <1>2, RehashOper
<1>3. CASE ServerStep
  BY <1>3, ServerOper
<1>4. CASE PeopleStep
  BY <1>4, PeopleOper
<1>5. CASE NewsReply
  BY <1>5, NewsOper
<1>6. CASE GiveModes \/ UNCHANGED stateVars
  <2>1. Untouched /\ UNCHANGED <<in, member, people, chanop, naming>>
    BY <1>6 DEF GiveModes, AutomodeTimer, stateVars, vars, listVars, automodeVars,
                worldVars, Untouched
  <2>2. Spoken' /\ World'
    BY <2>1 DEF OperInv, Spoken, World, Untouched
  <2>3. ASSUME NEW c \in Channel PROVE Aware(c)'
    BY <2>1, UntouchedFields, StaysAware DEF OperInv
  <2> QED
    BY <2>1, <2>2, <2>3, UntouchedFields DEF OperInv
<1> QED
  BY <1>1, <1>2, <1>3, <1>4, <1>5, <1>6 DEF StateNext

LEMMA StartOper == StateInit => OperInv
<1> SUFFICES ASSUME StateInit PROVE OperInv
  OBVIOUS
<1>1. Spoken /\ World /\ NoOld /\ Fields
  BY DEF StateInit, Init, AutomodeInit, Spoken, World, NoOld, Fields, Opers
<1>2. ASSUME NEW c \in Channel PROVE Aware(c)
  <2>1. Belief(c) = "out" /\ in = << >>
    BY DEF StateInit, Init, Belief, Taken
  <2>2. "out" \in Beliefs /\ IsSo(c, "out")
    BY DEF Beliefs, IsSo
  <2>3. Ends(c, "out", << >>, "out")
    BY <2>2, EndsEmpty
  <2> QED
    BY <2>1, <2>2, <2>3 DEF Aware
<1> QED
  BY <1>1, <1>2 DEF OperInv

(* Without quicklog, miau takes itself for operator only where it is, when *)
(* it has read all that the server said: for any number of channels and    *)
(* people, any lines of MODE in which every flag has its parameter, and    *)
(* however far miau is behind.  (An entry of old_channels keeps its oper:  *)
(* with quicklog there is more to it, and OperKnown does not hold.)        *)
THEOREM OperKnownHolds == MaxOld = 0 => (StateSpec => []OperKnown)
<1>1. OperInv => OperKnown
  <2> SUFFICES ASSUME OperInv, in = << >>, NEW c \in active, oper[c] = 1
               PROVE c \in chanop
    BY DEF OperKnown
  <2>1. c \in Channel
    BY DEF OperInv, Spoken
  <2>2. PICK last \in Beliefs : Ends(c, Belief(c), in, last) /\ IsSo(c, last)
    BY <2>1 DEF OperInv, Aware
  <2>3. Belief(c) = "op"
    BY DEF Belief, Taken, Unknown
  <2>4. last = "op"
    BY <2>2, <2>3 DEF Ends, Foresees
  <2> QED
    BY <2>2, <2>4 DEF IsSo
<1>2. ASSUME MaxOld = 0 PROVE StateSpec => []OperKnown
  <2>1. OperInv /\ [StateNext]_stateVars => OperInv'
    BY <1>2, StepOper
  <2> QED
    BY <1>1, <2>1, StartOper, PTL DEF StateSpec
<1> QED
  BY <1>2
------------------------------------------------------------------------------
(* Masks.  match() and what a mask covers are defined along both strings,  *)
(* from the end: what is said of a place depends on places further on.     *)
Char == STRING \ {"end"}
Plainly == Seq(Char \ {"*", "?"})

Places(str, pat) == (1 .. Len(str) + 1) \X (1 .. Len(pat) + 1)
Reach(at) == at[1] + at[2]

Within(D, n) == n \in Nat /\ \A x \in D : Reach(x) \in 1 .. n

SameAhead(D, f, h, x) == \A y \in D : Reach(y) > Reach(x) => f[y] = h[y]
FollowsAhead(D, f, h) == \A x \in D : SameAhead(D, f, h, x) => f[x] = h[x]

Settled(D, body) == \E f \in [D -> BOOLEAN] : \A x \in D : f[x] = body[<<f, x>>]

(* What holds of a place when it holds of all further on holds everywhere. *)
LEMMA EndInduction ==
    ASSUME NEW n, NEW D, Within(D, n), NEW S \in SUBSET D,
           \A x \in D : (\A y \in D : Reach(y) > Reach(x) => y \in S) => x \in S
    PROVE S = D
<1>0. n \in Nat /\ \A x \in D : Reach(x) \in 1 .. n
  BY DEF Within
<1> DEFINE T == {n - Reach(x) : x \in D \ S}
<1>1. SUFFICES ASSUME D \ S # {} PROVE FALSE
  OBVIOUS
<1>2. T \in SUBSET Nat /\ T # {}
  BY <1>0, <1>1
<1>3. PICK k \in T : \A j \in T : k <= j
  <2> HIDE DEF T
  <2> QED
    BY <1>2, Least
<1>4. PICK x \in D \ S : k = n - Reach(x)
  OBVIOUS
<1>5. ASSUME NEW y \in D, Reach(y) > Reach(x) PROVE y \in S
  <2>1. SUFFICES ASSUME y \notin S PROVE FALSE
    OBVIOUS
  <2>2. n - Reach(y) \in T
    BY <2>1
  <2>3. Reach(x) \in 1 .. n /\ Reach(y) \in 1 .. n
    BY <1>0, <1>4
  <2>4. k <= n - Reach(y)
    BY <1>3, <2>2
  <2> QED
    BY <1>0, <1>4, <1>5, <2>3, <2>4
<1> QED
  BY <1>4, <1>5

LEMMA DefinedAhead ==
    ASSUME NEW n, NEW D, Within(D, n),
           NEW body \in [[D -> BOOLEAN] \X D -> BOOLEAN],
           \A f, h \in [D -> BOOLEAN] : \A x \in D :
               SameAhead(D, f, h, x) => body[<<f, x>>] = body[<<h, x>>]
    PROVE Settled(D, body)
<1>0. n \in Nat /\ \A x \in D : Reach(x) \in 1 .. n
  BY DEF Within
<1> USE <1>0
<1> DEFINE Right(k, f) == \A x \in D : Reach(x) > n - k => f[x] = body[<<f, x>>]
           T == {k \in 0 .. n : \A f \in [D -> BOOLEAN] : ~Right(k, f)}
<1>1. \A f \in [D -> BOOLEAN] : \A x \in D : <<f, x>> \in [D -> BOOLEAN] \X D
  OBVIOUS
<1>2. \A f \in [D -> BOOLEAN] : \A x \in D : body[<<f, x>>] \in BOOLEAN
  BY <1>1
<1>3. T = {}
  <2>1. SUFFICES ASSUME T # {} PROVE FALSE
    OBVIOUS
  <2>2. PICK k \in T : \A j \in T : k <= j
    <3>1. T \in SUBSET Nat
      OBVIOUS
    <3> HIDE DEF T
    <3> QED
      BY <2>1, <3>1, Least
  <2>3. k \in 0 .. n /\ \A f \in [D -> BOOLEAN] : ~Right(k, f)
    OBVIOUS
  <2>4. CASE k = 0
    <3> DEFINE f == [x \in D |-> TRUE]
    <3>1. f \in [D -> BOOLEAN]
      OBVIOUS
    <3>2. \A x \in D : ~(Reach(x) > n - k)
      BY <2>4
    <3> HIDE DEF f
    <3> QED
      BY <2>3, <3>1, <3>2
  <2>5. CASE k # 0
    <3>1. k \in 0 .. n /\ k - 1 \in 0 .. n
      BY <2>3, <2>5
    <3>2. k - 1 \notin T
      <4> HIDE DEF T
      <4> QED
        BY <2>2, <3>1
    <3>3. PICK f \in [D -> BOOLEAN] : Right(k - 1, f)
      BY <3>1, <3>2
    <3> DEFINE h == [x \in D |-> IF Reach(x) = n - k + 1 THEN body[<<f, x>>] ELSE f[x]]
    <3>4. h \in [D -> BOOLEAN]
      BY <1>2, <3>3
    <3>5. \A x \in D : h[x] = IF Reach(x) = n - k + 1 THEN body[<<f, x>>] ELSE f[x]
      OBVIOUS
    <3> HIDE DEF h
    <3>6. ASSUME NEW x \in D, Reach(x) > n - k PROVE h[x] = body[<<h, x>>]
      <4>1. Reach(x) \in 1 .. n
        OBVIOUS
      <4>2. SameAhead(D, f, h, x)
        <5> SUFFICES ASSUME NEW y \in D, Reach(y) > Reach(x) PROVE f[y] = h[y]
          BY DEF SameAhead
        <5>1. Reach(y) \in 1 .. n
          OBVIOUS
        <5>2. Reach(y) # n - k + 1
          BY <2>3, <3>6, <4>1, <5>1
        <5> QED
          BY <3>5, <5>2
      <4>3. body[<<f, x>>] = body[<<h, x>>]
        BY <3>3, <3>4, <4>2
      <4>4. CASE Reach(x) = n - k + 1
        BY <3>5, <4>3, <4>4
      <4>5. CASE Reach(x) # n - k + 1
        <5>1. Reach(x) > n - (k - 1)
          BY <2>3, <3>6, <4>1, <4>5
        <5>2. f[x] = body[<<f, x>>]
          BY <3>3, <5>1
        <5> QED
          BY <3>5, <4>3, <4>5, <5>2
      <4> QED
        BY <4>4, <4>5
    <3>7. Right(k, h)
      BY <3>6
    <3> QED
      BY <2>3, <3>4, <3>7
  <2> QED
    BY <2>4, <2>5
<1>4. PICK f \in [D -> BOOLEAN] : Right(n, f)
  <2>1. n \notin T
    <3> HIDE DEF T
    <3> QED
      BY <1>3
  <2>2. n \in 0 .. n
    OBVIOUS
  <2> QED
    BY <2>1, <2>2
<1>5. \A x \in D : Reach(x) > n - n
  OBVIOUS
<1>6. \A x \in D : f[x] = body[<<f, x>>]
  BY <1>4, <1>5
<1> QED
  BY <1>6 DEF Settled

(* The two definitions, each at one place.                                 *)
MatchStep(str, pat, f, at) ==
    LET s == at[1]               p == at[2]
        c == CharAt(str, s)      later == CharAt(str, s + 1)
        m == CharAt(pat, p)      next == CharAt(pat, p + 1)
    IN
    IF c = "end" /\ (m = "end" \/ (m = "*" /\ next = "end")) THEN TRUE
    ELSE IF c = "end" \/ m = "end" THEN FALSE
    ELSE IF c = m \/ m = "?" THEN f[<<s + 1, p + 1>>]
    ELSE IF m # "*" THEN FALSE
    ELSE IF c = next THEN f[<<s, p + 1>>]
    ELSE IF later = next THEN f[<<s + 1, p + 1>>]
    ELSE f[<<s + 1, p>>]

CoversStep(pat, str, g, at) ==
    LET s == at[1] p == at[2] IN
    IF p > Len(pat) THEN s > Len(str)
    ELSE IF pat[p] = "*"
    THEN g[<<s, p + 1>>] \/ (s <= Len(str) /\ g[<<s + 1, p>>])
    ELSE s <= Len(str) /\ pat[p] \in {str[s], "?"} /\ g[<<s + 1, p + 1>>]

LEMMA PlaceFacts ==
    ASSUME NEW str \in Seq(Char), NEW pat \in Seq(Char), NEW at \in Places(str, pat)
    PROVE /\ Len(str) \in Nat /\ Len(pat) \in Nat
          /\ at = <<at[1], at[2]>>
          /\ at[1] \in 1 .. Len(str) + 1 /\ at[2] \in 1 .. Len(pat) + 1
          /\ CharAt(str, at[1]) = "end" <=> at[1] = Len(str) + 1
          /\ CharAt(pat, at[2]) = "end" <=> at[2] = Len(pat) + 1
          /\ at[1] <= Len(str) => <<at[1] + 1, at[2]>> \in Places(str, pat)
          /\ at[2] <= Len(pat) => <<at[1], at[2] + 1>> \in Places(str, pat)
          /\ at[1] <= Len(str) /\ at[2] <= Len(pat) =>
                 <<at[1] + 1, at[2] + 1>> \in Places(str, pat)
<1>1. /\ Len(str) \in Nat /\ Len(pat) \in Nat
      /\ \A i \in 1 .. Len(str) : str[i] # "end"
      /\ \A i \in 1 .. Len(pat) : pat[i] # "end"
  BY LenProperties, ElementOfSeq DEF Char
<1>2. /\ at = <<at[1], at[2]>>
      /\ at[1] \in 1 .. Len(str) + 1 /\ at[2] \in 1 .. Len(pat) + 1
  BY DEF Places
<1>3. CharAt(str, at[1]) = "end" <=> at[1] = Len(str) + 1
  BY <1>1, <1>2 DEF CharAt
<1>4. CharAt(pat, at[2]) = "end" <=> at[2] = Len(pat) + 1
  BY <1>1, <1>2 DEF CharAt
<1> QED
  BY <1>1, <1>2, <1>3, <1>4 DEF Places

LEMMA MatchStepAhead ==
    ASSUME NEW str \in Seq(Char), NEW pat \in Seq(Char), NEW f, NEW h,
           NEW at \in Places(str, pat), SameAhead(Places(str, pat), f, h, at)
    PROVE MatchStep(str, pat, f, at) = MatchStep(str, pat, h, at)
<1> DEFINE s == at[1]
           p == at[2]
<1>1. /\ Len(str) \in Nat /\ Len(pat) \in Nat
      /\ s \in 1 .. Len(str) + 1 /\ p \in 1 .. Len(pat) + 1
  BY PlaceFacts
<1>2. \A y \in Places(str, pat) : Reach(y) > s + p => f[y] = h[y]
  BY DEF SameAhead, Reach
<1>3. CASE CharAt(str, s) = "end" \/ CharAt(pat, p) = "end"
  BY <1>3 DEF MatchStep
<1>4. CASE CharAt(str, s) # "end" /\ CharAt(pat, p) # "end"
  <2>1. /\ <<s + 1, p + 1>> \in Places(str, pat)
        /\ <<s, p + 1>> \in Places(str, pat)
        /\ <<s + 1, p>> \in Places(str, pat)
    BY <1>1, <1>4, PlaceFacts DEF Places
  <2>2. /\ f[<<s + 1, p + 1>>] = h[<<s + 1, p + 1>>]
        /\ f[<<s, p + 1>>] = h[<<s, p + 1>>]
        /\ f[<<s + 1, p>>] = h[<<s + 1, p>>]
    BY <1>1, <1>2, <2>1 DEF Reach
  <2> QED
    BY <2>2 DEF MatchStep
<1> QED
  BY <1>3, <1>4

LEMMA CoversStepAhead ==
    ASSUME NEW str \in Seq(Char), NEW pat \in Seq(Char), NEW f, NEW h,
           NEW at \in Places(str, pat), SameAhead(Places(str, pat), f, h, at)
    PROVE CoversStep(pat, str, f, at) = CoversStep(pat, str, h, at)
<1> DEFINE s == at[1]
           p == at[2]
<1>1. /\ Len(str) \in Nat /\ Len(pat) \in Nat
      /\ s \in 1 .. Len(str) + 1 /\ p \in 1 .. Len(pat) + 1
  BY PlaceFacts
<1>2. \A y \in Places(str, pat) : Reach(y) > s + p => f[y] = h[y]
  BY DEF SameAhead, Reach
<1>3. p <= Len(pat) => f[<<s, p + 1>>] = h[<<s, p + 1>>]
  BY <1>1, <1>2 DEF Places, Reach
<1>4. s <= Len(str) => f[<<s + 1, p>>] = h[<<s + 1, p>>]
  BY <1>1, <1>2 DEF Places, Reach
<1>5. s <= Len(str) /\ p <= Len(pat) => f[<<s + 1, p + 1>>] = h[<<s + 1, p + 1>>]
  BY <1>1, <1>2 DEF Places, Reach
<1> QED
  BY <1>1, <1>3, <1>4, <1>5 DEF CoversStep

LEMMA PlacesReach ==
    ASSUME NEW str \in Seq(Char), NEW pat \in Seq(Char)
    PROVE \E n : Within(Places(str, pat), n)
<1>1. Len(str) \in Nat /\ Len(pat) \in Nat
  BY LenProperties
<1>2. \A x \in Places(str, pat) : Reach(x) \in 1 .. Len(str) + Len(pat) + 2
  BY <1>1 DEF Places, Reach
<1>3. Len(str) + Len(pat) + 2 \in Nat
  BY <1>1
<1> QED
  BY <1>2, <1>3 DEF Within

LEMMA SameAll ==
    ASSUME NEW n, NEW D, Within(D, n), NEW f, NEW h, FollowsAhead(D, f, h)
    PROVE \A x \in D : f[x] = h[x]
<1> DEFINE S == {x \in D : f[x] = h[x]}
<1>1. \A x \in D : (\A y \in D : Reach(y) > Reach(x) => y \in S) => x \in S
  BY DEF FollowsAhead, SameAhead
<1>2. S = D
  <2>1. S \in SUBSET D
    OBVIOUS
  <2> HIDE DEF S
  <2> QED
    BY <1>1, <2>1, EndInduction
<1> QED
  BY <1>2

LEMMA Matched ==
    ASSUME NEW str \in Seq(Char), NEW pat \in Seq(Char)
    PROVE \E f \in [Places(str, pat) -> BOOLEAN] :
              /\ \A at \in Places(str, pat) : f[at] = MatchStep(str, pat, f, at)
              /\ Match(str, pat) = f[<<1, 1>>]
<1> DEFINE D == Places(str, pat)
           body == [x \in [D -> BOOLEAN] \X D |-> MatchStep(str, pat, x[1], x[2])]
           Fun(f) == [at \in D |-> MatchStep(str, pat, f, at)]
<1>1. PICK n : Within(D, n)
  BY PlacesReach
<1>2. \A f \in [D -> BOOLEAN] : \A at \in D : MatchStep(str, pat, f, at) \in BOOLEAN
  <2> SUFFICES ASSUME NEW f \in [D -> BOOLEAN], NEW at \in D
               PROVE MatchStep(str, pat, f, at) \in BOOLEAN
    OBVIOUS
  <2>1. CASE CharAt(str, at[1]) = "end" \/ CharAt(pat, at[2]) = "end"
    BY <2>1 DEF MatchStep
  <2>2. CASE CharAt(str, at[1]) # "end" /\ CharAt(pat, at[2]) # "end"
    <3>1. /\ <<at[1] + 1, at[2] + 1>> \in D
          /\ <<at[1], at[2] + 1>> \in D
          /\ <<at[1] + 1, at[2]>> \in D
      BY <2>2, PlaceFacts
    <3> HIDE DEF D
    <3>2. /\ f[<<at[1] + 1, at[2] + 1>>] \in BOOLEAN
          /\ f[<<at[1], at[2] + 1>>] \in BOOLEAN
          /\ f[<<at[1] + 1, at[2]>>] \in BOOLEAN
      BY <3>1
    <3> QED
      BY <3>2 DEF MatchStep
  <2> QED
    BY <2>1, <2>2
<1>3. body \in [[D -> BOOLEAN] \X D -> BOOLEAN]
  BY <1>2
<1>4. \A f \in [D -> BOOLEAN] : \A x \in D : body[<<f, x>>] = MatchStep(str, pat, f, x)
  OBVIOUS
<1>5. \A f, h \in [D -> BOOLEAN] : \A x \in D :
          SameAhead(D, f, h, x) => body[<<f, x>>] = body[<<h, x>>]
  <2>1. ASSUME NEW f, NEW h, NEW x \in D, SameAhead(D, f, h, x)
        PROVE MatchStep(str, pat, f, x) = MatchStep(str, pat, h, x)
    BY <2>1, MatchStepAhead
  <2> HIDE DEF D, body
  <2> QED
    BY <1>4, <2>1, SMT
<1>6. Settled(D, body)
  <2> HIDE DEF D, body
  <2> QED
    BY <1>1, <1>3, <1>5, DefinedAhead
<1>7. PICK f \in [D -> BOOLEAN] : \A at \in D : f[at] = MatchStep(str, pat, f, at)
  BY <1>4, <1>6 DEF Settled
<1>8. f = Fun(f)
  <2> HIDE DEF D
  <2> QED
    BY <1>7
<1> DEFINE h == CHOOSE e : e = Fun(e)
<1>9. h = Fun(h)
  BY <1>8
<1>10. Match(str, pat) = h[<<1, 1>>]
  BY DEF Match, MatchStep, Places
<1> HIDE DEF h
<1>11. \A x \in D : h[x] = MatchStep(str, pat, h, x)
  <2> HIDE DEF D
  <2> QED
    BY <1>9
<1>12. FollowsAhead(D, h, f)
  BY <1>7, <1>11, MatchStepAhead DEF FollowsAhead
<1>13. \A x \in D : h[x] = f[x]
  <2> HIDE DEF D
  <2> QED
    BY <1>1, <1>12, SameAll
<1>14. <<1, 1>> \in D
  BY LenProperties DEF Places
<1> QED
  BY <1>7, <1>10, <1>13, <1>14

CoversAt(str, pat, g, s, p) ==
    /\ p > Len(pat) => (g[<<s, p>>] <=> s > Len(str))
    /\ p <= Len(pat) /\ pat[p] = "*" =>
           (g[<<s, p>>] <=> g[<<s, p + 1>>] \/ (s <= Len(str) /\ g[<<s + 1, p>>]))
    /\ p <= Len(pat) /\ pat[p] # "*" =>
           (g[<<s, p>>] <=> /\ s <= Len(str)
                           /\ pat[p] \in {str[s], "?"}
                           /\ g[<<s + 1, p + 1>>])

CoversAlong(str, pat, g) ==
    \A s \in 1 .. Len(str) + 1, p \in 1 .. Len(pat) + 1 : CoversAt(str, pat, g, s, p)

LEMMA CoversStepType ==
    ASSUME NEW g, NEW pat, NEW str, NEW at
    PROVE CoversStep(pat, str, g, at) \in BOOLEAN
<1>1. CASE at[2] > Len(pat)
  <2>1. CoversStep(pat, str, g, at) = (at[1] > Len(str))
    BY <1>1 DEF CoversStep
  <2>2. (at[1] > Len(str)) \in BOOLEAN
    OBVIOUS
  <2> QED
    BY <2>1, <2>2
<1>2. CASE ~(at[2] > Len(pat)) /\ pat[at[2]] = "*"
  <2> DEFINE b == \/ g[<<at[1], at[2] + 1>>]
                  \/ at[1] <= Len(str) /\ g[<<at[1] + 1, at[2]>>]
  <2>1. CoversStep(pat, str, g, at) = b
    BY <1>2, Zenon DEF CoversStep
  <2>2. b \in BOOLEAN
    BY Zenon
  <2> QED
    BY <2>1, <2>2, Zenon
<1>3. CASE ~(at[2] > Len(pat)) /\ pat[at[2]] # "*"
  <2> DEFINE b == /\ at[1] <= Len(str)
                  /\ pat[at[2]] \in {str[at[1]], "?"}
                  /\ g[<<at[1] + 1, at[2] + 1>>]
  <2>1. CoversStep(pat, str, g, at) = b
    BY <1>3, Zenon DEF CoversStep
  <2>2. b \in BOOLEAN
    BY Zenon
  <2> QED
    BY <2>1, <2>2, Zenon
<1> QED
  BY <1>1, <1>2, <1>3

LEMMA StepAlong ==
    ASSUME NEW str \in Seq(Char), NEW pat \in Seq(Char), NEW g,
           \A at \in Places(str, pat) : g[at] = CoversStep(pat, str, g, at)
    PROVE CoversAlong(str, pat, g)
<1> SUFFICES ASSUME NEW s \in 1 .. Len(str) + 1, NEW p \in 1 .. Len(pat) + 1
    PROVE CoversAt(str, pat, g, s, p)
  BY DEF CoversAlong
<1>1. p \in Int /\ Len(pat) \in Int
  BY LenProperties
<1>2. <<s, p>> \in Places(str, pat)
  BY DEF Places
<1>3. g[<<s, p>>] = CoversStep(pat, str, g, <<s, p>>)
  BY <1>2
<1>4. <<s, p>>[1] = s /\ <<s, p>>[2] = p
  OBVIOUS
<1>5. ASSUME p > Len(pat) PROVE g[<<s, p>>] <=> s > Len(str)
  <2>1. CoversStep(pat, str, g, <<s, p>>) <=> s > Len(str)
    BY <1>4, <1>5 DEF CoversStep
  <2> QED
    BY ONLY <1>3, <2>1, Zenon
<1>6. ASSUME p <= Len(pat), pat[p] = "*"
      PROVE g[<<s, p>>] <=> g[<<s, p + 1>>] \/ (s <= Len(str) /\ g[<<s + 1, p>>])
  <2>1. ~(p > Len(pat))
    BY <1>1, <1>6
  <2>2. CoversStep(pat, str, g, <<s, p>>)
            <=> g[<<s, p + 1>>] \/ (s <= Len(str) /\ g[<<s + 1, p>>])
    BY <1>4, <1>6, <2>1, Zenon DEF CoversStep
  <2> QED
    BY ONLY <1>3, <2>2, Zenon
<1>7. ASSUME p <= Len(pat), pat[p] # "*"
      PROVE g[<<s, p>>] <=> /\ s <= Len(str)
                           /\ pat[p] \in {str[s], "?"}
                           /\ g[<<s + 1, p + 1>>]
  <2>1. ~(p > Len(pat))
    BY <1>1, <1>7
  <2>2. CoversStep(pat, str, g, <<s, p>>)
            <=> /\ s <= Len(str)
                /\ pat[p] \in {str[s], "?"}
                /\ g[<<s + 1, p + 1>>]
    BY <1>4, <1>7, <2>1, Zenon DEF CoversStep
  <2> QED
    BY ONLY <1>3, <2>2, Zenon
<1> QED
  BY <1>5, <1>6, <1>7, Zenon DEF CoversAt

LEMMA CoveredBy ==
    ASSUME NEW str \in Seq(Char), NEW pat \in Seq(Char)
    PROVE \E g \in [Places(str, pat) -> BOOLEAN] :
              /\ CoversAlong(str, pat, g)
              /\ Covers(pat, str) = g[<<1, 1>>]
<1> DEFINE D == Places(str, pat)
           body == [x \in [D -> BOOLEAN] \X D |-> CoversStep(pat, str, x[1], x[2])]
           Fun(g) == [at \in D |-> CoversStep(pat, str, g, at)]
<1>1. PICK n : Within(D, n)
  BY PlacesReach
<1>2. \A g \in [D -> BOOLEAN] : \A at \in D : CoversStep(pat, str, g, at) \in BOOLEAN
  BY CoversStepType
<1>3. body \in [[D -> BOOLEAN] \X D -> BOOLEAN]
  BY <1>2
<1>4. \A g \in [D -> BOOLEAN] : \A x \in D : body[<<g, x>>] = CoversStep(pat, str, g, x)
  OBVIOUS
<1>5. \A g, h \in [D -> BOOLEAN] : \A x \in D :
          SameAhead(D, g, h, x) => body[<<g, x>>] = body[<<h, x>>]
  <2>1. ASSUME NEW g, NEW h, NEW x \in D, SameAhead(D, g, h, x)
        PROVE CoversStep(pat, str, g, x) = CoversStep(pat, str, h, x)
    BY <2>1, CoversStepAhead
  <2> HIDE DEF D, body
  <2> QED
    BY <1>4, <2>1, SMT
<1>6. Settled(D, body)
  <2> HIDE DEF D, body
  <2> QED
    BY <1>1, <1>3, <1>5, DefinedAhead
<1>7. PICK g \in [D -> BOOLEAN] : \A at \in D : g[at] = CoversStep(pat, str, g, at)
  BY <1>4, <1>6 DEF Settled
<1>8. g = Fun(g)
  <2> HIDE DEF D
  <2> QED
    BY <1>7
<1> DEFINE h == CHOOSE e : e = Fun(e)
<1>9. h = Fun(h)
  BY <1>8
<1>10. Covers(pat, str) = h[<<1, 1>>]
  BY DEF Covers, CoversStep, Places
<1> HIDE DEF h
<1>11. \A x \in D : h[x] = CoversStep(pat, str, h, x)
  <2> HIDE DEF D
  <2> QED
    BY <1>9
<1>12. FollowsAhead(D, h, g)
  BY <1>7, <1>11, CoversStepAhead DEF FollowsAhead
<1>13. \A x \in D : h[x] = g[x]
  <2> HIDE DEF D
  <2> QED
    BY <1>1, <1>12, SameAll
<1>14. <<1, 1>> \in D
  BY LenProperties DEF Places
<1>15. CoversAlong(str, pat, g)
  BY <1>7, StepAlong
<1> QED
  BY <1>10, <1>13, <1>14, <1>15

LEMMA PlainlyFacts ==
    ASSUME NEW str \in Plainly
    PROVE /\ str \in Seq(Char)
          /\ \A i \in 1 .. Len(str) : str[i] # "*" /\ str[i] # "?"
<1>1. str \in Seq(Char)
  <2>1. Char \ {"*", "?"} \subseteq Char
    OBVIOUS
  <2> QED
    BY <2>1, SeqMonotonic DEF Plainly
<1>2. \A i \in 1 .. Len(str) : str[i] \in Char \ {"*", "?"}
  BY ElementOfSeq DEF Plainly
<1> QED
  BY <1>1, <1>2

(* match() finds nothing that the mask does not cover.                     *)
LEMMA MatchCovers ==
    ASSUME NEW str \in Plainly, NEW pat \in Seq(Char), Match(str, pat)
    PROVE Covers(pat, str)
<1> DEFINE D == Places(str, pat)
<1>1. str \in Seq(Char) /\ \A i \in 1 .. Len(str) : str[i] # "*" /\ str[i] # "?"
  BY PlainlyFacts
<1>2. PICK f \in [D -> BOOLEAN] : /\ \A at \in D : f[at] = MatchStep(str, pat, f, at)
                                  /\ Match(str, pat) = f[<<1, 1>>]
  BY <1>1, Matched
<1>3. PICK g \in [D -> BOOLEAN] : /\ CoversAlong(str, pat, g)
                                  /\ Covers(pat, str) = g[<<1, 1>>]
  BY <1>1, CoveredBy
<1> DEFINE S == {at \in D : f[at] => g[at]}
<1>4. ASSUME NEW at \in D, \A y \in D : Reach(y) > Reach(at) => y \in S, f[at]
      PROVE g[at]
  <2> DEFINE s == at[1]
             p == at[2]
             c == CharAt(str, s)
             m == CharAt(pat, p)
             next == CharAt(pat, p + 1)
  <2>1. /\ Len(str) \in Nat /\ Len(pat) \in Nat
        /\ s \in 1 .. Len(str) + 1 /\ p \in 1 .. Len(pat) + 1
        /\ c = "end" <=> s = Len(str) + 1
        /\ m = "end" <=> p = Len(pat) + 1
    BY <1>1, PlaceFacts
  <2>2. at = <<s, p>>
    BY DEF Places
  <2>3. CoversAt(str, pat, g, s, p)
    BY <1>3, <2>1 DEF CoversAlong
  <2>4. \A y \in D : y[1] + y[2] > s + p => (f[y] => g[y])
    BY <1>4 DEF Reach
  <2>5. CASE c = "end"
    <3>1. s = Len(str) + 1 /\ (m = "end" \/ (m = "*" /\ next = "end"))
      BY <1>2, <1>4, <2>1, <2>5 DEF MatchStep
    <3>2. CASE m = "end"
      <4>1. p > Len(pat) /\ s > Len(str)
        BY <2>1, <3>1, <3>2
      <4> QED
        BY <2>2, <2>3, <4>1 DEF CoversAt
    <3>3. CASE m = "*" /\ next = "end"
      <4>1. p <= Len(pat) /\ pat[p] = "*"
        BY <2>1, <3>3 DEF CharAt
      <4>2. <<s, p + 1>> \in D
        BY <2>1, <4>1 DEF Places
      <4>3. p + 1 > Len(pat)
        <5> SUFFICES ASSUME p + 1 <= Len(pat) PROVE FALSE
          BY <2>1
        <5>1. pat[p + 1] # "end"
          BY <2>1, ElementOfSeq DEF Char
        <5> QED
          BY <3>3, <5>1 DEF CharAt
      <4>4. g[<<s, p + 1>>]
        <5>1. CoversAt(str, pat, g, s, p + 1)
          BY <1>3, <2>1, <4>1 DEF CoversAlong
        <5> QED
          BY <2>1, <3>1, <4>3, <5>1 DEF CoversAt
      <4> QED
        BY <2>2, <2>1, <2>3, <4>1, <4>4 DEF CoversAt
    <3> QED
      BY <3>1, <3>2, <3>3
  <2>6. CASE c # "end"
    <3>1. m # "end"
      BY <1>2, <1>4, <2>6 DEF MatchStep
    <3>2. /\ s <= Len(str) /\ p <= Len(pat)
          /\ c = str[s] /\ m = pat[p] /\ c # "*" /\ c # "?"
      BY <1>1, <2>1, <2>6, <3>1 DEF CharAt
    <3>3. /\ <<s + 1, p + 1>> \in D
          /\ <<s, p + 1>> \in D
          /\ <<s + 1, p>> \in D
      BY <2>1, <3>2 DEF Places
    <3>4. /\ f[<<s + 1, p + 1>>] => g[<<s + 1, p + 1>>]
          /\ f[<<s, p + 1>>] => g[<<s, p + 1>>]
          /\ f[<<s + 1, p>>] => g[<<s + 1, p>>]
      <4> HIDE DEF D, s, p, c, m, next
      <4>1. /\ (s + 1) + (p + 1) > s + p
            /\ s + (p + 1) > s + p
            /\ (s + 1) + p > s + p
        BY <2>1
      <4>2. \A i, j : <<i, j>> \in D /\ i + j > s + p => (f[<<i, j>>] => g[<<i, j>>])
        BY <2>4
      <4> QED
        BY <3>3, <4>1, <4>2
    <3>5. CASE m # "*"
      <4>1. (c = m \/ m = "?") /\ f[<<s + 1, p + 1>>]
        BY <1>2, <1>4, <2>6, <3>1, <3>5 DEF MatchStep
      <4> QED
        BY <2>2, <2>3, <3>2, <3>4, <3>5, <4>1 DEF CoversAt
    <3>6. CASE m = "*"
      <4>1. f[<<s + 1, p + 1>>] \/ f[<<s, p + 1>>] \/ f[<<s + 1, p>>]
        BY <1>2, <1>4, <2>6, <3>1, <3>2, <3>6 DEF MatchStep
      <4>2. g[<<s + 1, p + 1>>] => g[<<s + 1, p>>]
        <5>1. s + 1 \in 1 .. Len(str) + 1 /\ p \in 1 .. Len(pat) + 1
          BY <2>1, <3>2
        <5>2. g[<<s + 1, p + 1>>] => g[<<s + 1, p>>]
          <6>1. CoversAt(str, pat, g, s + 1, p)
            BY <1>3, <5>1 DEF CoversAlong
          <6>2. g[<<s + 1, p>>] <=>
                    g[<<s + 1, p + 1>>] \/ (s + 1 <= Len(str) /\ g[<<s + 1 + 1, p>>])
            BY <3>2, <3>6, <6>1, Zenon DEF CoversAt
          <6> QED
            BY <6>2
        <5> QED
          BY <5>2
      <4> QED
        BY <2>2, <2>3, <3>2, <3>4, <3>6, <4>1, <4>2 DEF CoversAt
    <3> QED
      BY <3>5, <3>6
  <2> QED
    BY <2>5, <2>6
<1>5. S = D
  <2>1. PICK n : Within(D, n)
    BY <1>1, PlacesReach
  <2>2. S \in SUBSET D
    OBVIOUS
  <2>3. \A x \in D : (\A y \in D : Reach(y) > Reach(x) => y \in S) => x \in S
    BY <1>4
  <2> HIDE DEF S, D
  <2> QED
    BY <2>1, <2>2, <2>3, EndInduction
<1>6. <<1, 1>> \in D
  BY <1>1, LenProperties DEF Places
<1> QED
  BY <1>2, <1>3, <1>5, <1>6

(* With a star at the end at the most, it finds all that the mask covers.  *)
LEMMA PlainMatches ==
    ASSUME NEW str \in Plainly, NEW pat \in Seq(Char), Plain(pat), Covers(pat, str)
    PROVE Match(str, pat)
<1> DEFINE D == Places(str, pat)
<1>1. str \in Seq(Char) /\ \A i \in 1 .. Len(str) : str[i] # "*" /\ str[i] # "?"
  BY PlainlyFacts
<1>2. PICK f \in [D -> BOOLEAN] : /\ \A at \in D : f[at] = MatchStep(str, pat, f, at)
                                  /\ Match(str, pat) = f[<<1, 1>>]
  BY <1>1, Matched
<1>3. PICK g \in [D -> BOOLEAN] : /\ CoversAlong(str, pat, g)
                                  /\ Covers(pat, str) = g[<<1, 1>>]
  BY <1>1, CoveredBy
<1> DEFINE S == {at \in D : g[at] => f[at]}
<1>4. ASSUME NEW at \in D, \A y \in D : Reach(y) > Reach(at) => y \in S, g[at]
      PROVE f[at]
  <2> DEFINE s == at[1]
             p == at[2]
             c == CharAt(str, s)
             m == CharAt(pat, p)
             next == CharAt(pat, p + 1)
             later == CharAt(str, s + 1)
  <2>1. /\ Len(str) \in Nat /\ Len(pat) \in Nat
        /\ s \in 1 .. Len(str) + 1 /\ p \in 1 .. Len(pat) + 1
        /\ c = "end" <=> s = Len(str) + 1
        /\ m = "end" <=> p = Len(pat) + 1
    BY <1>1, PlaceFacts
  <2>2. at = <<s, p>>
    BY DEF Places
  <2>3. CoversAt(str, pat, g, s, p)
    BY <1>3, <2>1 DEF CoversAlong
  <2>4. \A y \in D : y[1] + y[2] > s + p => (g[y] => f[y])
    BY <1>4 DEF Reach
  <2>5. CASE p > Len(pat)
    <3>1. c = "end" /\ m = "end"
      BY <1>4, <2>2, <2>1, <2>5, <2>3 DEF CoversAt
    <3> QED
      BY <1>2, <3>1 DEF MatchStep
  <2>6. CASE p <= Len(pat) /\ pat[p] # "*"
    <3>1. s <= Len(str) /\ pat[p] \in {str[s], "?"} /\ g[<<s + 1, p + 1>>]
      BY <1>4, <2>2, <2>6, <2>3 DEF CoversAt
    <3>2. c = str[s] /\ m = pat[p] /\ c # "end" /\ m # "end"
      BY <2>1, <2>6, <3>1 DEF CharAt
    <3>3. <<s + 1, p + 1>> \in D
      BY <2>1, <2>6, <3>1 DEF Places
    <3>4. f[<<s + 1, p + 1>>]
      BY <2>1, <2>4, <3>1, <3>3
    <3> QED
      BY <1>2, <3>1, <3>2, <3>4 DEF MatchStep
  <2>7. CASE p <= Len(pat) /\ pat[p] = "*"
    <3>1. p = Len(pat)
      BY <2>1, <2>7, LenProperties DEF Plain
    <3>2. next = "end" /\ m = "*"
      BY <2>1, <2>7, <3>1 DEF CharAt
    <3>3. CASE c = "end"
      BY <1>2, <3>2, <3>3 DEF MatchStep
    <3>4. CASE c # "end"
      <4>1. s <= Len(str) /\ c # "*" /\ c # "?"
        BY <1>1, <2>1, <3>4 DEF CharAt
      <4>2. <<s, p + 1>> \in D /\ <<s + 1, p>> \in D /\ <<s + 1, p + 1>> \in D
        BY <2>1, <2>7, <4>1 DEF Places
      <4>3. ~g[<<s, p + 1>>]
        <5>1. s \in 1 .. Len(str) + 1 /\ p + 1 \in 1 .. Len(pat) + 1
          BY <2>1, <3>1
        <5>2. p + 1 > Len(pat) /\ ~(s > Len(str))
          BY <2>1, <3>1, <4>1
        <5> QED
          BY <1>3, <5>1, <5>2 DEF CoversAlong, CoversAt
      <4>4. g[<<s + 1, p>>]
        BY <1>4, <2>2, <2>7, <2>3, <4>3 DEF CoversAt
      <4>5. f[<<s + 1, p>>]
        BY <2>1, <2>4, <4>2, <4>4
      <4>6. CASE later # "end"
        <5>1. f[at] = f[<<s + 1, p>>]
          BY <1>2, <3>2, <3>4, <4>1, <4>6 DEF MatchStep
        <5> QED
          BY <4>5, <5>1
      <4>7. CASE later = "end"
        <5>1. s + 1 = Len(str) + 1
          <6>1. <<s + 1, p>>[1] = s + 1
            OBVIOUS
          <6> QED
            BY <1>1, <2>1, <4>2, <4>7, <6>1, PlaceFacts
        <5>2. f[<<s + 1, p + 1>>] = MatchStep(str, pat, f, <<s + 1, p + 1>>)
          BY <1>2, <4>2
        <5>3. CharAt(str, s + 1) = "end" /\ CharAt(pat, p + 1) = "end"
          BY <3>2, <4>7
        <5>4. f[<<s + 1, p + 1>>]
          BY <5>2, <5>3 DEF MatchStep
        <5>5. f[at] = f[<<s + 1, p + 1>>]
          BY <1>2, <3>2, <3>4, <4>1, <4>7 DEF MatchStep
        <5> QED
          BY <5>4, <5>5
      <4> QED
        BY <4>6, <4>7
    <3> QED
      BY <3>3, <3>4
  <2> QED
    BY <2>1, <2>5, <2>6, <2>7
<1>5. S = D
  <2>1. PICK n : Within(D, n)
    BY <1>1, PlacesReach
  <2>2. S \in SUBSET D
    OBVIOUS
  <2>3. \A x \in D : (\A y \in D : Reach(y) > Reach(x) => y \in S) => x \in S
    BY <1>4
  <2> HIDE DEF S, D
  <2> QED
    BY <2>1, <2>2, <2>3, EndInduction
<1>6. <<1, 1>> \in D
  BY <1>1, LenProperties DEF Places
<1> QED
  BY <1>2, <1>3, <1>5, <1>6

LEMMA ReplacedIsMask ==
    ASSUME NEW pat \in Seq(Char), NEW host \in Seq(Char)
    PROVE Replaced(pat, host) \in Seq(Char)
<1> DEFINE at == {i \in 1 .. Len(pat) - 1 : pat[i] = "@" /\ pat[i + 1] = "@"}
           i == CHOOSE i \in at : \A j \in at : j <= i
<1>1. Len(pat) \in Nat /\ \A k \in 1 .. Len(pat) : pat[k] \in Char
  BY LenProperties, ElementOfSeq
<1>2. CASE host = << >> \/ at = {}
  BY <1>2 DEF Replaced
<1>3. CASE ~(host = << >> \/ at = {})
  <2>1. \E k \in at : \A j \in at : j <= k
    <3>1. at \in SUBSET (1 .. Len(pat))
      BY <1>1
    <3> HIDE DEF at
    <3>2. PICK k : IsLast(k, at)
      BY <1>1, <1>3, <3>1, LastExists
    <3> QED
      BY <3>2 DEF IsLast
  <2>2. i \in at
    <3> HIDE DEF at
    <3> QED
      BY <2>1
  <2>3. i \in 1 .. Len(pat) - 1
    BY <2>2
  <2>4. Replaced(pat, host)
            = SubSeq(pat, 1, i - 1) \o host \o SubSeq(pat, i + 2, Len(pat))
    BY <1>3, Zenon DEF Replaced
  <2> HIDE DEF i
  <2>5. SubSeq(pat, 1, i - 1) \in Seq(Char)
    <3>1. \A k \in 1 .. i - 1 : pat[k] \in Char
      BY <1>1, <2>3
    <3> QED
      BY <2>3, <3>1, SubSeqProperties
  <2>6. SubSeq(pat, i + 2, Len(pat)) \in Seq(Char)
    <3>1. \A k \in i + 2 .. Len(pat) : pat[k] \in Char
      BY <1>1, <2>3
    <3> QED
      BY <1>1, <2>3, <3>1, SubSeqProperties
  <2>7. SubSeq(pat, 1, i - 1) \o host \in Seq(Char)
    BY <2>5, ConcatProperties
  <2> QED
    BY <2>4, <2>6, <2>7, ConcatProperties
<1> QED
  BY <1>2, <1>3

(* Whatever the lists, the masks, the host and the names: who a list       *)
(* permits is covered by one of its rules that allows, and no rule after   *)
(* it that is a plain mask forbids him; who the last rule that covers him  *)
(* allows plainly is permitted.  is_perm() of perm.c on match().           *)
LEMMA PermitsCoveredHolds == PermitsCovered
<1> SUFFICES ASSUME NEW list \in RuleLists, NEW host \in Hosts, NEW name \in MaskNames
    PROVE LET covering == Covering(list, name, host)
              plain(i) == Plain(Replaced(list[i].mask, host))
              later(i) == {j \in covering : j > i}
              may == {i \in covering : list[i].allowed}
          IN
          /\ IsPerm(list, name, host) =>
                 \E i \in may : \A j \in later(i) : list[j].allowed \/ ~plain(j)
          /\ (\E i \in may : plain(i) /\ later(i) = {}) => IsPerm(list, name, host)
  BY DEF PermitsCovered
<1> DEFINE mask(i) == Replaced(list[i].mask, host)
           hits == {i \in DOMAIN list : Match(name, mask(i))}
           covering == Covering(list, name, host)
<1>1. /\ name \in Plainly
      /\ host \in Seq(Char)
      /\ list \in Seq([mask : Seq(Char), allowed : BOOLEAN])
  <2>1. host \in Plainly /\ name \in Plainly
    BY MatchAssumption DEF Plainly, Char
  <2>2. list \in Seq([mask : Seq(Char), allowed : BOOLEAN])
    BY MatchAssumption DEF Char
  <2> QED
    BY <2>1, <2>2, PlainlyFacts
<1>2. DOMAIN list = 1 .. Len(list) /\ Len(list) \in Nat
  BY <1>1, LenProperties
<1>3. \A i \in DOMAIN list : mask(i) \in Seq(Char)
  <2> SUFFICES ASSUME NEW i \in DOMAIN list PROVE mask(i) \in Seq(Char)
    OBVIOUS
  <2>1. list[i] \in [mask : Seq(Char), allowed : BOOLEAN]
    BY <1>1, <1>2, ElementOfSeq
  <2>2. list[i].mask \in Seq(Char)
    BY <2>1
  <2> QED
    BY <1>1, <2>2, ReplacedIsMask
<1>4. \A i \in DOMAIN list : Match(name, mask(i)) => Covers(mask(i), name)
  BY <1>1, <1>3, MatchCovers
<1>5. \A i \in DOMAIN list :
          Plain(mask(i)) /\ Covers(mask(i), name) => Match(name, mask(i))
  BY <1>1, <1>3, PlainMatches
<1>6. covering = {i \in DOMAIN list : Covers(mask(i), name)}
  BY DEF Covering
<1>7. IsPerm(list, name, host) <=> \E i \in hits : list[i].allowed /\ \A j \in hits : j <= i
  BY Zenon DEF IsPerm
<1>8. ASSUME IsPerm(list, name, host)
      PROVE \E i \in {i \in covering : list[i].allowed} :
                \A j \in {j \in covering : j > i} : list[j].allowed \/ ~Plain(mask(j))
  <2>1. PICK i \in hits : list[i].allowed /\ \A j \in hits : j <= i
    BY <1>7, <1>8
  <2>2. i \in {k \in covering : list[k].allowed}
    BY <1>4, <1>6, <2>1
  <2>3. ASSUME NEW j \in covering, j > i PROVE ~Plain(mask(j))
    <3>1. j \notin hits
      BY <1>2, <1>6, <2>1, <2>3
    <3> QED
      BY <1>5, <1>6, <2>3, <3>1
  <2> HIDE DEF mask, covering
  <2> QED
    BY <2>2, <2>3
<1>9. ASSUME NEW i \in covering, list[i].allowed, Plain(mask(i)),
             {j \in covering : j > i} = {}
      PROVE IsPerm(list, name, host)
  <2>1. i \in hits
    BY <1>5, <1>6, <1>9
  <2>2. \A j \in hits : j <= i
    BY <1>2, <1>4, <1>6, <1>9
  <2> QED
    BY <1>7, <1>9, <2>1, <2>2
<1> QED
  BY <1>8, <1>9, Zenon

(* The same of the program as it starts with its lists: no state in which  *)
(* ChannelState begins has rules that decide otherwise.                    *)
THEOREM MasksDecideHolds == StateSpec => []MasksDecide
<1>1. MasksDecide
  BY PermitsCoveredHolds DEF MasksDecide
<1> QED
  BY <1>1, PTL
=============================================================================
