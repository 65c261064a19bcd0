---------------------------- MODULE MessagesProofs ----------------------------
(***************************************************************************)
(* What others send to miau.  Of what it keeps, every conversation is      *)
(* bracketed by header and footer, and a pause ends within one check       *)
(* period, for any nicks, times and periods.  Of what it answers, the      *)
(* ignore list is the set of hosts that were answered lately, and the      *)
(* heap that it shares with the linked lists holds the sequences that the  *)
(* calls have built, for any number of nodes and hosts.                    *)
(***************************************************************************)
EXTENDS Messages, Ignore, SequencesExt, SequenceTheorems, FiniteSetTheorems,
        WellFoundedInduction, TLAPS

(* The types of Forward and of Privlog.                                    *)
ForwardType ==
    /\ forwardmsg \in 0 .. MaxLines
    /\ forwardtimer \in 0 .. ForwardTime - 1
    /\ quiet \in 0 .. MaxWait

PrivlogType ==
    /\ open_logs \in [Nick -> Entry]
    /\ privlogtimer \in 0 .. CheckPeriod - 1
    /\ freed \subseteq Nick
    /\ mark \in [Nick -> {"none", "header", "footer"}]
    /\ torn \subseteq Nick

(* What IdleIsClosed says at a check is true in between with what timers.  *)
(* privlog has counted since.                                              *)
Paced ==
    \A n \in Listed :
        /\ open_logs[n].idle <= TimeGrace + privlogtimer
        /\ open_logs[n].file = "open" => open_logs[n].idle <= TimeOpen + privlogtimer

PrivlogInv == PrivlogType /\ Bracketed /\ Paced

IInv == cfg \in Configs /\ attached \in BOOLEAN /\ ForwardType /\ PrivlogInv
------------------------------------------------------------------------------
LEMMA EntryIs ==
    /\ Unlisted \in Entry
    /\ Unlisted.file = "none"
    /\ \A e \in Entry : /\ e.idle \in 0 .. MaxIdle
                        /\ e.file \in {"none", "open", "closed"}
                        /\ e = Unlisted <=> e.file = "none"
BY PrivlogAssumption DEF Entry, Unlisted

LEMMA EntryMade ==
    ASSUME NEW f \in {"open", "closed"}, NEW i \in 0 .. MaxIdle,
           NEW e, e = [file |-> f, idle |-> i]
    PROVE e \in Entry /\ e # Unlisted /\ e.file = f /\ e.idle = i
BY DEF Entry, Unlisted

LEMMA ForwardKeeps ==
    ASSUME ForwardType
    PROVE /\ Collect => ForwardType'
          /\ \A on, piped \in BOOLEAN : ForwardTimer(on, piped) => ForwardType'
          /\ UNCHANGED forwardVars => ForwardType'
<1>1. Collect => ForwardType'
  BY ForwardAssumption DEF ForwardType, Collect, Longer
<1>2. ASSUME NEW on \in BOOLEAN, NEW piped \in BOOLEAN, ForwardTimer(on, piped)
      PROVE ForwardType'
  BY <1>2, ForwardAssumption DEF ForwardType, ForwardTimer, Longer, forwardDue
<1>3. UNCHANGED forwardVars => ForwardType'
  BY DEF ForwardType, forwardVars
<1> QED
  BY <1>1, <1>2, <1>3

LEMMA UnchangedKeeps ==
    ASSUME PrivlogInv, UNCHANGED privlogVars
    PROVE PrivlogInv'
BY DEF PrivlogInv, PrivlogType, Bracketed, Paced, Listed, privlogVars

(* Writing sets the pause back to 0, and a header is written for a new     *)
(* entry only.                                                             *)
LEMMA WriteKeeps ==
    ASSUME PrivlogInv, NEW n \in Nick, NEW opens \in BOOLEAN, PrivlogWrite(n, opens)
    PROVE PrivlogInv'
<1> USE DEF PrivlogInv
<1>0. privlogtimer \in Nat /\ TimeGrace \in Nat /\ TimeOpen \in Nat /\ 0 \in 0 .. MaxIdle
  BY PrivlogAssumption DEF PrivlogType
<1>1. CASE open_logs[n].file = "open" \/ opens
  <2> DEFINE e == [file |-> "open", idle |-> 0]
  <2>1. e \in Entry /\ e # Unlisted /\ e.idle = 0
    BY <1>0, EntryMade
  <2>2. /\ open_logs' = [open_logs EXCEPT ![n] = e]
        /\ mark' = IF n \in Listed THEN mark ELSE [mark EXCEPT ![n] = "header"]
        /\ UNCHANGED <<freed, torn, privlogtimer>>
    BY <1>1 DEF PrivlogWrite
  <2> HIDE DEF e
  <2>3. PrivlogType'
    BY <2>1, <2>2 DEF PrivlogType
  <2>4. Listed' = Listed \cup {n}
    BY <2>1, <2>2 DEF Listed, PrivlogType
  <2>5. Bracketed'
    BY <2>2, <2>4 DEF Bracketed, PrivlogType, Listed
  <2>6. ASSUME NEW m \in Listed'
        PROVE /\ open_logs'[m].idle <= TimeGrace + privlogtimer'
              /\ open_logs'[m].file = "open" =>
                     open_logs'[m].idle <= TimeOpen + privlogtimer'
    <3>1. CASE m = n
      BY <1>0, <2>1, <2>2, <3>1 DEF PrivlogType
    <3>2. CASE m # n
      BY <2>2, <2>4, <2>6, <3>2 DEF Paced, PrivlogType, Listed
    <3> QED
      BY <3>1, <3>2
  <2> QED
    BY <2>3, <2>5, <2>6 DEF Paced
<1>2. CASE ~(open_logs[n].file = "open" \/ opens)
  <2>1. /\ open_logs' = [open_logs EXCEPT ![n] = Unlisted]
        /\ freed' = IF n \in Listed THEN freed \cup {n} ELSE freed
        /\ torn' = IF n \in Listed THEN torn \cup {n} ELSE torn
        /\ UNCHANGED <<mark, privlogtimer>>
    BY <1>2 DEF PrivlogWrite
  <2>2. PrivlogType'
    BY <2>1, EntryIs DEF PrivlogType
  <2>3. Listed' = Listed \ {n}
    BY <2>1 DEF Listed, PrivlogType
  <2>4. Bracketed'
    BY <2>1, <2>3 DEF Bracketed
  <2>5. Paced'
    BY <2>1, <2>3 DEF Paced, PrivlogType, Listed
  <2> QED
    BY <2>2, <2>4, <2>5
<1> QED
  BY <1>1, <1>2

(* Finalizing writes the footer, or the file is torn.                      *)
LEMMA FinalizedMarks ==
    ASSUME PrivlogType, NEW gone \in SUBSET Nick, NEW opens \in SUBSET Nick,
           Finalized(gone, opens)
    PROVE /\ mark' \in [Nick -> {"none", "header", "footer"}]
          /\ torn' \subseteq Nick
          /\ torn \subseteq torn'
          /\ \A n \in gone \ torn' : mark'[n] = "footer"
          /\ \A n \in Nick \ gone : mark'[n] = mark[n]
BY DEF Finalized, PrivlogType

(* If the entries gone are finalized and are the ones that leave the list, *)
(* the files stay bracketed.                                               *)
LEMMA FinalizedBrackets ==
    ASSUME PrivlogType, Bracketed, NEW gone \in SUBSET Listed,
           NEW opens \in SUBSET Nick,
           Finalized(gone, opens), Listed' = Listed \ gone
    PROVE Bracketed'
<1>1. gone \in SUBSET Nick /\ Listed \subseteq Nick
  BY DEF Listed
<1>2. SUFFICES ASSUME NEW n \in Nick \ torn'
               PROVE n \in Listed' <=> mark'[n] = "header"
  BY DEF Bracketed
<1>3. n \notin torn
  BY <1>1, <1>2, FinalizedMarks
<1>4. CASE n \in gone
  BY <1>1, <1>2, <1>4, FinalizedMarks
<1>5. CASE n \notin gone
  BY <1>1, <1>2, <1>3, <1>5, FinalizedMarks DEF Bracketed
<1> QED
  BY <1>4, <1>5

LEMMA TimerKeeps ==
    ASSUME PrivlogInv, NEW opens \in SUBSET Nick, PrivlogTimer(opens)
    PROVE PrivlogInv'
<1> USE DEF PrivlogInv
<1> DEFINE pause == [n \in Nick |-> IF open_logs[n].idle = MaxIdle THEN MaxIdle
                                   ELSE open_logs[n].idle + 1]
           due == hasOpen /\ privlogtimer + 1 >= CheckPeriod
<1>0. /\ privlogtimer \in Nat /\ privlogtimer < CheckPeriod
      /\ TimeGrace \in Nat /\ TimeOpen \in Nat /\ CheckPeriod \in Nat \ {0}
      /\ MaxIdle \in Nat
  BY PrivlogAssumption DEF PrivlogType
<1>1. \A n \in Nick : /\ open_logs[n] \in Entry
                      /\ open_logs[n].idle \in 0 .. MaxIdle
                      /\ open_logs[n].file \in {"none", "open", "closed"}
                      /\ n \in Listed <=> open_logs[n].file # "none"
  BY EntryIs DEF PrivlogType, Listed
<1>2. \A n \in Nick : /\ pause[n] \in 0 .. MaxIdle
                      /\ pause[n] <= open_logs[n].idle + 1
  BY <1>0, <1>1
<1>3. /\ privlogtimer' = IF ~hasOpen THEN privlogtimer
                         ELSE IF due THEN 0 ELSE privlogtimer + 1
      /\ freed' = freed
  BY DEF PrivlogTimer
<1>4. CASE due
  <2> DEFINE over == {n \in Listed : pause[n] > TimeGrace}
             Paused(n) == IF pause[n] > TimeOpen THEN "closed" ELSE open_logs[n].file
  <2>1. /\ Finalized(over, opens)
        /\ open_logs' = [n \in Nick |->
                            IF n \in over \/ n \notin Listed THEN Unlisted
                            ELSE [file |-> Paused(n), idle |-> pause[n]]]
    BY <1>4 DEF PrivlogTimer, CloseOld
  <2>2. over \in SUBSET Listed /\ over \in SUBSET Nick
    BY DEF Listed
  <2>3. \A n \in Listed \ over : Paused(n) \in {"open", "closed"} /\ n \in Nick
    BY <1>1 DEF Listed
  <2>4. \A n \in Listed \ over : pause[n] <= TimeGrace
    BY <1>0, <1>2, <2>3
  <2>5. \A n \in Listed \ over : Paused(n) = "open" => pause[n] <= TimeOpen
    BY <1>0, <1>2, <2>3
  <2>6. ASSUME NEW n \in Listed \ over
        PROVE /\ open_logs'[n] \in Entry
              /\ open_logs'[n] # Unlisted
              /\ open_logs'[n].idle = pause[n]
              /\ open_logs'[n].file = Paused(n)
    <3>1. n \in Nick /\ Paused(n) \in {"open", "closed"} /\ pause[n] \in 0 .. MaxIdle
      BY <1>2, <2>3
    <3>2. open_logs'[n] = [file |-> Paused(n), idle |-> pause[n]]
      BY <2>1, <3>1
    <3> HIDE DEF Paused, pause, over
    <3> QED
      BY <3>1, <3>2, EntryMade
  <2>7. \A n \in Nick : n \in over \/ n \notin Listed => open_logs'[n] = Unlisted
    BY <2>1
  <2>8. \A n \in Nick : open_logs'[n] \in Entry
    BY <2>6, <2>7, EntryIs
  <2>9. Listed' = Listed \ over
    <3> HIDE DEF over, Paused, pause
    <3> QED
      BY <2>6, <2>7 DEF Listed
  <2>10. PrivlogType'
    <3>1. DOMAIN open_logs' = Nick /\ open_logs' \in [Nick -> Entry]
      BY <2>1, <2>8
    <3>2. privlogtimer' = 0
      BY <1>3, <1>4
    <3>3. privlogtimer' \in 0 .. CheckPeriod - 1
      BY <1>0, <3>2
    <3>4. mark' \in [Nick -> {"none", "header", "footer"}] /\ torn' \subseteq Nick
      <4> HIDE DEF over
      <4> QED
        BY <2>1, <2>2, FinalizedMarks
    <3> QED
      BY <1>3, <3>1, <3>3, <3>4 DEF PrivlogType
  <2>11. Bracketed'
    <3> HIDE DEF over
    <3> QED
      BY <2>1, <2>2, <2>9, FinalizedBrackets
  <2>12. Paced'
    <3>1. privlogtimer' = 0
      BY <1>3, <1>4
    <3>2. SUFFICES ASSUME NEW n \in Listed'
                   PROVE /\ open_logs'[n].idle <= TimeGrace + privlogtimer'
                         /\ open_logs'[n].file = "open" =>
                                open_logs'[n].idle <= TimeOpen + privlogtimer'
      BY DEF Paced
    <3>3. n \in Listed \ over /\ n \in Nick /\ pause[n] \in 0 .. MaxIdle
      BY <1>2, <2>3, <2>9, <3>2
    <3>4. pause[n] <= TimeGrace /\ (Paused(n) = "open" => pause[n] <= TimeOpen)
      BY <2>4, <2>5, <3>3
    <3>5. open_logs'[n].idle = pause[n] /\ open_logs'[n].file = Paused(n)
      BY <2>6, <3>3
    <3> HIDE DEF Paused, pause, over
    <3> QED
      BY <1>0, <3>1, <3>4, <3>5
  <2> QED
    BY <2>10, <2>11, <2>12
<1>5. CASE ~due
  <2> HIDE DEF pause
  <2>1. /\ open_logs' = [n \in Nick |->
                            IF n \in Listed THEN [open_logs[n] EXCEPT !.idle = pause[n]]
                            ELSE Unlisted]
        /\ UNCHANGED <<mark, torn>>
    BY <1>5 DEF PrivlogTimer, pause
  <2>2. \A n \in Listed :
            /\ n \in Nick
            /\ open_logs[n].file \in {"open", "closed"}
            /\ open_logs[n] = [file |-> open_logs[n].file, idle |-> open_logs[n].idle]
    BY <1>1 DEF Listed, Entry, Unlisted
  <2>3. ASSUME NEW n \in Listed
        PROVE /\ open_logs'[n] \in Entry
              /\ open_logs'[n] # Unlisted
              /\ open_logs'[n].idle = pause[n]
              /\ open_logs'[n].file = open_logs[n].file
    <3>1. open_logs'[n] = [open_logs[n] EXCEPT !.idle = pause[n]]
      BY <2>1, <2>2
    <3>2. open_logs'[n] = [file |-> open_logs[n].file, idle |-> pause[n]]
      BY <2>2, <3>1
    <3>3. open_logs[n].file \in {"open", "closed"} /\ pause[n] \in 0 .. MaxIdle
      BY <1>2, <2>2
    <3> QED
      BY <3>2, <3>3, EntryMade
  <2>4. \A n \in Nick \ Listed : open_logs'[n] = Unlisted
    BY <2>1
  <2>5. \A n \in Listed : open_logs'[n] \in Entry /\ open_logs'[n] # Unlisted
    BY <2>3
  <2>6. Listed' = Listed
    BY <2>4, <2>5 DEF Listed
  <2>7. privlogtimer' \in 0 .. CheckPeriod - 1 /\ privlogtimer <= privlogtimer'
    BY <1>0, <1>3, <1>5
  <2>8. \A n \in Listed : privlogtimer' = privlogtimer + 1
    BY <1>3, <1>5 DEF hasOpen
  <2>9. PrivlogType'
    <3>1. open_logs' \in [Nick -> Entry]
      BY <2>1, <2>4, <2>5, EntryIs
    <3> QED
      BY <1>3, <2>1, <2>7, <3>1 DEF PrivlogType
  <2>10. Bracketed'
    BY <2>1, <2>6 DEF Bracketed
  <2>11. Paced'
    <3>1. SUFFICES ASSUME NEW n \in Listed
                   PROVE /\ open_logs'[n].idle <= TimeGrace + privlogtimer'
                         /\ open_logs'[n].file = "open" =>
                                open_logs'[n].idle <= TimeOpen + privlogtimer'
      BY <2>6 DEF Paced
    <3>2. open_logs'[n].idle = pause[n] /\ open_logs'[n].file = open_logs[n].file
      BY <2>3
    <3>3. /\ n \in Nick
          /\ open_logs[n].idle \in 0 .. MaxIdle
          /\ pause[n] \in 0 .. MaxIdle
          /\ pause[n] <= open_logs[n].idle + 1
          /\ privlogtimer' = privlogtimer + 1
      BY <1>1, <1>2, <2>2, <2>8
    <3>4. /\ open_logs[n].idle <= TimeGrace + privlogtimer
          /\ open_logs[n].file = "open" => open_logs[n].idle <= TimeOpen + privlogtimer
      BY DEF Paced
    <3> QED
      BY <1>0, <3>2, <3>3, <3>4
  <2> QED
    BY <2>9, <2>10, <2>11
<1> QED
  BY <1>4, <1>5

LEMMA ExitKeeps ==
    ASSUME PrivlogInv, NEW opens \in SUBSET Nick, PrivlogExit(opens)
    PROVE PrivlogInv'
<1> USE DEF PrivlogInv
<1>1. Listed' = {} /\ open_logs' \in [Nick -> Entry]
  BY EntryIs DEF PrivlogExit, Listed
<1>2. Listed \in SUBSET Nick /\ Listed \in SUBSET Listed /\ Listed' = Listed \ Listed
  BY <1>1 DEF Listed
<1>3. PrivlogType'
  <2>1. mark' \in [Nick -> {"none", "header", "footer"}] /\ torn' \subseteq Nick
    BY <1>2, FinalizedMarks DEF PrivlogExit
  <2>2. 0 \in 0 .. CheckPeriod - 1
    BY PrivlogAssumption
  <2> QED
    BY <1>1, <2>1, <2>2 DEF PrivlogExit, PrivlogType
<1>4. Bracketed'
  BY <1>2, FinalizedBrackets DEF PrivlogExit
<1> QED
  BY <1>1, <1>3, <1>4 DEF Paced

LEMMA CrashKeeps ==
    ASSUME PrivlogInv, PrivlogCrash
    PROVE PrivlogInv'
<1> USE DEF PrivlogInv
<1>1. Listed' = {} /\ open_logs' \in [Nick -> Entry]
  BY EntryIs DEF PrivlogCrash, Listed
<1>2. PrivlogType'
  BY <1>1, PrivlogAssumption DEF PrivlogCrash, PrivlogType, Listed
<1>3. Bracketed'
  BY <1>1 DEF PrivlogCrash, Bracketed, Listed
<1> QED
  BY <1>1, <1>2, <1>3 DEF Paced
------------------------------------------------------------------------------
LEMMA InitIInv == Init => IInv
<1> SUFFICES ASSUME Init PROVE IInv
  OBVIOUS
<1>1. ForwardType
  BY ForwardAssumption DEF Init, ForwardInit, ForwardType
<1>2. Listed = {} /\ PrivlogType
  BY EntryIs, PrivlogAssumption DEF Init, PrivlogInit, PrivlogType, Listed
<1>3. Bracketed /\ Paced
  BY <1>2 DEF Init, PrivlogInit, Bracketed, Paced
<1> QED
  BY <1>1, <1>2, <1>3 DEF IInv, PrivlogInv, Init

LEMMA StepIInv == IInv /\ [Next]_vars => IInv'
<1> SUFFICES ASSUME IInv, [Next]_vars PROVE IInv'
  OBVIOUS
<1> USE DEF IInv
<1>1. ASSUME NEW n \in Nick, NEW plain \in BOOLEAN, NEW opens \in BOOLEAN,
             PrivateMessage(n, plain, opens)
      PROVE IInv'
  BY <1>1, WriteKeeps, UnchangedKeeps, ForwardKeeps DEF PrivateMessage
<1>2. ASSUME NEW n \in Nick, NEW opens \in BOOLEAN, Say(n, opens)
      PROVE IInv'
  BY <1>2, WriteKeeps, ForwardKeeps DEF Say
<1>3. ASSUME AttachOrLeave PROVE IInv'
  BY <1>3, UnchangedKeeps, ForwardKeeps DEF AttachOrLeave
<1>4. ASSUME NEW c \in Configs, Rehash(c) PROVE IInv'
  BY <1>4, UnchangedKeeps, ForwardKeeps DEF Rehash
<1>5. ASSUME NEW opens \in SUBSET Nick, NEW piped \in BOOLEAN, Tick(opens, piped)
      PROVE IInv'
  <2>1. cfg.forwardmsg \in BOOLEAN
    BY MessagesAssumption
  <2>2. ForwardType'
    BY <1>5, <2>1, ForwardKeeps DEF Tick
  <2>3. PrivlogInv'
    BY <1>5, TimerKeeps DEF Tick
  <2> QED
    BY <1>5, <2>2, <2>3 DEF Tick
<1>6. ASSUME NEW opens \in SUBSET Nick, Exit(opens) PROVE IInv'
  <2>1. ForwardType'
    BY <1>6, ForwardAssumption DEF Exit, ForwardType
  <2>2. PrivlogInv'
    BY <1>6, ExitKeeps DEF Exit
  <2> QED
    BY <1>6, <2>1, <2>2 DEF Exit
<1>7. ASSUME Crash PROVE IInv'
  <2>1. ForwardType'
    BY <1>7, ForwardAssumption DEF Crash, ForwardType
  <2>2. PrivlogInv'
    BY <1>7, CrashKeeps DEF Crash
  <2> QED
    BY <1>7, <2>1, <2>2 DEF Crash
<1>8. CASE UNCHANGED vars
  <2>1. UNCHANGED forwardVars /\ UNCHANGED privlogVars /\ UNCHANGED <<cfg, attached>>
    BY <1>8 DEF vars, forwardVars, privlogVars
  <2> QED
    BY <2>1, UnchangedKeeps, ForwardKeeps
<1> QED
  BY <1>1, <1>2, <1>3, <1>4, <1>5, <1>6, <1>7, <1>8 DEF Next

LEMMA InductiveInvariant == Spec => []IInv
BY InitIInv, StepIInv, PTL DEF Spec

(* Every variable has its type: the logs, the buffer and the timers that   *)
(* check_timers() counts.                                                  *)
THEOREM TypeCorrect == Spec => []TypeOK
<1>1. IInv => TypeOK
  BY DEF IInv, TypeOK, ForwardType, PrivlogInv, PrivlogType
<1> QED
  BY <1>1, InductiveInvariant, PTL

(* Header and footer bracket each conversation, for any nicks, times and   *)
(* pauses: finalize_log() opens a closed file again for the footer.        *)
THEOREM ConversationsBracketed == Spec => []Bracketed
<1>1. IInv => Bracketed
  BY DEF IInv, PrivlogInv
<1> QED
  BY <1>1, InductiveInvariant, PTL

(* No file stays open longer than PRIVLOG_TIME_OPEN, and no entry stays in *)
(* the list longer than PRIVLOG_TIME_GRACE, by a whole check period.       *)
THEOREM PausesEnd == Spec => []IdleIsClosed
<1>1. IInv => IdleIsClosed
  <2> SUFFICES ASSUME IInv, NEW n \in Listed
               PROVE /\ open_logs[n].idle < TimeGrace + CheckPeriod
                     /\ open_logs[n].file = "open" =>
                            open_logs[n].idle < TimeOpen + CheckPeriod
    BY DEF IdleIsClosed
  <2>1. /\ privlogtimer \in Nat /\ privlogtimer < CheckPeriod
        /\ TimeGrace \in Nat /\ TimeOpen \in Nat /\ CheckPeriod \in Nat
    BY PrivlogAssumption DEF IInv, PrivlogInv, PrivlogType
  <2>2. open_logs[n].idle \in Nat
    BY EntryIs, PrivlogAssumption DEF IInv, PrivlogInv, PrivlogType, Listed
  <2>3. /\ open_logs[n].idle <= TimeGrace + privlogtimer
        /\ open_logs[n].file = "open" => open_logs[n].idle <= TimeOpen + privlogtimer
    BY DEF IInv, PrivlogInv, Paced
  <2> QED
    BY <2>1, <2>2, <2>3
<1> QED
  BY <1>1, InductiveInvariant, PTL
------------------------------------------------------------------------------
(* Lists in memory.  What is at place i of s, and NULL outside of it.      *)
At(s, i) == IF i \in 1 .. Len(s) THEN s[i] ELSE NULL

(* s is a sequence of nodes, no node twice.                                *)
Distinct(s) ==
    /\ s \in Seq(Node)
    /\ \A i, j \in 1 .. Len(s) : s[i] = s[j] => i = j

(* The links run through s, from the node first on.                        *)
Threads(s, first, forth, back) ==
    /\ Distinct(s)
    /\ first = At(s, 1)
    /\ \A i \in 1 .. Len(s) : forth[s[i]] = At(s, i + 1) /\ back[s[i]] = At(s, i - 1)

(* s with n at place i, without what is at place i, and with its first     *)
(* before what is at place i.                                              *)
With(s, i, n) == [k \in 1 .. Len(s) + 1 |-> IF k < i THEN s[k] ELSE IF k = i THEN n ELSE s[k - 1]]
Without(s, i) == [k \in 1 .. Len(s) - 1 |-> IF k < i THEN s[k] ELSE s[k + 1]]
Moved(s, i) == With(Tail(s), i - 1, Head(s))

LEMMA NodesAre ==
    ASSUME NEW s \in Seq(Node)
    PROVE /\ Len(s) \in Nat
          /\ DOMAIN s = 1 .. Len(s)
          /\ \A i \in 1 .. Len(s) : s[i] \in Node /\ s[i] # NULL
  BY LenProperties, ElementOfSeq, ListsAssumption

LEMMA WithIs ==
    ASSUME NEW s \in Seq(Node), NEW i \in 1 .. Len(s) + 1, NEW n \in Node
    PROVE /\ With(s, i, n) \in Seq(Node)
          /\ Len(With(s, i, n)) = Len(s) + 1
          /\ \A k \in 1 .. Len(s) + 1 :
                 With(s, i, n)[k] = IF k < i THEN s[k] ELSE IF k = i THEN n ELSE s[k - 1]
          /\ InsertAt(s, i, n) = With(s, i, n)
<1> DEFINE w == With(s, i, n)
<1>0. Len(s) \in Nat /\ \A k \in 1 .. Len(s) : s[k] \in Node
  BY NodesAre
<1>1. DOMAIN w = 1 .. Len(s) + 1
  BY DEF With
<1>2. \A k \in 1 .. Len(s) + 1 :
          w[k] = IF k < i THEN s[k] ELSE IF k = i THEN n ELSE s[k - 1]
  BY DEF With
<1>3. \A k \in 1 .. Len(s) + 1 : w[k] \in Node
  <2> SUFFICES ASSUME NEW k \in 1 .. Len(s) + 1 PROVE w[k] \in Node
    OBVIOUS
  <2>1. CASE k < i
    BY <1>0, <1>2, <2>1
  <2>2. CASE k = i
    BY <1>2, <2>2
  <2>3. CASE k > i
    <3>1. k - 1 \in 1 .. Len(s)
      BY <1>0, <2>3
    <3> QED
      BY <1>0, <1>2, <2>3, <3>1
  <2> QED
    BY <1>0, <2>1, <2>2, <2>3
<1> HIDE DEF w
<1>4. w = [k \in 1 .. Len(s) + 1 |-> w[k]]
  BY <1>1 DEF w, With
<1>5. w \in Seq(Node)
  <2>1. w \in [1 .. Len(s) + 1 -> Node]
    BY <1>3, <1>4
  <2>2. Len(s) + 1 \in Nat
    BY <1>0
  <2> QED
    BY <2>1, <2>2, SeqDef
<1>6. Len(w) = Len(s) + 1
  BY <1>0, <1>1, <1>5, LenProperties
<1> DEFINE a == SubSeq(s, 1, i - 1)
           b == SubSeq(s, i, Len(s))
<1>7. /\ a \in Seq(Node) /\ Len(a) = i - 1
      /\ \A k \in 1 .. i - 1 : a[k] = s[k]
  <2>1. \A k \in 1 .. i - 1 : s[k] \in Node
    BY <1>0
  <2>2. i - 1 \in Int /\ 1 \in Int /\ (1 <= i - 1 => i - 1 - 1 + 1 = i - 1) /\ i - 1 - 1 + 1 = i - 1
    BY <1>0
  <2>3. /\ a \in Seq(Node)
        /\ Len(a) = IF 1 <= i - 1 THEN i - 1 - 1 + 1 ELSE 0
        /\ \A k \in 1 .. i - 1 - 1 + 1 : a[k] = s[1 + k - 1]
    BY <2>1, <2>2, SubSeqProperties
  <2> HIDE DEF a
  <2> QED
    BY <1>0, <2>2, <2>3
<1>8. /\ b \in Seq(Node) /\ Len(b) = Len(s) - i + 1
      /\ \A k \in 1 .. Len(s) - i + 1 : b[k] = s[i + k - 1]
  <2>1. \A k \in i .. Len(s) : s[k] \in Node
    BY <1>0
  <2>2. /\ b \in Seq(Node)
        /\ Len(b) = IF i <= Len(s) THEN Len(s) - i + 1 ELSE 0
        /\ \A k \in 1 .. Len(s) - i + 1 : b[k] = s[i + k - 1]
    BY <1>0, <2>1, SubSeqProperties
  <2> HIDE DEF b
  <2> QED
    BY <1>0, <2>2
<1> HIDE DEF a, b
<1>9. /\ <<n>> \in Seq(Node) /\ Len(<<n>>) = 1 /\ <<n>>[1] = n
  OBVIOUS
<1>10. /\ a \o <<n>> \in Seq(Node) /\ Len(a \o <<n>>) = i
       /\ \A k \in 1 .. i : (a \o <<n>>)[k] = IF k <= i - 1 THEN s[k] ELSE n
  <2>1. /\ a \o <<n>> \in Seq(Node) /\ Len(a \o <<n>>) = Len(a) + 1
        /\ \A k \in 1 .. Len(a) + 1 :
               (a \o <<n>>)[k] = IF k <= Len(a) THEN a[k] ELSE <<n>>[k - Len(a)]
    BY <1>7, <1>9, ConcatProperties
  <2> QED
    BY <1>0, <1>7, <2>1
<1> DEFINE c == a \o <<n>>
<1> HIDE DEF c
<1>11. /\ c \o b \in Seq(Node) /\ Len(c \o b) = Len(s) + 1
       /\ \A k \in 1 .. Len(s) + 1 :
              (c \o b)[k] = IF k < i THEN s[k] ELSE IF k = i THEN n ELSE s[k - 1]
  <2>1. /\ c \o b \in Seq(Node) /\ Len(c \o b) = Len(c) + Len(b)
        /\ \A k \in 1 .. Len(c) + Len(b) :
               (c \o b)[k] = IF k <= Len(c) THEN c[k] ELSE b[k - Len(c)]
    <3>1. c \in Seq(Node)
      BY <1>10 DEF c
    <3> QED
      BY <1>8, <3>1, ConcatProperties
  <2>2. Len(c) = i /\ \A k \in 1 .. i : c[k] = IF k <= i - 1 THEN s[k] ELSE n
    BY <1>10 DEF c
  <2>3. ASSUME NEW k \in 1 .. Len(s) + 1
        PROVE (c \o b)[k] = IF k < i THEN s[k] ELSE IF k = i THEN n ELSE s[k - 1]
    <3>1. CASE k <= i
      BY <1>0, <1>8, <2>1, <2>2, <3>1
    <3>2. CASE k > i
      <4>1. k - i \in 1 .. Len(s) - i + 1 /\ i + (k - i) - 1 = k - 1
        BY <1>0, <3>2
      <4>2. b[k - i] = s[k - 1]
        BY <1>8, <4>1
      <4> QED
        BY <1>0, <1>8, <2>1, <2>2, <3>2, <4>2
    <3>3. k <= i \/ k > i
      BY <1>0
    <3> QED
      BY <3>1, <3>2, <3>3
  <2> QED
    BY <1>0, <1>8, <2>1, <2>2, <2>3
<1>12. c \o b = w
  BY <1>0, <1>2, <1>5, <1>6, <1>11, SeqEqual
<1>13. InsertAt(s, i, n) = w
  BY <1>12 DEF InsertAt, a, b, c
<1> QED
  BY <1>2, <1>5, <1>6, <1>13 DEF w

LEMMA WithoutIs ==
    ASSUME NEW s \in Seq(Node), NEW i \in 1 .. Len(s)
    PROVE /\ Without(s, i) \in Seq(Node)
          /\ Len(Without(s, i)) = Len(s) - 1
          /\ \A k \in 1 .. Len(s) - 1 :
                 Without(s, i)[k] = IF k < i THEN s[k] ELSE s[k + 1]
          /\ RemoveAt(s, i) = Without(s, i)
<1> DEFINE w == Without(s, i)
<1>0. Len(s) \in Nat /\ \A k \in 1 .. Len(s) : s[k] \in Node
  BY NodesAre
<1>1. w = [k \in 1 .. Len(s) - 1 |-> IF k < i THEN s[k] ELSE s[k + 1]]
  BY DEF Without
<1> HIDE DEF w
<1>2. \A k \in 1 .. Len(s) - 1 : w[k] = IF k < i THEN s[k] ELSE s[k + 1]
  BY <1>1
<1>3. \A k \in 1 .. Len(s) - 1 : w[k] \in Node
  <2> SUFFICES ASSUME NEW k \in 1 .. Len(s) - 1 PROVE w[k] \in Node
    OBVIOUS
  <2>1. k \in 1 .. Len(s) /\ k + 1 \in 1 .. Len(s)
    BY <1>0
  <2> QED
    BY <1>0, <1>2, <2>1
<1>4. w \in Seq(Node) /\ Len(w) = Len(s) - 1
  <2>1. w \in [1 .. Len(s) - 1 -> Node]
    BY <1>1, <1>3
  <2>2. Len(s) - 1 \in Nat
    BY <1>0
  <2>3. w \in Seq(Node)
    BY <2>1, <2>2, SeqDef
  <2>4. DOMAIN w = 1 .. Len(s) - 1
    BY <1>1
  <2> QED
    BY <2>2, <2>3, <2>4, LenProperties
<1> DEFINE a == SubSeq(s, 1, i - 1)
           b == SubSeq(s, i + 1, Len(s))
<1>5. /\ a \in Seq(Node) /\ Len(a) = i - 1
      /\ \A k \in 1 .. i - 1 : a[k] = s[k]
  <2>1. \A k \in 1 .. i - 1 : s[k] \in Node
    BY <1>0
  <2>2. i - 1 \in Int /\ 1 \in Int /\ i - 1 - 1 + 1 = i - 1
    BY <1>0
  <2>3. /\ a \in Seq(Node)
        /\ Len(a) = IF 1 <= i - 1 THEN i - 1 - 1 + 1 ELSE 0
        /\ \A k \in 1 .. i - 1 - 1 + 1 : a[k] = s[1 + k - 1]
    BY <2>1, <2>2, SubSeqProperties
  <2> HIDE DEF a
  <2> QED
    BY <1>0, <2>2, <2>3
<1>6. /\ b \in Seq(Node) /\ Len(b) = Len(s) - i
      /\ \A k \in 1 .. Len(s) - i : b[k] = s[i + k]
  <2>1. \A k \in i + 1 .. Len(s) : s[k] \in Node
    BY <1>0
  <2>2. i + 1 \in Int /\ Len(s) \in Int
    BY <1>0
  <2>3. /\ b \in Seq(Node)
        /\ Len(b) = IF i + 1 <= Len(s) THEN Len(s) - (i + 1) + 1 ELSE 0
        /\ \A k \in 1 .. Len(s) - (i + 1) + 1 : b[k] = s[(i + 1) + k - 1]
    BY <2>1, <2>2, SubSeqProperties
  <2> HIDE DEF b
  <2> QED
    BY <1>0, <2>3
<1> HIDE DEF a, b
<1>7. /\ a \o b \in Seq(Node) /\ Len(a \o b) = Len(s) - 1
      /\ \A k \in 1 .. Len(s) - 1 : (a \o b)[k] = IF k < i THEN s[k] ELSE s[k + 1]
  <2>1. /\ a \o b \in Seq(Node) /\ Len(a \o b) = Len(a) + Len(b)
        /\ \A k \in 1 .. Len(a) + Len(b) :
               (a \o b)[k] = IF k <= Len(a) THEN a[k] ELSE b[k - Len(a)]
    BY <1>5, <1>6, ConcatProperties
  <2>2. ASSUME NEW k \in 1 .. Len(s) - 1
        PROVE (a \o b)[k] = IF k < i THEN s[k] ELSE s[k + 1]
    <3>1. CASE k < i
      BY <1>0, <1>5, <1>6, <2>1, <3>1
    <3>2. CASE ~(k < i)
      <4>1. k - (i - 1) \in 1 .. Len(s) - i /\ i + (k - (i - 1)) = k + 1
        BY <1>0, <3>2
      <4>2. b[k - (i - 1)] = s[k + 1]
        BY <1>6, <4>1
      <4> QED
        BY <1>0, <1>5, <1>6, <2>1, <3>2, <4>2
    <3> QED
      BY <3>1, <3>2
  <2> QED
    BY <1>0, <1>5, <1>6, <2>1, <2>2
<1>8. a \o b = w
  BY <1>0, <1>2, <1>4, <1>7, SeqEqual
<1>9. RemoveAt(s, i) = w
  BY <1>8 DEF RemoveAt, a, b
<1> QED
  BY <1>2, <1>4, <1>9 DEF w

LEMMA MovedIs ==
    ASSUME NEW s \in Seq(Node), NEW i \in 3 .. Len(s) + 1
    PROVE /\ Moved(s, i) \in Seq(Node)
          /\ Len(Moved(s, i)) = Len(s)
          /\ \A k \in 1 .. Len(s) :
                 Moved(s, i)[k] = IF k < i - 1 THEN s[k + 1]
                                  ELSE IF k = i - 1 THEN s[1] ELSE s[k]
          /\ InsertAt(Tail(s), i - 1, Head(s)) = Moved(s, i)
<1>0. Len(s) \in Nat /\ Len(s) >= 2 /\ s # << >> /\ s[1] \in Node
  BY NodesAre, EmptySeq
<1>1. /\ Tail(s) \in Seq(Node) /\ Len(Tail(s)) = Len(s) - 1 /\ Head(s) = s[1]
      /\ \A k \in 1 .. Len(s) - 1 : Tail(s)[k] = s[k + 1]
  BY <1>0, HeadTailProperties
<1>2. i - 1 \in 1 .. Len(Tail(s)) + 1 /\ Head(s) \in Node
  BY <1>0, <1>1
<1>3. /\ Moved(s, i) \in Seq(Node)
      /\ Len(Moved(s, i)) = Len(Tail(s)) + 1
      /\ \A k \in 1 .. Len(Tail(s)) + 1 :
             Moved(s, i)[k] = IF k < i - 1 THEN Tail(s)[k]
                              ELSE IF k = i - 1 THEN Head(s) ELSE Tail(s)[k - 1]
      /\ InsertAt(Tail(s), i - 1, Head(s)) = Moved(s, i)
  <2> DEFINE t == Tail(s)
             h == Head(s)
             w == With(t, i - 1, h)
  <2>1. t \in Seq(Node) /\ i - 1 \in 1 .. Len(t) + 1 /\ h \in Node
    BY <1>1, <1>2
  <2>2. Moved(s, i) = w
    BY DEF Moved
  <2> HIDE DEF t, h
  <2>3. /\ w \in Seq(Node) /\ Len(w) = Len(t) + 1
        /\ \A k \in 1 .. Len(t) + 1 :
               w[k] = IF k < i - 1 THEN t[k] ELSE IF k = i - 1 THEN h ELSE t[k - 1]
        /\ InsertAt(t, i - 1, h) = w
    <3> DEFINE at == i - 1
    <3> SUFFICES /\ With(t, at, h) \in Seq(Node) /\ Len(With(t, at, h)) = Len(t) + 1
                 /\ \A k \in 1 .. Len(t) + 1 :
                        With(t, at, h)[k] = IF k < at THEN t[k] ELSE IF k = at THEN h ELSE t[k - 1]
                 /\ InsertAt(t, at, h) = With(t, at, h)
      OBVIOUS
    <3>1. at \in 1 .. Len(t) + 1
      BY <2>1
    <3> HIDE DEF at
    <3> QED
      BY ONLY <2>1, <3>1, WithIs
  <2> HIDE DEF w
  <2>4. /\ \A k \in 1 .. Len(t) + 1 :
               Moved(s, i)[k] = IF k < i - 1 THEN t[k] ELSE IF k = i - 1 THEN h ELSE t[k - 1]
        /\ Moved(s, i) \in Seq(Node) /\ Len(Moved(s, i)) = Len(t) + 1
        /\ InsertAt(t, i - 1, h) = Moved(s, i)
    BY ONLY <2>2, <2>3
  <2> QED
    BY ONLY <2>4 DEF t, h
<1>4. ASSUME NEW k \in 1 .. Len(s)
      PROVE Moved(s, i)[k] = IF k < i - 1 THEN s[k + 1]
                             ELSE IF k = i - 1 THEN s[1] ELSE s[k]
  <2>1. Moved(s, i)[k] = IF k < i - 1 THEN Tail(s)[k]
                         ELSE IF k = i - 1 THEN Head(s) ELSE Tail(s)[k - 1]
    BY <1>0, <1>1, <1>3
  <2>2. k < i - 1 => Tail(s)[k] = s[k + 1]
    BY <1>0, <1>1
  <2>3. ~(k < i - 1) /\ k # i - 1 => Tail(s)[k - 1] = s[k]
    <3>1. ~(k < i - 1) /\ k # i - 1 => k - 1 \in 1 .. Len(s) - 1 /\ (k - 1) + 1 = k
      BY <1>0
    <3> QED
      BY <1>1, <3>1
  <2> QED
    BY <1>1, <2>1, <2>2, <2>3
<1> QED
  BY <1>0, <1>1, <1>3, <1>4

(* What they have at each place.                                           *)
LEMMA AtWith ==
    ASSUME NEW s \in Seq(Node), NEW i \in 1 .. Len(s) + 1, NEW n \in Node, NEW k \in Int
    PROVE At(With(s, i, n), k) = IF k < i THEN At(s, k) ELSE IF k = i THEN n
                                 ELSE At(s, k - 1)
<1> DEFINE w == With(s, i, n)
<1>0. Len(s) \in Nat /\ Len(w) = Len(s) + 1
  BY NodesAre, WithIs
<1>1. CASE k \in 1 .. Len(s) + 1
  <2>1. w[k] = IF k < i THEN s[k] ELSE IF k = i THEN n ELSE s[k - 1]
    BY <1>1, WithIs
  <2> HIDE DEF w
  <2> QED
    BY <1>0, <1>1, <2>1 DEF At, w
<1>2. CASE k \notin 1 .. Len(s) + 1
  <2>1. k < 1 \/ (At(w, k) = NULL /\ At(s, k) = NULL /\ At(s, k - 1) = NULL)
    BY <1>0, <1>2 DEF At
  <2>2. k # i
    BY <1>0, <1>2
  <2>3. k < 1 => At(w, k) = NULL /\ At(s, k) = NULL /\ k < i
    BY <1>0 DEF At
  <2> HIDE DEF w
  <2> QED
    BY <2>1, <2>2, <2>3 DEF w
<1> QED
  BY <1>1, <1>2

LEMMA AtWithout ==
    ASSUME NEW s \in Seq(Node), NEW i \in 1 .. Len(s), NEW k \in Int
    PROVE At(Without(s, i), k) = IF k < i THEN At(s, k) ELSE At(s, k + 1)
<1> DEFINE w == Without(s, i)
<1>0. Len(s) \in Nat /\ Len(w) = Len(s) - 1
  BY NodesAre, WithoutIs
<1>1. CASE k \in 1 .. Len(s) - 1
  <2>1. w[k] = IF k < i THEN s[k] ELSE s[k + 1]
    BY <1>1, WithoutIs
  <2> HIDE DEF w
  <2> QED
    BY <1>0, <1>1, <2>1 DEF At, w
<1>2. CASE k \notin 1 .. Len(s) - 1
  <2>1. At(w, k) = NULL
    BY <1>0, <1>2 DEF At
  <2>2. CASE k < i
    BY <1>0, <1>2, <2>1, <2>2 DEF At
  <2>3. CASE ~(k < i)
    BY <1>0, <1>2, <2>1, <2>3 DEF At
  <2> QED
    BY <2>2, <2>3
<1> QED
  BY <1>1, <1>2

LEMMA AtMoved ==
    ASSUME NEW s \in Seq(Node), NEW i \in 3 .. Len(s) + 1, NEW k \in Nat \ {0}
    PROVE At(Moved(s, i), k) = IF k < i - 1 THEN At(s, k + 1)
                               ELSE IF k = i - 1 THEN s[1] ELSE At(s, k)
<1> DEFINE w == Moved(s, i)
<1>0. Len(s) \in Nat /\ Len(w) = Len(s)
  BY NodesAre, MovedIs
<1>1. CASE k \in 1 .. Len(s)
  <2>1. w[k] = IF k < i - 1 THEN s[k + 1] ELSE IF k = i - 1 THEN s[1] ELSE s[k]
    BY <1>1, MovedIs
  <2> HIDE DEF w
  <2> QED
    BY <1>0, <1>1, <2>1 DEF At, w
<1>2. CASE k \notin 1 .. Len(s)
  <2>1. At(w, k) = NULL /\ At(s, k) = NULL /\ k > i - 1
    BY <1>0, <1>2 DEF At
  <2> HIDE DEF w
  <2> QED
    BY <1>0, <2>1 DEF w
<1> QED
  BY <1>1, <1>2

(* A thread at one of its places.                                          *)
LEMMA ThreadAt ==
    ASSUME NEW s, NEW first, NEW forth, NEW back, Threads(s, first, forth, back),
           NEW k \in 1 .. Len(s)
    PROVE /\ s \in Seq(Node) /\ Len(s) \in Nat /\ s[k] \in Node /\ At(s, k) = s[k]
          /\ forth[s[k]] = At(s, k + 1) /\ back[s[k]] = At(s, k - 1)
          /\ \A j \in 1 .. Len(s) : s[j] = s[k] => j = k
  BY NodesAre DEF Threads, Distinct, At

LEMMA ThreadOnce ==
    ASSUME NEW s, NEW first, NEW forth, NEW back, Threads(s, first, forth, back)
    PROVE \A a, b \in 1 .. Len(s) : At(s, a) = At(s, b) => a = b
<1> SUFFICES ASSUME NEW a \in 1 .. Len(s), NEW b \in 1 .. Len(s), At(s, a) = At(s, b)
             PROVE a = b
  OBVIOUS
<1>1. At(s, a) = s[a] /\ At(s, b) = s[b]
  BY DEF At
<1> QED
  BY <1>1 DEF Threads, Distinct

(* The same, from what it has at each place.                               *)
LEMMA ThreadIs ==
    ASSUME NEW s \in Seq(Node), NEW first, NEW forth, NEW back, first = At(s, 1),
           \A k \in 1 .. Len(s) :
               /\ forth[At(s, k)] = At(s, k + 1) /\ back[At(s, k)] = At(s, k - 1)
               /\ \A j \in 1 .. Len(s) : At(s, j) = At(s, k) => j = k
    PROVE Threads(s, first, forth, back)
<1>1. \A k \in 1 .. Len(s) : At(s, k) = s[k]
  BY DEF At
<1> QED
  BY <1>1 DEF Threads, Distinct

(* Linking in, out and over.                                               *)
LEMMA WithThreads ==
    ASSUME NEW s, NEW first, NEW forth, NEW back, Threads(s, first, forth, back),
           NEW i \in 1 .. Len(s) + 1, NEW n \in Node,
           \A j \in 1 .. Len(s) : s[j] # n,
           NEW first2, NEW forth2, NEW back2,
           first2 = IF i = 1 THEN n ELSE first,
           forth2[n] = At(s, i), back2[n] = At(s, i - 1),
           \A j \in 1 .. Len(s) :
               /\ forth2[s[j]] = IF j = i - 1 THEN n ELSE forth[s[j]]
               /\ back2[s[j]] = IF j = i THEN n ELSE back[s[j]]
    PROVE Threads(With(s, i, n), first2, forth2, back2)
<1> DEFINE w == With(s, i, n)
<1>0. s \in Seq(Node) /\ Len(s) \in Nat /\ first = At(s, 1)
  BY NodesAre DEF Threads, Distinct
<1>1. w \in Seq(Node) /\ Len(w) = Len(s) + 1
  BY <1>0, WithIs
<1>2. \A k \in Int : At(w, k) = IF k < i THEN At(s, k) ELSE IF k = i THEN n ELSE At(s, k - 1)
  BY <1>0, AtWith
<1> HIDE DEF w
<1>3. first2 = At(w, 1)
  <2>1. At(w, 1) = IF 1 < i THEN At(s, 1) ELSE IF 1 = i THEN n ELSE At(s, 1 - 1)
    BY <1>2
  <2> QED
    BY <1>0, <2>1
<1>4. ASSUME NEW k \in 1 .. Len(w)
      PROVE forth2[At(w, k)] = At(w, k + 1) /\ back2[At(w, k)] = At(w, k - 1)
  <2>0. k \in Int /\ i \in Int /\ k \in 1 .. Len(s) + 1
    BY <1>0, <1>1
  <2>1. /\ At(w, k) = IF k < i THEN At(s, k) ELSE IF k = i THEN n ELSE At(s, k - 1)
        /\ At(w, k + 1) = IF k + 1 < i THEN At(s, k + 1) ELSE IF k + 1 = i THEN n
                          ELSE At(s, k + 1 - 1)
        /\ At(w, k - 1) = IF k - 1 < i THEN At(s, k - 1) ELSE IF k - 1 = i THEN n
                          ELSE At(s, k - 1 - 1)
    BY <1>2, <2>0
  <2>2. CASE k < i
    <3>1. k \in 1 .. Len(s)
      BY <1>0, <2>0, <2>2
    <3>2. /\ At(s, k) = s[k] /\ forth[s[k]] = At(s, k + 1) /\ back[s[k]] = At(s, k - 1)
          /\ forth2[s[k]] = IF k = i - 1 THEN n ELSE forth[s[k]]
          /\ back2[s[k]] = IF k = i THEN n ELSE back[s[k]]
      BY <3>1, ThreadAt
    <3> QED
      BY ONLY <2>0, <2>1, <2>2, <3>2
  <2>3. CASE k = i
    <3>1. k + 1 - 1 = k
      BY <2>0
    <3> QED
      BY <2>0, <2>1, <2>3, <3>1
  <2>4. CASE k > i
    <3>1. k - 1 \in 1 .. Len(s) /\ k + 1 - 1 = k /\ (k - 1) + 1 = k
      BY <1>0, <2>0, <2>4
    <3>2. /\ At(s, k - 1) = s[k - 1] /\ forth[s[k - 1]] = At(s, k)
          /\ back[s[k - 1]] = At(s, k - 1 - 1)
          /\ forth2[s[k - 1]] = IF k - 1 = i - 1 THEN n ELSE forth[s[k - 1]]
          /\ back2[s[k - 1]] = IF k - 1 = i THEN n ELSE back[s[k - 1]]
      BY <3>1, ThreadAt
    <3> QED
      BY ONLY <2>0, <2>1, <2>4, <3>1, <3>2
  <2> QED
    BY <2>0, <2>2, <2>3, <2>4
<1>5. ASSUME NEW j \in 1 .. Len(w), NEW k \in 1 .. Len(w), j < k
      PROVE At(w, j) # At(w, k)
  <2>0. j \in Int /\ k \in Int /\ i \in Int /\ j \in 1 .. Len(s) + 1 /\ k \in 1 .. Len(s) + 1
    BY <1>0, <1>1
  <2>1. /\ At(w, k) = IF k < i THEN At(s, k) ELSE IF k = i THEN n ELSE At(s, k - 1)
        /\ At(w, j) = IF j < i THEN At(s, j) ELSE IF j = i THEN n ELSE At(s, j - 1)
    BY <1>2, <2>0
  <2>2. \A a, b \in 1 .. Len(s) : At(s, a) # n /\ (At(s, a) = At(s, b) => a = b)
    <3>1. \A a \in 1 .. Len(s) : At(s, a) # n
      BY DEF At
    <3>2. \A a, b \in 1 .. Len(s) : At(s, a) = At(s, b) => a = b
      BY ThreadOnce
    <3> QED
      BY ONLY <3>1, <3>2
  <2>3. /\ j < i => j \in 1 .. Len(s)
        /\ j > i => j - 1 \in 1 .. Len(s)
        /\ k < i => k \in 1 .. Len(s)
        /\ k > i => k - 1 \in 1 .. Len(s)
    BY <1>0, <2>0
  <2>4. CASE j < i
    <3>1. k # i /\ k >= i => j # k - 1
      BY <2>0, <2>4
    <3> QED
      BY <1>5, <2>0, <2>1, <2>2, <2>3, <2>4, <3>1
  <2>5. CASE j = i
    BY <1>5, <2>0, <2>1, <2>2, <2>3, <2>5
  <2>6. CASE j > i
    <3>1. j - 1 # k - 1
      BY <1>5, <2>0
    <3> QED
      BY <1>5, <2>0, <2>1, <2>2, <2>3, <2>6, <3>1
  <2> QED
    BY <2>0, <2>4, <2>5, <2>6
<1>6. \A k \in 1 .. Len(w) : \A j \in 1 .. Len(w) : At(w, j) = At(w, k) => j = k
  BY <1>0, <1>1, <1>5
<1>7. Threads(w, first2, forth2, back2)
  BY <1>1, <1>3, <1>4, <1>6, ThreadIs
<1> QED
  BY <1>7 DEF w

LEMMA WithoutThreads ==
    ASSUME NEW s, NEW first, NEW forth, NEW back, Threads(s, first, forth, back),
           NEW i \in 1 .. Len(s),
           NEW first2, NEW forth2, NEW back2,
           first2 = IF i = 1 THEN At(s, 2) ELSE first,
           \A j \in 1 .. Len(s) \ {i} :
               /\ forth2[s[j]] = IF j = i - 1 THEN At(s, i + 1) ELSE forth[s[j]]
               /\ back2[s[j]] = IF j = i + 1 THEN At(s, i - 1) ELSE back[s[j]]
    PROVE Threads(Without(s, i), first2, forth2, back2)
<1> DEFINE w == Without(s, i)
<1>0. s \in Seq(Node) /\ Len(s) \in Nat /\ first = At(s, 1)
  BY NodesAre DEF Threads, Distinct
<1>1. w \in Seq(Node) /\ Len(w) = Len(s) - 1
  BY <1>0, WithoutIs
<1>2. \A k \in Int : At(w, k) = IF k < i THEN At(s, k) ELSE At(s, k + 1)
  BY <1>0, AtWithout
<1> HIDE DEF w
<1>3. first2 = At(w, 1)
  <2>1. At(w, 1) = IF 1 < i THEN At(s, 1) ELSE At(s, 1 + 1)
    BY <1>2
  <2> QED
    BY <1>0, <2>1
<1>4. ASSUME NEW k \in 1 .. Len(w)
      PROVE forth2[At(w, k)] = At(w, k + 1) /\ back2[At(w, k)] = At(w, k - 1)
  <2>0. k \in Int /\ i \in Int /\ k \in 1 .. Len(s) - 1
    BY <1>0, <1>1
  <2>1. /\ At(w, k) = IF k < i THEN At(s, k) ELSE At(s, k + 1)
        /\ At(w, k + 1) = IF k + 1 < i THEN At(s, k + 1) ELSE At(s, k + 1 + 1)
        /\ At(w, k - 1) = IF k - 1 < i THEN At(s, k - 1) ELSE At(s, k - 1 + 1)
    <3>1. k + 1 \in Int /\ k - 1 \in Int
      BY <2>0
    <3> QED
      BY ONLY <1>2, <2>0, <3>1
  <2>2. CASE k < i
    <3>1. k \in 1 .. Len(s) \ {i} /\ (k = i - 1 => i + 1 = k + 1 + 1)
      BY <1>0, <2>0, <2>2
    <3>2. /\ At(s, k) = s[k] /\ forth[s[k]] = At(s, k + 1) /\ back[s[k]] = At(s, k - 1)
          /\ forth2[s[k]] = IF k = i - 1 THEN At(s, i + 1) ELSE forth[s[k]]
          /\ back2[s[k]] = IF k = i + 1 THEN At(s, i - 1) ELSE back[s[k]]
      BY <3>1, ThreadAt
    <3> QED
      BY ONLY <2>0, <2>1, <2>2, <3>1, <3>2
  <2>3. CASE ~(k < i)
    <3>1. k + 1 \in 1 .. Len(s) \ {i} /\ (k + 1) - 1 = k /\ k - 1 + 1 = k
      BY <1>0, <2>0, <2>3
    <3>2. /\ At(s, k + 1) = s[k + 1] /\ forth[s[k + 1]] = At(s, k + 1 + 1)
          /\ back[s[k + 1]] = At(s, k)
          /\ forth2[s[k + 1]] = IF k + 1 = i - 1 THEN At(s, i + 1) ELSE forth[s[k + 1]]
          /\ back2[s[k + 1]] = IF k + 1 = i + 1 THEN At(s, i - 1) ELSE back[s[k + 1]]
      BY <3>1, ThreadAt
    <3> QED
      BY ONLY <2>0, <2>1, <2>3, <3>1, <3>2
  <2> QED
    BY <2>2, <2>3
<1>5. ASSUME NEW j \in 1 .. Len(w), NEW k \in 1 .. Len(w), At(w, j) = At(w, k)
      PROVE j = k
  <2>0. j \in Int /\ k \in Int /\ i \in Int /\ j \in 1 .. Len(s) - 1 /\ k \in 1 .. Len(s) - 1
    BY <1>0, <1>1
  <2>1. /\ At(w, k) = IF k < i THEN At(s, k) ELSE At(s, k + 1)
        /\ At(w, j) = IF j < i THEN At(s, j) ELSE At(s, j + 1)
    BY <1>2, <2>0
  <2>2. \A a, b \in 1 .. Len(s) : At(s, a) = At(s, b) => a = b
    BY ThreadOnce
  <2>3. /\ j \in 1 .. Len(s) /\ j + 1 \in 1 .. Len(s)
        /\ k \in 1 .. Len(s) /\ k + 1 \in 1 .. Len(s)
    BY <1>0, <2>0
  <2> QED
    BY <1>5, <2>0, <2>1, <2>2, <2>3
<1>6. Threads(w, first2, forth2, back2)
  BY <1>1, <1>3, <1>4, <1>5, ThreadIs
<1> QED
  BY <1>6 DEF w

LEMMA MovedThreads ==
    ASSUME NEW s, NEW first, NEW forth, NEW back, Threads(s, first, forth, back),
           NEW i \in 3 .. Len(s) + 1,
           NEW forth2, NEW back2,
           forth2[s[1]] = At(s, i), back2[s[1]] = At(s, i - 1),
           \A j \in 2 .. Len(s) :
               /\ forth2[s[j]] = IF j = i - 1 THEN s[1] ELSE forth[s[j]]
               /\ back2[s[j]] = IF j = 2 THEN NULL ELSE IF j = i THEN s[1] ELSE back[s[j]]
    PROVE Threads(Moved(s, i), At(s, 2), forth2, back2)
<1> DEFINE w == Moved(s, i)
<1>0. s \in Seq(Node) /\ Len(s) \in Nat /\ first = At(s, 1)
  BY NodesAre DEF Threads, Distinct
<1>1. w \in Seq(Node) /\ Len(w) = Len(s)
  BY <1>0, MovedIs
<1>2. \A k \in Nat \ {0} : At(w, k) = IF k < i - 1 THEN At(s, k + 1)
                                       ELSE IF k = i - 1 THEN s[1] ELSE At(s, k)
  BY <1>0, AtMoved
<1>3. At(w, 0) = NULL
  BY DEF At
<1> HIDE DEF w
<1>4. At(s, 2) = At(w, 1)
  <2>1. At(w, 1) = IF 1 < i - 1 THEN At(s, 1 + 1) ELSE IF 1 = i - 1 THEN s[1] ELSE At(s, 1)
    BY <1>2
  <2> QED
    BY <1>0, <2>1
<1>5. ASSUME NEW k \in 1 .. Len(w)
      PROVE forth2[At(w, k)] = At(w, k + 1) /\ back2[At(w, k)] = At(w, k - 1)
  <2>0. k \in Nat \ {0} /\ i \in Int /\ k \in 1 .. Len(s) /\ i > 2
    BY <1>0, <1>1
  <2>1. /\ At(w, k) = IF k < i - 1 THEN At(s, k + 1) ELSE IF k = i - 1 THEN s[1] ELSE At(s, k)
        /\ At(w, k + 1) = IF k + 1 < i - 1 THEN At(s, k + 1 + 1)
                          ELSE IF k + 1 = i - 1 THEN s[1] ELSE At(s, k + 1)
        /\ k - 1 # 0 =>
               At(w, k - 1) = IF k - 1 < i - 1 THEN At(s, k - 1 + 1)
                              ELSE IF k - 1 = i - 1 THEN s[1] ELSE At(s, k - 1)
        /\ k - 1 = 0 => At(w, k - 1) = NULL
    BY <1>2, <1>3, <2>0
  <2>2. CASE k < i - 1
    <3>1. /\ k + 1 \in 2 .. Len(s) /\ k + 1 \in 1 .. Len(s)
          /\ (k + 1) - 1 = k /\ k - 1 + 1 = k
      BY <1>0, <2>0, <2>2
    <3>2. /\ At(s, k + 1) = s[k + 1] /\ forth[s[k + 1]] = At(s, k + 1 + 1)
          /\ back[s[k + 1]] = At(s, k)
          /\ forth2[s[k + 1]] = IF k + 1 = i - 1 THEN s[1] ELSE forth[s[k + 1]]
          /\ back2[s[k + 1]] = IF k + 1 = 2 THEN NULL
                               ELSE IF k + 1 = i THEN s[1] ELSE back[s[k + 1]]
      BY <3>1, ThreadAt
    <3> QED
      BY ONLY <2>0, <2>1, <2>2, <3>1, <3>2
  <2>3. CASE k = i - 1
    <3>1. k + 1 = i /\ k - 1 + 1 = i - 1 /\ k - 1 # 0 /\ k - 1 < i - 1 /\ ~(k + 1 < i - 1)
          /\ k + 1 # i - 1 /\ ~(k < i - 1)
      BY <2>0, <2>3
    <3>2. At(w, k) = s[1] /\ At(w, k + 1) = At(s, i) /\ At(w, k - 1) = At(s, i - 1)
      BY <2>1, <2>3, <3>1
    <3> QED
      BY <3>2
  <2>4. CASE k > i - 1
    <3>1. k \in 2 .. Len(s) /\ k - 1 + 1 = k /\ k - 1 # 0
      BY <1>0, <2>0, <2>4
    <3>2. /\ At(s, k) = s[k] /\ forth[s[k]] = At(s, k + 1) /\ back[s[k]] = At(s, k - 1)
          /\ forth2[s[k]] = IF k = i - 1 THEN s[1] ELSE forth[s[k]]
          /\ back2[s[k]] = IF k = 2 THEN NULL ELSE IF k = i THEN s[1] ELSE back[s[k]]
      BY <2>0, <3>1, ThreadAt
    <3> QED
      BY ONLY <2>0, <2>1, <2>4, <3>1, <3>2
  <2> QED
    BY <2>0, <2>2, <2>3, <2>4
<1>6. ASSUME NEW j \in 1 .. Len(w), NEW k \in 1 .. Len(w), At(w, j) = At(w, k)
      PROVE j = k
  <2> DEFINE from(m) == IF m < i - 1 THEN m + 1 ELSE IF m = i - 1 THEN 1 ELSE m
  <2>0. i \in 3 .. Len(s) + 1 /\ j \in 1 .. Len(s) /\ k \in 1 .. Len(s)
    BY <1>1
  <2>1. \A m \in 1 .. Len(s) : from(m) \in 1 .. Len(s) /\ At(w, m) = At(s, from(m))
    <3> SUFFICES ASSUME NEW m \in 1 .. Len(s)
                 PROVE from(m) \in 1 .. Len(s) /\ At(w, m) = At(s, from(m))
      OBVIOUS
    <3>1. At(w, m) = IF m < i - 1 THEN At(s, m + 1) ELSE IF m = i - 1 THEN s[1] ELSE At(s, m)
      BY <1>2
    <3>2. At(s, 1) = s[1]
      BY <1>0 DEF At
    <3> QED
      BY <1>0, <3>1, <3>2
  <2>2. from(j) = from(k) => j = k
    BY <1>0, <2>0
  <2>3. \A a, b \in 1 .. Len(s) : At(s, a) = At(s, b) => a = b
    BY ThreadOnce
  <2> HIDE DEF from
  <2> QED
    BY <1>6, <2>0, <2>1, <2>2, <2>3
<1>7. Threads(w, At(s, 2), forth2, back2)
  BY <1>1, <1>4, <1>5, <1>6, ThreadIs
<1> QED
  BY <1>7 DEF w

LEMMA SameThreads ==
    ASSUME NEW s, NEW first, NEW forth, NEW back, Threads(s, first, forth, back),
           NEW forth2, NEW back2,
           \A j \in 1 .. Len(s) : forth2[s[j]] = forth[s[j]] /\ back2[s[j]] = back[s[j]]
    PROVE Threads(s, first, forth2, back2)
  BY DEF Threads
------------------------------------------------------------------------------
LEMMA Least ==
    ASSUME NEW T \in SUBSET Nat, T # {}
    PROVE \E x \in T : \A y \in T : x <= y
<1> DEFINE R == OpToRel(<, Nat)
<1>1. IsWellFoundedOn(R, Nat)
  BY NatLessThanWellFounded
<1>2. \A x, y \in Nat : x < y => <<x, y>> \in R
  BY DEF OpToRel
<1> HIDE DEF R
<1>3. PICK x \in T : \A y \in T : ~ (<<y, x>> \in R)
  BY <1>1, WFMin
<1>4. \A y \in T : ~ (y < x)
  BY <1>2, <1>3, Zenon
<1>5. \A y \in T : x <= y
  BY <1>4
<1> QED
  BY <1>5

(* No more nodes on a list than there are.                                 *)
LEMMA ListsFit ==
    ASSUME NEW s, Distinct(s)
    PROVE Len(s) \in Nat /\ Cardinality(Node) \in Nat /\ Len(s) <= Cardinality(Node)
<1>1. s \in Seq(Node) /\ Len(s) \in Nat /\ DOMAIN s = 1 .. Len(s)
  BY NodesAre DEF Distinct
<1>2. IsFiniteSet(Node) /\ Cardinality(Node) \in Nat
  BY ListsAssumption, FS_CardinalityType
<1>3. Cardinality(1 .. Len(s)) = Len(s) /\ IsFiniteSet(1 .. Len(s))
  <2>1. 1 \in Int /\ Len(s) \in Int
    BY <1>1
  <2>2. /\ IsFiniteSet(1 .. Len(s))
        /\ Cardinality(1 .. Len(s)) = IF 1 > Len(s) THEN 0 ELSE Len(s) - 1 + 1
    BY <2>1, FS_Interval
  <2> QED
    BY <1>1, <2>2
<1>4. s \in [1 .. Len(s) -> Node]
  BY <1>1, LenProperties
<1>5. ASSUME Cardinality(Node) < Len(s) PROVE FALSE
  <2>1. Cardinality(Node) < Cardinality(1 .. Len(s))
    BY <1>3, <1>5
  <2>2. \E x, y \in 1 .. Len(s) : x # y /\ s[x] = s[y]
    BY <1>2, <1>3, <1>4, <2>1, FS_PigeonHole
  <2> QED
    BY <2>2 DEF Distinct
<1> QED
  BY <1>1, <1>2, <1>5

(* f is where the links lead from the node first on: no two ways are.      *)
Way(n, f, first, links) ==
    \A k \in 1 .. n : f[k] = IF k = 1 THEN first
                             ELSE IF f[k - 1] \in Node THEN links[f[k - 1]] ELSE NULL

LEMMA OneWay ==
    ASSUME NEW n \in Nat, NEW f, NEW g, NEW first, NEW links,
           Way(n, f, first, links), Way(n, g, first, links)
    PROVE \A k \in 1 .. n : f[k] = g[k]
<1> DEFINE T == {k \in 1 .. n : f[k] # g[k]}
<1>1. SUFFICES ASSUME T # {} PROVE FALSE
  OBVIOUS
<1>2. PICK k \in T : \A j \in T : k <= j
  <2>1. T \in SUBSET Nat
    OBVIOUS
  <2> HIDE DEF T
  <2> QED
    BY <1>1, <2>1, Least
<1>3. CASE k = 1
  BY <1>2, <1>3 DEF Way
<1>4. CASE k # 1
  <2>1. k - 1 \in 1 .. n /\ k - 1 \notin T
    BY <1>2, <1>4
  <2>2. f[k - 1] = g[k - 1]
    BY <2>1
  <2> QED
    BY <1>2, <1>4, <2>2 DEF Way
<1> QED
  BY <1>3, <1>4

(* Following the links gives the sequence that they run through.           *)
LEMMA ChainIs ==
    ASSUME NEW s, NEW first, NEW forth, NEW back, Threads(s, first, forth, back)
    PROVE Chain(first, forth) = s
<1> DEFINE N == Cardinality(Node) + 1
           Fun(f) == [k \in 1 .. N |-> IF k = 1 THEN first
                          ELSE IF f[k - 1] \in Node THEN forth[f[k - 1]] ELSE NULL]
           u == [k \in 1 .. N |-> At(s, k)]
           at == CHOOSE f : f = Fun(f)
<1>0. /\ Len(s) \in Nat /\ N \in Nat /\ N - 1 \in Nat /\ Len(s) <= N - 1
      /\ s \in Seq(Node) /\ first = At(s, 1)
  BY ListsFit DEF Threads, Distinct
<1>1. \A k \in Int : At(s, k) \in Node <=> k \in 1 .. Len(s)
  BY <1>0, NodesAre, ListsAssumption DEF At
<1>2. u = Fun(u)
  <2> SUFFICES ASSUME NEW k \in 1 .. N
               PROVE u[k] = IF k = 1 THEN first
                            ELSE IF u[k - 1] \in Node THEN forth[u[k - 1]] ELSE NULL
    BY Zenon
  <2>1. CASE k = 1
    BY <1>0, <2>1
  <2>2. CASE k # 1 /\ k - 1 \in 1 .. Len(s)
    <3>1. k - 1 \in 1 .. N /\ u[k - 1] = At(s, k - 1) /\ u[k] = At(s, k) /\ k - 1 + 1 = k
      BY <1>0, <2>2
    <3>2. At(s, k - 1) = s[k - 1] /\ forth[s[k - 1]] = At(s, k - 1 + 1) /\ s[k - 1] \in Node
      BY <2>2, ThreadAt
    <3> QED
      BY ONLY <2>2, <3>1, <3>2
  <2>3. CASE k # 1 /\ k - 1 \notin 1 .. Len(s)
    <3>1. /\ k - 1 \in 1 .. N /\ k - 1 \in Int
          /\ u[k - 1] = At(s, k - 1) /\ u[k] = At(s, k) /\ k \notin 1 .. Len(s)
      BY <1>0, <2>3
    <3>2. At(s, k) = NULL /\ At(s, k - 1) \notin Node
      BY <1>1, <2>3, <3>1 DEF At
    <3> QED
      BY ONLY <2>3, <3>1, <3>2
  <2> QED
    BY <2>1, <2>2, <2>3
<1>3. at = Fun(at)
  BY <1>2
<1>4. Way(N, at, first, forth)
  <2> HIDE DEF at
  <2> QED
    BY <1>3 DEF Way
<1>5. Way(N, u, first, forth)
  <2> HIDE DEF u
  <2> QED
    BY <1>2 DEF Way
<1>6. \A k \in 1 .. N : at[k] = At(s, k)
  <2>1. \A k \in 1 .. N : at[k] = u[k]
    <3> HIDE DEF at, u, N
    <3> QED
      BY <1>0, <1>4, <1>5, OneWay
  <2> QED
    BY <2>1
<1> DEFINE full == {k \in 1 .. N : at[k] # NULL}
           n == Cardinality(full)
<1>7. Chain(first, forth) = [k \in 1 .. n |-> at[k]]
  BY DEF Chain
<1> HIDE DEF at
<1>8. full = 1 .. Len(s)
  <2>1. \A k \in 1 .. N : at[k] # NULL <=> k \in 1 .. Len(s)
    BY <1>0, <1>6, NodesAre DEF At
  <2>2. 1 .. Len(s) \subseteq 1 .. N
    BY <1>0
  <2> HIDE DEF N
  <2> QED
    BY <2>1, <2>2
<1>9. n = Len(s)
  <2>1. 1 \in Int /\ Len(s) \in Int
    BY <1>0
  <2>2. Cardinality(1 .. Len(s)) = IF 1 > Len(s) THEN 0 ELSE Len(s) - 1 + 1
    BY <2>1, FS_Interval
  <2> HIDE DEF full
  <2> QED
    BY <1>0, <1>8, <2>2
<1>10. \A k \in 1 .. Len(s) : at[k] = s[k]
  BY <1>0, <1>6 DEF At
<1> HIDE DEF n
<1>11. s = [k \in 1 .. Len(s) |-> s[k]]
  BY <1>0, LenProperties
<1> QED
  BY <1>7, <1>9, <1>10, <1>11
------------------------------------------------------------------------------
(* A field of the nodes, and the nodes of a list.                          *)
Links(f) == f = [n \in Node |-> f[n]]

Nodes(s) == {s[k] : k \in 1 .. Len(s)}

(* In memory are the list s of list.c, the list t of llist.c, and others.  *)
HeapIs(s, t) ==
    /\ Links(next) /\ Links(prev) /\ Links(last)
    /\ Threads(s, list, next, prev)
    /\ Threads(t, head, next, prev)
    /\ list # NULL => last[list] = At(s, Len(s))
    /\ tail = At(t, Len(t))
    /\ Nodes(s) \subseteq alloc
    /\ Nodes(t) \subseteq alloc
    /\ Nodes(s) \cap Nodes(t) = {}

Others(s, t) == alloc \ (Nodes(s) \cup Nodes(t))

(* What an assignment through a pointer does to the fields.                *)
LEMMA SetAt ==
    ASSUME NEW f, Links(f), NEW n, NEW v
    PROVE /\ Links(Set(f, n, v))
          /\ \A m \in Node : Set(f, n, v)[m] = IF m = n THEN v ELSE f[m]
<1>1. CASE n = NULL
  BY <1>1, ListsAssumption DEF Set
<1>2. CASE n # NULL
  <2> DEFINE g == [m \in Node |-> f[m]]
  <2>1. f = g
    BY DEF Links
  <2>2. Links([g EXCEPT ![n] = v])
    BY DEF Links
  <2>3. \A m \in Node : [g EXCEPT ![n] = v][m] = IF m = n THEN v ELSE g[m]
    OBVIOUS
  <2>4. Set(f, n, v) = [g EXCEPT ![n] = v]
    BY <1>2, <2>1 DEF Set
  <2> HIDE DEF g
  <2> QED
    BY ONLY <2>1, <2>2, <2>3, <2>4
<1> QED
  BY <1>1, <1>2

LEMMA FreedIs ==
    ASSUME NEW f, NEW n \in Node
    PROVE Freed(f, n) = Set(f, n, Junk)
  BY ListsAssumption DEF Freed, Set

(* A node is at one place of a list only.                                  *)
LEMMA PlaceIs ==
    ASSUME NEW s, NEW first, NEW forth, NEW back, Threads(s, first, forth, back)
    PROVE /\ s \in Seq(Node) /\ Len(s) \in Nat /\ first = At(s, 1)
          /\ \A j \in 1 .. Len(s) : s[j] \in Node /\ s[j] \in Nodes(s) /\ At(s, j) = s[j]
          /\ \A j \in 1 .. Len(s) : \A k \in Int : At(s, k) = s[j] <=> k = j
          /\ first = NULL <=> Len(s) = 0
<1>1. s \in Seq(Node) /\ Len(s) \in Nat /\ first = At(s, 1)
  BY NodesAre DEF Threads, Distinct
<1>2. \A j \in 1 .. Len(s) : s[j] \in Node /\ s[j] # NULL /\ s[j] \in Nodes(s) /\ At(s, j) = s[j]
  BY <1>1, NodesAre DEF Nodes, At
<1>3. ASSUME NEW j \in 1 .. Len(s), NEW k \in Int
      PROVE At(s, k) = s[j] <=> k = j
  <2>1. CASE k \in 1 .. Len(s)
    BY <1>2, <2>1 DEF Threads, Distinct
  <2>2. CASE k \notin 1 .. Len(s)
    BY <1>2, <2>2 DEF At
  <2> QED
    BY <2>1, <2>2
<1>4. first = NULL <=> Len(s) = 0
  <2>1. Len(s) = 0 => At(s, 1) = NULL
    BY DEF At
  <2>2. Len(s) # 0 => 1 \in 1 .. Len(s)
    BY <1>1
  <2> QED
    BY <1>1, <1>2, <2>1, <2>2
<1> QED
  BY <1>1, <1>2, <1>3, <1>4

LEMMA NodesWith ==
    ASSUME NEW s \in Seq(Node), NEW i \in 1 .. Len(s) + 1, NEW n \in Node
    PROVE Nodes(With(s, i, n)) = Nodes(s) \cup {n}
<1> DEFINE w == With(s, i, n)
<1>0. Len(s) \in Nat
  BY NodesAre
<1>1. /\ Len(w) = Len(s) + 1
      /\ \A k \in 1 .. Len(s) + 1 :
             w[k] = IF k < i THEN s[k] ELSE IF k = i THEN n ELSE s[k - 1]
  BY WithIs
<1> HIDE DEF w
<1>2. ASSUME NEW k \in 1 .. Len(w) PROVE w[k] \in Nodes(s) \cup {n}
  <2>1. /\ k \in 1 .. Len(s) + 1 /\ (k < i => k \in 1 .. Len(s))
        /\ (k > i => k - 1 \in 1 .. Len(s)) /\ (k < i \/ k = i \/ k > i)
    BY <1>0, <1>1
  <2> QED
    BY <1>1, <2>1 DEF Nodes
<1>3. ASSUME NEW k \in 1 .. Len(s) PROVE s[k] \in Nodes(w)
  <2>1. CASE k < i
    <3>1. k \in 1 .. Len(s) + 1 /\ w[k] = s[k]
      BY <1>0, <1>1, <2>1
    <3> QED
      BY <1>1, <3>1 DEF Nodes
  <2>2. CASE ~(k < i)
    <3>1. k + 1 \in 1 .. Len(s) + 1 /\ ~(k + 1 < i) /\ k + 1 # i /\ (k + 1) - 1 = k
      BY <1>0, <2>2
    <3>2. w[k + 1] = s[k]
      BY <1>1, <3>1
    <3> QED
      BY <1>1, <3>1, <3>2 DEF Nodes
  <2> QED
    BY <2>1, <2>2
<1>4. n \in Nodes(w)
  <2>1. w[i] = n
    BY <1>0, <1>1
  <2> QED
    BY <1>1, <2>1 DEF Nodes
<1>5. Nodes(w) \subseteq Nodes(s) \cup {n}
  BY <1>2 DEF Nodes
<1>6. Nodes(s) \subseteq Nodes(w)
  BY <1>3 DEF Nodes
<1> QED
  BY <1>4, <1>5, <1>6 DEF w

LEMMA NodesWithout ==
    ASSUME NEW s, Distinct(s), NEW i \in 1 .. Len(s)
    PROVE Nodes(Without(s, i)) = Nodes(s) \ {s[i]}
<1> DEFINE w == Without(s, i)
<1>0. s \in Seq(Node) /\ Len(s) \in Nat
  BY NodesAre DEF Distinct
<1>1. /\ Len(w) = Len(s) - 1
      /\ \A k \in 1 .. Len(s) - 1 : w[k] = IF k < i THEN s[k] ELSE s[k + 1]
  BY <1>0, WithoutIs
<1> HIDE DEF w
<1>2. ASSUME NEW k \in 1 .. Len(w) PROVE w[k] \in Nodes(s) /\ w[k] # s[i]
  <2>1. /\ k \in 1 .. Len(s) - 1 /\ k \in 1 .. Len(s) /\ k + 1 \in 1 .. Len(s)
        /\ (k < i => k # i) /\ (~(k < i) => k + 1 # i)
    BY <1>0, <1>1
  <2> QED
    BY <1>1, <2>1 DEF Nodes, Distinct
<1>3. ASSUME NEW k \in 1 .. Len(s), k # i PROVE s[k] \in Nodes(w)
  <2>1. CASE k < i
    <3>1. k \in 1 .. Len(s) - 1 /\ w[k] = s[k]
      BY <1>0, <1>1, <2>1
    <3> QED
      BY <1>1, <3>1 DEF Nodes
  <2>2. CASE ~(k < i)
    <3>1. k - 1 \in 1 .. Len(s) - 1 /\ ~(k - 1 < i) /\ (k - 1) + 1 = k
      BY <1>0, <1>3, <2>2
    <3>2. w[k - 1] = s[k]
      BY <1>1, <3>1
    <3> QED
      BY <1>1, <3>1, <3>2 DEF Nodes
  <2> QED
    BY <2>1, <2>2
<1>4. Nodes(w) \subseteq Nodes(s) \ {s[i]}
  BY <1>2 DEF Nodes
<1>5. Nodes(s) \ {s[i]} \subseteq Nodes(w)
  BY <1>3 DEF Nodes
<1> QED
  BY <1>4, <1>5 DEF w

LEMMA NodesMoved ==
    ASSUME NEW s \in Seq(Node), NEW i \in 3 .. Len(s) + 1
    PROVE Nodes(Moved(s, i)) = Nodes(s)
<1> DEFINE w == Moved(s, i)
<1>0. Len(s) \in Nat
  BY NodesAre
<1>1. /\ Len(w) = Len(s)
      /\ \A k \in 1 .. Len(s) :
             w[k] = IF k < i - 1 THEN s[k + 1] ELSE IF k = i - 1 THEN s[1] ELSE s[k]
  BY MovedIs
<1> HIDE DEF w
<1>2. ASSUME NEW k \in 1 .. Len(s) PROVE w[k] \in Nodes(s)
  <2>1. 1 \in 1 .. Len(s) /\ (k < i - 1 => k + 1 \in 1 .. Len(s))
    BY <1>0
  <2> QED
    BY <1>1, <2>1 DEF Nodes
<1>3. ASSUME NEW k \in 1 .. Len(s) PROVE s[k] \in Nodes(w)
  <2>1. CASE k = 1
    <3>1. i - 1 \in 1 .. Len(s) /\ w[i - 1] = s[1]
      BY <1>0, <1>1
    <3> QED
      BY <1>1, <2>1, <3>1 DEF Nodes
  <2>2. CASE k # 1 /\ k < i
    <3>1. k - 1 \in 1 .. Len(s) /\ k - 1 < i - 1 /\ (k - 1) + 1 = k
      BY <1>0, <2>2
    <3>2. w[k - 1] = s[k]
      BY <1>1, <3>1
    <3> QED
      BY <1>1, <3>1, <3>2 DEF Nodes
  <2>3. CASE ~(k < i)
    <3>1. w[k] = s[k]
      BY <1>0, <1>1, <2>3
    <3> QED
      BY <1>1, <3>1 DEF Nodes
  <2> QED
    BY <2>1, <2>2, <2>3
<1> QED
  BY <1>1, <1>2, <1>3 DEF Nodes, w

(* What the heap is to each operation.                                     *)
LEMMA HeapFacts ==
    ASSUME NEW s, NEW t, HeapIs(s, t)
    PROVE /\ s \in Seq(Node) /\ Len(s) \in Nat /\ list = At(s, 1) /\ Distinct(s)
          /\ t \in Seq(Node) /\ Len(t) \in Nat /\ head = At(t, 1) /\ Distinct(t)
          /\ list = NULL <=> Len(s) = 0
          /\ head = NULL <=> Len(t) = 0
          /\ \A j \in 1 .. Len(s) : s[j] \in Node \cap alloc /\ At(s, j) = s[j]
          /\ \A j \in 1 .. Len(t) : t[j] \in Node \cap alloc /\ At(t, j) = t[j]
          /\ \A j \in 1 .. Len(s) : \A k \in 1 .. Len(t) : s[j] # t[k]
          /\ \A j \in 1 .. Len(s) : \A k \in Int : At(s, k) = s[j] <=> k = j
          /\ \A j \in 1 .. Len(t) : \A k \in Int : At(t, k) = t[j] <=> k = j
          /\ \A j \in 1 .. Len(s) : \A k \in Int : At(t, k) # s[j]
          /\ \A j \in 1 .. Len(t) : \A k \in Int : At(s, k) # t[j]
<1>1. /\ s \in Seq(Node) /\ Len(s) \in Nat /\ list = At(s, 1)
      /\ \A j \in 1 .. Len(s) : s[j] \in Node /\ s[j] \in Nodes(s) /\ At(s, j) = s[j]
      /\ \A j \in 1 .. Len(s) : \A k \in Int : At(s, k) = s[j] <=> k = j
      /\ list = NULL <=> Len(s) = 0
  BY PlaceIs DEF HeapIs
<1>2. /\ t \in Seq(Node) /\ Len(t) \in Nat /\ head = At(t, 1)
      /\ \A j \in 1 .. Len(t) : t[j] \in Node /\ t[j] \in Nodes(t) /\ At(t, j) = t[j]
      /\ \A j \in 1 .. Len(t) : \A k \in Int : At(t, k) = t[j] <=> k = j
      /\ head = NULL <=> Len(t) = 0
  BY PlaceIs DEF HeapIs
<1>3. Nodes(s) \subseteq alloc /\ Nodes(t) \subseteq alloc /\ Nodes(s) \cap Nodes(t) = {}
  BY DEF HeapIs
<1>4. Distinct(s) /\ Distinct(t)
  BY DEF HeapIs, Threads
<1>5. \A j \in 1 .. Len(s) : \A k \in 1 .. Len(t) : s[j] # t[k]
  BY <1>1, <1>2, <1>3
<1>6. \A j \in 1 .. Len(s) : s[j] # NULL
  BY <1>1, ListsAssumption
<1>7. \A j \in 1 .. Len(t) : t[j] # NULL
  BY <1>2, ListsAssumption
<1>8. \A j \in 1 .. Len(s) : \A k \in Int : At(t, k) # s[j]
  BY <1>5, <1>6 DEF At
<1>9. \A j \in 1 .. Len(t) : \A k \in Int : At(s, k) # t[j]
  BY <1>5, <1>7 DEF At
<1> QED
  BY ONLY <1>1, <1>2, <1>3, <1>4, <1>5, <1>8, <1>9

(* A node that is linked into the links where it belongs.                  *)
LinkedIn(s, i, n) ==
    /\ n \notin alloc /\ alloc' = alloc \cup {n}
    /\ next' = Set(Set(next, n, At(s, i)), At(s, i - 1), n)
    /\ prev' = Set(Set(prev, n, At(s, i - 1)), At(s, i), n)

LEMMA LinkedInAt ==
    ASSUME NEW s, NEW t, HeapIs(s, t), NEW r, r \in {s, t}, NEW i \in 1 .. Len(r) + 1,
           NEW n \in Node, LinkedIn(r, i, n), Links(next), Links(prev)
    PROVE /\ Links(next') /\ Links(prev') /\ next'[n] = At(r, i) /\ prev'[n] = At(r, i - 1)
          /\ \A m \in Node \ {n} :
                 /\ next'[m] = IF m = At(r, i - 1) THEN n ELSE next[m]
                 /\ prev'[m] = IF m = At(r, i) THEN n ELSE prev[m]
<1>1. \A k \in Int : At(r, k) # n
  <2>1. Len(r) \in Nat /\ \A j \in 1 .. Len(r) : r[j] \in alloc
    BY HeapFacts
  <2> QED
    BY <2>1, ListsAssumption DEF At, LinkedIn
<1>2. i \in Int /\ i - 1 \in Int
  <2>1. Len(r) \in Nat
    BY HeapFacts
  <2> QED
    BY <2>1
<1> DEFINE f == Set(next, n, At(r, i))
           b == Set(prev, n, At(r, i - 1))
<1>3. Links(f) /\ \A m \in Node : f[m] = IF m = n THEN At(r, i) ELSE next[m]
  BY SetAt
<1>4. Links(b) /\ \A m \in Node : b[m] = IF m = n THEN At(r, i - 1) ELSE prev[m]
  BY SetAt
<1>5. next' = Set(f, At(r, i - 1), n) /\ prev' = Set(b, At(r, i), n)
  BY DEF LinkedIn
<1> HIDE DEF f, b
<1>6. Links(next') /\ \A m \in Node : next'[m] = IF m = At(r, i - 1) THEN n ELSE f[m]
  BY <1>3, <1>5, SetAt
<1>7. Links(prev') /\ \A m \in Node : prev'[m] = IF m = At(r, i) THEN n ELSE b[m]
  BY <1>4, <1>5, SetAt
<1> QED
  BY <1>1, <1>2, <1>3, <1>4, <1>6, <1>7

LEMMA InList ==
    ASSUME NEW s, NEW t, HeapIs(s, t), NEW n \in Node, NEW i \in 1 .. Len(s) + 1,
           LinkedIn(s, i, n),
           list' = IF i = 1 THEN n ELSE list, head' = head, tail' = tail,
           Links(last'), last'[list'] = IF i = Len(s) + 1 THEN n ELSE last[list]
    PROVE HeapIs(With(s, i, n), t)' /\ Others(With(s, i, n), t)' = Others(s, t)
<1> DEFINE w == With(s, i, n)
<1>0. /\ s \in Seq(Node) /\ Len(s) \in Nat /\ list = At(s, 1)
      /\ list = NULL <=> Len(s) = 0
      /\ \A j \in 1 .. Len(s) : s[j] \in Node \cap alloc /\ At(s, j) = s[j]
      /\ \A j \in 1 .. Len(t) : t[j] \in Node \cap alloc
      /\ \A j \in 1 .. Len(s) : \A k \in Int : At(s, k) = s[j] <=> k = j
      /\ \A j \in 1 .. Len(t) : \A k \in Int : At(s, k) # t[j]
  BY HeapFacts
<1>1. n \notin alloc /\ alloc' = alloc \cup {n} /\ i \in Int /\ i - 1 \in Int
  BY <1>0 DEF LinkedIn
<1>2. /\ Links(next') /\ Links(prev') /\ next'[n] = At(s, i) /\ prev'[n] = At(s, i - 1)
      /\ \A m \in Node \ {n} :
             /\ next'[m] = IF m = At(s, i - 1) THEN n ELSE next[m]
             /\ prev'[m] = IF m = At(s, i) THEN n ELSE prev[m]
  <2>1. s \in {s, t} /\ Links(next) /\ Links(prev) /\ HeapIs(s, t) /\ LinkedIn(s, i, n)
    BY DEF HeapIs
  <2> QED
    BY ONLY <2>1, n \in Node, i \in 1 .. Len(s) + 1, LinkedInAt
<1>3. Threads(w, list', next', prev')
  <2>1. /\ Threads(s, list, next, prev) /\ i \in 1 .. Len(s) + 1 /\ n \in Node
        /\ list' = IF i = 1 THEN n ELSE list
    BY DEF HeapIs
  <2>2. \A j \in 1 .. Len(s) : s[j] # n
    BY <1>0, <1>1
  <2>3. \A j \in 1 .. Len(s) : /\ next'[s[j]] = IF j = i - 1 THEN n ELSE next[s[j]]
                               /\ prev'[s[j]] = IF j = i THEN n ELSE prev[s[j]]
    <3> SUFFICES ASSUME NEW j \in 1 .. Len(s)
                 PROVE /\ next'[s[j]] = IF j = i - 1 THEN n ELSE next[s[j]]
                       /\ prev'[s[j]] = IF j = i THEN n ELSE prev[s[j]]
      OBVIOUS
    <3>1. s[j] \in Node \ {n} /\ (s[j] = At(s, i - 1) <=> j = i - 1) /\ (s[j] = At(s, i) <=> j = i)
      BY <1>0, <1>1, <2>2
    <3> QED
      BY ONLY <1>2, <3>1
  <2> HIDE DEF w
  <2> QED
    BY ONLY <1>2, <2>1, <2>2, <2>3, WithThreads DEF w
<1>4. Threads(t, head', next', prev')
  <2>1. \A j \in 1 .. Len(t) : next'[t[j]] = next[t[j]] /\ prev'[t[j]] = prev[t[j]]
    BY <1>0, <1>1, <1>2
  <2> QED
    BY <2>1, SameThreads DEF HeapIs
<1>5. last'[list'] = At(w, Len(w))
  <2>1. Len(w) = Len(s) + 1 /\ Len(s) + 1 \in Int
    <3>1. Len(s) + 1 \in Int /\ s \in Seq(Node)
      BY <1>0
    <3> QED
      BY ONLY <3>1, n \in Node, i \in 1 .. Len(s) + 1, WithIs
  <2>2. At(w, Len(s) + 1) = IF Len(s) + 1 < i THEN At(s, Len(s) + 1)
                            ELSE IF Len(s) + 1 = i THEN n ELSE At(s, Len(s) + 1 - 1)
    BY <1>0, <2>1, AtWith
  <2>3. Len(s) + 1 - 1 = Len(s) /\ ~(Len(s) + 1 < i) /\ (i # Len(s) + 1 => Len(s) # 0)
    BY <1>0
  <2>4. i # Len(s) + 1 => last[list] = At(s, Len(s))
    BY <1>0, <2>3 DEF HeapIs
  <2> HIDE DEF w
  <2> QED
    BY ONLY <2>1, <2>2, <2>3, <2>4, last'[list'] = IF i = Len(s) + 1 THEN n ELSE last[list]
<1>6. Nodes(w) = Nodes(s) \cup {n}
  BY <1>0, NodesWith
<1> HIDE DEF w
<1>7. HeapIs(w, t)'
  <2>1. tail' = At(t, Len(t)) /\ Nodes(s) \subseteq alloc /\ Nodes(t) \subseteq alloc
        /\ Nodes(s) \cap Nodes(t) = {}
    BY DEF HeapIs
  <2>2. Nodes(w) \subseteq alloc' /\ Nodes(t) \subseteq alloc' /\ Nodes(w) \cap Nodes(t) = {}
    BY <1>1, <1>6, <2>1
  <2> QED
    BY <1>2, <1>3, <1>4, <1>5, <2>1, <2>2 DEF HeapIs
<1>8. Others(w, t)' = Others(s, t)
  BY <1>1, <1>6 DEF Others, HeapIs
<1> QED
  BY <1>7, <1>8 DEF w

LEMMA InLlist ==
    ASSUME NEW s, NEW t, HeapIs(s, t), NEW n \in Node, NEW i \in 1 .. Len(t) + 1,
           LinkedIn(t, i, n),
           head' = IF i = 1 THEN n ELSE head, tail' = IF i = Len(t) + 1 THEN n ELSE tail,
           list' = list, last' = last
    PROVE HeapIs(s, With(t, i, n))' /\ Others(s, With(t, i, n))' = Others(s, t)
<1> DEFINE w == With(t, i, n)
<1>0. /\ t \in Seq(Node) /\ Len(t) \in Nat /\ head = At(t, 1)
      /\ \A j \in 1 .. Len(t) : t[j] \in Node \cap alloc /\ At(t, j) = t[j]
      /\ \A j \in 1 .. Len(s) : s[j] \in Node \cap alloc
      /\ \A j \in 1 .. Len(t) : \A k \in Int : At(t, k) = t[j] <=> k = j
      /\ \A j \in 1 .. Len(s) : \A k \in Int : At(t, k) # s[j]
  BY HeapFacts
<1>1. n \notin alloc /\ alloc' = alloc \cup {n} /\ i \in Int /\ i - 1 \in Int
  BY <1>0 DEF LinkedIn
<1>2. /\ Links(next') /\ Links(prev') /\ next'[n] = At(t, i) /\ prev'[n] = At(t, i - 1)
      /\ \A m \in Node \ {n} :
             /\ next'[m] = IF m = At(t, i - 1) THEN n ELSE next[m]
             /\ prev'[m] = IF m = At(t, i) THEN n ELSE prev[m]
  BY LinkedInAt DEF HeapIs
<1>3. Threads(w, head', next', prev')
  <2>1. Threads(t, head, next, prev)
    BY DEF HeapIs
  <2>2. \A j \in 1 .. Len(t) : t[j] # n
    BY <1>0, <1>1
  <2>3. \A j \in 1 .. Len(t) : /\ next'[t[j]] = IF j = i - 1 THEN n ELSE next[t[j]]
                               /\ prev'[t[j]] = IF j = i THEN n ELSE prev[t[j]]
    <3> SUFFICES ASSUME NEW j \in 1 .. Len(t)
                 PROVE /\ next'[t[j]] = IF j = i - 1 THEN n ELSE next[t[j]]
                       /\ prev'[t[j]] = IF j = i THEN n ELSE prev[t[j]]
      OBVIOUS
    <3>1. t[j] \in Node \ {n} /\ (t[j] = At(t, i - 1) <=> j = i - 1) /\ (t[j] = At(t, i) <=> j = i)
      BY <1>0, <1>1, <2>2
    <3> QED
      BY ONLY <1>2, <3>1
  <2> HIDE DEF w
  <2> QED
    BY <1>2, <2>1, <2>2, <2>3, WithThreads DEF w
<1>4. Threads(s, list', next', prev')
  <2>1. \A j \in 1 .. Len(s) : next'[s[j]] = next[s[j]] /\ prev'[s[j]] = prev[s[j]]
    BY <1>0, <1>1, <1>2
  <2> QED
    BY <2>1, SameThreads DEF HeapIs
<1>5. tail' = At(w, Len(w))
  <2>1. Len(w) = Len(t) + 1 /\ Len(t) + 1 \in Int
    BY <1>0, WithIs
  <2>2. At(w, Len(t) + 1) = IF Len(t) + 1 < i THEN At(t, Len(t) + 1)
                            ELSE IF Len(t) + 1 = i THEN n ELSE At(t, Len(t) + 1 - 1)
    BY <1>0, <2>1, AtWith
  <2>3. Len(t) + 1 - 1 = Len(t) /\ ~(Len(t) + 1 < i)
    BY <1>0
  <2>4. tail = At(t, Len(t))
    BY DEF HeapIs
  <2> HIDE DEF w
  <2> QED
    BY ONLY <2>1, <2>2, <2>3, <2>4, tail' = IF i = Len(t) + 1 THEN n ELSE tail
<1>6. Nodes(w) = Nodes(t) \cup {n}
  BY <1>0, NodesWith
<1> HIDE DEF w
<1>7. HeapIs(s, w)'
  <2>1. /\ Nodes(s) \subseteq alloc /\ Nodes(t) \subseteq alloc /\ Nodes(s) \cap Nodes(t) = {}
        /\ Links(last') /\ (list' # NULL => last'[list'] = At(s, Len(s)))
    BY DEF HeapIs
  <2>2. Nodes(s) \subseteq alloc' /\ Nodes(w) \subseteq alloc' /\ Nodes(s) \cap Nodes(w) = {}
    BY <1>1, <1>6, <2>1
  <2> QED
    BY <1>2, <1>3, <1>4, <1>5, <2>1, <2>2 DEF HeapIs
<1>8. Others(s, w)' = Others(s, t)
  BY <1>1, <1>6 DEF Others, HeapIs
<1> QED
  BY <1>7, <1>8 DEF w

(* The five operations that do so.                                         *)
LEMMA AddHeadKeeps ==
    ASSUME NEW s, NEW t, HeapIs(s, t), NEW n \in Node, ListAddHead(n)
    PROVE HeapIs(With(s, 1, n), t)' /\ Others(With(s, 1, n), t)' = Others(s, t)
<1>0. Len(s) \in Nat /\ list = At(s, 1) /\ (list = NULL <=> Len(s) = 0) /\ At(s, 1 - 1) = NULL
  BY HeapFacts DEF At
<1>1. n # NULL
  BY ListsAssumption
<1>2. LinkedIn(s, 1, n)
  BY <1>0, <1>1 DEF LinkedIn, ListAddHead, Malloc, Set
<1>3. last' = Set(last, n, IF list = NULL THEN n ELSE last[list])
  BY <1>1 DEF ListAddHead, Set
<1>4. Links(last') /\ last'[n] = IF list = NULL THEN n ELSE last[list]
  BY <1>3, SetAt DEF HeapIs
<1>5. list' = n /\ head' = head /\ tail' = tail
  BY DEF ListAddHead
<1>6. 1 \in 1 .. Len(s) + 1 /\ (1 = Len(s) + 1 <=> Len(s) = 0)
  BY <1>0
<1> QED
  BY <1>0, <1>2, <1>4, <1>5, <1>6, InList

LEMMA AddTailKeeps ==
    ASSUME NEW s, NEW t, HeapIs(s, t), NEW n \in Node, ListAddTail(n)
    PROVE /\ HeapIs(With(s, Len(s) + 1, n), t)'
          /\ Others(With(s, Len(s) + 1, n), t)' = Others(s, t)
<1> DEFINE i == Len(s) + 1
<1>0. /\ Len(s) \in Nat /\ list = At(s, 1) /\ (list = NULL <=> Len(s) = 0)
      /\ At(s, i) = NULL /\ i - 1 = Len(s) /\ i \in 1 .. Len(s) + 1 /\ (i = 1 <=> list = NULL)
  BY HeapFacts DEF At
<1>1. n # NULL
  BY ListsAssumption
<1>2. list = NULL => At(s, Len(s)) = NULL
  BY <1>0 DEF At
<1>3. list # NULL => last[list] = At(s, Len(s)) /\ last[list] # NULL
  <2>1. list # NULL => Len(s) \in 1 .. Len(s)
    BY <1>0
  <2> QED
    BY <1>0, <2>1, HeapFacts, ListsAssumption DEF HeapIs
<1>4. LinkedIn(s, i, n)
  <2>1. n \notin alloc /\ alloc' = alloc \cup {n}
    BY DEF ListAddTail, Malloc
  <2>2. next' = Set(Set(next, n, NULL), At(s, Len(s)), n)
    BY <1>1, <1>2, <1>3 DEF ListAddTail, Set
  <2>3. prev' = Set(Set(prev, n, At(s, Len(s))), NULL, n)
    BY <1>1, <1>2, <1>3 DEF ListAddTail, Set
  <2> QED
    BY <1>0, <2>1, <2>2, <2>3 DEF LinkedIn
<1>5. list' = (IF i = 1 THEN n ELSE list) /\ head' = head /\ tail' = tail
  BY <1>0 DEF ListAddTail
<1>6. last' = Set(last, list', n) /\ list' \in Node
  <2>1. list # NULL => list \in Node
    BY <1>0, HeapFacts
  <2> QED
    BY <1>1, <2>1 DEF ListAddTail, Set
<1>7. Links(last') /\ last'[list'] = n
  BY <1>6, SetAt DEF HeapIs
<1> HIDE DEF i
<1>8. HeapIs(With(s, i, n), t)' /\ Others(With(s, i, n), t)' = Others(s, t)
  BY <1>0, <1>4, <1>5, <1>7, InList DEF i
<1> QED
  BY <1>8 DEF i

LEMMA InsertAtKeeps ==
    ASSUME NEW s, NEW t, HeapIs(s, t), NEW n \in Node, NEW i \in 1 .. Len(s),
           ListInsertAt(s[i], n)
    PROVE HeapIs(With(s, i, n), t)' /\ Others(With(s, i, n), t)' = Others(s, t)
<1>0. /\ Len(s) \in Nat /\ list = At(s, 1) /\ At(s, i) = s[i] /\ s[i] \in Node
      /\ i \in 1 .. Len(s) + 1 /\ i # Len(s) + 1
  BY HeapFacts
<1>1. n # NULL /\ s[i] # NULL
  BY <1>0, ListsAssumption
<1>2. i # 1
  BY <1>0 DEF ListInsertAt
<1>3. At(s, i - 1) # NULL /\ prev[s[i]] = At(s, i - 1)
  <2>1. i - 1 \in 1 .. Len(s)
    BY <1>0, <1>2
  <2>2. At(s, i - 1) \in Node
    BY <2>1, HeapFacts
  <2> QED
    BY <2>2, ThreadAt, ListsAssumption DEF HeapIs
<1>4. LinkedIn(s, i, n)
  <2>1. n \notin alloc /\ alloc' = alloc \cup {n}
    BY DEF ListInsertAt, Malloc
  <2>2. next' = Set(Set(next, n, s[i]), At(s, i - 1), n)
    BY <1>1, <1>3 DEF ListInsertAt, Set
  <2>3. prev' = Set(Set(prev, n, At(s, i - 1)), s[i], n)
    BY <1>1, <1>3 DEF ListInsertAt, Set
  <2> QED
    BY <1>0, <2>1, <2>2, <2>3 DEF LinkedIn
<1>5. /\ list' = (IF i = 1 THEN n ELSE list) /\ head' = head /\ tail' = tail
      /\ last'[list'] = (IF i = Len(s) + 1 THEN n ELSE last[list]) /\ Links(last')
  BY <1>0, <1>2 DEF ListInsertAt, HeapIs
<1> QED
  BY <1>0, <1>4, <1>5, InList

LEMMA LlistAddKeeps ==
    ASSUME NEW s, NEW t, HeapIs(s, t), NEW n \in Node, LlistAdd(n)
    PROVE HeapIs(s, With(t, 1, n))' /\ Others(s, With(t, 1, n))' = Others(s, t)
<1>0. Len(t) \in Nat /\ head = At(t, 1) /\ (head = NULL <=> Len(t) = 0) /\ At(t, 1 - 1) = NULL
  BY HeapFacts DEF At
<1>1. n # NULL
  BY ListsAssumption
<1>2. LinkedIn(t, 1, n)
  BY <1>0, <1>1 DEF LinkedIn, LlistAdd, Malloc, Set
<1>3. Len(t) = 0 => tail = NULL
  BY <1>0 DEF HeapIs, At
<1>4. 1 \in 1 .. Len(t) + 1 /\ (1 = Len(t) + 1 <=> Len(t) = 0)
  BY <1>0
<1>5. /\ head' = n /\ list' = list /\ last' = last
      /\ tail' = IF 1 = Len(t) + 1 THEN n ELSE tail
  BY <1>0, <1>3, <1>4 DEF LlistAdd
<1> QED
  BY <1>0, <1>2, <1>4, <1>5, InLlist

LEMMA LlistAddTailKeeps ==
    ASSUME NEW s, NEW t, HeapIs(s, t), NEW n \in Node, LlistAddTail(n)
    PROVE /\ HeapIs(s, With(t, Len(t) + 1, n))'
          /\ Others(s, With(t, Len(t) + 1, n))' = Others(s, t)
<1> DEFINE i == Len(t) + 1
<1>0. /\ Len(t) \in Nat /\ head = At(t, 1) /\ (head = NULL <=> Len(t) = 0)
      /\ At(t, i) = NULL /\ i - 1 = Len(t) /\ i \in 1 .. Len(t) + 1 /\ (i = 1 <=> head = NULL)
  BY HeapFacts DEF At
<1>1. n # NULL
  BY ListsAssumption
<1>2. tail = At(t, Len(t)) /\ (head = NULL => tail = NULL)
  BY <1>0 DEF HeapIs, At
<1>3. LinkedIn(t, i, n)
  <2>1. n \notin alloc /\ alloc' = alloc \cup {n}
    BY DEF LlistAddTail, Malloc
  <2>2. next' = Set(Set(next, n, NULL), tail, n)
    BY <1>1, <1>2 DEF LlistAddTail, Set
  <2>3. prev' = Set(Set(prev, n, tail), NULL, n)
    BY <1>1 DEF LlistAddTail, Set
  <2> QED
    BY <1>0, <1>2, <2>1, <2>2, <2>3 DEF LinkedIn
<1>4. /\ head' = (IF i = 1 THEN n ELSE head) /\ list' = list /\ last' = last
      /\ tail' = IF i = Len(t) + 1 THEN n ELSE tail
  BY <1>0 DEF LlistAddTail
<1> HIDE DEF i
<1>5. HeapIs(s, With(t, i, n))' /\ Others(s, With(t, i, n))' = Others(s, t)
  BY <1>0, <1>3, <1>4, InLlist
<1> QED
  BY <1>5 DEF i

(* A node that is linked out and freed.                                    *)
LinkedOut(s, i) ==
    /\ alloc' = alloc \ {s[i]}
    /\ next' = Set(Set(next, At(s, i - 1), At(s, i + 1)), s[i], Junk)
    /\ prev' = Set(Set(prev, At(s, i + 1), At(s, i - 1)), s[i], Junk)

LEMMA LinkedOutAt ==
    ASSUME NEW s, NEW i, LinkedOut(s, i), Links(next), Links(prev)
    PROVE /\ Links(next') /\ Links(prev')
          /\ \A m \in Node \ {s[i]} :
                 /\ next'[m] = IF m = At(s, i - 1) THEN At(s, i + 1) ELSE next[m]
                 /\ prev'[m] = IF m = At(s, i + 1) THEN At(s, i - 1) ELSE prev[m]
<1> DEFINE f == Set(next, At(s, i - 1), At(s, i + 1))
           b == Set(prev, At(s, i + 1), At(s, i - 1))
<1>1. Links(f) /\ \A m \in Node : f[m] = IF m = At(s, i - 1) THEN At(s, i + 1) ELSE next[m]
  BY SetAt
<1>2. Links(b) /\ \A m \in Node : b[m] = IF m = At(s, i + 1) THEN At(s, i - 1) ELSE prev[m]
  BY SetAt
<1>3. next' = Set(f, s[i], Junk) /\ prev' = Set(b, s[i], Junk)
  BY DEF LinkedOut
<1> HIDE DEF f, b
<1>4. Links(next') /\ \A m \in Node : next'[m] = IF m = s[i] THEN Junk ELSE f[m]
  BY <1>1, <1>3, SetAt
<1>5. Links(prev') /\ \A m \in Node : prev'[m] = IF m = s[i] THEN Junk ELSE b[m]
  BY <1>2, <1>3, SetAt
<1> QED
  BY <1>1, <1>2, <1>4, <1>5

LEMMA OutList ==
    ASSUME NEW s, NEW t, HeapIs(s, t), NEW i \in 1 .. Len(s), LinkedOut(s, i),
           list' = IF i = 1 THEN At(s, 2) ELSE list, head' = head, tail' = tail,
           Links(last'),
           list' # NULL => last'[list'] = At(s, IF i = Len(s) THEN Len(s) - 1 ELSE Len(s))
    PROVE HeapIs(Without(s, i), t)' /\ Others(Without(s, i), t)' = Others(s, t)
<1> DEFINE w == Without(s, i)
<1>0. /\ s \in Seq(Node) /\ Len(s) \in Nat /\ Distinct(s) /\ i \in 1 .. Len(s)
      /\ \A j \in 1 .. Len(s) : s[j] \in Node \cap alloc /\ At(s, j) = s[j]
      /\ \A j \in 1 .. Len(t) : t[j] \in Node \cap alloc
      /\ \A j \in 1 .. Len(s) : \A k \in Int : At(s, k) = s[j] <=> k = j
      /\ \A j \in 1 .. Len(t) : \A k \in Int : At(s, k) # t[j]
      /\ \A j \in 1 .. Len(s) : \A k \in 1 .. Len(t) : s[j] # t[k]
  BY HeapFacts
<1>1. alloc' = alloc \ {s[i]} /\ i \in Int /\ i - 1 \in Int /\ i + 1 \in Int
  BY <1>0 DEF LinkedOut
<1>2. /\ Links(next') /\ Links(prev')
      /\ \A m \in Node \ {s[i]} :
             /\ next'[m] = IF m = At(s, i - 1) THEN At(s, i + 1) ELSE next[m]
             /\ prev'[m] = IF m = At(s, i + 1) THEN At(s, i - 1) ELSE prev[m]
  <2>1. Links(next) /\ Links(prev) /\ LinkedOut(s, i)
    BY DEF HeapIs
  <2> QED
    BY ONLY <2>1, LinkedOutAt
<1>3. Threads(w, list', next', prev')
  <2>1. /\ Threads(s, list, next, prev) /\ i \in 1 .. Len(s)
        /\ list' = IF i = 1 THEN At(s, 2) ELSE list
    BY DEF HeapIs
  <2>2. \A j \in 1 .. Len(s) \ {i} :
            /\ next'[s[j]] = IF j = i - 1 THEN At(s, i + 1) ELSE next[s[j]]
            /\ prev'[s[j]] = IF j = i + 1 THEN At(s, i - 1) ELSE prev[s[j]]
    <3> SUFFICES ASSUME NEW j \in 1 .. Len(s) \ {i}
                 PROVE /\ next'[s[j]] = IF j = i - 1 THEN At(s, i + 1) ELSE next[s[j]]
                       /\ prev'[s[j]] = IF j = i + 1 THEN At(s, i - 1) ELSE prev[s[j]]
      OBVIOUS
    <3>1. /\ s[j] \in Node \ {s[i]} /\ (s[j] = At(s, i - 1) <=> j = i - 1)
          /\ (s[j] = At(s, i + 1) <=> j = i + 1)
      <4>1. j \in 1 .. Len(s) /\ j # i
        OBVIOUS
      <4>2. At(s, i) = s[i] /\ (At(s, i) = s[j] <=> i = j)
        BY <1>0, <1>1, <4>1
      <4> QED
        BY <1>0, <1>1, <4>1, <4>2
    <3> QED
      BY ONLY <1>2, <3>1
  <2> HIDE DEF w
  <2> QED
    BY ONLY <2>1, <2>2, WithoutThreads DEF w
<1>4. Threads(t, head', next', prev')
  <2>1. \A j \in 1 .. Len(t) : next'[t[j]] = next[t[j]] /\ prev'[t[j]] = prev[t[j]]
    BY <1>0, <1>1, <1>2
  <2> QED
    BY <2>1, SameThreads DEF HeapIs
<1>5. list' # NULL => last'[list'] = At(w, Len(w))
  <2>1. Len(w) = Len(s) - 1 /\ Len(s) - 1 \in Int
    <3>1. Len(s) - 1 \in Int
      BY <1>0
    <3> QED
      BY ONLY <1>0, <3>1, WithoutIs
  <2>2. At(w, Len(s) - 1) = IF Len(s) - 1 < i THEN At(s, Len(s) - 1)
                            ELSE At(s, Len(s) - 1 + 1)
    BY ONLY <1>0, <2>1, AtWithout
  <2>3. Len(s) - 1 + 1 = Len(s) /\ (Len(s) - 1 < i <=> i = Len(s))
    BY <1>0
  <2> HIDE DEF w
  <2> QED
    BY ONLY <2>1, <2>2, <2>3,
            list' # NULL => last'[list'] = At(s, IF i = Len(s) THEN Len(s) - 1 ELSE Len(s))
<1>6. Nodes(w) = Nodes(s) \ {s[i]}
  BY ONLY <1>0, NodesWithout
<1>7. s[i] \in Nodes(s)
  BY DEF Nodes
<1> HIDE DEF w
<1>8. HeapIs(w, t)'
  <2>1. tail' = At(t, Len(t)) /\ Nodes(s) \subseteq alloc /\ Nodes(t) \subseteq alloc
        /\ Nodes(s) \cap Nodes(t) = {}
    BY DEF HeapIs
  <2>2. Nodes(w) \subseteq alloc' /\ Nodes(t) \subseteq alloc' /\ Nodes(w) \cap Nodes(t) = {}
    BY <1>1, <1>6, <1>7, <2>1
  <2> QED
    BY <1>2, <1>3, <1>4, <1>5, <2>1, <2>2 DEF HeapIs
<1>9. Others(w, t)' = Others(s, t)
  <2>1. Nodes(s) \cap Nodes(t) = {}
    BY DEF HeapIs
  <2> QED
    BY <1>1, <1>6, <1>7, <2>1 DEF Others
<1> QED
  BY <1>8, <1>9 DEF w

LEMMA OutLlist ==
    ASSUME NEW s, NEW t, HeapIs(s, t), NEW i \in 1 .. Len(t), LinkedOut(t, i),
           head' = IF i = 1 THEN At(t, 2) ELSE head,
           tail' = IF i = Len(t) THEN At(t, i - 1) ELSE tail,
           list' = list, last' = last
    PROVE HeapIs(s, Without(t, i))' /\ Others(s, Without(t, i))' = Others(s, t)
<1> DEFINE w == Without(t, i)
<1>0. /\ t \in Seq(Node) /\ Len(t) \in Nat /\ Distinct(t) /\ i \in 1 .. Len(t)
      /\ \A j \in 1 .. Len(t) : t[j] \in Node \cap alloc /\ At(t, j) = t[j]
      /\ \A j \in 1 .. Len(s) : s[j] \in Node \cap alloc
      /\ \A j \in 1 .. Len(t) : \A k \in Int : At(t, k) = t[j] <=> k = j
      /\ \A j \in 1 .. Len(s) : \A k \in Int : At(t, k) # s[j]
      /\ \A j \in 1 .. Len(s) : \A k \in 1 .. Len(t) : s[j] # t[k]
  BY HeapFacts
<1>1. alloc' = alloc \ {t[i]} /\ i \in Int /\ i - 1 \in Int /\ i + 1 \in Int
  BY <1>0 DEF LinkedOut
<1>2. /\ Links(next') /\ Links(prev')
      /\ \A m \in Node \ {t[i]} :
             /\ next'[m] = IF m = At(t, i - 1) THEN At(t, i + 1) ELSE next[m]
             /\ prev'[m] = IF m = At(t, i + 1) THEN At(t, i - 1) ELSE prev[m]
  <2>1. Links(next) /\ Links(prev) /\ LinkedOut(t, i)
    BY DEF HeapIs
  <2> QED
    BY ONLY <2>1, LinkedOutAt
<1>3. Threads(w, head', next', prev')
  <2>1. /\ Threads(t, head, next, prev) /\ i \in 1 .. Len(t)
        /\ head' = IF i = 1 THEN At(t, 2) ELSE head
    BY DEF HeapIs
  <2>2. \A j \in 1 .. Len(t) \ {i} :
            /\ next'[t[j]] = IF j = i - 1 THEN At(t, i + 1) ELSE next[t[j]]
            /\ prev'[t[j]] = IF j = i + 1 THEN At(t, i - 1) ELSE prev[t[j]]
    <3> SUFFICES ASSUME NEW j \in 1 .. Len(t) \ {i}
                 PROVE /\ next'[t[j]] = IF j = i - 1 THEN At(t, i + 1) ELSE next[t[j]]
                       /\ prev'[t[j]] = IF j = i + 1 THEN At(t, i - 1) ELSE prev[t[j]]
      OBVIOUS
    <3>1. /\ t[j] \in Node \ {t[i]} /\ (t[j] = At(t, i - 1) <=> j = i - 1)
          /\ (t[j] = At(t, i + 1) <=> j = i + 1)
      <4>1. j \in 1 .. Len(t) /\ j # i
        OBVIOUS
      <4>2. At(t, i) = t[i] /\ (At(t, i) = t[j] <=> i = j)
        BY <1>0, <1>1, <4>1
      <4> QED
        BY <1>0, <1>1, <4>1, <4>2
    <3> QED
      BY ONLY <1>2, <3>1
  <2> HIDE DEF w
  <2> QED
    BY ONLY <2>1, <2>2, WithoutThreads DEF w
<1>4. Threads(s, list', next', prev')
  <2>1. \A j \in 1 .. Len(s) : next'[s[j]] = next[s[j]] /\ prev'[s[j]] = prev[s[j]]
    BY <1>0, <1>1, <1>2
  <2> QED
    BY <2>1, SameThreads DEF HeapIs
<1>5. tail' = At(w, Len(w))
  <2>1. Len(w) = Len(t) - 1 /\ Len(t) - 1 \in Int
    <3>1. Len(t) - 1 \in Int
      BY <1>0
    <3> QED
      BY ONLY <1>0, <3>1, WithoutIs
  <2>2. At(w, Len(t) - 1) = IF Len(t) - 1 < i THEN At(t, Len(t) - 1)
                            ELSE At(t, Len(t) - 1 + 1)
    BY ONLY <1>0, <2>1, AtWithout
  <2>3. Len(t) - 1 + 1 = Len(t) /\ (Len(t) - 1 < i <=> i = Len(t))
    BY <1>0
  <2>4. tail = At(t, Len(t))
    BY DEF HeapIs
  <2> HIDE DEF w
  <2> QED
    BY ONLY <2>1, <2>2, <2>3, <2>4, tail' = IF i = Len(t) THEN At(t, i - 1) ELSE tail
<1>6. Nodes(w) = Nodes(t) \ {t[i]}
  BY ONLY <1>0, NodesWithout
<1>7. t[i] \in Nodes(t)
  BY DEF Nodes
<1> HIDE DEF w
<1>8. HeapIs(s, w)'
  <2>1. /\ Nodes(s) \subseteq alloc /\ Nodes(t) \subseteq alloc /\ Nodes(s) \cap Nodes(t) = {}
        /\ Links(last') /\ (list' # NULL => last'[list'] = At(s, Len(s)))
    BY DEF HeapIs
  <2>2. Nodes(s) \subseteq alloc' /\ Nodes(w) \subseteq alloc' /\ Nodes(s) \cap Nodes(w) = {}
    BY <1>1, <1>6, <1>7, <2>1
  <2> QED
    BY <1>2, <1>3, <1>4, <1>5, <2>1, <2>2 DEF HeapIs
<1>9. Others(s, w)' = Others(s, t)
  <2>1. Nodes(s) \cap Nodes(t) = {}
    BY DEF HeapIs
  <2> QED
    BY <1>1, <1>6, <1>7, <2>1 DEF Others
<1> QED
  BY <1>8, <1>9 DEF w

(* The two operations that do so.                                          *)
LEMMA DeleteKeeps ==
    ASSUME NEW s, NEW t, HeapIs(s, t), NEW i \in 1 .. Len(s), ListDelete(s[i])
    PROVE HeapIs(Without(s, i), t)' /\ Others(Without(s, i), t)' = Others(s, t)
<1>0. /\ Len(s) \in Nat /\ list = At(s, 1) /\ (list = NULL <=> Len(s) = 0)
      /\ \A j \in 1 .. Len(s) : s[j] \in Node \cap alloc /\ At(s, j) = s[j]
      /\ \A j \in 1 .. Len(s) : \A k \in Int : At(s, k) = s[j] <=> k = j
  BY HeapFacts
<1>1. next[s[i]] = At(s, i + 1) /\ prev[s[i]] = At(s, i - 1)
  BY ThreadAt DEF HeapIs
<1>2. /\ list # NULL /\ list \in Node /\ list = s[1] /\ (s[i] = list <=> i = 1)
      /\ last[list] = s[Len(s)] /\ (s[i] = last[list] <=> i = Len(s))
      /\ s[i] \in Node /\ s[i] # NULL
  <2>1. 1 \in 1 .. Len(s) /\ Len(s) \in 1 .. Len(s) /\ 1 \in Int /\ Len(s) \in Int
    BY <1>0
  <2>2. last[list] = At(s, Len(s))
    BY <1>0, <2>1 DEF HeapIs
  <2>3. At(s, 1) = s[1] /\ At(s, Len(s)) = s[Len(s)] /\ s[1] \in Node /\ s[i] \in Node
    BY <1>0, <2>1
  <2>4. (At(s, 1) = s[i] <=> 1 = i) /\ (At(s, Len(s)) = s[i] <=> Len(s) = i)
    BY <1>0, <2>1
  <2> QED
    BY ONLY <1>0, <2>2, <2>3, <2>4, ListsAssumption
<1>3. LinkedOut(s, i)
  BY <1>1, <1>2, FreedIs DEF LinkedOut, ListDelete, Free
<1>4. list' = (IF i = 1 THEN At(s, 2) ELSE list) /\ head' = head /\ tail' = tail
  BY <1>1, <1>2 DEF ListDelete
<1> DEFINE handed == IF i = 1 THEN Set(last, At(s, 2), last[list]) ELSE last
           kept == IF i = Len(s) THEN Set(handed, list, At(s, i - 1)) ELSE handed
<1>5. last' = Set(kept, s[i], Junk)
  <2>1. last' = Freed(kept, s[i])
    <3> DEFINE first == IF s[i] = list THEN Set(last, next[s[i]], last[s[i]]) ELSE last
    <3>1. last' = Freed(IF s[i] = last[list] THEN [first EXCEPT ![list] = prev[s[i]]]
                        ELSE first, s[i])
      BY DEF ListDelete
    <3>2. first = handed
      BY <1>1, <1>2
    <3> HIDE DEF first, handed
    <3>3. [handed EXCEPT ![list] = prev[s[i]]] = Set(handed, list, At(s, i - 1))
      BY <1>1, <1>2 DEF Set
    <3>4. (IF s[i] = last[list] THEN [handed EXCEPT ![list] = prev[s[i]]] ELSE handed) = kept
      BY <1>2, <3>3
    <3> QED
      BY <3>1, <3>2, <3>4
  <2> HIDE DEF kept
  <2> QED
    BY <1>2, <2>1, FreedIs
<1>6. /\ Links(handed)
      /\ \A m \in Node : handed[m] = IF i = 1 /\ m = At(s, 2) THEN last[list] ELSE last[m]
  BY SetAt DEF HeapIs
<1> HIDE DEF handed
<1>7. /\ Links(kept)
      /\ \A m \in Node : kept[m] = IF i = Len(s) /\ m = list THEN At(s, i - 1) ELSE handed[m]
  BY <1>6, SetAt
<1> HIDE DEF kept
<1>8. Links(last') /\ \A m \in Node : last'[m] = IF m = s[i] THEN Junk ELSE kept[m]
  BY <1>5, <1>7, SetAt
<1>9. list' # NULL => last'[list'] = At(s, IF i = Len(s) THEN Len(s) - 1 ELSE Len(s))
  <2>1. CASE i = 1
    <3>1. CASE Len(s) = 1
      BY <1>4, <2>1, <3>1 DEF At
    <3>2. CASE Len(s) # 1
      <4>1. 2 \in 1 .. Len(s) /\ Len(s) \in 1 .. Len(s) /\ i # 2
        BY <1>0, <2>1, <3>2
      <4>2. s[2] \in Node /\ At(s, 2) = s[2] /\ s[2] # s[i] /\ At(s, Len(s)) = s[Len(s)]
        BY <1>0, <4>1
      <4>3. last'[s[2]] = last[list]
        BY <1>6, <1>7, <1>8, <2>1, <3>2, <4>2
      <4> QED
        BY <1>2, <1>4, <2>1, <3>2, <4>2, <4>3
    <3> QED
      BY <3>1, <3>2
  <2>2. CASE i # 1
    <3>1. list' = list /\ list \in Node /\ list # s[i]
      BY <1>2, <1>4, <2>2
    <3>2. last'[list] = IF i = Len(s) THEN At(s, i - 1) ELSE last[list]
      BY <1>6, <1>7, <1>8, <2>2, <3>1
    <3>3. At(s, Len(s)) = s[Len(s)]
      <4>1. Len(s) \in 1 .. Len(s)
        BY <1>0
      <4> QED
        BY <1>0, <4>1
    <3> QED
      BY <1>2, <3>1, <3>2, <3>3
  <2> QED
    BY <2>1, <2>2
<1> QED
  BY ONLY HeapIs(s, t), i \in 1 .. Len(s), <1>3, <1>4, <1>8, <1>9, OutList

LEMMA LlistDeleteKeeps ==
    ASSUME NEW s, NEW t, HeapIs(s, t), NEW i \in 1 .. Len(t), LlistDelete(t[i])
    PROVE HeapIs(s, Without(t, i))' /\ Others(s, Without(t, i))' = Others(s, t)
<1>0. /\ Len(t) \in Nat /\ head = At(t, 1)
      /\ \A j \in 1 .. Len(t) : t[j] \in Node \cap alloc /\ At(t, j) = t[j]
  BY HeapFacts
<1>1. next[t[i]] = At(t, i + 1) /\ prev[t[i]] = At(t, i - 1) /\ t[i] \in Node
  BY ThreadAt DEF HeapIs
<1>2. At(t, i - 1) = NULL <=> i = 1
  <2>1. i # 1 => i - 1 \in 1 .. Len(t)
    BY <1>0
  <2>2. i # 1 => At(t, i - 1) \in Node
    BY <1>0, <2>1
  <2>3. i = 1 => At(t, i - 1) = NULL
    BY DEF At
  <2> QED
    BY <2>2, <2>3, ListsAssumption
<1>3. At(t, i + 1) = NULL <=> i = Len(t)
  <2>1. i # Len(t) => i + 1 \in 1 .. Len(t)
    BY <1>0
  <2>2. i # Len(t) => At(t, i + 1) \in Node
    BY <1>0, <2>1
  <2>3. i = Len(t) => At(t, i + 1) = NULL
    BY <1>0 DEF At
  <2> QED
    BY <2>2, <2>3, ListsAssumption
<1>4. LinkedOut(t, i)
  BY <1>1, FreedIs DEF LinkedOut, LlistDelete, Free
<1>5. /\ head' = (IF i = 1 THEN At(t, 2) ELSE head)
      /\ tail' = (IF i = Len(t) THEN At(t, i - 1) ELSE tail)
      /\ list' = list /\ last' = last
  BY <1>1, <1>2, <1>3 DEF LlistDelete
<1> QED
  BY ONLY HeapIs(s, t), i \in 1 .. Len(t), <1>4, <1>5, OutLlist

(* The first node moves on.                                                *)
LEMMA MoveKeeps ==
    ASSUME NEW s, NEW t, HeapIs(s, t), NEW i \in 2 .. Len(s) + 1, ListMoveFirstTo(At(s, i))
    PROVE /\ i \in 3 .. Len(s) + 1
          /\ HeapIs(Moved(s, i), t)' /\ Others(Moved(s, i), t)' = Others(s, t)
<1> DEFINE w == Moved(s, i)
<1>0. /\ s \in Seq(Node) /\ Len(s) \in Nat /\ list = At(s, 1) /\ (list = NULL <=> Len(s) = 0)
      /\ \A j \in 1 .. Len(s) : s[j] \in Node \cap alloc /\ At(s, j) = s[j]
      /\ \A j \in 1 .. Len(t) : t[j] \in Node \cap alloc
      /\ \A j \in 1 .. Len(s) : \A k \in Int : At(s, k) = s[j] <=> k = j
      /\ \A j \in 1 .. Len(t) : \A k \in Int : At(s, k) # t[j]
      /\ \A j \in 1 .. Len(s) : \A k \in 1 .. Len(t) : s[j] # t[k]
  BY HeapFacts
<1>1. list # NULL /\ At(s, i) # next[list]
  BY DEF ListMoveFirstTo
<1>2. 1 \in 1 .. Len(s) /\ list = s[1] /\ s[1] \in Node /\ s[1] # NULL
  <2>1. 1 \in 1 .. Len(s)
    BY <1>0, <1>1
  <2> QED
    BY <1>0, <1>1, <2>1
<1>3. next[list] = At(s, 2)
  BY <1>2, ThreadAt DEF HeapIs
<1>4. i \in 3 .. Len(s) + 1 /\ i \in Int /\ i - 1 \in 2 .. Len(s) /\ 2 \in 1 .. Len(s)
  <2>1. i # 2
    BY <1>1, <1>3
  <2> QED
    BY <1>0, <2>1
<1>5. /\ At(s, 2) = s[2] /\ s[2] \in Node /\ s[2] # NULL
      /\ At(s, i - 1) = s[i - 1] /\ s[i - 1] \in Node /\ s[i - 1] # NULL
  BY <1>0, <1>4, ListsAssumption
<1>6. /\ next' = Set(Set(next, s[1], At(s, i)), At(s, i - 1), s[1])
      /\ prev' = Set(Set(Set(prev, s[2], NULL), s[1], At(s, i - 1)), At(s, i), s[1])
      /\ last' = Set(last, s[2], IF i = Len(s) + 1 THEN s[1] ELSE last[list])
  <2>1. CASE i = Len(s) + 1
    <3>1. At(s, i) = NULL /\ last[list] = At(s, i - 1)
      BY <1>0, <1>1, <2>1 DEF At, HeapIs
    <3>2. next' = Set(Set(next, s[1], NULL), s[i - 1], s[1])
      <4>1. next' = [next EXCEPT ![s[i - 1]] = s[1], ![s[1]] = NULL]
        BY <1>2, <1>5, <3>1 DEF ListMoveFirstTo
      <4>2. s[i - 1] # s[1]
        BY <1>0, <1>2, <1>4, <1>5
      <4>3. next = [n \in Node |-> next[n]]
        BY DEF HeapIs, Links
      <4> DEFINE g == [n \in Node |-> next[n]]
      <4>4. [g EXCEPT ![s[i - 1]] = s[1], ![s[1]] = NULL]
                = [[g EXCEPT ![s[1]] = NULL] EXCEPT ![s[i - 1]] = s[1]]
        BY <1>2, <1>5, <4>2
      <4> HIDE DEF g
      <4> QED
        BY <1>2, <1>5, <4>1, <4>3, <4>4 DEF Set, g
    <3>3. prev' = Set(Set(prev, s[2], NULL), s[1], s[i - 1])
      BY <1>2, <1>3, <1>5, <3>1 DEF ListMoveFirstTo, Set
    <3>4. last' = Set(last, s[2], s[1])
      BY <1>2, <1>3, <1>5, <3>1 DEF ListMoveFirstTo, Set
    <3>5. Set(Set(Set(prev, s[2], NULL), s[1], At(s, i - 1)), At(s, i), s[1])
              = Set(Set(prev, s[2], NULL), s[1], s[i - 1])
      BY <1>5, <3>1 DEF Set
    <3> QED
      BY <1>5, <2>1, <3>1, <3>2, <3>3, <3>4, <3>5
  <2>2. CASE i # Len(s) + 1
    <3>1. i \in 1 .. Len(s) /\ At(s, i) = s[i] /\ s[i] # NULL
      BY <1>0, <1>4, <2>2, ListsAssumption
    <3>2. prev[s[i]] = s[i - 1]
      BY <1>5, <3>1, ThreadAt DEF HeapIs
    <3>3. next' = Set(Set(next, s[1], s[i]), s[i - 1], s[1])
      BY <1>2, <1>5, <3>1, <3>2 DEF ListMoveFirstTo, Set
    <3>4. prev' = Set(Set(Set(prev, s[2], NULL), s[1], s[i - 1]), s[i], s[1])
      BY <1>2, <1>3, <1>5, <3>1, <3>2 DEF ListMoveFirstTo, Set
    <3>5. last' = Set(last, s[2], last[list])
      BY <1>2, <1>3, <1>5, <3>1 DEF ListMoveFirstTo, Set
    <3> QED
      BY <1>5, <2>2, <3>1, <3>3, <3>4, <3>5
  <2> QED
    BY <2>1, <2>2
<1>7. /\ Links(next')
      /\ \A m \in Node : next'[m] = IF m = At(s, i - 1) THEN s[1]
                                    ELSE IF m = s[1] THEN At(s, i) ELSE next[m]
  <2> DEFINE f == Set(next, s[1], At(s, i))
  <2>1. Links(f) /\ \A m \in Node : f[m] = IF m = s[1] THEN At(s, i) ELSE next[m]
    BY SetAt DEF HeapIs
  <2>2. next' = Set(f, At(s, i - 1), s[1])
    BY <1>6
  <2> HIDE DEF f
  <2>3. Links(next') /\ \A m \in Node : next'[m] = IF m = At(s, i - 1) THEN s[1] ELSE f[m]
    BY <2>1, <2>2, SetAt
  <2> QED
    BY <2>1, <2>3
<1>8. /\ Links(prev')
      /\ \A m \in Node : prev'[m] = IF m = At(s, i) THEN s[1]
                                    ELSE IF m = s[1] THEN At(s, i - 1)
                                    ELSE IF m = s[2] THEN NULL ELSE prev[m]
  <2> DEFINE f == Set(prev, s[2], NULL)
             g == Set(f, s[1], At(s, i - 1))
  <2>1. Links(f) /\ \A m \in Node : f[m] = IF m = s[2] THEN NULL ELSE prev[m]
    BY SetAt DEF HeapIs
  <2>2. prev' = Set(g, At(s, i), s[1])
    BY <1>6
  <2> HIDE DEF f
  <2>3. Links(g) /\ \A m \in Node : g[m] = IF m = s[1] THEN At(s, i - 1) ELSE f[m]
    BY <2>1, SetAt
  <2> HIDE DEF g
  <2>4. Links(prev') /\ \A m \in Node : prev'[m] = IF m = At(s, i) THEN s[1] ELSE g[m]
    BY <2>2, <2>3, SetAt
  <2> QED
    BY <2>1, <2>3, <2>4
<1>9. Links(last') /\ last'[s[2]] = IF i = Len(s) + 1 THEN s[1] ELSE last[list]
  BY <1>5, <1>6, SetAt DEF HeapIs
<1>10. /\ alloc' = alloc /\ head' = head /\ tail' = tail /\ list' = At(s, 2)
  BY <1>3 DEF ListMoveFirstTo
<1>11. Threads(w, list', next', prev')
  <2>1. Threads(s, list, next, prev)
    BY DEF HeapIs
  <2>2. (At(s, i) = s[1] <=> i = 1) /\ (At(s, i - 1) = s[1] <=> i - 1 = 1)
    BY <1>0, <1>2, <1>4
  <2>3. next'[s[1]] = At(s, i) /\ prev'[s[1]] = At(s, i - 1)
    BY <1>2, <1>4, <1>7, <1>8, <2>2
  <2>4. \A j \in 2 .. Len(s) :
            /\ next'[s[j]] = IF j = i - 1 THEN s[1] ELSE next[s[j]]
            /\ prev'[s[j]] = IF j = 2 THEN NULL ELSE IF j = i THEN s[1] ELSE prev[s[j]]
    <3> SUFFICES ASSUME NEW j \in 2 .. Len(s)
                 PROVE /\ next'[s[j]] = IF j = i - 1 THEN s[1] ELSE next[s[j]]
                       /\ prev'[s[j]] = IF j = 2 THEN NULL ELSE IF j = i THEN s[1] ELSE prev[s[j]]
      OBVIOUS
    <3>1. j \in 1 .. Len(s) /\ j # 1 /\ 1 \in Int /\ 2 \in Int /\ i - 1 \in Int /\ (j = 2 => j # i)
      BY <1>0, <1>4
    <3>2. /\ s[j] \in Node /\ (At(s, 1) = s[j] <=> 1 = j) /\ (At(s, 2) = s[j] <=> 2 = j)
          /\ (At(s, i - 1) = s[j] <=> i - 1 = j) /\ (At(s, i) = s[j] <=> i = j)
      BY <1>0, <1>4, <3>1
    <3>3. At(s, 1) = s[1]
      BY <1>0, <1>2
    <3> QED
      BY ONLY <1>5, <1>7, <1>8, <3>1, <3>2, <3>3
  <2> HIDE DEF w
  <2> QED
    BY ONLY <1>4, <1>10, <2>1, <2>3, <2>4, MovedThreads DEF w
<1>12. Threads(t, head', next', prev')
  <2>1. \A j \in 1 .. Len(t) : next'[t[j]] = next[t[j]] /\ prev'[t[j]] = prev[t[j]]
    <3> SUFFICES ASSUME NEW j \in 1 .. Len(t)
                 PROVE next'[t[j]] = next[t[j]] /\ prev'[t[j]] = prev[t[j]]
      OBVIOUS
    <3>1. t[j] \in Node /\ t[j] # s[1] /\ t[j] # s[2] /\ t[j] # At(s, i) /\ t[j] # At(s, i - 1)
      BY <1>0, <1>2, <1>4
    <3> QED
      BY ONLY <1>7, <1>8, <3>1
  <2> QED
    BY <1>10, <2>1, SameThreads DEF HeapIs
<1>13. last'[list'] = At(w, Len(w))
  <2>1. Len(w) = Len(s) /\ Len(s) \in Nat \ {0}
    BY <1>0, <1>2, <1>4, MovedIs
  <2>2. At(w, Len(s)) = IF Len(s) < i - 1 THEN At(s, Len(s) + 1)
                        ELSE IF Len(s) = i - 1 THEN s[1] ELSE At(s, Len(s))
    BY ONLY <1>0, <1>4, <2>1, AtMoved
  <2>3. ~(Len(s) < i - 1) /\ (Len(s) = i - 1 <=> i = Len(s) + 1)
    BY <1>0, <1>4
  <2>4. last[list] = At(s, Len(s))
    BY <1>1 DEF HeapIs
  <2> HIDE DEF w
  <2> QED
    BY ONLY <1>5, <1>9, <1>10, <2>1, <2>2, <2>3, <2>4
<1>14. Nodes(w) = Nodes(s)
  BY ONLY <1>0, <1>4, NodesMoved
<1> HIDE DEF w
<1>15. HeapIs(w, t)'
  BY <1>7, <1>8, <1>9, <1>10, <1>11, <1>12, <1>13, <1>14 DEF HeapIs
<1>16. Others(w, t)' = Others(s, t)
  BY <1>10, <1>14 DEF Others
<1> QED
  BY <1>4, <1>15, <1>16 DEF w
------------------------------------------------------------------------------
(* The table of table.c: what a place of it may hold, and its entries.     *)
Slot == Node \cup {NULL}

Entries(data) == {data[i] : i \in DOMAIN data} \ {NULL}

LEMMA Greatest ==
    ASSUME NEW n \in Nat, NEW T \in SUBSET (1 .. n), T # {}
    PROVE \E x \in T : \A y \in T : y <= x
<1> DEFINE D == {n - x : x \in T}
<1>1. D \in SUBSET Nat /\ D # {}
  <2>1. \A x \in T : n - x \in Nat
    OBVIOUS
  <2> QED
    BY <2>1
<1>2. PICK d \in D : \A e \in D : d <= e
  BY <1>1, Least
<1>3. PICK x \in T : d = n - x
  BY <1>2
<1>4. ASSUME NEW y \in T PROVE y <= x
  <2>1. n - x <= n - y
    BY <1>2, <1>3
  <2> QED
    BY <2>1
<1> QED
  BY <1>4

LEMMA SlotsAre ==
    ASSUME NEW data \in Seq(Slot)
    PROVE /\ Len(data) \in Nat /\ DOMAIN data = 1 .. Len(data)
          /\ \A i \in 1 .. Len(data) : data[i] \in Slot
  BY LenProperties, ElementOfSeq

(* Adding fills a hole or the next place, and loses nothing.               *)
LEMMA Added ==
    ASSUME NEW data \in Seq(Slot), NEW n \in Node
    PROVE /\ TableAddItem(data, n) \in Seq(Slot)
          /\ Entries(TableAddItem(data, n)) = Entries(data) \cup {n}
<1> DEFINE holes == Holes(data)
           d == TableAddItem(data, n)
<1>0. /\ Len(data) \in Nat /\ DOMAIN data = 1 .. Len(data)
      /\ \A i \in 1 .. Len(data) : data[i] \in Slot
  BY SlotsAre
<1>1. n \in Slot /\ n # NULL
  BY ListsAssumption DEF Slot
<1>2. CASE holes = {}
  <2>1. d = Append(data, n)
    BY <1>2 DEF TableAddItem
  <2> HIDE DEF d
  <2>2. /\ d \in Seq(Slot) /\ Len(d) = Len(data) + 1 /\ d[Len(data) + 1] = n
        /\ \A i \in 1 .. Len(data) : d[i] = data[i]
    BY <1>1, <2>1, AppendProperties
  <2>3. DOMAIN d = 1 .. Len(data) + 1
    BY <2>2, SlotsAre
  <2>4. ASSUME NEW i \in DOMAIN d PROVE i \in 1 .. Len(data) \/ i = Len(data) + 1
    BY <1>0, <2>3
  <2>5. ASSUME NEW e \in Entries(d) PROVE e \in Entries(data) \cup {n}
    BY <1>0, <2>2, <2>4 DEF Entries
  <2>6. ASSUME NEW e \in Entries(data) PROVE e \in Entries(d)
    <3>1. PICK i \in 1 .. Len(data) : data[i] = e /\ e # NULL
      BY <1>0 DEF Entries
    <3>2. i \in DOMAIN d /\ d[i] = e
      BY <1>0, <2>2, <2>3, <3>1
    <3> QED
      BY <3>1, <3>2 DEF Entries
  <2>7. n \in Entries(d)
    <3>1. Len(data) + 1 \in DOMAIN d
      BY <1>0, <2>3
    <3> QED
      BY <1>1, <2>2, <3>1 DEF Entries
  <2>8. d \in Seq(Slot) /\ Entries(d) = Entries(data) \cup {n}
    BY <2>2, <2>5, <2>6, <2>7
  <2> QED
    BY <2>8 DEF d
<1>3. CASE holes # {}
  <2> DEFINE k == CHOOSE i \in holes : \A j \in holes : j <= i
  <2>1. k \in 1 .. Len(data) /\ data[k] = NULL
    <3>1. holes \in SUBSET (1 .. Len(data)) /\ \A i \in holes : data[i] = NULL
      BY <1>0 DEF Holes
    <3> HIDE DEF holes
    <3>2. \E i \in holes : \A j \in holes : j <= i
      BY <1>0, <1>3, <3>1, Greatest
    <3>3. k \in holes
      BY <3>2
    <3> HIDE DEF k
    <3> QED
      BY <3>1, <3>3
  <2>2. d = [data EXCEPT ![k] = n]
    BY <1>3 DEF TableAddItem
  <2> HIDE DEF d, k
  <2>3. /\ d \in Seq(Slot) /\ Len(d) = Len(data)
        /\ \A i \in 1 .. Len(data) : d[i] = IF i = k THEN n ELSE data[i]
    BY <1>1, <2>1, <2>2, ExceptSeq
  <2>4. DOMAIN d = 1 .. Len(data)
    BY <2>3, SlotsAre
  <2>5. ASSUME NEW e \in Entries(d) PROVE e \in Entries(data) \cup {n}
    BY <1>0, <2>3, <2>4 DEF Entries
  <2>6. ASSUME NEW e \in Entries(data) PROVE e \in Entries(d)
    <3>1. PICK i \in 1 .. Len(data) : data[i] = e /\ e # NULL
      BY <1>0 DEF Entries
    <3>2. i \in DOMAIN d /\ d[i] = e
      BY <2>1, <2>3, <2>4, <3>1
    <3> QED
      BY <3>1, <3>2 DEF Entries
  <2>7. n \in Entries(d)
    BY <1>1, <2>1, <2>3, <2>4 DEF Entries
  <2>8. d \in Seq(Slot) /\ Entries(d) = Entries(data) \cup {n}
    BY <2>3, <2>5, <2>6, <2>7
  <2> QED
    BY <2>8 DEF d
<1> QED
  BY <1>2, <1>3

(* Only holes are cut off.                                                 *)
LEMMA Compacted ==
    ASSUME NEW data \in Seq(Slot)
    PROVE TableCompact(data) \in Seq(Slot) /\ Entries(TableCompact(data)) = Entries(data)
<1> DEFINE used == DOMAIN data \ Holes(data)
           d == TableCompact(data)
<1>0. /\ Len(data) \in Nat /\ DOMAIN data = 1 .. Len(data)
      /\ \A i \in 1 .. Len(data) : data[i] \in Slot
  BY SlotsAre
<1>1. \A i \in 1 .. Len(data) : i \in used <=> data[i] # NULL
  BY <1>0 DEF Holes
<1>2. CASE used = {}
  <2>1. d = << >>
    BY <1>2 DEF TableCompact
  <2>2. Entries(data) = {}
    BY <1>0, <1>1, <1>2 DEF Entries
  <2>3. << >> \in Seq(Slot) /\ Entries(<< >>) = {}
    BY EmptySeq DEF Entries
  <2> QED
    BY <2>1, <2>2, <2>3
<1>3. CASE used # {}
  <2> DEFINE n == CHOOSE n \in used : \A i \in used : i <= n
  <2>1. n \in 1 .. Len(data) /\ \A i \in 1 .. Len(data) : data[i] # NULL => i <= n
    <3>1. used \in SUBSET (1 .. Len(data))
      BY <1>0
    <3> HIDE DEF used
    <3>2. \E x \in used : \A i \in used : i <= x
      BY <1>0, <1>3, <3>1, Greatest
    <3>3. n \in used /\ \A i \in used : i <= n
      BY <3>2
    <3> HIDE DEF n
    <3> QED
      BY <1>1, <3>1, <3>3
  <2>2. d = SubSeq(data, 1, n)
    BY <1>3 DEF TableCompact
  <2> HIDE DEF d, n
  <2>3. /\ d \in Seq(Slot) /\ Len(d) = n
        /\ \A i \in 1 .. n : d[i] = data[i]
    <3>1. \A i \in 1 .. n : data[i] \in Slot
      BY <1>0, <2>1
    <3>2. n \in Int /\ 1 \in Int /\ 1 <= n /\ n - 1 + 1 = n
      BY <1>0, <2>1
    <3>3. /\ d \in Seq(Slot) /\ Len(d) = IF 1 <= n THEN n - 1 + 1 ELSE 0
          /\ \A i \in 1 .. n - 1 + 1 : d[i] = data[1 + i - 1]
      BY <2>2, <3>1, <3>2, SubSeqProperties
    <3> QED
      BY <3>2, <3>3
  <2>4. DOMAIN d = 1 .. n
    BY <2>3, SlotsAre
  <2>5. ASSUME NEW e \in Entries(d) PROVE e \in Entries(data)
    <3>1. PICK i \in 1 .. n : d[i] = e /\ e # NULL
      BY <2>4 DEF Entries
    <3>2. i \in 1 .. Len(data) /\ data[i] = e
      BY <1>0, <2>1, <2>3, <3>1
    <3> QED
      BY <1>0, <3>1, <3>2 DEF Entries
  <2>6. ASSUME NEW e \in Entries(data) PROVE e \in Entries(d)
    <3>1. PICK i \in 1 .. Len(data) : data[i] = e /\ e # NULL
      BY <1>0 DEF Entries
    <3>2. i \in 1 .. n /\ d[i] = e
      BY <1>0, <2>1, <2>3, <3>1
    <3> QED
      BY <2>4, <3>1, <3>2 DEF Entries
  <2>7. d \in Seq(Slot) /\ Entries(d) = Entries(data)
    BY <2>3, <2>5, <2>6
  <2> QED
    BY <2>7 DEF d
<1> QED
  BY <1>2, <1>3

LEMMA Removed ==
    ASSUME NEW data \in Seq(Slot), NEW places \in SUBSET (DOMAIN data)
    PROVE /\ TableRemItems(data, places) \in Seq(Slot)
          /\ Entries(TableRemItems(data, places))
                 = {data[i] : i \in DOMAIN data \ places} \ {NULL}
<1> DEFINE d == [i \in DOMAIN data |-> IF i \in places THEN NULL ELSE data[i]]
<1>0. /\ Len(data) \in Nat /\ DOMAIN data = 1 .. Len(data)
      /\ \A i \in 1 .. Len(data) : data[i] \in Slot
  BY SlotsAre
<1>1. d \in Seq(Slot)
  <2>1. d \in [1 .. Len(data) -> Slot]
    BY <1>0 DEF Slot
  <2> QED
    BY <1>0, <2>1, SeqDef
<1>2. Entries(d) = {data[i] : i \in DOMAIN data \ places} \ {NULL}
  BY DEF Entries
<1>3. TableRemItems(data, places) = TableCompact(d)
  BY DEF TableRemItems
<1> HIDE DEF d
<1> QED
  BY <1>1, <1>2, <1>3, Compacted
------------------------------------------------------------------------------
(* Whatever is done to a list is a step of the sequence.                   *)
Stepped(s, s2) ==
    \/ s2 = s
    \/ \E n \in Node \ Nodes(s), i \in 1 .. Len(s) + 1 : s2 = InsertAt(s, i, n)
    \/ \E i \in 1 .. Len(s) : s2 = RemoveAt(s, i)
    \/ s # << >> /\ \E i \in 1 .. Len(s) : s2 = InsertAt(Tail(s), i, Head(s))

LEMMA SteppedIs ==
    ASSUME NEW s, Distinct(s)
    PROVE /\ \A n \in Node \ Nodes(s), i \in 1 .. Len(s) + 1 : Stepped(s, With(s, i, n))
          /\ \A i \in 1 .. Len(s) : Stepped(s, Without(s, i))
          /\ \A i \in 3 .. Len(s) + 1 : Stepped(s, Moved(s, i))
<1>0. s \in Seq(Node) /\ Len(s) \in Nat
  BY NodesAre DEF Distinct
<1>1. ASSUME NEW n \in Node \ Nodes(s), NEW i \in 1 .. Len(s) + 1
      PROVE Stepped(s, With(s, i, n))
  <2>1. InsertAt(s, i, n) = With(s, i, n)
    BY <1>0, WithIs
  <2> QED
    BY <2>1 DEF Stepped
<1>2. ASSUME NEW i \in 1 .. Len(s) PROVE Stepped(s, Without(s, i))
  <2>1. RemoveAt(s, i) = Without(s, i)
    BY <1>0, WithoutIs
  <2> QED
    BY <2>1 DEF Stepped
<1>3. ASSUME NEW i \in 3 .. Len(s) + 1 PROVE Stepped(s, Moved(s, i))
  <2>1. InsertAt(Tail(s), i - 1, Head(s)) = Moved(s, i)
    BY <1>0, MovedIs
  <2>2. i - 1 \in 1 .. Len(s) /\ s # << >>
    BY <1>0, EmptySeq
  <2> QED
    BY <2>1, <2>2 DEF Stepped
<1> QED
  BY <1>1, <1>2, <1>3

(* The heap after an operation on a list.                                  *)
HeapStep(s, t) ==
    \E s2, t2 : /\ HeapIs(s2, t2)' /\ Others(s2, t2)' = Others(s, t)
                /\ Stepped(s, s2) /\ Stepped(t, t2)

LEMMA StepHeap ==
    ASSUME NEW s, NEW t, HeapIs(s, t), ListsNext
    PROVE HeapStep(s, t)
<1>0. /\ Distinct(s) /\ Distinct(t) /\ Len(s) \in Nat /\ Len(t) \in Nat
      /\ Nodes(s) \subseteq alloc /\ Nodes(t) \subseteq alloc
      /\ Chain(list, next) = s /\ Chain(head, next) = t
      /\ DOMAIN s = 1 .. Len(s) /\ DOMAIN t = 1 .. Len(t) /\ s[1] = s[1]
      /\ \A j \in 1 .. Len(s) : At(s, j) = s[j]
      /\ At(s, Len(s) + 1) = NULL
      /\ list = At(s, 1) /\ (list = NULL <=> Len(s) = 0)
  BY HeapFacts, ChainIs, NodesAre DEF HeapIs, At
<1>1. Stepped(s, s) /\ Stepped(t, t)
  BY DEF Stepped
<1>2. ASSUME NEW n \in Node, ListAddHead(n) PROVE HeapStep(s, t)
  <2>1. n \in Node \ Nodes(s) /\ 1 \in 1 .. Len(s) + 1
    BY <1>0, <1>2 DEF ListAddHead, Malloc
  <2>2. Stepped(s, With(s, 1, n))
    BY <1>0, <2>1, SteppedIs
  <2>3. HeapIs(With(s, 1, n), t)' /\ Others(With(s, 1, n), t)' = Others(s, t)
    BY <1>2, AddHeadKeeps
  <2> QED
    BY <1>1, <2>2, <2>3 DEF HeapStep
<1>3. ASSUME NEW n \in Node, ListAddTail(n) PROVE HeapStep(s, t)
  <2>1. n \in Node \ Nodes(s) /\ Len(s) + 1 \in 1 .. Len(s) + 1
    BY <1>0, <1>3 DEF ListAddTail, Malloc
  <2>2. Stepped(s, With(s, Len(s) + 1, n))
    BY <1>0, <2>1, SteppedIs
  <2>3. /\ HeapIs(With(s, Len(s) + 1, n), t)'
        /\ Others(With(s, Len(s) + 1, n), t)' = Others(s, t)
    BY <1>3, AddTailKeeps
  <2> QED
    BY <1>1, <2>2, <2>3 DEF HeapStep
<1>4. ASSUME NEW n \in Node, NEW dest \in On(list), ListInsertAt(dest, n) PROVE HeapStep(s, t)
  <2>1. PICK i \in 1 .. Len(s) : dest = s[i]
    BY <1>0 DEF On
  <2>2. n \in Node \ Nodes(s) /\ i \in 1 .. Len(s) + 1
    BY <1>0, <1>4 DEF ListInsertAt, Malloc
  <2>3. Stepped(s, With(s, i, n))
    BY <1>0, <2>2, SteppedIs
  <2>4. HeapIs(With(s, i, n), t)' /\ Others(With(s, i, n), t)' = Others(s, t)
    BY <1>4, <2>1, InsertAtKeeps
  <2> QED
    BY <1>1, <2>3, <2>4 DEF HeapStep
<1>5. ASSUME NEW n \in On(list), ListDelete(n) PROVE HeapStep(s, t)
  <2>1. PICK i \in 1 .. Len(s) : n = s[i]
    BY <1>0 DEF On
  <2>2. Stepped(s, Without(s, i))
    BY <1>0, SteppedIs
  <2>3. HeapIs(Without(s, i), t)' /\ Others(Without(s, i), t)' = Others(s, t)
    BY <1>5, <2>1, DeleteKeeps
  <2> QED
    BY <1>1, <2>2, <2>3 DEF HeapStep
<1>6. ASSUME NEW dest \in On(list) \cup {NULL}, ListMoveFirstTo(dest) PROVE HeapStep(s, t)
  <2>1. PICK i \in 2 .. Len(s) + 1 : dest = At(s, i)
    <3>1. CASE dest \in On(list)
      <4>1. PICK i \in 1 .. Len(s) : dest = s[i]
        BY <1>0, <3>1 DEF On
      <4>2. i # 1
        BY <1>0, <1>6, <4>1 DEF ListMoveFirstTo
      <4>3. i \in 2 .. Len(s) + 1 /\ dest = At(s, i)
        BY <1>0, <4>1, <4>2
      <4> QED
        BY <4>3
    <3>2. CASE dest = NULL
      <4>1. Len(s) + 1 \in 2 .. Len(s) + 1
        BY <1>0, <1>6 DEF ListMoveFirstTo
      <4> QED
        BY <1>0, <3>2, <4>1
    <3> QED
      BY <3>1, <3>2
  <2>2. /\ i \in 3 .. Len(s) + 1
        /\ HeapIs(Moved(s, i), t)' /\ Others(Moved(s, i), t)' = Others(s, t)
    BY <1>6, <2>1, MoveKeeps
  <2>3. Stepped(s, Moved(s, i))
    BY <1>0, <2>2, SteppedIs
  <2> QED
    BY <1>1, <2>2, <2>3 DEF HeapStep
<1>7. ASSUME NEW n \in Node, LlistAdd(n) PROVE HeapStep(s, t)
  <2>1. n \in Node \ Nodes(t) /\ 1 \in 1 .. Len(t) + 1
    BY <1>0, <1>7 DEF LlistAdd, Malloc
  <2>2. Stepped(t, With(t, 1, n))
    BY <1>0, <2>1, SteppedIs
  <2>3. HeapIs(s, With(t, 1, n))' /\ Others(s, With(t, 1, n))' = Others(s, t)
    BY <1>7, LlistAddKeeps
  <2> QED
    BY <1>1, <2>2, <2>3 DEF HeapStep
<1>8. ASSUME NEW n \in Node, LlistAddTail(n) PROVE HeapStep(s, t)
  <2>1. n \in Node \ Nodes(t) /\ Len(t) + 1 \in 1 .. Len(t) + 1
    BY <1>0, <1>8 DEF LlistAddTail, Malloc
  <2>2. Stepped(t, With(t, Len(t) + 1, n))
    BY <1>0, <2>1, SteppedIs
  <2>3. /\ HeapIs(s, With(t, Len(t) + 1, n))'
        /\ Others(s, With(t, Len(t) + 1, n))' = Others(s, t)
    BY <1>8, LlistAddTailKeeps
  <2> QED
    BY <1>1, <2>2, <2>3 DEF HeapStep
<1>9. ASSUME NEW n \in On(head), LlistDelete(n) PROVE HeapStep(s, t)
  <2>1. PICK i \in 1 .. Len(t) : n = t[i]
    BY <1>0 DEF On
  <2>2. Stepped(t, Without(t, i))
    BY <1>0, SteppedIs
  <2>3. HeapIs(s, Without(t, i))' /\ Others(s, Without(t, i))' = Others(s, t)
    BY <1>9, <2>1, LlistDeleteKeeps
  <2> QED
    BY <1>1, <2>2, <2>3 DEF HeapStep
<1> QED
  BY <1>2, <1>3, <1>4, <1>5, <1>6, <1>7, <1>8, <1>9 DEF ListsNext

(* What the ignore list does to the heap is nothing to the lists.          *)
LEMMA HeapStays ==
    ASSUME NEW s, NEW t, HeapIs(s, t), UNCHANGED <<next, prev, last, list, head, tail>>,
           Nodes(s) \cup Nodes(t) \subseteq alloc'
    PROVE HeapIs(s, t)'
  BY DEF HeapIs
------------------------------------------------------------------------------
(* The inductive invariant: the heap is the two lists, and what else is    *)
(* taken has the entries of the ignore list in it; each of them is for the *)
(* one host that was answered when it says; the timer is as late as the    *)
(* last reply while it keeps the next one back.                            *)
HeapInv ==
    \E s, t : HeapIs(s, t) /\ Entries(ignores) \subseteq Others(s, t)

TableInv ==
    /\ ignores \in Seq(Slot)
    /\ Links(hostname) /\ Links(ttl)
    /\ since \in [Host -> 0 .. Long]
    /\ \A n \in Entries(ignores) :
           /\ hostname[n] \in Host
           /\ since[hostname[n]] <= Ttl
           /\ ttl[n] = Ttl - since[hostname[n]]
    /\ \A m, n \in Entries(ignores) : hostname[m] = hostname[n] => m = n
    /\ \A h \in Host : since[h] <= Ttl => \E n \in Entries(ignores) : hostname[n] = h

TimerInv ==
    /\ sinceany \in 0 .. Long
    /\ replytimer \in 0 .. ReplyTime - 1
    /\ allowreply => sinceany >= ReplyTime
    /\ ~allowreply => sinceany = replytimer

IgnoreInv == HeapInv /\ TableInv /\ TimerInv

LEMMA TimeFacts ==
    /\ Ttl \in Nat /\ ReplyTime \in Nat \ {0} /\ Long \in Nat /\ Long = Ttl + ReplyTime
    /\ \A s \in 0 .. Long : Older(s) \in 0 .. Long /\ Older(s) >= s
    /\ \A s \in 0 .. Long : s < Long => Older(s) = s + 1
    /\ \A s \in 0 .. Long : s <= Ttl => Older(s) = s + 1
    /\ \A s \in 0 .. Long : Older(s) <= Ttl => s < Ttl /\ Older(s) = s + 1
  BY IgnoreAssumption DEF Long, Older

LEMMA EntriesAre ==
    ASSUME ignores \in Seq(Slot)
    PROVE /\ DOMAIN ignores = 1 .. Len(ignores)
          /\ \A i \in DOMAIN ignores : ignores[i] # NULL => ignores[i] \in Entries(ignores)
          /\ Entries(ignores) \subseteq Node
          /\ \A h : IsIgnore(h) <=> \E n \in Entries(ignores) : hostname[n] = h
<1>1. DOMAIN ignores = 1 .. Len(ignores) /\ \A i \in DOMAIN ignores : ignores[i] \in Slot
  BY SlotsAre
<1>2. \A i \in DOMAIN ignores : ignores[i] # NULL => ignores[i] \in Entries(ignores)
  BY DEF Entries
<1>3. Entries(ignores) \subseteq Node
  BY <1>1 DEF Entries, Slot
<1>4. \A h : IsIgnore(h) <=> \E n \in Entries(ignores) : hostname[n] = h
  BY DEF IsIgnore, Entries
<1> QED
  BY <1>1, <1>2, <1>3, <1>4

LEMMA InitIgnoreInv == AllInit => IgnoreInv
<1> SUFFICES ASSUME AllInit PROVE IgnoreInv
  OBVIOUS
<1> USE DEF AllInit, ListsInit, IgnoreInit
<1>1. Len(<< >>) = 0 /\ << >> \in Seq(Slot) /\ Entries(<< >>) = {} /\ Nodes(<< >>) = {}
      /\ << >> \in Seq(Node)
  BY EmptySeq DEF Entries, Nodes
<1>2. \A i : At(<< >>, i) = NULL
  BY <1>1 DEF At
<1>3. HeapIs(<< >>, << >>)
  <2>1. Threads(<< >>, NULL, next, prev)
    BY <1>1, <1>2 DEF Threads, Distinct
  <2>2. Links(next) /\ Links(prev) /\ Links(last)
    BY DEF Links
  <2> QED
    BY <1>1, <1>2, <2>1, <2>2 DEF HeapIs
<1>4. HeapInv
  BY <1>1, <1>3 DEF HeapInv
<1>5. TableInv
  <2>1. Links(hostname) /\ Links(ttl)
    BY DEF Links
  <2>2. since \in [Host -> 0 .. Long] /\ \A h \in Host : ~(since[h] <= Ttl)
    BY TimeFacts
  <2> QED
    BY <1>1, <2>1, <2>2 DEF TableInv
<1>6. TimerInv
  BY TimeFacts DEF TimerInv
<1> QED
  BY <1>4, <1>5, <1>6 DEF IgnoreInv

LEMMA UseKeeps == IgnoreInv /\ UseLists => IgnoreInv'
<1> SUFFICES ASSUME IgnoreInv, UseLists PROVE IgnoreInv'
  OBVIOUS
<1>1. PICK s, t : HeapIs(s, t) /\ Entries(ignores) \subseteq Others(s, t)
  BY DEF IgnoreInv, HeapInv
<1>2. PICK s2, t2 : HeapIs(s2, t2)' /\ Others(s2, t2)' = Others(s, t)
  BY <1>1, StepHeap DEF UseLists, HeapStep
<1>3. UNCHANGED <<ignores, hostname, ttl, allowreply, replytimer, since, sinceany>>
  BY DEF UseLists, ignoreVars, ghosts
<1>4. HeapInv'
  BY <1>1, <1>2, <1>3 DEF HeapInv
<1>5. TableInv' /\ TimerInv'
  BY <1>3 DEF IgnoreInv, TableInv, TimerInv
<1> QED
  BY <1>4, <1>5 DEF IgnoreInv

LEMMA ReplyKeeps ==
    ASSUME IgnoreInv, NEW h \in Host, NEW n \in Node, Reply(h, n)
    PROVE IgnoreInv' /\ since[h] > Ttl /\ sinceany >= ReplyTime
<1>1. PICK s, t : HeapIs(s, t) /\ Entries(ignores) \subseteq Others(s, t)
  BY DEF IgnoreInv, HeapInv
<1>2. /\ ignores \in Seq(Slot) /\ since \in [Host -> 0 .. Long] /\ Links(hostname) /\ Links(ttl)
      /\ Entries(ignores) \subseteq Node
      /\ ~ \E m \in Entries(ignores) : hostname[m] = h
  <2>1. ignores \in Seq(Slot) /\ ~IsIgnore(h)
    BY DEF IgnoreInv, TableInv, Reply
  <2> QED
    BY <2>1, EntriesAre DEF IgnoreInv, TableInv
<1>3. since[h] > Ttl
  <2>1. since[h] <= Ttl => \E m \in Entries(ignores) : hostname[m] = h
    BY DEF IgnoreInv, TableInv
  <2>2. since[h] \in 0 .. Long
    BY <1>2
  <2>3. ~(since[h] <= Ttl)
    BY ONLY <1>2, <2>1
  <2> QED
    BY <2>2, <2>3, TimeFacts
<1>4. sinceany >= ReplyTime
  BY DEF IgnoreInv, TimerInv, Reply
<1>5. ignores' \in Seq(Slot) /\ Entries(ignores') = Entries(ignores) \cup {n}
  BY <1>2, Added DEF Reply
<1>6. n \notin alloc /\ alloc' = alloc \cup {n} /\ UNCHANGED <<next, prev, last, list, head, tail>>
  BY DEF Reply, Malloc
<1>7. HeapIs(s, t)'
  BY <1>1, <1>6, HeapStays DEF HeapIs
<1>8. HeapInv'
  <2>1. Entries(ignores') \subseteq Others(s, t)'
    BY <1>1, <1>5, <1>6 DEF Others, HeapIs
  <2> QED
    BY <1>7, <2>1 DEF HeapInv
<1>9. /\ Links(hostname') /\ \A m \in Node : hostname'[m] = IF m = n THEN h ELSE hostname[m]
      /\ Links(ttl') /\ \A m \in Node : ttl'[m] = IF m = n THEN Ttl ELSE ttl[m]
  <2>1. hostname' = Set(hostname, n, h) /\ ttl' = Set(ttl, n, Ttl)
    BY ListsAssumption DEF Reply, Set
  <2> QED
    BY <1>2, <2>1, SetAt
<1>10. /\ since' \in [Host -> 0 .. Long]
       /\ \A g \in Host : since'[g] = IF g = h THEN 0 ELSE since[g]
  BY <1>2, TimeFacts DEF Reply
<1>11. n \notin Entries(ignores)
  BY <1>1, <1>6 DEF Others
<1>12. TableInv'
  <2>1. ASSUME NEW m \in Entries(ignores')
        PROVE /\ hostname'[m] \in Host
              /\ since'[hostname'[m]] <= Ttl
              /\ ttl'[m] = Ttl - since'[hostname'[m]]
    <3>1. CASE m = n
      BY <1>9, <1>10, <3>1, TimeFacts
    <3>2. CASE m # n
      <4>1. m \in Entries(ignores) /\ m \in Node
        BY <1>2, <1>5, <3>2
      <4>2. hostname'[m] = hostname[m] /\ hostname[m] # h /\ hostname[m] \in Host
        BY <1>2, <1>9, <3>2, <4>1 DEF IgnoreInv, TableInv
      <4>3. ttl'[m] = ttl[m] /\ since'[hostname'[m]] = since[hostname[m]]
        BY <1>9, <1>10, <3>2, <4>1, <4>2
      <4> QED
        BY <4>1, <4>2, <4>3 DEF IgnoreInv, TableInv
    <3> QED
      BY <3>1, <3>2
  <2>2. ASSUME NEW l \in Entries(ignores'), NEW m \in Entries(ignores'),
               hostname'[l] = hostname'[m]
        PROVE l = m
    <3>1. \A k \in Entries(ignores) : hostname'[k] = hostname[k] /\ hostname[k] # h
      BY <1>2, <1>9, <1>11
    <3>2. hostname'[n] = h
      BY <1>9
    <3> QED
      BY <1>5, <2>2, <3>1, <3>2 DEF IgnoreInv, TableInv
  <2>3. ASSUME NEW g \in Host, since'[g] <= Ttl
        PROVE \E m \in Entries(ignores') : hostname'[m] = g
    <3>1. CASE g = h
      BY <1>5, <1>9, <3>1
    <3>2. CASE g # h
      <4>1. PICK m \in Entries(ignores) : hostname[m] = g
        BY <1>10, <2>3, <3>2 DEF IgnoreInv, TableInv
      <4>2. hostname'[m] = g
        BY <1>2, <1>9, <1>11, <4>1
      <4> QED
        BY <1>5, <4>2
    <3> QED
      BY <3>1, <3>2
  <2> QED
    BY <1>5, <1>9, <1>10, <2>1, <2>2, <2>3 DEF TableInv
<1>13. TimerInv'
  BY TimeFacts DEF TimerInv, Reply
<1> QED
  BY <1>3, <1>4, <1>8, <1>12, <1>13 DEF IgnoreInv

LEMMA SecondKeeps == IgnoreInv /\ Second => IgnoreInv'
<1> SUFFICES ASSUME IgnoreInv, Second PROVE IgnoreInv'
  OBVIOUS
<1> DEFINE over == {i \in DOMAIN ignores \ Holes(ignores) : ttl[ignores[i]] = 0}
           gone == {ignores[i] : i \in over}
           kept == {ignores[i] : i \in DOMAIN ignores} \ (gone \cup {NULL})
           due == replytimer + 1 >= ReplyTime
           E == Entries(ignores)
<1>1. PICK s, t : HeapIs(s, t) /\ E \subseteq Others(s, t)
  BY DEF IgnoreInv, HeapInv
<1>2. /\ ignores \in Seq(Slot) /\ since \in [Host -> 0 .. Long] /\ E \subseteq Node
  BY EntriesAre DEF IgnoreInv, TableInv
<1>3. gone = {n \in E : ttl[n] = 0} /\ kept = E \ gone
  BY DEF Entries, Holes
<1>4. ignores' \in Seq(Slot) /\ Entries(ignores') = kept
  <2>1. over \in SUBSET (DOMAIN ignores) /\ ignores' = TableRemItems(ignores, over)
    BY DEF Second
  <2>2. {ignores[i] : i \in DOMAIN ignores \ over} \ {NULL} = kept
    BY DEF Holes
  <2> HIDE DEF over, kept
  <2>3. /\ TableRemItems(ignores, over) \in Seq(Slot)
        /\ Entries(TableRemItems(ignores, over))
               = {ignores[i] : i \in DOMAIN ignores \ over} \ {NULL}
    BY <1>2, <2>1, Removed
  <2> QED
    BY <2>1, <2>2, <2>3
<1>5. /\ alloc' = alloc \ gone
      /\ hostname' = [n \in Node |-> IF n \in gone THEN Junk ELSE hostname[n]]
      /\ ttl' = [n \in Node |->
             IF n \in gone THEN Junk ELSE IF n \in kept THEN ttl[n] - 1 ELSE ttl[n]]
      /\ since' = [h \in Host |-> Older(since[h])] /\ sinceany' = Older(sinceany)
      /\ allowreply' = (allowreply \/ due)
      /\ replytimer' = IF due THEN 0 ELSE replytimer + 1
      /\ UNCHANGED <<next, prev, last, list, head, tail>>
  BY DEF Second
<1> HIDE DEF over, gone, kept, due, E
<1>6. HeapInv'
  <2>1. (Nodes(s) \cup Nodes(t)) \cap gone = {}
    BY <1>1, <1>3 DEF Others
  <2>2. HeapIs(s, t)'
    BY <1>1, <1>5, <2>1, HeapStays DEF HeapIs
  <2>3. Entries(ignores') \subseteq Others(s, t)'
    BY <1>1, <1>3, <1>4, <1>5 DEF Others
  <2> QED
    BY <2>2, <2>3 DEF HeapInv
<1>7. TableInv'
  <2>1. /\ \A n \in E : /\ hostname[n] \in Host /\ since[hostname[n]] <= Ttl
                        /\ ttl[n] = Ttl - since[hostname[n]]
        /\ \A m, n \in E : hostname[m] = hostname[n] => m = n
        /\ \A h \in Host : since[h] <= Ttl => \E n \in E : hostname[n] = h
    BY DEF IgnoreInv, TableInv, E
  <2>2. Links(hostname') /\ Links(ttl')
    BY <1>5 DEF Links
  <2>3. since' \in [Host -> 0 .. Long] /\ \A h \in Host : since'[h] = Older(since[h])
    BY <1>2, <1>5, TimeFacts
  <2>4. \A n \in kept : /\ n \in E /\ n \notin gone /\ ttl[n] # 0 /\ hostname'[n] = hostname[n]
                        /\ ttl'[n] = ttl[n] - 1
    BY <1>2, <1>3, <1>5
  <2>5. ASSUME NEW n \in kept
        PROVE /\ hostname'[n] \in Host /\ since'[hostname'[n]] <= Ttl
              /\ ttl'[n] = Ttl - since'[hostname'[n]]
    <3>1. /\ hostname[n] \in Host /\ since[hostname[n]] <= Ttl /\ ttl[n] = Ttl - since[hostname[n]]
          /\ since[hostname[n]] \in 0 .. Long
      BY <1>2, <2>1, <2>4
    <3>2. since'[hostname[n]] = since[hostname[n]] + 1
      BY <2>3, <3>1, TimeFacts
    <3> QED
      BY <2>4, <3>1, <3>2, TimeFacts
  <2>6. ASSUME NEW h \in Host, since'[h] <= Ttl
        PROVE \E n \in kept : hostname'[n] = h
    <3>1. since[h] < Ttl /\ since[h] \in 0 .. Long
      BY <1>2, <2>3, <2>6, TimeFacts
    <3>2. PICK n \in E : hostname[n] = h
      BY <2>1, <3>1, TimeFacts
    <3>3. ttl[n] # 0
      BY <2>1, <3>1, <3>2, TimeFacts
    <3>4. n \in kept
      BY <1>3, <3>3
    <3> QED
      BY <2>4, <3>2, <3>4
  <2> QED
    BY <1>4, <2>1, <2>2, <2>3, <2>4, <2>5, <2>6 DEF TableInv
<1>8. TimerInv'
  <2>1. /\ sinceany \in 0 .. Long /\ replytimer \in 0 .. ReplyTime - 1
        /\ (allowreply => sinceany >= ReplyTime) /\ (~allowreply => sinceany = replytimer)
    BY DEF IgnoreInv, TimerInv
  <2>2. sinceany' \in 0 .. Long /\ sinceany' >= sinceany
    BY <1>5, <2>1, TimeFacts
  <2>3. replytimer' \in 0 .. ReplyTime - 1
    BY <1>5, <2>1, TimeFacts DEF due
  <2>4. ~allowreply => sinceany' = replytimer + 1
    BY <1>5, <2>1, TimeFacts
  <2>5. allowreply' => sinceany' >= ReplyTime
    <3>1. allowreply' => allowreply \/ due
      BY <1>5, Zenon
    <3>2. allowreply => sinceany' >= ReplyTime
      BY <2>1, <2>2, TimeFacts
    <3>3. ~allowreply /\ due => sinceany' >= ReplyTime
      BY <2>4 DEF due
    <3> QED
      BY <3>1, <3>2, <3>3
  <2>6. ~allowreply' => sinceany' = replytimer'
    BY <1>5, <2>4 DEF due
  <2> QED
    BY <2>2, <2>3, <2>5, <2>6 DEF TimerInv
<1> QED
  BY <1>6, <1>7, <1>8 DEF IgnoreInv

(* It is kept by whatever happens, and so it holds at all times.           *)
LEMMA StepIgnoreInv == IgnoreInv /\ [AllNext]_allVars => IgnoreInv'
<1> SUFFICES ASSUME IgnoreInv, [AllNext]_allVars PROVE IgnoreInv'
  OBVIOUS
<1>1. CASE UseLists
  BY <1>1, UseKeeps
<1>2. ASSUME NEW h \in Host, NEW n \in Node, Reply(h, n) PROVE IgnoreInv'
  BY <1>2, ReplyKeeps
<1>3. CASE Second
  BY <1>3, SecondKeeps
<1>4. ASSUME UNCHANGED <<listsVars, ignoreVars, ghosts>> PROVE IgnoreInv'
  BY <1>4 DEF IgnoreInv, HeapInv, TableInv, TimerInv, HeapIs, Others,
              listsVars, ignoreVars, ghosts
<1>5. CASE Attach
  BY <1>4, <1>5 DEF Attach
<1>6. CASE UNCHANGED allVars
  BY <1>4, <1>6 DEF allVars
<1> QED
  BY <1>1, <1>2, <1>3, <1>5, <1>6 DEF AllNext

LEMMA IgnoreInvHolds == AllSpec => []IgnoreInv
  BY InitIgnoreInv, StepIgnoreInv, PTL DEF AllSpec

(* No host is answered again while it is ignored, and nobody before the    *)
(* reply timer has run, for any number of hosts and any times.             *)
THEOREM RepliesSpacedHolds == AllSpec => RepliesSpaced
<1>1. IgnoreInv /\ [AllNext]_allVars =>
          [\A h \in Host : since'[h] < since[h] =>
               since[h] > Ttl /\ sinceany >= ReplyTime]_allVars
  <2> SUFFICES ASSUME IgnoreInv, AllNext, NEW h \in Host, since'[h] < since[h]
               PROVE since[h] > Ttl /\ sinceany >= ReplyTime
    OBVIOUS
  <2>1. since \in [Host -> 0 .. Long]
    BY DEF IgnoreInv, TableInv
  <2>2. CASE UseLists \/ Attach
    BY <2>1, <2>2 DEF UseLists, Attach, ghosts
  <2>3. CASE Second
    BY <2>1, <2>3, TimeFacts DEF Second
  <2>4. ASSUME NEW g \in Host, NEW n \in Node, Reply(g, n)
        PROVE since[h] > Ttl /\ sinceany >= ReplyTime
    <3>1. h = g
      BY <2>1, <2>4 DEF Reply
    <3> QED
      BY <2>4, <3>1, ReplyKeeps
  <2> QED
    BY <2>2, <2>3, <2>4 DEF AllNext
<1> QED
  BY <1>1, IgnoreInvHolds, PTL DEF AllSpec, RepliesSpaced
------------------------------------------------------------------------------
(* The nodes of a sequence, as SequencesExt has them.                      *)
LEMMA NodesAreSet ==
    ASSUME NEW s, Distinct(s)
    PROVE Nodes(s) = ToSet(s)
  BY NodesAre DEF Nodes, ToSet, Distinct

(* A step of the lists, or none, seen as a step of their sequences.        *)
LEMMA ListSteps == IgnoreInv /\ [AllNext]_allVars =>
                       [List!Next]_(Chain(list, next)) /\ [Llist!Next]_(Chain(head, next))
<1> SUFFICES ASSUME IgnoreInv, [AllNext]_allVars
             PROVE [List!Next]_(Chain(list, next)) /\ [Llist!Next]_(Chain(head, next))
  OBVIOUS
<1>1. PICK s, t : HeapIs(s, t)
  BY DEF IgnoreInv, HeapInv
<1>2. CASE UseLists
  <2>1. PICK s2, t2 : HeapIs(s2, t2)' /\ Stepped(s, s2) /\ Stepped(t, t2)
    BY <1>1, <1>2, StepHeap DEF UseLists, HeapStep
  <2>2. /\ Chain(list, next) = s /\ Chain(list, next)' = s2
        /\ Chain(head, next) = t /\ Chain(head, next)' = t2
    BY <1>1, <2>1, ChainIs DEF HeapIs
  <2>3. Nodes(s) = ToSet(s) /\ Nodes(t) = ToSet(t)
    BY <1>1, NodesAreSet DEF HeapIs, Threads
  <2>4. [List!Next]_(Chain(list, next))
    <3>1. /\ List!ToSet(s) = ToSet(s)
          /\ \A u, i, n : List!InsertAt(u, i, n) = InsertAt(u, i, n)
          /\ \A u, i : List!RemoveAt(u, i) = RemoveAt(u, i)
      BY DEF List!ToSet, ToSet, List!InsertAt, InsertAt, List!RemoveAt, RemoveAt
    <3> QED
      BY <2>1, <2>2, <2>3, <3>1
         DEF Stepped, List!Next, List!Insert, List!Delete, List!MoveFirst
  <2>5. [Llist!Next]_(Chain(head, next))
    <3>1. /\ Llist!ToSet(t) = ToSet(t)
          /\ \A u, i, n : Llist!InsertAt(u, i, n) = InsertAt(u, i, n)
          /\ \A u, i : Llist!RemoveAt(u, i) = RemoveAt(u, i)
      BY DEF Llist!ToSet, ToSet, Llist!InsertAt, InsertAt, Llist!RemoveAt, RemoveAt
    <3> QED
      BY <2>1, <2>2, <2>3, <3>1
         DEF Stepped, Llist!Next, Llist!Insert, Llist!Delete, Llist!MoveFirst
  <2> QED
    BY <2>4, <2>5
<1>3. ASSUME UNCHANGED <<next, list, head>>
      PROVE [List!Next]_(Chain(list, next)) /\ [Llist!Next]_(Chain(head, next))
  BY <1>3 DEF Chain
<1>4. ASSUME NEW h \in Host, NEW n \in Node, Reply(h, n) PROVE UNCHANGED <<next, list, head>>
  BY <1>4 DEF Reply
<1>5. CASE Second
  BY <1>3, <1>5 DEF Second
<1>6. CASE Attach \/ UNCHANGED allVars
  BY <1>3, <1>6 DEF Attach, allVars, listsVars
<1> QED
  BY <1>2, <1>3, <1>4, <1>5, <1>6 DEF AllNext

(* The pointers of list.c and of llist.c implement sequences, for any      *)
(* number of nodes, while they and the ignore list share one heap.         *)
THEOREM ImplementsSequencesHolds == AllSpec => ImplementsSequences
<1>1. AllInit => List!Init /\ Llist!Init
  <2> SUFFICES ASSUME AllInit PROVE List!Init /\ Llist!Init
    OBVIOUS
  <2>1. Threads(<< >>, NULL, next, prev)
    <3>1. Len(<< >>) = 0 /\ << >> \in Seq(Node) /\ At(<< >>, 1) = NULL
      BY EmptySeq DEF At
    <3> QED
      BY <3>1 DEF Threads, Distinct
  <2>2. Chain(NULL, next) = << >>
    BY <2>1, ChainIs
  <2> QED
    BY <2>2 DEF AllInit, ListsInit, List!Init, Llist!Init
<1> QED
  BY <1>1, ListSteps, IgnoreInvHolds, PTL
     DEF AllSpec, ImplementsSequences, List!Spec, Llist!Spec

(* How long a host is still ignored is told by when it was answered last.  *)
LeftAre == \A h \in Host : Left(h) = IF since[h] <= Ttl THEN Ttl + 1 - since[h] ELSE 0

LEMMA LeftIs == IgnoreInv => LeftAre
<1> SUFFICES ASSUME IgnoreInv, NEW h \in Host
             PROVE Left(h) = IF since[h] <= Ttl THEN Ttl + 1 - since[h] ELSE 0
  BY DEF LeftAre
<1> DEFINE at == {i \in DOMAIN ignores : ignores[i] # NULL /\ hostname[ignores[i]] = h}
<1>1. /\ since[h] \in 0 .. Long /\ ignores \in Seq(Slot)
      /\ \A n \in Entries(ignores) : since[hostname[n]] <= Ttl /\ ttl[n] = Ttl - since[hostname[n]]
      /\ since[h] <= Ttl => \E n \in Entries(ignores) : hostname[n] = h
  BY DEF IgnoreInv, TableInv
<1>2. \A i \in at : ignores[i] \in Entries(ignores) /\ hostname[ignores[i]] = h
  BY DEF Entries
<1>3. since[h] <= Ttl <=> at # {}
  <2>1. since[h] <= Ttl => at # {}
    BY <1>1 DEF Entries
  <2>2. at # {} => since[h] <= Ttl
    BY <1>1, <1>2
  <2> QED
    BY <2>1, <2>2
<1>4. at # {} => ttl[ignores[CHOOSE i \in at : TRUE]] = Ttl - since[h]
  <2> DEFINE i == CHOOSE i \in at : TRUE
  <2>1. at # {} => i \in at
    OBVIOUS
  <2> HIDE DEF at, i
  <2>2. at # {} => ttl[ignores[i]] = Ttl - since[h]
    BY <1>1, <1>2, <2>1
  <2> QED
    BY <2>2 DEF i
<1>5. Left(h) = IF at = {} THEN 0 ELSE ttl[ignores[CHOOSE i \in at : TRUE]] + 1
  BY DEF Left
<1> HIDE DEF at
<1>6. CASE since[h] <= Ttl
  <2>1. Left(h) = Ttl - since[h] + 1
    BY <1>3, <1>4, <1>5, <1>6
  <2> QED
    BY <1>1, <1>6, <2>1, TimeFacts
<1>7. CASE ~(since[h] <= Ttl)
  BY <1>3, <1>5, <1>7
<1> QED
  BY <1>6, <1>7

(* The abstract variable of Hosts.                                         *)
left == [h \in Host |-> Left(h)]

LEMMA HostSteps ==
    IgnoreInv /\ LeftAre /\ LeftAre' /\ [AllNext]_allVars => [Hosts!Next]_left
<1> SUFFICES ASSUME IgnoreInv, LeftAre, LeftAre', [AllNext]_allVars PROVE [Hosts!Next]_left
  OBVIOUS
<1>1. /\ \A h \in Host : left[h] = IF since[h] <= Ttl THEN Ttl + 1 - since[h] ELSE 0
      /\ left = [h \in Host |-> IF since[h] <= Ttl THEN Ttl + 1 - since[h] ELSE 0]
      /\ left' = [h \in Host |-> IF since'[h] <= Ttl THEN Ttl + 1 - since'[h] ELSE 0]
  BY DEF LeftAre, left
<1>2. since \in [Host -> 0 .. Long]
  BY DEF IgnoreInv, TableInv
<1>3. ASSUME UNCHANGED since PROVE [Hosts!Next]_left
  BY <1>1, <1>3
<1>4. ASSUME NEW h \in Host, NEW n \in Node, Reply(h, n) PROVE Hosts!Next
  <2>1. since[h] > Ttl
    BY <1>4, ReplyKeeps
  <2>2. left[h] = 0
    BY <1>1, <1>2, <2>1, TimeFacts
  <2>3. left' = [left EXCEPT ![h] = Ttl + 1]
    BY <1>1, <1>2, <1>4, TimeFacts DEF Reply
  <2> HIDE DEF left
  <2> QED
    BY <2>2, <2>3 DEF Hosts!Next, Hosts!Add, left
<1>5. CASE Second
  <2>1. left' = [h \in Host |-> IF left[h] = 0 THEN 0 ELSE left[h] - 1]
    <3> SUFFICES ASSUME NEW h \in Host
                 PROVE (IF since'[h] <= Ttl THEN Ttl + 1 - since'[h] ELSE 0)
                           = IF left[h] = 0 THEN 0 ELSE left[h] - 1
      BY <1>1
    <3>1. since[h] \in 0 .. Long /\ since'[h] = Older(since[h])
      BY <1>2, <1>5 DEF Second
    <3> QED
      BY <1>1, <3>1, TimeFacts
  <2> QED
    BY <2>1 DEF Hosts!Next, Hosts!Second, left
<1> QED
  BY <1>3, <1>4, <1>5 DEF AllNext, UseLists, Attach, allVars, ghosts

(* The array of table.c with its holes implements the set of hosts that    *)
(* are ignored, each for its time, for any number of hosts.                *)
THEOREM ImplementsIgnoredHolds == AllSpec => ImplementsIgnored
<1>1. AllInit => Hosts!Init
  <2> SUFFICES ASSUME AllInit PROVE Hosts!Init
    OBVIOUS
  <2>1. LeftAre
    BY InitIgnoreInv, LeftIs
  <2>2. \A h \in Host : ~(since[h] <= Ttl)
    BY TimeFacts DEF AllInit, IgnoreInit
  <2> QED
    BY <2>1, <2>2 DEF LeftAre, Hosts!Init
<1>2. AllSpec => []LeftAre
  BY LeftIs, IgnoreInvHolds, PTL
<1>3. IgnoreInv /\ LeftAre /\ LeftAre' /\ [AllNext]_allVars
          => [Hosts!Next]_([h \in Host |-> Left(h)])
  BY HostSteps DEF left
<1> QED
  BY <1>1, <1>2, <1>3, IgnoreInvHolds, PTL DEF AllSpec, ImplementsIgnored, Hosts!Spec
==============================================================================
