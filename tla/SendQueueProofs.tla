--------------------------- MODULE SendQueueProofs ---------------------------
(***************************************************************************)
(* Proofs about SendQueue, for every flood timer, every set of burst sizes *)
(* and every bound: the type invariant, the two safety invariants, and     *)
(* that the queue keeps the promise of Outbox.                             *)
(***************************************************************************)
EXTENDS SendQueue, FiniteSetTheorems, SequenceTheorems, TLAPS

(* A budget that waited a whole interval was not overdrawn at its start:   *)
(* an exhausted budget is refilled as soon as the interval is over.        *)
RefillIsDue == FloodTimer > 0 /\ age >= FloodTimer => msgtimer >= 0

IInv ==
    /\ TypeOK
    /\ NoBypass
    /\ RefillIsDue
------------------------------------------------------------------------------
(* Integer division rounds down.                                           *)
LEMMA DivBound ==
    ASSUME NEW a \in Nat, NEW b \in Nat \ {0}
    PROVE  /\ a \div b \in Nat
           /\ b * (a \div b) <= a
           /\ a >= b => a \div b >= 1
BY SMT

(* A sequence is what a cut makes of it.                                   *)
LEMMA CutSeq ==
    ASSUME NEW S, NEW s \in Seq(S), NEW k \in 0 .. Len(s)
    PROVE  /\ SubSeq(s, 1, k) \in Seq(S)
           /\ Len(SubSeq(s, 1, k)) = k
           /\ SubSeq(s, k + 1, Len(s)) \in Seq(S)
           /\ Len(SubSeq(s, k + 1, Len(s))) = Len(s) - k
           /\ SubSeq(s, 1, k) \o SubSeq(s, k + 1, Len(s)) = s
<1>1. /\ Len(s) \in Nat
      /\ k \in Nat
      /\ \A i \in 1 .. Len(s) : s[i] \in S
  BY LenProperties
<1>2. /\ SubSeq(s, 1, k) \in Seq(S)
      /\ Len(SubSeq(s, 1, k)) = k
  BY <1>1, SubSeqProperties
<1>3. /\ SubSeq(s, k + 1, Len(s)) \in Seq(S)
      /\ Len(SubSeq(s, k + 1, Len(s))) = Len(s) - k
  BY <1>1, SubSeqProperties
<1>4. SubSeq(s, 1, k) \o SubSeq(s, k + 1, Len(s)) = SubSeq(s, 1, Len(s))
  <2>1. /\ 1 \in 1 .. Len(s) + 1
        /\ k \in 1 - 1 .. Len(s)
        /\ Len(s) \in k .. Len(s)
    BY <1>1
  <2> QED
    BY <2>1, ConcatAdjacentSubSeq
<1>5. SubSeq(s, 1, Len(s)) = s
  BY SubSeqFull
<1> QED
  BY <1>2, <1>3, <1>4, <1>5

(* The MODE lines among the first n: how many, and what one line adds.     *)
Modes(n) == {i \in 1 .. n : msg_queue[i] = "MODE"}

LEMMA ModesFinite ==
    ASSUME NEW n \in Nat
    PROVE  IsFiniteSet(Modes(n)) /\ Cardinality(Modes(n)) \in Nat
<1>1. IsFiniteSet(1 .. n)
  BY FS_Interval
<1>2. Modes(n) \in SUBSET (1 .. n)
  BY DEF Modes
<1>3. IsFiniteSet(Modes(n))
  BY <1>1, <1>2, FS_Subset
<1> QED
  BY <1>3, FS_CardinalityType

LEMMA ModesStep ==
    ASSUME NEW n \in Nat
    PROVE  Cardinality(Modes(n + 1)) - Cardinality(Modes(n)) \in {0, 1}
<1>1. /\ IsFiniteSet(Modes(n))
      /\ Cardinality(Modes(n)) \in Nat
  BY ModesFinite
<1>2. CASE msg_queue[n + 1] = "MODE"
  <2>1. Modes(n + 1) = Modes(n) \cup {n + 1} /\ n + 1 \notin Modes(n)
    BY <1>2 DEF Modes
  <2>2. Cardinality(Modes(n + 1)) = Cardinality(Modes(n)) + 1
    BY <2>1, <1>1, FS_AddElement
  <2> QED
    BY <2>2, <1>1
<1>3. CASE msg_queue[n + 1] # "MODE"
  <2>1. Modes(n + 1) = Modes(n)
    BY <1>3 DEF Modes
  <2> QED
    BY <2>1, <1>1
<1> QED
  BY <1>2, <1>3

(* The lesser of two numbers is at most the first.                         *)
LEMMA LesserBound ==
    ASSUME NEW x \in Int, NEW y \in Int
    PROVE  Lesser(x, y) <= x
BY DEF Lesser

(* Sending one more line takes one or two lines off the budget.            *)
LEMMA BudgetStep ==
    ASSUME NEW t \in Int, NEW k \in Nat
    PROVE  /\ Budget(t, k) \in Int
           /\ Budget(t, k + 1) \in {Budget(t, k) - 1, Budget(t, k) - 2}
<1>1. Cardinality(Modes(k)) \in Nat /\ Cardinality(Modes(k + 1)) \in Nat
  BY ModesFinite
<1>2. Cardinality(Modes(k + 1)) - Cardinality(Modes(k)) \in {0, 1}
  BY ModesStep
<1>3. /\ Budget(t, k) = t - k - Cardinality(Modes(k))
      /\ Budget(t, k + 1) = t - (k + 1) - Cardinality(Modes(k + 1))
  BY DEF Budget, Modes
<1> QED
  BY <1>1, <1>2, <1>3

(* Before the first line the budget is whole.                              *)
LEMMA BudgetStart ==
    ASSUME NEW t \in Int
    PROVE  Budget(t, 0) = t
<1>1. {i \in 1 .. 0 : msg_queue[i] = "MODE"} = {}
  OBVIOUS
<1> QED
  BY <1>1, FS_EmptySet DEF Budget

(* A line costs at least one.                                              *)
LEMMA BudgetBound ==
    ASSUME NEW t \in Int, NEW k \in Nat
    PROVE  Budget(t, k) <= t - k
<1>1. Budget(t, k) = t - k - Cardinality(Modes(k))
  BY DEF Budget, Modes
<1> QED
  BY <1>1, ModesFinite

(* What irc_process_queue() does from budget t: it sends a first part of   *)
(* the queue, pays at least one for each line, overdraws by one at most,   *)
(* and leaves lines behind only with the budget spent.                     *)
LEMMA ProcessQueueFacts ==
    ASSUME TypeOK, NEW t \in -1 .. MaxBurst, ProcessQueue(t)
    PROVE  /\ msgtimer' \in -1 .. t
           /\ msg_queue' \in Seq(Lines)
           /\ wire' \in Seq(Lines)
           /\ wire' \o msg_queue' = msg_queue
           /\ msgtimer' <= t - Len(wire')
           /\ msg_queue' # << >> => msgtimer' <= 0
<1>1. PICK k \in 0 .. Len(msg_queue) :
         /\ \A j \in 0 .. k - 1 : Budget(t, j) > 0
         /\ k = Len(msg_queue) \/ Budget(t, k) <= 0
         /\ msgtimer' = Budget(t, k)
         /\ wire' = SubSeq(msg_queue, 1, k)
         /\ msg_queue' = SubSeq(msg_queue, k + 1, Len(msg_queue))
  BY DEF ProcessQueue
<1>2. /\ msg_queue \in Seq(Lines)
      /\ Len(msg_queue) \in Nat
      /\ k \in Nat
      /\ t \in Int
      /\ MaxBurst \in Nat
  BY FloodAssumption DEF TypeOK
<1>3. Budget(t, k) \in Int /\ Budget(t, k) <= t - k
  BY <1>2, BudgetStep, BudgetBound
<1>4. Budget(t, k) >= -1
  <2>1. CASE k = 0
    BY <2>1, BudgetStart
  <2>2. CASE k > 0
    <3>1. k - 1 \in Nat /\ k - 1 \in 0 .. k - 1 /\ (k - 1) + 1 = k
      BY <2>2, <1>2
    <3>2. Budget(t, k - 1) > 0
      BY <3>1, <1>1
    <3>3. /\ Budget(t, k - 1) \in Int
          /\ Budget(t, k) \in {Budget(t, k - 1) - 1, Budget(t, k - 1) - 2}
      BY <3>1, <1>2, BudgetStep
    <3> QED
      BY <3>2, <3>3
  <2> QED
    BY <2>1, <2>2, <1>2
<1>5. /\ wire' \in Seq(Lines)
      /\ Len(wire') = k
      /\ msg_queue' \in Seq(Lines)
      /\ Len(msg_queue') = Len(msg_queue) - k
      /\ wire' \o msg_queue' = msg_queue
  BY <1>1, <1>2, CutSeq
<1>6. msgtimer' \in -1 .. t /\ msgtimer' <= t - Len(wire')
  BY <1>1, <1>2, <1>3, <1>4, <1>5
<1>7. msg_queue' # << >> => msgtimer' <= 0
  <2>1. k = Len(msg_queue) => msg_queue' = << >>
    BY <1>1, <1>2, SubSeqEmpty
  <2> QED
    BY <2>1, <1>1
<1> QED
  BY <1>5, <1>6, <1>7

(* What irc_write() does for lines written one after the other: they join  *)
(* what waits, a first part of the whole leaves at one per line, and what  *)
(* stays behind finds the direct path closed.                              *)
LEMMA WriteTailFacts ==
    ASSUME TypeOK, NoBypass, NEW lines \in Seq(Lines), WriteTail(lines)
    PROVE  /\ msgtimer' \in -1 .. MaxBurst
           /\ msg_queue' \in Seq(Lines)
           /\ wire' \in Seq(Lines)
           /\ wire' \o msg_queue' = msg_queue \o lines
           /\ msgtimer' = msgtimer - Len(wire')
           /\ msg_queue' # << >> => msgtimer' <= 1
           /\ msgtimer >= 0 => msgtimer' >= 0
<1> DEFINE n == SentAtOnce(lines)
<1>1. /\ msgtimer' = msgtimer - n
      /\ wire' = SubSeq(lines, 1, n)
      /\ msg_queue' = msg_queue \o SubSeq(lines, n + 1, Len(lines))
  BY DEF WriteTail
<1>2. /\ msgtimer \in -1 .. MaxBurst
      /\ msg_queue \in Seq(Lines)
      /\ MaxBurst \in Nat
      /\ Len(lines) \in Nat
  BY FloodAssumption, LenProperties DEF TypeOK
<1>3. /\ n \in 0 .. Len(lines)
      /\ msgtimer > 1 => n <= msgtimer - 1 /\ (n = msgtimer - 1 \/ n = Len(lines))
      /\ msgtimer <= 1 => n = 0
  BY <1>2 DEF SentAtOnce, Lesser
<1> HIDE DEF n
<1>4. /\ SubSeq(lines, 1, n) \in Seq(Lines)
      /\ Len(SubSeq(lines, 1, n)) = n
      /\ SubSeq(lines, n + 1, Len(lines)) \in Seq(Lines)
      /\ Len(SubSeq(lines, n + 1, Len(lines))) = Len(lines) - n
      /\ SubSeq(lines, 1, n) \o SubSeq(lines, n + 1, Len(lines)) = lines
  BY <1>3, CutSeq
<1>5. /\ msg_queue' \in Seq(Lines)
      /\ wire' \in Seq(Lines)
      /\ Len(wire') = n
  BY <1>1, <1>2, <1>4, ConcatProperties
<1>6. /\ msgtimer' \in -1 .. MaxBurst
      /\ msgtimer' = msgtimer - Len(wire')
      /\ msgtimer >= 0 => msgtimer' >= 0
  BY <1>1, <1>2, <1>3, <1>5
<1>7. CASE msgtimer > 1
  <2>1. msg_queue = << >>
    BY <1>2, <1>7 DEF NoBypass
  <2>2. msg_queue' = SubSeq(lines, n + 1, Len(lines))
    BY <2>1, <1>1, <1>4, ConcatEmptySeq
  <2>3. wire' \o msg_queue' = lines
    BY <2>2, <1>1, <1>4
  <2>4. msg_queue \o lines = lines
    BY <2>1, ConcatEmptySeq
  <2>5. msg_queue' # << >> => msgtimer' <= 1
    <3>1. n = Len(lines) => msg_queue' = << >>
      BY <2>2, <1>2, SubSeqEmpty
    <3> QED
      BY <3>1, <1>1, <1>2, <1>3, <1>7
  <2> QED
    BY <2>3, <2>4, <2>5, <1>5, <1>6
<1>8. CASE msgtimer <= 1
  <2>1. n = 0
    BY <1>3, <1>8
  <2>2. SubSeq(lines, 1, n) = << >>
    BY <2>1, SubSeqEmpty
  <2>3. SubSeq(lines, n + 1, Len(lines)) = lines
    BY <2>1, SubSeqFull
  <2>4. wire' \o msg_queue' = msg_queue \o lines
    BY <2>2, <2>3, <1>1, <1>5, ConcatEmptySeq
  <2>5. msgtimer' <= 1
    BY <1>1, <1>2, <1>8, <2>1
  <2> QED
    BY <2>4, <2>5, <1>5, <1>6
<1>9. msgtimer > 1 \/ msgtimer <= 1
  BY <1>2
<1> QED
  BY <1>7, <1>8, <1>9

(* The same for irc_write_head(): the line goes before what waits.         *)
LEMMA WriteHeadFacts ==
    ASSUME TypeOK, NoBypass, NEW m \in Lines, WriteHead(m)
    PROVE  /\ msgtimer' \in -1 .. MaxBurst
           /\ msg_queue' \in Seq(Lines)
           /\ wire' \in Seq(Lines)
           /\ wire' \o msg_queue' = <<m>> \o msg_queue
           /\ msgtimer' = msgtimer - Len(wire')
           /\ msg_queue' # << >> => msgtimer' <= 1
           /\ msgtimer >= 0 => msgtimer' >= 0
<1>1. /\ msgtimer \in -1 .. MaxBurst
      /\ msg_queue \in Seq(Lines)
      /\ MaxBurst \in Nat
      /\ <<m>> \in Seq(Lines)
      /\ Len(<<m>>) = 1
  BY FloodAssumption DEF TypeOK
<1>2. CASE msgtimer > 1
  <2>1. msg_queue = << >>
    BY <1>1, <1>2 DEF NoBypass
  <2>2. msgtimer' = msgtimer - 1 /\ wire' = <<m>> /\ msg_queue' = msg_queue
    BY <1>2 DEF WriteHead
  <2> QED
    BY <1>1, <1>2, <2>1, <2>2
<1>3. CASE msgtimer <= 1
  <2>1. msg_queue' = <<m>> \o msg_queue /\ wire' = << >> /\ msgtimer' = msgtimer
    BY <1>1, <1>3 DEF WriteHead
  <2>2. msg_queue' \in Seq(Lines)
    BY <2>1, <1>1, ConcatProperties
  <2>3. wire' \o msg_queue' = <<m>> \o msg_queue
    BY <2>1, <2>2, ConcatEmptySeq
  <2> QED
    BY <1>1, <1>3, <2>1, <2>2, <2>3
<1>4. msgtimer > 1 \/ msgtimer <= 1
  BY <1>1
<1> QED
  BY <1>2, <1>3, <1>4

(* The lines written on each path are lines.                               *)
LEMMA LinesWritten ==
    /\ \A lines \in Registrations : lines \in Seq(Lines)
    /\ \A m \in Session \cup Unchecked : <<m>> \in Seq(Lines)
    /\ Urgent \subseteq Lines
    /\ << >> \in Seq(Lines)
    /\ << >> \in Seq(Lines \cup {"QUIT"})
    /\ <<"QUIT">> \in Seq(Lines \cup {"QUIT"})
    /\ \A lines \in Seq(Lines) : lines \in Seq(Lines \cup {"QUIT"})
BY DEF Registrations, Session, Unchecked, Urgent, Lines

(* The budget of a refill is one the program can have.                     *)
LEMMA RefilledType ==
    ASSUME TypeOK, NEW a \in Nat
    PROVE  Refilled(a) \in -1 .. MaxBurst
<1>1. /\ msgtimer \in -1 .. MaxBurst
      /\ burstsize \in 1 .. MaxBurst
      /\ FloodTimer \in Nat
      /\ MaxBurst \in Nat
  BY FloodAssumption DEF TypeOK
<1>2. CASE FloodTimer = 0
  BY <1>1, <1>2 DEF Refilled
<1>3. CASE FloodTimer # 0
  <2>1. a \div FloodTimer \in Nat
    BY <1>1, <1>3, DivBound
  <2> QED
    BY <2>1, <1>1, <1>3 DEF Refilled, Lesser
<1> QED
  BY <1>2, <1>3

(* The age that check_timers() sees is a number of seconds.                *)
LEMMA AgeType ==
    ASSUME TypeOK, NEW d \in 1 .. MaxDelay
    PROVE  /\ AgeLimit \in Nat
           /\ age \in 0 .. AgeLimit
           /\ Lesser(age + d, AgeLimit) \in 0 .. AgeLimit
<1>1. AgeLimit \in Nat
  BY FloodAssumption DEF AgeLimit
<1> QED
  BY <1>1, FloodAssumption DEF TypeOK, Lesser

LEMMA InitInv == Init => IInv
<1> SUFFICES ASSUME Init PROVE IInv
  OBVIOUS
<1>1. AgeLimit \in Nat
  BY FloodAssumption DEF AgeLimit
<1>2. TypeOK
  <2>1. msgtimer \in -1 .. MaxBurst /\ age \in 0 .. AgeLimit
    BY <1>1, FloodAssumption DEF Init
  <2>2. msg_queue \in Seq(Lines) /\ wire \in Seq(Lines \cup {"QUIT"})
    BY LinesWritten DEF Init
  <2>3. burstsize \in BurstSizes /\ connected \in BOOLEAN
    BY DEF Init
  <2> QED
    BY <2>1, <2>2, <2>3 DEF TypeOK
<1> QED
  BY <1>2 DEF Init, IInv, NoBypass, RefillIsDue

(* Every step keeps the inductive invariant.                               *)
LEMMA StepInv == IInv /\ [Next]_vars => IInv'
<1> SUFFICES ASSUME IInv, [Next]_vars PROVE IInv'
  OBVIOUS
<1> USE DEF IInv
<1>0. /\ MaxBurst \in Nat
      /\ FloodTimer \in Nat
      /\ BurstSizes \subseteq 1 .. MaxBurst
      /\ msgtimer \in -1 .. MaxBurst
      /\ msg_queue \in Seq(Lines)
      /\ burstsize \in 1 .. MaxBurst
  BY FloodAssumption DEF TypeOK
<1>1. ASSUME NEW lines \in Seq(Lines), WriteTail(lines),
             connected' \in BOOLEAN, UNCHANGED <<age, burstsize>>
      PROVE  IInv'
  <2>1. /\ msgtimer' \in -1 .. MaxBurst
        /\ msg_queue' \in Seq(Lines)
        /\ wire' \in Seq(Lines)
        /\ msg_queue' # << >> => msgtimer' <= 1
        /\ msgtimer >= 0 => msgtimer' >= 0
    BY <1>1, WriteTailFacts
  <2>2. TypeOK'
    BY <2>1, <1>1, LinesWritten DEF TypeOK
  <2>3. RefillIsDue'
    BY <2>1, <1>1 DEF RefillIsDue
  <2> QED
    BY <2>1, <2>2, <2>3 DEF NoBypass
<1>2. CASE Register
  BY <1>1, <1>2, LinesWritten DEF Register
<1>3. CASE Write
  BY <1>1, <1>3, LinesWritten DEF Write, TypeOK
<1>4. CASE WriteUnchecked
  BY <1>1, <1>4, LinesWritten DEF WriteUnchecked, TypeOK
<1>5. CASE Push
  <2>1. PICK m \in Lines : WriteHead(m)
    BY <1>5, LinesWritten DEF Push
  <2>2. /\ msgtimer' \in -1 .. MaxBurst
        /\ msg_queue' \in Seq(Lines)
        /\ wire' \in Seq(Lines)
        /\ msg_queue' # << >> => msgtimer' <= 1
        /\ msgtimer >= 0 => msgtimer' >= 0
    BY <2>1, WriteHeadFacts
  <2>3. TypeOK'
    BY <2>2, <1>5, LinesWritten DEF TypeOK, Push
  <2>4. RefillIsDue'
    BY <2>2, <1>5 DEF RefillIsDue, Push
  <2> QED
    BY <2>2, <2>3, <2>4 DEF NoBypass
<1>6. CASE Tick
  <2>1. PICK d \in 1 .. MaxDelay : CheckTimers(d)
    BY <1>6 DEF Tick
  <2> DEFINE a == Lesser(age + d, AgeLimit)
  <2>2. AgeLimit \in Nat /\ a \in 0 .. AgeLimit
    BY AgeType
  <2>3. CASE a >= FloodTimer /\ msgtimer < burstsize
    <3>1. age' = 0 /\ ProcessQueue(Refilled(a)) /\ UNCHANGED <<burstsize, connected>>
      BY <2>1, <2>3 DEF CheckTimers
    <3>2. Refilled(a) \in -1 .. MaxBurst
      BY <2>2, RefilledType
    <3>3. /\ msgtimer' \in -1 .. Refilled(a)
          /\ msg_queue' \in Seq(Lines)
          /\ wire' \in Seq(Lines)
          /\ msg_queue' # << >> => msgtimer' <= 0
      BY <3>1, <3>2, ProcessQueueFacts
    <3>4. msgtimer' \in -1 .. MaxBurst
      BY <3>2, <3>3, <1>0
    <3>5. TypeOK'
      BY <3>1, <3>3, <3>4, <2>2, LinesWritten DEF TypeOK
    <3>6. RefillIsDue'
      BY <3>1, <1>0 DEF RefillIsDue
    <3>7. NoBypass'
      BY <3>3, <3>4 DEF NoBypass
    <3> QED
      BY <3>5, <3>6, <3>7
  <2>4. CASE ~(a >= FloodTimer /\ msgtimer < burstsize)
    <3>1. /\ age' = a
          /\ wire' = << >>
          /\ UNCHANGED <<msgtimer, msg_queue, burstsize, connected>>
      BY <2>1, <2>4 DEF CheckTimers
    <3>2. TypeOK'
      BY <3>1, <2>2, LinesWritten DEF TypeOK
    <3>3. RefillIsDue'
      BY <3>1, <2>2, <2>4, <1>0 DEF RefillIsDue
    <3> QED
      BY <3>1, <3>2, <3>3 DEF NoBypass
  <2> QED
    BY <2>3, <2>4
<1>7. CASE ServerDrop
  <2>1. wire' \in Seq(Lines \cup {"QUIT"}) /\ msg_queue' \in Seq(Lines)
    BY <1>7, LinesWritten DEF ServerDrop
  <2> QED
    BY <1>7, <2>1 DEF ServerDrop, TypeOK, NoBypass, RefillIsDue
<1>8. CASE Rehash
  BY <1>8, LinesWritten DEF Rehash, TypeOK, NoBypass, RefillIsDue
<1>9. CASE UNCHANGED vars
  BY <1>9 DEF vars, TypeOK, NoBypass, RefillIsDue
<1> QED
  BY <1>2, <1>3, <1>4, <1>5, <1>6, <1>7, <1>8, <1>9 DEF Next

(* Every reachable state satisfies the inductive invariant.                *)
LEMMA Reachable == Spec => []IInv
<1> QED
  BY InitInv, StepInv, PTL DEF Spec

(* Every variable keeps its type: in particular the budget stays between   *)
(* one overdrawn line and the largest burst size (irc.c:606, miau.c:1146). *)
THEOREM TypeCorrect == Spec => []TypeOK
<1>1. IInv => TypeOK
  BY DEF IInv
<1> QED
  BY <1>1, Reachable, PTL

(* No line overtakes a line that waits by being sent at once (irc.c:564).  *)
THEOREM NoBypassHolds == Spec => []NoBypass
<1>1. IInv => NoBypass
  BY DEF IInv
<1> QED
  BY <1>1, Reachable, PTL
------------------------------------------------------------------------------
(* Without a connection every step leaves only PRIVMSG lines waiting.      *)
LEMMA StepNothingLeftOver ==
    IInv /\ NothingLeftOver /\ [Next]_vars => NothingLeftOver'
<1> SUFFICES ASSUME IInv, NothingLeftOver, [Next]_vars, ~connected',
                    NEW i \in DOMAIN msg_queue'
             PROVE  msg_queue'[i] \in Unchecked
  BY DEF NothingLeftOver
<1>0. /\ TypeOK
      /\ NoBypass
      /\ msg_queue \in Seq(Lines)
      /\ Len(msg_queue) \in Nat
      /\ DOMAIN msg_queue = 1 .. Len(msg_queue)
  BY LenProperties DEF IInv, TypeOK
<1>1. CASE Register \/ Write \/ Push
  BY <1>1 DEF Register, Write, Push
<1>2. CASE WriteUnchecked
  <2>1. PICK m \in Unchecked : WriteTail(<<m>>)
    BY <1>2 DEF WriteUnchecked
  <2> DEFINE n == SentAtOnce(<<m>>)
             rest == SubSeq(<<m>>, n + 1, 1)
  <2>2. msg_queue' = msg_queue \o rest
    BY <2>1 DEF WriteTail
  <2>3. n \in 0 .. 1
    BY <1>0, FloodAssumption DEF SentAtOnce, Lesser, TypeOK
  <2> HIDE DEF n
  <2>4. \A j \in n + 1 .. 1 : <<m>>[j] \in Unchecked
    BY <2>3
  <2>5. rest \in Seq(Unchecked)
    BY <2>3, <2>4, SubSeqProperties
  <2>6. \A j \in 1 .. Len(msg_queue) : msg_queue[j] \in Unchecked
    BY <1>0, <1>2 DEF NothingLeftOver, WriteUnchecked
  <2>7. msg_queue \in Seq(Unchecked)
    BY <1>0, <2>6
  <2>8. msg_queue' \in Seq(Unchecked)
    BY <2>2, <2>5, <2>7, ConcatProperties
  <2> QED
    BY <2>8
<1>3. CASE Tick
  <2>1. PICK d \in 1 .. MaxDelay : CheckTimers(d)
    BY <1>3 DEF Tick
  <2>2. \A j \in 1 .. Len(msg_queue) : msg_queue[j] \in Unchecked
    BY <1>0, <2>1 DEF NothingLeftOver, CheckTimers
  <2>3. CASE UNCHANGED msg_queue
    BY <1>0, <2>2, <2>3
  <2>4. CASE ProcessQueue(Refilled(Lesser(age + d, AgeLimit)))
    <3>1. PICK k \in 0 .. Len(msg_queue) :
             msg_queue' = SubSeq(msg_queue, k + 1, Len(msg_queue))
      BY <2>4 DEF ProcessQueue
    <3>2. \A j \in k + 1 .. Len(msg_queue) : msg_queue[j] \in Unchecked
      BY <2>2, <1>0
    <3>3. msg_queue' \in Seq(Unchecked)
      BY <3>1, <3>2, <1>0, SubSeqProperties
    <3> QED
      BY <3>3
  <2> QED
    BY <2>1, <2>3, <2>4 DEF CheckTimers
<1>4. CASE ServerDrop
  BY <1>4 DEF ServerDrop
<1>5. CASE Rehash \/ UNCHANGED vars
  BY <1>5 DEF NothingLeftOver, Rehash, vars
<1> QED
  BY <1>1, <1>2, <1>3, <1>4, <1>5 DEF Next

(* No line of a session waits without its connection (server.c:78).        *)
THEOREM NothingIsLeftOver == Spec => []NothingLeftOver
<1>1. Init => NothingLeftOver
  BY DEF Init, NothingLeftOver
<1> QED
  BY <1>1, StepNothingLeftOver, Reachable, PTL DEF Spec
------------------------------------------------------------------------------
(* The credit of Outbox that a state of the queue stands for.              *)
Saved == Lesser(age, FloodTimer * MaxBurst)
Credit == FloodTimer * msgtimer + Saved

(* Multiplying by the flood timer keeps an order.                          *)
LEMMA TimesFloodTimer ==
    ASSUME NEW x \in Int, NEW y \in Int, x <= y
    PROVE  FloodTimer * x <= FloodTimer * y
BY FloodAssumption

(* The bounds of the credit: one line overdrawn, two bursts saved up.      *)
CreditInBounds ==
    /\ Saved \in Int
    /\ 0 <= Saved
    /\ Credit \in Int
    /\ -FloodTimer <= Credit
    /\ Credit <= 2 * FloodTimer * MaxBurst

LEMMA CreditBounds == TypeOK => CreditInBounds
<1> SUFFICES ASSUME TypeOK PROVE CreditInBounds
  OBVIOUS
<1>1. /\ FloodTimer \in Nat
      /\ MaxBurst \in Nat
      /\ FloodTimer * MaxBurst \in Nat
      /\ FloodTimer * msgtimer \in Int
      /\ age \in Nat
      /\ msgtimer \in Int
  BY FloodAssumption DEF TypeOK, AgeLimit
<1>2. FloodTimer * (-1) <= FloodTimer * msgtimer
  BY <1>1, TimesFloodTimer DEF TypeOK
<1>3. FloodTimer * msgtimer <= FloodTimer * MaxBurst
  BY <1>1, TimesFloodTimer DEF TypeOK
<1>4. Saved \in Int /\ 0 <= Saved /\ Saved <= FloodTimer * MaxBurst
  BY <1>1 DEF Saved, Lesser
<1> HIDE DEF Saved
<1> QED
  BY <1>1, <1>2, <1>3, <1>4 DEF Credit, CreditInBounds

LEMMA CreditBoundsNext == TypeOK' => CreditInBounds'
BY CreditBounds, PTL

(* Outside check_timers() a line costs its price and nothing is earned.    *)
LEMMA PaidInFull ==
    ASSUME TypeOK, TypeOK', UNCHANGED age, NEW n \in Nat,
           msgtimer' = msgtimer - n
    PROVE  /\ Credit' \in Int
           /\ -FloodTimer <= Credit'
           /\ Credit' <= Credit - FloodTimer * n
<1>1. FloodTimer \in Int /\ msgtimer \in Int
  BY FloodAssumption DEF TypeOK
<1>2. Credit' \in Int /\ -FloodTimer <= Credit'
  BY CreditBoundsNext DEF CreditInBounds
<1>3. Saved' = Saved
  BY DEF Saved
<1>4. FloodTimer * msgtimer' = FloodTimer * msgtimer - FloodTimer * n
  BY <1>1
<1>5. Saved \in Int
  BY CreditBounds DEF CreditInBounds
<1> QED
  BY <1>1, <1>2, <1>3, <1>4, <1>5 DEF Credit

(* A refill of d seconds' waiting earns no more than d seconds, and never  *)
(* more than two bursts in all.                                            *)
LEMMA RefillEarnsNoMore ==
    ASSUME IInv, NEW d \in 1 .. MaxDelay, NEW a \in Nat,
           a = Lesser(age + d, AgeLimit)
    PROVE  /\ FloodTimer * Refilled(a) <= Credit + d
           /\ FloodTimer * Refilled(a) <= 2 * FloodTimer * MaxBurst
<1>1. /\ FloodTimer \in Nat
      /\ MaxBurst \in Nat
      /\ FloodTimer * MaxBurst \in Nat
      /\ FloodTimer * msgtimer \in Int
      /\ age \in Nat
      /\ d \in Nat
      /\ msgtimer \in -1 .. MaxBurst
      /\ burstsize \in 1 .. MaxBurst
      /\ Refilled(a) \in -1 .. MaxBurst
  BY FloodAssumption, RefilledType DEF IInv, TypeOK, AgeLimit
<1>2. FloodTimer * Refilled(a) <= FloodTimer * MaxBurst
  BY <1>1, TimesFloodTimer
<1>3. FloodTimer * Refilled(a) <= FloodTimer * msgtimer + a
  <2>1. CASE FloodTimer = 0
    BY <1>1, <2>1
  <2>2. CASE FloodTimer # 0
    <3>1. a \div FloodTimer \in Nat /\ FloodTimer * (a \div FloodTimer) <= a
      BY <1>1, <2>2, DivBound
    <3>2. Refilled(a) <= msgtimer + a \div FloodTimer
      <4>1. Refilled(a) = Lesser(msgtimer + a \div FloodTimer, burstsize)
        BY <2>2 DEF Refilled
      <4>2. msgtimer + a \div FloodTimer \in Int /\ burstsize \in Int
        BY <1>1, <3>1
      <4> QED
        BY <4>1, <4>2, LesserBound
    <3>3. FloodTimer * Refilled(a) <= FloodTimer * (msgtimer + a \div FloodTimer)
      BY <1>1, <3>1, <3>2, TimesFloodTimer
    <3>4. FloodTimer * (msgtimer + a \div FloodTimer)
            = FloodTimer * msgtimer + FloodTimer * (a \div FloodTimer)
      BY <1>1, <3>1
    <3>5. FloodTimer * (a \div FloodTimer) \in Int
      BY <1>1, <3>1
    <3> QED
      BY <1>1, <3>1, <3>3, <3>4, <3>5
  <2> QED
    BY <2>1, <2>2
<1>4. a <= age + d
  BY <1>1 DEF Lesser, AgeLimit
<1>5. CASE age <= FloodTimer * MaxBurst
  <2>1. Credit = FloodTimer * msgtimer + age
    BY <1>5 DEF Credit, Saved, Lesser
  <2> QED
    BY <1>1, <1>2, <1>3, <1>4, <2>1
<1>6. CASE ~(age <= FloodTimer * MaxBurst)
  <2>1. Credit = FloodTimer * msgtimer + FloodTimer * MaxBurst
    BY <1>6 DEF Credit, Saved, Lesser
  <2>2. FloodTimer * msgtimer >= 0
    <3>1. CASE FloodTimer = 0
      BY <1>1, <3>1
    <3>2. CASE FloodTimer # 0
      <4>1. FloodTimer * 1 <= FloodTimer * MaxBurst
        BY <1>1, TimesFloodTimer
      <4>2. msgtimer >= 0
        BY <1>1, <1>6, <3>2, <4>1 DEF IInv, RefillIsDue
      <4>3. FloodTimer * 0 <= FloodTimer * msgtimer
        BY <1>1, <4>2, TimesFloodTimer
      <4> QED
        BY <1>1, <4>3
    <3> QED
      BY <3>1, <3>2
  <2> QED
    BY <1>1, <1>2, <2>1, <2>2
<1> QED
  BY <1>5, <1>6

(* An interval without a refill earns no more than it lasts.               *)
LEMMA WaitingEarnsNoMore ==
    ASSUME IInv, IInv', NEW d \in 1 .. MaxDelay, UNCHANGED msgtimer,
           age' = Lesser(age + d, AgeLimit)
    PROVE  Credit' <= Credit + d
<1>1. /\ FloodTimer * MaxBurst \in Nat
      /\ FloodTimer * msgtimer \in Int
      /\ age \in Nat
      /\ age' \in Nat
      /\ d \in Nat
      /\ AgeLimit \in Nat
  BY FloodAssumption DEF IInv, TypeOK, AgeLimit
<1>2. age' <= age + d
  BY <1>1 DEF Lesser
<1>3. /\ Saved = IF age <= FloodTimer * MaxBurst
                 THEN age ELSE FloodTimer * MaxBurst
      /\ Saved' = IF age' <= FloodTimer * MaxBurst
                  THEN age' ELSE FloodTimer * MaxBurst
  BY DEF Saved, Lesser
<1>4. Saved \in Int /\ Saved' \in Int /\ Saved' <= Saved + d
  BY <1>1, <1>2, <1>3
<1>5. Credit' = FloodTimer * msgtimer + Saved'
  BY DEF Credit
<1> HIDE DEF Saved
<1> QED
  BY <1>1, <1>4, <1>5 DEF Credit

(* Every step of the queue is a step of Outbox or leaves it as it was.     *)
LEMMA StepKeepsPromise ==
    IInv /\ IInv' /\ [Next]_vars => [Promise!Next]_Promise!boxVars
<1> SUFFICES ASSUME IInv, IInv', [Next]_vars
             PROVE  [Promise!Next]_Promise!boxVars
  OBVIOUS
<1>0. /\ TypeOK
      /\ TypeOK'
      /\ NoBypass
      /\ CreditInBounds
      /\ CreditInBounds'
      /\ FloodTimer \in Nat
      /\ msg_queue \in Seq(Lines)
  BY CreditBounds, CreditBoundsNext, FloodAssumption DEF IInv, TypeOK
<1>1. ASSUME NEW lines \in Seq(Lines), WriteTail(lines), UNCHANGED age,
             lines \in Registrations \cup {<<m>> : m \in Session \cup Unchecked}
      PROVE  Promise!Next
  <2>1. /\ wire' \in Seq(Lines)
        /\ wire' \o msg_queue' = msg_queue \o lines
        /\ msgtimer' = msgtimer - Len(wire')
    BY <1>0, <1>1, WriteTailFacts
  <2>2. Len(wire') \in Nat
    BY <2>1, LenProperties
  <2>3. /\ Credit' \in Int
        /\ -FloodTimer <= Credit'
        /\ Credit' <= Credit - FloodTimer * Len(wire')
    BY <1>0, <1>1, <2>1, <2>2, PaidInFull
  <2>4. Promise!Accept(lines)
    BY <2>1, <2>3 DEF Promise!Accept, Promise!Spend, Credit, Saved
  <2> QED
    BY <1>1, <2>4 DEF Promise!Next
<1>2. CASE Register
  BY <1>1, <1>2, LinesWritten DEF Register
<1>3. CASE Write
  BY <1>1, <1>3, LinesWritten DEF Write
<1>4. CASE WriteUnchecked
  BY <1>1, <1>4, LinesWritten DEF WriteUnchecked
<1>5. CASE Push
  <2>1. PICK m \in Urgent : WriteHead(m)
    BY <1>5 DEF Push
  <2>2. m \in Lines
    BY LinesWritten
  <2>3. /\ wire' \in Seq(Lines)
        /\ wire' \o msg_queue' = <<m>> \o msg_queue
        /\ msgtimer' = msgtimer - Len(wire')
    BY <1>0, <2>1, <2>2, WriteHeadFacts
  <2>4. Len(wire') \in Nat
    BY <2>3, LenProperties
  <2>5. /\ Credit' \in Int
        /\ -FloodTimer <= Credit'
        /\ Credit' <= Credit - FloodTimer * Len(wire')
    BY <1>0, <1>5, <2>3, <2>4, PaidInFull DEF Push
  <2>6. Promise!Overtake(m)
    BY <2>3, <2>5 DEF Promise!Overtake, Promise!Spend, Credit, Saved
  <2> QED
    BY <2>6 DEF Promise!Next
<1>6. ASSUME NEW d \in 1 .. MaxDelay,
             wire' \o msg_queue' = msg_queue,
             Credit' <= Credit + d - FloodTimer * Len(wire'),
             Credit' <= 2 * FloodTimer * MaxBurst - FloodTimer * Len(wire')
      PROVE  Promise!Next
  <2>1. Promise!Elapse(d)
    <3>1. -FloodTimer <= Credit' /\ Credit' \in Int
      BY <1>0 DEF CreditInBounds
    <3> DEFINE limit == Promise!AtMost(2 * FloodTimer * MaxBurst, Credit + d)
    <3>2. limit = 2 * FloodTimer * MaxBurst \/ limit = Credit + d
      BY DEF Promise!AtMost
    <3> HIDE DEF limit
    <3>3. /\ Credit \in Int
          /\ Credit' \in Int
          /\ d \in Int
          /\ 2 * FloodTimer * MaxBurst \in Int
          /\ FloodTimer * Len(wire') \in Int
      BY <1>0, FloodAssumption, LenProperties DEF CreditInBounds, TypeOK
    <3>4. limit \in Int
      BY <3>2, <3>3
    <3> HIDE DEF Credit
    <3>5. Credit' <= limit - FloodTimer * Len(wire')
      BY <1>6, <3>2, <3>3, <3>4
    <3> USE DEF limit
    <3> QED
      BY <1>6, <3>1, <3>5
      DEF Promise!Elapse, Promise!Spend, Credit, Saved
  <2> QED
    BY <2>1 DEF Promise!Next
<1>7. ASSUME wire' = << >>, UNCHANGED msg_queue, NEW d \in 1 .. MaxDelay,
             Credit' <= Credit + d
      PROVE  Promise!Next
  <2>1. wire' \o msg_queue' = msg_queue
    BY <1>0, <1>7, ConcatEmptySeq
  <2>2. FloodTimer * Len(wire') = 0
    BY <1>0, <1>7
  <2>3. /\ Credit \in Int
        /\ Credit' \in Int
        /\ Credit' <= 2 * FloodTimer * MaxBurst
        /\ 2 * FloodTimer * MaxBurst \in Int
        /\ d \in Int
    BY <1>0, FloodAssumption DEF CreditInBounds
  <2>4. Credit + d \in Int
    BY <2>3
  <2> HIDE DEF Credit
  <2>5. Credit' <= Credit + d - FloodTimer * Len(wire')
    BY <1>7, <2>2, <2>3, <2>4
  <2>6. Credit' <= 2 * FloodTimer * MaxBurst - FloodTimer * Len(wire')
    BY <2>2, <2>3
  <2> QED
    BY <1>6, <2>1, <2>5, <2>6
<1>8. CASE Tick
  <2>1. PICK d \in 1 .. MaxDelay : CheckTimers(d)
    BY <1>8 DEF Tick
  <2> DEFINE a == Lesser(age + d, AgeLimit)
  <2>2. a \in Nat
    BY <1>0, AgeType
  <2>3. CASE a >= FloodTimer /\ msgtimer < burstsize
    <3>1. age' = 0 /\ ProcessQueue(Refilled(a))
      BY <2>1, <2>3 DEF CheckTimers
    <3>2. Refilled(a) \in -1 .. MaxBurst
      BY <1>0, <2>2, RefilledType
    <3>3. /\ wire' \in Seq(Lines)
          /\ wire' \o msg_queue' = msg_queue
          /\ msgtimer' <= Refilled(a) - Len(wire')
      BY <1>0, <3>1, <3>2, ProcessQueueFacts
    <3>4. Len(wire') \in Nat /\ msgtimer' \in Int /\ Refilled(a) \in Int
      BY <1>0, <3>2, <3>3, LenProperties DEF TypeOK
    <3>5. Credit' = FloodTimer * msgtimer'
      BY <1>0, <3>1, <3>4, FloodAssumption DEF Credit, Saved, Lesser
    <3>6. /\ FloodTimer * Refilled(a) <= Credit + d
          /\ FloodTimer * Refilled(a) <= 2 * FloodTimer * MaxBurst
      BY <2>2, RefillEarnsNoMore
    <3>7. FloodTimer * msgtimer' <= FloodTimer * (Refilled(a) - Len(wire'))
      BY <3>3, <3>4, TimesFloodTimer
    <3>8. /\ FloodTimer * (Refilled(a) - Len(wire'))
             = FloodTimer * Refilled(a) - FloodTimer * Len(wire')
          /\ FloodTimer * Refilled(a) \in Int
          /\ FloodTimer * Len(wire') \in Int
          /\ FloodTimer * msgtimer' \in Int
          /\ 2 * FloodTimer * MaxBurst \in Int
      BY <1>0, <3>4, FloodAssumption
    <3>9. Credit \in Int /\ d \in Int
      BY <1>0 DEF CreditInBounds
    <3> HIDE DEF Credit, a
    <3>10. /\ Credit' <= Credit + d - FloodTimer * Len(wire')
           /\ Credit' <= 2 * FloodTimer * MaxBurst - FloodTimer * Len(wire')
      BY <3>5, <3>6, <3>7, <3>8, <3>9
    <3> QED
      BY <1>6, <3>3, <3>10
  <2>4. CASE ~(a >= FloodTimer /\ msgtimer < burstsize)
    <3>1. /\ age' = a
          /\ wire' = << >>
          /\ UNCHANGED <<msgtimer, msg_queue>>
      BY <2>1, <2>4 DEF CheckTimers
    <3>2. Credit' <= Credit + d
      BY <3>1, WaitingEarnsNoMore
    <3> QED
      BY <1>7, <3>1, <3>2
  <2> QED
    BY <2>3, <2>4
<1>9. CASE ServerDrop
  <2>1. Credit' = Credit
    BY <1>9 DEF ServerDrop, Credit, Saved
  <2>2. Promise!Discard
    BY <1>9, <2>1 DEF ServerDrop, Promise!Discard, Credit, Saved
  <2> QED
    BY <2>2 DEF Promise!Next
<1>10. CASE Rehash
  <2>1. wire' = << >> /\ UNCHANGED msg_queue /\ Credit' = Credit
    BY <1>10 DEF Rehash, Credit, Saved
  <2>2. Credit' <= Credit + 1
    BY <1>0, <2>1 DEF CreditInBounds
  <2>3. 1 \in 1 .. MaxDelay
    BY FloodAssumption
  <2> QED
    BY <1>7, <2>1, <2>2, <2>3
<1>11. CASE UNCHANGED vars
  BY <1>11 DEF vars, Promise!boxVars
<1> QED
  BY <1>2, <1>3, <1>4, <1>5, <1>8, <1>9, <1>10, <1>11 DEF Next

(* Lines leave in the order they were written, urgent ones apart, and      *)
(* within a token bucket of two bursts: SendQueue implements Outbox.       *)
THEOREM KeepsPromise == Spec => ImplementsOutbox
<1>1. Init => Promise!Init
  <2> SUFFICES ASSUME Init PROVE Promise!Init
    OBVIOUS
  <2>1. TypeOK
    BY InitInv DEF IInv
  <2>2. CreditInBounds
    BY <2>1, CreditBounds
  <2> QED
    BY <2>2 DEF Init, Promise!Init, CreditInBounds, Credit, Saved
<1> QED
  BY <1>1, StepKeepsPromise, Reachable, PTL DEF Spec, ImplementsOutbox, Promise!Spec
=============================================================================
