---------------------------- MODULE QuickLogProofs ----------------------------
(***************************************************************************)
(* The quicklog is in order of age, and from that: no private message is   *)
(* lost between the flush, the replay and the erasure of an attach that    *)
(* takes a second at the most; for any settings, and for any bounds on the *)
(* lines and their age.                                                    *)
(***************************************************************************)
EXTENDS QuickLog, SequenceTheorems, WellFoundedInduction, TLAPS

(* A list of lines, the oldest first.                                      *)
Ordered(q) == \A i, j \in 1 .. Len(q) : i <= j => q[j].age <= q[i].age

Sorted == {q \in Seq(Line) : Len(q) <= MaxLog /\ Ordered(q)}

(* No line has been seen or replayed.                                      *)
Fresh(q) == \A i \in 1 .. Len(q) : q[i].fate \in {"unseen", "asked"}

(* The ways in which a private message is lost.                            *)
Causes == {"slow attach", "autoqlog", "FLUSHQLOG", "REHASH", "exit"}

IInv ==
    /\ cfg \in Configs
    /\ clients \in 0 .. MaxClients
    /\ registered \in BOOLEAN
    /\ inbox \in BOOLEAN
    /\ qlog \in Sorted
    /\ cfg.flushqlog => Fresh(qlog)
    /\ lost \subseteq Causes
------------------------------------------------------------------------------
(* Facts about natural numbers and sequences.                              *)
LEMMA LeastNatural ==
    ASSUME NEW T \in SUBSET Nat, T # {}
    PROVE \E x \in T : \A y \in T : x <= y
<1> DEFINE R == OpToRel(<, Nat)
<1>1. IsWellFoundedOn(R, Nat)
  BY NatLessThanWellFounded
<1>2. \A x, y \in Nat : x < y => <<x, y>> \in R
  BY DEF OpToRel
<1> HIDE DEF R
<1>3. PICK x \in T : \A y \in T : ~ (<<y, x>> \in R)
  BY <1>1, WFMin
<1>4. \A y \in T : ~ (y < x)
  BY <1>2, <1>3, Zenon
<1>5. \A y \in T : x <= y
  BY <1>4
<1> QED
  BY <1>5

LEMMA FunctionIsSeq ==
    ASSUME NEW S, NEW n \in Nat, NEW f \in [1 .. n -> S]
    PROVE f \in Seq(S) /\ Len(f) = n
<1>1. f \in Seq(S)
  BY SeqDef
<1>2. 1 .. Len(f) = 1 .. n /\ Len(f) \in Nat
  BY <1>1, LenProperties
<1> QED
  BY <1>1, <1>2

LEMMA LineAge ==
    ASSUME NEW line \in Line
    PROVE line.age \in 0 .. MaxAge /\ line.age \in Int /\ 0 <= line.age
<1>1. line.age \in 0 .. MaxAge
  BY DEF Line, Age
<1>2. MaxAge \in Nat
  BY QuickLogAssumption
<1> QED
  BY <1>1, <1>2

LEMMA AgesAre ==
    ASSUME NEW q \in Seq(Line)
    PROVE /\ Len(q) \in Nat
          /\ \A i \in 1 .. Len(q) : /\ q[i] \in Line
                                    /\ q[i].age \in 0 .. MaxAge
                                    /\ q[i].age \in Int
                                    /\ 0 <= q[i].age
<1>1. Len(q) \in Nat
  BY LenProperties
<1>2. \A i \in 1 .. Len(q) : q[i] \in Line
  BY ElementOfSeq
<1> QED
  BY <1>1, <1>2, LineAge

(* qlog_flush() stops: the cut exists, old lines are before it.            *)
LEMMA CutIs ==
    ASSUME NEW q \in Seq(Line), NEW age \in Int
    PROVE /\ Cut(q, age) \in 0 .. Len(q)
          /\ \A i \in 1 .. Cut(q, age) : q[i].age >= age
          /\ Cut(q, age) < Len(q) => q[Cut(q, age) + 1].age < age
<1> DEFINE T == {k \in 0 .. Len(q) : k < Len(q) => q[k + 1].age < age}
           P(k) == /\ \A i \in 1 .. k : q[i].age >= age
                   /\ k < Len(q) => q[k + 1].age < age
<1>1. Len(q) \in Nat /\ \A i \in 1 .. Len(q) : q[i].age \in Int
  BY AgesAre
<1>2. T \in SUBSET Nat /\ Len(q) \in T
  BY <1>1
<1>3. PICK k \in T : \A j \in T : k <= j
  <2> HIDE DEF T
  <2> QED
    BY <1>2, LeastNatural
<1>4. k \in 0 .. Len(q) /\ (k < Len(q) => q[k + 1].age < age)
  BY <1>3
<1>5. ASSUME NEW i \in 1 .. k PROVE q[i].age >= age
  <2>1. i - 1 \in 0 .. Len(q) /\ i - 1 < Len(q) /\ (i - 1) + 1 = i /\ i \in 1 .. Len(q)
    BY <1>1, <1>4
  <2>2. i - 1 \notin T
    BY <1>1, <1>3, <1>4, <2>1
  <2>3. ~(q[i].age < age)
    BY <2>1, <2>2
  <2> QED
    BY <1>1, <2>1, <2>3
<1>6. \E c \in 0 .. Len(q) : P(c)
  BY <1>4, <1>5
<1>7. Cut(q, age) \in 0 .. Len(q) /\ P(Cut(q, age))
  BY <1>6 DEF Cut
<1> QED
  BY <1>7

(* What is left of an ordered list after a flush is young and ordered.     *)
LEMMA FlushIs ==
    ASSUME NEW q \in Sorted, NEW age \in Int
    PROVE /\ Flush(q, age) \in Sorted
          /\ \A i \in 1 .. Len(Flush(q, age)) : Flush(q, age)[i].age < age
          /\ Fresh(q) => Fresh(Flush(q, age))
<1> DEFINE k == Cut(q, age)
           r == Flush(q, age)
<1>1. q \in Seq(Line) /\ Len(q) \in Nat /\ Len(q) <= MaxLog /\ MaxLog \in Nat
  BY LenProperties, QuickLogAssumption DEF Sorted
<1>2. k \in 0 .. Len(q) /\ (k < Len(q) => q[k + 1].age < age)
  BY <1>1, CutIs
<1>3. \A i \in k + 1 .. Len(q) : q[i] \in Line
  BY <1>1, <1>2, ElementOfSeq
<1>4. /\ r \in Seq(Line)
      /\ Len(r) = IF k + 1 <= Len(q) THEN Len(q) - (k + 1) + 1 ELSE 0
      /\ \A i \in 1 .. Len(q) - (k + 1) + 1 : r[i] = q[(k + 1) + i - 1]
  <2>1. k + 1 \in Int /\ Len(q) \in Int
    BY <1>1, <1>2
  <2> HIDE DEF k
  <2>2. r = SubSeq(q, k + 1, Len(q))
    BY DEF Flush, k
  <2> HIDE DEF r
  <2> QED
    BY <1>3, <2>1, <2>2, SubSeqProperties
<1> HIDE DEF k, r
<1>5. Len(r) = Len(q) - k /\ Len(r) \in Nat
  BY <1>1, <1>2, <1>4
<1>6. \A i \in 1 .. Len(r) : k + i \in 1 .. Len(q) /\ r[i] = q[k + i]
  <2>1. \A i \in 1 .. Len(r) : /\ i \in 1 .. Len(q) - (k + 1) + 1
                               /\ (k + 1) + i - 1 = k + i
                               /\ k + i \in 1 .. Len(q)
    BY <1>1, <1>2, <1>5
  <2> QED
    BY <1>4, <2>1
<1>7. \A i \in 1 .. Len(q) : q[i].age \in Int
  BY <1>1, AgesAre
<1>8. \A i, j \in 1 .. Len(q) : i <= j => q[j].age <= q[i].age
  BY DEF Sorted, Ordered
<1>9. Ordered(r)
  <2>1. SUFFICES ASSUME NEW i \in 1 .. Len(r), NEW j \in 1 .. Len(r), i <= j
                 PROVE r[j].age <= r[i].age
    BY DEF Ordered
  <2>2. k + i <= k + j
    BY <1>2, <2>1
  <2> QED
    BY <1>6, <1>8, <2>2
<1>10. ASSUME NEW i \in 1 .. Len(r) PROVE r[i].age < age
  <2>1. k < Len(q) /\ k + 1 \in 1 .. Len(q) /\ k + 1 <= k + i
    BY <1>1, <1>2, <1>5
  <2>2. q[k + i].age <= q[k + 1].age
    BY <1>6, <1>8, <2>1
  <2>3. q[k + i].age \in Int /\ q[k + 1].age \in Int
    BY <1>6, <1>7, <2>1
  <2>4. q[k + i].age < age
    BY <1>2, <2>1, <2>2, <2>3
  <2> QED
    BY <1>6, <2>4
<1>11. Len(r) <= MaxLog
  BY <1>1, <1>2, <1>5
<1>12. Fresh(q) => Fresh(r)
  BY <1>6 DEF Fresh
<1> QED
  BY <1>4, <1>9, <1>10, <1>11, <1>12 DEF Sorted, r

(* A flush of everything leaves nothing.                                   *)
LEMMA FlushAll ==
    ASSUME NEW q \in Sorted
    PROVE Flush(q, 0) = <<>>
<1> DEFINE r == Flush(q, 0)
<1>1. r \in Seq(Line) /\ \A i \in 1 .. Len(r) : r[i].age < 0
  BY FlushIs DEF Sorted
<1> HIDE DEF r
<1>2. Len(r) \in Nat /\ \A i \in 1 .. Len(r) : r[i].age \in Int /\ 0 <= r[i].age
  BY <1>1, AgesAre
<1>3. Len(r) = 0
  <2>1. ASSUME NEW i \in 1 .. Len(r) PROVE FALSE
    <3>1. r[i].age < 0 /\ r[i].age \in Int /\ 0 <= r[i].age
      BY <1>1, <1>2
    <3> QED
      BY <3>1
  <2>2. 1 \notin 1 .. Len(r)
    BY <2>1
  <2> QED
    BY <1>2, <2>2
<1>4. r = <<>>
  BY <1>1, <1>3, EmptySeq
<1> QED
  BY <1>4 DEF r

(* Time keeps order and fates, and no line grows older than by that time.  *)
LEMMA AgedIs ==
    ASSUME NEW q \in Sorted, NEW by \in Nat
    PROVE /\ Aged(q, by) \in Sorted
          /\ Len(Aged(q, by)) = Len(q)
          /\ \A i \in 1 .. Len(q) : Aged(q, by)[i].age <= q[i].age + by
          /\ Fresh(q) => Fresh(Aged(q, by))
<1> DEFINE r == Aged(q, by)
<1>1. q \in Seq(Line) /\ Len(q) \in Nat /\ Len(q) <= MaxLog /\ MaxAge \in Nat
  BY LenProperties, QuickLogAssumption DEF Sorted
<1>2. \A i \in 1 .. Len(q) : q[i] \in Line /\ q[i].age \in 0 .. MaxAge
  BY <1>1, AgesAre
<1>3. \A i \in 1 .. Len(q) : /\ r[i] \in Line
                             /\ r[i].age = Older(q[i].age, by)
                             /\ r[i].fate = q[i].fate
  <2>1. SUFFICES ASSUME NEW i \in 1 .. Len(q)
                 PROVE /\ r[i] \in Line
                       /\ r[i].age = Older(q[i].age, by)
                       /\ r[i].fate = q[i].fate
    OBVIOUS
  <2>2. r[i] = [q[i] EXCEPT !.age = Older(q[i].age, by)]
    BY DEF Aged
  <2>3. Older(q[i].age, by) \in 0 .. MaxAge
    BY <1>1, <1>2 DEF Older
  <2> HIDE DEF r
  <2> QED
    BY <1>2, <2>2, <2>3 DEF Line, Age
<1>4. r \in Seq(Line) /\ Len(r) = Len(q)
  <2>1. r \in [1 .. Len(q) -> Line]
    BY <1>3 DEF Aged
  <2> HIDE DEF r
  <2> QED
    BY <1>1, <2>1, FunctionIsSeq
<1> HIDE DEF r
<1>5. \A a, b \in 0 .. MaxAge : /\ a <= b => Older(a, by) <= Older(b, by)
                                /\ Older(a, by) <= a + by
  BY <1>1 DEF Older
<1>6. Ordered(r)
  BY <1>2, <1>3, <1>4, <1>5 DEF Sorted, Ordered
<1>7. \A i \in 1 .. Len(q) : r[i].age <= q[i].age + by
  BY <1>2, <1>3, <1>5
<1>8. Fresh(q) => Fresh(r)
  BY <1>3, <1>4 DEF Fresh
<1> QED
  BY <1>1, <1>4, <1>6, <1>7, <1>8 DEF Sorted, r

(* A replay keeps the list in order, and what is young enough is replayed. *)
LEMMA ReplayedIs ==
    ASSUME NEW q \in Sorted, NEW age \in Int
    PROVE /\ Replayed(q, age) \in Sorted
          /\ Len(Replayed(q, age)) = Len(q)
          /\ \A i \in 1 .. Len(q) : Replayed(q, age)[i].age = q[i].age
          /\ (\A i \in 1 .. Len(q) : q[i].age <= age) => ~Missed(Replayed(q, age))
<1> DEFINE r == Replayed(q, age)
<1>1. q \in Seq(Line) /\ Len(q) \in Nat /\ Len(q) <= MaxLog
  BY LenProperties DEF Sorted
<1>2. \A i \in 1 .. Len(q) : q[i] \in Line
  BY <1>1, ElementOfSeq
<1>3. \A i \in 1 .. Len(q) : /\ r[i] \in Line
                             /\ r[i].age = q[i].age
                             /\ q[i].age <= age => r[i].fate = "replayed"
  <2>1. SUFFICES ASSUME NEW i \in 1 .. Len(q)
                 PROVE /\ r[i] \in Line
                       /\ r[i].age = q[i].age
                       /\ q[i].age <= age => r[i].fate = "replayed"
    OBVIOUS
  <2>2. r[i] = IF age = 0 \/ q[i].age <= age
               THEN [q[i] EXCEPT !.fate = "replayed"] ELSE q[i]
    BY DEF Replayed
  <2>3. q[i] \in Line
    BY <1>2
  <2> HIDE DEF r
  <2> QED
    BY <2>2, <2>3 DEF Line, Fate
<1>4. r \in Seq(Line) /\ Len(r) = Len(q)
  <2>1. r \in [1 .. Len(q) -> Line]
    BY <1>3 DEF Replayed
  <2> HIDE DEF r
  <2> QED
    BY <1>1, <2>1, FunctionIsSeq
<1> HIDE DEF r
<1>5. Ordered(r)
  BY <1>3, <1>4 DEF Sorted, Ordered
<1>6. (\A i \in 1 .. Len(q) : q[i].age <= age) => ~Missed(r)
  BY <1>3, <1>4 DEF Missed
<1> QED
  BY <1>1, <1>3, <1>4, <1>5, <1>6 DEF Sorted, r

(* Marking what was asked for changes no age and leaves fresh lines fresh. *)
Asked(q, A) ==
    [i \in 1 .. Len(q) |-> IF i \in A THEN [q[i] EXCEPT !.fate = "asked"] ELSE q[i]]

LEMMA AskedIs ==
    ASSUME NEW q \in Sorted, NEW A
    PROVE Asked(q, A) \in Sorted /\ (Fresh(q) => Fresh(Asked(q, A)))
<1> DEFINE r == Asked(q, A)
<1>1. q \in Seq(Line) /\ Len(q) \in Nat /\ Len(q) <= MaxLog
  BY LenProperties DEF Sorted
<1>2. \A i \in 1 .. Len(q) : q[i] \in Line
  BY <1>1, ElementOfSeq
<1>3. \A i \in 1 .. Len(q) : /\ r[i] \in Line
                             /\ r[i].age = q[i].age
                             /\ r[i].fate \in {"asked", q[i].fate}
  <2>1. SUFFICES ASSUME NEW i \in 1 .. Len(q)
                 PROVE /\ r[i] \in Line
                       /\ r[i].age = q[i].age
                       /\ r[i].fate \in {"asked", q[i].fate}
    OBVIOUS
  <2>2. r[i] = IF i \in A THEN [q[i] EXCEPT !.fate = "asked"] ELSE q[i]
    BY DEF Asked
  <2>3. q[i] \in Line
    BY <1>2
  <2> HIDE DEF r
  <2> QED
    BY <2>2, <2>3 DEF Line, Fate
<1>4. r \in [1 .. Len(q) -> Line]
  BY <1>3 DEF Asked
<1> HIDE DEF r
<1>5. r \in Seq(Line) /\ Len(r) = Len(q)
  BY <1>1, <1>4, FunctionIsSeq
<1>6. Ordered(r)
  BY <1>3, <1>5 DEF Sorted, Ordered
<1>7. Fresh(q) => Fresh(r)
  BY <1>3, <1>5 DEF Fresh
<1> QED
  BY <1>1, <1>5, <1>6, <1>7 DEF Sorted, r

(* A line that is written is the youngest.                                 *)
LEMMA AppendedIs ==
    ASSUME NEW q \in Sorted, Len(q) < MaxLog, NEW line \in Line, line.age = 0
    PROVE /\ Appended(q, line) \in Sorted
          /\ Fresh(q) /\ line.fate = "unseen" => Fresh(Appended(q, line))
<1> DEFINE r == Appended(q, line)
<1>1. q \in Seq(Line) /\ Len(q) \in Nat /\ MaxLog \in Nat
  BY LenProperties, QuickLogAssumption DEF Sorted
<1>2. /\ r \in Seq(Line)
      /\ Len(r) = Len(q) + 1
      /\ \A i \in 1 .. Len(q) : r[i] = q[i]
      /\ r[Len(q) + 1] = line
  BY <1>1, AppendProperties DEF Appended
<1> HIDE DEF r
<1>3. \A i \in 1 .. Len(q) : q[i].age \in Int /\ 0 <= q[i].age
  BY <1>1, AgesAre
<1>4. Ordered(r)
  <2>1. SUFFICES ASSUME NEW i \in 1 .. Len(r), NEW j \in 1 .. Len(r), i <= j
                 PROVE r[j].age <= r[i].age
    BY DEF Ordered
  <2>2. CASE j \in 1 .. Len(q)
    <3>1. i \in 1 .. Len(q)
      BY <1>1, <1>2, <2>1, <2>2
    <3> QED
      BY <1>2, <2>1, <2>2, <3>1 DEF Sorted, Ordered
  <2>3. CASE j = Len(q) + 1 /\ i \in 1 .. Len(q)
    BY <1>2, <1>3, <2>3
  <2>4. CASE j = Len(q) + 1 /\ i = Len(q) + 1
    BY <1>2, <2>4
  <2>5. j \in 1 .. Len(q) \/ j = Len(q) + 1
    BY <1>1, <1>2
  <2>6. i \in 1 .. Len(q) \/ i = Len(q) + 1
    BY <1>1, <1>2
  <2> QED
    BY <2>2, <2>3, <2>4, <2>5, <2>6
<1>5. Fresh(q) /\ line.fate = "unseen" => Fresh(r)
  <2>1. SUFFICES ASSUME Fresh(q), line.fate = "unseen", NEW i \in 1 .. Len(r)
                 PROVE r[i].fate \in {"unseen", "asked"}
    BY DEF Fresh
  <2>2. i \in 1 .. Len(q) \/ i = Len(q) + 1
    BY <1>1, <1>2
  <2> QED
    BY <1>2, <2>1, <2>2 DEF Fresh
<1> QED
  BY <1>1, <1>2, <1>4, <1>5 DEF Sorted, r

(* A flush takes a private message only if one is in the list.             *)
LEMMA LosesIs ==
    ASSUME NEW q \in Sorted, NEW age \in Int, NEW cause
    PROVE /\ Loses(q, age, cause) \subseteq {cause}
          /\ ~Missed(q) => Loses(q, age, cause) = {}
<1> DEFINE k == Cut(q, age)
           r == SubSeq(q, 1, k)
<1>1. q \in Seq(Line) /\ Len(q) \in Nat /\ k \in 0 .. Len(q)
  BY CutIs, LenProperties DEF Sorted
<1> HIDE DEF k
<1>2. \A i \in 1 .. k : q[i] \in Line
  BY <1>1, ElementOfSeq
<1>3. /\ Len(r) = IF 1 <= k THEN k - 1 + 1 ELSE 0
      /\ \A i \in 1 .. k - 1 + 1 : r[i] = q[1 + i - 1]
  <2>1. k \in Int /\ 1 \in Int
    BY <1>1
  <2> QED
    BY <1>2, <2>1, SubSeqProperties
<1> HIDE DEF r
<1>4. \A i \in 1 .. Len(r) : i \in 1 .. Len(q) /\ r[i] = q[i]
  <2>1. Len(r) = k
    BY <1>1, <1>3
  <2>2. \A i \in 1 .. k : i \in 1 .. k - 1 + 1 /\ 1 + i - 1 = i /\ i \in 1 .. Len(q)
    BY <1>1
  <2> QED
    BY <1>3, <2>1, <2>2
<1>5. Missed(r) => Missed(q)
  BY <1>4 DEF Missed
<1>6. Loses(q, age, cause) = IF inbox /\ Missed(r) THEN {cause} ELSE {}
  BY DEF Loses, r, k
<1> QED
  BY <1>5, <1>6
------------------------------------------------------------------------------
(* The actions, one lemma each; those that leave qlog alone share one.     *)
LEMMA CfgTyped ==
    ASSUME NEW c \in Configs
    PROVE c.qloglength \in Int /\ c.autoqlog \in Int /\ c.flushqlog \in BOOLEAN
BY QuickLogAssumption

LEMMA WriteKeeps ==
    ASSUME IInv, NEW privmsg \in BOOLEAN, NEW fate \in Fate, Write(privmsg, fate)
    PROVE /\ qlog' \in Sorted
          /\ fate = "unseen" /\ cfg.flushqlog => Fresh(qlog')
<1> DEFINE q == Flush(qlog, cfg.qloglength)
           line == [age |-> 0, privmsg |-> privmsg, fate |-> fate]
<1>1. qlog \in Sorted /\ cfg.qloglength \in Int
  BY CfgTyped DEF IInv
<1>2. q \in Sorted /\ (Fresh(qlog) => Fresh(q))
  BY <1>1, FlushIs
<1>3. 0 \in Age
  BY QuickLogAssumption DEF Age
<1>4. line \in Line /\ line.age = 0 /\ line.fate = fate
  BY <1>3 DEF Line
<1>5. Len(q) < MaxLog /\ qlog' = Appended(q, line)
  BY DEF Write
<1>6. cfg.flushqlog => Fresh(qlog)
  BY DEF IInv
<1> HIDE DEF q, line
<1> QED
  BY <1>2, <1>4, <1>5, <1>6, AppendedIs

LEMMA ReceiveKeeps ==
    ASSUME IInv, NEW privmsg \in BOOLEAN, Receive(privmsg)
    PROVE IInv'
<1>1. UNCHANGED <<cfg, clients, registered, inbox, lost>>
  BY DEF Receive
<1>2. CASE clients = 0
  <2>1. Write(privmsg, "unseen") /\ "unseen" \in Fate
    BY <1>2 DEF Receive, Fate
  <2> QED
    BY <1>1, <2>1, WriteKeeps DEF IInv
<1>3. CASE clients # 0
  <2>1. ~cfg.flushqlog /\ Write(privmsg, "seen") /\ "seen" \in Fate
    BY <1>3 DEF Receive, Fate
  <2> QED
    BY <1>1, <2>1, WriteKeeps DEF IInv
<1> QED
  BY <1>2, <1>3

LEMMA SayKeeps ==
    ASSUME IInv, Say
    PROVE IInv'
<1>1. UNCHANGED <<cfg, clients, registered, inbox, lost>>
  BY DEF Say
<1>2. ~cfg.flushqlog /\ Write(FALSE, "seen") /\ "seen" \in Fate
  BY DEF Say, Fate
<1> QED
  BY <1>1, <1>2, WriteKeeps DEF IInv

(* The flush leaves only lines younger than qloglength; one second later   *)
(* none is older than that, so a full replay reaches every one of them and *)
(* the erasure that follows takes nothing that was missed.                 *)
LEMMA AttachKeeps ==
    ASSUME IInv, NEW late \in Age, Attach(late)
    PROVE IInv'
<1> DEFINE p == Flush(qlog, cfg.qloglength)
           q == Aged(p, late)
           reach == IF cfg.autoqlog = -1 THEN cfg.qloglength ELSE cfg.autoqlog
           r == Replayed(q, reach)
           cause == IF reach < cfg.qloglength THEN "autoqlog"
                    ELSE IF late > 1 THEN "slow attach" ELSE "attach"
<1>1. clients' \in 0 .. MaxClients
  <2>1. clients < MaxClients /\ clients' = clients + 1
    BY DEF Attach
  <2>2. clients \in 0 .. MaxClients
    BY DEF IInv
  <2> QED
    BY <2>1, <2>2, QuickLogAssumption
<1>2. UNCHANGED <<cfg, registered, inbox>>
  BY DEF Attach
<1>3. IF registered /\ reach > 0
      THEN /\ qlog' = IF cfg.flushqlog THEN Flush(r, 0) ELSE r
           /\ lost' = lost \cup (IF cfg.flushqlog THEN Loses(r, 0, cause) ELSE {})
      ELSE qlog' = q /\ UNCHANGED lost
  BY DEF Attach
<1>4. cfg.qloglength \in Int /\ reach \in Int /\ cfg.flushqlog \in BOOLEAN
  BY CfgTyped DEF IInv
<1>5. qlog \in Sorted /\ (cfg.flushqlog => Fresh(qlog))
  BY DEF IInv
<1>6. /\ p \in Sorted /\ (Fresh(qlog) => Fresh(p))
      /\ \A i \in 1 .. Len(p) : p[i].age < cfg.qloglength
  BY <1>4, <1>5, FlushIs
<1> HIDE DEF p, reach
<1>7. p \in Seq(Line)
  BY <1>6 DEF Sorted
<1>8. /\ q \in Sorted /\ (Fresh(p) => Fresh(q))
      /\ late <= 1 => \A i \in 1 .. Len(q) : q[i].age <= cfg.qloglength
  <2>1. late \in Nat
    BY QuickLogAssumption DEF Age
  <2>2. /\ q \in Sorted /\ Len(q) = Len(p)
        /\ \A i \in 1 .. Len(p) : q[i].age <= p[i].age + late
        /\ Fresh(p) => Fresh(q)
    BY <1>6, <2>1, AgedIs
  <2> HIDE DEF q
  <2>3. \A i \in 1 .. Len(p) : p[i].age \in Int /\ q[i].age \in Int
    BY <1>7, <2>2, AgesAre DEF Sorted
  <2>4. late <= 1 => \A i \in 1 .. Len(p) : q[i].age <= cfg.qloglength
    BY <1>4, <1>6, <2>1, <2>2, <2>3
  <2> QED
    BY <2>2, <2>4
<1> HIDE DEF q
<1>9. /\ r \in Sorted
      /\ (\A i \in 1 .. Len(q) : q[i].age <= reach) => ~Missed(r)
  BY <1>4, <1>8, ReplayedIs
<1> HIDE DEF r
<1>10. reach >= cfg.qloglength /\ late <= 1 => ~Missed(r)
  <2>1. q \in Seq(Line)
    BY <1>8 DEF Sorted
  <2>2. \A i \in 1 .. Len(q) : q[i].age \in Int
    BY <2>1, AgesAre
  <2>3. reach >= cfg.qloglength /\ late <= 1 => \A i \in 1 .. Len(q) : q[i].age <= reach
    BY <1>4, <1>8, <2>2
  <2> QED
    BY <1>9, <2>3
<1>11. Loses(r, 0, cause) \subseteq {"autoqlog", "slow attach"}
  <2>1. cause \in {"autoqlog", "slow attach"} \/ (reach >= cfg.qloglength /\ late <= 1)
    BY <1>4, QuickLogAssumption DEF Age
  <2> HIDE DEF cause
  <2>2. Loses(r, 0, cause) \subseteq {cause} /\ (~Missed(r) => Loses(r, 0, cause) = {})
    BY <1>9, LosesIs
  <2> QED
    BY <1>10, <2>1, <2>2
<1>12. lost' \subseteq Causes
  BY <1>3, <1>11 DEF IInv, Causes
<1>13. Flush(r, 0) \in Sorted /\ Flush(r, 0) = <<>>
  BY <1>9, FlushIs, FlushAll
<1>14. Fresh(<<>>)
  BY DEF Fresh
<1>15. qlog' \in Sorted /\ (cfg.flushqlog => Fresh(qlog'))
  BY <1>3, <1>5, <1>6, <1>8, <1>9, <1>13, <1>14
<1> QED
  BY <1>1, <1>2, <1>12, <1>15 DEF IInv

LEMMA FlushQlogKeeps ==
    ASSUME IInv, NEW keep \in Age, FlushQlog(keep)
    PROVE IInv'
<1>1. keep \in Int
  BY QuickLogAssumption DEF Age
<1>2. Flush(qlog, keep) \in Sorted /\ (Fresh(qlog) => Fresh(Flush(qlog, keep)))
  BY <1>1, FlushIs DEF IInv
<1>3. Loses(qlog, keep, "FLUSHQLOG") \subseteq {"FLUSHQLOG"}
  BY <1>1, LosesIs DEF IInv
<1> QED
  BY <1>2, <1>3 DEF IInv, FlushQlog, Causes

LEMMA ReplayQlogKeeps ==
    ASSUME IInv, NEW oldest \in Age, ReplayQlog(oldest)
    PROVE IInv'
<1> DEFINE A == {i \in 1 .. Len(qlog) :
                    qlog[i].fate = "unseen" /\ Replayed(qlog, oldest)[i].fate = "replayed"}
<1>1. qlog' = Asked(qlog, A)
  BY DEF ReplayQlog, Asked
<1> HIDE DEF A
<1>2. qlog' \in Sorted /\ (Fresh(qlog) => Fresh(qlog'))
  <2>1. qlog \in Sorted
    BY DEF IInv
  <2> QED
    BY <1>1, <2>1, AskedIs
<1> QED
  BY <1>2 DEF IInv, ReplayQlog

LEMMA EmptySorted == <<>> \in Sorted /\ Fresh(<<>>)
BY QuickLogAssumption DEF Sorted, Ordered, Fresh

LEMMA RehashStep ==
    ASSUME IInv, NEW c \in Configs, Rehash(c)
    PROVE IInv'
<1>1. qlog' = <<>>
  BY FlushAll DEF IInv, Rehash
<1>2. Loses(qlog, 0, "REHASH") \subseteq {"REHASH"}
  BY LosesIs DEF IInv
<1>3. inbox' \in BOOLEAN
  BY DEF Rehash
<1>4. UNCHANGED <<clients, registered>> /\ cfg' = c
  BY DEF Rehash
<1>5. lost' = lost \cup Loses(qlog, 0, "REHASH")
  BY DEF Rehash
<1> QED
  BY <1>1, <1>2, <1>3, <1>4, <1>5, EmptySorted DEF IInv, Causes

LEMMA RestartKeeps ==
    ASSUME IInv, Restart
    PROVE IInv'
<1>1. Loses(qlog, 0, "exit") \subseteq {"exit"}
  BY LosesIs DEF IInv
<1>2. 0 \in 0 .. MaxClients
  BY QuickLogAssumption
<1>3. inbox' \in BOOLEAN
  BY QuickLogAssumption DEF IInv, Restart
<1> QED
  BY <1>1, <1>2, <1>3, EmptySorted DEF IInv, Restart, Causes

LEMMA TickKeeps ==
    ASSUME IInv, Tick
    PROVE IInv'
<1>1. Aged(qlog, 1) \in Sorted /\ (Fresh(qlog) => Fresh(Aged(qlog, 1)))
  BY AgedIs DEF IInv
<1> QED
  BY <1>1 DEF IInv, Tick

LEMMA OthersKeep ==
    ASSUME IInv, Detach \/ ServerUp \/ ServerDrop \/ DelInbox
    PROVE IInv'
<1>1. CASE Detach
  <2>1. clients' \in 0 .. MaxClients
    BY <1>1, QuickLogAssumption DEF IInv, Detach
  <2> QED
    BY <1>1, <2>1 DEF IInv, Detach
<1>2. CASE ServerUp \/ ServerDrop
  BY <1>2 DEF IInv, ServerUp, ServerDrop
<1>3. CASE DelInbox
  <2>1. inbox' \in BOOLEAN
    BY <1>3 DEF DelInbox
  <2> QED
    BY <1>3, <2>1 DEF IInv, DelInbox
<1> QED
  BY <1>1, <1>2, <1>3

LEMMA InitIInv == Init => IInv
<1>1. 0 \in 0 .. MaxClients
  BY QuickLogAssumption
<1>2. ASSUME Init PROVE inbox \in BOOLEAN
  BY <1>2, QuickLogAssumption DEF Init
<1> QED
  BY <1>1, <1>2, EmptySorted DEF Init, IInv

LEMMA StepIInv == IInv /\ [Next]_vars => IInv'
<1> SUFFICES ASSUME IInv, [Next]_vars PROVE IInv'
  OBVIOUS
<1>1. CASE UNCHANGED vars
  BY <1>1 DEF vars, IInv
<1>2. CASE \E privmsg \in BOOLEAN : Receive(privmsg)
  BY <1>2, ReceiveKeeps
<1>3. CASE Say
  BY <1>3, SayKeeps
<1>4. CASE \E late \in Age : Attach(late)
  BY <1>4, AttachKeeps
<1>5. CASE \E keep \in Age : FlushQlog(keep)
  BY <1>5, FlushQlogKeeps
<1>6. CASE \E oldest \in Age : ReplayQlog(oldest)
  BY <1>6, ReplayQlogKeeps
<1>7. CASE Detach \/ ServerUp \/ ServerDrop \/ DelInbox
  BY <1>7, OthersKeep
<1>8. CASE \E c \in Configs : Rehash(c)
  BY <1>8, RehashStep
<1>9. CASE Restart
  BY <1>9, RestartKeeps
<1>10. CASE Tick
  BY <1>10, TickKeeps
<1> QED
  BY <1>1, <1>2, <1>3, <1>4, <1>5, <1>6, <1>7, <1>8, <1>9, <1>10 DEF Next

LEMMA Invariant == Spec => []IInv
BY InitIInv, StepIInv, PTL DEF Spec
------------------------------------------------------------------------------
(* The quicklog is bounded and made of lines; a private message that was   *)
(* lost, was lost in one of the ways the code has.                         *)
THEOREM TypeCorrect == Spec => []TypeOK
<1>1. IInv => TypeOK
  BY DEF IInv, TypeOK, Sorted, Causes
<1> QED
  BY <1>1, Invariant, PTL

(* qlog_flush() may stop at the first young line: no older line is behind. *)
THEOREM ListOrdered == Spec => []OldestFirst
<1>1. IInv => OldestFirst
  BY DEF IInv, OldestFirst, Sorted, Ordered
<1> QED
  BY <1>1, Invariant, PTL

(* With flushqlog, what qlog_replay() gives a client that attaches, no     *)
(* client has seen before, unless it asked for it.                         *)
THEOREM OnlyMissed == Spec => []MissedIsUnseen
<1>1. IInv => MissedIsUnseen
  BY DEF IInv, MissedIsUnseen, Fresh
<1> QED
  BY <1>1, Invariant, PTL

(* fakeconnect() loses no private message between the inbox and a full     *)
(* replay, whatever the age of the lines, if it takes a second at the most *)
(* from the one to the other; one that takes longer may.                   *)
THEOREM NothingLostOnAttach == Spec => []MovedOrReplayed
<1>1. IInv => MovedOrReplayed
  BY DEF IInv, MovedOrReplayed, Causes
<1> QED
  BY <1>1, Invariant, PTL
==============================================================================
