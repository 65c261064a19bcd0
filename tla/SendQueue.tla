------------------------------ MODULE SendQueue ------------------------------
(***************************************************************************)
(* The send queue and the flood control of miau (src/src/irc.c, with the   *)
(* refill in check_timers() of src/src/miau.c).  Every line for the IRC    *)
(* server goes through irc_write() or irc_write_head(): it is sent at once *)
(* while the budget msgtimer allows it and queued otherwise; once a second *)
(* check_timers() may refill the budget and empty the queue into it.       *)
(*                                                                         *)
(* A line is one member of a small set: what is told apart is MODE (which  *)
(* irc_process_queue() charges twice), PONG and MODE (the lines written    *)
(* with irc_write_head()), the lines of the registration, QUIT, and the    *)
(* PRIVMSG that is written without a look at the state of the connection.  *)
(***************************************************************************)
EXTENDS Integers, Sequences, FiniteSets

CONSTANTS
    Text,        \* other lines of clients and of miau itself
    FloodTimer,  \* cfg.floodtimer, seconds of budget per line
    BurstSizes,  \* the values cfg.burstsize takes, by miaurc and by REHASH
    MaxBurst,    \* an upper bound of them
    MaxDelay,    \* bound: seconds between two calls of check_timers()
    MaxQueue     \* bound: lines in the queue

ASSUME FloodAssumption ==
    /\ FloodTimer \in Nat
    /\ MaxBurst \in Nat
    /\ BurstSizes \subseteq 1 .. MaxBurst
    /\ MaxDelay \in Nat \ {0}
    /\ MaxQueue \in Nat

VARIABLES
    msgtimer,    \* lines that may be sent, less one for the direct path
    msg_queue,   \* the lines waiting, next to leave first
    age,         \* newtime - floodtime at the last call of check_timers()
    burstsize,   \* cfg.burstsize
    connected,   \* c_server.socket is open
    wire         \* the lines the last step handed to send()

vars == <<msgtimer, msg_queue, age, burstsize, connected, wire>>

Session == Text \cup {"MODE"}      \* written with irc_write() while connected
Urgent == {"PONG", "MODE"}         \* written with irc_write_head()
Unchecked == {"PRIVMSG"}           \* written whether or not connected
Registrations == {<<"NICK", "USER">>, <<"PASS", "NICK", "USER">>}
Lines == Session \cup Urgent \cup Unchecked \cup {"PASS", "NICK", "USER"}

Lesser(a, b) == IF a <= b THEN a ELSE b

(* A refill adds at most MaxBurst + 1 lines to a budget that is at least   *)
(* -1, so an age above this one has the effect of this one.                *)
AgeLimit == FloodTimer * (MaxBurst + 1)
------------------------------------------------------------------------------
(* irc_write_smart() for lines written one after the other at the tail: it *)
(* sends while msgtimer is above 1, and queues the rest.                   *)
SentAtOnce(lines) ==
    IF msgtimer > 1 THEN Lesser(msgtimer - 1, Len(lines)) ELSE 0

\* Fault: lines are queued in front, as irc_write_head() does.
WriteTailInFront(lines) ==
    LET n == SentAtOnce(lines) IN
    /\ Len(msg_queue) + Len(lines) <= MaxQueue
    /\ msgtimer' = msgtimer - n
    /\ wire' = SubSeq(lines, 1, n)
    /\ msg_queue' = SubSeq(lines, n + 1, Len(lines)) \o msg_queue

WriteTail(lines) ==
    LET n == SentAtOnce(lines) IN
    /\ Len(msg_queue) + Len(lines) <= MaxQueue
    /\ msgtimer' = msgtimer - n
    /\ wire' = SubSeq(lines, 1, n)
    /\ msg_queue' = msg_queue \o SubSeq(lines, n + 1, Len(lines))

(* irc_write_smart() for a line written at the head.                       *)
WriteHead(m) ==
    /\ Len(msg_queue) < MaxQueue
    /\ IF msgtimer > 1
       THEN /\ msgtimer' = msgtimer - 1
            /\ wire' = <<m>>
            /\ UNCHANGED msg_queue
       ELSE /\ msg_queue' = <<m>> \o msg_queue
            /\ wire' = << >>
            /\ UNCHANGED msgtimer

(* What is left of budget t once irc_process_queue() has sent the first k  *)
(* lines: a MODE costs two.                                                *)
Budget(t, k) ==
    t - k - Cardinality({i \in 1 .. k : msg_queue[i] = "MODE"})

(* irc_process_queue() from budget t sends the first k lines: the budget   *)
(* was positive before each of them, and it stops at an empty queue or an  *)
(* exhausted budget.                                                       *)
ProcessQueue(t) ==
    \E k \in 0 .. Len(msg_queue) :
        /\ \A j \in 0 .. k - 1 : Budget(t, j) > 0
        /\ k = Len(msg_queue) \/ Budget(t, k) <= 0
        /\ msgtimer' = Budget(t, k)
        /\ wire' = SubSeq(msg_queue, 1, k)
        /\ msg_queue' = SubSeq(msg_queue, k + 1, Len(msg_queue))

(* check_timers(): the new budget of a refill a seconds after the last.    *)
Refilled(a) ==
    IF FloodTimer = 0
    THEN burstsize
    ELSE Lesser(msgtimer + a \div FloodTimer, burstsize)
------------------------------------------------------------------------------
Init ==
    /\ msgtimer = 0
    /\ msg_queue = << >>
    /\ age = AgeLimit          \* floodtime starts as 0, long ago
    /\ burstsize \in BurstSizes
    /\ connected = FALSE
    /\ wire = << >>

(* irc_connect() has a connection and registers on it.                     *)
Register ==
    /\ ~connected
    /\ connected' = TRUE
    /\ \E lines \in Registrations : WriteTail(lines)
    /\ UNCHANGED <<age, burstsize>>

(* A client's or miau's own line for the server.                           *)
Write ==
    /\ connected
    /\ \E m \in Session : WriteTail(<<m>>)
    /\ UNCHANGED <<age, burstsize, connected>>

(* The anti-idle line of check_timers() and the DCC offer of               *)
(* cmd_privmsg_ctcp(), neither of which asks whether miau is connected.    *)
WriteUnchecked ==
    /\ \E m \in Unchecked : WriteTail(<<m>>)
    /\ UNCHANGED <<age, burstsize, connected>>

(* PONG, and the MODE of automode_do().                                    *)
Push ==
    /\ connected
    /\ \E m \in Urgent : WriteHead(m)
    /\ UNCHANGED <<age, burstsize, connected>>

\* Fault: floodtime is not set to newtime after a refill.
CheckTimersKeepsAge(d) ==
    LET a == Lesser(age + d, AgeLimit) IN
    /\ age' = a
    /\ IF a >= FloodTimer /\ msgtimer < burstsize
       THEN ProcessQueue(Refilled(a))
       ELSE /\ wire' = << >>
            /\ UNCHANGED <<msgtimer, msg_queue>>
    /\ UNCHANGED <<burstsize, connected>>

\* Fault: the last line of the budget is never refilled.
CheckTimersRefillsLate(d) ==
    LET a == Lesser(age + d, AgeLimit) IN
    /\ IF a >= FloodTimer /\ msgtimer + 1 < burstsize
       THEN /\ age' = 0
            /\ ProcessQueue(Refilled(a))
       ELSE /\ age' = a
            /\ wire' = << >>
            /\ UNCHANGED <<msgtimer, msg_queue>>
    /\ UNCHANGED <<burstsize, connected>>

(* check_timers() finds that d seconds have gone by.                       *)
CheckTimers(d) ==
    LET a == Lesser(age + d, AgeLimit) IN
    /\ IF a >= FloodTimer /\ msgtimer < burstsize
       THEN /\ age' = 0
            /\ ProcessQueue(Refilled(a))
       ELSE /\ age' = a
            /\ wire' = << >>
            /\ UNCHANGED <<msgtimer, msg_queue>>
    /\ UNCHANGED <<burstsize, connected>>

Tick == \E d \in 1 .. MaxDelay : CheckTimers(d)

\* Fault: the queue survives the connection.
ServerDropKeepsQueue ==
    /\ wire' = IF connected THEN <<"QUIT">> ELSE << >>
    /\ connected' = FALSE
    /\ UNCHANGED <<msgtimer, msg_queue, age, burstsize>>

(* server_drop() empties the queue and says QUIT past the flood control if *)
(* there is a connection to close.                                         *)
ServerDrop ==
    /\ msg_queue' = << >>
    /\ wire' = IF connected THEN <<"QUIT">> ELSE << >>
    /\ connected' = FALSE
    /\ UNCHANGED <<msgtimer, age, burstsize>>

(* rehash() may change the burst size; the budget stays what it was.       *)
Rehash ==
    /\ burstsize' \in BurstSizes
    /\ wire' = << >>
    /\ UNCHANGED <<msgtimer, msg_queue, age, connected>>

Next ==
    \/ Register
    \/ Write
    \/ WriteUnchecked
    \/ Push
    \/ Tick
    \/ ServerDrop
    \/ Rehash

(* run() calls check_timers() on every turn of its loop, and its select()  *)
(* returns at least once a second.                                         *)
Fairness == WF_vars(Tick)

Spec == Init /\ [][Next]_vars

FairSpec == Spec /\ Fairness
------------------------------------------------------------------------------
TypeOK ==
    /\ msgtimer \in -1 .. MaxBurst
    /\ msg_queue \in Seq(Lines)
    /\ age \in 0 .. AgeLimit
    /\ burstsize \in BurstSizes
    /\ connected \in BOOLEAN
    /\ wire \in Seq(Lines \cup {"QUIT"})

(* While a line waits the direct path of irc_write_smart() is closed       *)
(* (irc.c:564), so that no line written later overtakes it: the queue is   *)
(* only ever left behind by irc_process_queue() with the budget spent.     *)
NoBypass == msg_queue # << >> => msgtimer <= 1

(* server_drop() empties the queue because "we're no longer connected to   *)
(* server" (server.c:78): without a connection nothing waits but the       *)
(* PRIVMSG lines of the two writers that do not look, so no line of one    *)
(* session is ever sent on the next.                                       *)
NothingLeftOver ==
    ~connected => \A i \in DOMAIN msg_queue : msg_queue[i] \in Unchecked

(* The lines leave in the order they were written, PONG and MODE of        *)
(* irc_write_head() apart, and within a token bucket that gains a second   *)
(* of credit per second, pays FloodTimer per line and holds two bursts:    *)
(* the budget itself and the age of the last refill, which is not reset    *)
(* while the budget is full (miau.c:1146-1159).                            *)
Promise == INSTANCE Outbox WITH
    Batch <- Registrations \cup {<<m>> : m \in Session \cup Unchecked},
    Farewell <- "QUIT",
    Cost <- FloodTimer,
    Capacity <- 2 * FloodTimer * MaxBurst,
    pending <- msg_queue,
    credit <- FloodTimer * msgtimer + Lesser(age, FloodTimer * MaxBurst)

ImplementsOutbox == Promise!Spec

(* irc.c:602: "As long as queue is non-empty and flood control allows us   *)
(* to send, send first message in queue": again and again the queue is     *)
(* empty or a line of it leaves.                                           *)
QueueMoves == []<>(msg_queue = << >> \/ wire # << >>)

(* Unless PONG and MODE lines keep jumping the queue for ever, a line that *)
(* waits is sent in the end or dropped with its connection.                *)
NoStarvation ==
    <>[][~Push]_vars =>
        \A m \in Text :
            (\E i \in DOMAIN msg_queue : msg_queue[i] = m) ~>
            (\/ \E i \in DOMAIN wire : wire[i] = m
             \/ ~connected)
=============================================================================
