------------------------------ MODULE Automode ------------------------------
(***************************************************************************)
(* Automatic modes: what src/src/automode.c, server.c and channels.c do    *)
(* with the fields oper and mode_queue of the entries of the channel       *)
(* lists, and with status.automodes, for which a timer of check_timers()   *)
(* is looked at.  ChannelState composes these with the lists of Channels.  *)
(*                                                                         *)
(* Whom the rules of miaurc give a mode is left open (Match has the        *)
(* masks); the order of a queue and the grouping of its MODE lines by      *)
(* threes are left out.                                                    *)
(***************************************************************************)
EXTENDS Channels

CONSTANTS
    Nick,        \* other people
    Me,          \* status.nickname
    ModeLines,   \* changes of modes: flags and parameters
    MaxModes     \* bound: of status.automodes

ASSUME AutomodeAssumption ==
    /\ IsFiniteSet(Nick)
    /\ Me \notin Nick
    /\ MaxModes \in Nat
    /\ \A line \in ModeLines : \A i \in DOMAIN line.flags :
           line.flags[i] \in {"+", "-"} =>
               /\ i < Len(line.flags)
               /\ line.flags[i + 1] \notin {"+", "-"}

VARIABLES
    oper,        \* oper of the entry on the active or the passive list
    oldoper,     \* oper of the entries of old_channels, for each channel
    queue,       \* the mode queues of all entries: channel, nick and mode
    automodes    \* status.automodes

automodeVars == <<oper, oldoper, queue, automodes>>

Modes == {"o", "v"}
Unknown == -1
Opers == {Unknown, 0, 1}

AutomodeInit ==
    /\ oper = [c \in Channel |-> Unknown]
    /\ oldoper = [c \in Channel |-> << >>]
    /\ queue = {}
    /\ automodes = 0
------------------------------------------------------------------------------
(* An entry keeps its fields when it changes lists, with these exceptions. *)

Listed == active \cup passive

(* The entries that channel_rem() or channel_free() takes off the lists in *)
(* this step.                                                              *)
Removed == Listed \ (active' \cup passive')

EntriesOf(s, c) == Cardinality({i \in DOMAIN s : s[i].chan = c})

\* Fault: what miau knew on the last server is still known on this one.
OperSurvivesLoss ==
    oper' = [c \in Channel |->
        IF c \in Removed THEN Unknown
        ELSE IF c \in active' \ Listed /\ oldoper[c] # << >> THEN Head(oldoper[c])
        ELSE oper[c]]

(* server_drop() and clients_left() forget it, channel_add() starts an     *)
(* entry with it unknown or takes the entry from the old list as it is.    *)
FollowOper ==
    oper' = [c \in Channel |->
        IF c \in Removed \cup (active \ active') THEN Unknown
        ELSE IF c \in active' \ Listed /\ oldoper[c] # << >> THEN Head(oldoper[c])
        ELSE oper[c]]

(* channel_rem(LIST_ACTIVE) appends an entry to the old list, channel_add()*)
(* takes the first one of a channel, and of those that are purged the      *)
(* first one may stay.                                                     *)
FollowOld ==
    oldoper' = [c \in Channel |->
        IF EntriesOf(old', c) > EntriesOf(old, c) THEN Append(oldoper[c], oper[c])
        ELSE IF c \in active' \ Listed /\ oldoper[c] # << >> THEN Tail(oldoper[c])
        ELSE SubSeq(oldoper[c], 1, EntriesOf(old', c))]

(* channel_rem() drops the queue of an entry and channel_free() loses it.  *)
(* A queue goes to the passive list and back with its entry.               *)
FollowQueue ==
    /\ queue' = {e \in queue : e[1] \notin Removed}
    /\ UNCHANGED automodes

AutomodeFollows == FollowOper /\ FollowOld /\ FollowQueue
------------------------------------------------------------------------------
(* RPL_NAMREPLY.                                                           *)
NamesReply(c, alone) ==
    /\ oper' = IF c \in active /\ oper[c] = Unknown
               THEN [oper EXCEPT ![c] = IF alone THEN 1 ELSE 0]
               ELSE oper
    /\ UNCHANGED <<oldoper, queue, automodes>>

\* Fault: the limit has a parameter when it is taken away as well.
LimitAlwaysHasParam(line, s, i) ==
    LET flag == line.flags[i]
        next == [s EXCEPT !.used = @ + 1]
        act == [sign |-> s.sign, flag |-> flag, who |-> line.params[next.used]]
    IN
    CASE flag \in {"+", "-"} -> [s EXCEPT !.sign = flag]
      [] flag \in Modes /\ next.used <= Len(line.params) ->
             [next EXCEPT !.acts = Append(@, act)]
      [] flag \in {"k", "b", "l"} -> next
      [] OTHER -> s

(* A flag of parse_modes(): with s the sign and the parameters used so far *)
(* and the modes o and v of people found, each with the parameter that is  *)
(* its turn; "b" stands for b, e and I as well.  A sign is taken to be     *)
(* followed by a flag ("Assume there's only [-+]").                        *)
ParseFlag(line, s, i) ==
    LET flag == line.flags[i]
        next == [s EXCEPT !.used = @ + 1]
        act == [sign |-> s.sign, flag |-> flag, who |-> line.params[next.used]]
    IN
    CASE flag \in {"+", "-"} -> [s EXCEPT !.sign = flag]
      [] flag \in Modes /\ next.used <= Len(line.params) ->
             [next EXCEPT !.acts = Append(@, act)]
      [] flag \in {"k", "b"} \/ (flag = "l" /\ s.sign = "+") -> next
      [] OTHER -> s

(* parse_modes(): the modes o and v of people that a line changes.         *)
ParseModes(line) ==
    LET f[i \in 0 .. Len(line.flags)] ==
        IF i = 0 THEN [sign |-> "+", used |-> 0, acts |-> << >>]
        ELSE ParseFlag(line, f[i - 1], i)
    IN f[Len(line.flags)].acts

(* MODE on a channel: what miau is given or loses decides oper, and what   *)
(* others are given need not be given to them any more.                    *)
ModesChange(c, line) ==
    LET acts == ParseModes(line)
        own == {i \in DOMAIN acts : acts[i].who = Me /\ acts[i].flag = "o"}
        given == {i \in DOMAIN acts \ own : acts[i].sign = "+"}
    IN
    /\ IF c \in active /\ own # {}
       THEN \E i \in own :
                /\ \A j \in own : j <= i
                /\ oper' = [oper EXCEPT ![c] = IF acts[i].sign = "+" THEN 1 ELSE 0]
       ELSE UNCHANGED oper
    /\ queue' = IF c \in active
                THEN queue \ {<<c, acts[i].who, acts[i].flag>> : i \in given}
                ELSE queue
    /\ UNCHANGED <<oldoper, automodes>>

\* Fault: one is counted for a nick, however many modes are queued for it.
AutomodeCountsNicks(c, n, granted) ==
    LET new == {<<c, n, m>> : m \in granted} \ queue IN
    /\ automodes + Cardinality(new) <= MaxModes
    /\ queue' = queue \cup new
    /\ automodes' = IF new = {} THEN automodes ELSE automodes + 1
    /\ UNCHANGED <<oper, oldoper>>

(* automode_queue() for n, whom the rules give the modes of granted: what  *)
(* is on the queue is not queued again.                                    *)
AutomodeQueue(c, n, granted) ==
    LET new == {<<c, n, m>> : m \in granted} \ queue IN
    /\ automodes + Cardinality(new) <= MaxModes
    /\ queue' = queue \cup new
    /\ automodes' = automodes + Cardinality(new)
    /\ UNCHANGED <<oper, oldoper>>

(* automode_drop_nick(), or automode_drop_channel() of a nick: the count   *)
(* stays as it is.                                                         *)
AutomodeDrop(chans, n) ==
    /\ queue' = queue \ (chans \X {n} \X Modes)
    /\ UNCHANGED <<oper, oldoper, automodes>>

(* What automode_do() gives: the queues of all channels where miau is      *)
(* operator.                                                               *)
Granted == {e \in queue : e[1] \in active /\ oper[e[1]] = 1}

\* Fault: nothing is counted any more once the timer has run.
AutomodeTimerResets ==
    /\ automodes > 0
    /\ queue' = queue \ Granted
    /\ automodes' = 0
    /\ UNCHANGED <<oper, oldoper>>

(* The timer of check_timers() is due: automode_do() and automode_clear(). *)
AutomodeTimer ==
    /\ automodes > 0
    /\ queue' = queue \ Granted
    /\ automodes' = automodes - Cardinality(Granted)
    /\ UNCHANGED <<oper, oldoper>>
=============================================================================
