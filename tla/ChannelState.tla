---------------------------- MODULE ChannelState ----------------------------
(***************************************************************************)
(* What miau keeps of a channel besides the list it is on: the steps of    *)
(* Channels with what they do to automatic modes (Automode) and logs       *)
(* (Chanlog), and what the server tells of other people on a channel.      *)
(*                                                                         *)
(* The section "The channels" is external: who is on them, who is operator *)
(* and what the server therefore says, in the order in which it happens.   *)
(* It names the people of a channel, in one line, before it says anything  *)
(* else after a JOIN of miau.                                              *)
(***************************************************************************)
EXTENDS Automode, Chanlog, Match

VARIABLES
    people,      \* external: who else is on which channel
    chanop,      \* external: the channels where miau is operator
    naming       \* external: the channels whose people the server names next

worldVars == <<people, chanop, naming>>
stateVars == <<vars, automodeVars, chanlogVars, worldVars>>

(* What the server says of the people on channels and of their modes.      *)
News ==
    [cmd : {"NAMES"}, chan : Channel, alone : BOOLEAN]
        \cup [cmd : {"JOINED", "PARTED", "KICKED"}, chan : Channel, nick : Nick]
        \cup [cmd : {"QUIT"}, nick : Nick]
        \cup [cmd : {"MODE"}, chan : Channel, line : ModeLines]

ListCmds == {"JOIN", "PART", "KICK"}
------------------------------------------------------------------------------
StateInit ==
    /\ Init
    /\ AutomodeInit
    /\ ChanlogInit
    /\ people = {}
    /\ chanop = {}
    /\ naming = {}

(* The other fields of an entry follow it from list to list.               *)
Follow == AutomodeFollows /\ ChanlogFollows

(* Where the server no longer has miau, it is no operator.                 *)
WorldFollows ==
    /\ chanop' = chanop \cap member'
    /\ naming' = naming \cap member'
    /\ UNCHANGED people

(* The steps of run(), and of clients, on the lists.                       *)
ListStep ==
    /\ \/ Welcome
       \/ ServerDrop
       \/ JoinTimer
       \/ ClientAttaches
       \/ ClientLeaves
       \/ \E c \in Channel : ClientJoins(c)
       \/ \E c \in Channel : ClientParts(c)
       \/ ClientPartsAll
       \/ in # << >> /\ Head(in).cmd \in ListCmds /\ Reply
    /\ Follow
    /\ WorldFollows

(* rehash(), with other rules for the logs.                                *)
RehashAll(new, drop, r) ==
    /\ Rehash(new, drop)
    /\ AutomodeFollows
    /\ ChanlogRehash(r)
    /\ WorldFollows

(* The join of a channel: who is first on it becomes operator.             *)
Admits(c) ==
    /\ naming = {}
    /\ ServerJoins(c)
    /\ LET new == member' \ member IN
       /\ naming' = new
       /\ chanop' = chanop \cup {d \in new : \A n \in Nick : <<d, n>> \notin people}
    /\ UNCHANGED <<automodeVars, chanlogVars, people>>

ServerStep ==
    \/ \E c \in Channel : Admits(c)
    \/ /\ naming = {}
       /\ \/ ServerIsDone
          \/ \E c \in Channel : ServerParts(c)
          \/ \E c \in Channel : Kicked(c)
       /\ WorldFollows
       /\ UNCHANGED <<automodeVars, chanlogVars>>
------------------------------------------------------------------------------
(* The channels.                                                           *)

Send(e) == Len(in) < MaxIn /\ in' = Append(in, e)

Elsewhere ==
    UNCHANGED <<cfg, listVars, clients, registered, out, member, automodeVars,
                chanlogVars>>

(* RPL_NAMREPLY, after a JOIN of miau or for a client that asks.           *)
Names(c) ==
    /\ c \in member
    /\ naming \subseteq {c}
    /\ naming' = {}
    /\ Send([cmd |-> "NAMES", chan |-> c,
             alone |-> \A n \in Nick : <<c, n>> \notin people])
    /\ UNCHANGED <<people, chanop>>
    /\ Elsewhere

Told(c, e) == IF c \in member THEN Send(e) ELSE UNCHANGED in

PersonJoins(c, n) ==
    /\ naming = {}
    /\ <<c, n>> \notin people
    /\ people' = people \cup {<<c, n>>}
    /\ Told(c, [cmd |-> "JOINED", chan |-> c, nick |-> n])
    /\ UNCHANGED <<chanop, naming>>
    /\ Elsewhere

PersonLeaves(c, n, how) ==
    /\ naming = {}
    /\ <<c, n>> \in people
    /\ people' = people \ {<<c, n>>}
    /\ Told(c, [cmd |-> how, chan |-> c, nick |-> n])
    /\ UNCHANGED <<chanop, naming>>
    /\ Elsewhere

PersonQuits(n) ==
    LET on == {c \in Channel : <<c, n>> \in people} IN
    /\ naming = {}
    /\ on # {}
    /\ people' = people \ (on \X {n})
    /\ IF on \cap member # {} THEN Send([cmd |-> "QUIT", nick |-> n]) ELSE UNCHANGED in
    /\ UNCHANGED <<chanop, naming>>
    /\ Elsewhere

(* What a line of MODE means: every flag that has a parameter has its own, *)
(* the first one the first, and so on.                                     *)
Sign(line, i) ==
    LET signs == {j \in 1 .. i : line.flags[j] \in {"+", "-"}} IN
    IF signs = {} THEN "+" ELSE line.flags[CHOOSE j \in signs : \A k \in signs : k <= j]

Takes(line, i) ==
    \/ line.flags[i] \in {"o", "v", "b", "k"}
    \/ line.flags[i] = "l" /\ Sign(line, i) = "+"

Param(line, i) == line.params[Cardinality({j \in 1 .. i : Takes(line, j)})]

(* The server gives every flag its parameter (RFC 2812, 3.2.3).            *)
ASSUME StateAssumption ==
    \A line \in ModeLines :
        /\ line.flags \in Seq(STRING)
        /\ line.params \in Seq(Nick \cup {Me} \cup STRING)
        /\ Cardinality({j \in DOMAIN line.flags : Takes(line, j)}) <= Len(line.params)

(* Somebody changes modes, for people on the channel.                      *)
ModesAreChanged(c, line) ==
    LET of(who) == {i \in DOMAIN line.flags :
                       line.flags[i] \in Modes /\ Param(line, i) = who}
        mine == {i \in of(Me) : line.flags[i] = "o"}
    IN
    /\ naming = {}
    /\ c \in member
    /\ \A n \in Nick : of(n) # {} => <<c, n>> \in people
    /\ chanop' = IF mine = {} THEN chanop
                 ELSE IF Sign(line, CHOOSE i \in mine : \A j \in mine : j <= i) = "+"
                 THEN chanop \cup {c} ELSE chanop \ {c}
    /\ Send([cmd |-> "MODE", chan |-> c, line |-> line])
    /\ UNCHANGED <<people, naming>>
    /\ Elsewhere

PeopleStep ==
    \/ \E c \in Channel : Names(c)
    \/ \E c \in Channel, n \in Nick : PersonJoins(c, n)
    \/ \E c \in Channel, n \in Nick, how \in {"PARTED", "KICKED"} : PersonLeaves(c, n, how)
    \/ \E n \in Nick : PersonQuits(n)
    \/ \E c \in Channel, line \in ModeLines : ModesAreChanged(c, line)
------------------------------------------------------------------------------
(* server_reply() for what is not about the lists.                         *)
NewsReply ==
    /\ in # << >>
    /\ in' = Tail(in)
    /\ LET e == Head(in) IN
       \/ e.cmd = "NAMES" /\ NamesReply(e.chan, e.alone)
       \/ e.cmd = "MODE" /\ ModesChange(e.chan, e.line)
       \/ /\ e.cmd = "JOINED"
          /\ e.chan \in active
          /\ \E granted \in SUBSET Modes : AutomodeQueue(e.chan, e.nick, granted)
       \/ e.cmd = "PARTED" /\ AutomodeDrop({e.chan} \cap active, e.nick)
       \/ e.cmd = "QUIT" /\ AutomodeDrop(active, e.nick)
       \/ /\ e.cmd = "KICKED" \/ (e.cmd = "JOINED" /\ e.chan \notin active)
          /\ UNCHANGED automodeVars
    /\ UNCHANGED <<cfg, listVars, clients, registered, out, member, chanlogVars, worldVars>>

(* check_timers() is at the timer of the automatic modes.                  *)
GiveModes ==
    /\ AutomodeTimer
    /\ UNCHANGED <<vars, chanlogVars, worldVars>>

StateNext ==
    \/ ListStep
    \/ \E new \in Configs, drop \in BOOLEAN, r \in Rules : RehashAll(new, drop, r)
    \/ ServerStep
    \/ PeopleStep
    \/ NewsReply
    \/ GiveModes

(* check_timers() looks at the timer once a second.                        *)
StateSpec == StateInit /\ [][StateNext]_stateVars /\ WF_stateVars(GiveModes)
------------------------------------------------------------------------------
(* The timer of check_timers() gives modes only while status.automodes is  *)
(* not 0 (miau.c:1392): it is never less than the modes on the queues,     *)
(* through queues that channel_rem() drops, people who leave, modes that   *)
(* somebody else gives and channels that change lists.                     *)
Covered == automodes >= Cardinality(queue)

(* Once miau has read what the server said, it takes itself for operator   *)
(* (channels.h:66-70) of a channel only where it is: after other people's  *)
(* MODE lines, whose parameters parse_modes() has to tell apart, after     *)
(* being kicked and after a lost connection.                               *)
OperKnown == in = << >> => \A c \in active : oper[c] = 1 => c \in chanop

(* An active channel with a rule of its own writes to the file of it, and  *)
(* with one for all channels it has a log, unless fopen() failed: also a   *)
(* channel that comes back from the passive list with its log open, and    *)
(* after a REHASH that has changed the rules (miau.c:855-859, 882-885).    *)
ActiveIsLogged ==
    \A c \in active :
        /\ c \in rules.own => log[c] \in {"own", "failed"}
        /\ rules.all => log[c] # "none"

(* Although match() misses names that a mask covers ("Issues: This         *)
(* algorithm is non-greedy", match.c:33), who is permitted is covered by a *)
(* rule that permits, and by no later plain one that denies; and who is    *)
(* covered by a plain rule that permits, and by no later rule, is          *)
(* permitted.  The host in place of "@@" does not change that.  A mask has *)
(* no state, and what it decides is looked at where miau starts.           *)
MasksDecide == StateInit => PermitsCovered

(* A mode that is due on a channel where miau is operator is given in the  *)
(* end, or no longer due: the timer does not stop before it, however the   *)
(* count and the queues have come apart.                                   *)
AreGiven ==
    \A c \in Channel, n \in Nick, m \in Modes :
        LET due == <<c, n, m>> \in Granted IN due ~> ~due
=============================================================================
