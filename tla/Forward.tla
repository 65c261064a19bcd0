------------------------------- MODULE Forward -------------------------------
(***************************************************************************)
(* Private messages that miau collects and pipes into the program of       *)
(* cfg.forwardmsg: parse_msg_me() of src/src/server.c fills the buffer     *)
(* forwardmsg, check_timers() of miau.c empties it.  Actions on the state  *)
(* of this component only; Messages composes them.                         *)
(***************************************************************************)
EXTENDS Naturals

CONSTANTS
    ForwardTime,  \* cfg.forwardtime, in seconds
    MaxLines,     \* bound: beyond it the buffer only is long
    MaxWait       \* bound: a longer time is only long

ASSUME ForwardAssumption ==
    /\ ForwardTime \in Nat \ {0}
    /\ MaxLines \in Nat \ {0}
    /\ MaxWait \in Nat /\ MaxWait > ForwardTime

VARIABLES
    forwardmsg,    \* lines in the buffer, NULL if 0
    forwardtimer,  \* timers.forward
    quiet          \* ghost: seconds since the last line was added

forwardVars == <<forwardmsg, forwardtimer, quiet>>

Longer(t, bound) == IF t = bound THEN t ELSE t + 1

ForwardInit ==
    /\ forwardmsg = 0
    /\ forwardtimer = 0
    /\ quiet = 0

(* parse_msg_me() adds a line, and the timer starts over.                  *)
Collect ==
    /\ forwardmsg' = Longer(forwardmsg, MaxLines)
    /\ forwardtimer' = 0
    /\ quiet' = 0

forwardDue == forwardtimer + 1 >= ForwardTime

\* Fault: after popen() has failed once, nothing is tried again.
ForwardTimerOnce(on, piped) ==
    /\ forwardtimer' = IF ~on \/ forwardtimer = ForwardTime THEN forwardtimer
                       ELSE forwardtimer + 1
    /\ forwardmsg' = IF on /\ forwardtimer + 1 = ForwardTime /\ piped THEN 0 ELSE forwardmsg
    /\ quiet' = Longer(quiet, MaxWait)

(* A second passes for check_timers().  When the timer is due it starts    *)
(* over, and the buffer goes into the pipe unless popen() fails.           *)
ForwardTimer(on, piped) ==
    /\ forwardtimer' = IF ~on THEN forwardtimer
                       ELSE IF forwardDue THEN 0 ELSE forwardtimer + 1
    /\ forwardmsg' = IF on /\ forwardDue /\ piped THEN 0 ELSE forwardmsg
    /\ quiet' = Longer(quiet, MaxWait)
==============================================================================
