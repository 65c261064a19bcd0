------------------------------ MODULE Messages ------------------------------
(***************************************************************************)
(* What becomes of a private message besides the quicklog: parse_msg_me()  *)
(* of src/src/server.c logs it (Privlog) and collects it for forwarding    *)
(* (Forward), depending on the clients and on the settings, which REHASH   *)
(* may change at any time; check_timers() of miau.c drives both.           *)
(***************************************************************************)
EXTENDS Forward, Privlog

CONSTANT
    Configs       \* settings of privlog and forwardmsg

ASSUME MessagesAssumption ==
    Configs \subseteq [privlog : SUBSET {"detached", "attached"}, forwardmsg : BOOLEAN]

VARIABLES
    cfg,          \* the settings in force
    attached      \* c_clients.connected > 0

vars == <<cfg, attached, forwardVars, privlogVars>>

logging == (IF attached THEN "attached" ELSE "detached") \in cfg.privlog
------------------------------------------------------------------------------
Init ==
    /\ cfg \in Configs
    /\ attached = FALSE
    /\ ForwardInit
    /\ PrivlogInit

(* parse_msg_me() of a message of n who is not on the ignore list.  CTCP   *)
(* and commands for miau are logged but not forwarded.                     *)
PrivateMessage(n, plain, opens) ==
    /\ logging \/ plain
    /\ IF logging THEN PrivlogWrite(n, opens) ELSE UNCHANGED privlogVars
    /\ IF plain /\ cfg.forwardmsg THEN Collect ELSE UNCHANGED forwardVars
    /\ UNCHANGED <<cfg, attached>>

(* cmd_privmsg(): the user talks to n, which any setting but never logs.   *)
Say(n, opens) ==
    /\ attached
    /\ cfg.privlog # {}
    /\ PrivlogWrite(n, opens)
    /\ UNCHANGED <<cfg, attached, forwardVars>>

(* A client attaches, or the last one leaves.                              *)
AttachOrLeave ==
    /\ attached' = ~attached
    /\ UNCHANGED <<cfg, forwardVars, privlogVars>>

(* rehash() leaves buffer, timers and logs as they are.                    *)
Rehash(c) ==
    /\ cfg' = c
    /\ UNCHANGED <<attached, forwardVars, privlogVars>>

(* A second passes for check_timers().                                     *)
Tick(opens, piped) ==
    /\ ForwardTimer(cfg.forwardmsg, piped)
    /\ PrivlogTimer(opens)
    /\ UNCHANGED <<cfg, attached>>

(* escape(): what is left to forward is lost.                              *)
Exit(opens) ==
    /\ PrivlogExit(opens)
    /\ attached' = FALSE
    /\ forwardmsg' = 0 /\ forwardtimer' = 0 /\ quiet' = 0
    /\ UNCHANGED cfg

(* miau crashes on a freed entry.                                          *)
Crash ==
    /\ PrivlogCrash
    /\ attached' = FALSE
    /\ forwardmsg' = 0 /\ forwardtimer' = 0 /\ quiet' = 0
    /\ UNCHANGED cfg

Next ==
    \/ \E n \in Nick, plain, opens \in BOOLEAN : PrivateMessage(n, plain, opens)
    \/ \E n \in Nick, opens \in BOOLEAN : Say(n, opens)
    \/ AttachOrLeave
    \/ \E c \in Configs : Rehash(c)
    \/ \E opens \in SUBSET Nick, piped \in BOOLEAN : Tick(opens, piped)
    \/ \E opens \in SUBSET Nick : Exit(opens)
    \/ Crash

(* The clock does not stop, and popen() does not fail for ever.            *)
Fairness ==
    /\ WF_vars(\E opens \in SUBSET Nick, piped \in BOOLEAN : Tick(opens, piped))
    /\ SF_vars(cfg.forwardmsg /\ forwardDue /\ \E opens \in SUBSET Nick : Tick(opens, TRUE))

Spec == Init /\ [][Next]_vars /\ Fairness
------------------------------------------------------------------------------
TypeOK ==
    /\ cfg \in Configs
    /\ attached \in BOOLEAN
    /\ forwardmsg \in 0 .. MaxLines
    /\ forwardtimer \in 0 .. ForwardTime - 1
    /\ quiet \in 0 .. MaxWait
    /\ open_logs \in [Nick -> Entry]
    /\ privlogtimer \in 0 .. CheckPeriod - 1
    /\ freed \subseteq Nick
    /\ mark \in [Nick -> {"none", "header", "footer"}]
    /\ torn \subseteq Nick

(* A log file has a header without a footer exactly while the conversation *)
(* is in the list, over pauses, reopenings and the exit of miau: unless    *)
(* fopen() failed or miau crashed, each header gets its footer and no      *)
(* second one comes before it.                                             *)
Bracketed ==
    \A n \in Nick \ torn : n \in Listed <=> mark[n] = "header"

(* A paused conversation gives its file back, and a dead one its entry,    *)
(* within one PRIVLOG_CHECK_PERIOD, whatever the timer was at when the     *)
(* conversation began.                                                     *)
IdleIsClosed ==
    \A n \in Listed :
        /\ open_logs[n].idle < TimeGrace + CheckPeriod
        /\ open_logs[n].file = "open" => open_logs[n].idle < TimeOpen + CheckPeriod

(* When messages pause and forwarding stays on, what was collected is      *)
(* piped out in the end, also if popen() failed.                           *)
ForwardedInTheEnd ==
    <>[][quiet' >= quiet]_vars /\ <>[](cfg.forwardmsg) => []<>(forwardmsg = 0)
==============================================================================
