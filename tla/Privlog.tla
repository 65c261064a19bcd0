------------------------------- MODULE Privlog -------------------------------
(***************************************************************************)
(* The logs of private conversations, src/src/privlog.c: one file per      *)
(* nick, opened when there is something to write, closed when the          *)
(* conversation pauses, and finished with a footer when it is over.        *)
(* Actions on the state of this component only; Messages composes them.    *)
(*                                                                         *)
(* fopen() may fail.  If it does for an entry of the list, privlog_write() *)
(* frees the entry and leaves it there: whoever walks the list later reads *)
(* freed memory, finds nothing of use in it or crashes.                    *)
(***************************************************************************)
EXTENDS Naturals

CONSTANTS
    Nick,         \* those who talk with the user
    TimeOpen,     \* PRIVLOG_TIME_OPEN
    TimeGrace,    \* PRIVLOG_TIME_GRACE
    CheckPeriod,  \* PRIVLOG_CHECK_PERIOD
    MaxIdle       \* bound: a longer pause is only long

ASSUME PrivlogAssumption ==
    /\ TimeOpen \in Nat
    /\ TimeGrace \in Nat /\ TimeGrace > TimeOpen
    /\ CheckPeriod \in Nat \ {0}
    /\ MaxIdle \in Nat /\ MaxIdle > TimeGrace + CheckPeriod

VARIABLES
    open_logs,     \* for each nick its entry in the list, or Unlisted
    privlogtimer,  \* timers.privlog
    freed,         \* nicks of entries that are freed but in the list
    mark,          \* external: the last mark in the file of a nick
    torn           \* ghost: files that miss a footer for want of fopen(),
                   \* or as miau crashed

privlogVars == <<open_logs, privlogtimer, freed, mark, torn>>

Unlisted == [file |-> "none", idle |-> 0]
Entry == [file : {"open", "closed"}, idle : 0 .. MaxIdle] \cup {Unlisted}
Listed == {n \in Nick : open_logs[n] # Unlisted}

hasOpen == Listed # {} \/ freed # {}

PrivlogInit ==
    /\ open_logs = [n \in Nick |-> Unlisted]
    /\ privlogtimer = 0
    /\ freed = {}
    /\ mark = [n \in Nick |-> "none"]
    /\ torn = {}

(* privlog_write(): an entry is made for a new conversation, with a header *)
(* in the file, and a closed file is opened again.                         *)
PrivlogWrite(n, opens) ==
    /\ IF open_logs[n].file = "open" \/ opens
       THEN /\ open_logs' = [open_logs EXCEPT ![n] = [file |-> "open", idle |-> 0]]
            /\ mark' = IF n \in Listed THEN mark ELSE [mark EXCEPT ![n] = "header"]
            /\ UNCHANGED <<freed, torn>>
       ELSE /\ open_logs' = [open_logs EXCEPT ![n] = Unlisted]
            /\ freed' = IF n \in Listed THEN freed \cup {n} ELSE freed
            /\ torn' = IF n \in Listed THEN torn \cup {n} ELSE torn
            /\ UNCHANGED mark
    /\ UNCHANGED privlogtimer

\* Fault: a closed file is not opened for the footer.
FinalizedClosed(gone, opens) ==
    /\ mark' = [n \in Nick |->
                   IF n \in gone /\ open_logs[n].file = "open" THEN "footer" ELSE mark[n]]
    /\ UNCHANGED torn

(* finalize_log() of the entries gone, opens being the files that fopen()  *)
(* can open: a closed one is opened again for the footer.                  *)
Finalized(gone, opens) ==
    LET done == {n \in gone : open_logs[n].file = "open" \/ n \in opens} IN
    /\ mark' = [n \in Nick |-> IF n \in done THEN "footer" ELSE mark[n]]
    /\ torn' = torn \cup (gone \ done)

\* Fault: a file that is old enough to be closed counts as over if closed.
CloseOldEarly(idle, opens) ==
    LET over == {n \in Listed : idle[n] > TimeGrace}
        Paused(n) == IF idle[n] > TimeGrace THEN "closed" ELSE open_logs[n].file
    IN
    /\ Finalized(over, opens)
    /\ open_logs' = [n \in Nick |->
                        IF n \in over \/ n \notin Listed THEN Unlisted
                        ELSE [file |-> Paused(n), idle |-> idle[n]]]

(* privlog_close_old().                                                    *)
CloseOld(idle, opens) ==
    LET over == {n \in Listed : idle[n] > TimeGrace}
        Paused(n) == IF idle[n] > TimeOpen THEN "closed" ELSE open_logs[n].file
    IN
    /\ Finalized(over, opens)
    /\ open_logs' = [n \in Nick |->
                        IF n \in over \/ n \notin Listed THEN Unlisted
                        ELSE [file |-> Paused(n), idle |-> idle[n]]]

(* A second passes: while there are entries the timer counts, and every    *)
(* PRIVLOG_CHECK_PERIOD old files are looked for.                          *)
PrivlogTimer(opens) ==
    LET idle == [n \in Nick |-> IF open_logs[n].idle = MaxIdle THEN MaxIdle
                                ELSE open_logs[n].idle + 1]
        due == hasOpen /\ privlogtimer + 1 >= CheckPeriod
    IN
    /\ privlogtimer' = IF ~hasOpen THEN privlogtimer
                       ELSE IF due THEN 0 ELSE privlogtimer + 1
    /\ IF due THEN CloseOld(idle, opens)
       ELSE /\ open_logs' = [n \in Nick |->
                                IF n \in Listed THEN [open_logs[n] EXCEPT !.idle = idle[n]]
                                ELSE Unlisted]
            /\ UNCHANGED <<mark, torn>>
    /\ UNCHANGED freed

(* privlog_close_all() of escape(), after which the program starts anew.   *)
PrivlogExit(opens) ==
    /\ Finalized(Listed, opens)
    /\ open_logs' = [n \in Nick |-> Unlisted]
    /\ privlogtimer' = 0
    /\ freed' = {}

(* A walk of the list crashes on a freed entry, and miau is started anew.  *)
PrivlogCrash ==
    /\ freed # {}
    /\ torn' = torn \cup Listed
    /\ open_logs' = [n \in Nick |-> Unlisted]
    /\ privlogtimer' = 0
    /\ freed' = {}
    /\ UNCHANGED mark
==============================================================================
