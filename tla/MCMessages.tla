------------------------------ MODULE MCMessages ------------------------------
(***************************************************************************)
(* Settings for TLC: private logs always, with messages forwarded or not,  *)
(* and logs only while no client is attached.                              *)
(***************************************************************************)
EXTENDS Messages

MCConfigs ==
    {[privlog |-> {"detached", "attached"}, forwardmsg |-> FALSE],
     [privlog |-> {"detached"}, forwardmsg |-> TRUE]}
================================================================================
