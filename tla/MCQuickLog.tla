------------------------------ MODULE MCQuickLog ------------------------------
(***************************************************************************)
(* Settings for TLC: a quicklog of two seconds or of none, replayed fully, *)
(* in part or not at all, with and without flushqlog and the inbox.        *)
(***************************************************************************)
EXTENDS QuickLog

MCConfigs ==
    [qloglength : {0, 2}, autoqlog : {-1, 0, 1}, flushqlog : BOOLEAN, inbox : BOOLEAN]
================================================================================
