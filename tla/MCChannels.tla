------------------------------ MODULE MCChannels ------------------------------
(***************************************************************************)
(* Settings of leave, rejoin and jointries for TLC.                        *)
(***************************************************************************)
EXTENDS Channels

Set(leave, rejoin, tries) ==
    [leave |-> leave, rejoin |-> rejoin, jointries |-> tries]

\* Stay and rejoin, leave and rejoin, leave for good.
MCConfigs == {Set(FALSE, TRUE, 2), Set(TRUE, TRUE, 1), Set(TRUE, FALSE, 0)}

\* Leave when the last client detaches and rejoin when one attaches.
MCLeaving == {Set(TRUE, TRUE, 1)}
=============================================================================
