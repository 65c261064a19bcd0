------------------------------- MODULE Outbox -------------------------------
(***************************************************************************)
(* What miau promises the IRC server about the lines it sends: they leave  *)
(* in the order they were written, urgent lines apart, and no faster than  *)
(* a token bucket of a known capacity allows.  SendQueue implements this   *)
(* specification; nothing here speaks of how.                              *)
(***************************************************************************)
EXTENDS Integers, Sequences

CONSTANTS
    Batch,      \* the sequences of lines one write may hand over
    Urgent,     \* the lines that may overtake the others
    Farewell,   \* the line that ends a connection
    Cost,       \* credit, in seconds, that sending one line takes
    Capacity,   \* the most credit that can be saved up
    MaxDelay    \* the longest time, in seconds, between two looks at the clock

VARIABLES
    pending,    \* lines accepted and not yet sent, in the order they will leave
    credit,     \* seconds of credit saved up; one line may overdraw it
    wire        \* the lines the last step sent

boxVars == <<pending, credit, wire>>

AtMost(a, b) == IF a <= b THEN a ELSE b

(* Sending may cost more than Cost per line and time may earn less than its *)
(* length, never the reverse.                                               *)
Spend(available) ==
    /\ credit' \in Int
    /\ -Cost <= credit'
    /\ credit' <= available - Cost * Len(wire')

Init ==
    /\ pending = << >>
    /\ wire = << >>
    /\ credit \in Int
    /\ -Cost <= credit
    /\ credit <= Capacity

Accept(lines) ==
    /\ wire' \o pending' = pending \o lines
    /\ Spend(credit)

Overtake(m) ==
    /\ wire' \o pending' = <<m>> \o pending
    /\ Spend(credit)

Elapse(d) ==
    /\ wire' \o pending' = pending
    /\ Spend(AtMost(Capacity, credit + d))

Discard ==
    /\ pending' = << >>
    /\ wire' \in {<< >>, <<Farewell>>}
    /\ UNCHANGED credit

Next ==
    \/ \E lines \in Batch : Accept(lines)
    \/ \E m \in Urgent : Overtake(m)
    \/ \E d \in 1 .. MaxDelay : Elapse(d)
    \/ Discard

Spec == Init /\ [][Next]_boxVars
=============================================================================
