----------------------------- MODULE MCMailOutbox -----------------------------
(* Instances of MailOutbox: one message that is submitted twice, and two    *)
(* that compete for one slot.                                               *)
EXTENDS MailOutbox, TLC

CONSTANTS m1, m2, c1, c2

Local == [m \in Messages |-> "local"]
Mixed == (m1 :> "local") @@ (m2 :> "relay")
Twice == [c \in Submitters |-> m1]
Each  == (c1 :> m1) @@ (c2 :> m2)

Submission(message, route, failures, cancellations) ==
    [message |-> message, route |-> route, faults |-> failures, cancels |-> cancellations]

Resubmitted == Submission(Twice, Local, 2, 2)
Competing   == Submission(Each, Mixed, 0, 1)
Failing     == Submission(Each, Mixed, 1, 0)

AllSetups == {Resubmitted, Competing, Failing}
LateRetry == {Submission(Twice, Local, 0, 2)}
=============================================================================
