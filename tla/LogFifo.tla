------------------------------ MODULE LogFifo ------------------------------
(***************************************************************************)
(* What the log promises its callers: while it is open, every message      *)
(* handed to it is written once, in the order of the calls; it may be      *)
(* closed at any time, and it opens again only after everything accepted   *)
(* before was written.                                                     *)
(***************************************************************************)
EXTENDS Naturals, Sequences

CONSTANT Message    \* what can be logged

VARIABLES
    pending,        \* accepted and not yet written, oldest first
    open            \* whether messages are accepted

Init == pending = <<>> /\ open = TRUE

Log(m) == open /\ pending' = Append(pending, m) /\ UNCHANGED open

Write == pending # <<>> /\ pending' = Tail(pending) /\ UNCHANGED open

Close == open /\ open' = FALSE /\ UNCHANGED pending

Reopen == ~open /\ pending = <<>> /\ open' = TRUE /\ UNCHANGED pending

Next == (\E m \in Message : Log(m)) \/ Write \/ Close \/ Reopen

vars == <<pending, open>>

Spec == Init /\ [][Next]_vars /\ WF_vars(Write)
=============================================================================
