------------------------------ MODULE MCKvRing ------------------------------
(* Small rings for TLC.  Slots are numbers and lengths are compared, so there
   is no symmetry to use. *)
EXTENDS KvRing

CONSTANTS r1, r2, r3

Lengths(a, b, c) == [r \in {r1, r2, r3} |-> IF r = r1 THEN a ELSE IF r = r2 THEN b ELSE c]

Server(shift, recurrent, early, len) ==
    [ctx_shift |-> shift, recurrent |-> recurrent, early |-> early, len |-> len]

(* Prompts that fill the ring together or alone, one that is too long for a
   server that does not shift, and one that a server that shifts cuts *)
Fitting ==
    {Server(FALSE, rec, FALSE, Lengths(20, 40, 70)) : rec \in BOOLEAN}
        \cup {Server(TRUE, rec, FALSE, Lengths(30, 30, 62)) : rec \in BOOLEAN}
        \cup {Server(TRUE, FALSE, FALSE, Lengths(70, 0, 0))}

(* A prompt longer than the context next to one that fits *)
Overlong == {Server(TRUE, FALSE, FALSE, Lengths(40, 70, 1))}
=============================================================================
