---------------------------- MODULE MCServerLoop ----------------------------
(* Small servers for ServerLoop.  A client's name says what it is; the first*)
(* letter of a task's name says whose it is.                                *)
EXTENDS ServerLoop

(* a1 and a2 are a batch without stream, b1 a stream, m1 a metrics request, *)
(* s1 a slot action.                                                        *)
ByName  == [t \in Task |-> CASE t \in {"a1", "a2"} -> "all" [] t = "b1" -> "stream"
                              [] t = "m1" -> "metrics" [] t = "s1" -> "slot"]
TwoAll  == [t \in Task |-> IF t = "a1" THEN "all" ELSE "all2"]

KindOf  == [c \in Client |-> IF c = "all2" THEN "all" ELSE c]

Anywhere      == [t \in Task |-> AnySlot]
Nowhere       == [t \in Task |-> BadSlot]
(* No slot will ever do for a1.                                             *)
PumpSlot      == [t \in Task |-> CASE t = "a1" -> BadSlot [] t = "a2" -> AnySlot
                                    [] t = "s1" -> 1]
=============================================================================
