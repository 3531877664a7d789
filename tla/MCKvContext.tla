---------------------------- MODULE MCKvContext ----------------------------
(* Small contexts for TLC. *)
EXTENDS KvContext

\* A cfg has no negative numbers.
McShifts == {-1}

(***************************************************************************)
(* The loop of the two searches, as it is written in the code: the head    *)
(* where it ends and whether it found a slot. `wedge` says that the search *)
(* also looks at n_tested when it wraps, as the one of the sliding cache.  *)
(***************************************************************************)
RECURSIVE Scan(_, _, _, _, _)
Scan(c, n, head, tested, wedge) ==
  IF head + n > c.size
  THEN IF wedge /\ tested + c.size - head >= c.size
       THEN <<FALSE, 0>>
       ELSE Scan(c, n, 0, tested + c.size - head, wedge)
  ELSE LET stop == {i \in 0..n-1 : c.cells[head + i].pos >= 0}
           step == Min(stop) + 1
       IN  IF stop = {} THEN <<TRUE, head>>
           ELSE IF tested + step >= c.size THEN <<FALSE, head + step>>
           ELSE Scan(c, n, head + step, tested + step, wedge)

\* The definitions of the model say what the loops compute.
ASSUME ScanAgrees ==
  \A size \in 1..5 : \A n \in 1..size : \A head \in 0..size : \A taken \in SUBSET (0..size-1) :
    LET c == [NewCache(size) EXCEPT
                !.head = head,
                !.cells = [i \in 0..size-1 |-> [@[i] EXCEPT !.pos = IF i \in taken THEN 0 ELSE -1]]]
    IN  \A wedge \in BOOLEAN :
          Scan(c, n, head, 0, wedge) =
            IF SlotStarts(c, n) # {} THEN <<TRUE, FirstSlot(c, n)>>
            ELSE <<FALSE, GaveUpAt(c, n, IF wedge THEN 0 ELSE Min(Taken(c)) + 1)>>
=============================================================================
