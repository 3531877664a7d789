------------------------------- MODULE KvMap -------------------------------
(***************************************************************************)
(* What the KV cache promises to whoever calls the functions of llama.h:   *)
(* each sequence holds tokens at positions.  There are no cells here, no   *)
(* fragmentation and nothing that is left for later; defragmentation and   *)
(* the application of shifts are not to be seen.                           *)
(***************************************************************************)
EXTENDS Integers, Sequences, FiniteSets, FiniteSetsExt

CONSTANTS Seqs, MaxPos, MaxBatch, Shifts, FileTokens

VARIABLE held

\* An entry says that seq has tok at pos; `key` is the position its key is rotated to, which
\* is what attention sees, `pos` the one that the mask is made from.
Entry(s, p, t) == [seq |-> s, pos |-> p, key |-> p, tok |-> t]

Of(s)       == {e \in held : e.seq = s}
PosNext(s)  == IF Of(s) = {} THEN 0 ELSE Max({e.pos : e \in Of(s)}) + 1
In(s, p0, p1) == {e \in Of(s) : e.pos \in p0..p1-1}

\* The entries of e's that were moved to the positions To(pos); a negative one is dropped.
Moved(S, To(_)) == {Entry(e.seq, To(e.pos), e.tok) : e \in {f \in S : To(f.pos) >= 0}}

\* Token i of a batch for the sequences q[1], q[2]... each gets the next position of its own.
BatchPos(q, i) == PosNext(q[i]) + Cardinality({j \in 1..i-1 : q[j] = q[i]})

Init == held = {}

Decode(q) ==
  held' = held \cup {Entry(q[i], BatchPos(q, i), <<q[i], BatchPos(q, i)>>) : i \in DOMAIN q}

SeqRm(s, p0) == held' = held \ In(s, p0, MaxPos + 1)

SeqCp(src, dst) == held' = held \cup {Entry(dst, e.pos, e.tok) : e \in Of(src)}

SeqKeep(s) == held' = Of(s)

SeqAdd(s, p0, p1, d) ==
  held' = (held \ In(s, p0, p1)) \cup Moved(In(s, p0, p1), LAMBDA p : p + d)

SeqDiv(s, p0, p1, d) ==
  held' = (held \ In(s, p0, p1)) \cup Moved(In(s, p0, p1), LAMBDA p : p \div d)

\* A block goes, what is after it moves down.
Discard(s, p0, p1) ==
  held' = (held \ In(s, p0, MaxPos + 1))
            \cup Moved(In(s, p1, MaxPos + 1), LAMBDA p : p - (p1 - p0))

Clear == held' = {}

\* A state of n tokens, marked with -1, is read from a file, for one sequence or for all.
Restored(s, n) == {Entry(s, p, <<-1, p>>) : p \in 0..n-1}
Restore(s, n)    == held' = (held \ Of(s)) \cup Restored(s, n)
RestoreAll(s, n) == held' = Restored(s, n)

Ranges == {r \in (0..MaxPos) \X (1..MaxPos+1) : r[1] < r[2]}

\* A call that changes what is held.
Next ==
  /\ held' # held
  /\ \/ \E n \in 1..MaxBatch : \E q \in [1..n -> Seqs] : Decode(q)
     \/ \E s \in Seqs : \E p0 \in 0..MaxPos : SeqRm(s, p0)
     \/ \E s \in Seqs : \E dst \in Seqs : SeqCp(s, dst)
     \/ \E s \in Seqs : SeqKeep(s)
     \/ \E s \in Seqs : \E n \in FileTokens : Restore(s, n) \/ RestoreAll(s, n)
     \/ \E s \in Seqs : \E r \in Ranges : \E d \in Shifts : SeqAdd(s, r[1], r[2], d)
     \/ \E s \in Seqs : \E r \in Ranges : SeqDiv(s, r[1], r[2], 2) \/ Discard(s, r[1], r[2])
     \/ Clear

Spec == Init /\ [][Next]_held
=============================================================================
