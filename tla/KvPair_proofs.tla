---------------------------- MODULE KvPair_proofs ----------------------------
(* The two caches of a context side by side: every token of the sliding     *)
(* cache is one of kv_self, and lies in view of the sliding layers.  And    *)
(* what kv_self is to its callers: a map from sequences and positions to    *)
(* tokens, which every call changes as its name says.  From both together   *)
(* it follows that what a query can attend to is in the sliding cache.      *)
EXTENDS KvContext_proofs

(***************************************************************************)
(* The inductive invariant.  That the entries of one cache are entries of  *)
(* the other is not inductive: a cell that several sequences share may be  *)
(* moved in one cache and, split into two, stay in the other.  Each cell   *)
(* has a twin with the same owners.                                        *)
(***************************************************************************)
Twin(x, y) == x.pos = y.pos /\ x.seqs = y.seqs /\ x.row.tok = y.row.tok

Within(c, e) == \A i \in Occupied(c) : \E j \in Occupied(e) : Twin(c.cells[i], e.cells[j])

InView(c) == \A i \in Occupied(c) : i < c.n

PairInv ==
  /\ IInv
  /\ swa_kv_active => Within(kv_swa, kv_self)
  /\ InView(kv_swa)

(***************************************************************************)
(* What an operation has to do for the twins to stay.                      *)
(***************************************************************************)
LEMMA Through ==
  ASSUME NEW c, NEW e, NEW g, Within(c, e), Within(e, g)
  PROVE  Within(c, g)
BY DEF Within, Twin

(* d keeps no other cells than c has.                                       *)
Narrowed(c, d) ==
  /\ Idx(d) = Idx(c) /\ d.n = c.n
  /\ \A i \in Idx(c) : d.cells[i].seqs # {} => c.cells[i].seqs # {}

LEMMA StaysInView ==
  ASSUME NEW c, NEW d, Narrowed(c, d), InView(c)
  PROVE  InView(d)
BY DEF Narrowed, InView, Occupied

LEMMA TwinsStay ==
  ASSUME NEW c, NEW e, NEW d, NEW f, Within(c, e), Narrowed(c, d), Idx(f) = Idx(e),
         \A i \in Idx(c), j \in Idx(e) :
           Twin(c.cells[i], e.cells[j]) => Twin(d.cells[i], f.cells[j])
  PROVE  Within(d, f)
<1>. SUFFICES ASSUME NEW i \in Occupied(d)
              PROVE  \E j \in Occupied(f) : Twin(d.cells[i], f.cells[j])
  BY DEF Within
<1>1. i \in Occupied(c) /\ i \in Idx(c) /\ d.cells[i].seqs # {}
  BY DEF Narrowed, Occupied
<1>2. PICK j \in Occupied(e) : Twin(c.cells[i], e.cells[j])
  BY <1>1 DEF Within
<1>3. j \in Idx(e)
  BY DEF Occupied
<1>4. Twin(d.cells[i], f.cells[j])
  BY <1>1, <1>2, <1>3
<1>5. f.cells[j].seqs # {} /\ j \in Idx(f)
  BY <1>1, <1>3, <1>4 DEF Twin
<1>. QED
  BY <1>4, <1>5 DEF Occupied

(***************************************************************************)
(* Cells.                                                                  *)
(***************************************************************************)
LEMMA ClearedFields ==
  ASSUME NEW x \in Cell
  PROVE  Cleared(x).pos = -1 /\ Cleared(x).seqs = {} /\ Cleared(x).row.tok = <<>>
BY DEF Cleared, Cell, NoRow

LEMMA RepositionedFields ==
  ASSUME NEW x \in Cell, NEW p \in Int
  PROVE  /\ Repositioned(x, p).pos = p /\ Repositioned(x, p).seqs = x.seqs
         /\ Repositioned(x, p).row = x.row
BY DEF Repositioned, Cell

LEMMA RotatedTwin ==
  ASSUME NEW x \in Cell
  PROVE  Twin(Rotated(x), x) /\ Twin(x, Rotated(x))
<1>1. Rotated(x).pos = x.pos /\ Rotated(x).seqs = x.seqs
  BY DEF Rotated, Cell
<1>. DEFINE r == IF x.row = NoRow THEN NoRow
                 ELSE [tok |-> x.row.tok, rot |-> x.row.rot + x.delta]
<1>2. Rotated(x).row = r
  BY DEF Rotated, Cell
<1>3. r.tok = x.row.tok
  OBVIOUS
<1>. QED
  BY <1>1, <1>2, <1>3 DEF Twin

(***************************************************************************)
(* The operations on sequences do to a cell what its position and its      *)
(* owners say, so that twins stay twins.                                   *)
(***************************************************************************)
At(x, s, p0, p1) == s \in x.seqs /\ x.pos \in p0..p1-1

RmCell(x, s, p0, p1) ==
  IF At(x, s, p0, p1) /\ x.seqs = {s} THEN Cleared(x)
  ELSE IF At(x, s, p0, p1) THEN [x EXCEPT !.seqs = x.seqs \ {s}] ELSE x

KeepCell(x, s) == IF s \notin x.seqs THEN Cleared(x) ELSE [x EXCEPT !.seqs = {s}]

CpCell(x, src, dst) ==
  IF src \in x.seqs /\ x.pos >= 0 THEN [x EXCEPT !.seqs = x.seqs \cup {dst}] ELSE x

AddCell(x, s, p0, p1, m) ==
  IF At(x, s, p0, p1) /\ x.pos + m < 0 THEN Cleared(Repositioned(x, x.pos + m))
  ELSE IF At(x, s, p0, p1) THEN Repositioned(x, x.pos + m) ELSE x

DivCell(x, s, p0, p1) == IF At(x, s, p0, p1) THEN Repositioned(x, x.pos \div 2) ELSE x

LEMMA RmTwins ==
  ASSUME NEW x \in Cell, NEW y \in Cell, Twin(x, y), NEW s, NEW p0, NEW p1
  PROVE  Twin(RmCell(x, s, p0, p1), RmCell(y, s, p0, p1))
<1>1. At(x, s, p0, p1) <=> At(y, s, p0, p1)
  BY DEF Twin, At
<1>2. ASSUME NEW z \in Cell, NEW T, NEW w, w = [z EXCEPT !.seqs = T]
      PROVE  w.pos = z.pos /\ w.seqs = T /\ w.row = z.row
  BY <1>2 DEF Cell
<1>3. CASE At(x, s, p0, p1) /\ x.seqs = {s}
  BY <1>1, <1>3, ClearedFields DEF Twin, RmCell
<1>4. CASE At(x, s, p0, p1) /\ x.seqs # {s}
  <2>. DEFINE T == x.seqs \ {s}
  <2>1. RmCell(x, s, p0, p1) = [x EXCEPT !.seqs = T] /\ RmCell(y, s, p0, p1) = [y EXCEPT !.seqs = T]
    BY <1>1, <1>4 DEF RmCell, Twin
  <2>. HIDE DEF T
  <2>. QED
    BY <1>2, <2>1 DEF Twin
<1>5. CASE ~At(x, s, p0, p1)
  BY <1>1, <1>5 DEF RmCell
<1>. QED
  BY <1>3, <1>4, <1>5

LEMMA KeepTwins ==
  ASSUME NEW x \in Cell, NEW y \in Cell, Twin(x, y), NEW s
  PROVE  Twin(KeepCell(x, s), KeepCell(y, s))
<1>1. ASSUME NEW z \in Cell, NEW w, w = [z EXCEPT !.seqs = {s}]
      PROVE  w.pos = z.pos /\ w.seqs = {s} /\ w.row = z.row
  BY <1>1 DEF Cell
<1>2. CASE s \notin x.seqs
  BY <1>2, ClearedFields DEF Twin, KeepCell
<1>3. CASE s \in x.seqs
  <2>1. KeepCell(x, s) = [x EXCEPT !.seqs = {s}] /\ KeepCell(y, s) = [y EXCEPT !.seqs = {s}]
    BY <1>3 DEF KeepCell, Twin
  <2>. QED
    BY <1>1, <2>1 DEF Twin
<1>. QED
  BY <1>2, <1>3

LEMMA CpTwins ==
  ASSUME NEW x \in Cell, NEW y \in Cell, Twin(x, y), NEW src, NEW dst
  PROVE  Twin(CpCell(x, src, dst), CpCell(y, src, dst))
<1>1. ASSUME NEW z \in Cell, NEW T, NEW w, w = [z EXCEPT !.seqs = T]
      PROVE  w.pos = z.pos /\ w.seqs = T /\ w.row = z.row
  BY <1>1 DEF Cell
<1>2. CASE src \in x.seqs /\ x.pos >= 0
  <2>. DEFINE T == x.seqs \cup {dst}
  <2>1. CpCell(x, src, dst) = [x EXCEPT !.seqs = T] /\ CpCell(y, src, dst) = [y EXCEPT !.seqs = T]
    BY <1>2 DEF CpCell, Twin
  <2>. HIDE DEF T
  <2>. QED
    BY <1>1, <2>1 DEF Twin
<1>3. CASE ~(src \in x.seqs /\ x.pos >= 0)
  BY <1>3 DEF CpCell, Twin
<1>. QED
  BY <1>2, <1>3

LEMMA AddTwins ==
  ASSUME NEW x \in Cell, NEW y \in Cell, Twin(x, y), NEW s, NEW p0, NEW p1, NEW m \in Int
  PROVE  Twin(AddCell(x, s, p0, p1, m), AddCell(y, s, p0, p1, m))
<1>1. At(x, s, p0, p1) <=> At(y, s, p0, p1)
  BY DEF Twin, At
<1>. DEFINE p == x.pos + m
            v == Repositioned(x, p)
            w == Repositioned(y, p)
<1>2. p \in Int /\ y.pos + m = p
  BY DEF Cell, Twin
<1>3. /\ AddCell(x, s, p0, p1, m) = IF At(x, s, p0, p1) /\ p < 0 THEN Cleared(v)
                                    ELSE IF At(x, s, p0, p1) THEN v ELSE x
      /\ AddCell(y, s, p0, p1, m) = IF At(y, s, p0, p1) /\ p < 0 THEN Cleared(w)
                                    ELSE IF At(y, s, p0, p1) THEN w ELSE y
  BY <1>2 DEF AddCell
<1>. HIDE DEF p
<1>4. v \in Cell /\ w \in Cell
  <2>1. x.pos \in Int /\ x.delta \in Int /\ y.pos \in Int /\ y.delta \in Int
    BY DEF Cell
  <2>2. x.delta + p - x.pos \in Int /\ y.delta + p - y.pos \in Int
    BY <1>2, <2>1
  <2>. QED
    BY <1>2, <2>2 DEF Repositioned, Cell
<1>5. Twin(v, w)
  BY <1>2, RepositionedFields DEF Twin
<1>. HIDE DEF v, w
<1>6. Twin(Cleared(v), Cleared(w))
  BY <1>4, ClearedFields DEF Twin
<1>. QED
  BY <1>1, <1>3, <1>5, <1>6

LEMMA DivTwins ==
  ASSUME NEW x \in Cell, NEW y \in Cell, Twin(x, y), NEW s, NEW p0, NEW p1
  PROVE  Twin(DivCell(x, s, p0, p1), DivCell(y, s, p0, p1))
<1>1. At(x, s, p0, p1) <=> At(y, s, p0, p1)
  BY DEF Twin, At
<1>2. PICK p : p = x.pos \div 2
  OBVIOUS
<1>3. p \in Int /\ p = y.pos \div 2
  BY <1>2 DEF Cell, Twin
<1>4. Twin(Repositioned(x, p), Repositioned(y, p))
  BY <1>3, RepositionedFields DEF Twin
<1>. QED
  BY <1>1, <1>2, <1>3, <1>4 DEF DivCell

LEMMA RmCells ==
  ASSUME NEW c, Sound(c), NEW s, NEW p0, NEW p1, ~hybrid, NEW d, d = CellsSeqRm(c, s, p0, p1, hybrid)
  PROVE  /\ Idx(d) = Idx(c) /\ d.n = c.n
         /\ \A i \in Idx(c) : d.cells[i] = RmCell(c.cells[i], s, p0, p1)
<1>1. DOMAIN c = Fields
  BY SoundFacts
<1>2. d.size = c.size /\ d.n = c.n
  BY <1>1 DEF CellsSeqRm, Fields
<1>. DEFINE hit == InRange(c, s, p0, p1)
            freed == {i \in hit : c.cells[i].seqs = {s}}
<1>3. d.cells = [i \in Idx(c) |->
                   IF i \in freed THEN Cleared(c.cells[i])
                   ELSE IF i \in hit THEN [c.cells[i] EXCEPT !.seqs = c.cells[i].seqs \ {s}]
                   ELSE c.cells[i]]
  BY <1>1 DEF CellsSeqRm, Fields
<1>4. \A i \in Idx(c) : i \in hit <=> At(c.cells[i], s, p0, p1)
  BY DEF InRange, At
<1>. QED
  BY <1>2, <1>3, <1>4 DEF RmCell, Idx

LEMMA KeepCells ==
  ASSUME NEW c, Sound(c), NEW s, ~hybrid, NEW d, d = CellsSeqKeep(c, s, hybrid)
  PROVE  /\ Idx(d) = Idx(c) /\ d.n = c.n
         /\ \A i \in Idx(c) : d.cells[i] = KeepCell(c.cells[i], s)
<1>1. DOMAIN c = Fields
  BY SoundFacts
<1>2. d.size = c.size /\ d.n = c.n
  BY <1>1 DEF CellsSeqKeep, Fields
<1>. DEFINE others == {i \in Idx(c) : s \notin c.cells[i].seqs}
<1>3. d.cells = [i \in Idx(c) |-> IF i \in others THEN Cleared(c.cells[i])
                                  ELSE [c.cells[i] EXCEPT !.seqs = {s}]]
  BY <1>1 DEF CellsSeqKeep, Fields
<1>. QED
  BY <1>2, <1>3 DEF KeepCell, Idx

LEMMA CpCells ==
  ASSUME NEW c, Sound(c), NEW src, NEW dst, ~hybrid, NEW d, d = CellsSeqCp(c, src, dst, hybrid)
  PROVE  /\ Idx(d) = Idx(c) /\ d.n = c.n
         /\ \A i \in Idx(c) : d.cells[i] = CpCell(c.cells[i], src, dst)
<1>1. DOMAIN c = Fields
  BY SoundFacts
<1>2. d.size = c.size /\ d.n = c.n
  BY <1>1 DEF CellsSeqCp, Fields
<1>3. d.cells = [i \in Idx(c) |-> IF src \in c.cells[i].seqs /\ c.cells[i].pos >= 0
                                  THEN [c.cells[i] EXCEPT !.seqs = c.cells[i].seqs \cup {dst}]
                                  ELSE c.cells[i]]
  BY <1>1 DEF CellsSeqCp, Fields
<1>. QED
  BY <1>2, <1>3 DEF CpCell, Idx

LEMMA AddCells ==
  ASSUME NEW c, Sound(c), NEW s, NEW p0, NEW p1, NEW m, NEW d, d = CellsSeqAdd(c, s, p0, p1, m)
  PROVE  /\ Idx(d) = Idx(c) /\ d.n = c.n
         /\ \A i \in Idx(c) : d.cells[i] = AddCell(c.cells[i], s, p0, p1, m)
<1>1. DOMAIN c = Fields
  BY SoundFacts
<1>2. d.size = c.size /\ d.n = c.n
  BY <1>1 DEF CellsSeqAdd, Fields
<1>. DEFINE hit == InRange(c, s, p0, p1)
            freed == {i \in hit : c.cells[i].pos + m < 0}
<1>3. d.cells = [i \in Idx(c) |->
                   LET moved == Repositioned(c.cells[i], c.cells[i].pos + m)
                   IN  IF i \in freed THEN Cleared(moved)
                       ELSE IF i \in hit THEN moved ELSE c.cells[i]]
  BY <1>1 DEF CellsSeqAdd, Fields
<1>4. \A i \in Idx(c) : i \in hit <=> At(c.cells[i], s, p0, p1)
  BY DEF InRange, At
<1>. QED
  BY <1>2, <1>3, <1>4 DEF AddCell, Idx

LEMMA DivCells ==
  ASSUME NEW c, Sound(c), NEW s, NEW p0, NEW p1, NEW d, d = CellsSeqDiv(c, s, p0, p1, 2)
  PROVE  /\ Idx(d) = Idx(c) /\ d.n = c.n
         /\ \A i \in Idx(c) : d.cells[i] = DivCell(c.cells[i], s, p0, p1)
<1>1. DOMAIN c = Fields
  BY SoundFacts
<1>2. d.size = c.size /\ d.n = c.n
  BY <1>1 DEF CellsSeqDiv, Fields
<1>3. d.cells = [i \in Idx(c) |->
                   IF i \in InRange(c, s, p0, p1) THEN Repositioned(c.cells[i], c.cells[i].pos \div 2)
                   ELSE c.cells[i]]
  BY <1>1 DEF CellsSeqDiv, Fields
<1>4. \A i \in Idx(c) : i \in InRange(c, s, p0, p1) <=> At(c.cells[i], s, p0, p1)
  BY DEF InRange, At
<1>. QED
  BY <1>2, <1>3, <1>4 DEF DivCell, Idx

LEMMA RmNarrows ==
  ASSUME NEW c, Sound(c), NEW s, NEW p0, NEW p1, ~hybrid, NEW d, d = CellsSeqRm(c, s, p0, p1, hybrid)
  PROVE  Narrowed(c, d)
<1>1. /\ Idx(d) = Idx(c) /\ d.n = c.n
      /\ \A i \in Idx(c) : d.cells[i] = RmCell(c.cells[i], s, p0, p1)
  BY RmCells
<1>2. ASSUME NEW x \in Cell, x.seqs = {} PROVE RmCell(x, s, p0, p1).seqs = {}
  BY <1>2, ClearedFields DEF RmCell, At
<1>3. \A i \in Idx(c) : c.cells[i] \in Cell
  BY SoundFacts
<1>. QED
  BY <1>1, <1>2, <1>3 DEF Narrowed

LEMMA RmPair ==
  ASSUME NEW c, Sound(c), NEW e, Sound(e), Within(c, e), NEW s, NEW p0, NEW p1, ~hybrid,
         NEW d, d = CellsSeqRm(c, s, p0, p1, hybrid), NEW f, f = CellsSeqRm(e, s, p0, p1, hybrid)
  PROVE  Within(d, f)
<1>1. \A i \in Idx(c) : d.cells[i] = RmCell(c.cells[i], s, p0, p1) /\ c.cells[i] \in Cell
  BY RmCells, SoundFacts
<1>2. \A i \in Idx(e) : f.cells[i] = RmCell(e.cells[i], s, p0, p1) /\ e.cells[i] \in Cell
  BY RmCells, SoundFacts
<1>3. Idx(f) = Idx(e)
  BY RmCells
<1>4. Narrowed(c, d)
  BY RmNarrows
<1>5. \A i \in Idx(c), j \in Idx(e) : Twin(c.cells[i], e.cells[j]) => Twin(d.cells[i], f.cells[j])
  BY <1>1, <1>2, RmTwins
<1>. QED
  BY ONLY Within(c, e), <1>3, <1>4, <1>5, TwinsStay

LEMMA KeepNarrows ==
  ASSUME NEW c, Sound(c), NEW s, ~hybrid, NEW d, d = CellsSeqKeep(c, s, hybrid)
  PROVE  Narrowed(c, d)
<1>1. /\ Idx(d) = Idx(c) /\ d.n = c.n
      /\ \A i \in Idx(c) : d.cells[i] = KeepCell(c.cells[i], s)
  BY KeepCells
<1>2. ASSUME NEW x \in Cell, x.seqs = {} PROVE KeepCell(x, s).seqs = {}
  BY <1>2, ClearedFields DEF KeepCell
<1>3. \A i \in Idx(c) : c.cells[i] \in Cell
  BY SoundFacts
<1>. QED
  BY <1>1, <1>2, <1>3 DEF Narrowed

LEMMA KeepPair ==
  ASSUME NEW c, Sound(c), NEW e, Sound(e), Within(c, e), NEW s, ~hybrid,
         NEW d, d = CellsSeqKeep(c, s, hybrid), NEW f, f = CellsSeqKeep(e, s, hybrid)
  PROVE  Within(d, f)
<1>1. \A i \in Idx(c) : d.cells[i] = KeepCell(c.cells[i], s) /\ c.cells[i] \in Cell
  BY KeepCells, SoundFacts
<1>2. \A i \in Idx(e) : f.cells[i] = KeepCell(e.cells[i], s) /\ e.cells[i] \in Cell
  BY KeepCells, SoundFacts
<1>3. Idx(f) = Idx(e)
  BY KeepCells
<1>4. Narrowed(c, d)
  BY KeepNarrows
<1>5. \A i \in Idx(c), j \in Idx(e) : Twin(c.cells[i], e.cells[j]) => Twin(d.cells[i], f.cells[j])
  BY <1>1, <1>2, KeepTwins
<1>. QED
  BY ONLY Within(c, e), <1>3, <1>4, <1>5, TwinsStay

LEMMA CpNarrows ==
  ASSUME NEW c, Sound(c), NEW src, NEW dst, ~hybrid, NEW d, d = CellsSeqCp(c, src, dst, hybrid)
  PROVE  Narrowed(c, d)
<1>1. /\ Idx(d) = Idx(c) /\ d.n = c.n
      /\ \A i \in Idx(c) : d.cells[i] = CpCell(c.cells[i], src, dst)
  BY CpCells
<1>2. ASSUME NEW x \in Cell, x.seqs = {} PROVE CpCell(x, src, dst).seqs = {}
  BY <1>2, ClearedFields DEF CpCell
<1>3. \A i \in Idx(c) : c.cells[i] \in Cell
  BY SoundFacts
<1>. QED
  BY <1>1, <1>2, <1>3 DEF Narrowed

LEMMA CpPair ==
  ASSUME NEW c, Sound(c), NEW e, Sound(e), Within(c, e), NEW src, NEW dst, ~hybrid,
         NEW d, d = CellsSeqCp(c, src, dst, hybrid), NEW f, f = CellsSeqCp(e, src, dst, hybrid)
  PROVE  Within(d, f)
<1>1. \A i \in Idx(c) : d.cells[i] = CpCell(c.cells[i], src, dst) /\ c.cells[i] \in Cell
  BY CpCells, SoundFacts
<1>2. \A i \in Idx(e) : f.cells[i] = CpCell(e.cells[i], src, dst) /\ e.cells[i] \in Cell
  BY CpCells, SoundFacts
<1>3. Idx(f) = Idx(e)
  BY CpCells
<1>4. Narrowed(c, d)
  BY CpNarrows
<1>5. \A i \in Idx(c), j \in Idx(e) : Twin(c.cells[i], e.cells[j]) => Twin(d.cells[i], f.cells[j])
  BY <1>1, <1>2, CpTwins
<1>. QED
  BY ONLY Within(c, e), <1>3, <1>4, <1>5, TwinsStay

LEMMA AddNarrows ==
  ASSUME NEW c, Sound(c), NEW s, NEW p0, NEW p1, NEW m \in Int, NEW d, d = CellsSeqAdd(c, s, p0, p1, m)
  PROVE  Narrowed(c, d)
<1>1. /\ Idx(d) = Idx(c) /\ d.n = c.n
      /\ \A i \in Idx(c) : d.cells[i] = AddCell(c.cells[i], s, p0, p1, m)
  BY AddCells
<1>2. ASSUME NEW x \in Cell, x.seqs = {} PROVE AddCell(x, s, p0, p1, m).seqs = {}
  BY <1>2, ClearedFields DEF AddCell, At
<1>3. \A i \in Idx(c) : c.cells[i] \in Cell
  BY SoundFacts
<1>. QED
  BY <1>1, <1>2, <1>3 DEF Narrowed

LEMMA AddPair ==
  ASSUME NEW c, Sound(c), NEW e, Sound(e), Within(c, e), NEW s, NEW p0, NEW p1, NEW m \in Int,
         NEW d, d = CellsSeqAdd(c, s, p0, p1, m), NEW f, f = CellsSeqAdd(e, s, p0, p1, m)
  PROVE  Within(d, f)
<1>1. \A i \in Idx(c) : d.cells[i] = AddCell(c.cells[i], s, p0, p1, m) /\ c.cells[i] \in Cell
  BY AddCells, SoundFacts
<1>2. \A i \in Idx(e) : f.cells[i] = AddCell(e.cells[i], s, p0, p1, m) /\ e.cells[i] \in Cell
  BY AddCells, SoundFacts
<1>3. Idx(f) = Idx(e)
  BY AddCells
<1>4. Narrowed(c, d)
  BY AddNarrows
<1>5. \A i \in Idx(c), j \in Idx(e) : Twin(c.cells[i], e.cells[j]) => Twin(d.cells[i], f.cells[j])
  BY <1>1, <1>2, AddTwins
<1>. QED
  BY ONLY Within(c, e), <1>3, <1>4, <1>5, TwinsStay

LEMMA DivNarrows ==
  ASSUME NEW c, Sound(c), NEW s, NEW p0, NEW p1, NEW d, d = CellsSeqDiv(c, s, p0, p1, 2)
  PROVE  Narrowed(c, d)
<1>1. /\ Idx(d) = Idx(c) /\ d.n = c.n
      /\ \A i \in Idx(c) : d.cells[i] = DivCell(c.cells[i], s, p0, p1)
  BY DivCells
<1>2. ASSUME NEW x \in Cell, x.seqs = {} PROVE DivCell(x, s, p0, p1).seqs = {}
  BY <1>2 DEF DivCell, At
<1>3. \A i \in Idx(c) : c.cells[i] \in Cell
  BY SoundFacts
<1>. QED
  BY <1>1, <1>2, <1>3 DEF Narrowed

LEMMA DivPair ==
  ASSUME NEW c, Sound(c), NEW e, Sound(e), Within(c, e), NEW s, NEW p0, NEW p1,
         NEW d, d = CellsSeqDiv(c, s, p0, p1, 2), NEW f, f = CellsSeqDiv(e, s, p0, p1, 2)
  PROVE  Within(d, f)
<1>1. \A i \in Idx(c) : d.cells[i] = DivCell(c.cells[i], s, p0, p1) /\ c.cells[i] \in Cell
  BY DivCells, SoundFacts
<1>2. \A i \in Idx(e) : f.cells[i] = DivCell(e.cells[i], s, p0, p1) /\ e.cells[i] \in Cell
  BY DivCells, SoundFacts
<1>3. Idx(f) = Idx(e)
  BY DivCells
<1>4. Narrowed(c, d)
  BY DivNarrows
<1>5. \A i \in Idx(c), j \in Idx(e) : Twin(c.cells[i], e.cells[j]) => Twin(d.cells[i], f.cells[j])
  BY <1>1, <1>2, DivTwins
<1>. QED
  BY ONLY Within(c, e), <1>3, <1>4, <1>5, TwinsStay

(***************************************************************************)
(* What the caches do on their own.                                        *)
(***************************************************************************)
LEMMA SameCells ==
  ASSUME NEW c, NEW d, d.size = c.size, d.cells = c.cells
  PROVE  Within(c, d) /\ Within(d, c) /\ Occupied(d) = Occupied(c)
BY DEF Within, Occupied, Idx, Twin

LEMMA KShiftPair ==
  ASSUME NEW c, Sound(c), NEW d, d = KShift(c)
  PROVE  Within(c, d) /\ Within(d, c) /\ Narrowed(c, d) /\ Occupied(d) = Occupied(c) /\ d.used = c.used
         /\ d.do_defrag = c.do_defrag
<1>1. DOMAIN c = Fields
  BY SoundFacts
<1>2. d.size = c.size /\ d.n = c.n /\ d.used = c.used /\ d.do_defrag = c.do_defrag
  BY <1>1 DEF KShift, Fields
<1>3. d.cells = [i \in Idx(c) |-> Rotated(c.cells[i])]
  BY <1>1 DEF KShift, Fields
<1>4. Idx(d) = Idx(c)
  BY <1>2 DEF Idx
<1>5. \A i \in Idx(c) : Twin(d.cells[i], c.cells[i]) /\ Twin(c.cells[i], d.cells[i])
  BY <1>3, SoundFacts, RotatedTwin
<1>6. Occupied(d) = Occupied(c)
  BY <1>4, <1>5 DEF Occupied, Twin
<1>7. Within(c, d) /\ Within(d, c)
  <2>1. Occupied(c) \in SUBSET Idx(c)
    BY SoundFacts
  <2>. QED
    BY <1>5, <1>6, <2>1 DEF Within
<1>8. Narrowed(c, d)
  BY <1>2, <1>4, <1>5 DEF Narrowed, Twin
<1>. QED
  BY <1>2, <1>6, <1>7, <1>8

LEMMA EvictPair ==
  ASSUME NEW c, Sound(c), NEW batch, NEW guard, NEW d, d = SwaEvict(c, batch, guard)
  PROVE  Within(d, c) /\ Narrowed(c, d)
<1>. DEFINE dead == {i \in Occupied(c) : \A s \in c.cells[i].seqs :
                       RefPos(c, s, batch) - c.cells[i].pos >= n_swa + guard}
<1>1. DOMAIN c = Fields
  BY SoundFacts
<1>2. d.size = c.size /\ d.n = c.n
  BY <1>1 DEF SwaEvict, Fields
<1>3. d.cells = [i \in Idx(c) |-> IF i \in dead THEN [Cleared(c.cells[i]) EXCEPT !.delta = 0]
                                  ELSE c.cells[i]]
  BY <1>1 DEF SwaEvict, Fields
<1>. HIDE DEF dead
<1>4. \A i \in Idx(c) : d.cells[i].seqs # {} => d.cells[i] = c.cells[i]
  <2>1. \A x \in Cell : [Cleared(x) EXCEPT !.delta = 0].seqs = {}
    BY WipedOk
  <2>. QED
    BY <1>3, <2>1, SoundFacts
<1>5. Idx(d) = Idx(c)
  BY <1>2 DEF Idx
<1>. QED
  BY <1>2, <1>4, <1>5 DEF Within, Narrowed, Occupied, Twin

(* Moves of the head leave the cells alone.                                 *)
LEMMA HeadCells ==
  ASSUME NEW c, Sound(c), NEW n
  PROVE  /\ SearchFrom(c, n).size = c.size /\ SearchFrom(c, n).cells = c.cells
         /\ Advanced(c, n).size = c.size /\ Advanced(c, n).cells = c.cells
         /\ GaveUp(c, n).size = c.size /\ GaveUp(c, n).cells = c.cells
         /\ WithExtent(c).size = c.size /\ WithExtent(c).cells = c.cells
         /\ SwaGaveUp(c, n).size = c.size /\ SwaGaveUp(c, n).cells = c.cells
         /\ SwaGaveUp(c, n).n = c.n
<1>1. DOMAIN c = Fields
  BY SoundFacts
<1>2. SearchFrom(c, n).size = c.size /\ SearchFrom(c, n).cells = c.cells
  BY <1>1 DEF SearchFrom, Fields
<1>3. Advanced(c, n).size = c.size /\ Advanced(c, n).cells = c.cells
  BY <1>1 DEF Advanced, Fields
<1>4. GaveUp(c, n).size = c.size /\ GaveUp(c, n).cells = c.cells
  BY <1>1 DEF GaveUp, Fields
<1>5. WithExtent(c).size = c.size /\ WithExtent(c).cells = c.cells
  BY <1>1 DEF WithExtent, Fields
<1>6. /\ SwaGaveUp(c, n).size = c.size /\ SwaGaveUp(c, n).cells = c.cells
      /\ SwaGaveUp(c, n).n = c.n
  BY <1>1 DEF SwaGaveUp, Fields
<1>. QED
  BY <1>2, <1>3, <1>4, <1>5, <1>6

LEMMA RoomPair ==
  ASSUME NEW c, Sound(c), NEW batch, NEW d, d = SwaMadeRoom(c, batch)
  PROVE  Within(d, c) /\ (InView(c) => InView(d))
<1>1. PICK n, g, b, k : /\ n = Len(batch) /\ g = SwaEvict(c, batch, swa_kv_guard)
                        /\ b = SwaGaveUp(g, n) /\ k = SwaEvict(b, batch, 0)
  OBVIOUS
<1>2. d = IF SlotStarts(g, n) # {} THEN g ELSE k
  BY <1>1 DEF SwaMadeRoom
<1>3. Sound(g) /\ Within(g, c) /\ Narrowed(c, g)
  BY <1>1, SwaEvictSound, EvictPair
<1>4. Sound(b) /\ b.size = g.size /\ b.cells = g.cells /\ b.n = g.n
  BY <1>1, <1>3, HeadsSound, HeadCells
<1>5. Within(k, b) /\ Narrowed(b, k)
  BY <1>1, <1>4, EvictPair
<1>6. Occupied(b) = Occupied(g)
  BY <1>4 DEF Occupied, Idx
<1>7. Within(k, g)
  BY <1>4, <1>5, <1>6 DEF Within
<1>8. Within(k, c)
  BY <1>3, <1>7, Through
<1>9. InView(g) => InView(b)
  BY <1>4, <1>6 DEF InView
<1>10. InView(c) => InView(g) /\ InView(k)
  BY <1>3, <1>5, <1>9, StaysInView
<1>. QED
  BY <1>2, <1>3, <1>8, <1>10

(* Where a batch is in two caches, its cells are twins.                     *)
LEMMA TakingFields ==
  ASSUME NEW x \in Cell, x.seqs = {}, NEW b, NEW y, y = Taking(x, b)
  PROVE  y.pos = b.pos /\ y.seqs = {b.seq} /\ y.row.tok = b.tok
<1>. DEFINE r == [tok |-> b.tok, rot |-> b.pos]
<1>1. r.tok = b.tok
  OBVIOUS
<1>2. y = [x EXCEPT !.pos = b.pos, !.seqs = x.seqs \cup {b.seq}, !.row = r]
  BY DEF Taking, Cell
<1>. HIDE DEF r
<1>3. y.pos = b.pos /\ y.seqs = x.seqs \cup {b.seq} /\ y.row = r
  BY <1>2 DEF Cell
<1>. QED
  BY <1>1, <1>3

(* d is c with a batch of n in the free cells from h on.                    *)
Placed(c, h, n, batch, d) ==
  /\ Idx(d) = Idx(c) /\ d.head = h /\ h \in Nat /\ h + n <= c.size
  /\ \A i \in Idx(c) \ (h..h+n-1) : d.cells[i] = c.cells[i]
  /\ \A i \in h..h+n-1 :
       /\ i \in Idx(c) /\ c.cells[i].seqs = {} /\ i - h + 1 \in 1..n
       /\ d.cells[i].pos = batch[i-h+1].pos /\ d.cells[i].seqs = {batch[i-h+1].seq}
       /\ d.cells[i].row.tok = batch[i-h+1].tok

LEMMA PlaceCells ==
  ASSUME NEW c, Sound(c), NEW batch, NEW n \in Nat, n = Len(batch), NEW h \in SlotStarts(c, n),
         NEW d, d = Place(c, h, batch)
  PROVE  Placed(c, h, n, batch, d)
<1>. DEFINE new == h..h+n-1
<1>1. DOMAIN c = Fields /\ c.size \in Nat
  BY SoundFacts
<1>2. d.size = c.size /\ d.head = h
  BY <1>1 DEF Place, Fields
<1>3. d.cells = [i \in Idx(c) |-> IF i \in new THEN Taking(c.cells[i], batch[i-h+1]) ELSE c.cells[i]]
  BY <1>1 DEF Place, Fields
<1>4. h \in Nat /\ h + n <= c.size /\ \A i \in new : c.cells[i].pos < 0
  BY <1>1 DEF SlotStarts, Idx
<1>5. new \in SUBSET Idx(c) /\ \A i \in new : i - h + 1 \in 1..n
  BY <1>1, <1>4 DEF Idx
<1>6. ASSUME NEW i \in new
      PROVE  /\ c.cells[i].seqs = {}
             /\ d.cells[i].pos = batch[i-h+1].pos /\ d.cells[i].seqs = {batch[i-h+1].seq}
             /\ d.cells[i].row.tok = batch[i-h+1].tok
  <2>1. CellOk(c.cells[i]) /\ c.cells[i] \in Cell /\ c.cells[i].pos < 0
    BY <1>4, <1>5, SoundFacts
  <2>2. c.cells[i].seqs = {}
    BY <2>1 DEF CellOk, Cell
  <2>. DEFINE b == batch[i-h+1]
              x == c.cells[i]
              y == d.cells[i]
  <2>3. y = Taking(x, b)
    BY <1>3, <1>5
  <2>4. x \in Cell /\ x.seqs = {}
    BY <2>1, <2>2
  <2>. HIDE DEF b, x, y
  <2>5. y.pos = b.pos /\ y.seqs = {b.seq} /\ y.row.tok = b.tok
    BY ONLY <2>3, <2>4, TakingFields
  <2>. QED
    BY <2>2, <2>5 DEF b, y
<1>7. \A i \in Idx(c) \ new : d.cells[i] = c.cells[i]
  BY <1>3
<1>8. Idx(d) = Idx(c)
  BY <1>2 DEF Idx
<1>. QED
  BY <1>2, <1>4, <1>5, <1>6, <1>7, <1>8 DEF Placed

LEMMA PlacePair ==
  ASSUME NEW c, Sound(c), NEW e, Sound(e), Within(c, e), NEW batch, NEW n \in Nat, n = Len(batch),
         NEW h \in SlotStarts(c, n), NEW k \in SlotStarts(e, n),
         NEW d, d = Place(c, h, batch), NEW f, f = Place(e, k, batch)
  PROVE  Within(d, f)
<1>1. /\ Idx(d) = Idx(c) /\ h \in Nat
      /\ \A i \in Idx(c) \ (h..h+n-1) : d.cells[i] = c.cells[i]
      /\ \A i \in h..h+n-1 :
           /\ i \in Idx(c) /\ c.cells[i].seqs = {} /\ i - h + 1 \in 1..n
           /\ d.cells[i].pos = batch[i-h+1].pos /\ d.cells[i].seqs = {batch[i-h+1].seq}
           /\ d.cells[i].row.tok = batch[i-h+1].tok
  <2>1. Placed(c, h, n, batch, d)
    BY ONLY Sound(c), n \in Nat, n = Len(batch), h \in SlotStarts(c, n), d = Place(c, h, batch), PlaceCells
  <2>. QED
    BY ONLY <2>1 DEF Placed
<1>2. /\ Idx(f) = Idx(e) /\ k \in Nat
      /\ \A i \in Idx(e) \ (k..k+n-1) : f.cells[i] = e.cells[i]
      /\ \A i \in k..k+n-1 :
           /\ i \in Idx(e) /\ e.cells[i].seqs = {} /\ i - k + 1 \in 1..n
           /\ f.cells[i].pos = batch[i-k+1].pos /\ f.cells[i].seqs = {batch[i-k+1].seq}
           /\ f.cells[i].row.tok = batch[i-k+1].tok
  <2>1. Placed(e, k, n, batch, f)
    BY ONLY Sound(e), n \in Nat, n = Len(batch), k \in SlotStarts(e, n), f = Place(e, k, batch), PlaceCells
  <2>. QED
    BY ONLY <2>1 DEF Placed
<1>. SUFFICES ASSUME NEW i \in Occupied(d)
              PROVE  \E j \in Occupied(f) : Twin(d.cells[i], f.cells[j])
  BY DEF Within
<1>3. i \in Idx(c) /\ d.cells[i].seqs # {}
  BY <1>1 DEF Occupied
<1>4. CASE i \in h..h+n-1
  <2>. DEFINE r == i - h + 1
              j == r + k - 1
  <2>1. r \in 1..n
    BY <1>1, <1>4
  <2>2. j \in k..k+n-1 /\ j - k + 1 = r
    BY <1>2, <2>1
  <2>3. /\ d.cells[i].pos = batch[r].pos /\ d.cells[i].seqs = {batch[r].seq}
        /\ d.cells[i].row.tok = batch[r].tok
    BY <1>1, <1>4
  <2>. HIDE DEF r, j
  <2>4. /\ f.cells[j].pos = batch[r].pos /\ f.cells[j].seqs = {batch[r].seq}
        /\ f.cells[j].row.tok = batch[r].tok /\ j \in Idx(e)
    BY <1>2, <2>2
  <2>5. j \in Occupied(f)
    BY <1>2, <2>4 DEF Occupied
  <2>. QED
    BY <2>3, <2>4, <2>5 DEF Twin
<1>5. CASE i \notin h..h+n-1
  <2>1. d.cells[i] = c.cells[i] /\ i \in Occupied(c)
    BY <1>1, <1>3, <1>5 DEF Occupied
  <2>2. PICK j \in Occupied(e) : Twin(c.cells[i], e.cells[j])
    BY <2>1 DEF Within
  <2>3. j \in Idx(e) /\ e.cells[j].seqs # {}
    BY DEF Occupied
  <2>4. f.cells[j] = e.cells[j] /\ j \in Occupied(f)
    BY <1>2, <2>3 DEF Occupied
  <2>. QED
    BY <2>1, <2>2, <2>4
<1>. QED
  BY <1>4, <1>5

(* A batch that kv_self refuses leaves nothing in the other cache.          *)
LEMMA ReleasePair ==
  ASSUME NEW c, Sound(c), NEW batch, NEW n \in Nat, n = Len(batch), NEW h \in SlotStarts(c, n),
         NEW d, d = Place(c, h, batch), Sound(d), NEW v, Sound(v), v.size = d.size, v.head = d.head,
         v.cells = d.cells, NEW w, w = SwaReleaseSlot(v, n)
  PROVE  Within(w, c) /\ Within(c, w) /\ Narrowed(v, w)
<1>1. /\ Idx(d) = Idx(c) /\ d.head = h /\ h \in Nat
      /\ \A i \in Idx(c) \ (h..h+n-1) : d.cells[i] = c.cells[i]
      /\ \A i \in h..h+n-1 : c.cells[i].seqs = {}
  <2>1. Placed(c, h, n, batch, d)
    BY ONLY Sound(c), n \in Nat, n = Len(batch), h \in SlotStarts(c, n), d = Place(c, h, batch), PlaceCells
  <2>. QED
    BY ONLY <2>1 DEF Placed
<1>2. DOMAIN v = Fields
  BY SoundFacts
<1>3. w.size = v.size /\ w.n = v.n
  BY <1>2 DEF SwaReleaseSlot, Fields
<1>. DEFINE gone == h..h+n-1
<1>4. w.cells = [i \in Idx(v) |-> IF i \in gone THEN [Cleared(v.cells[i]) EXCEPT !.delta = 0]
                                  ELSE v.cells[i]]
  BY <1>1, <1>2 DEF SwaReleaseSlot, Fields
<1>5. Idx(w) = Idx(v) /\ Idx(v) = Idx(c)
  BY <1>1, <1>3 DEF Idx
<1>. HIDE DEF gone
<1>6. \A i \in Idx(v) : w.cells[i].seqs # {} => i \notin gone /\ w.cells[i] = v.cells[i]
  <2>1. \A x \in Cell : [Cleared(x) EXCEPT !.delta = 0].seqs = {}
    BY WipedOk
  <2>. QED
    BY <1>4, <2>1, SoundFacts
<1>7. Narrowed(v, w)
  BY <1>3, <1>5, <1>6 DEF Narrowed
<1>8. \A i \in Idx(c) : w.cells[i].seqs # {} => w.cells[i] = c.cells[i]
  BY <1>1, <1>5, <1>6 DEF gone
<1>9. Within(w, c)
  BY <1>5, <1>8 DEF Within, Occupied, Twin
<1>10. \A i \in Idx(c) : c.cells[i].seqs # {} => w.cells[i] = c.cells[i]
  BY <1>1, <1>4, <1>5 DEF gone
<1>11. Within(c, w)
  BY <1>5, <1>10 DEF Within, Occupied, Twin
<1>. QED
  BY <1>7, <1>9, <1>11

(***************************************************************************)
(* The extent of a decode reaches the last cell in use.                    *)
(***************************************************************************)
LEMMA RoundedUp ==
  ASSUME NEW p \in Nat \ {0}, NEW m \in Nat
  PROVE  p * ((m + p - 1) \div p) \in Nat /\ p * ((m + p - 1) \div p) >= m
<1>. DEFINE x == m + p - 1
            q == x \div p
            r == x % p
<1>1. x \in Int /\ q \in Int /\ r \in 0..p-1 /\ x = p * q + r
  OBVIOUS
<1>2. p * q \in Int
  BY <1>1
<1>. HIDE DEF q, r
<1>. DEFINE y == p * q
<1>3. y \in Int /\ x = y + r
  BY <1>1, <1>2
<1>. HIDE DEF y
<1>4. y >= m
  BY <1>1, <1>3
<1>. QED
  BY <1>3, <1>4 DEF y, q

LEMMA ExtentCovers ==
  ASSUME NEW c, Sound(c), NEW d, d = SwaWithExtent(c)
  PROVE  /\ InView(d) /\ d.size = c.size /\ d.cells = c.cells /\ d.head = c.head
<1>. DEFINE O == Occupied(c)
            m == Max(O) + 1
            up == Pad * ((m + Pad - 1) \div Pad)
            top == Max({Pad, up})
            ext == Min({c.size, top})
<1>1. DOMAIN c = Fields /\ c.size \in Nat /\ O \in SUBSET Idx(c)
  BY SoundFacts
<1>2. d.size = c.size /\ d.cells = c.cells /\ d.head = c.head
  BY <1>1 DEF SwaWithExtent, Fields
<1>3. d.n = Extent(c, CellMax(c), Pad)
  BY <1>1 DEF SwaWithExtent, Fields
<1>4. Occupied(d) = O
  BY <1>2 DEF Occupied, Idx
<1>5. CASE O = {}
  BY <1>2, <1>4, <1>5 DEF InView
<1>6. CASE O # {}
  <2>1. d.n = ext
    BY <1>3, <1>6 DEF Extent, CellMax
  <2>2. O \in SUBSET Nat /\ \A y \in O : y <= c.size
    BY <1>1 DEF Idx
  <2>. HIDE DEF O
  <2>3. Max(O) \in O /\ \A y \in O : Max(O) >= y
    BY <1>1, <1>6, <2>2, Greatest
  <2>4. Max(O) \in 0..c.size-1
    BY <1>1, <2>3 DEF Idx
  <2>5. m \in Nat /\ m <= c.size /\ \A y \in O : y < m
    BY <1>1, <2>2, <2>3, <2>4
  <2>6. Pad \in Nat \ {0}
    BY KvAssumption
  <2>. HIDE DEF m
  <2>7. up \in Nat /\ up >= m
    BY <2>5, <2>6, RoundedUp
  <2>. HIDE DEF up
  <2>8. top \in Nat /\ top >= up
    <3>. DEFINE S == {Pad, up}
                b == Pad + up
    <3>1. S \in SUBSET Nat /\ S # {} /\ b \in Nat /\ (\A y \in S : y <= b) /\ up \in S
      BY <2>6, <2>7
    <3>2. top = Max(S)
      OBVIOUS
    <3>. HIDE DEF S, b, top
    <3>3. Max(S) \in S /\ \A y \in S : Max(S) >= y
      BY <3>1, Greatest
    <3>. QED
      BY <3>1, <3>2, <3>3
  <2>. HIDE DEF top
  <2>9. ext = c.size \/ ext = top
    <3>. DEFINE S == {c.size, top}
    <3>1. S \in SUBSET Nat /\ S # {} /\ ext = Min(S)
      BY <1>1, <2>8
    <3>2. Min(S) \in S
      <4>. HIDE DEF S
      <4>. QED
        BY <3>1, Least
    <3>. QED
      BY <3>1, <3>2
  <2>10. ext \in Nat /\ ext >= m
    BY <1>1, <2>5, <2>7, <2>8, <2>9
  <2>. HIDE DEF ext
  <2>11. \A y \in O : y < d.n
    BY <2>1, <2>2, <2>5, <2>10
  <2>. QED
    BY <1>2, <1>4, <2>11 DEF InView
<1>. QED
  BY <1>2, <1>5, <1>6

LEMMA DefragPair ==
  ASSUME NEW c, Sound(c), NEW mm, ~hybrid, NEW d, d = Defragged(c, mm, hybrid)
  PROVE  Within(c, d)
<1>1. /\ Occupied(d) = (Occupied(c) \ Left(c, mm)) \cup Filled(c, mm)
      /\ \A i \in Occupied(c) \ Left(c, mm) : d.cells[i] = c.cells[i]
      /\ \A h \in Filled(c, mm) : d.cells[h] = c.cells[MoverFor(c, h)]
  BY ONLY Sound(c), ~hybrid, d = Defragged(c, mm, hybrid), DefragSound
<1>2. ASSUME NEW i \in Occupied(c) PROVE \E j \in Occupied(d) : d.cells[j] = c.cells[i]
  <2>1. CASE i \in Left(c, mm)
    <3>1. PICK h \in Filled(c, mm) : i = MoverFor(c, h)
      BY <2>1 DEF Left
    <3>. QED
      BY <1>1, <3>1
  <2>2. CASE i \notin Left(c, mm)
    BY <1>1, <2>2
  <2>. QED
    BY <2>1, <2>2
<1>. QED
  BY <1>2 DEF Within, Twin

LEMMA UpdatedPair ==
  ASSUME PairInv, ~hybrid, NEW self, self = UpdatedSelf, NEW swa, swa = UpdatedSwa
  PROVE  /\ swa_kv_active => Within(swa, self)
         /\ InView(swa)
<1>1. Sound(kv_self) /\ Sound(kv_swa) /\ InView(kv_swa) /\ (swa_kv_active => Within(kv_swa, kv_self))
  BY DEF PairInv, IInv
<1>. DEFINE a == IF ShiftDue THEN KShift(kv_self) ELSE kv_self
<1>2. Sound(a) /\ Within(kv_self, a)
  <2>1. CASE ShiftDue
    BY <1>1, <2>1, KShiftSound, KShiftPair
  <2>2. CASE ~ShiftDue
    BY <1>1, <2>2, SameCells
  <2>. QED
    BY <2>1, <2>2
<1>3. self = IF a.do_defrag THEN Defragged(a, max_moves, hybrid) ELSE a
  BY DEF UpdatedSelf
<1>. HIDE DEF a
<1>4. Within(kv_self, self)
  <2>1. CASE a.do_defrag
    <3>1. self = Defragged(a, max_moves, hybrid)
      BY <1>3, <2>1
    <3>2. Sound(a)
      BY <1>2
    <3>3. Within(a, self)
      BY ONLY <3>1, <3>2, ~hybrid, DefragPair
    <3>. QED
      BY <1>2, <3>3, Through
  <2>2. CASE ~a.do_defrag
    BY <1>2, <1>3, <2>2
  <2>. QED
    BY <2>1, <2>2
<1>5. Within(swa, kv_swa) /\ InView(swa)
  <2>1. CASE swa_kv_active /\ ShiftDue
    BY <1>1, <2>1, KShiftPair, StaysInView DEF UpdatedSwa
  <2>2. CASE ~(swa_kv_active /\ ShiftDue)
    BY <1>1, <2>2, SameCells DEF UpdatedSwa
  <2>. QED
    BY <2>1, <2>2
<1>6. ASSUME swa_kv_active PROVE Within(swa, self)
  BY <1>1, <1>4, <1>5, <1>6, Through
<1>. QED
  BY <1>5, <1>6

(***************************************************************************)
(* Every call keeps the twins.                                             *)
(***************************************************************************)
(* What a call has to leave, given that it keeps the rest.                  *)
Paired == (swa_kv_active => Within(kv_swa, kv_self)) /\ InView(kv_swa)

LEMMA DecodePairs ==
  ASSUME PairInv, ~hybrid, NEW n \in 1..MaxBatch, NEW q \in [1..n -> Seqs], llama_decode(q)
  PROVE  Paired'
<1>. DEFINE batch == UBatch(q)
            a     == UpdatedSelf
            b     == UpdatedSwa
            self  == SearchFrom(a, n)
            room  == SwaMadeRoom(b, batch)
            own   == Place(self, FirstSlot(self, n), batch)
            put   == Place(room, FirstSlot(room, n), batch)
            swa   == SwaWithExtent(put)
            self_takes == SlotStarts(self, n) # {}
            swa_takes  == swa_kv_active => SlotStarts(room, n) # {}
<1>0. IInv
  BY DEF PairInv
<1>1. n \in Nat
  BY KvAssumption
<1>2. n = Len(batch) /\ Len(q) = n /\ \A i \in 1..n : TokenOk(batch[i])
  BY <1>1, UBatchTokens
<1>3. \/ ~swa_takes /\ kv_self' = self /\ kv_swa' = SwaGaveUp(room, n)
      \/ /\ swa_takes /\ ~self_takes /\ kv_self' = GaveUp(self, n)
         /\ kv_swa' = IF swa_kv_active THEN SwaReleaseSlot(swa, n) ELSE kv_swa
      \/ /\ swa_takes /\ self_takes /\ kv_self' = Advanced(WithExtent(own), n)
         /\ kv_swa' = IF swa_kv_active THEN swa ELSE kv_swa
  BY <1>2 DEF llama_decode
<1>4. InView(kv_swa)
  BY DEF PairInv
<1>5. /\ Sound(a) /\ ~a.has_shift /\ Sound(b) /\ (swa_kv_active => ~b.has_shift)
      /\ (swa_kv_active => Within(b, a)) /\ InView(b)
  BY <1>0, UpdatedSound, UpdatedPair
<1>. HIDE DEF batch, a, b
<1>6. Sound(self) /\ ~self.has_shift /\ (swa_kv_active => Within(b, self))
  <2>1. Sound(self) /\ ~self.has_shift
    BY <1>5, HeadsSound
  <2>2. Within(a, self)
    BY <1>5, HeadCells, SameCells
  <2>3. Within(b, a) => Within(b, self)
    BY <2>2, Through
  <2>. QED
    BY <1>5, <2>1, <2>3
<1>7. /\ Sound(room) /\ (swa_kv_active => ~room.has_shift) /\ InView(room)
      /\ (swa_kv_active => Within(room, self))
  <2>1. Sound(room) /\ (swa_kv_active => ~room.has_shift)
    BY <1>5, MadeRoomSound
  <2>2. Within(room, b) /\ InView(room)
    BY <1>5, RoomPair
  <2>3. Within(b, self) => Within(room, self)
    BY <2>2, Through
  <2>. QED
    BY <1>6, <2>1, <2>2, <2>3
<1>. HIDE DEF self, room
<1>8. ASSUME swa_kv_active, swa_takes
      PROVE  /\ FirstSlot(room, n) \in SlotStarts(room, n)
             /\ Sound(put) /\ Sound(swa) /\ InView(swa)
             /\ swa.size = put.size /\ swa.cells = put.cells /\ swa.head = put.head
  <2>. DEFINE h == FirstSlot(room, n)
  <2>1. room.size \in Nat /\ ~room.has_shift
    BY <1>7, <1>8, SoundFacts
  <2>2. h \in SlotStarts(room, n)
    BY <1>8, <2>1, FirstSlotStarts
  <2>3. put = Place(room, h, batch)
    OBVIOUS
  <2>. HIDE DEF h, put
  <2>4. Sound(put)
    BY ONLY <1>1, <1>2, <1>7, <2>1, <2>2, <2>3, PlaceSound
  <2>5. Sound(swa)
    BY <2>4, HeadsSound
  <2>6. InView(swa) /\ swa.size = put.size /\ swa.cells = put.cells /\ swa.head = put.head
    BY <2>4, ExtentCovers
  <2>. QED
    BY <2>2, <2>4, <2>5, <2>6 DEF h
<1>9. ASSUME self_takes
      PROVE  FirstSlot(self, n) \in SlotStarts(self, n) /\ Sound(own)
  <2>. DEFINE h == FirstSlot(self, n)
  <2>1. self.size \in Nat
    BY <1>6, SoundFacts
  <2>2. h \in SlotStarts(self, n)
    BY <1>9, <2>1, FirstSlotStarts
  <2>3. own = Place(self, h, batch)
    OBVIOUS
  <2>. HIDE DEF h, own
  <2>4. Sound(own)
    BY ONLY <1>1, <1>2, <1>6, <2>2, <2>3, PlaceSound
  <2>. QED
    BY <2>2, <2>4 DEF h
<1>10. CASE ~swa_takes /\ kv_self' = self /\ kv_swa' = SwaGaveUp(room, n)
  <2>. DEFINE g == SwaGaveUp(room, n)
  <2>1. g.size = room.size /\ g.cells = room.cells /\ g.n = room.n
    BY <1>7, HeadCells
  <2>. HIDE DEF g
  <2>2. Within(g, room) /\ Occupied(g) = Occupied(room)
    BY <2>1, SameCells
  <2>3. InView(g)
    BY <1>7, <2>1, <2>2 DEF InView
  <2>4. swa_kv_active => Within(g, self)
    BY <1>7, <2>2, Through
  <2>5. kv_self' = self /\ kv_swa' = g
    BY <1>10 DEF g
  <2>. QED
    BY <2>3, <2>4, <2>5 DEF Paired
<1>11. CASE /\ swa_takes /\ ~self_takes /\ kv_self' = GaveUp(self, n)
            /\ kv_swa' = IF swa_kv_active THEN SwaReleaseSlot(swa, n) ELSE kv_swa
  <2>1. CASE swa_kv_active
    <3>. DEFINE w == SwaReleaseSlot(swa, n)
                g == GaveUp(self, n)
                h == FirstSlot(room, n)
    <3>1. w = SwaReleaseSlot(swa, n) /\ put = Place(room, h, batch) /\ kv_self' = g /\ kv_swa' = w
      BY <1>11, <2>1
    <3>2. Within(self, g)
      BY <1>6, HeadCells, SameCells
    <3>3. /\ h \in SlotStarts(room, n) /\ Sound(put) /\ Sound(swa) /\ InView(swa)
          /\ swa.size = put.size /\ swa.cells = put.cells /\ swa.head = put.head
      BY <1>8, <1>11, <2>1
    <3>. HIDE DEF w, g, h, swa, put
    <3>4. Within(w, room) /\ Narrowed(swa, w)
      BY ONLY <1>1, <1>2, <1>7, <3>1, <3>3, ReleasePair
    <3>5. InView(w)
      BY <3>3, <3>4, StaysInView
    <3>6. Within(w, self)
      BY <1>7, <2>1, <3>4, Through
    <3>7. Within(w, g)
      BY <3>2, <3>6, Through
    <3>. QED
      BY <3>1, <3>5, <3>7 DEF Paired
  <2>2. CASE ~swa_kv_active
    BY <1>4, <1>11, <2>2 DEF Paired
  <2>. QED
    BY <2>1, <2>2
<1>12. CASE /\ swa_takes /\ self_takes /\ kv_self' = Advanced(WithExtent(own), n)
            /\ kv_swa' = IF swa_kv_active THEN swa ELSE kv_swa
  <2>1. CASE swa_kv_active
    <3>. DEFINE h == FirstSlot(room, n)
                k == FirstSlot(self, n)
                e == WithExtent(own)
                g == Advanced(e, n)
    <3>1. own = Place(self, k, batch) /\ put = Place(room, h, batch) /\ kv_self' = g /\ kv_swa' = swa
      BY <1>12, <2>1
    <3>2. /\ h \in SlotStarts(room, n) /\ k \in SlotStarts(self, n) /\ Sound(own) /\ InView(swa)
          /\ swa.size = put.size /\ swa.cells = put.cells
      BY <1>8, <1>9, <1>12, <2>1
    <3>3. Sound(e) /\ e.size = own.size /\ e.cells = own.cells
      BY <3>2, HeadsSound, HeadCells
    <3>4. g.size = e.size /\ g.cells = e.cells
      <4>. HIDE DEF e
      <4>. QED
        BY <3>3, HeadCells
    <3>. HIDE DEF g, e, h, k, swa, put, own
    <3>5. Within(put, own)
      BY ONLY <1>1, <1>2, <1>6, <1>7, <2>1, <3>1, <3>2, PlacePair
    <3>6. Within(swa, put) /\ Within(own, g)
      BY <3>2, <3>3, <3>4, SameCells
    <3>7. Within(swa, own)
      BY <3>5, <3>6, Through
    <3>8. Within(swa, g)
      BY <3>6, <3>7, Through
    <3>. QED
      BY <3>1, <3>2, <3>8 DEF Paired
  <2>2. CASE ~swa_kv_active
    BY <1>4, <1>12, <2>2 DEF Paired
  <2>. QED
    BY <2>1, <2>2
<1>. QED
  BY <1>3, <1>10, <1>11, <1>12

LEMMA UpdatePairs ==
  ASSUME PairInv, ~hybrid, llama_kv_cache_update
  PROVE  Paired'
<1>. DEFINE a == UpdatedSelf
            b == UpdatedSwa
<1>1. kv_self' = a /\ kv_swa' = b
  BY DEF llama_kv_cache_update
<1>2. (swa_kv_active => Within(b, a)) /\ InView(b)
  BY UpdatedPair
<1>. HIDE DEF a, b
<1>. QED
  BY <1>1, <1>2 DEF Paired

(* A call on both caches.                                                   *)
LEMMA BothPair ==
  ASSUME PairInv, NEW x, NEW y, OnBoth(x, y), swa_kv_active => Within(y, x) /\ InView(y)
  PROVE  Paired'
BY DEF PairInv, Paired, OnBoth

LEMMA PairFacts ==
  ASSUME PairInv, swa_kv_active
  PROVE  Sound(kv_self) /\ Sound(kv_swa) /\ Within(kv_swa, kv_self) /\ InView(kv_swa)
BY DEF PairInv, IInv

LEMMA DefragPairs ==
  ASSUME PairInv, llama_kv_cache_defrag
  PROVE  Paired'
<1>. DEFINE d == [kv_self EXCEPT !.do_defrag = TRUE]
<1>1. kv_self' = d /\ kv_swa' = kv_swa
  BY DEF llama_kv_cache_defrag
<1>2. DOMAIN kv_self = Fields
  BY SoundFacts DEF PairInv, IInv
<1>3. d.size = kv_self.size /\ d.cells = kv_self.cells
  BY <1>2 DEF Fields
<1>. HIDE DEF d
<1>4. Within(kv_self, d)
  BY <1>3, SameCells
<1>5. Within(kv_swa, kv_self) => Within(kv_swa, d)
  BY <1>4, Through
<1>. QED
  BY <1>1, <1>5 DEF Paired, PairInv

LEMMA ClearPairs ==
  ASSUME PairInv, llama_kv_cache_clear
  PROVE  Paired'
<1>. DEFINE x == CellsClear(kv_self)
            y == CellsClear(kv_swa)
<1>1. OnBoth(x, y)
  BY DEF llama_kv_cache_clear
<1>2. ASSUME swa_kv_active PROVE Within(y, x) /\ InView(y)
  <2>1. Sound(kv_swa)
    BY <1>2, PairFacts
  <2>2. y.size = kv_swa.size /\ \A i \in Idx(kv_swa) : y.cells[i].seqs = {}
    BY <2>1, ClearSound
  <2>. HIDE DEF x, y
  <2>3. Occupied(y) = {}
    BY <2>2 DEF Occupied, Idx
  <2>. QED
    BY <2>3 DEF Within, InView
<1>. HIDE DEF x, y
<1>. QED
  BY <1>1, <1>2, BothPair

LEMMA KeepPairs ==
  ASSUME PairInv, ~hybrid, NEW s \in Seqs, llama_kv_cache_seq_keep(s)
  PROVE  Paired'
<1>. DEFINE x == CellsSeqKeep(kv_self, s, hybrid)
            y == CellsSeqKeep(kv_swa, s, hybrid)
<1>1. OnBoth(x, y)
  BY DEF llama_kv_cache_seq_keep
<1>2. x = CellsSeqKeep(kv_self, s, hybrid) /\ y = CellsSeqKeep(kv_swa, s, hybrid)
  OBVIOUS
<1>. HIDE DEF x, y
<1>3. ASSUME swa_kv_active PROVE Within(y, x) /\ InView(y)
  <2>1. Sound(kv_self) /\ Sound(kv_swa) /\ Within(kv_swa, kv_self) /\ InView(kv_swa)
    BY <1>3, PairFacts
  <2>2. Within(y, x)
    BY ONLY <1>2, <2>1, ~hybrid, KeepPair
  <2>3. Narrowed(kv_swa, y)
    BY ONLY <1>2, <2>1, ~hybrid, KeepNarrows
  <2>. QED
    BY <2>1, <2>2, <2>3, StaysInView
<1>. QED
  BY <1>1, <1>3, BothPair

LEMMA CpPairs ==
  ASSUME PairInv, ~hybrid, NEW s \in Seqs, NEW dst \in Seqs, llama_kv_cache_seq_cp(s, dst)
  PROVE  Paired'
<1>. DEFINE x == CellsSeqCp(kv_self, s, dst, hybrid)
            y == CellsSeqCp(kv_swa, s, dst, hybrid)
<1>1. OnBoth(x, y)
  BY DEF llama_kv_cache_seq_cp
<1>2. x = CellsSeqCp(kv_self, s, dst, hybrid) /\ y = CellsSeqCp(kv_swa, s, dst, hybrid)
  OBVIOUS
<1>. HIDE DEF x, y
<1>3. ASSUME swa_kv_active PROVE Within(y, x) /\ InView(y)
  <2>1. Sound(kv_self) /\ Sound(kv_swa) /\ Within(kv_swa, kv_self) /\ InView(kv_swa)
    BY <1>3, PairFacts
  <2>2. Within(y, x)
    BY ONLY <1>2, <2>1, ~hybrid, CpPair
  <2>3. Narrowed(kv_swa, y)
    BY ONLY <1>2, <2>1, ~hybrid, CpNarrows
  <2>. QED
    BY <2>1, <2>2, <2>3, StaysInView
<1>. QED
  BY <1>1, <1>3, BothPair

LEMMA RemovedNarrows ==
  ASSUME ~hybrid, NEW c, Sound(c), NEW s \in Int, NEW p0 \in Int, NEW p1 \in Int,
         NEW d, d = Removed(c, s, p0, p1)
  PROVE  InView(c) => InView(d)
<1>. DEFINE rest == CellsSeqRm(c, s, p0, p1, hybrid)
            end == MaxPos + 1
            all == CellsSeqRm(rest, s, 0, end, hybrid)
<1>1. rest = CellsSeqRm(c, s, p0, p1, hybrid) /\ all = CellsSeqRm(rest, s, 0, end, hybrid)
  OBVIOUS
<1>2. d = IF Covered(s, p0, p1) THEN rest ELSE all
  BY DEF Removed
<1>. HIDE DEF rest, all, end
<1>3. Sound(rest)
  BY ONLY <1>1, ~hybrid, Sound(c), s \in Int, p0 \in Int, p1 \in Int, SeqRmSound
<1>4. Narrowed(c, rest)
  BY ONLY <1>1, ~hybrid, Sound(c), RmNarrows
<1>5. Narrowed(rest, all)
  BY ONLY <1>1, <1>3, ~hybrid, RmNarrows
<1>. QED
  BY <1>2, <1>4, <1>5, StaysInView

LEMMA RemovedPair ==
  ASSUME ~hybrid, NEW c, Sound(c), NEW e, Sound(e), Within(c, e),
         NEW s \in Int, NEW p0 \in Int, NEW p1 \in Int,
         NEW d, d = Removed(c, s, p0, p1), NEW f, f = Removed(e, s, p0, p1)
  PROVE  Within(d, f)
<1>. DEFINE rc == CellsSeqRm(c, s, p0, p1, hybrid)
            re == CellsSeqRm(e, s, p0, p1, hybrid)
            end == MaxPos + 1
            ac == CellsSeqRm(rc, s, 0, end, hybrid)
            ae == CellsSeqRm(re, s, 0, end, hybrid)
<1>1. rc = CellsSeqRm(c, s, p0, p1, hybrid) /\ re = CellsSeqRm(e, s, p0, p1, hybrid)
  OBVIOUS
<1>2. ac = CellsSeqRm(rc, s, 0, end, hybrid) /\ ae = CellsSeqRm(re, s, 0, end, hybrid)
  OBVIOUS
<1>3. /\ d = IF Covered(s, p0, p1) THEN rc ELSE ac
      /\ f = IF Covered(s, p0, p1) THEN re ELSE ae
  BY DEF Removed
<1>. HIDE DEF rc, re, ac, ae, end
<1>4. Sound(rc)
  BY ONLY <1>1, ~hybrid, Sound(c), s \in Int, p0 \in Int, p1 \in Int, SeqRmSound
<1>5. Sound(re)
  BY ONLY <1>1, ~hybrid, Sound(e), s \in Int, p0 \in Int, p1 \in Int, SeqRmSound
<1>6. Within(rc, re)
  BY ONLY <1>1, ~hybrid, Sound(c), Sound(e), Within(c, e), RmPair
<1>7. Within(ac, ae)
  BY ONLY <1>2, <1>4, <1>5, <1>6, ~hybrid, RmPair
<1>. QED
  BY <1>3, <1>6, <1>7

LEMMA RmPairs ==
  ASSUME PairInv, ~hybrid, NEW s \in Seqs, NEW p0 \in 0..MaxPos, llama_kv_cache_seq_rm(s, p0)
  PROVE  Paired'
<1>. DEFINE end == MaxPos + 1
            x == Removed(kv_self, s, p0, end)
            y == Removed(kv_swa, s, p0, end)
<1>1. OnBoth(x, y)
  BY DEF llama_kv_cache_seq_rm
<1>2. x = Removed(kv_self, s, p0, end) /\ y = Removed(kv_swa, s, p0, end)
  OBVIOUS
<1>3. s \in Int /\ p0 \in Int /\ end \in Int
  BY KvAssumption DEF Seqs
<1>. HIDE DEF x, y, end
<1>4. ASSUME swa_kv_active PROVE Within(y, x) /\ InView(y)
  <2>1. Sound(kv_self) /\ Sound(kv_swa) /\ Within(kv_swa, kv_self) /\ InView(kv_swa)
    BY <1>4, PairFacts
  <2>2. Within(y, x)
    BY ONLY <1>2, <1>3, <2>1, ~hybrid, RemovedPair
  <2>3. InView(y)
    BY ONLY <1>2, <1>3, <2>1, ~hybrid, RemovedNarrows
  <2>. QED
    BY <2>2, <2>3
<1>. QED
  BY <1>1, <1>4, BothPair

LEMMA AddPairs ==
  ASSUME PairInv, NEW s \in Seqs, NEW p0 \in 0..MaxPos, NEW p1 \in p0+1..MaxPos+1, NEW m \in Shifts,
         llama_kv_cache_seq_add(s, p0, p1, m)
  PROVE  Paired'
<1>. DEFINE x == CellsSeqAdd(kv_self, s, p0, p1, m)
            y == CellsSeqAdd(kv_swa, s, p0, p1, m)
<1>1. OnBoth(x, y)
  BY DEF llama_kv_cache_seq_add
<1>2. x = CellsSeqAdd(kv_self, s, p0, p1, m) /\ y = CellsSeqAdd(kv_swa, s, p0, p1, m) /\ m \in Int
  BY KvAssumption
<1>. HIDE DEF x, y
<1>3. ASSUME swa_kv_active PROVE Within(y, x) /\ InView(y)
  <2>1. Sound(kv_self) /\ Sound(kv_swa) /\ Within(kv_swa, kv_self) /\ InView(kv_swa)
    BY <1>3, PairFacts
  <2>2. Within(y, x)
    BY ONLY <1>2, <2>1, AddPair
  <2>3. Narrowed(kv_swa, y)
    BY ONLY <1>2, <2>1, AddNarrows
  <2>. QED
    BY <2>1, <2>2, <2>3, StaysInView
<1>. QED
  BY <1>1, <1>3, BothPair

LEMMA DivPairs ==
  ASSUME PairInv, NEW s \in Seqs, NEW p0 \in 0..MaxPos, NEW p1 \in p0+1..MaxPos+1,
         llama_kv_cache_seq_div(s, p0, p1, 2)
  PROVE  Paired'
<1>. DEFINE x == CellsSeqDiv(kv_self, s, p0, p1, 2)
            y == CellsSeqDiv(kv_swa, s, p0, p1, 2)
<1>1. OnBoth(x, y)
  BY DEF llama_kv_cache_seq_div
<1>2. x = CellsSeqDiv(kv_self, s, p0, p1, 2) /\ y = CellsSeqDiv(kv_swa, s, p0, p1, 2)
  OBVIOUS
<1>. HIDE DEF x, y
<1>3. ASSUME swa_kv_active PROVE Within(y, x) /\ InView(y)
  <2>1. Sound(kv_self) /\ Sound(kv_swa) /\ Within(kv_swa, kv_self) /\ InView(kv_swa)
    BY <1>3, PairFacts
  <2>2. Within(y, x)
    BY ONLY <1>2, <2>1, DivPair
  <2>3. Narrowed(kv_swa, y)
    BY ONLY <1>2, <2>1, DivNarrows
  <2>. QED
    BY <2>1, <2>2, <2>3, StaysInView
<1>. QED
  BY <1>1, <1>3, BothPair

LEMMA ContextShiftPairs ==
  ASSUME PairInv, ~hybrid, NEW s \in Seqs, NEW keep \in 0..MaxPos, NEW p1 \in keep+1..MaxPos+1,
         ContextShift(s, keep, p1 - keep)
  PROVE  Paired'
<1>. DEFINE m == p1 - keep
            from == keep + m
            end == MaxPos + 1
            neg == -m
            ra == Removed(kv_self, s, keep, from)
            rb == Removed(kv_swa, s, keep, from)
            x == CellsSeqAdd(ra, s, from, end, neg)
            y == CellsSeqAdd(rb, s, from, end, neg)
<1>1. OnBoth(x, y)
  BY DEF ContextShift
<1>2. s \in Int /\ keep \in Int /\ from \in Int /\ end \in Int /\ neg \in Int
  BY KvAssumption DEF Seqs
<1>3. ra = Removed(kv_self, s, keep, from) /\ rb = Removed(kv_swa, s, keep, from)
  OBVIOUS
<1>4. x = CellsSeqAdd(ra, s, from, end, neg) /\ y = CellsSeqAdd(rb, s, from, end, neg)
  OBVIOUS
<1>. HIDE DEF m, from, end, neg, ra, rb, x, y
<1>5. ASSUME swa_kv_active PROVE Within(y, x) /\ InView(y)
  <2>1. Sound(kv_self) /\ Sound(kv_swa) /\ Within(kv_swa, kv_self) /\ InView(kv_swa)
    BY <1>5, PairFacts
  <2>2. Sound(ra)
    BY ONLY <1>2, <1>3, <2>1, ~hybrid, RemovedSound
  <2>3. Sound(rb)
    BY ONLY <1>2, <1>3, <2>1, ~hybrid, RemovedSound
  <2>4. Within(rb, ra)
    BY ONLY <1>2, <1>3, <2>1, ~hybrid, RemovedPair
  <2>5. InView(rb)
    BY ONLY <1>2, <1>3, <2>1, ~hybrid, RemovedNarrows
  <2>6. Within(y, x)
    BY ONLY <1>2, <1>4, <2>2, <2>3, <2>4, AddPair
  <2>7. Narrowed(rb, y)
    BY ONLY <1>2, <1>4, <2>3, AddNarrows
  <2>. QED
    BY <2>5, <2>6, <2>7, StaysInView
<1>. QED
  BY <1>1, <1>5, BothPair

(* What is restored leaves the sliding cache, which is not in use.          *)
LEMMA OtherPairs ==
  ASSUME PairInv, ~swa_kv_active, kv_swa' = kv_swa
  PROVE  Paired'
BY DEF PairInv, Paired, InView

LEMMA StepPairs ==
  ASSUME ~hybrid
  PROVE  PairInv /\ [Next]_vars => PairInv'
<1>. SUFFICES ASSUME PairInv, [Next]_vars PROVE PairInv'
  OBVIOUS
<1>0. IInv'
  BY StepSound DEF PairInv
<1>. SUFFICES Paired'
  BY <1>0 DEF PairInv, Paired
<1>1. ASSUME NEW s \in Seqs, OnSequence(s) PROVE Paired'
  <2>1. CASE llama_kv_cache_seq_keep(s)
    BY <2>1, KeepPairs
  <2>2. CASE \E dst \in Seqs : llama_kv_cache_seq_cp(s, dst)
    BY <2>2, CpPairs
  <2>3. CASE \E p0 \in 0..MaxPos : llama_kv_cache_seq_rm(s, p0)
    BY <2>3, RmPairs
  <2>4. CASE \E p0 \in 0..MaxPos : \E p1 \in p0+1..MaxPos+1 :
               \/ \E d \in Shifts : llama_kv_cache_seq_add(s, p0, p1, d)
               \/ llama_kv_cache_seq_div(s, p0, p1, 2)
               \/ ContextShift(s, p0, p1 - p0)
    <3>0. PICK p0 \in 0..MaxPos : \E p1 \in p0+1..MaxPos+1 :
               \/ \E d \in Shifts : llama_kv_cache_seq_add(s, p0, p1, d)
               \/ llama_kv_cache_seq_div(s, p0, p1, 2)
               \/ ContextShift(s, p0, p1 - p0)
      BY <2>4
    <3>1. PICK p1 \in p0+1..MaxPos+1 :
               \/ \E d \in Shifts : llama_kv_cache_seq_add(s, p0, p1, d)
               \/ llama_kv_cache_seq_div(s, p0, p1, 2)
               \/ ContextShift(s, p0, p1 - p0)
      BY <3>0
    <3>2. CASE \E d \in Shifts : llama_kv_cache_seq_add(s, p0, p1, d)
      BY <3>2, AddPairs
    <3>3. CASE llama_kv_cache_seq_div(s, p0, p1, 2)
      BY <3>3, DivPairs
    <3>4. CASE ContextShift(s, p0, p1 - p0)
      BY <3>4, ContextShiftPairs
    <3>. QED
      BY <3>1, <3>2, <3>3, <3>4
  <2>5. CASE \E n \in FileTokens : llama_state_seq_set_data(s, n) \/ llama_state_set_data(s, n)
    BY <2>5, OtherPairs DEF llama_state_seq_set_data, llama_state_set_data
  <2>. QED
    BY <1>1, <2>1, <2>2, <2>3, <2>4, <2>5 DEF OnSequence
<1>2. CASE \E n \in 1..MaxBatch : \E q \in [1..n -> Seqs] : llama_decode(q)
  BY <1>2, DecodePairs
<1>3. CASE llama_kv_cache_update
  BY <1>3, UpdatePairs
<1>4. CASE llama_kv_cache_defrag
  BY <1>4, DefragPairs
<1>5. CASE llama_kv_cache_clear
  BY <1>5, ClearPairs
<1>6. CASE UNCHANGED vars
  BY <1>6 DEF PairInv, Paired, InView, vars
<1>. QED
  BY <1>1, <1>2, <1>3, <1>4, <1>5, <1>6 DEF Next

LEMMA InitPairs == Init => PairInv
<1>. SUFFICES ASSUME Init PROVE PairInv
  OBVIOUS
<1>1. kv_swa = NewCache(SwaSize)
  BY DEF Init
<1>2. kv_swa.size = SwaSize /\ kv_swa.cells = [i \in 0..SwaSize-1 |-> NewCell]
  BY <1>1 DEF NewCache
<1>3. NewCell.seqs = {}
  BY DEF NewCell
<1>4. Occupied(kv_swa) = {}
  BY <1>2, <1>3 DEF Occupied, Idx
<1>. QED
  BY <1>4, InitSound DEF PairInv, Within, InView

(***************************************************************************)
(* The theorems.                                                           *)
(***************************************************************************)

(* What the window-sized cache says that a sequence holds, kv_self says     *)
(* too, for every window, guard and size: also when a ubatch was placed in  *)
(* one cache, refused by the other and taken out again.                     *)
THEOREM NothingInOneOnly ==
  ASSUME ~hybrid
  PROVE  Spec => []CachesAgree
<1>1. PairInv => CachesAgree
  <2>. SUFFICES ASSUME PairInv, swa_kv_active, NEW x \in Entries(kv_swa)
                PROVE  x \in Entries(kv_self)
    BY DEF CachesAgree
  <2>1. PICK i \in Occupied(kv_swa) :
          x \in {[seq |-> s, pos |-> kv_swa.cells[i].pos, tok |-> kv_swa.cells[i].row.tok]
                   : s \in kv_swa.cells[i].seqs}
    BY DEF Entries
  <2>2. PICK j \in Occupied(kv_self) : Twin(kv_swa.cells[i], kv_self.cells[j])
    BY DEF PairInv, Within
  <2>3. x \in {[seq |-> s, pos |-> kv_self.cells[j].pos, tok |-> kv_self.cells[j].row.tok]
                 : s \in kv_self.cells[j].seqs}
    BY <2>1, <2>2 DEF Twin
  <2>. QED
    BY <2>3 DEF Entries
<1>. QED
  BY <1>1, InitPairs, StepPairs, PTL DEF Spec

(* The extent that the last decode of the sliding layers looked at covers   *)
(* every cell in use, wherever eviction has let the window float, for every *)
(* padding.                                                                 *)
THEOREM WindowInView ==
  ASSUME ~hybrid
  PROVE  Spec => []SlidingInView
<1>1. PairInv => SlidingInView
  BY DEF PairInv, InView, SlidingInView
<1>. QED
  BY <1>1, InitPairs, StepPairs, PTL DEF Spec


(***************************************************************************)
(* The map that the cache is to its callers, cell by cell.                 *)
(***************************************************************************)
Ent(s, p, t) == [seq |-> s, pos |-> p, key |-> p, tok |-> t]

(* What a cell says that its sequences hold.                                *)
Tokens(x) == {Ent(s, x.pos, x.row.tok) : s \in x.seqs}

HeldIn(c) == UNION {Tokens(c.cells[i]) : i \in Idx(c)}

Part(H, s, p0, p1) == {e \in H : e.seq = s /\ e.pos \in p0..p1-1}

LEMMA EntFields ==
  ASSUME NEW s, NEW p, NEW t
  PROVE  Ent(s, p, t).seq = s /\ Ent(s, p, t).pos = p /\ Ent(s, p, t).tok = t
BY DEF Ent

LEMMA InHeld ==
  ASSUME NEW c, NEW e
  PROVE  e \in HeldIn(c) <=> \E i \in Idx(c) : e \in Tokens(c.cells[i])
BY DEF HeldIn

LEMMA HeldOf ==
  ASSUME NEW c, Sound(c)
  PROVE  UNION {{[seq |-> s, pos |-> c.cells[i].pos, key |-> c.cells[i].row.rot + c.cells[i].delta,
                  tok |-> c.cells[i].row.tok] : s \in c.cells[i].seqs} : i \in Occupied(c)}
           = HeldIn(c)
<1>. DEFINE F(i) == {[seq |-> s, pos |-> c.cells[i].pos, key |-> c.cells[i].row.rot + c.cells[i].delta,
                      tok |-> c.cells[i].row.tok] : s \in c.cells[i].seqs}
<1>1. ASSUME NEW i \in Occupied(c) PROVE F(i) = Tokens(c.cells[i])
  <2>1. c.cells[i].row.rot + c.cells[i].delta = c.cells[i].pos
    BY SoundFacts DEF CellOk, Occupied
  <2>. QED
    BY <2>1 DEF Tokens, Ent
<1>2. ASSUME NEW i \in Idx(c), i \notin Occupied(c) PROVE Tokens(c.cells[i]) = {}
  BY <1>2 DEF Occupied, Tokens
<1>. HIDE DEF F
<1>3. Occupied(c) \in SUBSET Idx(c)
  BY DEF Occupied
<1>4. UNION {F(i) : i \in Occupied(c)} = HeldIn(c)
  BY <1>1, <1>2, <1>3 DEF HeldIn
<1>. QED
  BY <1>4 DEF F

(* Whatever is done to each cell is done to the map.                        *)
LEMMA EntryWise ==
  ASSUME NEW c, NEW d, Idx(d) = Idx(c), NEW H, 
         \A e : e \in H <=> \E i \in Idx(c) : e \in Tokens(d.cells[i])
  PROVE  HeldIn(d) = H
BY DEF HeldIn

LEMMA RmHeld ==
  ASSUME NEW c, Sound(c), NEW s, NEW p0, NEW p1, ~hybrid, NEW d, d = CellsSeqRm(c, s, p0, p1, hybrid)
  PROVE  HeldIn(d) = HeldIn(c) \ Part(HeldIn(c), s, p0, p1)
<1>1. Idx(d) = Idx(c) /\ \A i \in Idx(c) : d.cells[i] = RmCell(c.cells[i], s, p0, p1)
  BY RmCells
<1>2. ASSUME NEW x \in Cell, NEW e
      PROVE  e \in Tokens(RmCell(x, s, p0, p1))
               <=> e \in Tokens(x) /\ ~(e.seq = s /\ e.pos \in p0..p1-1)
  <2>1. CASE At(x, s, p0, p1) /\ x.seqs = {s}
    <3>1. Tokens(RmCell(x, s, p0, p1)) = {}
      BY <2>1, ClearedFields DEF RmCell, Tokens
    <3>. QED
      BY <2>1, <3>1, EntFields DEF At, Tokens
  <2>2. CASE At(x, s, p0, p1) /\ x.seqs # {s}
    <3>. DEFINE T == x.seqs \ {s}
    <3>1. RmCell(x, s, p0, p1) = [x EXCEPT !.seqs = T]
      BY <2>2 DEF RmCell
    <3>. HIDE DEF T
    <3>2. /\ RmCell(x, s, p0, p1).seqs = T /\ RmCell(x, s, p0, p1).pos = x.pos
          /\ RmCell(x, s, p0, p1).row = x.row
      BY <3>1 DEF Cell
    <3>. QED
      BY <2>2, <3>2, EntFields DEF At, Tokens, T
  <2>3. CASE ~At(x, s, p0, p1)
    <3>1. RmCell(x, s, p0, p1) = x
      BY <2>3 DEF RmCell
    <3>. QED
      BY <2>3, <3>1, EntFields DEF At, Tokens
  <2>. QED
    BY <2>1, <2>2, <2>3
<1>3. ASSUME NEW i \in Idx(c), NEW e
      PROVE  e \in Tokens(d.cells[i]) <=> e \in Tokens(c.cells[i]) /\ ~(e.seq = s /\ e.pos \in p0..p1-1)
  BY <1>1, <1>2, SoundFacts
<1>. QED
  BY <1>1, <1>3, InHeld DEF HeldIn, Part

LEMMA KeepHeld ==
  ASSUME NEW c, Sound(c), NEW s, ~hybrid, NEW d, d = CellsSeqKeep(c, s, hybrid)
  PROVE  HeldIn(d) = {e \in HeldIn(c) : e.seq = s}
<1>1. Idx(d) = Idx(c) /\ \A i \in Idx(c) : d.cells[i] = KeepCell(c.cells[i], s)
  BY KeepCells
<1>2. ASSUME NEW x \in Cell, NEW e
      PROVE  e \in Tokens(KeepCell(x, s)) <=> e \in Tokens(x) /\ e.seq = s
  <2>1. CASE s \notin x.seqs
    <3>1. Tokens(KeepCell(x, s)) = {}
      BY <2>1, ClearedFields DEF KeepCell, Tokens
    <3>. QED
      BY <2>1, <3>1, EntFields DEF Tokens
  <2>2. CASE s \in x.seqs
    <3>1. KeepCell(x, s) = [x EXCEPT !.seqs = {s}]
      BY <2>2 DEF KeepCell
    <3>2. KeepCell(x, s).seqs = {s} /\ KeepCell(x, s).pos = x.pos /\ KeepCell(x, s).row = x.row
      BY <3>1 DEF Cell
    <3>. QED
      BY <2>2, <3>2, EntFields DEF Tokens
  <2>. QED
    BY <2>1, <2>2
<1>3. ASSUME NEW i \in Idx(c), NEW e
      PROVE  e \in Tokens(d.cells[i]) <=> e \in Tokens(c.cells[i]) /\ e.seq = s
  BY <1>1, <1>2, SoundFacts
<1>. QED
  BY <1>1, <1>3 DEF HeldIn

LEMMA CpHeld ==
  ASSUME NEW c, Sound(c), NEW src, NEW dst, ~hybrid, NEW d, d = CellsSeqCp(c, src, dst, hybrid)
  PROVE  HeldIn(d) = HeldIn(c) \cup {Ent(dst, e.pos, e.tok) : e \in {f \in HeldIn(c) : f.seq = src}}
<1>1. Idx(d) = Idx(c) /\ \A i \in Idx(c) : d.cells[i] = CpCell(c.cells[i], src, dst)
  BY CpCells
<1>2. ASSUME NEW x, CellOk(x), NEW e
      PROVE  e \in Tokens(CpCell(x, src, dst))
               <=> e \in Tokens(x) \/ \E f \in Tokens(x) : f.seq = src /\ e = Ent(dst, f.pos, f.tok)
  <2>1. CASE src \in x.seqs
    <3>. DEFINE T == x.seqs \cup {dst}
    <3>1. x.pos >= 0 /\ x \in Cell
      BY <1>2, <2>1 DEF CellOk
    <3>2. CpCell(x, src, dst) = [x EXCEPT !.seqs = T]
      BY <2>1, <3>1 DEF CpCell
    <3>. HIDE DEF T
    <3>3. /\ CpCell(x, src, dst).seqs = T /\ CpCell(x, src, dst).pos = x.pos
          /\ CpCell(x, src, dst).row = x.row
      BY <3>1, <3>2 DEF Cell
    <3>4. e \in Tokens(CpCell(x, src, dst)) <=> e \in Tokens(x) \/ e = Ent(dst, x.pos, x.row.tok)
      BY <3>3 DEF Tokens, T
    <3>5. Ent(src, x.pos, x.row.tok) \in Tokens(x)
      BY <2>1 DEF Tokens
    <3>6. \A f \in Tokens(x) : f.pos = x.pos /\ f.tok = x.row.tok
      BY EntFields DEF Tokens
    <3>. QED
      BY <3>4, <3>5, <3>6, EntFields
  <2>2. CASE src \notin x.seqs
    <3>1. CpCell(x, src, dst) = x
      BY <2>2 DEF CpCell
    <3>2. \A f \in Tokens(x) : f.seq # src
      BY <2>2, EntFields DEF Tokens
    <3>. QED
      BY <3>1, <3>2
  <2>. QED
    BY <2>1, <2>2
<1>3. ASSUME NEW i \in Idx(c), NEW e
      PROVE  e \in Tokens(d.cells[i])
               <=> e \in Tokens(c.cells[i])
                   \/ \E f \in Tokens(c.cells[i]) : f.seq = src /\ e = Ent(dst, f.pos, f.tok)
  BY <1>1, <1>2, SoundFacts
<1>. QED
  BY <1>1, <1>3 DEF HeldIn

(* The cells of s in the range belong to it alone.                          *)
Alone(c, s, p0, p1) == \A i \in Idx(c) : At(c.cells[i], s, p0, p1) => c.cells[i].seqs = {s}

(* x goes to the position p, or is freed when that is negative.             *)
Gone(x, p, y) ==
  IF p < 0 THEN y.seqs = {} ELSE y.seqs = x.seqs /\ y.pos = p /\ y.row = x.row

LEMMA MovedCell ==
  ASSUME NEW x, NEW s, NEW p0, NEW p1, At(x, s, p0, p1), x.seqs = {s},
         NEW p \in Int, NEW y, Gone(x, p, y), NEW e
  PROVE  e \in Tokens(y) <=> p >= 0 /\ e = Ent(s, p, x.row.tok)
BY DEF Gone, Tokens

LEMMA AddHeld ==
  ASSUME NEW c, Sound(c), NEW s, NEW p0, NEW p1, NEW m \in Int, Alone(c, s, p0, p1),
         NEW d, d = CellsSeqAdd(c, s, p0, p1, m)
  PROVE  HeldIn(d) = (HeldIn(c) \ Part(HeldIn(c), s, p0, p1))
           \cup {Ent(e.seq, e.pos + m, e.tok) : e \in {f \in Part(HeldIn(c), s, p0, p1) : f.pos + m >= 0}}
<1>1. Idx(d) = Idx(c) /\ \A i \in Idx(c) : d.cells[i] = AddCell(c.cells[i], s, p0, p1, m)
  BY AddCells
<1>2. ASSUME NEW x \in Cell, At(x, s, p0, p1) => x.seqs = {s}, NEW e
      PROVE  e \in Tokens(AddCell(x, s, p0, p1, m))
               <=> \/ e \in Tokens(x) /\ ~(e.seq = s /\ e.pos \in p0..p1-1)
                   \/ \E f \in Tokens(x) : /\ f.seq = s /\ f.pos \in p0..p1-1 /\ f.pos + m >= 0
                                           /\ e = Ent(f.seq, f.pos + m, f.tok)
  <2>1. CASE At(x, s, p0, p1)
    <3>. DEFINE p == x.pos + m
                y == AddCell(x, s, p0, p1, m)
                w == Repositioned(x, p)
    <3>1. p \in Int /\ x.seqs = {s} /\ x.pos \in p0..p1-1
      BY <1>2, <2>1 DEF Cell, At
    <3>2. y = IF p < 0 THEN Cleared(w) ELSE w
      BY <2>1 DEF AddCell
    <3>. HIDE DEF p, y
    <3>3. w \in Cell /\ w.pos = p /\ w.seqs = x.seqs /\ w.row = x.row
      <4>1. x.pos \in Int /\ x.delta \in Int
        BY DEF Cell
      <4>2. x.delta + p - x.pos \in Int
        BY <3>1, <4>1
      <4>. QED
        BY <3>1, <4>2, RepositionedFields DEF Repositioned, Cell
    <3>. HIDE DEF w
    <3>4. Gone(x, p, y)
      BY <3>2, <3>3, ClearedFields DEF Gone
    <3>5. e \in Tokens(y) <=> p >= 0 /\ e = Ent(s, p, x.row.tok)
      BY ONLY <2>1, <3>1, <3>4, MovedCell
    <3>6. \A f : f \in Tokens(x) <=> f = Ent(s, x.pos, x.row.tok)
      BY <3>1 DEF Tokens
    <3>7. \A f \in Tokens(x) : f.seq = s /\ f.pos = x.pos /\ f.tok = x.row.tok
      BY <3>6, EntFields
    <3>8. e \in Tokens(x) => e.seq = s /\ e.pos \in p0..p1-1
      BY <3>1, <3>7
    <3>9. (\E f \in Tokens(x) : /\ f.seq = s /\ f.pos \in p0..p1-1 /\ f.pos + m >= 0
                                /\ e = Ent(f.seq, f.pos + m, f.tok))
            <=> p >= 0 /\ e = Ent(s, p, x.row.tok)
      BY <3>1, <3>6, <3>7, EntFields DEF p
    <3>. QED
      BY <3>5, <3>8, <3>9 DEF y
  <2>2. CASE ~At(x, s, p0, p1)
    <3>1. AddCell(x, s, p0, p1, m) = x
      BY <2>2 DEF AddCell
    <3>2. \A f \in Tokens(x) : ~(f.seq = s /\ f.pos \in p0..p1-1)
      BY <2>2, EntFields DEF At, Tokens
    <3>. QED
      BY <3>1, <3>2
  <2>. QED
    BY <2>1, <2>2
<1>3. ASSUME NEW i \in Idx(c), NEW e
      PROVE  e \in Tokens(d.cells[i])
               <=> \/ e \in Tokens(c.cells[i]) /\ ~(e.seq = s /\ e.pos \in p0..p1-1)
                   \/ \E f \in Tokens(c.cells[i]) : /\ f.seq = s /\ f.pos \in p0..p1-1 /\ f.pos + m >= 0
                                           /\ e = Ent(f.seq, f.pos + m, f.tok)
  <2>1. c.cells[i] \in Cell /\ (At(c.cells[i], s, p0, p1) => c.cells[i].seqs = {s})
    BY SoundFacts DEF Alone
  <2>. QED
    BY <1>1, <1>2, <2>1
<1>4. ASSUME NEW e
      PROVE  e \in HeldIn(d)
               <=> \/ e \in HeldIn(c) /\ ~(e.seq = s /\ e.pos \in p0..p1-1)
                   \/ \E f \in HeldIn(c) : /\ f.seq = s /\ f.pos \in p0..p1-1 /\ f.pos + m >= 0
                                         /\ e = Ent(f.seq, f.pos + m, f.tok)
  <2>. DEFINE Stays == ~(e.seq = s /\ e.pos \in p0..p1-1)
              Comes(f) == /\ f.seq = s /\ f.pos \in p0..p1-1 /\ f.pos + m >= 0
                          /\ e = Ent(f.seq, f.pos + m, f.tok)
  <2>1. \A i \in Idx(c) : e \in Tokens(d.cells[i])
          <=> (e \in Tokens(c.cells[i]) /\ Stays) \/ \E f \in Tokens(c.cells[i]) : Comes(f)
    BY <1>3, Zenon
  <2>. HIDE DEF Stays, Comes
  <2>2. e \in HeldIn(d) <=> (e \in HeldIn(c) /\ Stays) \/ \E f \in HeldIn(c) : Comes(f)
    BY <1>1, <2>1 DEF HeldIn
  <2>. QED
    BY <2>2, Zenon DEF Stays, Comes
<1>. QED
  BY <1>4, Zenon DEF Part

Halved(S) == {Ent(e.seq, e.pos \div 2, e.tok) : e \in {f \in S : f.pos \div 2 >= 0}}

LEMMA DivHeld ==
  ASSUME NEW c, Sound(c), NEW s, NEW p0 \in Nat, NEW p1 \in Int, Alone(c, s, p0, p1),
         NEW d, d = CellsSeqDiv(c, s, p0, p1, 2)
  PROVE  HeldIn(d) = (HeldIn(c) \ Part(HeldIn(c), s, p0, p1))
           \cup Halved(Part(HeldIn(c), s, p0, p1))
<1>1. DOMAIN c = Fields
  BY SoundFacts
<1>2. Idx(d) = Idx(c)
  BY <1>1 DEF CellsSeqDiv, Fields, Idx
<1>3. d.cells = [i \in Idx(c) |->
                   IF i \in InRange(c, s, p0, p1) THEN Repositioned(c.cells[i], c.cells[i].pos \div 2)
                   ELSE c.cells[i]]
  BY <1>1 DEF CellsSeqDiv, Fields
<1>4. ASSUME NEW i \in Idx(c), NEW e
      PROVE  e \in Tokens(d.cells[i])
               <=> \/ e \in Tokens(c.cells[i]) /\ ~(e.seq = s /\ e.pos \in p0..p1-1)
                   \/ \E f \in Tokens(c.cells[i]) :
                        /\ f.seq = s /\ f.pos \in p0..p1-1 /\ f.pos \div 2 >= 0
                        /\ e = Ent(f.seq, f.pos \div 2, f.tok)
  <2>. DEFINE x == c.cells[i]
              y == d.cells[i]
              p == x.pos \div 2
  <2>0. x \in Cell
    BY SoundFacts
  <2>1. CASE At(x, s, p0, p1)
    <3>1. x.seqs = {s} /\ x.pos \in p0..p1-1 /\ x.pos \in Nat
      BY <2>1 DEF Alone, At
    <3>2. p \in Int /\ p >= 0
      BY <3>1
    <3>3. y = Repositioned(x, p)
      BY <1>3, <2>1 DEF InRange, At
    <3>. HIDE DEF p, x, y
    <3>4. Gone(x, p, y)
      BY <2>0, <3>2, <3>3, RepositionedFields DEF Gone
    <3>10. At(x, s, p0, p1)
      BY <2>1 DEF x
    <3>5. e \in Tokens(y) <=> p >= 0 /\ e = Ent(s, p, x.row.tok)
      BY ONLY <3>1, <3>2, <3>4, <3>10, MovedCell
    <3>6. \A f : f \in Tokens(x) <=> f = Ent(s, x.pos, x.row.tok)
      BY <3>1 DEF Tokens
    <3>7. \A f \in Tokens(x) : f.seq = s /\ f.pos = x.pos /\ f.tok = x.row.tok
      BY <3>6, EntFields
    <3>8. e \in Tokens(x) => e.seq = s /\ e.pos \in p0..p1-1
      BY <3>1, <3>7
    <3>9. (\E f \in Tokens(x) : /\ f.seq = s /\ f.pos \in p0..p1-1 /\ f.pos \div 2 >= 0
                                /\ e = Ent(f.seq, f.pos \div 2, f.tok))
            <=> p >= 0 /\ e = Ent(s, p, x.row.tok)
      BY <3>1, <3>6, <3>7, EntFields DEF p
    <3>. QED
      BY <3>5, <3>8, <3>9 DEF y, x
  <2>2. CASE ~At(x, s, p0, p1)
    <3>1. y = x
      BY <1>3, <2>2 DEF InRange, At
    <3>. HIDE DEF x, y
    <3>2. \A f \in Tokens(x) : ~(f.seq = s /\ f.pos \in p0..p1-1)
      BY <2>2, EntFields DEF At, Tokens
    <3>3. e \in Tokens(y)
               <=> \/ e \in Tokens(x) /\ ~(e.seq = s /\ e.pos \in p0..p1-1)
                   \/ \E f \in Tokens(x) :
                        /\ f.seq = s /\ f.pos \in p0..p1-1 /\ f.pos \div 2 >= 0
                        /\ e = Ent(f.seq, f.pos \div 2, f.tok)
      BY <3>1, <3>2
    <3>. QED
      BY <3>3 DEF x, y
  <2>. QED
    BY <2>1, <2>2
<1>. QED
  BY <1>2, <1>4 DEF HeldIn, Part, Halved

LEMMA ClearHeld ==
  ASSUME NEW c, Sound(c), NEW d, d = CellsClear(c)
  PROVE  HeldIn(d) = {}
<1>1. \A i \in Idx(c) : d.cells[i].seqs = {}
  BY ClearSound
<1>2. Idx(d) = Idx(c)
  BY ClearSound DEF Idx
<1>. QED
  BY <1>1, <1>2 DEF HeldIn, Tokens

LEMMA SameHeld ==
  ASSUME NEW c, NEW d, d.size = c.size, d.cells = c.cells
  PROVE  HeldIn(d) = HeldIn(c)
BY DEF HeldIn, Idx

(* Shifts that are applied and cells that are moved are not to be seen.     *)
LEMMA KShiftHeld ==
  ASSUME NEW c, Sound(c), NEW d, d = KShift(c)
  PROVE  HeldIn(d) = HeldIn(c)
<1>1. DOMAIN c = Fields
  BY SoundFacts
<1>2. d.cells = [i \in Idx(c) |-> Rotated(c.cells[i])]
  BY <1>1 DEF KShift, Fields
<1>3. Idx(d) = Idx(c)
  BY <1>1 DEF KShift, Fields, Idx
<1>4. \A i \in Idx(c) : Twin(d.cells[i], c.cells[i])
  BY <1>2, SoundFacts, RotatedTwin
<1>5. \A i \in Idx(c) : Tokens(d.cells[i]) = Tokens(c.cells[i])
  BY <1>4 DEF Twin, Tokens
<1>. QED
  BY <1>3, <1>5 DEF HeldIn

LEMMA DefragHeld ==
  ASSUME NEW c, Sound(c), NEW mm, ~hybrid, NEW d, d = Defragged(c, mm, hybrid)
  PROVE  HeldIn(d) = HeldIn(c)
<1>1. /\ Occupied(d) = (Occupied(c) \ Left(c, mm)) \cup Filled(c, mm)
      /\ \A i \in Occupied(c) \ Left(c, mm) : d.cells[i] = c.cells[i]
      /\ \A h \in Filled(c, mm) : d.cells[h] = c.cells[MoverFor(c, h)]
      /\ Left(c, mm) \in SUBSET Occupied(c)
  BY ONLY Sound(c), ~hybrid, d = Defragged(c, mm, hybrid), DefragSound
<1>2. \A b : HeldIn(b) = UNION {Tokens(b.cells[i]) : i \in Occupied(b)}
  BY DEF HeldIn, Occupied, Tokens
<1>3. ASSUME NEW i \in Occupied(c) PROVE \E j \in Occupied(d) : d.cells[j] = c.cells[i]
  <2>1. CASE i \in Left(c, mm)
    <3>1. PICK h \in Filled(c, mm) : i = MoverFor(c, h)
      BY <2>1 DEF Left
    <3>. QED
      BY <1>1, <3>1
  <2>2. CASE i \notin Left(c, mm)
    BY <1>1, <2>2
  <2>. QED
    BY <2>1, <2>2
<1>4. ASSUME NEW j \in Occupied(d) PROVE \E i \in Occupied(c) : d.cells[j] = c.cells[i]
  <2>1. CASE j \in Filled(c, mm)
    BY <1>1, <2>1 DEF Left
  <2>2. CASE j \notin Filled(c, mm)
    BY <1>1, <2>2
  <2>. QED
    BY <2>1, <2>2
<1>. QED
  BY <1>2, <1>3, <1>4

LEMMA UpdatedHeld ==
  ASSUME IInv, ~hybrid, NEW self, self = UpdatedSelf
  PROVE  HeldIn(self) = HeldIn(kv_self)
<1>. DEFINE a == IF ShiftDue THEN KShift(kv_self) ELSE kv_self
<1>1. Sound(kv_self)
  BY DEF IInv
<1>2. Sound(a) /\ HeldIn(a) = HeldIn(kv_self)
  BY <1>1, KShiftSound, KShiftHeld
<1>3. self = IF a.do_defrag THEN Defragged(a, max_moves, hybrid) ELSE a
  BY DEF UpdatedSelf
<1>. HIDE DEF a
<1>4. CASE a.do_defrag
  <2>1. self = Defragged(a, max_moves, hybrid) /\ Sound(a)
    BY <1>2, <1>3, <1>4
  <2>2. HeldIn(self) = HeldIn(a)
    BY ONLY <2>1, ~hybrid, DefragHeld
  <2>. QED
    BY <1>2, <2>2
<1>5. CASE ~a.do_defrag
  BY <1>2, <1>3, <1>5
<1>. QED
  BY <1>4, <1>5

LEMMA PlaceHeld ==
  ASSUME NEW c, Sound(c), NEW batch, NEW n \in Nat, n = Len(batch), NEW h \in SlotStarts(c, n),
         NEW d, d = Place(c, h, batch)
  PROVE  HeldIn(d) = HeldIn(c) \cup {Ent(batch[j].seq, batch[j].pos, batch[j].tok) : j \in 1..n}
<1>. DEFINE new == h..h+n-1
            E(j) == Ent(batch[j].seq, batch[j].pos, batch[j].tok)
<1>1. /\ Idx(d) = Idx(c) /\ d.head = h /\ h \in Nat /\ h + n <= c.size
      /\ \A i \in Idx(c) \ new : d.cells[i] = c.cells[i]
      /\ \A i \in new :
              /\ i \in Idx(c) /\ c.cells[i].seqs = {} /\ i - h + 1 \in 1..n
              /\ d.cells[i].pos = batch[i-h+1].pos /\ d.cells[i].seqs = {batch[i-h+1].seq}
              /\ d.cells[i].row.tok = batch[i-h+1].tok
  <2>1. Placed(c, h, n, batch, d)
    BY ONLY Sound(c), n \in Nat, n = Len(batch), h \in SlotStarts(c, n), d = Place(c, h, batch), PlaceCells
  <2>. QED
    BY ONLY <2>1 DEF Placed
<1>2. \A i \in new : Tokens(c.cells[i]) = {} /\ Tokens(d.cells[i]) = {E(i-h+1)}
  BY <1>1 DEF Tokens
<1>3. \A j \in 1..n : h + j - 1 \in new /\ (h + j - 1) - h + 1 = j
  BY <1>1
<1>. HIDE DEF E
<1>4. ASSUME NEW e
      PROVE  e \in HeldIn(d) <=> e \in HeldIn(c) \/ \E j \in 1..n : e = E(j)
  <2>1. ASSUME e \in HeldIn(d) PROVE e \in HeldIn(c) \/ \E j \in 1..n : e = E(j)
    <3>1. PICK i \in Idx(c) : e \in Tokens(d.cells[i])
      BY <1>1, <2>1 DEF HeldIn
    <3>2. CASE i \in new
      <4>1. i-h+1 \in 1..n
        BY <1>1, <3>2
      <4>2. e \in {E(i-h+1)}
        BY <1>2, <3>1, <3>2, Zenon
      <4>. QED
        BY <4>1, <4>2
    <3>3. CASE i \notin new
      BY <1>1, <3>1, <3>3 DEF HeldIn
    <3>. QED
      BY <3>2, <3>3
  <2>2. ASSUME e \in HeldIn(c) PROVE e \in HeldIn(d)
    <3>1. PICK i \in Idx(c) : e \in Tokens(c.cells[i])
      BY <2>2 DEF HeldIn
    <3>2. i \notin new
      BY <1>2, <3>1
    <3>. QED
      BY <1>1, <3>1, <3>2 DEF HeldIn
  <2>3. ASSUME NEW j \in 1..n, e = E(j) PROVE e \in HeldIn(d)
    <3>1. PICK i \in new : i - h + 1 = j
      BY <1>3
    <3>2. e \in Tokens(d.cells[i])
      BY <1>2, <2>3, <3>1
    <3>3. i \in Idx(d)
      BY <1>1
    <3>. QED
      BY <3>2, <3>3 DEF HeldIn
  <2>. QED
    BY <2>1, <2>2, <2>3
<1>. QED
  BY <1>4 DEF E

(***************************************************************************)
(* Every call does to the map what it is called for.                       *)
(***************************************************************************)
Low == \A e \in Held : e.pos \in 0..MaxPos

LEMMA HeldIs == ASSUME IInv PROVE Held = HeldIn(kv_self)
BY HeldOf DEF Held, IInv

LEMMA HeldWillBe ==
  ASSUME Sound(kv_self')
  PROVE  Held' = HeldIn(kv_self')
<1>. DEFINE c == kv_self'
<1>1. Sound(c)
  OBVIOUS
<1>. HIDE DEF c
<1>2. UNION {{[seq |-> s, pos |-> c.cells[i].pos, key |-> c.cells[i].row.rot + c.cells[i].delta,
                  tok |-> c.cells[i].row.tok] : s \in c.cells[i].seqs} : i \in Occupied(c)}
           = HeldIn(c)
  BY <1>1, HeldOf
<1>. QED
  BY <1>2 DEF Held, c

LEMMA MapWords ==
  /\ \A s, p, t : Map!Entry(s, p, t) = Ent(s, p, t)
  /\ \A s : Map!Of(s) = {e \in Held : e.seq = s}
  /\ \A s, p0, p1 : Map!In(s, p0, p1) = Part(Held, s, p0, p1)
<1>1. \A s, p, t : Map!Entry(s, p, t) = Ent(s, p, t)
  BY DEF Map!Entry, Ent
<1>2. \A s : Map!Of(s) = {e \in Held : e.seq = s}
  BY DEF Map!Of
<1>3. \A s, p0, p1 : Map!In(s, p0, p1) = Part(Held, s, p0, p1)
  BY DEF Map!In, Map!Of, Part
<1>. QED
  BY <1>1, <1>2, <1>3

LEMMA KeepMaps ==
  ASSUME IInv, IInv', Low, ~hybrid, NEW s \in Seqs, llama_kv_cache_seq_keep(s)
  PROVE  Map!SeqKeep(s) /\ Low'
<1>1. kv_self' = CellsSeqKeep(kv_self, s, hybrid) /\ Sound(kv_self) /\ Sound(kv_self')
  BY DEF llama_kv_cache_seq_keep, OnBoth, IInv
<1>2. Held' = {e \in Held : e.seq = s}
  BY <1>1, HeldIs, HeldWillBe, KeepHeld
<1>3. Map!SeqKeep(s)
  BY <1>2 DEF Map!SeqKeep, Map!Of
<1>. QED
  BY <1>2, <1>3 DEF Low

LEMMA CpMaps ==
  ASSUME IInv, IInv', Low, ~hybrid, NEW src \in Seqs, NEW dst \in Seqs, llama_kv_cache_seq_cp(src, dst)
  PROVE  Map!SeqCp(src, dst) /\ Low'
<1>1. kv_self' = CellsSeqCp(kv_self, src, dst, hybrid) /\ Sound(kv_self) /\ Sound(kv_self')
  BY DEF llama_kv_cache_seq_cp, OnBoth, IInv
<1>2. Held' = Held \cup {Ent(dst, e.pos, e.tok) : e \in {f \in Held : f.seq = src}}
  BY <1>1, HeldIs, HeldWillBe, CpHeld
<1>3. Map!SeqCp(src, dst)
  BY <1>2, MapWords DEF Map!SeqCp
<1>. QED
  BY <1>2, <1>3, EntFields DEF Low

LEMMA ClearMaps ==
  ASSUME IInv, IInv', llama_kv_cache_clear
  PROVE  Map!Clear /\ Low'
<1>1. kv_self' = CellsClear(kv_self) /\ Sound(kv_self) /\ Sound(kv_self')
  BY DEF llama_kv_cache_clear, OnBoth, IInv
<1>2. Held' = {}
  BY <1>1, HeldWillBe, ClearHeld
<1>. QED
  BY <1>2 DEF Low, Map!Clear

(* What a removal leaves.                                                   *)
LEMMA RemovedHeld ==
  ASSUME ~hybrid, NEW c, Sound(c), NEW s \in Int, NEW p0 \in Nat, NEW p1 \in Int, p1 <= MaxPos + 1,
         NEW d, d = Removed(c, s, p0, p1)
  PROVE  HeldIn(d) = IF Covered(s, p0, p1) THEN HeldIn(c) \ Part(HeldIn(c), s, p0, p1)
                     ELSE HeldIn(c) \ Part(HeldIn(c), s, 0, MaxPos + 1)
<1>. DEFINE rest == CellsSeqRm(c, s, p0, p1, hybrid)
<1>1. MaxPos \in Nat
  BY KvAssumption
<1>2. d = IF Covered(s, p0, p1) THEN rest ELSE CellsSeqRm(rest, s, 0, MaxPos + 1, hybrid)
  BY DEF Removed
<1>3. rest = CellsSeqRm(c, s, p0, p1, hybrid)
  OBVIOUS
<1>. HIDE DEF rest
<1>4. HeldIn(rest) = HeldIn(c) \ Part(HeldIn(c), s, p0, p1)
  BY ONLY <1>3, Sound(c), ~hybrid, RmHeld
<1>5. Sound(rest)
  BY ONLY <1>3, Sound(c), ~hybrid, s \in Int, p0 \in Nat, p1 \in Int, SeqRmSound
<1>6. CASE Covered(s, p0, p1)
  BY <1>2, <1>4, <1>6
<1>7. CASE ~Covered(s, p0, p1)
  <2>1. PICK u : u = MaxPos + 1
    OBVIOUS
  <2>2. PICK z : z = 0
    OBVIOUS
  <2>3. d = CellsSeqRm(rest, s, z, u, hybrid)
    BY <1>2, <1>7, <2>1, <2>2
  <2>4. HeldIn(d) = HeldIn(rest) \ Part(HeldIn(rest), s, z, u)
    BY ONLY <1>5, <2>3, ~hybrid, RmHeld
  <2>5. \A p : p \in p0..p1-1 => p \in z..u-1
    BY <1>1, <2>1, <2>2
  <2>6. \A H, G : G = H \ Part(H, s, p0, p1) => G \ Part(G, s, z, u) = H \ Part(H, s, z, u)
    BY <2>5, Zenon DEF Part
  <2>7. HeldIn(d) = HeldIn(c) \ Part(HeldIn(c), s, z, u)
    BY <1>4, <2>4, <2>6
  <2>. QED
    BY <1>7, <2>1, <2>2, <2>7
<1>. QED
  BY <1>6, <1>7

LEMMA RmMaps ==
  ASSUME IInv, IInv', Low, ~hybrid, NEW s \in Seqs, NEW p0 \in 0..MaxPos, llama_kv_cache_seq_rm(s, p0)
  PROVE  (Map!SeqRm(s, p0) \/ Map!SeqRm(s, 0)) /\ Low'
<1>1. kv_self' = Removed(kv_self, s, p0, MaxPos + 1) /\ Sound(kv_self) /\ Sound(kv_self')
  BY DEF llama_kv_cache_seq_rm, OnBoth, IInv
<1>2. s \in Int /\ p0 \in Nat /\ MaxPos + 1 \in Int /\ MaxPos + 1 <= MaxPos + 1
  BY KvAssumption DEF Seqs
<1>3. PICK u : u = MaxPos + 1
  OBVIOUS
<1>4. kv_self' = Removed(kv_self, s, p0, u) /\ u \in Int /\ u <= MaxPos + 1
  BY <1>1, <1>2, <1>3
<1>5. HeldIn(kv_self') = IF Covered(s, p0, u) THEN HeldIn(kv_self) \ Part(HeldIn(kv_self), s, p0, u)
                         ELSE HeldIn(kv_self) \ Part(HeldIn(kv_self), s, 0, MaxPos + 1)
  <2>1. PICK c, d : c = kv_self /\ d = kv_self'
    OBVIOUS
  <2>2. Sound(c) /\ d = Removed(c, s, p0, u)
    BY <1>1, <1>4, <2>1
  <2>3. HeldIn(d) = IF Covered(s, p0, u) THEN HeldIn(c) \ Part(HeldIn(c), s, p0, u)
                    ELSE HeldIn(c) \ Part(HeldIn(c), s, 0, MaxPos + 1)
    BY ONLY <1>2, <1>4, <2>2, ~hybrid, RemovedHeld
  <2>. QED
    BY <2>1, <2>3
<1>6. Held' = IF Covered(s, p0, u) THEN Held \ Part(Held, s, p0, u) ELSE Held \ Part(Held, s, 0, MaxPos + 1)
  BY <1>1, <1>5, HeldIs, HeldWillBe
<1>7. Map!SeqRm(s, p0) \/ Map!SeqRm(s, 0)
  BY <1>3, <1>6, MapWords DEF Map!SeqRm
<1>. QED
  BY <1>6, <1>7 DEF Low

LEMMA PosOfHeld ==
  ASSUME NEW c, Sound(c), \A e \in HeldIn(c) : e.pos \in 0..MaxPos, NEW s
  PROVE  PosOf(c, s) = {e.pos : e \in {f \in HeldIn(c) : f.seq = s}}
<1>0. MaxPos \in Nat
  BY KvAssumption
<1>1. ASSUME NEW i \in InRange(c, s, 0, MaxPos + 1)
      PROVE  \E e \in HeldIn(c) : e.seq = s /\ e.pos = c.cells[i].pos
  <2>1. i \in Idx(c) /\ s \in c.cells[i].seqs
    BY DEF InRange
  <2>2. Ent(s, c.cells[i].pos, c.cells[i].row.tok) \in Tokens(c.cells[i])
    BY <2>1 DEF Tokens
  <2>. QED
    BY <2>1, <2>2, InHeld, EntFields
<1>2. ASSUME NEW e \in HeldIn(c), e.seq = s
      PROVE  \E i \in InRange(c, s, 0, MaxPos + 1) : e.pos = c.cells[i].pos
  <2>1. PICK i \in Idx(c) : e \in Tokens(c.cells[i])
    BY InHeld
  <2>2. s \in c.cells[i].seqs /\ e.pos = c.cells[i].pos
    BY <1>2, <2>1, EntFields DEF Tokens
  <2>3. c.cells[i].pos \in 0..(MaxPos+1)-1
    BY <1>0, <2>2
  <2>4. i \in InRange(c, s, 0, MaxPos + 1)
    BY <2>1, <2>2, <2>3 DEF InRange
  <2>. QED
    BY <2>2, <2>4
<1>. QED
  BY <1>1, <1>2 DEF PosOf

LEMMA Owned ==
  ASSUME NEW s, NEW p0, NEW p1, Unshared(s, p0, p1)
  PROVE  Alone(kv_self, s, p0, p1)
BY DEF Unshared, Alone, At, InRange

LEMMA AddMaps ==
  ASSUME IInv, IInv', Low, NEW s \in Seqs, NEW p0 \in 0..MaxPos, NEW p1 \in p0+1..MaxPos+1, NEW d \in Shifts,
         llama_kv_cache_seq_add(s, p0, p1, d)
  PROVE  Map!SeqAdd(s, p0, p1, d) /\ Low'
<1>1. /\ kv_self' = CellsSeqAdd(kv_self, s, p0, p1, d) /\ Sound(kv_self) /\ Sound(kv_self')
      /\ Unshared(s, p0, p1) /\ RoomFor(s, p0, p1, d)
  BY DEF llama_kv_cache_seq_add, OnBoth, IInv
<1>2. d \in Int /\ MaxPos \in Nat /\ Alone(kv_self, s, p0, p1)
  BY <1>1, Owned, KvAssumption
<1>3. HeldIn(kv_self') = (HeldIn(kv_self) \ Part(HeldIn(kv_self), s, p0, p1))
         \cup {Ent(e.seq, e.pos + d, e.tok) : e \in {f \in Part(HeldIn(kv_self), s, p0, p1) : f.pos + d >= 0}}
  <2>1. PICK c, x : c = kv_self /\ x = kv_self'
    OBVIOUS
  <2>2. Sound(c) /\ x = CellsSeqAdd(c, s, p0, p1, d) /\ Alone(c, s, p0, p1)
    BY <1>1, <1>2, <2>1
  <2>3. HeldIn(x) = (HeldIn(c) \ Part(HeldIn(c), s, p0, p1))
           \cup {Ent(e.seq, e.pos + d, e.tok) : e \in {f \in Part(HeldIn(c), s, p0, p1) : f.pos + d >= 0}}
    BY ONLY <1>2, <2>2, AddHeld
  <2>. QED
    BY <2>1, <2>3
<1>4. Held' = (Held \ Part(Held, s, p0, p1))
         \cup {Ent(e.seq, e.pos + d, e.tok) : e \in {f \in Part(Held, s, p0, p1) : f.pos + d >= 0}}
  BY <1>1, <1>3, HeldIs, HeldWillBe
<1>5. Map!SeqAdd(s, p0, p1, d)
  BY <1>4, MapWords DEF Map!SeqAdd, Map!Moved
<1>6. ASSUME NEW e \in Part(Held, s, p0, p1), e.pos + d >= 0
      PROVE  e.pos + d \in 0..MaxPos
  <2>1. e \in Held /\ e.seq = s /\ e.pos \in p0..p1-1 /\ e.pos \in Int
    BY <1>6 DEF Part
  <2>2. e.pos \in PosOf(kv_self, s)
    BY <1>1, <2>1, HeldIs, PosOfHeld DEF Low
  <2>3. e.pos + d <= MaxPos
    BY <1>1, <2>1, <2>2 DEF RoomFor
  <2>. QED
    BY <1>2, <1>6, <2>1, <2>3
<1>7. Low'
  BY <1>4, <1>6, EntFields DEF Low, Part
<1>. QED
  BY <1>5, <1>7

LEMMA DivMaps ==
  ASSUME IInv, IInv', Low, NEW s \in Seqs, NEW p0 \in 0..MaxPos, NEW p1 \in p0+1..MaxPos+1,
         llama_kv_cache_seq_div(s, p0, p1, 2)
  PROVE  Map!SeqDiv(s, p0, p1, 2) /\ Low'
<1>1. /\ kv_self' = CellsSeqDiv(kv_self, s, p0, p1, 2) /\ Sound(kv_self) /\ Sound(kv_self')
      /\ Unshared(s, p0, p1)
  BY DEF llama_kv_cache_seq_div, OnBoth, IInv
<1>2. p0 \in Nat /\ p1 \in Int /\ MaxPos \in Nat /\ Alone(kv_self, s, p0, p1)
  BY <1>1, Owned, KvAssumption
<1>3. HeldIn(kv_self') = (HeldIn(kv_self) \ Part(HeldIn(kv_self), s, p0, p1))
         \cup Halved(Part(HeldIn(kv_self), s, p0, p1))
  <2>1. PICK c, x : c = kv_self /\ x = kv_self'
    OBVIOUS
  <2>2. Sound(c) /\ x = CellsSeqDiv(c, s, p0, p1, 2) /\ Alone(c, s, p0, p1)
    BY <1>1, <1>2, <2>1
  <2>3. HeldIn(x) = (HeldIn(c) \ Part(HeldIn(c), s, p0, p1))
           \cup Halved(Part(HeldIn(c), s, p0, p1))
    BY ONLY <1>2, <2>2, DivHeld
  <2>. QED
    BY <2>1, <2>3
<1>4. Held' = (Held \ Part(Held, s, p0, p1))
         \cup Halved(Part(Held, s, p0, p1))
  BY <1>1, <1>3, HeldIs, HeldWillBe
<1>5. Map!SeqDiv(s, p0, p1, 2)
  BY <1>4, MapWords DEF Map!SeqDiv, Map!Moved, Halved
<1>6. ASSUME NEW e \in Part(Held, s, p0, p1) PROVE e.pos \div 2 \in 0..MaxPos
  <2>1. e.pos \in 0..MaxPos
    BY DEF Part, Low
  <2>. QED
    BY <1>2, <2>1
<1>7. Low'
  BY <1>4, <1>6, EntFields DEF Low, Part, Halved
<1>. QED
  BY <1>5, <1>7

(* What a removal before p1 leaves of s beyond it still belongs to it alone. *)
LEMMA RemovedAlone ==
  ASSUME ~hybrid, NEW c, Sound(c), NEW s \in Int, NEW p0 \in Nat, NEW p1 \in Int, p0 <= p1, p1 <= MaxPos + 1,
         Alone(c, s, p0, MaxPos + 1), NEW d, d = Removed(c, s, p0, p1)
  PROVE  Alone(d, s, p1, MaxPos + 1)
<1>. DEFINE rest == CellsSeqRm(c, s, p0, p1, hybrid)
<1>1. MaxPos \in Nat
  BY KvAssumption
<1>2. d = IF Covered(s, p0, p1) THEN rest ELSE CellsSeqRm(rest, s, 0, MaxPos + 1, hybrid)
  BY DEF Removed
<1>3. rest = CellsSeqRm(c, s, p0, p1, hybrid)
  OBVIOUS
<1>. HIDE DEF rest
<1>4. Idx(rest) = Idx(c) /\ \A i \in Idx(c) : rest.cells[i] = RmCell(c.cells[i], s, p0, p1)
  BY ONLY <1>3, Sound(c), ~hybrid, RmCells
<1>5. Sound(rest)
  BY ONLY <1>3, Sound(c), ~hybrid, s \in Int, p0 \in Nat, p1 \in Int, SeqRmSound
<1>6. ASSUME NEW x \in Cell, NEW q0, NEW q1, At(RmCell(x, s, q0, q1), s, p1, MaxPos + 1)
      PROVE  RmCell(x, s, q0, q1) = x /\ ~At(x, s, q0, q1)
  <2>1. CASE At(x, s, q0, q1) /\ x.seqs = {s}
    BY <1>6, <2>1, ClearedFields DEF RmCell, At
  <2>2. CASE At(x, s, q0, q1) /\ x.seqs # {s}
    <3>. DEFINE T == x.seqs \ {s}
    <3>1. RmCell(x, s, q0, q1) = [x EXCEPT !.seqs = T]
      BY <2>2 DEF RmCell
    <3>. HIDE DEF T
    <3>2. RmCell(x, s, q0, q1).seqs = T
      BY <3>1 DEF Cell
    <3>. QED
      BY <1>6, <3>2 DEF At, T
  <2>3. CASE ~At(x, s, q0, q1)
    BY <2>3 DEF RmCell
  <2>. QED
    BY <2>1, <2>2, <2>3
<1>7. ASSUME NEW i \in Idx(rest), At(rest.cells[i], s, p1, MaxPos + 1) PROVE rest.cells[i].seqs = {s}
  <2>1. c.cells[i] \in Cell /\ rest.cells[i] = c.cells[i]
    BY <1>4, <1>6, <1>7, SoundFacts
  <2>2. \A p : p \in p1..(MaxPos+1)-1 => p \in p0..(MaxPos+1)-1
    BY <1>1
  <2>3. At(c.cells[i], s, p0, MaxPos + 1)
    BY <1>7, <2>1, <2>2 DEF At
  <2>. QED
    BY <1>4, <2>1, <2>3 DEF Alone
<1>8. CASE Covered(s, p0, p1)
  BY <1>2, <1>7, <1>8 DEF Alone
<1>9. CASE ~Covered(s, p0, p1)
  <2>1. PICK z, u : z = 0 /\ u = MaxPos + 1
    OBVIOUS
  <2>2. d = CellsSeqRm(rest, s, z, u, hybrid)
    BY <1>2, <1>9, <2>1
  <2>3. Idx(d) = Idx(rest) /\ \A i \in Idx(rest) : d.cells[i] = RmCell(rest.cells[i], s, z, u)
    BY ONLY <1>5, <2>2, ~hybrid, RmCells
  <2>4. ASSUME NEW i \in Idx(rest), At(d.cells[i], s, p1, MaxPos + 1) PROVE FALSE
    <3>1. rest.cells[i] \in Cell
      BY <1>5, SoundFacts
    <3>2. d.cells[i] = rest.cells[i] /\ ~At(rest.cells[i], s, z, u)
      BY <1>6, <2>3, <2>4, <3>1
    <3>3. \A p : p \in p1..(MaxPos+1)-1 => p \in z..u-1
      BY <1>1, <2>1
    <3>. QED
      BY <2>4, <3>2, <3>3 DEF At
  <2>. QED
    BY <2>3, <2>4 DEF Alone
<1>. QED
  BY <1>8, <1>9

LEMMA ContextShiftMaps ==
  ASSUME IInv, IInv', Low, ~hybrid, NEW s \in Seqs, NEW p0 \in 0..MaxPos, NEW p1 \in p0+1..MaxPos+1,
         ContextShift(s, p0, p1 - p0)
  PROVE  (Map!Discard(s, p0, p1) \/ Map!SeqRm(s, 0)) /\ Low'
<1>1. s \in Int /\ p0 \in Nat /\ p1 \in Int /\ MaxPos \in Nat /\ p0 <= p1 /\ p1 <= MaxPos + 1
      /\ p0 + (p1 - p0) = p1 /\ p0 < p1
  BY KvAssumption DEF Seqs
<1>2. PICK c, d, m, u, k : c = kv_self /\ d = Removed(c, s, p0, p1) /\ m = -(p1 - p0) /\ u = MaxPos + 1 /\ k = p1 - p0
  OBVIOUS
<1>3. /\ kv_self' = CellsSeqAdd(d, s, p1, u, m) /\ Sound(c) /\ Sound(kv_self')
      /\ Alone(c, s, p0, u)
  <2>1. /\ kv_self' = CellsSeqAdd(Removed(c, s, p0, p0 + k), s, p0 + k, u, m)
        /\ Unshared(s, p0, u)
    BY <1>2 DEF ContextShift, OnBoth
  <2>2. p0 + k = p1
    BY <1>1, <1>2
  <2>3. Alone(c, s, p0, u)
    BY <1>2, <2>1, Owned
  <2>4. Sound(c) /\ Sound(kv_self')
    BY <1>2 DEF IInv
  <2>. QED
    BY <1>2, <2>1, <2>2, <2>3, <2>4
<1>4. m \in Int /\ u \in Int
  BY <1>1, <1>2
<1>5. HeldIn(d) = IF Covered(s, p0, p1) THEN HeldIn(c) \ Part(HeldIn(c), s, p0, p1)
                  ELSE HeldIn(c) \ Part(HeldIn(c), s, 0, u)
  BY <1>1, <1>2, <1>3, RemovedHeld
<1>6. Alone(d, s, p1, u)
  BY <1>1, <1>2, <1>3, RemovedAlone
<1>7. Sound(d)
  BY ONLY <1>1, <1>2, <1>3, ~hybrid, RemovedSound
<1>8. PICK x : x = kv_self'
  OBVIOUS
<1>9. HeldIn(x) = (HeldIn(d) \ Part(HeldIn(d), s, p1, u))
         \cup {Ent(e.seq, e.pos + m, e.tok) : e \in {f \in Part(HeldIn(d), s, p1, u) : f.pos + m >= 0}}
  <2>1. x = CellsSeqAdd(d, s, p1, u, m)
    BY <1>3, <1>8
  <2>. QED
    BY ONLY <1>4, <1>6, <1>7, <2>1, AddHeld
<1>10. Held' = HeldIn(x) /\ Held = HeldIn(c)
  BY <1>2, <1>3, <1>8, HeldIs, HeldWillBe
<1>. DEFINE H == HeldIn(c)
            G == HeldIn(d)
<1>11. \A e \in H : e.pos \in 0..MaxPos
  BY <1>10 DEF Low
<1>12. ASSUME Covered(s, p0, p1)
       PROVE  G \ Part(G, s, p1, u) = H \ Part(H, s, p0, u) /\ Part(G, s, p1, u) = Part(H, s, p1, u)
  <2>1. G = H \ Part(H, s, p0, p1)
    BY <1>5, <1>12
  <2>2. \A p : /\ p \in p0..u-1 <=> p \in p0..p1-1 \/ p \in p1..u-1
               /\ p \in p1..u-1 => p \notin p0..p1-1
    BY <1>1, <1>2
  <2>. HIDE DEF G, H
  <2>. QED
    BY <2>1, <2>2, Zenon DEF Part
<1>13. ASSUME ~Covered(s, p0, p1)
       PROVE  G = H \ Part(H, s, 0, u) /\ Part(G, s, p1, u) = {}
  <2>1. G = H \ Part(H, s, 0, u)
    BY <1>5, <1>13
  <2>2. \A p : p \in p1..u-1 => p \in 0..u-1
    BY <1>1, <1>2
  <2>. HIDE DEF G, H
  <2>. QED
    BY <2>1, <2>2, Zenon DEF Part
<1>. HIDE DEF G, H
<1>14. CASE Covered(s, p0, p1)
  <2>1. Held' = (Held \ Part(Held, s, p0, u))
           \cup {Ent(e.seq, e.pos + m, e.tok) : e \in {f \in Part(Held, s, p1, u) : f.pos + m >= 0}}
    BY <1>9, <1>10, <1>12, <1>14, Zenon DEF G, H
  <2>2. \A e \in Part(Held, s, p1, u) : e.pos \in 0..MaxPos /\ e.pos + m = e.pos - (p1 - p0)
    <3>1. \A e \in Part(Held, s, p1, u) : e.pos \in 0..MaxPos
      BY DEF Low, Part
    <3>2. \A p \in 0..MaxPos : p + m = p - (p1 - p0)
      BY <1>1, <1>2
    <3>. QED
      BY <3>1, <3>2
  <2>3. {Ent(e.seq, e.pos + m, e.tok) : e \in {f \in Part(Held, s, p1, u) : f.pos + m >= 0}}
          = {Ent(e.seq, e.pos - (p1 - p0), e.tok) : e \in {f \in Part(Held, s, p1, u) : f.pos - (p1 - p0) >= 0}}
    BY <2>2, Zenon
  <2>4. Map!Discard(s, p0, p1)
    BY <1>2, <2>1, <2>3, MapWords DEF Map!Discard, Map!Moved
  <2>5. \A e \in Part(Held, s, p1, u) : e.pos + m >= 0 => e.pos + m \in 0..MaxPos
    <3>1. \A p \in 0..MaxPos : p + m >= 0 => p + m \in 0..MaxPos
      BY <1>1, <1>2
    <3>. QED
      BY <2>2, <3>1
  <2>6. Low'
    BY <2>1, <2>5, EntFields DEF Low
  <2>. QED
    BY <2>4, <2>6
<1>15. CASE ~Covered(s, p0, p1)
  <2>1. Held' = Held \ Part(Held, s, 0, u)
    <3>1. G \ Part(G, s, p1, u) = G /\ {f \in Part(G, s, p1, u) : f.pos + m >= 0} = {}
      BY <1>13, <1>15
    <3>2. HeldIn(x) = G
      BY <1>9, <3>1, Zenon DEF G
    <3>. QED
      BY <1>10, <1>13, <1>15, <3>2 DEF H
  <2>2. Map!SeqRm(s, 0)
    BY <1>2, <2>1, MapWords DEF Map!SeqRm
  <2>3. Low'
    BY <2>1 DEF Low
  <2>. QED
    BY <2>2, <2>3
<1>. QED
  BY <1>14, <1>15

LEMMA PosNextIs ==
  ASSUME IInv, Low, NEW s
  PROVE  Map!PosNext(s) = PosNext(s)
<1>1. PosOf(kv_self, s) = {e.pos : e \in Map!Of(s)}
  BY HeldIs, PosOfHeld DEF IInv, Low, Map!Of
<1>2. PosOf(kv_self, s) = {} <=> Map!Of(s) = {}
  BY <1>1
<1>3. \A S : Map!Max(S) = Max(S)
  BY DEF Map!Max, Max
<1>. QED
  BY <1>1, <1>2, <1>3 DEF Map!PosNext, PosNext

LEMMA BatchPosIs ==
  ASSUME IInv, Low, NEW n \in Nat, NEW q \in [1..n -> Seqs], NEW i \in 1..n
  PROVE  UBatch(q)[i] = [seq |-> q[i], pos |-> Map!BatchPos(q, i), tok |-> <<q[i], Map!BatchPos(q, i)>>]
<1>1. \A S : Map!Cardinality(S) = Cardinality(S)
  BY DEF Map!Cardinality, Cardinality
<1>2. Map!BatchPos(q, i) = PosNext(q[i]) + Cardinality({j \in 1..i-1 : q[j] = q[i]})
  BY <1>1, PosNextIs DEF Map!BatchPos
<1>. QED
  BY <1>2 DEF UBatch

LEMMA DecodeMaps ==
  ASSUME IInv, IInv', Low, ~hybrid, NEW n \in 1..MaxBatch, NEW q \in [1..n -> Seqs], llama_decode(q)
  PROVE  (Held' = Held \/ Map!Decode(q)) /\ Low'
<1>. DEFINE batch == UBatch(q)
            a     == UpdatedSelf
            self  == SearchFrom(a, n)
            h     == FirstSlot(self, n)
            own   == Place(self, h, batch)
            self_takes == SlotStarts(self, n) # {}
<1>1. n \in Nat /\ MaxPos \in Nat
  BY KvAssumption
<1>2. Len(batch) = n /\ Len(q) = n /\ DOMAIN q = 1..n /\ \A i \in 1..n : TokenOk(batch[i])
  BY <1>1, UBatchTokens
<1>3. /\ \A i \in 1..n : batch[i].pos <= MaxPos
      /\ \/ kv_self' = self
         \/ kv_self' = GaveUp(self, n)
         \/ self_takes /\ kv_self' = Advanced(WithExtent(own), n)
  BY <1>2 DEF llama_decode
<1>4. Sound(kv_self') /\ Sound(kv_self)
  BY DEF IInv
<1>5. Sound(a) /\ a.size = KvSize /\ ~a.has_shift
  BY UpdatedSound
<1>6. HeldIn(a) = HeldIn(kv_self)
  BY UpdatedHeld
<1>. HIDE DEF batch, a
<1>7. Sound(self) /\ self.size = KvSize /\ ~self.has_shift
  BY <1>5, HeadsSound
<1>8. HeldIn(self) = HeldIn(kv_self)
  BY <1>5, <1>6, HeadCells, SameHeld
<1>. HIDE DEF self
<1>9. CASE kv_self' = self \/ kv_self' = GaveUp(self, n)
  <2>1. HeldIn(GaveUp(self, n)) = HeldIn(self)
    BY <1>7, HeadCells, SameHeld
  <2>2. Held' = Held
    BY <1>4, <1>8, <1>9, <2>1, HeldIs, HeldWillBe
  <2>. QED
    BY <2>2 DEF Low
<1>10. CASE self_takes /\ kv_self' = Advanced(WithExtent(own), n)
  <2>1. self.size \in Nat
    BY <1>7, SoundFacts
  <2>2. h \in SlotStarts(self, n)
    BY <1>10, <2>1, FirstSlotStarts
  <2>3. own = Place(self, h, batch)
    OBVIOUS
  <2>. HIDE DEF h, own
  <2>4. Sound(own)
    BY ONLY <1>1, <1>2, <1>7, <2>2, <2>3, PlaceSound
  <2>5. HeldIn(own) = HeldIn(self) \cup {Ent(batch[j].seq, batch[j].pos, batch[j].tok) : j \in 1..n}
    BY ONLY <1>1, <1>2, <1>7, <2>2, <2>3, PlaceHeld
  <2>6. HeldIn(kv_self') = HeldIn(own)
    <3>1. Sound(WithExtent(own)) /\ HeldIn(WithExtent(own)) = HeldIn(own)
      BY <2>4, HeadsSound, HeadCells, SameHeld
    <3>. QED
      BY <1>10, <3>1, HeadCells, SameHeld
  <2>7. Held' = Held \cup {Ent(batch[j].seq, batch[j].pos, batch[j].tok) : j \in 1..n}
    BY <1>4, <1>8, <2>5, <2>6, HeldIs, HeldWillBe
  <2>8. \A j \in 1..n : Ent(batch[j].seq, batch[j].pos, batch[j].tok)
                          = Map!Entry(q[j], Map!BatchPos(q, j), <<q[j], Map!BatchPos(q, j)>>)
    <3>. SUFFICES ASSUME NEW j \in 1..n
                  PROVE  Ent(batch[j].seq, batch[j].pos, batch[j].tok)
                           = Map!Entry(q[j], Map!BatchPos(q, j), <<q[j], Map!BatchPos(q, j)>>)
      OBVIOUS
    <3>1. PICK b : b = Map!BatchPos(q, j)
      OBVIOUS
    <3>2. batch[j] = [seq |-> q[j], pos |-> b, tok |-> <<q[j], b>>]
      BY <1>1, <3>1, BatchPosIs DEF batch
    <3>3. Map!Entry(q[j], b, <<q[j], b>>) = Ent(q[j], b, <<q[j], b>>)
      BY MapWords, Zenon
    <3>. QED
      BY <3>1, <3>2, <3>3
  <2>9. Map!Decode(q)
    BY <1>2, <2>7, <2>8 DEF Map!Decode
  <2>10. \A j \in 1..n : batch[j].pos \in 0..MaxPos
    BY <1>1, <1>2, <1>3 DEF TokenOk
  <2>11. Low'
    BY <2>7, <2>10, EntFields DEF Low
  <2>. QED
    BY <2>9, <2>11
<1>. QED
  BY <1>3, <1>9, <1>10

LEMMA FileHeld ==
  ASSUME NEW s \in Int, NEW n \in Nat
  PROVE  /\ {Ent(FromFile(s, n)[j].seq, FromFile(s, n)[j].pos, FromFile(s, n)[j].tok) : j \in 1..n}
              = Map!Restored(s, n)
         /\ \A e \in Map!Restored(s, n) : e.pos \in 0..n-1
<1>1. \A j \in 1..n : Ent(FromFile(s, n)[j].seq, FromFile(s, n)[j].pos, FromFile(s, n)[j].tok)
                        = Ent(s, j - 1, <<-1, j - 1>>)
  BY DEF FromFile
<1>2. Map!Restored(s, n) = {Ent(s, p, <<-1, p>>) : p \in 0..n-1}
  BY MapWords DEF Map!Restored
<1>3. \A p \in 0..n-1 : p + 1 \in 1..n /\ (p + 1) - 1 = p
  OBVIOUS
<1>4. \A j \in 1..n : j - 1 \in 0..n-1
  OBVIOUS
<1>5. {Ent(s, j - 1, <<-1, j - 1>>) : j \in 1..n} = {Ent(s, p, <<-1, p>>) : p \in 0..n-1}
  <2>. DEFINE E(p) == Ent(s, p, <<-1, p>>)
  <2>. HIDE DEF E
  <2>1. {E(j - 1) : j \in 1..n} = {E(p) : p \in 0..n-1}
    BY <1>3, <1>4
  <2>. QED
    BY <2>1 DEF E
<1>6. \A e \in Map!Restored(s, n) : e.pos \in 0..n-1
  <2>. SUFFICES ASSUME NEW e \in Map!Restored(s, n) PROVE e.pos \in 0..n-1
    OBVIOUS
  <2>1. PICK p \in 0..n-1 : e = Ent(s, p, <<-1, p>>)
    BY <1>2
  <2>2. e.pos = p
    BY <2>1, EntFields
  <2>. QED
    BY <2>2
<1>. QED
  BY <1>1, <1>2, <1>5, <1>6

LEMMA RestoreMaps ==
  ASSUME IInv, IInv', Low, ~hybrid, NEW s \in Seqs, NEW n \in FileTokens, llama_state_seq_set_data(s, n)
  PROVE  (Map!Restore(s, n) \/ Map!SeqRm(s, 0)) /\ Low'
<1>1. PICK u, z : u = MaxPos + 1 /\ z = 0
  OBVIOUS
<1>. DEFINE c == CellsSeqRm(kv_self, s, z, u, hybrid)
            h == FirstSlot(c, n)
            batch == FromFile(s, n)
            own == Place(c, h, batch)
<1>2. IF SlotStarts(c, n) # {} THEN kv_self' = own ELSE kv_self' = GaveUp(c, n)
  BY <1>1 DEF llama_state_seq_set_data
<1>3. /\ Sound(kv_self) /\ Sound(kv_self') /\ s \in Int /\ n \in Nat /\ z \in Int /\ u \in Int
      /\ n <= u /\ MaxPos \in Nat
  BY <1>1, KvAssumption DEF IInv, Seqs
<1>4. c = CellsSeqRm(kv_self, s, z, u, hybrid)
  OBVIOUS
<1>5. Len(batch) = n /\ \A i \in 1..n : TokenOk(batch[i])
  BY <1>3, FileTokensOk
<1>. HIDE DEF c
<1>6. Sound(c)
  BY ONLY <1>3, <1>4, ~hybrid, SeqRmSound
<1>7. HeldIn(c) = HeldIn(kv_self) \ Part(HeldIn(kv_self), s, z, u)
  BY ONLY <1>3, <1>4, ~hybrid, RmHeld
<1>8. HeldIn(c) = Held \ Part(Held, s, z, u)
  BY <1>7, HeldIs
<1>9. CASE SlotStarts(c, n) # {}
  <2>1. h \in SlotStarts(c, n)
    BY <1>6, <1>9, SoundFacts, FirstSlotStarts
  <2>2. own = Place(c, h, batch) /\ kv_self' = own
    BY <1>2, <1>9
  <2>. HIDE DEF h, own, batch
  <2>3. HeldIn(own) = HeldIn(c) \cup {Ent(batch[j].seq, batch[j].pos, batch[j].tok) : j \in 1..n}
    BY ONLY <1>3, <1>5, <1>6, <2>1, <2>2, PlaceHeld
  <2>4. Held' = (Held \ Part(Held, s, z, u)) \cup Map!Restored(s, n)
    BY <1>3, <1>8, <2>2, <2>3, HeldWillBe, FileHeld DEF batch
  <2>5. Part(Held, s, z, u) = Map!Of(s)
    BY <1>1, <1>3, MapWords DEF Part, Low
  <2>6. Map!Restore(s, n)
    BY <2>4, <2>5 DEF Map!Restore
  <2>7. \A e \in Map!Restored(s, n) : e.pos \in 0..MaxPos
    <3>1. \A p \in 0..n-1 : p \in 0..MaxPos
      BY <1>1, <1>3
    <3>. QED
      BY <1>3, <3>1, FileHeld
  <2>8. Low'
    BY <2>4, <2>7 DEF Low
  <2>. QED
    BY <2>6, <2>8
<1>10. CASE SlotStarts(c, n) = {}
  <2>1. kv_self' = GaveUp(c, n)
    BY <1>2, <1>10
  <2>2. Held' = HeldIn(c)
    BY <1>3, <1>6, <2>1, HeadCells, SameHeld, HeldWillBe
  <2>3. Map!SeqRm(s, 0)
    BY <1>1, <1>8, <2>2, MapWords DEF Map!SeqRm
  <2>4. Low'
    BY <1>8, <2>2 DEF Low
  <2>. QED
    BY <2>3, <2>4
<1>. QED
  BY <1>9, <1>10

LEMMA RestoreAllMaps ==
  ASSUME IInv, IInv', NEW s \in Seqs, NEW n \in FileTokens, llama_state_set_data(s, n)
  PROVE  Map!RestoreAll(s, n) /\ Low'
<1>. DEFINE c == CellsClear(kv_self)
            batch == FromFile(s, n)
            d == Place(c, 0, batch)
<1>1. n <= KvSize /\ kv_self' = d
  BY DEF llama_state_set_data
<1>2. /\ Sound(kv_self) /\ Sound(kv_self') /\ kv_self.size = KvSize /\ s \in Int /\ n \in Nat
      /\ KvSize \in Nat \ {0} /\ MaxPos \in Nat /\ n <= MaxPos + 1
  BY KvAssumption DEF IInv, Seqs
<1>3. c = CellsClear(kv_self) /\ d = Place(c, 0, batch)
  OBVIOUS
<1>4. Len(batch) = n /\ \A i \in 1..n : TokenOk(batch[i])
  BY <1>2, FileTokensOk
<1>. HIDE DEF c, batch, d
<1>5. Sound(c) /\ c.size = kv_self.size /\ \A i \in Idx(kv_self) : c.cells[i].seqs = {}
  BY ONLY <1>2, <1>3, ClearSound
<1>6. 0 \in SlotStarts(c, n)
  <2>1. Idx(c) = 0..KvSize-1 /\ Idx(kv_self) = Idx(c)
    BY <1>2, <1>5 DEF Idx
  <2>2. \A i \in Idx(c) : CellOk(c.cells[i]) /\ c.cells[i].seqs = {}
    BY <1>5, <2>1, SoundFacts
  <2>3. \A i \in Idx(c) : c.cells[i].pos < 0
    BY <2>2 DEF CellOk, Cell
  <2>4. \A i \in 0..0+n-1 : c.cells[i].pos < 0
    BY <1>1, <1>2, <2>1, <2>3
  <2>. QED
    BY <1>1, <1>2, <1>5, <2>1, <2>4 DEF SlotStarts
<1>7. HeldIn(c) = {}
  BY ONLY <1>2, <1>3, ClearHeld
<1>8. HeldIn(d) = HeldIn(c) \cup {Ent(batch[j].seq, batch[j].pos, batch[j].tok) : j \in 1..n}
  BY ONLY <1>2, <1>3, <1>4, <1>5, <1>6, PlaceHeld
<1>9. Held' = Map!Restored(s, n)
  BY <1>1, <1>2, <1>7, <1>8, HeldWillBe, FileHeld DEF batch
<1>10. \A e \in Map!Restored(s, n) : e.pos \in 0..MaxPos
  <2>1. \A p \in 0..n-1 : p \in 0..MaxPos
    BY <1>2
  <2>. QED
    BY <1>2, <2>1, FileHeld
<1>. QED
  BY <1>9, <1>10 DEF Map!RestoreAll, Low

(* A call does one thing to the map, or nothing that can be seen.           *)
MapStep == [Map!Next]_Held

LEMMA OnSequenceMaps ==
  ASSUME IInv, IInv', Low, ~hybrid, NEW s \in Seqs, OnSequence(s)
  PROVE  MapStep /\ Low'
<1>0. MaxPos \in Nat /\ 0 \in 0..MaxPos
  BY KvAssumption
<1>1. CASE llama_kv_cache_seq_keep(s)
  BY <1>1, KeepMaps DEF MapStep, Map!Next
<1>2. CASE \E dst \in Seqs : llama_kv_cache_seq_cp(s, dst)
  BY <1>2, CpMaps DEF MapStep, Map!Next
<1>3. CASE \E p0 \in 0..MaxPos : llama_kv_cache_seq_rm(s, p0)
  BY <1>0, <1>3, RmMaps DEF MapStep, Map!Next
<1>4. CASE \E p0 \in 0..MaxPos : \E p1 \in p0+1..MaxPos+1 :
               \/ \E d \in Shifts : llama_kv_cache_seq_add(s, p0, p1, d)
               \/ llama_kv_cache_seq_div(s, p0, p1, 2)
               \/ ContextShift(s, p0, p1 - p0)
  <2>0. PICK p0 \in 0..MaxPos : \E p1 \in p0+1..MaxPos+1 :
               \/ \E d \in Shifts : llama_kv_cache_seq_add(s, p0, p1, d)
               \/ llama_kv_cache_seq_div(s, p0, p1, 2)
               \/ ContextShift(s, p0, p1 - p0)
    BY <1>4
  <2>1. PICK p1 \in p0+1..MaxPos+1 :
               \/ \E d \in Shifts : llama_kv_cache_seq_add(s, p0, p1, d)
               \/ llama_kv_cache_seq_div(s, p0, p1, 2)
               \/ ContextShift(s, p0, p1 - p0)
    BY <2>0
  <2>2. PICK r : r = <<p0, p1>>
    OBVIOUS
  <2>3. r \in Map!Ranges /\ r[1] = p0 /\ r[2] = p1
    BY <1>0, <2>2 DEF Map!Ranges
  <2>4. ASSUME NEW d \in Shifts, llama_kv_cache_seq_add(s, p0, p1, d) PROVE MapStep /\ Low'
    <3>1. Map!SeqAdd(s, r[1], r[2], d) /\ Low'
      BY <2>3, <2>4, AddMaps
    <3>. QED
      BY <2>3, <3>1 DEF MapStep, Map!Next
  <2>5. CASE llama_kv_cache_seq_div(s, p0, p1, 2)
    <3>1. Map!SeqDiv(s, r[1], r[2], 2) /\ Low'
      BY <2>3, <2>5, DivMaps
    <3>. QED
      BY <2>3, <3>1 DEF MapStep, Map!Next
  <2>6. CASE ContextShift(s, p0, p1 - p0)
    <3>1. (Map!Discard(s, r[1], r[2]) \/ Map!SeqRm(s, 0)) /\ Low'
      BY <2>3, <2>6, ContextShiftMaps
    <3>. QED
      BY <1>0, <2>3, <3>1 DEF MapStep, Map!Next
  <2>. QED
    BY <2>1, <2>4, <2>5, <2>6
<1>5. CASE \E n \in FileTokens : llama_state_seq_set_data(s, n) \/ llama_state_set_data(s, n)
  <2>1. PICK n \in FileTokens : llama_state_seq_set_data(s, n) \/ llama_state_set_data(s, n)
    BY <1>5
  <2>2. CASE llama_state_seq_set_data(s, n)
    BY <1>0, <2>2, RestoreMaps DEF MapStep, Map!Next
  <2>3. CASE llama_state_set_data(s, n)
    BY <2>3, RestoreAllMaps DEF MapStep, Map!Next
  <2>. QED
    BY <2>1, <2>2, <2>3
<1>. QED
  BY <1>1, <1>2, <1>3, <1>4, <1>5 DEF OnSequence

LEMMA StepMaps ==
  ASSUME ~hybrid
  PROVE  IInv /\ Low /\ [Next]_vars => MapStep /\ Low'
<1>. SUFFICES ASSUME IInv, Low, [Next]_vars PROVE MapStep /\ Low'
  OBVIOUS
<1>0. IInv' /\ Sound(kv_self) /\ Sound(kv_self')
  BY StepSound DEF IInv
<1>1. ASSUME NEW s \in Seqs, OnSequence(s) PROVE MapStep /\ Low'
  BY <1>0, <1>1, OnSequenceMaps
<1>2. CASE \E n \in 1..MaxBatch : \E q \in [1..n -> Seqs] : llama_decode(q)
  <2>1. PICK n \in 1..MaxBatch : \E q \in [1..n -> Seqs] : llama_decode(q)
    BY <1>2
  <2>2. PICK q \in [1..n -> Seqs] : llama_decode(q)
    BY <2>1
  <2>3. (Held' = Held \/ Map!Decode(q)) /\ Low'
    BY <1>0, <2>2, DecodeMaps
  <2>. QED
    BY <2>3 DEF MapStep, Map!Next
<1>3. ASSUME HeldIn(kv_self') = HeldIn(kv_self) PROVE MapStep /\ Low'
  <2>1. Held' = Held
    BY <1>0, <1>3, HeldIs, HeldWillBe
  <2>. QED
    BY <2>1 DEF MapStep, Low
<1>4. CASE llama_kv_cache_update
  BY <1>3, <1>4, UpdatedHeld DEF llama_kv_cache_update
<1>5. CASE llama_kv_cache_defrag
  <2>1. kv_self'.size = kv_self.size /\ kv_self'.cells = kv_self.cells
    BY <1>0, <1>5, SoundFacts DEF llama_kv_cache_defrag, Fields
  <2>. QED
    BY <1>3, <2>1, SameHeld
<1>6. CASE llama_kv_cache_clear
  BY <1>0, <1>6, ClearMaps DEF MapStep, Map!Next
<1>7. CASE UNCHANGED vars
  BY <1>3, <1>7 DEF vars
<1>. QED
  BY <1>1, <1>2, <1>4, <1>5, <1>6, <1>7 DEF Next

LEMMA InitMaps == Init => Held = {}
<1>. SUFFICES ASSUME Init PROVE Held = {}
  OBVIOUS
<1>1. kv_self = NewCache(KvSize)
  BY DEF Init
<1>2. kv_self.size = KvSize /\ kv_self.cells = [i \in 0..KvSize-1 |-> NewCell]
  BY <1>1 DEF NewCache
<1>3. NewCell.seqs = {}
  BY DEF NewCell
<1>4. HeldIn(kv_self) = {}
  BY <1>2, <1>3 DEF HeldIn, Tokens, Idx
<1>. QED
  BY <1>4, HeldIs, InitSound

(* To its callers the cache is a map from sequences and positions to        *)
(* tokens, for any size, number of sequences, window and any calls: each    *)
(* call does to the map what its name says, and placing, rotating rows      *)
(* later, defragmenting and refusing a batch cannot be seen.                *)
THEOREM CacheIsMap ==
  ASSUME ~hybrid
  PROVE  Spec => ImplementsKvMap
<1>1. Init => Map!Init /\ Low
  BY InitMaps DEF Map!Init, Low
<1>2. IInv /\ Low /\ [Next]_vars => [Map!Next]_Held /\ Low'
  BY StepMaps DEF MapStep
<1>. QED
  BY <1>1, <1>2, InitSound, StepSound, PTL DEF Spec, ImplementsKvMap, Map!Spec

(***************************************************************************)
(* The window.  What the next query of a sequence can attend to is held by *)
(* the sliding cache too.  This is kept only because positions tell the    *)
(* tokens of a sequence apart.                                             *)
(***************************************************************************)

(* The next query of its sequence can attend to e.                          *)
InReach(H, e) == \A f \in H : f.seq = e.seq => f.pos + 1 - e.pos < n_swa

Formed(H) == \A e \in H : e.pos \in 0..MaxPos /\ e = Ent(e.seq, e.pos, e.tok)

Apart(H) == \A e, f \in H : e.seq = f.seq /\ e.pos = f.pos => e = f

Reached(H, W) == \A e \in H : InReach(H, e) => e \in W

Window(H, W) == Apart(H) /\ Reached(H, W)

(* What is left of H: of the sequences in Q, without s, of s before p.      *)
Some(H, Q, G)    == \A e : e \in G <=> e \in H /\ e.seq \in Q
Without(H, s, G) == \A e : e \in G <=> e \in H /\ e.seq # s
Cut(H, s, p, G)  == \A e : e \in G <=> e \in H /\ ~(e.seq = s /\ e.pos >= p)

(* What is there when src was copied to dst.                                *)
Copied(H, src, dst, G) ==
  \A e : e \in G <=> e \in H \/ \E f \in H : f.seq = src /\ e = Ent(dst, f.pos, f.tok)

(* Sequences go, as a whole.                                                *)
LEMMA WindowOfSome ==
  ASSUME NEW H, NEW W, Window(H, W), NEW Q, NEW G, Some(H, Q, G), NEW V, Some(W, Q, V)
  PROVE  Window(G, V)
<1>0. /\ \A e : e \in G <=> e \in H /\ e.seq \in Q
      /\ \A e : e \in V <=> e \in W /\ e.seq \in Q
  BY DEF Some
<1>1. Apart(G)
  BY <1>0 DEF Window, Apart
<1>2. ASSUME NEW e \in G, InReach(G, e) PROVE e \in V
  <2>1. InReach(H, e)
    BY <1>0, <1>2 DEF InReach
  <2>. QED
    BY <1>0, <2>1 DEF Window, Reached
<1>. QED
  BY <1>1, <1>2 DEF Window, Reached

LEMMA WindowWithout ==
  ASSUME NEW H, NEW W, W \subseteq H, Window(H, W), NEW s, NEW G, Without(H, s, G),
         NEW V, Without(W, s, V)
  PROVE  Window(G, V)
<1>1. PICK Q : Q = {e.seq : e \in H} \ {s}
  OBVIOUS
<1>2. Some(H, Q, G) /\ Some(W, Q, V)
  BY <1>1 DEF Some, Without
<1>. QED
  BY ONLY Window(H, W), <1>2, WindowOfSome

(* A sequence is copied to one that is empty.                               *)
LEMMA WindowCopied ==
  ASSUME NEW H, NEW W, W \subseteq H, Window(H, W), NEW src, NEW dst, \A e \in H : e.seq # dst,
         NEW G, Copied(H, src, dst, G), NEW V, Copied(W, src, dst, V)
  PROVE  Window(G, V)
<1>0. /\ \A e : e \in G <=> e \in H \/ \E f \in H : f.seq = src /\ e = Ent(dst, f.pos, f.tok)
      /\ \A e : e \in V <=> e \in W \/ \E f \in W : f.seq = src /\ e = Ent(dst, f.pos, f.tok)
  BY DEF Copied
<1>1. ASSUME NEW e \in G
      PROVE  \/ e \in H /\ e.seq # dst
             \/ \E a \in H : /\ a.seq = src /\ e = Ent(dst, a.pos, a.tok)
                             /\ e.seq = dst /\ e.pos = a.pos
  BY <1>0, EntFields
<1>2. Apart(G)
  <2>. SUFFICES ASSUME NEW e \in G, NEW f \in G, e.seq = f.seq, e.pos = f.pos
                PROVE  e = f
    BY DEF Apart
  <2>1. CASE e.seq = dst
    <3>1. PICK a \in H : a.seq = src /\ e = Ent(dst, a.pos, a.tok) /\ e.pos = a.pos
      BY <1>1, <2>1
    <3>2. PICK b \in H : b.seq = src /\ f = Ent(dst, b.pos, b.tok) /\ f.pos = b.pos
      <4>1. f.seq = dst
        BY <2>1
      <4>. QED
        BY <1>1, <4>1
    <3>3. a = b
      BY <3>1, <3>2 DEF Window, Apart
    <3>. QED
      BY <3>1, <3>2, <3>3
  <2>2. CASE e.seq # dst
    <3>1. e \in H /\ f \in H
      BY <1>1, <2>2
    <3>. QED
      BY <3>1 DEF Window, Apart
  <2>. QED
    BY <2>1, <2>2
<1>3. ASSUME NEW e \in G, InReach(G, e) PROVE e \in V
  <2>1. CASE e \in H
    <3>1. InReach(H, e)
      BY <1>0, <1>3 DEF InReach
    <3>. QED
      BY <1>0, <2>1, <3>1 DEF Window, Reached
  <2>2. CASE e \notin H
    <3>1. PICK a \in H : a.seq = src /\ e = Ent(dst, a.pos, a.tok) /\ e.seq = dst /\ e.pos = a.pos
      BY <1>1, <2>2
    <3>2. ASSUME NEW f \in H, f.seq = a.seq PROVE f.pos + 1 - a.pos < n_swa
      <4>1. PICK g : g = Ent(dst, f.pos, f.tok)
        OBVIOUS
      <4>2. g \in G /\ g.seq = e.seq /\ g.pos = f.pos
        BY <1>0, <3>1, <3>2, <4>1, EntFields
      <4>. QED
        BY <1>3, <3>1, <4>2 DEF InReach
    <3>3. a \in W
      BY <3>2 DEF InReach, Window, Reached
    <3>. QED
      BY <1>0, <3>1, <3>3
  <2>. QED
    BY <2>1, <2>2
<1>. QED
  BY <1>2, <1>3 DEF Window, Reached

(* A sequence is cut at p.  Its last token that stays is in the sliding     *)
(* cache, and what is in reach of it has no hole.                           *)
Contiguous(G, V, s) ==
  \A e \in G : e.seq = s =>
    \E m \in V : /\ m.seq = s /\ \A f \in G : f.seq = s => f.pos <= m.pos
                 /\ \A k \in 0..m.pos : k > m.pos - n_swa => \E f \in V : f.seq = s /\ f.pos = k

LEMMA WindowCut ==
  ASSUME NEW H, NEW W, W \subseteq H, Formed(H), Window(H, W), NEW s, NEW p \in Int,
         NEW G, Cut(H, s, p, G), NEW V, Cut(W, s, p, V), Contiguous(G, V, s)
  PROVE  Window(G, V)
<1>1. n_swa \in Nat /\ MaxPos \in Nat
  BY KvAssumption
<1>2. /\ \A e : e \in G <=> e \in H /\ ~(e.seq = s /\ e.pos >= p)
      /\ \A e : e \in V <=> e \in W /\ ~(e.seq = s /\ e.pos >= p)
  BY DEF Cut
<1>3. Apart(G)
  BY <1>2 DEF Window, Apart
<1>4. ASSUME NEW e \in G, InReach(G, e) PROVE e \in V
  <2>1. CASE e.seq # s
    <3>1. InReach(H, e)
      BY <1>4, <1>2, <2>1 DEF InReach
    <3>. QED
      BY <1>2, <2>1, <3>1 DEF Window, Reached
  <2>2. CASE e.seq = s
    <3>1. PICK m \in V : /\ m.seq = s /\ \A f \in G : f.seq = s => f.pos <= m.pos
                 /\ \A k \in 0..m.pos : k > m.pos - n_swa => \E f \in V : f.seq = s /\ f.pos = k
      BY <2>2 DEF Contiguous
    <3>2. m \in G /\ e.pos <= m.pos
      BY <1>2, <2>2, <3>1
    <3>3. e.pos \in 0..MaxPos /\ m.pos \in 0..MaxPos
      BY <1>2, <3>2 DEF Formed
    <3>4. m.pos + 1 - e.pos < n_swa
      BY <1>4, <2>2, <3>1, <3>2 DEF InReach
    <3>5. e.pos \in 0..m.pos /\ e.pos > m.pos - n_swa
      BY <1>1, <3>2, <3>3, <3>4
    <3>6. PICK f \in V : f.seq = s /\ f.pos = e.pos
      BY <3>1, <3>5
    <3>7. f = e
      BY <1>2, <2>2, <3>6 DEF Window, Apart
    <3>. QED
      BY <3>7
  <2>. QED
    BY <2>1, <2>2
<1>. QED
  BY <1>3, <1>4 DEF Window, Reached

(* A batch goes to both caches, of which the sliding one has not dropped    *)
(* anything in reach.                                                       *)
LEMMA WindowGrown ==
  ASSUME NEW H, NEW W, Window(H, W), NEW V, \A e \in W : InReach(H, e) => e \in V,
         NEW B, Apart(B), \A e \in H, f \in B : ~(e.seq = f.seq /\ e.pos = f.pos)
  PROVE  Window(H, V) /\ Window(H \cup B, V \cup B)
<1>1. Apart(H \cup B)
  BY DEF Window, Apart
<1>2. Window(H, V)
  BY DEF Window, Reached
<1>3. ASSUME NEW e \in H \cup B, InReach(H \cup B, e) PROVE e \in V \cup B
  <2>1. CASE e \in B
    BY <2>1
  <2>2. CASE e \in H
    <3>1. InReach(H, e)
      BY <1>3 DEF InReach
    <3>. QED
      BY <1>2, <2>2, <3>1 DEF Window, Reached
  <2>. QED
    BY <2>1, <2>2
<1>. QED
  BY <1>1, <1>2, <1>3 DEF Window, Reached

(* What a context shift from p1 down to p0 makes of H.                      *)
Shifted(H, s, p0, p1, G) ==
  \A e : e \in G <=> \/ e \in H /\ ~(e.seq = s /\ e.pos >= p0)
                     \/ \E f \in H : f.seq = s /\ f.pos >= p1 /\ e = Ent(s, f.pos - (p1 - p0), f.tok)

(* Without the block, and without a hole in what is in reach of s's end.    *)
Holed(W, s, p0, p1, R) == \A e : e \in R <=> e \in W /\ ~(e.seq = s /\ e.pos \in p0..p1-1)

Whole(R, s) ==
  \A m \in R : m.seq = s /\ (\A f \in R : f.seq = s => f.pos <= m.pos) =>
    \A k \in 0..m.pos : k > m.pos - n_swa => \E f \in R : f.seq = s /\ f.pos = k

(* R is the sliding cache when the block is out, and has no hole.  So none  *)
(* of what stays below the block is in reach of what moves down to it.      *)
LEMMA WindowShifted ==
  ASSUME NEW H, NEW W, W \subseteq H, Formed(H), Window(H, W), NEW s, NEW p0 \in Nat, NEW p1 \in Nat,
         p0 < p1, NEW top \in H, top.seq = s, top.pos >= p1, \A f \in H : f.seq = s => f.pos <= top.pos,
         NEW R, Holed(W, s, p0, p1, R), Whole(R, s),
         NEW G, Shifted(H, s, p0, p1, G), NEW V, Shifted(W, s, p0, p1, V)
  PROVE  Window(G, V)
<1>0. n_swa \in Nat \ {0} /\ MaxPos \in Nat
  BY KvAssumption
<1>. DEFINE d == p1 - p0
<1>1. d \in Nat /\ d > 0 /\ p0 + d = p1
  OBVIOUS
<1>. HIDE DEF d
<1>2. ASSUME NEW e \in G
      PROVE  \/ e \in H /\ ~(e.seq = s /\ e.pos >= p0)
             \/ \E f \in H : /\ f.seq = s /\ f.pos >= p1 /\ f.pos \in Nat /\ e = Ent(s, f.pos - d, f.tok)
                             /\ e.seq = s /\ e.pos = f.pos - d /\ e.pos >= p0
  <2>1. CASE \E f \in H : f.seq = s /\ f.pos >= p1 /\ e = Ent(s, f.pos - d, f.tok)
    <3>1. PICK f \in H : f.seq = s /\ f.pos >= p1 /\ e = Ent(s, f.pos - d, f.tok)
      BY <2>1
    <3>2. e.seq = s /\ e.pos = f.pos - d
      BY <3>1, EntFields
    <3>3. f.pos \in Nat
      BY <1>0 DEF Formed
    <3>4. f.pos - d >= p0
      BY <1>1, <3>1, <3>3
    <3>. QED
      BY <3>1, <3>2, <3>3, <3>4
  <2>. QED
    BY <2>1 DEF Shifted, d
<1>3. Apart(G)
  <2>. SUFFICES ASSUME NEW e \in G, NEW f \in G, e.seq = f.seq, e.pos = f.pos
                PROVE  e = f
    BY DEF Apart
  <2>1. CASE e.seq = s /\ e.pos >= p0
    <3>1. PICK a \in H : a.seq = s /\ a.pos \in Nat /\ e = Ent(s, a.pos - d, a.tok) /\ e.pos = a.pos - d
      BY <1>2, <2>1
    <3>2. PICK b \in H : b.seq = s /\ b.pos \in Nat /\ f = Ent(s, b.pos - d, b.tok) /\ f.pos = b.pos - d
      BY <1>2, <2>1
    <3>3. a.pos = b.pos
      BY <1>1, <3>1, <3>2
    <3>4. a = b
      BY <3>1, <3>2, <3>3 DEF Window, Apart
    <3>. QED
      BY <3>1, <3>2, <3>4
  <2>2. CASE ~(e.seq = s /\ e.pos >= p0)
    <3>1. e \in H /\ f \in H
      BY <1>2, <2>2
    <3>. QED
      BY <3>1 DEF Window, Apart
  <2>. QED
    BY <2>1, <2>2
<1>4. top.pos \in Nat /\ top.pos \in 0..MaxPos
  BY <1>0 DEF Formed
(* The last token, moved.                                                   *)
<1>5. \E g \in G : g.seq = s /\ g.pos = top.pos - d
  <2>1. Ent(s, top.pos - d, top.tok) \in G
    BY DEF Shifted, d
  <2>. QED
    BY <2>1, EntFields
<1>6. ASSUME NEW e \in G, InReach(G, e) PROVE e \in V
  <2>1. CASE e.seq # s
    <3>1. e \in H
      BY <1>2, <2>1
    <3>2. ASSUME NEW f \in H, f.seq = e.seq PROVE f.pos + 1 - e.pos < n_swa
      <4>1. f \in G
        BY <2>1, <3>2 DEF Shifted
      <4>. QED
        BY <1>6, <3>2, <4>1 DEF InReach
    <3>3. e \in W
      BY <3>1, <3>2 DEF InReach, Window, Reached
    <3>. QED
      BY <2>1, <3>3 DEF Shifted
  <2>2. CASE e.seq = s /\ e.pos >= p0
    <3>1. PICK a \in H : /\ a.seq = s /\ a.pos >= p1 /\ a.pos \in Nat /\ e = Ent(s, a.pos - d, a.tok)
                         /\ e.pos = a.pos - d
      BY <1>2, <2>2
    <3>2. ASSUME NEW f \in H, f.seq = s PROVE f.pos + 1 - a.pos < n_swa
      <4>0. f.pos \in Nat
        BY <1>0 DEF Formed
      <4>1. CASE f.pos >= p1
        <5>1. PICK g : g = Ent(s, f.pos - d, f.tok)
          OBVIOUS
        <5>2. g \in G
          BY <3>2, <4>1, <5>1 DEF Shifted, d
        <5>3. g.seq = s /\ g.pos = f.pos - d
          BY <5>1, EntFields
        <5>4. g.pos + 1 - e.pos < n_swa
          BY <1>6, <2>2, <5>2, <5>3 DEF InReach
        <5>. QED
          BY <1>0, <1>1, <3>1, <4>0, <5>3, <5>4
      <4>2. CASE ~(f.pos >= p1)
        BY <1>0, <3>1, <4>0, <4>2
      <4>. QED
        BY <4>1, <4>2
    <3>3. a \in W
      BY <3>1, <3>2 DEF InReach, Window, Reached
    <3>. QED
      BY <3>1, <3>3 DEF Shifted, d
  <2>3. CASE e.seq = s /\ ~(e.pos >= p0)
    <3>1. e \in H /\ e.pos \in Nat
      BY <1>0, <1>2, <2>3 DEF Formed
    <3>2. PICK g \in G : g.seq = s /\ g.pos = top.pos - d
      BY <1>5
    <3>3. top.pos - d + 1 - e.pos < n_swa
      BY <1>6, <2>3, <3>2 DEF InReach
    <3>4. CASE n_swa = 1
      BY <1>1, <1>4, <2>3, <3>1, <3>3, <3>4
    <3>5. CASE n_swa > 1
      <4>1. ASSUME NEW f \in H, f.seq = top.seq PROVE f.pos + 1 - top.pos < n_swa
        <5>1. f.pos \in Nat /\ f.pos <= top.pos
          BY <1>0, <4>1 DEF Formed
        <5>. QED
          BY <1>0, <1>4, <3>5, <5>1
      <4>2. top \in W
        BY <4>1 DEF InReach, Window, Reached
      <4>3. top \in R /\ \A f \in R : f.seq = s => f.pos <= top.pos
        BY <1>4, <4>2 DEF Holed
      <4>4. p1 - 1 \in 0..top.pos /\ p1 - 1 \in p0..p1-1
        BY <1>4
      <4>5. ~(p1 - 1 > top.pos - n_swa)
        <5>1. SUFFICES ASSUME p1 - 1 > top.pos - n_swa PROVE FALSE
          OBVIOUS
        <5>2. PICK f \in R : f.seq = s /\ f.pos = p1 - 1
          BY <4>3, <4>4, <5>1 DEF Whole
        <5>. QED
          BY <4>4, <5>2 DEF Holed
      <4>. QED
        BY <1>0, <1>1, <1>4, <2>3, <3>1, <3>3, <4>5
    <3>. QED
      BY <1>0, <3>4, <3>5
  <2>. QED
    BY <2>1, <2>2, <2>3
<1>. QED
  BY <1>3, <1>6 DEF Window, Reached

(***************************************************************************)
(* The inductive invariant.  Only because no position of a sequence is held*)
(* twice do evictions, which go by position, leave what is in reach.       *)
(***************************************************************************)
LEMMA EntForm ==
  ASSUME NEW c
  PROVE  \A e \in HeldIn(c) : e = Ent(e.seq, e.pos, e.tok)
<1>1. \A x : \A e \in Tokens(x) : e = Ent(e.seq, e.pos, e.tok)
  BY EntFields DEF Tokens
<1>. QED
  BY <1>1, InHeld

LEMMA WithinHeld ==
  ASSUME NEW c, NEW e, Within(c, e)
  PROVE  HeldIn(c) \subseteq HeldIn(e)
<1>. SUFFICES ASSUME NEW x \in HeldIn(c) PROVE x \in HeldIn(e)
  OBVIOUS
<1>1. PICK i \in Idx(c) : x \in Tokens(c.cells[i])
  BY InHeld
<1>2. i \in Occupied(c)
  BY <1>1 DEF Tokens, Occupied
<1>3. PICK j \in Occupied(e) : Twin(c.cells[i], e.cells[j])
  BY <1>2 DEF Within
<1>4. x \in Tokens(e.cells[j]) /\ j \in Idx(e)
  BY <1>1, <1>3 DEF Twin, Tokens, Occupied
<1>. QED
  BY <1>4, InHeld

WinInv ==
  /\ PairInv /\ Low
  /\ swa_kv_active => Window(HeldIn(kv_self), HeldIn(kv_swa))

LEMMA WinFacts ==
  ASSUME WinInv, swa_kv_active
  PROVE  /\ IInv /\ Sound(kv_self) /\ Sound(kv_swa) /\ Within(kv_swa, kv_self) /\ Held = HeldIn(kv_self)
         /\ HeldIn(kv_swa) \subseteq HeldIn(kv_self)
         /\ Formed(HeldIn(kv_self)) /\ Formed(HeldIn(kv_swa))
         /\ Window(HeldIn(kv_self), HeldIn(kv_swa))
<1>1. IInv /\ Sound(kv_self) /\ Sound(kv_swa) /\ Within(kv_swa, kv_self)
  BY DEF WinInv, PairInv, IInv
<1>2. Held = HeldIn(kv_self) /\ HeldIn(kv_swa) \subseteq HeldIn(kv_self)
  BY <1>1, HeldIs, WithinHeld
<1>3. Formed(HeldIn(kv_self))
  BY <1>2, EntForm DEF WinInv, Low, Formed
<1>4. Formed(HeldIn(kv_swa))
  BY <1>2, <1>3 DEF Formed
<1>. QED
  BY <1>1, <1>2, <1>3, <1>4 DEF WinInv

(* The positions that a cache says a sequence has.                          *)
LEMMA PosOfIs ==
  ASSUME NEW c, Sound(c), Formed(HeldIn(c)), NEW s
  PROVE  /\ PosOf(c, s) = {e.pos : e \in {f \in HeldIn(c) : f.seq = s}}
         /\ PosOf(c, s) \in SUBSET Nat /\ \A p \in PosOf(c, s) : p <= MaxPos
<1>1. PosOf(c, s) = {e.pos : e \in {f \in HeldIn(c) : f.seq = s}}
  BY PosOfHeld DEF Formed
<1>2. \A e \in HeldIn(c) : e.pos \in Nat /\ e.pos <= MaxPos
  BY KvAssumption DEF Formed
<1>. QED
  BY <1>1, <1>2

(* The last position of a set of them.                                      *)
LEMMA TopOf ==
  ASSUME NEW S \in SUBSET Nat, S # {}, \A p \in S : p <= MaxPos
  PROVE  Max(S) \in S /\ Max(S) \in Nat /\ \A p \in S : Max(S) >= p
<1>1. MaxPos \in Nat
  BY KvAssumption
<1>. QED
  BY <1>1, Greatest

(* What is in reach of the query after s's last position.                   *)
LEMMA ReachIs ==
  ASSUME IInv, Low, NEW e \in HeldIn(kv_self)
  PROVE  /\ PosNext(e.seq) \in Nat
         /\ \A f \in HeldIn(kv_self) : f.seq = e.seq => f.pos + 1 <= PosNext(e.seq)
         /\ PosNext(e.seq) - e.pos < n_swa <=> InReach(HeldIn(kv_self), e)
<1>. DEFINE H == HeldIn(kv_self)
            S == PosOf(kv_self, e.seq)
<1>1. Sound(kv_self) /\ H = Held
  BY HeldIs DEF IInv
<1>2. Formed(H)
  BY <1>1, EntForm DEF Low, Formed
<1>3. /\ S = {f.pos : f \in {g \in H : g.seq = e.seq}}
      /\ S \in SUBSET Nat /\ \A p \in S : p <= MaxPos
  BY <1>1, <1>2, PosOfIs
<1>4. e.pos \in S /\ e.pos \in Nat
  BY <1>3
<1>. HIDE DEF H
<1>5. PosNext(e.seq) = Max(S) + 1
  BY <1>4 DEF PosNext
<1>. HIDE DEF S
<1>6. Max(S) \in S /\ Max(S) \in Nat /\ \A p \in S : Max(S) >= p
  BY <1>3, <1>4, TopOf
<1>7. PICK t \in H : t.seq = e.seq /\ t.pos = Max(S)
  BY <1>3, <1>6
<1>8. ASSUME NEW f \in H, f.seq = e.seq PROVE f.pos \in Nat /\ f.pos <= Max(S)
  BY <1>3, <1>6, <1>8
<1>9. n_swa \in Nat
  BY KvAssumption
<1>10. PosNext(e.seq) - e.pos < n_swa => InReach(H, e)
  BY <1>4, <1>5, <1>6, <1>8, <1>9 DEF InReach
<1>11. InReach(H, e) => PosNext(e.seq) - e.pos < n_swa
  BY <1>4, <1>5, <1>6, <1>7, <1>9 DEF InReach
<1>. QED
  BY <1>5, <1>6, <1>8, <1>10, <1>11 DEF H

(* No position is missing in a window that is found covered.                *)
LEMMA CoverageHeld ==
  ASSUME NEW c, Sound(c), Formed(HeldIn(c)), NEW s, CoverageOk(c, s),
         NEW m \in HeldIn(c), m.seq = s, \A f \in HeldIn(c) : f.seq = s => f.pos <= m.pos,
         NEW k \in 0..m.pos, k > m.pos - n_swa
  PROVE  \E f \in HeldIn(c) : f.seq = s /\ f.pos = k
<1>. DEFINE S == PosOf(c, s)
            low == Max(S) - n_swa + 1
            lo == Max({0, low})
<1>1. /\ S = {e.pos : e \in {f \in HeldIn(c) : f.seq = s}}
      /\ S \in SUBSET Nat /\ \A p \in S : p <= MaxPos
  BY PosOfIs
<1>2. S # {} => lo..Max(S) \subseteq S
  BY DEF CoverageOk
<1>. HIDE DEF S
<1>3. m.pos \in S /\ \A p \in S : p <= m.pos
  BY <1>1
<1>4. Max(S) = m.pos /\ m.pos \in Nat
  BY <1>1, <1>3, TopOf
<1>5. n_swa \in Nat /\ low \in Int /\ low = m.pos - n_swa + 1
  BY <1>4, KvAssumption
<1>. HIDE DEF low
<1>6. lo \in Int /\ lo <= k
  <2>1. CASE low >= 0
    <3>1. \A x \in {0, low} : (\A y \in {0, low} : x >= y) <=> x = low
      BY <1>5, <2>1
    <3>2. low \in {0, low}
      OBVIOUS
    <3>3. lo = low
      BY <3>1, <3>2 DEF Max
    <3>. QED
      BY <1>4, <1>5, <3>3
  <2>2. CASE low < 0
    <3>1. \A x \in {0, low} : (\A y \in {0, low} : x >= y) <=> x = 0
      BY <1>5, <2>2
    <3>2. 0 \in {0, low}
      OBVIOUS
    <3>3. lo = 0
      BY <3>1, <3>2 DEF Max
    <3>. QED
      BY <1>4, <3>3
  <2>. QED
    BY <1>5, <2>1, <2>2
<1>7. k \in lo..Max(S)
  BY <1>4, <1>6
<1>8. k \in S
  BY <1>2, <1>3, <1>7
<1>. QED
  BY <1>1, <1>8

(***************************************************************************)
(* Every call leaves the window in the sliding cache.                      *)
(***************************************************************************)
Windowed == Window(HeldIn(kv_self), HeldIn(kv_swa))

LEMMA KeepWindow ==
  ASSUME WinInv, swa_kv_active, ~hybrid, NEW s \in Seqs, llama_kv_cache_seq_keep(s)
  PROVE  Windowed'
<1>1. PICK c, w, d, v : c = kv_self /\ w = kv_swa /\ d = kv_self' /\ v = kv_swa'
  OBVIOUS
<1>2. d = CellsSeqKeep(c, s, hybrid) /\ v = CellsSeqKeep(w, s, hybrid)
  BY <1>1 DEF llama_kv_cache_seq_keep, OnBoth
<1>3. Sound(c) /\ Sound(w) /\ Window(HeldIn(c), HeldIn(w))
  BY <1>1, WinFacts
<1>4. HeldIn(d) = {e \in HeldIn(c) : e.seq = s}
  BY ONLY <1>2, <1>3, ~hybrid, KeepHeld
<1>5. HeldIn(v) = {e \in HeldIn(w) : e.seq = s}
  BY ONLY <1>2, <1>3, ~hybrid, KeepHeld
<1>6. PICK Q : Q = {s}
  OBVIOUS
<1>7. Some(HeldIn(c), Q, HeldIn(d)) /\ Some(HeldIn(w), Q, HeldIn(v))
  BY <1>4, <1>5, <1>6 DEF Some
<1>8. Window(HeldIn(d), HeldIn(v))
  BY ONLY <1>3, <1>7, WindowOfSome
<1>. QED
  BY <1>1, <1>8 DEF Windowed

LEMMA CpWindow ==
  ASSUME WinInv, swa_kv_active, ~hybrid, NEW src \in Seqs, NEW dst \in Seqs, llama_kv_cache_seq_cp(src, dst)
  PROVE  Windowed'
<1>1. PICK c, w, d, v : c = kv_self /\ w = kv_swa /\ d = kv_self' /\ v = kv_swa'
  OBVIOUS
<1>2. d = CellsSeqCp(c, src, dst, hybrid) /\ v = CellsSeqCp(w, src, dst, hybrid) /\ PosOf(c, dst) = {}
  BY <1>1 DEF llama_kv_cache_seq_cp, OnBoth
<1>3. /\ Sound(c) /\ Sound(w) /\ HeldIn(w) \subseteq HeldIn(c) /\ Formed(HeldIn(c))
      /\ Window(HeldIn(c), HeldIn(w))
  BY <1>1, WinFacts
<1>4. HeldIn(d) = HeldIn(c) \cup {Ent(dst, e.pos, e.tok) : e \in {f \in HeldIn(c) : f.seq = src}}
  BY ONLY <1>2, <1>3, ~hybrid, CpHeld
<1>5. HeldIn(v) = HeldIn(w) \cup {Ent(dst, e.pos, e.tok) : e \in {f \in HeldIn(w) : f.seq = src}}
  BY ONLY <1>2, <1>3, ~hybrid, CpHeld
<1>6. \A e \in HeldIn(c) : e.seq # dst
  BY <1>2, <1>3, PosOfIs
<1>7. Copied(HeldIn(c), src, dst, HeldIn(d))
  BY <1>4 DEF Copied
<1>8. Copied(HeldIn(w), src, dst, HeldIn(v))
  BY <1>5 DEF Copied
<1>9. Window(HeldIn(d), HeldIn(v))
  BY ONLY <1>3, <1>6, <1>7, <1>8, WindowCopied
<1>. QED
  BY <1>1, <1>9 DEF Windowed

LEMMA ClearWindow ==
  ASSUME WinInv, swa_kv_active, llama_kv_cache_clear
  PROVE  Windowed'
<1>1. PICK c, w, d, v : c = kv_self /\ w = kv_swa /\ d = kv_self' /\ v = kv_swa'
  OBVIOUS
<1>2. d = CellsClear(c) /\ v = CellsClear(w) /\ Sound(c) /\ Sound(w)
  BY <1>1, WinFacts DEF llama_kv_cache_clear, OnBoth
<1>3. HeldIn(d) = {}
  BY ONLY <1>2, ClearHeld
<1>. QED
  BY <1>1, <1>3 DEF Windowed, Window, Apart, Reached

(* What a removal does to the two caches: a whole sequence goes, or its     *)
(* window was found without a hole.                                         *)
LEMMA RemovedBoth ==
  ASSUME WinInv, swa_kv_active, ~hybrid, NEW s \in Seqs, NEW p0 \in Nat, NEW p1 \in Int, p1 <= MaxPos + 1,
         NEW c, c = kv_self, NEW w, w = kv_swa,
         NEW d, d = Removed(c, s, p0, p1), NEW v, v = Removed(w, s, p0, p1)
  PROVE  /\ Sound(d) /\ Sound(v) /\ HeldIn(d) \subseteq HeldIn(c) /\ HeldIn(v) \subseteq HeldIn(w)
         /\ HeldIn(v) \subseteq HeldIn(d)
         /\ \/ /\ HeldIn(d) = {e \in HeldIn(c) : e.seq # s}
               /\ HeldIn(v) = {e \in HeldIn(w) : e.seq # s}
            \/ /\ HeldIn(d) = {e \in HeldIn(c) : ~(e.seq = s /\ e.pos \in p0..p1-1)}
               /\ HeldIn(v) = {e \in HeldIn(w) : ~(e.seq = s /\ e.pos \in p0..p1-1)}
               /\ CoverageOk(v, s)
<1>0. s \in Int /\ p0 \in Int /\ MaxPos \in Nat
  BY KvAssumption DEF Seqs
<1>1. /\ Sound(c) /\ Sound(w) /\ Formed(HeldIn(c)) /\ Formed(HeldIn(w))
      /\ HeldIn(w) \subseteq HeldIn(c)
  BY WinFacts
<1>2. Sound(d)
  BY ONLY <1>0, <1>1, d = Removed(c, s, p0, p1), p1 \in Int, ~hybrid, RemovedSound
<1>3. Sound(v)
  BY ONLY <1>0, <1>1, v = Removed(w, s, p0, p1), p1 \in Int, ~hybrid, RemovedSound
<1>4. HeldIn(d) = IF Covered(s, p0, p1) THEN HeldIn(c) \ Part(HeldIn(c), s, p0, p1)
                  ELSE HeldIn(c) \ Part(HeldIn(c), s, 0, MaxPos + 1)
  BY ONLY <1>0, <1>1, d = Removed(c, s, p0, p1), p0 \in Nat, p1 \in Int, p1 <= MaxPos + 1, ~hybrid, RemovedHeld
<1>5. HeldIn(v) = IF Covered(s, p0, p1) THEN HeldIn(w) \ Part(HeldIn(w), s, p0, p1)
                  ELSE HeldIn(w) \ Part(HeldIn(w), s, 0, MaxPos + 1)
  BY ONLY <1>0, <1>1, v = Removed(w, s, p0, p1), p0 \in Nat, p1 \in Int, p1 <= MaxPos + 1, ~hybrid, RemovedHeld
<1>6. ASSUME Covered(s, p0, p1) PROVE CoverageOk(v, s)
  <2>1. v = CellsSeqRm(w, s, p0, p1, hybrid)
    BY <1>6 DEF Removed
  <2>. QED
    BY <1>6, <2>1 DEF Covered
<1>7. ASSUME NEW H, Formed(H)
      PROVE  H \ Part(H, s, 0, MaxPos + 1) = {e \in H : e.seq # s}
  <2>1. \A e \in H : e.pos \in 0..(MaxPos+1)-1
    BY <1>0, <1>7 DEF Formed
  <2>. QED
    BY <2>1 DEF Part
<1>8. \A H : H \ Part(H, s, p0, p1) = {e \in H : ~(e.seq = s /\ e.pos \in p0..p1-1)}
  BY DEF Part
<1>9. \/ /\ HeldIn(d) = {e \in HeldIn(c) : e.seq # s}
         /\ HeldIn(v) = {e \in HeldIn(w) : e.seq # s}
      \/ /\ HeldIn(d) = {e \in HeldIn(c) : ~(e.seq = s /\ e.pos \in p0..p1-1)}
         /\ HeldIn(v) = {e \in HeldIn(w) : ~(e.seq = s /\ e.pos \in p0..p1-1)}
         /\ CoverageOk(v, s)
  <2>1. CASE Covered(s, p0, p1)
    BY <1>4, <1>5, <1>6, <1>8, <2>1
  <2>2. CASE ~Covered(s, p0, p1)
    BY <1>1, <1>4, <1>5, <1>7, <2>2
  <2>. QED
    BY <2>1, <2>2
<1>10. HeldIn(d) \subseteq HeldIn(c) /\ HeldIn(v) \subseteq HeldIn(w) /\ HeldIn(v) \subseteq HeldIn(d)
  BY <1>1, <1>9
<1>. QED
  BY <1>2, <1>3, <1>9, <1>10

LEMMA RmWindow ==
  ASSUME WinInv, swa_kv_active, ~hybrid, ~DeepRewinds, NEW s \in Seqs, NEW p0 \in 0..MaxPos,
         llama_kv_cache_seq_rm(s, p0)
  PROVE  Windowed'
<1>0. MaxPos \in Nat /\ p0 \in Nat
  BY KvAssumption
<1>1. PICK c, w, d, v, u : c = kv_self /\ w = kv_swa /\ d = kv_self' /\ v = kv_swa' /\ u = MaxPos + 1
  OBVIOUS
<1>2. d = Removed(c, s, p0, u) /\ v = Removed(w, s, p0, u) /\ ~BehindWindow(s, p0)
  BY <1>1 DEF llama_kv_cache_seq_rm, OnBoth
<1>3. /\ Sound(c) /\ Sound(w) /\ Formed(HeldIn(c)) /\ Formed(HeldIn(w)) /\ HeldIn(w) \subseteq HeldIn(c)
      /\ Window(HeldIn(c), HeldIn(w))
  BY <1>1, WinFacts
<1>4. u \in Int /\ u <= MaxPos + 1
  BY <1>0, <1>1
<1>5. /\ Sound(d) /\ Sound(v) /\ HeldIn(d) \subseteq HeldIn(c) /\ HeldIn(v) \subseteq HeldIn(w)
      /\ HeldIn(v) \subseteq HeldIn(d)
      /\ \/ /\ HeldIn(d) = {e \in HeldIn(c) : e.seq # s}
            /\ HeldIn(v) = {e \in HeldIn(w) : e.seq # s}
         \/ /\ HeldIn(d) = {e \in HeldIn(c) : ~(e.seq = s /\ e.pos \in p0..u-1)}
            /\ HeldIn(v) = {e \in HeldIn(w) : ~(e.seq = s /\ e.pos \in p0..u-1)}
            /\ CoverageOk(v, s)
  BY ONLY WinInv, swa_kv_active, ~hybrid, s \in Seqs, p0 \in Nat, <1>0, <1>1, <1>2, <1>4, RemovedBoth
<1>. DEFINE H == HeldIn(c)
            W == HeldIn(w)
            G == HeldIn(d)
            V == HeldIn(v)
<1>6. CASE G = {e \in H : e.seq # s} /\ V = {e \in W : e.seq # s}
  <2>1. Without(H, s, G) /\ Without(W, s, V)
    BY <1>6 DEF Without
  <2>2. Window(G, V)
    BY ONLY <1>3, <2>1, WindowWithout
  <2>. QED
    BY <1>1, <2>2 DEF Windowed
<1>7. CASE /\ G = {e \in H : ~(e.seq = s /\ e.pos \in p0..u-1)}
           /\ V = {e \in W : ~(e.seq = s /\ e.pos \in p0..u-1)}
           /\ CoverageOk(v, s)
  <2>1. \A e \in H : e.pos \in Nat /\ (e.pos \in p0..u-1 <=> e.pos >= p0)
    <3>1. \A e \in H : e.pos \in 0..MaxPos
      BY <1>3 DEF Formed
    <3>2. \A p \in 0..MaxPos : p \in Nat /\ (p \in p0..u-1 <=> p >= p0)
      BY <1>0, <1>1
    <3>. QED
      BY <3>1, <3>2
  <2>2. /\ \A e : e \in G <=> e \in H /\ ~(e.seq = s /\ e.pos >= p0)
        /\ \A e : e \in V <=> e \in W /\ ~(e.seq = s /\ e.pos >= p0)
    BY <1>3, <1>7, <2>1
  <2>12. Cut(H, s, p0, G) /\ Cut(W, s, p0, V)
    BY <2>2 DEF Cut
  <2>3. PICK S : S = PosOf(c, s)
    OBVIOUS
  <2>4. PICK rest : rest = {p \in S : p < p0}
    OBVIOUS
  <2>5. S = {e.pos : e \in {f \in H : f.seq = s}} /\ S \in SUBSET Nat /\ \A p \in S : p <= MaxPos
    BY <1>3, <2>3, PosOfIs
  <2>6. rest # {} => Max(rest) \in PosOf(w, s)
    BY <1>1, <1>2, <2>3, <2>4 DEF BehindWindow
  <2>7. PosOf(w, s) = {e.pos : e \in {f \in W : f.seq = s}}
    BY <1>3, PosOfIs
  <2>8. ASSUME NEW e \in G, e.seq = s
        PROVE  \E m \in V : /\ m.seq = s /\ \A f \in G : f.seq = s => f.pos <= m.pos
                            /\ \A k \in 0..m.pos : k > m.pos - n_swa => \E f \in V : f.seq = s /\ f.pos = k
    <3>1. e.pos \in rest
      BY <1>0, <2>1, <2>2, <2>4, <2>5, <2>8
    <3>2. rest \in SUBSET Nat /\ \A p \in rest : p <= MaxPos
      BY <2>4, <2>5
    <3>3. Max(rest) \in rest /\ Max(rest) \in Nat /\ \A p \in rest : Max(rest) >= p
      BY ONLY <3>1, <3>2, TopOf
    <3>4. PICK m \in W : m.seq = s /\ m.pos = Max(rest)
      BY <2>6, <2>7, <3>1
    <3>5. m \in V
      BY <1>0, <2>2, <2>4, <3>3, <3>4
    <3>6. ASSUME NEW f \in G, f.seq = s PROVE f.pos <= m.pos
      <4>1. f.pos \in rest
        BY <1>0, <2>1, <2>2, <2>4, <2>5, <3>6
      <4>2. f.pos \in Nat /\ Max(rest) >= f.pos
        BY <3>2, <3>3, <4>1
      <4>. QED
        BY <3>3, <3>4, <4>2
    <3>7. Formed(V) /\ \A f \in V : f.seq = s => f.pos <= m.pos
      <4>1. Formed(V)
        BY <1>3, <1>5 DEF Formed
      <4>2. V \subseteq G
        BY <1>5
      <4>. QED
        BY <3>6, <4>1, <4>2
    <3>8. ASSUME NEW k \in 0..m.pos, k > m.pos - n_swa PROVE \E f \in V : f.seq = s /\ f.pos = k
      <4>1. Sound(v) /\ CoverageOk(v, s)
        BY <1>5, <1>7
      <4>. QED
        BY ONLY <3>4, <3>5, <3>7, <3>8, <4>1, CoverageHeld
    <3>. QED
      BY <3>4, <3>5, <3>6, <3>8
  <2>9. p0 \in Int /\ Contiguous(G, V, s)
    BY <1>0, <2>8 DEF Contiguous
  <2>. HIDE DEF G, H, V, W
  <2>10. W \subseteq H /\ Formed(H) /\ Window(H, W)
    BY <1>3 DEF H, W
  <2>11. Window(G, V)
    BY ONLY <2>9, <2>10, <2>12, WindowCut
  <2>. QED
    BY <1>1, <2>11 DEF Windowed, G, V
<1>. QED
  BY <1>5, <1>6, <1>7

(* The owners of a sequence's cells are the same in both caches.            *)
LEMMA AloneWithin ==
  ASSUME NEW w, NEW c, Within(w, c), NEW s, NEW p0, NEW p1, Alone(c, s, p0, p1)
  PROVE  Alone(w, s, p0, p1)
<1>. SUFFICES ASSUME NEW i \in Idx(w), At(w.cells[i], s, p0, p1) PROVE w.cells[i].seqs = {s}
  BY DEF Alone
<1>1. i \in Occupied(w)
  BY DEF Occupied, At
<1>2. PICK j \in Occupied(c) : Twin(w.cells[i], c.cells[j])
  BY <1>1 DEF Within
<1>. QED
  BY <1>2 DEF Alone, Occupied, Twin, At

(* The shift proper, of what is left of a cache.                            *)
LEMMA AddShifts ==
  ASSUME NEW c, Sound(c), Formed(HeldIn(c)), NEW s, NEW p0 \in Nat, NEW p1 \in Nat, p0 < p1, NEW u, u = MaxPos + 1,
         NEW m, m = -(p1 - p0), Alone(c, s, p1, u),
         NEW H, Formed(H), \A e : e \in HeldIn(c) <=> e \in H /\ ~(e.seq = s /\ e.pos \in p0..p1-1),
         NEW d, d = CellsSeqAdd(c, s, p1, u, m)
  PROVE  Shifted(H, s, p0, p1, HeldIn(d))
<1>0. MaxPos \in Nat /\ m \in Int /\ p1 \in Int /\ u \in Int
  BY KvAssumption
<1>. DEFINE K == HeldIn(c)
<1>1. HeldIn(d) = (K \ Part(K, s, p1, u))
         \cup {Ent(e.seq, e.pos + m, e.tok) : e \in {f \in Part(K, s, p1, u) : f.pos + m >= 0}}
  BY ONLY <1>0, Sound(c), Alone(c, s, p1, u), d = CellsSeqAdd(c, s, p1, u, m), AddHeld
<1>2. \A p \in 0..MaxPos : /\ p \in p1..u-1 <=> p >= p1
                           /\ p >= p1 => p + m >= 0 /\ p + m = p - (p1 - p0)
                           /\ p >= p0 <=> p \in p0..p1-1 \/ p >= p1
                           /\ p \in p0..p1-1 => ~(p >= p1)
  BY <1>0
<1>3. \A e \in H : e.pos \in 0..MaxPos
  BY DEF Formed
<1>. HIDE DEF K
<1>4. \A e \in H : e \in K => (e.pos \in p1..u-1 <=> e.pos >= p1)
  BY <1>2, <1>3
<1>5. \A e : e \in K \ Part(K, s, p1, u) <=> e \in H /\ ~(e.seq = s /\ e.pos >= p0)
  <2>1. \A e : e \in K <=> e \in H /\ ~(e.seq = s /\ e.pos \in p0..p1-1)
    BY DEF K
  <2>2. \A e \in H : e.pos >= p0 <=> e.pos \in p0..p1-1 \/ e.pos >= p1
    BY <1>2, <1>3
  <2>. QED
    BY ONLY <1>4, <2>1, <2>2 DEF Part
<1>6. \A f : f \in Part(K, s, p1, u) <=> f \in H /\ f.seq = s /\ f.pos >= p1
  <2>1. \A e : e \in K <=> e \in H /\ ~(e.seq = s /\ e.pos \in p0..p1-1)
    BY DEF K
  <2>2. \A e \in H : e.pos >= p1 => ~(e.pos \in p0..p1-1)
    BY <1>2, <1>3
  <2>. QED
    BY ONLY <1>4, <2>1, <2>2 DEF Part
<1>7. \A f \in Part(K, s, p1, u) : f.pos + m >= 0 /\ f.seq = s /\ f.pos + m = f.pos - (p1 - p0)
  BY <1>2, <1>3, <1>6
<1>8. {f \in Part(K, s, p1, u) : f.pos + m >= 0} = Part(K, s, p1, u)
  BY <1>7
<1>9. \A e : e \in {Ent(f.seq, f.pos + m, f.tok) : f \in Part(K, s, p1, u)}
               <=> \E f \in H : f.seq = s /\ f.pos >= p1 /\ e = Ent(s, f.pos - (p1 - p0), f.tok)
  BY <1>6, <1>7
<1>. QED
  BY <1>1, <1>5, <1>8, <1>9 DEF Shifted

LEMMA ContextShiftWindow ==
  ASSUME WinInv, swa_kv_active, ~hybrid, NEW s \in Seqs, NEW p0 \in 0..MaxPos, NEW p1 \in p0+1..MaxPos+1,
         ContextShift(s, p0, p1 - p0)
  PROVE  Windowed'
<1>1. /\ s \in Int /\ p0 \in Nat /\ p1 \in Nat /\ p1 \in Int /\ MaxPos \in Nat /\ p0 <= p1 /\ p1 <= MaxPos + 1
      /\ p0 + (p1 - p0) = p1 /\ p0 < p1
  BY KvAssumption DEF Seqs
<1>2. PICK c, w, d, v, m, u, k : /\ c = kv_self /\ w = kv_swa
                                 /\ d = Removed(c, s, p0, p1) /\ v = Removed(w, s, p0, p1)
                                 /\ m = -(p1 - p0) /\ u = MaxPos + 1 /\ k = p1 - p0
  OBVIOUS
<1>3. /\ kv_self' = CellsSeqAdd(d, s, p1, u, m) /\ kv_swa' = CellsSeqAdd(v, s, p1, u, m)
      /\ Alone(c, s, p0, u) /\ p1 < PosNext(s)
  <2>1. /\ kv_self' = CellsSeqAdd(Removed(c, s, p0, p0 + k), s, p0 + k, u, m)
        /\ kv_swa' = CellsSeqAdd(Removed(w, s, p0, p0 + k), s, p0 + k, u, m)
        /\ Unshared(s, p0, u) /\ p0 + k < PosNext(s)
    BY <1>2 DEF ContextShift, OnBoth
  <2>2. p0 + k = p1
    BY <1>1, <1>2
  <2>3. Alone(c, s, p0, u)
    BY <1>2, <2>1, Owned
  <2>. QED
    BY <1>2, <2>1, <2>2, <2>3
<1>4. /\ Sound(c) /\ Sound(w) /\ Formed(HeldIn(c)) /\ Formed(HeldIn(w)) /\ HeldIn(w) \subseteq HeldIn(c)
      /\ Window(HeldIn(c), HeldIn(w)) /\ Within(w, c)
  BY <1>2, WinFacts
<1>5. /\ Sound(d) /\ Sound(v) /\ HeldIn(d) \subseteq HeldIn(c) /\ HeldIn(v) \subseteq HeldIn(w)
      /\ HeldIn(v) \subseteq HeldIn(d)
      /\ \/ /\ HeldIn(d) = {e \in HeldIn(c) : e.seq # s}
            /\ HeldIn(v) = {e \in HeldIn(w) : e.seq # s}
         \/ /\ HeldIn(d) = {e \in HeldIn(c) : ~(e.seq = s /\ e.pos \in p0..p1-1)}
            /\ HeldIn(v) = {e \in HeldIn(w) : ~(e.seq = s /\ e.pos \in p0..p1-1)}
            /\ CoverageOk(v, s)
  BY ONLY WinInv, swa_kv_active, ~hybrid, s \in Seqs, <1>1, <1>2, RemovedBoth
<1>6. Alone(w, s, p0, u)
  BY ONLY <1>3, <1>4, AloneWithin
<1>7. Alone(d, s, p1, u)
  BY <1>1, <1>2, <1>3, <1>4, RemovedAlone
<1>8. Alone(v, s, p1, u)
  BY <1>1, <1>2, <1>4, <1>6, RemovedAlone
<1>9. Formed(HeldIn(d)) /\ Formed(HeldIn(v))
  BY <1>4, <1>5 DEF Formed
<1>10. PICK x, y : x = kv_self' /\ y = kv_swa'
  OBVIOUS
<1>11. x = CellsSeqAdd(d, s, p1, u, m) /\ y = CellsSeqAdd(v, s, p1, u, m)
  BY <1>3, <1>10
<1>. DEFINE H == HeldIn(c)
            W == HeldIn(w)
            R == HeldIn(v)
<1>12. CASE HeldIn(d) = {e \in H : e.seq # s} /\ R = {e \in W : e.seq # s}
  <2>1. m \in Int /\ p1 \in Int /\ u \in Int
    BY <1>1, <1>2
  <2>2. HeldIn(x) = (HeldIn(d) \ Part(HeldIn(d), s, p1, u))
         \cup {Ent(e.seq, e.pos + m, e.tok) : e \in {f \in Part(HeldIn(d), s, p1, u) : f.pos + m >= 0}}
    BY ONLY <1>5, <1>7, <1>11, <2>1, AddHeld
  <2>3. HeldIn(y) = (R \ Part(R, s, p1, u))
         \cup {Ent(e.seq, e.pos + m, e.tok) : e \in {f \in Part(R, s, p1, u) : f.pos + m >= 0}}
    BY ONLY <1>5, <1>8, <1>11, <2>1, AddHeld
  <2>. HIDE DEF R
  <2>4. Part(HeldIn(d), s, p1, u) = {} /\ Part(R, s, p1, u) = {}
    BY <1>12 DEF Part
  <2>5. HeldIn(x) = HeldIn(d)
    <3>. DEFINE P == Part(HeldIn(d), s, p1, u)
    <3>1. P = {} /\ {f \in P : f.pos + m >= 0} = {}
      BY <2>4
    <3>. HIDE DEF P
    <3>. QED
      BY <2>2, <3>1 DEF P
  <2>6. HeldIn(y) = R
    <3>. DEFINE P == Part(R, s, p1, u)
    <3>1. P = {} /\ {f \in P : f.pos + m >= 0} = {}
      BY <2>4
    <3>. HIDE DEF P
    <3>. QED
      BY <2>3, <3>1 DEF P
  <2>7. Without(H, s, HeldIn(x)) /\ Without(W, s, HeldIn(y))
    BY <1>12, <2>5, <2>6 DEF Without
  <2>8. Window(HeldIn(x), HeldIn(y))
    BY ONLY <1>4, <2>7, WindowWithout
  <2>. QED
    BY <1>10, <2>8 DEF Windowed
<1>13. CASE /\ HeldIn(d) = {e \in H : ~(e.seq = s /\ e.pos \in p0..p1-1)}
            /\ R = {e \in W : ~(e.seq = s /\ e.pos \in p0..p1-1)}
            /\ CoverageOk(v, s)
  <2>1. Shifted(H, s, p0, p1, HeldIn(x))
    <3>1. \A e : e \in HeldIn(d) <=> e \in H /\ ~(e.seq = s /\ e.pos \in p0..p1-1)
      BY <1>13
    <3>. QED
      BY ONLY <1>1, <1>2, <1>4, <1>5, <1>7, <1>9, <1>11, <3>1, AddShifts
  <2>2. Shifted(W, s, p0, p1, HeldIn(y))
    <3>1. \A e : e \in R <=> e \in W /\ ~(e.seq = s /\ e.pos \in p0..p1-1)
      BY <1>13
    <3>. QED
      BY ONLY <1>1, <1>2, <1>4, <1>5, <1>8, <1>9, <1>11, <3>1, AddShifts
  <2>3. PICK S : S = PosOf(c, s)
    OBVIOUS
  <2>4. S = {e.pos : e \in {f \in H : f.seq = s}} /\ S \in SUBSET Nat /\ \A p \in S : p <= MaxPos
    BY <1>4, <2>3, PosOfIs
  <2>5. S # {} /\ PosNext(s) = Max(S) + 1
    BY <1>1, <1>2, <1>3, <2>3 DEF PosNext
  <2>6. Max(S) \in S /\ Max(S) \in Nat /\ \A p \in S : Max(S) >= p
    BY ONLY <2>4, <2>5, TopOf
  <2>7. PICK top \in H : top.seq = s /\ top.pos = Max(S)
    BY <2>4, <2>6
  <2>8. top.pos >= p1 /\ \A f \in H : f.seq = s => f.pos <= top.pos
    <3>1. top.pos >= p1
      BY <1>1, <1>3, <2>5, <2>6, <2>7
    <3>2. ASSUME NEW f \in H, f.seq = s PROVE f.pos <= top.pos
      <4>1. f.pos \in S
        BY <2>4, <3>2
      <4>2. f.pos \in Nat /\ Max(S) >= f.pos
        BY <2>4, <2>6, <4>1
      <4>. QED
        BY <2>6, <2>7, <4>2
    <3>. QED
      BY <3>1, <3>2
  <2>9. ASSUME NEW e \in R, e.seq = s, \A f \in R : f.seq = s => f.pos <= e.pos, 
               NEW j \in 0..e.pos, j > e.pos - n_swa
        PROVE  \E f \in R : f.seq = s /\ f.pos = j
    <3>1. Sound(v) /\ Formed(HeldIn(v)) /\ CoverageOk(v, s)
      BY <1>5, <1>9, <1>13
    <3>2. e \in HeldIn(v) /\ \A f \in HeldIn(v) : f.seq = s => f.pos <= e.pos
      BY <2>9
    <3>. HIDE DEF R
    <3>3. \E f \in HeldIn(v) : f.seq = s /\ f.pos = j
      BY ONLY <2>9, <3>1, <3>2, CoverageHeld
    <3>. QED
      BY <3>3 DEF R
  <2>10. Whole(R, s)
    BY <2>9 DEF Whole
  <2>11. Holed(W, s, p0, p1, R)
    BY <1>13 DEF Holed
  <2>. HIDE DEF H, W, R
  <2>12. W \subseteq H /\ Formed(H) /\ Window(H, W)
    BY <1>4 DEF H, W
  <2>13. Window(HeldIn(x), HeldIn(y))
    BY ONLY <1>1, <2>1, <2>2, <2>7, <2>8, <2>10, <2>11, <2>12, WindowShifted
  <2>. QED
    BY <1>10, <2>13 DEF Windowed
<1>. QED
  BY <1>5, <1>12, <1>13

(* Calls that do not change what is held.                                   *)
LEMMA SameWindow ==
  ASSUME WinInv, swa_kv_active, HeldIn(kv_self') = HeldIn(kv_self), HeldIn(kv_swa') = HeldIn(kv_swa)
  PROVE  Windowed'
BY WinFacts DEF Windowed

LEMMA SwaUpdated ==
  ASSUME IInv, NEW swa, swa = UpdatedSwa
  PROVE  HeldIn(swa) = HeldIn(kv_swa)
BY KShiftHeld DEF UpdatedSwa, IInv

LEMMA UpdateWindow ==
  ASSUME WinInv, swa_kv_active, ~hybrid, llama_kv_cache_update
  PROVE  Windowed'
<1>1. IInv
  BY WinFacts
<1>. QED
  BY <1>1, SameWindow, UpdatedHeld, SwaUpdated DEF llama_kv_cache_update

LEMMA DefragWindow ==
  ASSUME WinInv, swa_kv_active, llama_kv_cache_defrag
  PROVE  Windowed'
<1>1. Sound(kv_self)
  BY WinFacts
<1>2. kv_self'.size = kv_self.size /\ kv_self'.cells = kv_self.cells /\ kv_swa' = kv_swa
  BY <1>1, SoundFacts DEF llama_kv_cache_defrag, Fields
<1>. QED
  BY <1>2, SameHeld, SameWindow

(***************************************************************************)
(* Decoding: what is evicted for a batch is out of reach.                  *)
(***************************************************************************)
(* The first position of s that a query of the batch can have is not after  *)
(* the one where s goes on.                                                 *)
Before(q, i) == {j \in 1..i-1 : q[j] = q[i]}

(* What sequences hold when they hold a batch of n.                         *)
Ents(batch, n) == {Ent(batch[j].seq, batch[j].pos, batch[j].tok) : j \in 1..n}

LEMMA BeforeIs ==
  ASSUME NEW n \in Nat, NEW q, NEW i \in 1..n
  PROVE  IsFiniteSet(Before(q, i)) /\ Cardinality(Before(q, i)) \in Nat
<1>1. IsFiniteSet(1..i-1) /\ Before(q, i) \in SUBSET (1..i-1)
  BY FS_Interval DEF Before
<1>. QED
  BY <1>1, FS_Subset, FS_CardinalityType

LEMMA PosNextNat == ASSUME NEW s PROVE PosNext(s) \in Nat
<1>. DEFINE S == PosOf(kv_self, s)
<1>1. S \in SUBSET Nat /\ \A p \in S : p <= MaxPos
  BY KvAssumption DEF PosOf, InRange
<1>2. PosNext(s) = IF S = {} THEN 0 ELSE Max(S) + 1
  BY DEF PosNext
<1>. HIDE DEF S
<1>3. S # {} => Max(S) \in Nat
  BY <1>1, TopOf
<1>. QED
  BY <1>2, <1>3

LEMMA BatchIs ==
  ASSUME NEW n \in Nat, NEW q \in [1..n -> Seqs], NEW batch, batch = UBatch(q)
  PROVE  /\ DOMAIN batch = 1..n
         /\ \A i \in 1..n : /\ batch[i].seq = q[i] /\ batch[i].pos \in Nat
                            /\ batch[i].pos = PosNext(q[i]) + Cardinality(Before(q, i))
<1>1. DOMAIN batch = 1..n
  BY DEF UBatch
<1>2. ASSUME NEW i \in 1..n
      PROVE  batch[i].seq = q[i] /\ batch[i].pos = PosNext(q[i]) + Cardinality(Before(q, i))
  BY DEF UBatch, Before
<1>3. ASSUME NEW i \in 1..n PROVE batch[i].pos \in Nat
  <2>1. batch[i].pos = PosNext(q[i]) + Cardinality(Before(q, i))
    BY <1>2
  <2>2. PosNext(q[i]) \in Nat /\ Cardinality(Before(q, i)) \in Nat
    BY PosNextNat, BeforeIs
  <2>. QED
    BY ONLY <2>1, <2>2
<1>. QED
  BY <1>1, <1>2, <1>3

LEMMA RefPosBound ==
  ASSUME IInv, Low, NEW n \in Nat, NEW q \in [1..n -> Seqs], NEW batch, batch = UBatch(q),
         NEW c, Sound(c), HeldIn(c) \subseteq HeldIn(kv_self), NEW e \in HeldIn(c)
  PROVE  RefPos(c, e.seq, batch) \in Int /\ RefPos(c, e.seq, batch) <= PosNext(e.seq)
<1>. DEFINE s == e.seq
            I == {j \in 1..n : q[j] = s}
            own == {batch[i].pos : i \in I}
            S == PosOf(c, s)
<1>1. /\ DOMAIN batch = 1..n
      /\ \A i \in 1..n : /\ batch[i].seq = q[i] /\ batch[i].pos \in Nat
                         /\ batch[i].pos = PosNext(q[i]) + Cardinality(Before(q, i))
  BY BatchIs
<1>2. {j \in DOMAIN batch : batch[j].seq = s} = I
  BY <1>1
<1>3. RefPos(c, s, batch) = IF own # {} THEN Min(own) ELSE Max(S)
  BY <1>2 DEF RefPos
<1>4. PosNext(s) \in Nat
  BY PosNextNat
<1>5. CASE I # {}
  <2>1. I \in SUBSET Nat
    OBVIOUS
  <2>. DEFINE i == Min(I)
  <2>. HIDE DEF I
  <2>2. i \in I /\ \A j \in I : i <= j
    BY <1>5, <2>1, Least
  <2>. HIDE DEF i
  <2>3. i \in 1..n /\ q[i] = s
    BY <2>2 DEF I
  <2>4. Before(q, i) = {}
    <3>. SUFFICES ASSUME NEW j \in Before(q, i) PROVE FALSE
      OBVIOUS
    <3>1. j \in I /\ j < i
      BY <2>3 DEF Before, I
    <3>. QED
      BY <2>1, <2>2, <3>1
  <2>5. batch[i].pos = PosNext(s)
    <3>1. Cardinality(Before(q, i)) = 0
      BY <2>4, FS_EmptySet
    <3>2. batch[i].pos = PosNext(s) + Cardinality(Before(q, i))
      BY <1>1, <2>3
    <3>. HIDE DEF s
    <3>. QED
      BY <1>4, <3>1, <3>2
  <2>6. own \in SUBSET Nat /\ PosNext(s) \in own
    BY <1>1, <2>2, <2>5 DEF I
  <2>. HIDE DEF own
  <2>7. Min(own) \in Nat /\ Min(own) <= PosNext(s)
    BY <2>6, Least
  <2>. QED
    BY <1>3, <2>6, <2>7
<1>6. CASE I = {}
  <2>1. own = {}
    BY <1>6
  <2>2. Formed(HeldIn(c)) 
    <3>1. HeldIn(kv_self) = Held
      BY HeldIs
    <3>. QED
      BY <3>1, EntForm DEF Low, Formed
  <2>3. /\ S = {f.pos : f \in {g \in HeldIn(c) : g.seq = s}}
        /\ S \in SUBSET Nat /\ \A p \in S : p <= MaxPos
    BY <2>2, PosOfIs
  <2>4. e.pos \in S
    BY <2>3
  <2>. HIDE DEF S
  <2>5. Max(S) \in S /\ Max(S) \in Nat
    BY <2>3, <2>4, TopOf
  <2>6. PICK t \in HeldIn(kv_self) : t.seq = s /\ t.pos = Max(S)
    BY <2>3, <2>5
  <2>7. t.pos + 1 <= PosNext(t.seq)
    BY <2>6, ReachIs
  <2>8. RefPos(c, s, batch) = Max(S) /\ Max(S) + 1 <= PosNext(s)
    BY <1>3, <2>1, <2>6, <2>7
  <2>. QED
    BY <1>4, <2>5, <2>8
<1>. QED
  BY <1>5, <1>6

(* What is in reach is not evicted.                                         *)
LEMMA EvictHolds ==
  ASSUME NEW c, Sound(c), NEW batch, NEW guard \in Nat, NEW d, d = SwaEvict(c, batch, guard),
         NEW e \in HeldIn(c), e.pos \in Int,
         RefPos(c, e.seq, batch) \in Int, RefPos(c, e.seq, batch) - e.pos < n_swa
  PROVE  e \in HeldIn(d)
<1>. DEFINE dead == {i \in Occupied(c) : \A s \in c.cells[i].seqs :
                       RefPos(c, s, batch) - c.cells[i].pos >= n_swa + guard}
<1>1. DOMAIN c = Fields
  BY SoundFacts
<1>2. d.size = c.size
  BY <1>1 DEF SwaEvict, Fields
<1>3. d.cells = [i \in Idx(c) |-> IF i \in dead THEN [Cleared(c.cells[i]) EXCEPT !.delta = 0]
                                  ELSE c.cells[i]]
  BY <1>1 DEF SwaEvict, Fields
<1>4. PICK i \in Idx(c) : e \in Tokens(c.cells[i])
  BY InHeld
<1>5. e.seq \in c.cells[i].seqs /\ e.pos = c.cells[i].pos
  BY <1>4, EntFields DEF Tokens
<1>6. n_swa \in Nat
  BY KvAssumption
<1>7. ~(RefPos(c, e.seq, batch) - e.pos >= n_swa + guard)
  BY <1>6
<1>8. i \notin dead
  BY <1>5, <1>7
<1>. HIDE DEF dead
<1>9. d.cells[i] = c.cells[i] /\ i \in Idx(d)
  BY <1>2, <1>3, <1>8 DEF Idx
<1>. QED
  BY <1>4, <1>9, InHeld

LEMMA EvictKeepsReach ==
  ASSUME IInv, Low, NEW n \in Nat, NEW q \in [1..n -> Seqs], NEW batch, batch = UBatch(q),
         NEW c, Sound(c), HeldIn(c) \subseteq HeldIn(kv_self), NEW guard \in Nat,
         NEW d, d = SwaEvict(c, batch, guard)
  PROVE  /\ HeldIn(d) \subseteq HeldIn(c)
         /\ \A e \in HeldIn(c) : InReach(HeldIn(kv_self), e) => e \in HeldIn(d)
<1>1. HeldIn(d) \subseteq HeldIn(c)
  BY EvictPair, WithinHeld
<1>2. ASSUME NEW e \in HeldIn(c), InReach(HeldIn(kv_self), e) PROVE e \in HeldIn(d)
  <2>1. e \in HeldIn(kv_self)
    OBVIOUS
  <2>2. PosNext(e.seq) \in Nat /\ PosNext(e.seq) - e.pos < n_swa
    BY <1>2, <2>1, ReachIs
  <2>3. e.pos \in Int
    <3>1. e \in Held
      BY <2>1, HeldIs
    <3>. QED
      BY <3>1, KvAssumption DEF Low
  <2>. DEFINE r == RefPos(c, e.seq, batch)
  <2>4. r \in Int /\ r <= PosNext(e.seq)
    BY RefPosBound
  <2>5. n_swa \in Nat
    BY KvAssumption
  <2>. HIDE DEF r
  <2>6. r - e.pos < n_swa
    BY <2>2, <2>3, <2>4, <2>5
  <2>. QED
    BY <2>3, <2>4, <2>6, EvictHolds DEF r
<1>. QED
  BY <1>1, <1>2

(* However much room is made for a batch.                                   *)
LEMMA RoomKeepsReach ==
  ASSUME IInv, Low, NEW n \in Nat, NEW q \in [1..n -> Seqs], NEW batch, batch = UBatch(q),
         NEW c, Sound(c), HeldIn(c) \subseteq HeldIn(kv_self), NEW d, d = SwaMadeRoom(c, batch)
  PROVE  /\ HeldIn(d) \subseteq HeldIn(c)
         /\ \A e \in HeldIn(c) : InReach(HeldIn(kv_self), e) => e \in HeldIn(d)
<1>1. PICK m, g, b, k : /\ m = Len(batch) /\ g = SwaEvict(c, batch, swa_kv_guard)
                        /\ b = SwaGaveUp(g, m) /\ k = SwaEvict(b, batch, 0)
  OBVIOUS
<1>2. d = IF SlotStarts(g, m) # {} THEN g ELSE k
  BY <1>1 DEF SwaMadeRoom
<1>3. swa_kv_guard \in Nat /\ 0 \in Nat
  BY KvAssumption
<1>4. Sound(g)
  BY <1>1, SwaEvictSound
<1>5. /\ HeldIn(g) \subseteq HeldIn(c)
      /\ \A e \in HeldIn(c) : InReach(HeldIn(kv_self), e) => e \in HeldIn(g)
  BY <1>1, <1>3, EvictKeepsReach
<1>6. Sound(b) /\ HeldIn(b) = HeldIn(g)
  BY <1>1, <1>4, HeadsSound, HeadCells, SameHeld
<1>7. /\ HeldIn(k) \subseteq HeldIn(b)
      /\ \A e \in HeldIn(b) : InReach(HeldIn(kv_self), e) => e \in HeldIn(k)
  <2>1. HeldIn(b) \subseteq HeldIn(kv_self)
    BY <1>5, <1>6
  <2>. QED
    BY <1>1, <1>3, <1>6, <2>1, EvictKeepsReach
<1>. QED
  BY <1>2, <1>5, <1>6, <1>7

(* A batch goes on where its sequences end, and no two of its tokens are at *)
(* the same place.                                                          *)
LEMMA BatchApart ==
  ASSUME IInv, Low, NEW n \in Nat, NEW q \in [1..n -> Seqs], NEW batch, batch = UBatch(q),
         NEW B, B = Ents(batch, n)
  PROVE  Apart(B) /\ \A e \in HeldIn(kv_self), f \in B : ~(e.seq = f.seq /\ e.pos = f.pos)
<1>1. \A i \in 1..n : /\ batch[i].seq = q[i] /\ batch[i].pos \in Nat
                      /\ batch[i].pos = PosNext(q[i]) + Cardinality(Before(q, i))
  BY BatchIs
<1>2. ASSUME NEW i \in 1..n, NEW j \in 1..n, i < j, q[i] = q[j]
      PROVE  batch[i].pos < batch[j].pos
  <2>1. Before(q, i) \in SUBSET Before(q, j) /\ i \in Before(q, j) /\ i \notin Before(q, i)
    BY <1>2 DEF Before
  <2>2. IsFiniteSet(Before(q, j)) /\ Cardinality(Before(q, i)) \in Nat /\ Cardinality(Before(q, j)) \in Nat
    BY BeforeIs
  <2>3. Cardinality(Before(q, i)) < Cardinality(Before(q, j))
    BY <2>1, <2>2, Fewer
  <2>4. PosNext(q[i]) \in Nat
    BY PosNextNat
  <2>. QED
    BY <1>1, <1>2, <2>2, <2>3, <2>4
<1>3. ASSUME NEW i \in 1..n, NEW j \in 1..n, batch[i].seq = batch[j].seq, batch[i].pos = batch[j].pos
      PROVE  i = j
  <2>1. q[i] = q[j]
    BY <1>1, <1>3
  <2>2. batch[i].pos \in Nat /\ batch[j].pos \in Nat
    BY <1>1
  <2>3. ~(i < j) /\ ~(j < i)
    BY <1>2, <1>3, <2>1, <2>2
  <2>. QED
    BY <2>3
<1>4. \A f \in B : \E j \in 1..n : /\ f = Ent(batch[j].seq, batch[j].pos, batch[j].tok)
                                   /\ f.seq = batch[j].seq /\ f.pos = batch[j].pos
  BY EntFields DEF Ents
<1>5. Apart(B)
  <2>. SUFFICES ASSUME NEW e \in B, NEW f \in B, e.seq = f.seq, e.pos = f.pos PROVE e = f
    BY DEF Apart
  <2>1. PICK i \in 1..n : /\ e = Ent(batch[i].seq, batch[i].pos, batch[i].tok)
                          /\ e.seq = batch[i].seq /\ e.pos = batch[i].pos
    BY <1>4
  <2>2. PICK j \in 1..n : /\ f = Ent(batch[j].seq, batch[j].pos, batch[j].tok)
                          /\ f.seq = batch[j].seq /\ f.pos = batch[j].pos
    BY <1>4
  <2>3. i = j
    BY <1>3, <2>1, <2>2
  <2>. QED
    BY <2>1, <2>2, <2>3
<1>6. ASSUME NEW e \in HeldIn(kv_self), NEW f \in B, e.seq = f.seq, e.pos = f.pos PROVE FALSE
  <2>1. PICK j \in 1..n : f.seq = batch[j].seq /\ f.pos = batch[j].pos
    BY <1>4
  <2>2. f.pos = PosNext(e.seq) + Cardinality(Before(q, j))
    BY <1>1, <1>6, <2>1
  <2>3. Cardinality(Before(q, j)) \in Nat
    BY BeforeIs
  <2>4. PosNext(e.seq) \in Nat /\ e.pos + 1 <= PosNext(e.seq)
    BY ReachIs
  <2>5. e.pos \in Nat
    BY <1>1, <1>6, <2>1
  <2>. QED
    BY <1>6, <2>2, <2>3, <2>4, <2>5
<1>. QED
  BY <1>5, <1>6

(* A batch that is placed, or refused by either cache.                      *)
LEMMA DecodeWindow ==
  ASSUME WinInv, swa_kv_active, ~hybrid, NEW n \in 1..MaxBatch, NEW q \in [1..n -> Seqs], llama_decode(q)
  PROVE  Windowed'
<1>. DEFINE batch == UBatch(q)
            a     == UpdatedSelf
            b     == UpdatedSwa
            self  == SearchFrom(a, n)
            room  == SwaMadeRoom(b, batch)
            own   == Place(self, FirstSlot(self, n), batch)
            put   == Place(room, FirstSlot(room, n), batch)
            swa   == SwaWithExtent(put)
            self_takes == SlotStarts(self, n) # {}
            swa_takes  == SlotStarts(room, n) # {}
            H == HeldIn(kv_self)
            W == HeldIn(kv_swa)
            R == HeldIn(room)
            B == Ents(batch, n)
<1>0. IInv /\ Low /\ W \subseteq H /\ Window(H, W)
  BY WinFacts DEF WinInv
<1>1. n \in Nat
  BY KvAssumption
<1>2. n = Len(batch) /\ Len(q) = n /\ \A i \in 1..n : TokenOk(batch[i])
  BY <1>1, UBatchTokens
<1>3. \/ ~swa_takes /\ kv_self' = self /\ kv_swa' = SwaGaveUp(room, n)
      \/ swa_takes /\ ~self_takes /\ kv_self' = GaveUp(self, n) /\ kv_swa' = SwaReleaseSlot(swa, n)
      \/ swa_takes /\ self_takes /\ kv_self' = Advanced(WithExtent(own), n) /\ kv_swa' = swa
  BY <1>2 DEF llama_decode
<1>4. Apart(B) /\ \A e \in H, f \in B : ~(e.seq = f.seq /\ e.pos = f.pos)
  <2>1. batch = UBatch(q) /\ B = Ents(batch, n) /\ IInv /\ Low
    BY <1>0
  <2>. HIDE DEF batch, B
  <2>. QED
    BY ONLY q \in [1..n -> Seqs], <1>1, <2>1, BatchApart
<1>5. Sound(a) /\ ~a.has_shift /\ Sound(b) /\ ~b.has_shift /\ HeldIn(a) = H /\ HeldIn(b) = W
  BY <1>0, UpdatedSound, UpdatedHeld, SwaUpdated
<1>6. batch = UBatch(q)
  OBVIOUS
<1>. HIDE DEF batch, a, b
<1>7. Sound(self) /\ ~self.has_shift /\ HeldIn(self) = H
  BY <1>5, HeadsSound, HeadCells, SameHeld
<1>8. Sound(room) /\ ~room.has_shift
  BY <1>5, MadeRoomSound
<1>9. R \subseteq W /\ \A e \in W : InReach(H, e) => e \in R
  <2>1. /\ HeldIn(room) \subseteq HeldIn(b)
        /\ \A e \in HeldIn(b) : InReach(HeldIn(kv_self), e) => e \in HeldIn(room)
    BY <1>0, <1>1, <1>5, <1>6, RoomKeepsReach
  <2>. QED
    BY <1>5, <2>1
<1>. HIDE DEF self, room, H, W, B
<1>10. Window(H, R) /\ Window(H \cup B, R \cup B)
  <2>. HIDE DEF R
  <2>. QED
    BY <1>0, <1>4, <1>9, WindowGrown
<1>11. ASSUME swa_takes
       PROVE  /\ FirstSlot(room, n) \in SlotStarts(room, n)
              /\ Sound(put) /\ Sound(swa) /\ HeldIn(put) = R \cup B
              /\ swa.size = put.size /\ swa.cells = put.cells /\ swa.head = put.head
  <2>. DEFINE h == FirstSlot(room, n)
  <2>1. room.size \in Nat
    BY <1>8, SoundFacts
  <2>2. h \in SlotStarts(room, n)
    BY <1>11, <2>1, FirstSlotStarts
  <2>3. put = Place(room, h, batch)
    OBVIOUS
  <2>. HIDE DEF h, put
  <2>4. Sound(put)
    BY ONLY <1>1, <1>2, <1>8, <2>2, <2>3, PlaceSound
  <2>5. HeldIn(put) = HeldIn(room) \cup {Ent(batch[j].seq, batch[j].pos, batch[j].tok) : j \in 1..n}
    BY ONLY <1>1, <1>2, <1>8, <2>2, <2>3, PlaceHeld
  <2>6. Sound(swa)
    BY <2>4, HeadsSound
  <2>7. swa.size = put.size /\ swa.cells = put.cells /\ swa.head = put.head
    BY <2>4, ExtentCovers
  <2>. QED
    BY <2>2, <2>4, <2>5, <2>6, <2>7 DEF h, B, Ents
<1>12. ASSUME self_takes PROVE Sound(own) /\ HeldIn(own) = H \cup B
  <2>. DEFINE h == FirstSlot(self, n)
  <2>1. self.size \in Nat
    BY <1>7, SoundFacts
  <2>2. h \in SlotStarts(self, n)
    BY <1>12, <2>1, FirstSlotStarts
  <2>3. own = Place(self, h, batch)
    OBVIOUS
  <2>. HIDE DEF h, own
  <2>4. Sound(own)
    BY ONLY <1>1, <1>2, <1>7, <2>2, <2>3, PlaceSound
  <2>5. HeldIn(own) = HeldIn(self) \cup {Ent(batch[j].seq, batch[j].pos, batch[j].tok) : j \in 1..n}
    BY ONLY <1>1, <1>2, <1>7, <2>2, <2>3, PlaceHeld
  <2>. QED
    BY <1>7, <2>4, <2>5 DEF B, Ents
<1>13. CASE ~swa_takes /\ kv_self' = self /\ kv_swa' = SwaGaveUp(room, n)
  <2>1. HeldIn(SwaGaveUp(room, n)) = R
    BY <1>8, HeadCells, SameHeld
  <2>2. HeldIn(kv_self') = H /\ HeldIn(kv_swa') = R
    BY <1>7, <1>13, <2>1
  <2>. QED
    BY <1>10, <2>2 DEF Windowed
<1>14. CASE swa_takes /\ ~self_takes /\ kv_self' = GaveUp(self, n) /\ kv_swa' = SwaReleaseSlot(swa, n)
  <2>. DEFINE w == SwaReleaseSlot(swa, n)
              g == GaveUp(self, n)
              h == FirstSlot(room, n)
  <2>1. w = SwaReleaseSlot(swa, n) /\ put = Place(room, h, batch) /\ kv_self' = g /\ kv_swa' = w
    BY <1>14
  <2>2. /\ h \in SlotStarts(room, n) /\ Sound(put) /\ Sound(swa)
        /\ swa.size = put.size /\ swa.cells = put.cells /\ swa.head = put.head
    BY <1>11, <1>14
  <2>3. HeldIn(g) = H
    BY <1>7, HeadCells, SameHeld
  <2>. HIDE DEF w, g, h, swa, put
  <2>4. Within(w, room) /\ Within(room, w)
    BY ONLY <1>1, <1>2, <1>8, <2>1, <2>2, ReleasePair
  <2>5. HeldIn(w) = R
    <3>1. HeldIn(w) \subseteq HeldIn(room)
      BY ONLY <2>4, WithinHeld
    <3>2. HeldIn(room) \subseteq HeldIn(w)
      BY ONLY <2>4, WithinHeld
    <3>. QED
      BY <3>1, <3>2
  <2>. QED
    BY <1>10, <2>1, <2>3, <2>5 DEF Windowed
<1>15. CASE swa_takes /\ self_takes /\ kv_self' = Advanced(WithExtent(own), n) /\ kv_swa' = swa
  <2>. DEFINE e == WithExtent(own)
              g == Advanced(e, n)
  <2>1. kv_self' = g /\ kv_swa' = swa
    BY <1>15
  <2>2. Sound(own) /\ HeldIn(own) = H \cup B
    BY <1>12, <1>15
  <2>3. HeldIn(put) = R \cup B /\ swa.size = put.size /\ swa.cells = put.cells
    BY <1>11, <1>15
  <2>. HIDE DEF own, put, swa, R
  <2>4. Sound(e) /\ e.size = own.size /\ e.cells = own.cells
    BY <2>2, HeadsSound, HeadCells
  <2>. HIDE DEF e
  <2>5. g.size = e.size /\ g.cells = e.cells
    BY <2>4, HeadCells
  <2>. HIDE DEF g
  <2>6. HeldIn(e) = HeldIn(own) /\ HeldIn(g) = HeldIn(e)
    BY <2>4, <2>5, SameHeld
  <2>7. HeldIn(swa) = HeldIn(put)
    BY <2>3, SameHeld
  <2>8. HeldIn(kv_self') = H \cup B /\ HeldIn(kv_swa') = R \cup B
    BY <2>1, <2>2, <2>3, <2>6, <2>7
  <2>. QED
    BY <1>10, <2>8 DEF Windowed
<1>. QED
  BY <1>3, <1>13, <1>14, <1>15

LEMMA OnSequenceWindow ==
  ASSUME WinInv, swa_kv_active, ~hybrid, ~DeepRewinds, ~SelfExtend, NEW s \in Seqs, OnSequence(s)
  PROVE  Windowed'
<1>1. CASE llama_kv_cache_seq_keep(s)
  BY <1>1, KeepWindow
<1>2. CASE \E dst \in Seqs : llama_kv_cache_seq_cp(s, dst)
  BY <1>2, CpWindow
<1>3. CASE \E p0 \in 0..MaxPos : llama_kv_cache_seq_rm(s, p0)
  BY <1>3, RmWindow
<1>4. CASE \E p0 \in 0..MaxPos : \E p1 \in p0+1..MaxPos+1 :
             \/ \E d \in Shifts : llama_kv_cache_seq_add(s, p0, p1, d)
             \/ llama_kv_cache_seq_div(s, p0, p1, 2)
             \/ ContextShift(s, p0, p1 - p0)
  <2>0. PICK p0 \in 0..MaxPos : \E p1 \in p0+1..MaxPos+1 :
             \/ \E d \in Shifts : llama_kv_cache_seq_add(s, p0, p1, d)
             \/ llama_kv_cache_seq_div(s, p0, p1, 2)
             \/ ContextShift(s, p0, p1 - p0)
    BY <1>4
  <2>1. PICK p1 \in p0+1..MaxPos+1 :
             \/ \E d \in Shifts : llama_kv_cache_seq_add(s, p0, p1, d)
             \/ llama_kv_cache_seq_div(s, p0, p1, 2)
             \/ ContextShift(s, p0, p1 - p0)
    BY <2>0
  <2>2. ~MayMove
    BY DEF MayMove
  <2>3. ContextShift(s, p0, p1 - p0)
    BY <2>1, <2>2 DEF llama_kv_cache_seq_add, llama_kv_cache_seq_div
  <2>. QED
    BY <2>3, ContextShiftWindow
<1>5. ~ \E n \in FileTokens : llama_state_seq_set_data(s, n) \/ llama_state_set_data(s, n)
  BY DEF llama_state_seq_set_data, llama_state_set_data
<1>. QED
  BY <1>1, <1>2, <1>3, <1>4, <1>5 DEF OnSequence

LEMMA StepWindow ==
  ASSUME ~hybrid, ~DeepRewinds, ~SelfExtend
  PROVE  WinInv /\ [Next]_vars => WinInv'
<1>. SUFFICES ASSUME WinInv, [Next]_vars PROVE WinInv'
  OBVIOUS
<1>1. PairInv' /\ Low'
  BY StepPairs, StepMaps DEF WinInv, PairInv
<1>. SUFFICES ASSUME swa_kv_active PROVE Windowed'
  BY <1>1 DEF WinInv, Windowed
<1>2. CASE \E n \in 1..MaxBatch : \E q \in [1..n -> Seqs] : llama_decode(q)
  BY <1>2, DecodeWindow
<1>3. CASE llama_kv_cache_update
  BY <1>3, UpdateWindow
<1>4. CASE llama_kv_cache_defrag
  BY <1>4, DefragWindow
<1>5. CASE llama_kv_cache_clear
  BY <1>5, ClearWindow
<1>6. ASSUME NEW s \in Seqs, OnSequence(s) PROVE Windowed'
  BY <1>6, OnSequenceWindow
<1>7. CASE UNCHANGED vars
  BY <1>7 DEF vars, WinInv, Windowed
<1>. QED
  BY <1>2, <1>3, <1>4, <1>5, <1>6, <1>7 DEF Next

LEMMA InitWindow == Init => WinInv
<1>. SUFFICES ASSUME Init PROVE WinInv
  OBVIOUS
<1>1. IInv /\ Held = {}
  BY InitSound, InitMaps
<1>2. HeldIn(kv_self) = {}
  BY <1>1, HeldIs
<1>. QED
  BY <1>1, <1>2, InitPairs DEF WinInv, Low, Window, Apart, Reached

(* What a cache says of its sequences, with the keys.                       *)
LEMMA EntriesAre ==
  ASSUME NEW c, NEW x
  PROVE  x \in Entries(c) <=> \E e \in HeldIn(c) : x = [seq |-> e.seq, pos |-> e.pos, tok |-> e.tok]
<1>. DEFINE E(e) == [seq |-> e.seq, pos |-> e.pos, tok |-> e.tok]
<1>1. ASSUME x \in Entries(c) PROVE \E e \in HeldIn(c) : x = E(e)
  <2>1. PICK i \in Occupied(c) : \E s \in c.cells[i].seqs :
               x = [seq |-> s, pos |-> c.cells[i].pos, tok |-> c.cells[i].row.tok]
    BY <1>1 DEF Entries
  <2>2. PICK s \in c.cells[i].seqs : x = [seq |-> s, pos |-> c.cells[i].pos, tok |-> c.cells[i].row.tok]
    BY <2>1
  <2>3. PICK e : e = Ent(s, c.cells[i].pos, c.cells[i].row.tok)
    OBVIOUS
  <2>4. e \in Tokens(c.cells[i]) /\ i \in Idx(c)
    BY <2>3 DEF Tokens, Occupied
  <2>5. e \in HeldIn(c)
    BY <2>4, InHeld
  <2>6. x = E(e)
    BY <2>2, <2>3, EntFields
  <2>. QED
    BY <2>5, <2>6
<1>2. ASSUME NEW e \in HeldIn(c), x = E(e) PROVE x \in Entries(c)
  <2>1. PICK i \in Idx(c) : e \in Tokens(c.cells[i])
    BY InHeld
  <2>2. PICK s \in c.cells[i].seqs : e = Ent(s, c.cells[i].pos, c.cells[i].row.tok)
    BY <2>1 DEF Tokens
  <2>3. x = [seq |-> s, pos |-> c.cells[i].pos, tok |-> c.cells[i].row.tok]
    BY <1>2, <2>2, EntFields
  <2>4. i \in Occupied(c)
    BY <2>2 DEF Occupied
  <2>. QED
    BY <2>3, <2>4 DEF Entries
<1>. QED
  BY <1>1, <1>2

(* All that the next query of a sequence can attend to is in the            *)
(* window-sized cache, for every window, guard, size, padding and any       *)
(* decodes, refused ones too, copies, removals and context shifts, as long  *)
(* as no sequence is rewound to behind what that cache holds, and none is   *)
(* stretched by self-extend.                                                *)
THEOREM WindowStays ==
  ASSUME ~hybrid, ~DeepRewinds, ~SelfExtend
  PROVE  Spec => []WindowResident
<1>1. WinInv => WindowResident
  <2>. SUFFICES ASSUME WinInv, swa_kv_active, NEW x \in Entries(kv_self), PosNext(x.seq) - x.pos < n_swa
                PROVE  x \in Entries(kv_swa)
    BY DEF WindowResident
  <2>1. PICK e \in HeldIn(kv_self) : x = [seq |-> e.seq, pos |-> e.pos, tok |-> e.tok]
    BY EntriesAre
  <2>2. PosNext(e.seq) - e.pos < n_swa
    BY <2>1
  <2>3. InReach(HeldIn(kv_self), e)
    BY <2>2, ReachIs, WinFacts DEF WinInv
  <2>4. e \in HeldIn(kv_swa)
    BY <2>3, WinFacts DEF Window, Reached
  <2>. QED
    BY <2>1, <2>4, EntriesAre
<1>. QED
  BY <1>1, InitWindow, StepWindow, PTL DEF Spec
=============================================================================
