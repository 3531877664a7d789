------------------------------ MODULE KvCells ------------------------------
(***************************************************************************)
(* The operations of struct llama_kv_cache (src/llama.cpp) on one cache of *)
(* an attention model: a record of `size`, `cells`, `src`, `head`, `used`, *)
(* `n`, `has_shift`, `do_defrag` and `do_copy`.                            *)
(*                                                                         *)
(* A cell is what llama_kv_cell keeps, a position, a shift that is still   *)
(* to be applied and the set of sequences, and `row`: what its row of the  *)
(* K tensor holds, a token and the position its key is rotated to. Nobody  *)
(* reads the row of a free cell, so a cell that is freed forgets it. `src` *)
(* is, of each cell, the source of a state copy: only a `hybrid` cache,    *)
(* which also has the recurrent states of some layers, ever reads it.      *)
(***************************************************************************)
EXTENDS Integers, Sequences, FiniteSets, FiniteSetsExt

\* The row of a free cell.
NoRow == [tok |-> <<>>, rot |-> 0]

\* llama_kv_cell(): what a cell is before its first use.
NewCell == [pos |-> -1, delta |-> 0, seqs |-> {}, row |-> NoRow]

\* A cell without its sequences: its delta stays as it is.
Cleared(cell) == [cell EXCEPT !.pos = -1, !.seqs = {}, !.row = NoRow]

\* A cell that token b of a batch was put into.
Taking(cell, b) ==
  [cell EXCEPT !.pos = b.pos, !.seqs = @ \cup {b.seq}, !.row = [tok |-> b.tok, rot |-> b.pos]]

\* A cell at another position: the row is to be rotated later.
Repositioned(cell, p) == [cell EXCEPT !.pos = p, !.delta = @ + p - cell.pos]

\* llama_kv_cache_init: all cells empty, each its own source.
NewCache(size) ==
  [size |-> size, head |-> 0, used |-> 0, n |-> 0,
   has_shift |-> FALSE, do_defrag |-> FALSE, do_copy |-> FALSE,
   cells |-> [i \in 0..size-1 |-> NewCell], src |-> [i \in 0..size-1 |-> i]]

Idx(c) == 0..c.size-1

\* The cells that hold something.
Occupied(c) == {i \in Idx(c) : c.cells[i].seqs # {}}

\* The cells of sequence s at positions p0 to p1 - 1.
InRange(c, s, p0, p1) ==
  {i \in Idx(c) : s \in c.cells[i].seqs /\ c.cells[i].pos \in p0..p1-1}

(***************************************************************************)
(* Placing a batch: a sequence of [seq, pos, tok].                         *)
(***************************************************************************)
SlotStarts(c, n) ==
  {h \in Idx(c) : h + n <= c.size /\ \A i \in h..h+n-1 : c.cells[i].pos < 0}

\* Both allocators look for the first n free neighbours from head on, and then from 0 on:
\* a run that goes over the end of the cache does not count.
FirstSlot(c, n) ==
  LET S == SlotStarts(c, n)
      ahead == {h \in S : h >= c.head}
  IN  IF ahead # {} THEN Min(ahead) ELSE Min(S)

\* A search that fails has gone once round and leaves head behind the cell that stopped it,
\* or where it went on when it came to the end of the cache once more (`wrapped`).
Taken(c) == {i \in Idx(c) : c.cells[i].pos >= 0}
GaveUpAt(c, n, wrapped) ==
  LET lap    == IF c.head = 0 THEN c.size ELSE c.head
      beyond == {i \in Taken(c) : i + 1 >= lap}
      start  == Max({i + 1 : i \in Taken(c) \ beyond} \cup {0})
  IN  IF beyond # {} /\ start + n <= c.size THEN Min(beyond) + 1 ELSE wrapped

\* What the allocators do to the cells they take, from head on.
Place(c, h, batch) ==
  LET n == Len(batch)
  IN  [c EXCEPT !.head = h, !.used = @ + n,
                !.cells = [i \in Idx(c) |->
                   IF i \in h..h+n-1 THEN Taking(c.cells[i], batch[i-h+1]) ELSE c.cells[i]]]

(***************************************************************************)
(* How many cells the attention of a decode looks at, c.n: up to the last  *)
(* one in use, rounded up to a multiple of pad.                            *)
(***************************************************************************)

(* Mutant: the index of the last cell instead of the number of cells. *)
CellMax_index(c) == IF Occupied(c) = {} THEN 0 ELSE Max(Occupied(c))

\* llama_kv_cache_cell_max.
CellMax(c) == IF Occupied(c) = {} THEN 0 ELSE Max(Occupied(c)) + 1

\* llama_kv_cache_cell_max with a step: looks at every pad-th cell from the end on, and when
\* one is in use at the cells between it and the one looked at before.
CellMaxSampled(c, pad) ==
  LET hits == {i \in 1..c.size : (c.size - i) % pad = 0 /\ i - 1 \in Occupied(c)}
      top  == Max(hits)
  IN  IF hits = {} THEN 0
      ELSE Max({j \in top..Min({top + pad, c.size}) : j - 1 \in Occupied(c)})

Extent(c, max_cell, pad) ==
  Min({c.size, Max({pad, pad * ((max_cell + pad - 1) \div pad)})})

(***************************************************************************)
(* The operations on sequences.                                            *)
(***************************************************************************)

\* The head goes down to the first cell that was freed.
HeadAfter(c, freed) ==
  IF freed # {} /\ Min(freed) < c.head THEN Min(freed) ELSE c.head

\* The cells in S are their own sources again.
OwnSource(src, S) == [i \in DOMAIN src |-> IF i \in S THEN i ELSE src[i]]

\* llama_kv_cache_clear: the deltas and has_shift stay.
CellsClear(c) ==
  [c EXCEPT !.head = 0, !.used = 0,
            !.src = [i \in Idx(c) |-> i],
            !.cells = [i \in Idx(c) |-> Cleared(c.cells[i])]]

(* Mutant: a shared cell is freed for all of its sequences. *)
CellsSeqRm_all(c, s, p0, p1, hybrid) ==
  LET hit == InRange(c, s, p0, p1)
  IN  [c EXCEPT !.used = @ - Cardinality(hit),
                !.head = HeadAfter(c, hit),
                !.cells = [i \in Idx(c) |-> IF i \in hit THEN Cleared(c.cells[i]) ELSE c.cells[i]]]

\* llama_kv_cache_seq_rm of one sequence.
CellsSeqRm(c, s, p0, p1, hybrid) ==
  LET hit   == InRange(c, s, p0, p1)
      freed == {i \in hit : c.cells[i].seqs = {s}}
  IN  [c EXCEPT !.used = @ - Cardinality(freed),
                !.head = HeadAfter(c, freed),
                !.src = IF hybrid THEN OwnSource(@, freed) ELSE @,
                !.cells = [i \in Idx(c) |->
                   IF i \in freed THEN Cleared(c.cells[i])
                   ELSE IF i \in hit THEN [c.cells[i] EXCEPT !.seqs = c.cells[i].seqs \ {s}]
                   ELSE c.cells[i]]]

\* llama_kv_cache_seq_cp of the whole of src to dst. In a hybrid cache, where sequence ids
\* are taken for cell indices, the source becomes the source's source, and the cell with the
\* index dst gets its position.
CellsSeqCp(c, src, dst, hybrid) ==
  LET from    == IF hybrid THEN c.src[src] ELSE src
      stamped == IF hybrid THEN [c.cells EXCEPT ![dst].pos = c.cells[from].pos] ELSE c.cells
  IN  [c EXCEPT !.head = 0, !.do_copy = @ \/ hybrid,
                !.src = IF hybrid THEN [@ EXCEPT ![dst] = from] ELSE @,
                !.cells = [i \in Idx(c) |->
                   IF from \in stamped[i].seqs /\ stamped[i].pos >= 0
                   THEN [stamped[i] EXCEPT !.seqs = stamped[i].seqs \cup {dst}]
                   ELSE stamped[i]]]

\* llama_kv_cache_seq_keep.
CellsSeqKeep(c, s, hybrid) ==
  LET others == {i \in Idx(c) : s \notin c.cells[i].seqs}
  IN  [c EXCEPT !.used = @ - Cardinality({i \in others : c.cells[i].pos >= 0}),
                !.head = HeadAfter(c, others),
                !.src = IF hybrid THEN OwnSource(@, others) ELSE @,
                !.cells = [i \in Idx(c) |->
                   IF i \in others THEN Cleared(c.cells[i]) ELSE [c.cells[i] EXCEPT !.seqs = {s}]]]

(* Mutant: a cell that is shifted out is not counted. *)
CellsSeqAdd_used(c, s, p0, p1, d) ==
  LET hit   == InRange(c, s, p0, p1)
      freed == {i \in hit : c.cells[i].pos + d < 0}
  IN  [c EXCEPT !.has_shift = @ \/ hit # {},
                !.head = IF freed # {} THEN Min(freed) ELSE 0,
                !.cells = [i \in Idx(c) |->
                   LET moved == Repositioned(c.cells[i], c.cells[i].pos + d)
                   IN  IF i \in freed THEN Cleared(moved)
                       ELSE IF i \in hit THEN moved ELSE c.cells[i]]]

\* llama_kv_cache_seq_add: a cell whose position gets negative is freed.
CellsSeqAdd(c, s, p0, p1, d) ==
  LET hit   == InRange(c, s, p0, p1)
      freed == {i \in hit : c.cells[i].pos + d < 0}
  IN  [c EXCEPT !.has_shift = @ \/ hit # {},
                !.used = @ - Cardinality(freed),
                !.head = IF freed # {} THEN Min(freed) ELSE 0,
                !.cells = [i \in Idx(c) |->
                   LET moved == Repositioned(c.cells[i], c.cells[i].pos + d)
                   IN  IF i \in freed THEN Cleared(moved)
                       ELSE IF i \in hit THEN moved ELSE c.cells[i]]]

\* llama_kv_cache_seq_div.
CellsSeqDiv(c, s, p0, p1, d) ==
  LET hit == InRange(c, s, p0, p1)
  IN  [c EXCEPT !.has_shift = @ \/ hit # {},
                !.cells = [i \in Idx(c) |->
                   IF i \in hit THEN Repositioned(c.cells[i], c.cells[i].pos \div d)
                   ELSE c.cells[i]]]

(***************************************************************************)
(* llama_kv_cache_update: the work that the operations leave for later.    *)
(***************************************************************************)

\* A cell whose row was rotated by its delta.
Rotated(cell) ==
  [cell EXCEPT !.delta = 0,
               !.row = IF cell.row = NoRow THEN NoRow
                       ELSE [tok |-> cell.row.tok, rot |-> cell.row.rot + cell.delta]]

(* Mutant: only the cells in use get their delta reset. *)
KShift_used(c) ==
  [c EXCEPT !.has_shift = FALSE,
            !.cells = [i \in Idx(c) |->
               IF c.cells[i].seqs = {} THEN c.cells[i] ELSE Rotated(c.cells[i])]]

\* The K-shift graph rotates every row by its cell's delta, the deltas are reset.
KShift(c) ==
  [c EXCEPT !.has_shift = FALSE, !.cells = [i \in Idx(c) |-> Rotated(c.cells[i])]]

\* The recurrent states are copied, every cell is its own source again.
StateCopied(c) ==
  [c EXCEPT !.do_copy = FALSE, !.src = [i \in Idx(c) |-> i]]

(***************************************************************************)
(* llama_kv_cache_defrag_internal. Below n_used are as many holes as there *)
(* are cells in use from n_used on. Runs of holes are filled from left to  *)
(* right, each with the last cells that are still there, in their order.   *)
(* The work is done in blocks of cells that are neighbours and stay so,    *)
(* and after max_moves blocks it stops.                                    *)
(***************************************************************************)
Holes(c)  == {i \in 0..c.used-1 : c.cells[i].seqs = {}}
Movers(c) == {i \in Occupied(c) : i >= c.used}

\* The run of holes that h is in.
RunOf(c, h) == {g \in Holes(c) : \A k \in (IF g < h THEN g..h ELSE h..g) : k \in Holes(c)}

\* The cell that goes to hole h.
MoverFor(c, h) ==
  LET later  == Cardinality({g \in Holes(c) : g < Min(RunOf(c, h))})
                + Cardinality({g \in RunOf(c, h) : g > h})
  IN  CHOOSE m \in Movers(c) : Cardinality({k \in Movers(c) : k > m}) = later

\* A new block starts at hole h: at the first hole of a run, or after a gap.
StartsBlock(c, h) == h = Min(RunOf(c, h)) \/ MoverFor(c, h) # MoverFor(c, h - 1) + 1

(* Mutant: the limit is met one block early. *)
Filled_less(c, max_moves) ==
  {h \in Holes(c) : Cardinality({g \in Holes(c) : g <= h /\ StartsBlock(c, g)}) < max_moves}

\* The holes that are filled before the limit on blocks is met.
Filled(c, max_moves) ==
  {h \in Holes(c) : Cardinality({g \in Holes(c) : g <= h /\ StartsBlock(c, g)}) <= max_moves}

\* The metadata move, and the rows with them (build_defrag). A hybrid's cell that was left
\* has the source 0 of a new cell.
Defragged(c, max_moves, hybrid) ==
  LET filled == Filled(c, max_moves)
      moved  == {MoverFor(c, h) : h \in filled}
  IN  [c EXCEPT !.do_defrag = FALSE,
                !.head = IF filled # {} THEN c.used ELSE @,
                !.src = [i \in Idx(c) |->
                   IF hybrid /\ i \in filled THEN c.src[MoverFor(c, i)]
                   ELSE IF hybrid /\ i \in moved THEN 0 ELSE c.src[i]],
                !.cells = [i \in Idx(c) |->
                   IF i \in filled THEN c.cells[MoverFor(c, i)]
                   ELSE IF i \in moved THEN NewCell ELSE c.cells[i]]]
=============================================================================
