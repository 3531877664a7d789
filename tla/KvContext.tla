----------------------------- MODULE KvContext -----------------------------
(***************************************************************************)
(* The KV caches of a llama_context and the functions of llama.h that      *)
(* change them (src/llama.cpp): kv_self and, when PXA_SWA_KV is armed, the *)
(* window-sized kv_swa of the sliding layers.  A context is used by one    *)
(* thread, so a step is a call; a batch for llama_decode is one ubatch.    *)
(*                                                                         *)
(* Callers do what the server does: a sequence goes on at the position     *)
(* after its last, is copied as a whole to a sequence that is empty, and   *)
(* is shifted where it shares no cell and where there is room for it.      *)
(***************************************************************************)
EXTENDS KvCells

CONSTANTS
  NSeq,           \* n_seq_max
  KvSize,         \* kv_self.size
  SwaSize,        \* kv_swa.size
  n_swa,          \* hparams.n_swa
  swa_kv_guard,
  max_moves,      \* of one defragmentation
  Pad,            \* llama_kv_cache_get_padding
  MaxBatch,       \* n_ubatch
  MaxPos,         \* the last position that a caller uses
  MaxCalls,       \* bound on the calls other than decode, update and truncation
  Shifts,         \* the arguments of seq_add
  FileTokens,     \* how many tokens saved states have
  swa_kv_active,  \* PXA_SWA_KV is armed
  hybrid,         \* the cache also has recurrent states
  DeepRewinds,    \* may a truncation go behind all that kv_swa still holds?
  SelfExtend      \* are sequences stretched and divided although there is a sliding cache?

ASSUME KvAssumption ==
  /\ {NSeq, KvSize, SwaSize, n_swa, max_moves, Pad, MaxBatch} \subseteq Nat \ {0}
  /\ {swa_kv_guard, MaxPos, MaxCalls} \subseteq Nat
  /\ FileTokens \subseteq 1..MaxPos+1
  /\ SwaSize < KvSize
  /\ NSeq <= KvSize
  /\ Shifts \subseteq Int \ {0}
  /\ {swa_kv_active, hybrid, DeepRewinds, SelfExtend} \subseteq BOOLEAN
  /\ ~(swa_kv_active /\ hybrid)   \* a hybrid model is not eligible

VARIABLES kv_self, kv_swa,
          calls   \* how many bounded calls there were

vars == <<kv_self, kv_swa, calls>>

Seqs == 0..NSeq-1

\* llama_init_from_model.
Init ==
  /\ kv_self = NewCache(KvSize)
  /\ kv_swa = NewCache(SwaSize)
  /\ calls = 0

\* One of the calls that are bounded.
Bounded == calls < MaxCalls /\ calls' = calls + 1

PosOf(c, s) == {c.cells[i].pos : i \in InRange(c, s, 0, MaxPos + 1)}

\* Where the caller goes on with s.
PosNext(s) == IF PosOf(kv_self, s) = {} THEN 0 ELSE Max(PosOf(kv_self, s)) + 1

\* The ubatch of a token for each of the sequences q[1], q[2]...
UBatch(q) ==
  [i \in DOMAIN q |->
     LET p == PosNext(q[i]) + Cardinality({j \in 1..i-1 : q[j] = q[i]})
     IN  [seq |-> q[i], pos |-> p, tok |-> <<q[i], p>>]]

(***************************************************************************)
(* The sliding cache.                                                      *)
(***************************************************************************)

(* Mutant: the last position of the batch. *)
RefPos_last(c, s, batch) ==
  Max({batch[i].pos : i \in {j \in DOMAIN batch : batch[j].seq = s}} \cup PosOf(c, s))

\* The first position that can still be queried: that of the batch, or the last one so far.
RefPos(c, s, batch) ==
  LET own == {batch[i].pos : i \in {j \in DOMAIN batch : batch[j].seq = s}}
  IN  IF own # {} THEN Min(own) ELSE Max(PosOf(c, s))

(* Mutant: what was evicted is still counted. *)
SwaEvict_used(c, batch, guard) ==
  LET dead == {i \in Occupied(c) : \A s \in c.cells[i].seqs :
                 RefPos(c, s, batch) - c.cells[i].pos >= n_swa + guard}
  IN  [c EXCEPT !.head = HeadAfter(c, dead),
                !.cells = [i \in Idx(c) |->
                   IF i \in dead THEN [Cleared(c.cells[i]) EXCEPT !.delta = 0] ELSE c.cells[i]]]

\* llama_kv_swa_evict: drops what is behind the window and the guard for all its sequences.
SwaEvict(c, batch, guard) ==
  LET dead == {i \in Occupied(c) : \A s \in c.cells[i].seqs :
                 RefPos(c, s, batch) - c.cells[i].pos >= n_swa + guard}
  IN  [c EXCEPT !.used = @ - Cardinality(dead),
                !.head = HeadAfter(c, dead),
                !.cells = [i \in Idx(c) |->
                   IF i \in dead THEN [Cleared(c.cells[i]) EXCEPT !.delta = 0] ELSE c.cells[i]]]

(* Mutant: a refused ubatch stays. *)
SwaReleaseSlot_keep(c, n) == c

\* llama_kv_swa_release_slot: undoes a placement.
SwaReleaseSlot(c, n) ==
  [c EXCEPT !.used = @ - n,
            !.cells = [i \in Idx(c) |->
               IF i \in c.head..c.head+n-1 THEN [Cleared(c.cells[i]) EXCEPT !.delta = 0]
               ELSE c.cells[i]]]

\* llama_kv_swa_coverage_ok.
CoverageOk(c, s) ==
  LET held == PosOf(c, s)
      lo   == Max({0, Max(held) - n_swa + 1})
  IN  held # {} => lo..Max(held) \subseteq held

(***************************************************************************)
(* llama_kv_cache_update, alone or at the beginning of llama_decode.       *)
(***************************************************************************)
ShiftDue == kv_self.has_shift \/ (swa_kv_active /\ kv_swa.has_shift)

UpdatedSelf ==
  LET a == IF ShiftDue THEN KShift(kv_self) ELSE kv_self
      b == IF hybrid /\ a.do_copy THEN StateCopied(a) ELSE a
  IN  IF b.do_defrag THEN Defragged(b, max_moves, hybrid) ELSE b

UpdatedSwa == IF swa_kv_active /\ ShiftDue THEN KShift(kv_swa) ELSE kv_swa

llama_kv_cache_update ==
  /\ ShiftDue \/ kv_self.do_defrag \/ kv_self.do_copy
  /\ kv_self' = UpdatedSelf
  /\ kv_swa' = UpdatedSwa
  /\ UNCHANGED calls

llama_kv_cache_defrag ==
  /\ Bounded
  /\ kv_self' = [kv_self EXCEPT !.do_defrag = TRUE]
  /\ UNCHANGED kv_swa

(***************************************************************************)
(* llama_decode: update, the sliding cache first, then kv_self.            *)
(***************************************************************************)

\* The search starts at 0 when there is enough free room before head.
SearchFrom(c, n) == IF c.head > c.used + 2 * n THEN [c EXCEPT !.head = 0] ELSE c

\* Head after the ubatch.
Advanced(c, n) == [c EXCEPT !.head = IF @ + n >= c.size THEN 0 ELSE @ + n]

\* What the decode attends to, once the ubatch is placed.
WithExtent(c)    == [c EXCEPT !.n = Extent(c, CellMaxSampled(c, Pad), Pad)]
SwaWithExtent(c) == [c EXCEPT !.n = Extent(c, CellMax(c), Pad)]

\* A search of kv_self, or of kv_swa, without success.
GaveUp(c, n)    == [c EXCEPT !.head = GaveUpAt(c, n, Min(Taken(c)) + 1)]
SwaGaveUp(c, n) == [c EXCEPT !.head = GaveUpAt(c, n, 0)]

\* The sliding cache before the ubatch is placed: when a search with the guard fails, a
\* second one without it goes on from where the first has left head.
SwaMadeRoom(c, batch) ==
  LET guarded == SwaEvict(c, batch, swa_kv_guard)
  IN  IF SlotStarts(guarded, Len(batch)) # {} THEN guarded
      ELSE SwaEvict(SwaGaveUp(guarded, Len(batch)), batch, 0)

\* One ubatch. Either cache may refuse it; when both take it, its rows are computed. The
\* sliding cache's head stays where the ubatch is.
llama_decode(q) ==
  LET n     == Len(q)
      batch == UBatch(q)
      self  == SearchFrom(UpdatedSelf, n)
      room  == SwaMadeRoom(UpdatedSwa, batch)
      swa   == SwaWithExtent(Place(room, FirstSlot(room, n), batch))
      self_takes == SlotStarts(self, n) # {}
      swa_takes  == swa_kv_active => SlotStarts(room, n) # {}
  IN  /\ \A i \in DOMAIN q : batch[i].pos <= MaxPos
      /\ \/ /\ ~swa_takes
            /\ kv_self' = self
            /\ kv_swa' = SwaGaveUp(room, n)
         \/ /\ swa_takes /\ ~self_takes
            /\ kv_self' = GaveUp(self, n)
            /\ kv_swa' = IF swa_kv_active THEN SwaReleaseSlot(swa, n) ELSE kv_swa
         \/ /\ swa_takes /\ self_takes
            /\ kv_self' = Advanced(WithExtent(Place(self, FirstSlot(self, n), batch)), n)
            /\ kv_swa' = IF swa_kv_active THEN swa ELSE kv_swa
      /\ UNCHANGED calls

(***************************************************************************)
(* The functions on sequences: both caches, one after the other.           *)
(***************************************************************************)
OnBoth(self, swa) ==
  /\ kv_self' = self
  /\ kv_swa' = IF swa_kv_active THEN swa ELSE kv_swa

llama_kv_cache_clear ==
  LET Op(c) == CellsClear(c)
  IN  Bounded /\ OnBoth(Op(kv_self), Op(kv_swa))

\* The removal of positions p0 to p1 - 1 leaves the sliding cache without a hole.
Covered(s, p0, p1) == swa_kv_active => CoverageOk(CellsSeqRm(kv_swa, s, p0, p1, hybrid), s)

\* Either the range is gone, or the window had a hole and the whole sequence is.
Removed(c, s, p0, p1) ==
  LET rest == CellsSeqRm(c, s, p0, p1, hybrid)
  IN  IF Covered(s, p0, p1) THEN rest ELSE CellsSeqRm(rest, s, 0, MaxPos + 1, hybrid)

\* The last token of s before p0 is no longer in kv_swa.
BehindWindow(s, p0) ==
  LET rest == {p \in PosOf(kv_self, s) : p < p0}
  IN  swa_kv_active /\ rest # {} /\ Max(rest) \notin PosOf(kv_swa, s)

\* A truncation.
llama_kv_cache_seq_rm(s, p0) ==
  LET Op(c) == Removed(c, s, p0, MaxPos + 1)
  IN  /\ DeepRewinds \/ ~BehindWindow(s, p0)
      /\ OnBoth(Op(kv_self), Op(kv_swa)) /\ UNCHANGED calls

llama_kv_cache_seq_cp(src, dst) ==
  LET Op(c) == CellsSeqCp(c, src, dst, hybrid)
  IN  /\ Bounded
      /\ src # dst /\ PosOf(kv_self, dst) = {}
      /\ OnBoth(Op(kv_self), Op(kv_swa))

llama_kv_cache_seq_keep(s) ==
  LET Op(c) == CellsSeqKeep(c, s, hybrid)
  IN  Bounded /\ OnBoth(Op(kv_self), Op(kv_swa))

\* s shares none of its cells at p0 to p1 - 1.
Unshared(s, p0, p1) == \A i \in InRange(kv_self, s, p0, p1) : kv_self.cells[i].seqs = {s}

\* Besides context shifts only self-extend moves positions. Nothing refuses it on a model with
\* a sliding cache.
MayMove == swa_kv_active => SelfExtend

\* Where the range goes is nothing of s but what moves.
RoomFor(s, p0, p1, d) ==
  LET stays == PosOf(kv_self, s) \ (p0..p1-1)
  IN  \A p \in PosOf(kv_self, s) \cap (p0..p1-1) : p + d \notin stays /\ p + d <= MaxPos

llama_kv_cache_seq_add(s, p0, p1, d) ==
  LET Op(c) == CellsSeqAdd(c, s, p0, p1, d)
  IN  /\ Bounded /\ MayMove
      /\ Unshared(s, p0, p1) /\ RoomFor(s, p0, p1, d)
      /\ OnBoth(Op(kv_self), Op(kv_swa))

\* discard_n_kv_and_cache_tokens of the server, a context shift: d tokens after the first keep
\* go and the rest moves down, whatever the removal returned.
ContextShift(s, keep, d) ==
  LET Op(c) == CellsSeqAdd(Removed(c, s, keep, keep + d), s, keep + d, MaxPos + 1, -d)
  IN  /\ Bounded
      /\ Unshared(s, keep, MaxPos + 1) /\ keep + d < PosNext(s)
      /\ OnBoth(Op(kv_self), Op(kv_swa))

llama_kv_cache_seq_div(s, p0, p1, d) ==
  LET Op(c) == CellsSeqDiv(c, s, p0, p1, d)
  IN  /\ Bounded /\ MayMove /\ Unshared(s, p0, p1)
      /\ OnBoth(Op(kv_self), Op(kv_swa))

(***************************************************************************)
(* Reading a saved state of n tokens, which is refused with a sliding      *)
(* cache. Callers save and restore when no shift is pending.               *)
(***************************************************************************)
FromFile(s, n) == [i \in 1..n |-> [seq |-> s, pos |-> i - 1, tok |-> <<-1, i - 1>>]]

\* llama_state_seq_set_data: on failure the sequence stays removed.
llama_state_seq_set_data(s, n) ==
  LET c == CellsSeqRm(kv_self, s, 0, MaxPos + 1, hybrid)
  IN  /\ Bounded /\ ~swa_kv_active /\ ~kv_self.has_shift
      /\ IF SlotStarts(c, n) # {}
         THEN kv_self' = Place(c, FirstSlot(c, n), FromFile(s, n))
         ELSE kv_self' = GaveUp(c, n)
      /\ UNCHANGED kv_swa

\* llama_state_set_data.
llama_state_set_data(s, n) ==
  /\ Bounded /\ ~swa_kv_active /\ ~kv_self.has_shift /\ n <= KvSize
  /\ kv_self' = Place(CellsClear(kv_self), 0, FromFile(s, n))
  /\ UNCHANGED kv_swa

OnSequence(s) ==
  \/ llama_kv_cache_seq_keep(s)
  \/ \E dst \in Seqs : llama_kv_cache_seq_cp(s, dst)
  \/ \E p0 \in 0..MaxPos : llama_kv_cache_seq_rm(s, p0)
  \/ \E p0 \in 0..MaxPos : \E p1 \in p0+1..MaxPos+1 :
       \/ \E d \in Shifts : llama_kv_cache_seq_add(s, p0, p1, d)
       \/ llama_kv_cache_seq_div(s, p0, p1, 2)
       \/ ContextShift(s, p0, p1 - p0)
  \/ \E n \in FileTokens : llama_state_seq_set_data(s, n) \/ llama_state_set_data(s, n)

Next ==
  \/ \E n \in 1..MaxBatch : \E q \in [1..n -> Seqs] : llama_decode(q)
  \/ llama_kv_cache_update
  \/ llama_kv_cache_defrag
  \/ llama_kv_cache_clear
  \/ \E s \in Seqs : OnSequence(s)

Spec == Init /\ [][Next]_vars

(***************************************************************************)
(* Properties.                                                             *)
(***************************************************************************)
CacheType(c, size) ==
  /\ c.size = size /\ c.head \in 0..size /\ c.used \in 0..size /\ c.n \in 0..size
  /\ {c.has_shift, c.do_defrag, c.do_copy} \subseteq BOOLEAN
  /\ DOMAIN c.cells = 0..size-1 /\ c.src \in [0..size-1 -> 0..size-1]
  /\ \A i \in 0..size-1 :
       LET cell == c.cells[i]
       IN  /\ cell.pos \in -1..MaxPos /\ cell.seqs \subseteq Seqs
           /\ cell.delta \in Int
           /\ DOMAIN cell.row = {"tok", "rot"}

\* The caches are caches, and kv_swa stays empty unless it is armed.
TypeOK ==
  /\ CacheType(kv_self, KvSize) /\ CacheType(kv_swa, SwaSize)
  /\ ~swa_kv_active => kv_swa = NewCache(SwaSize)
  /\ calls \in 0..MaxCalls

\* `used` counts the cells that hold something, and these are the ones that the allocator
\* finds taken. Defragmentation asserts it (nf == nh) long after whoever got it wrong.
UsedExact ==
  \A c \in {kv_self, kv_swa} :
    /\ c.used = Cardinality(Occupied(c))
    /\ \A i \in Idx(c) : c.cells[i].pos >= 0 <=> c.cells[i].seqs # {}

\* The row of each cell in use is, with the shift that is still to be applied, rotated to the
\* position that the mask is made from; also after defragmentations and reuse of cells.
RowsAtTheirPositions ==
  \A c \in {kv_self, kv_swa} : \A i \in Occupied(c) :
    c.cells[i].row.rot + c.cells[i].delta = c.cells[i].pos

\* What the cells of c say that sequences hold.
Entries(c) ==
  UNION {{[seq |-> s, pos |-> c.cells[i].pos, tok |-> c.cells[i].row.tok]
            : s \in c.cells[i].seqs} : i \in Occupied(c)}

\* The two caches never disagree about which tokens exist: what kv_swa has, kv_self has, also
\* when the ubatch was placed in one of them and refused by the other.
CachesAgree == swa_kv_active => Entries(kv_swa) \subseteq Entries(kv_self)

\* All that the next query of a sequence can attend to is still in the sliding cache, however
\* eviction, refused decodes, rewinds, copies and shifts came together.
WindowResident ==
  swa_kv_active =>
    \A e \in Entries(kv_self) : PosNext(e.seq) - e.pos < n_swa => e \in Entries(kv_swa)

\* The sliding layers attend to every cell of their cache that is in use: eviction leaves bands
\* that float, of which none may lie beyond the extent of the decode.
SlidingInView == \A i \in Occupied(kv_swa) : i < kv_swa.n

\* The same of kv_self, where the extent is sampled: "sound for a cache that fills contiguously
\* from index 0 and never empties below the top - true of the full cache". Restored cells come
\* into view with the next decode. It does not hold: a sequence that is removed leaves the
\* cells of another between two samples.
DecodedInView ==
  \A i \in Occupied(kv_self) : kv_self.cells[i].row.tok[1] >= 0 => i < kv_self.n

\* An update that defragments leaves the used cells without a hole, at the beginning, unless
\* it came to its limit: then as many cells as it may move blocks found a new place.
DefragCompacts ==
  [][llama_kv_cache_update /\ kv_self.do_defrag =>
       \/ Occupied(kv_self') = 0..kv_self.used-1
       \/ Cardinality(Occupied(kv_self') \ Occupied(kv_self)) >= max_moves]_vars

\* To its callers the cache is a map from sequences and positions to tokens.
Held ==
  UNION {{[seq |-> s, pos |-> kv_self.cells[i].pos,
           key |-> kv_self.cells[i].row.rot + kv_self.cells[i].delta,
           tok |-> kv_self.cells[i].row.tok]
            : s \in kv_self.cells[i].seqs} : i \in Occupied(kv_self)}

Map == INSTANCE KvMap WITH held <- Held

\* Every call does to the map what its name says and nothing else; placing, shifting rows
\* later, defragmenting and refusing a batch cannot be told from doing nothing.
ImplementsKvMap == Map!Spec
=============================================================================
