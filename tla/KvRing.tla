------------------------------- MODULE KvRing -------------------------------
(***************************************************************************)
(* The shared attention-KV ring of the server (kv_unified): who is         *)
(* admitted to it, which cells each slot holds, how idle prompt caches are *)
(* reclaimed, how a full ring is relieved, and the loop that decodes a     *)
(* batch chunk by chunk (examples/server/server-context.cpp).              *)
(*                                                                         *)
(* All of this runs on the main thread.  The only thing another thread can *)
(* do to it is to set the flag that makes llama_decode stop.  Tokens have  *)
(* no contents: a prompt is its length, and how much of a slot's cached    *)
(* tokens a new prompt has in common is a choice.                          *)
(***************************************************************************)
EXTENDS Integers, Sequences, FiniteSets, FiniteSetsExt

CONSTANTS
    n_parallel,     \* number of slots
    n_ctx,          \* number of cells in the ring
    n_batch,        \* tokens in one batch
    n_ubatch,       \* tokens llama_decode places at a time
    n_keep,         \* params.n_keep and the BOS token
    Request,        \* completion requests
    Params,         \* how a server may be started and what is asked of it
    Reuse,          \* possible lengths of a common prefix
    MaxGen,         \* bound: n_predict of every request
    Contiguous,     \* so many free cells, if there are, are found in one piece
    MayAbort        \* some client leaves and stops a decode

Slot == 1 .. n_parallel

NoRequest == "none"

ASSUME RingAssumption ==
    /\ n_parallel \in Nat \ {0} /\ n_ctx \in Nat /\ n_ctx > 8
    /\ n_batch \in Nat \ {0} /\ n_ubatch \in Nat \ {0}
    /\ n_keep \in Nat /\ MaxGen \in Nat \ {0} /\ Reuse \subseteq Nat
    /\ NoRequest \notin Request
    /\ Contiguous \in Nat \ {0} /\ MayAbort \in BOOLEAN
    /\ Params \subseteq [ctx_shift : BOOLEAN, recurrent : BOOLEAN,
                         early : BOOLEAN, len : [Request -> Nat]]

VARIABLES
    params,         \* command line and prompt lengths (0: not asked); never changes
    slots,          \* server_slot
    cells,          \* kv_self.cells in use; a retry may give a position several
    clean_kv_cache,
    status,         \* where each request is
    pc,             \* "loop", or where update_slots is
    prev_prompt,    \* pxa_prev_tick_was_prompt
    cur,            \* the slot batch_pending_prompt looks at
    batch,          \* the batch: tokens with their sequence and position
    at,             \* i, the start of the next chunk
    nb,             \* n_batch, halved by failures
    defrag_tried

ring == <<slots, cells, clean_kv_cache>>
decode == <<cur, batch, at, nb, defrag_tried>>
vars == <<params, ring, status, pc, prev_prompt, decode>>

-----------------------------------------------------------------------------
(* server_slot.  IDLE is available(); LOAD is a launched prompt that is not
   yet complete; PROC generates; RELEASE waits for release_slots. *)

SlotState == {"IDLE", "LOAD", "PROC", "RELEASE"}

is_processing(sl) == sl.state \in {"LOAD", "PROC"}

Processing == {s \in Slot : is_processing(slots[s])}

EmptySlot == [state |-> "IDLE", task |-> NoRequest, prompt |-> 0, ticked |-> FALSE,
              n_past |-> 0, cache |-> 0, n_decoded |-> 0]

(* release(): the cached tokens stay; what else stays is read by nobody before
   the next launch resets it *)
released(sl) == [EmptySlot EXCEPT !.state = "RELEASE", !.cache = sl.cache]

TasksOf(S) == {slots[s].task : s \in S}

Outcome(S, what) == [r \in Request |-> IF r \in TasksOf(S) THEN what ELSE status[r]]

-----------------------------------------------------------------------------
(* The ring: llama_kv_cache_seq_rm, seq_add, find_slot and the used counter *)

CellsOf(c, s) == {x \in c : x.seq = s}

(* 0, not -1, of a sequence without cells *)
seq_pos_max(c, s) == Max({x.pos : x \in CellsOf(c, s)} \cup {0})

(* The next m tokens of the batch get a cell each, whatever is there already *)
Placed(m) ==
    cells \cup {[seq |-> batch[j].seq, pos |-> batch[j].pos,
                 copy |-> Cardinality({x \in cells : x.seq = batch[j].seq /\ x.pos = batch[j].pos})]
                    : j \in at + 1 .. at + m}

-----------------------------------------------------------------------------
(* Admission *)

kv_unified_reserve == Max({1, Min({256, n_ctx \div (16 * n_parallel)})})

kv_unified_margin == Max({kv_unified_reserve, 4 * n_parallel})

(* Mutant: only cells in use are counted *)
BusyForgets(sl, except) == 0

(* kv_unified_cells_busy: what processing slots were promised and do not hold yet *)
kv_unified_cells_busy(sl, except) ==
    MapThenSumSet(LAMBDA s : Max({0, sl[s].prompt + kv_unified_reserve - sl[s].n_past}),
                  {s \in Slot \ {except} : is_processing(sl[s])})

CellsFree(sl, c, s) ==
    n_ctx - Cardinality(c) - kv_unified_cells_busy(sl, s) + sl[s].cache

(* kv_unified_reclaim_idle takes the caches of idle slots, oldest first, until
   it has enough; which is oldest is a choice *)
CachedIn(V) == MapThenSumSet(LAMBDA s : slots[s].cache, V)

(* Mutant: any slot with a cache is a victim *)
VictimsAny(need, except) ==
    LET some == {s \in Slot \ {except} : slots[s].cache > 0}
    IN  IF need <= 0 THEN {{}} ELSE {some}

Victims(need, except) ==
    LET idle == {s \in Slot \ {except} : slots[s].state = "IDLE" /\ slots[s].cache > 0}
    IN  IF need <= 0 THEN {{}}
        ELSE {V \in SUBSET idle :
                /\ CachedIn(V) >= need \/ V = idle
                /\ V = {} \/ \E last \in V : CachedIn(V \ {last}) < need}

ReclaimedCells(V) == {x \in cells : x.seq \notin V}

ReclaimedSlots(V) ==
    [s \in Slot |-> IF s \in V THEN [slots[s] EXCEPT !.cache = 0, !.n_past = 0] ELSE slots[s]]

-----------------------------------------------------------------------------
(* process_single_task *)

(* reset() and launch_slot_with_task *)
Launch(sl, s, r) ==
    /\ slots' = [sl EXCEPT ![s] = [state |-> "LOAD", task |-> r, prompt |-> params.len[r],
                                   ticked |-> FALSE, n_past |-> 0,
                                   cache |-> sl[s].cache, n_decoded |-> 0]]
    /\ status' = [status EXCEPT ![r] = "running"]

defer(r) == status' = [status EXCEPT ![r] = "deferred"]

NoSlotAvailable(r) ==
    /\ \A s \in Slot : slots[s].state # "IDLE"
    /\ defer(r)
    /\ UNCHANGED ring

(* A prompt that cannot fit on an empty ring is launched as it is *)
Rejected(r) == params.len[r] + kv_unified_reserve > n_ctx

kv_unified_admit(r, s) ==
    LET need == params.len[r] + kv_unified_reserve
    IN  IF Rejected(r) \/ need <= CellsFree(slots, cells, s)
        THEN Launch(slots, s, r) /\ UNCHANGED cells
        ELSE \E V \in Victims(need - CellsFree(slots, cells, s), s) :
                /\ cells' = ReclaimedCells(V)
                /\ IF V # {} /\ need <= CellsFree(ReclaimedSlots(V), ReclaimedCells(V), s)
                   THEN Launch(ReclaimedSlots(V), s, r)
                   ELSE defer(r) /\ slots' = ReclaimedSlots(V)

Dispatch(r) ==
    /\ pc = "loop" /\ status[r] = "queued"
    /\ \/ NoSlotAvailable(r)
       \/ \E s \in Slot : /\ slots[s].state = "IDLE"
                          /\ kv_unified_admit(r, s)
                          /\ UNCHANGED clean_kv_cache
    /\ UNCHANGED <<params, pc, prev_prompt, decode>>

(* A CANCEL releases the slot, or finds its task in a queue *)
Cancel(r) ==
    /\ pc = "loop" /\ status[r] \in {"queued", "deferred", "running"}
    /\ slots' = [s \in Slot |-> IF slots[s].task = r THEN released(slots[s]) ELSE slots[s]]
    /\ status' = [status EXCEPT ![r] = "cancelled"]
    /\ UNCHANGED <<params, cells, clean_kv_cache, pc, prev_prompt, decode>>

Arrive(r) ==
    /\ pc = "loop" /\ status[r] = "new" /\ params.len[r] > 0
    /\ status' = [status EXCEPT ![r] = "queued"]
    /\ UNCHANGED <<params, ring, pc, prev_prompt, decode>>

-----------------------------------------------------------------------------
(* update_slots *)

(* Mutant: the deferred queue is left alone *)
RequeueForgets == status

requeued == [r \in Request |-> IF status[r] = "deferred" THEN "queued" ELSE status[r]]

(* The queue is worked off; release_slots and the test for an idle server *)
ReleaseSlots ==
    /\ pc = "loop" /\ \A r \in Request : status[r] # "queued"
    /\ slots' = [s \in Slot |-> IF slots[s].state = "RELEASE"
                                THEN [slots[s] EXCEPT !.state = "IDLE"] ELSE slots[s]]
    /\ status' = IF slots' # slots THEN requeued ELSE status
    /\ IF \A s \in Slot : slots'[s].state = "IDLE"
       THEN /\ pc' = "loop"
            /\ cells' = IF clean_kv_cache THEN {} ELSE cells
            /\ clean_kv_cache' = FALSE
       ELSE /\ pc' = "shift"
            /\ UNCHANGED <<cells, clean_kv_cache>>
    /\ UNCHANGED <<params, prev_prompt, decode>>

(* The 500 ms pump of an idle server, if a slot and some headroom are there *)
Heartbeat ==
    /\ pc = "loop" /\ \A r \in Request : status[r] # "queued"
    /\ \A s \in Slot : slots[s].state = "IDLE"
    /\ n_ctx - Cardinality(cells) - kv_unified_cells_busy(slots, 0) > kv_unified_reserve
    /\ status' = requeued
    /\ UNCHANGED <<params, ring, pc, prev_prompt, decode>>

(* The deepest generating slot, the first of several *)
Deepest(sl) ==
    {s \in Slot : /\ sl[s].state = "PROC"
                  /\ \A t \in Slot : sl[t].state = "PROC" =>
                        \/ sl[t].n_past < sl[s].n_past
                        \/ sl[t].n_past = sl[s].n_past /\ s <= t}

KeptTokens == Min({n_ctx - 4, Max({1, n_keep})})

Discarded(sl) == Max({0, (sl.n_past - KeptTokens) \div 2})

(* discard_n_kv_and_cache_tokens: the n[s] cells of slot s after keep go, and
   those up to position upto[s] move down *)
discard_cells(c, keep, n, upto) ==
    {[x EXCEPT !.pos = IF keep + n[x.seq] <= @ /\ @ < upto[x.seq] THEN @ - n[x.seq] ELSE @]
        : x \in {y \in c : ~(keep <= y.pos /\ y.pos < keep + n[y.seq])}}

context_shift ==
    /\ pc = "shift"
    /\ LET Full(c) == Cardinality(c) >= n_ctx - kv_unified_margin
       IN  \E V \in IF Full(cells) THEN Victims(2 * kv_unified_margin, 0) ELSE {{}} :
            LET sl == ReclaimedSlots(V)
                c  == ReclaimedCells(V)
                yield == {s \in Slot : /\ is_processing(sl[s])
                                       /\ \/ Full(c) /\ s \in Deepest(sl)
                                          \/ sl[s].n_past >= n_ctx - 1}
                n  == [s \in Slot |-> IF s \in yield THEN Discarded(sl[s]) ELSE 0]
            IN  IF params.ctx_shift
                THEN /\ slots' = [s \in Slot |-> [sl[s] EXCEPT !.n_past = @ - n[s],
                                                              !.cache = @ - n[s]]]
                     /\ cells' = discard_cells(c, KeptTokens, n, [s \in Slot |-> sl[s].n_past])
                     /\ UNCHANGED status
                ELSE /\ slots' = [s \in Slot |-> IF s \in yield THEN released(sl[s]) ELSE sl[s]]
                     /\ cells' = c
                     /\ status' = Outcome(yield, "error")
    /\ pc' = "batch"
    /\ UNCHANGED <<params, clean_kv_cache, prev_prompt, decode>>

-----------------------------------------------------------------------------
(* The batch.  On a recurrent model it holds prompt tokens or generated ones, by
   turns, and prompt tokens of one slot only. *)

PromptTick ==
    params.recurrent /\ ~prev_prompt /\ \E s \in Slot : slots[s].state = "LOAD"

(* The j-th smallest of a set of slots *)
Nth(S, j) == CHOOSE s \in S : Cardinality({t \in S : t <= s}) = j

(* add_sampled_tokens: the token sampled last, of every generating slot *)
add_sampled_tokens ==
    /\ pc = "batch"
    /\ LET gen == {s \in Slot : ~PromptTick /\ slots[s].state = "PROC"}
       IN  /\ batch' = [j \in 1 .. Cardinality(gen) |->
                            [seq |-> Nth(gen, j), pos |-> slots[Nth(gen, j)].cache]]
           /\ slots' = [s \in Slot |-> IF s \in gen
                            THEN [slots[s] EXCEPT !.cache = @ + 1, !.n_past = slots[s].cache + 1]
                            ELSE slots[s]]
           /\ cur' = IF params.recurrent /\ gen # {} THEN n_parallel + 1 ELSE 1
    /\ prev_prompt' = PromptTick
    /\ pc' = "prompt"
    /\ UNCHANGED <<params, cells, clean_kv_cache, status, at, nb, defrag_tried>>

(* batch_pending_prompt looks at slot after slot until the batch is full *)
NextSlot(n) ==
    cur' = IF n >= n_batch \/ (params.recurrent /\ n > 0)
           THEN n_parallel + 1 ELSE cur + 1

SkipSlot ==
    /\ pc = "prompt" /\ cur \in Slot /\ slots[cur].state # "LOAD"
    /\ NextSlot(Len(batch))
    /\ UNCHANGED <<params, ring, status, pc, prev_prompt, batch, at, nb, defrag_tried>>

(* What a prompt has in common with the slot's cached tokens is reused, but its
   last token, which has to be evaluated *)
MatchPrefix(sl) ==
    {[sl EXCEPT !.ticked = TRUE,
                !.n_past = IF k >= sl.prompt THEN sl.prompt - 1 ELSE k]
        : k \in {Min({k, sl.cache, sl.prompt}) : k \in Reuse}}

(* context_shift_prompt: a prompt that fills the context loses blocks after
   n_keep until it is shorter, and the slot's cache loses one such block *)
BlockSize == (n_ctx - n_keep) \div 2

CacheBlock(sl) == Min({BlockSize, Max({0, sl.cache - n_keep})})

context_shift_prompt(sl) ==
    [sl EXCEPT !.prompt = @ - BlockSize * ((@ - n_ctx) \div BlockSize + 1),
               !.cache = IF n_keep + CacheBlock(sl) < @ THEN @ - CacheBlock(sl) ELSE @]

(* The first time a slot's prompt is looked at *)
FirstLook ==
    /\ pc = "prompt" /\ cur \in Slot
    /\ LET sl == slots[cur]
       IN  /\ sl.state = "LOAD" /\ ~sl.ticked
           /\ \/ /\ sl.prompt < n_ctx
                 /\ \E new \in MatchPrefix(sl) : slots' = [slots EXCEPT ![cur] = new]
                 /\ UNCHANGED <<cells, status, cur>>
              \/ /\ sl.prompt >= n_ctx /\ params.ctx_shift
                 /\ \E new \in MatchPrefix(context_shift_prompt(sl)) :
                        slots' = [slots EXCEPT ![cur] = new]
                 /\ cells' = discard_cells(cells, n_keep,
                                [s \in Slot |-> IF s = cur THEN CacheBlock(sl) ELSE 0],
                                [s \in Slot |-> slots[s].n_past])
                 /\ UNCHANGED <<status, cur>>
              \/ /\ sl.prompt >= n_ctx /\ ~params.ctx_shift
                 /\ slots' = [slots EXCEPT ![cur] = released(sl)]
                 /\ status' = [status EXCEPT ![sl.task] = "error"]
                 /\ NextSlot(Len(batch)) /\ UNCHANGED cells
    /\ UNCHANGED <<params, clean_kv_cache, pc, prev_prompt, batch, at, nb, defrag_tried>>

(* What is cached beyond n_past goes, and prompt tokens come until the batch is
   full *)
AddPromptTokens ==
    /\ pc = "prompt" /\ cur \in Slot
    /\ LET sl == slots[cur]
           n  == Min({sl.prompt - sl.n_past, Max({0, n_batch - Len(batch)})})
       IN  /\ sl.state = "LOAD" /\ sl.ticked
           /\ cells' = {x \in cells : ~(x.seq = cur /\ x.pos >= sl.n_past)}
           /\ batch' = batch \o [j \in 1 .. n |-> [seq |-> cur, pos |-> sl.n_past + j - 1]]
           /\ slots' = [slots EXCEPT ![cur] =
                [sl EXCEPT !.cache = sl.n_past + n, !.n_past = sl.n_past + n,
                           !.state = IF sl.n_past + n = sl.prompt THEN "PROC" ELSE "LOAD"]]
           /\ NextSlot(Len(batch) + n)
    /\ UNCHANGED <<params, clean_kv_cache, status, pc, prev_prompt, at, nb, defrag_tried>>

BatchDone ==
    /\ pc = "prompt" /\ cur \notin Slot
    /\ prev_prompt' = (prev_prompt /\ batch # <<>>)
    /\ pc' = IF batch = <<>> THEN "loop" ELSE "decode"
    /\ cur' = 1
    /\ UNCHANGED <<params, ring, status, batch, at, nb, defrag_tried>>

-----------------------------------------------------------------------------
(* process_batch_tokens: one call of llama_decode on the next chunk *)

ChunkSize == Min({nb, Len(batch) - at})

(* process_batch_tokens returns; the batch is cleared before the next is built *)
EndDecode ==
    /\ pc' = "loop"
    /\ batch' = <<>> /\ at' = 0 /\ nb' = n_batch /\ defrag_tried' = FALSE

(* How many tokens of the chunk are placed when llama_decode looks up *)
UbatchEnds == {m \in 1 .. ChunkSize : m % n_ubatch = 0 \/ m = ChunkSize}

CanPlace(m) == Cardinality(cells) + m <= n_ctx

(* Slots whose last token of this batch is in the chunk are sampled *)
Sampled ==
    {s \in Slot : /\ slots[s].state = "PROC"
                  /\ \E j \in at + 1 .. at + ChunkSize :
                        batch[j] = [seq |-> s, pos |-> slots[s].cache - 1]}

DecodeChunk ==
    /\ pc = "decode" /\ CanPlace(ChunkSize)
    /\ cells' = Placed(ChunkSize)
    /\ \E done \in SUBSET Sampled :
        /\ {s \in Sampled : slots[s].n_decoded + 1 >= MaxGen} \subseteq done
        /\ slots' = [s \in Slot |->
                        IF s \in done THEN released(slots[s])
                        ELSE IF s \in Sampled THEN [slots[s] EXCEPT !.n_decoded = @ + 1]
                        ELSE slots[s]]
        /\ status' = Outcome(done, "answered")
    /\ IF at + ChunkSize >= Len(batch) THEN EndDecode
       ELSE at' = at + ChunkSize /\ UNCHANGED <<pc, batch, nb, defrag_tried>>
    /\ UNCHANGED <<params, clean_kv_cache, prev_prompt, cur>>

(* A ubatch finds no room, or none in one piece (a defragmentation need not be
   complete); the ubatches before it keep theirs *)
NoRoomAfter(m) ==
    LET u == Min({n_ubatch, ChunkSize - m})
    IN  CanPlace(m) /\ (~CanPlace(m + u) \/ u > Contiguous)

UnwindFail ==
    /\ slots' = [s \in Slot |-> IF s \in Processing THEN released(slots[s]) ELSE slots[s]]
    /\ status' = Outcome(Processing, "failed")
    /\ EndDecode

(* ret = 1: defragment and try again, then in halves, then give up *)
DecodeNoRoom ==
    /\ pc = "decode"
    /\ \E m \in ({0} \cup UbatchEnds) \ {ChunkSize} :
        NoRoomAfter(m) /\ cells' = Placed(m)
    /\ IF defrag_tried /\ nb = 1 THEN UnwindFail
       ELSE /\ defrag_tried' = TRUE
            /\ nb' = IF defrag_tried THEN nb \div 2 ELSE nb
            /\ UNCHANGED <<slots, status, pc, batch, at>>
    /\ UNCHANGED <<params, clean_kv_cache, prev_prompt, cur>>

(* Mutant: the cache keeps what was in the batch *)
UnwoundUntrimmed(c, s) == released(slots[s])

(* What an aborted slot has really decoded, and one token if it has decoded none *)
UnwoundSlot(c, s) ==
    LET n == Min({slots[s].cache, seq_pos_max(c, s) + 1})
    IN  [released(slots[s]) EXCEPT !.cache = n]

(* ret = -3: somebody has called llama_decode_stop *)
DecodeAborted ==
    /\ pc = "decode" /\ MayAbort
    /\ \E m \in UbatchEnds :
        /\ CanPlace(m)
        /\ cells' = Placed(m)
        /\ slots' = [s \in Slot |-> IF s \in Processing THEN UnwoundSlot(cells', s) ELSE slots[s]]
    /\ status' = Outcome(Processing, "aborted")
    /\ EndDecode
    /\ UNCHANGED <<params, clean_kv_cache, prev_prompt, cur>>

-----------------------------------------------------------------------------
(* init(); unless a request comes early, the first update_slots() finds all
   slots idle and clears the cache *)
Init ==
    /\ params \in Params
    /\ slots = [s \in Slot |-> EmptySlot]
    /\ cells = {} /\ clean_kv_cache = params.early
    /\ status = [r \in Request |-> "new"]
    /\ pc = "loop" /\ prev_prompt = FALSE
    /\ cur = 1 /\ batch = <<>> /\ at = 0 /\ nb = n_batch /\ defrag_tried = FALSE

MainLoop ==
    \/ \E r \in Request : Dispatch(r)
    \/ ReleaseSlots \/ Heartbeat
    \/ context_shift
    \/ add_sampled_tokens \/ SkipSlot \/ FirstLook \/ AddPromptTokens \/ BatchDone
    \/ DecodeChunk \/ DecodeNoRoom \/ DecodeAborted

Next == MainLoop \/ \E r \in Request : Arrive(r) \/ Cancel(r)

Spec == Init /\ [][Next]_vars

(* The main thread never stops; nobody has to ask or to cancel *)
FairSpec == Spec /\ WF_vars(MainLoop)

-----------------------------------------------------------------------------
(* Properties *)

Outcomes == {"answered", "error", "failed", "aborted", "cancelled"}

(* Types of the slots and of the ring: a slot has a task exactly while it is
   processing, no slot outgrows the ring, and the ring never holds more cells
   than it has. *)
TypeOK ==
    /\ params \in Params
    /\ slots \in [Slot -> [state : SlotState, task : Request \cup {NoRequest},
                           prompt : Nat, ticked : BOOLEAN, n_past : 0 .. n_ctx,
                           cache : 0 .. n_ctx, n_decoded : 0 .. MaxGen]]
    /\ \A s \in Slot : is_processing(slots[s]) <=> slots[s].task # NoRequest
    /\ \A x \in cells : x.seq \in Slot /\ x.pos \in 0 .. n_ctx - 1 /\ x.copy \in Nat
    /\ Cardinality(cells) <= n_ctx
    /\ clean_kv_cache \in BOOLEAN /\ prev_prompt \in BOOLEAN /\ defrag_tried \in BOOLEAN
    /\ status \in [Request -> {"new", "queued", "deferred", "running"} \cup Outcomes]
    /\ pc \in {"loop", "shift", "batch", "prompt", "decode"} /\ cur \in 1 .. n_parallel + 1
    /\ at \in Nat /\ nb \in 1 .. n_batch

(* The cached positions that may be without a cell: the first, once a decode has
   been aborted before the turn of some slot came. *)
Unplaced == IF n_parallel > 1 /\ \E r \in Request : status[r] = "aborted" THEN {0} ELSE {}

(* Between two batches each token a slot believes cached has exactly one cell, but
   perhaps the first after an abort, and the slot has no other: what cache_tokens
   says may be reused was computed, and what admission counts as reclaimable is
   there. *)
OneCellPerToken ==
    pc \notin {"prompt", "decode"} =>
        \A s \in Slot : \E lost \in SUBSET Unplaced : CellsOf(cells, s) =
            {[seq |-> s, pos |-> p, copy |-> 0] : p \in (0 .. slots[s].cache - 1) \ lost}

(* A request for which an empty ring has room is never ended by a full one: the
   ring was promised to it, whoever else is admitted or generates. *)
AdmittedNeverFails ==
    \A r \in Request : status[r] = "failed" => Rejected(r)

(* A request in progress loses cells only to the context shift of the deepest
   slot: neither reclaiming nor another slot's new prompt takes any. *)
LiveSequencesKept ==
    [][\A s \in Slot :
        \/ slots[s].state # "PROC" \/ slots'[s].state # "PROC"
        \/ slots[s].task # slots'[s].task
        \/ CellsOf(cells, s) \subseteq cells'
        \/ /\ pc = "shift" /\ params.ctx_shift
           /\ \A t \in Slot : slots[t].state = "PROC" => slots[t].n_past <= slots[s].n_past]_vars

(* Whoever has asked is answered, refused or cancelled: a request deferred for
   want of cells is tried again, and no sequence of shifts and retries is endless. *)
EveryRequestEnds ==
    \A r \in Request : status[r] = "queued" ~> status[r] \in Outcomes
=============================================================================
