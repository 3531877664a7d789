# A verification project for pxq_llama.cpp

pxq_llama.cpp is a fork of ik_llama.cpp: an LLM inference engine (`src/src`, `src/ggml`),
the helper library its tools share (`src/common`) and an HTTP server that runs many
requests over one model context (`src/examples/server`). This directory holds TLA+ models
of the parts of it that carry its own concurrency and state-machine logic, the TLC
configurations that check them on small instances, and TLAPS proofs.

## Inventory

| Component | State it keeps | Operations | What is hard about it | What makes it correct |
|---|---|---|---|---|
| task queue and main loop, `server-queue.cpp` | `queue_tasks`, `queue_tasks_deferred`, next id, `running` | post, defer, cancel clean-up, slot-changed, pump, terminate | tasks posted by HTTP threads while the loop holds one in hand; deferred tasks that nothing revives; shutdown | no task lost or run twice; every task leaves; terminate ends the loop |
| response queue, `server-queue.cpp` | `waiting_task_ids`, two result queues | add/remove waiting id, send, recv, recv with timeout | a result sent before its reader registered is dropped; two queues for two kinds of reader | whoever waits is answered, once, in the queue he reads |
| HTTP handlers, `server.cpp` | per request: posted ids, received count, cancelled | post, wait, disconnect, stop, slot actions | disconnect racing completion; process-global decode stop flag | a disconnect ends the work for that client and nobody else's |
| slots and the tick, `server-context.cpp` | per slot: state, command, id_task, task, cached tokens, n_past | launch, cancel, release, prompt and generation batches, decode retry, error unwind | release must be idempotent; unwind must touch only slots of the failed decode; prompt/generation alternation | no silent release; no starvation |
| shared KV ring admission, `server-context.cpp` | ring occupancy, promises to admitted slots | admit, reclaim, defer | several requests admitted in one tick must not overrun the ring; a parked task must be retried | an admitted request finds its cells |
| reasoning budget, `reasoning-budget.cpp` | state machine, two tag matchers, remaining budget, forced position | accept, apply, init with prefill | off-by-one at exhaustion, UTF-8 boundaries, re-arming, overlapping tags, rewinds | the budget is kept; the block is closed by the forced sequence |
| MoE expert prefetch, `ggml-moe-prefetch.cpp` | job queue, tickets (epoch, pending, read chunks), worker pool, mappings | enqueue, wait, cold, new epoch, replace the pool | worker completion order vs the waiter's view; queue limit; a pool replaced while calls use it | wait returns when the tensor has arrived and not before; every call returns; no pool is freed under a call |
| KV cache, `llama.cpp` | cells (pos, delta, src, seq ids), head, used, n, has_shift; a second, window-sized cache for sliding layers | find_slot, seq_rm/cp/keep/add/div, clear, K-shift, defrag, restore, eviction | lazily applied shifts and copies; head hints; eviction between sequences of different length; two caches that must stay in step | a sequence's tokens are where the caller put them, rotated to their positions and seen by attention |
| graph allocator, `ggml-alloc.c` | hash of tensors (children, views, offset, allocated), free blocks, the remembered plan | plan, in-place reuse, free, needs_realloc, allocate by the plan | memory is reused while views of it live; a plan is used for other graphs than the one it was made for | a node reads what its sources computed; outputs survive; free and live memory tile |
| log worker, `log.cpp` | ring of entries, head, tail, running, the file | add, grow, pause, resume, set_file, destroy | the ring grows while the worker reads; pausing joins a thread through the queue it empties | nothing lost, doubled or reordered; a message goes to the file that was open |
| prompt cache and checkpoints, `server-task.cpp`, `server-context.cpp` | saved prompts, limits in bytes and tokens | save, load, evict | eviction limits, stale checkpoints | limits kept; what is loaded is a prefix of what is asked |
| sequence decomposition, `pxa-seq-decomp.h` | none (pure) | pxa_decompose_seqs | contiguity and position checks | equals its definition |

`PROJECT.json` lists the remaining components and why they are left out, and the hazards
of the code at the lines where they bite.

How they interact: HTTP worker threads (cpp-httplib) parse a request, register its task ids
with the response queue, post tasks to the task queue and block in `recv`. One main thread
runs `start_loop`: it pops tasks and hands each to `process_single_task` (launch on a slot,
cancel, slot actions, metrics), then calls `update_slots` (one tick: releases, a batch from
the slots that have work, `llama_decode`, sampling, results), and sleeps when there is
nothing to do. Results go back through the response queue. A worker whose client has gone
posts CANCEL tasks and may set the process-global flag that makes `llama_decode` stop.

## Modules

| Module | Models |
|---|---|
| `ServerQueue` | what the two queues hold and what their operations do to them (`server-queue.cpp`) |
| `ServerLoop` | the main loop, the dispatch of tasks, the tick seen per slot, and the worker threads; composes the queue with slots and clients |
| `MCServerLoop` | small servers for TLC |
| `ServerLoop_proofs` | lemmas about the queue operations; types and slot invariant of `ServerLoop`; a task is in one place; what becomes of a task: one answer, no silent release, nobody left waiting, nothing left behind |
| `KvRing`, `MCKvRing`, `KvRing_proofs` | the shared KV ring: admission, promises, reclaiming, context shift, building the batch and the decode loop with its retries |
| `ReasoningBudget`, `MCReasoningBudget`, `ReasoningBudget_proofs` | the reasoning-budget sampler as `sampling.cpp` and the server drive it |
| `KvMap` | what a KV cache promises: a map from sequence and position to token |
| `KvCells` | one `llama_kv_cache`: its cells and what every internal function does to them |
| `KvContext`, `MCKvContext` | the calls of `llama.h` on both caches of a context; implements `KvMap` |
| `KvContext_proofs` | what holds in each cache: the counter, the rotation of the rows, defragmentation |
| `KvPair_proofs` | what holds between the two caches, that the cache implements `KvMap`, and that the window is in the sliding cache |
| `LogFifo` | what the log promises: a queue of messages |
| `LogWorker`, `MCLogWorker`, `LogWorker_proofs` | the asynchronous log; implements `LogFifo` |
| `MoePrefetch`, `MCMoePrefetch`, `MoePrefetch_proofs` | the prefetch pool, its workers, the threads that compute graphs and the one that replaces the pool |
| `GraphAlloc`, `MCGraphAlloc` | the graph allocator for one buffer, and the computation on the memory it hands out |
| `GraphAlloc_proofs` | lemmas about the free list and the counts of readers; all five invariants for any graphs |

### ServerLoop

*State.* The fields of `server_queue`, `server_response` and, per slot, of `server_slot`
keep their names. `loop`, `hand` and `todo` are the program counter and the locals of the
main thread; `pc`, `left`, `received_count`, `streaming` those of the workers. `got` and
`n_terminal` are history variables that no guard reads. Task ids are the names
of the tasks: the counter they come from never repeats. A prompt is a number of chunks and
a generation a number of tokens, both nondeterministic up to a bound.

*Atomicity.* A step is what a thread does between two points where another can see or
change shared state. `mutex_tasks` is a variable because the vector `post()` holds it over a
loop; other critical sections are single steps. The tick is split at its head, before and
after `llama_decode`, and after each slot's results, because workers read slots without a
lock (`cancel_active_decode`) and the stop flag is polled inside `llama_decode`.

*Actions and code.* `PopTask`, `WaitForTask`, `Heartbeat`, `Wake` are the parts of
`start_loop`; `Process*` the branches of `process_single_task`; `UpdateSlots`, `BatchEnds`,
`BatchReady`, `Decode*`, `Unwind*` the parts of `update_slots` and `process_batch_tokens`;
`AddWaiting` to `PostCancel` the life of one HTTP request; `terminate` the SIGINT handler.
Metrics, health and slot listing are one kind of request; save, restore, erase, LoRA and
control vectors another.

*Abstracted.* Which slots are in a batch is any non-empty set of slots with work, which
covers every alternation of prompts and generations, and splitting and retrying of a batch.
Shared-ring admission may defer whenever a slot is not available. Slot choice by prompt
similarity is any available slot. System prompts, context shifts, checkpoints and
speculation do not change where tasks and results are.

### KvRing

*State.* Per slot its life cycle (IDLE, LOAD, PROC, RELEASE stand for the pairs of state and
command), the length of its prompt, `n_past`, the number of cached tokens and of generated
ones; `cells` is the set of cells in use, each with its sequence and position (and a `copy`
number, because a retry may give a position a second cell). `pc`, `cur`, `at`, `nb` and
`defrag_tried` are where `update_slots`, `batch_pending_prompt` and `process_batch_tokens`
are. `params` is how the server was started and what it will be asked, chosen in `Init`.

*Actions and code.* `Dispatch` is `process_single_task` for a completion with
`kv_unified_admit` and `kv_unified_reclaim_idle`; `ReleaseSlots` the head of `update_slots`;
`Heartbeat` the pump's `on_slot_available`; `context_shift` and `add_sampled_tokens` the
functions of these names; `FirstLook`, `AddPromptTokens` and `SkipSlot` what
`batch_pending_prompt` does with one slot; `DecodeChunk`, `DecodeNoRoom` and `DecodeAborted`
one call of `llama_decode` by its result. All of it runs on one thread, so a step may be as
long as a function; `Arrive` and `Cancel` are possible between ticks only, where the loop
takes them from its queue, and an abort at every ubatch.

*Abstracted.* Tokens have no contents: what a prompt has in common with a cache is a choice
from `Reuse`. Which free cells `find_slot` takes is left out, but not that they must be in one
piece: more than `Contiguous` cells may be refused although they are free, which covers
every fragmentation and every incomplete defragmentation. Which idle slot is the oldest, and
which available slot a request gets, are choices. Left out: `id_slot`, `cache_prompt =
false`, self-extend, system prompts, multimodal prompts, speculation, checkpoints, the
prompt cache in RAM, and batches of embeddings.

### ReasoningBudget

One step is one round of apply, sample, accept, or a rewind by the server (a string ban),
which takes the last tokens back and leaves the sampler as it is. A token is a model value with a sequence of bytes,
and a byte is 0 (continuation) or the length 1 to 4 it announces: all that
`utf8_is_complete` looks at. A control token has no bytes: `common_token_to_piece` leaves its text out. `text` is the reply so far, `block` a history of the tokens
counted in the open block, `rewinds` the number of rewinds. The properties about forcing
(`ForcedAtCharBoundary`, `ForcedSequenceEmitted`, `OpenedByStartTag`) are claimed for replies
without a rewind, which makes a gap in a forced sequence or a tag.

### KvContext

*State.* `kv_self` and `kv_swa` are records with the fields of `llama_kv_cache` (`cells`,
`size`, `head`, `used`, `n`, `has_shift`, `do_defrag`). A cell has `pos`, `delta`, `src` and
its sequence ids, and its row of the K tensor: which token is stored and to which position
it is rotated. The row is what the caches are for, and is changed only where the
code runs a graph (decode, K-shift, defragmentation, copying of states).

*Actions and code.* Each action is a call of `llama.h` under its name, on both caches where
the code forwards it. `llama_decode` makes the whole journey of a ubatch: pending updates,
eviction from the sliding cache, `find_slot` in either, the roll-back of one when the other
is full, and the extent `n`. `ContextShift` is the pair `seq_rm`, `seq_add` the server and
`main` make. A context is used by one thread, so a step is a call.

*The search.* `FirstSlot` and `GaveUpAt` say in one line where the loop of `find_slot` ends.
The assumption `ScanAgrees` of `MCKvContext` compares them with the loop itself, written as
it is in the code, for all caches of up to five cells.

*Abstracted.* One ubatch per decode, of one sequence. Callers do what the server does: a
sequence goes on at the position after its last, is copied as a whole to an empty one, is
shifted where it shares no cell and there is room. States are restored when no shift is
pending and without the sliding cache. Truncations go no further back than the sliding
cache reaches, unless `DeepRewinds` is set. Models whose cache cannot be shifted (MLA: `get_can_shift` is
false and an update with a shift pending returns 1, `llama.cpp:7817`) are left out. With a sliding cache positions are moved by
context shifts only, unless `SelfExtend` is set: besides self-extend no caller of `seq_add` makes
another shift, and none divides.

*Refinement.* `ImplementsKvMap` maps the occupied cells to the entries (sequence, position,
token) of `KvMap`, in which a call either does what its name says or is refused and changes
nothing. K-shift, defragmentation and failed searches are stutters there.

### LogWorker

The mutex of `common_log` makes `add`, the worker's `Take` and the push of the end marker
single steps; printing to the console and to the file are separate, because they happen
outside it. `Pause` (for `pause`, `set_file`, `set_colors` and the destructor, told apart by
`why`), `Joined` and `resume` are the owner's steps; the header calls these operations not
thread-safe, so there is one owner. `ImplementsLogFifo` maps the ring, the entry in the
worker's hand and the prints to a queue of accepted messages.

### MoePrefetch

A critical section is a step, and so is each atomic access outside of one: `Pop`, `Read`,
`Record`, `Exit` are a worker's; `IsMapped`, `enqueue_ranges`, `WaitFind`, `WaitCheck`,
`Cold` those of a thread that computes graphs; `set_n_threads`, `Stop`, `Join`, `Start`
those of one that replaces the pool. The `shared_ptr` to the pool is the set of threads
that hold one: the last to let go runs the destructor (`LastOwner`, `Release`). What
`mincore` and `madvise` answer is a choice.

### GraphAlloc

A graph is built node by node (`AddNode`), planned, and computed (`Compute`) on a memory that
remembers whose value every unit holds. Planning is the loop of `ggml_gallocr_alloc_graph_impl`
in steps: `alloc_graph` clears the hash values and counts readers and views (`Begin`), `PlanLeaf`
places one input, `PlanNode` one node (`allocate_node`: in the memory of a parent, `TakeOver`, or
from the free blocks, `Place`), `UpdateParents` takes back one reading of one parent and frees
what nobody reads any more, `EndPlan` writes down where everything went and grows the buffer.
`NextGraph` comes with the same wiring and its sizes rescaled by one increasing function (equal sizes
stay equal, as when a batch is longer or shorter); that the buffer cannot be allocated is left out
(`ggml-alloc.c:772`: the plan is then that of a graph whose buffer is gone, and the caller is told);
`needs_realloc` decides whether the old
plan serves. The free blocks and the best fit are those of the code, its merging of neighbours
included. Sizes are in units of the alignment. The code's loop that allocates the parents of a
node first never finds one to allocate: inputs were placed before, and a parent that is still
read has its memory. The array of free blocks has no end here (the code asserts that 256 are
enough).

## Runs

Passing:

| Run | Checks |
|---|---|
| `loop` | a completion, a stream whose client may leave and a metrics request over two slots of a shared ring, with aborted and failed decodes: types, slot invariant, `TaskInOnePlace`, `NobodyWaitsForNothing`, `OneTerminal`, `NothingLeftBehind`, `NoSilentRelease` |
| `loop_live` | two requests for one slot, with SIGINT at any time: a connected client is answered (`ConnectedEventuallyAnswered`), and `start_loop` returns after SIGINT (`ShutdownEnds`) |
| `loop_drain` | a task that can never be served keeps the deferred queue busy, next to another of the same batch and a slot action: every other task leaves, its client gone or not (`EveryTaskLeaves`) |
| `kv` | three requests over two slots of a ring of 64 cells, with and without context shift, on plain and recurrent models, with cancels and aborts: cache and cells agree, but for the first token of a slot whose turn an aborted decode cut off (`OneCellPerToken`), admission keeps its promise (`AdmittedNeverFails`), nobody takes a live sequence's cells (`LiveSequencesKept`), everyone is answered (`EveryRequestEnds`) |
| `budget` | the accounting, also when a token is taken back (`BudgetAccounting`, `OverBudgetOnlyForUtf8`); forcing starts between characters, or behind a control token (`ForcedAtCharBoundary`), emits the whole sequence, is entered only through the whole tag |
| `kv_cache` | two sequences in four cells with every operation: the cache implements the map (`ImplementsKvMap`), `used` is exact (`UsedExact`), every row is rotated to its cell's position or has the difference pending (`RowsAtTheirPositions`), a defragmentation leaves no hole below its limit (`DefragCompacts`) |
| `kv_swa` | the same with a sliding cache of three cells: both caches agree on which tokens exist (`CachesAgree`), what the next query attends to was not evicted (`WindowResident`) and is inside the extent (`SlidingInView`) |
| `moe` | a thread that computes graphs and one that replaces the pool, two workers: tickets count what is outstanding (`PendingExact`), `wait` returns when nothing of the tensor is (`WaitedForAll`) and does return (`CallsReturn`), no pool goes under a call (`PoolOutlivesCalls`) |
| `log` | six messages through a ring of two that grows twice, with pauses, files and the end whenever two entries are free, so that the end marker does not fill the ring: the log implements the queue (`ImplementsLogFifo`), a message goes to the file open when it was logged (`EachToItsFile`), a pause returns (`PauseReturns`) |
| `alloc` | every graph of an input and three nodes, twice, the second time with the sizes rescaled: no node reads memory that was given away (`ReadsIntact`), outputs survive (`OutputsKept`), nothing lies outside the buffer (`InsideBuffer`), free and live blocks tile (`MemoryTiled`), what is not read any more is free (`NothingLeaks`) |

Each of the following shows what a comment says and the code does not do; the findings in
`PROJECT.json` quote the comment.

| Run | Shows |
|---|---|
| `loop_register` | a slot action is posted before its id is registered: its answer can be dropped |
| `kv_hidden` | the extent of attention in `kv_self` is found by looking at every pad-th cell; after a sequence at the front is removed, the cells of another can lie beyond it, and its next token does not see them |

The models also show the following. Where a definition or a constant is named, giving it
that value (or checking that property) in the configuration of the run reproduces it.

- server queues (`ServerLoop`): the error of a slot action is queued where its client does
  not look (`ResultsWhereRead`; `server-context.cpp:3372`, `server-queue.h:143`); a task in
  the loop's hand escapes its CANCEL and later runs for nobody (`NoGhost`;
  `server-queue.cpp:39`, whose comment at line 28 speaks of ghosts); a completion for a slot that does
  not exist is deferred for ever (`NoStarvation` with `IdSlot <- Nowhere`;
  `server-context.cpp:3205`, `server-queue.h:40`);
- reasoning budget: whether a character is finished is asked of the last token alone, and the empty piece
  of a control token counts as finished (`reasoning-budget.cpp:90`, `unicode.cpp:73`). When the budget
  runs out on a control token behind the first byte of a character, or one comes while the rest of the
  character is waited for, the forced message begins inside the character;
  `ForcedAtCharBoundary` without its second disjunct fails in four tokens in the run `budget`;
- a stream whose first result is already the last (an empty prompt) waits for another until
  its client leaves (`server.cpp:1781`);
- shared ring (`KvRing`): `llama_kv_cache_seq_pos_max` answers 0 for a sequence without cells, the same as for one
  with a cell at position 0 (`llama.cpp:2389`; `llama.h:1051` speaks of the largest position present).
  The unwinding of an aborted decode keeps the tokens up to that position
  (`server-context.cpp:5869`), so a slot whose prompt was in the batch but whose turn had not come keeps one
  cached token that was never computed; the next prompt that begins with this token goes on from
  position 1 without it. With `Unplaced == {}` the run `kv` shows it
  (`OneCellPerToken`); with one slot it cannot happen, because what was decoded was of that slot;
- shared ring (`KvRing`): a prompt longer than the ring is launched although admission
  rejects it, and with context shift it takes cells promised to another request
  (`Params <- Overlong`, `AdmittedNeverFails`; `server-context.cpp:3239`); cutting such a
  prompt removes a block from the slot's cache without moving the cells after it
  (`OneCellPerToken`; `server-context.cpp:3732`);
- a request that comes before the first idle tick is served on a cache that is cleared at
  the next idle tick, while the slots keep their `cache_tokens` (`server-context.cpp:3892`;
  `early = TRUE` in `KvRing`);
- a chunk retried after some of its ubatches were placed gives positions a second cell
  (`n_ubatch < n_batch` and a fragmented ring);
- the forward-progress reserve does not cover what other slots generate while a prompt is
  taken in several batches (`n_batch = 16`, generations of 8 tokens, prompts of 18, 42 and
  43 on 64 cells): an admitted request can then fail, and its unwinding leaves cached
  tokens without cells. Nor, on a small ring with many slots, what the other slots generate
  in one tick: with `n_parallel = 4` on 64 cells the reserve is 1 (`server-context.cpp:515`); when three prompts
  of 5 tokens have generated two more than their reserve, 43 cells are free and a prompt of 42 is
  admitted exactly, but the next tick needs 45 cells, and all four requests fail (`AdmittedNeverFails`).
  `context_shift`, which might make room, looks for it before the prompt is in the batch. A
  reserve below the number of the other slots (`n_ctx` below about 16 times the square of
  `n_parallel`, as with 64 slots on 32768 cells) is where this can happen; the two slots of `kv` do not;
- KV cache: with `DeepRewinds = TRUE` a truncation behind everything the sliding cache still
  holds passes the coverage check, which takes the last position from that cache itself
  (`llama.cpp:1031`), and `WindowResident` fails; with `SelfExtend = TRUE` a shift or a
  division (`server-context.cpp:5123`), after which nothing checks the coverage, brings tokens into
  reach that were evicted, and `WindowResident` fails after three decodes and a division (`kv_swa` with that one
  constant changed): arming `PXA_SWA_KV` looks at the model (`llama.cpp:9133`), not at
  `ga_n`; with `hybrid = TRUE` `seq_cp` stamps a
  position on the cell whose number is the destination sequence (`llama.cpp:2267`), which may be another's, and
  `RowsAtTheirPositions` fails. Outside the calls the model makes: a state restored while a
  shift is pending leaves the old differences on the restored cells; the server ignores that
  `seq_rm` may refuse (`server-context.cpp:3741`); `seq_add` of a range that is shared moves it for every sharer;
- log: with `PauseOnFull = TRUE`, a pause that finds one entry free fills the ring, which the
  worker takes for an empty one: the messages are lost and the join never returns
  (`PauseReturns`; `log.cpp:321`);
- prefetch: a chunk read in one sweep can be recorded for the next, whose `cold` then drops
  it (`OnlyThisSweep`; `ggml-moe-prefetch.cpp:156`); with two threads that compute graphs an
  epoch read late can set a ticket back;
- allocator: `needs_realloc` compares numbers and sizes only, so a graph of the same shape
  with other wiring runs on a plan that is not its own (`NewTopology = TRUE`, `ReadsIntact`;
  `ggml-alloc.c:840`, while `ggml-alloc.h:63` promises automatic reallocation if the topology
  changes). The scheduler tries the old plan first (`ggml-backend.cpp:2000`) and only looks
  whether a tensor changed its backend. An output flag on a view does not protect the memory
  it views;
- allocator: `needs_realloc` looks at the inputs only as sources of nodes, never at
  `leaf_allocs`. An input that no node reads (`ggml-alloc.c:571` says that there may be some)
  can come back larger without a new plan and is then written over its neighbour
  (`UnreadLeafs = TRUE`, two inputs, `ReadsIntact`); in a debug build the assertion of
  `ggml_gallocr_init_tensor` (`ggml-alloc.c:790`) fires.

`kv` therefore claims its properties for prompts that fit one batch and one ubatch, and for
a reserve of at least two cells for every other slot; `kv_cache` for caches that are not
hybrid, and `kv_swa` for truncations inside the window.

Every module has a type invariant. It is a property of the runs `loop` and `budget`; in the
other modules `TypeOK` says what the variables hold, and a run of the same configuration with
`INVARIANT TypeOK` checks it. It is proved for `ServerLoop`, `ReasoningBudget` and
`MoePrefetch`, and is part of the inductive invariants of `LogWorker` and `KvContext`.

*Bounds.* `loop`: one token beyond the prompt and no further prompt chunks. `loop_live`:
one more chunk and one more token, so that a request has to be scheduled several times.
`loop_drain`: the same with one slot and three tasks. Every hazard listed needs at most two
requests (one that is hurt and one that hurts) and, for unwinds over several slots, two
slots. `budget` uses texts of up to seven tokens with budget 2: a tag, a full block and the
forced sequence fit, or a block that ends early and a second one up to its budget. `kv`: 64 cells are the smallest ring on which two
slots have a reserve of two cells each (16 cells per slot and reserved cell); the prompt
lengths are chosen so that two requests fill the ring, a third must wait or reclaim, one
alone fills it, and one is over-long; three generated tokens bring the ring over its margin.
`kv_cache`: four cells, batches of up to two and two further calls beside any number of
decodes and truncations make every fragmentation in which a search must wrap, fail, or be
helped by a defragmentation; `max_moves` 1 makes an incomplete one. `kv_swa`: window 2,
guard 1 and three cells, one fewer than the other cache, so that eviction is needed, and the
sliding cache fills before the other. `kv_hidden`: padding 2, so that a cell can lie between
two that are looked at (in `kv_cache` the padding is the whole cache and hides nothing).
`moe`: two chunks and a queue limit of one make lookahead be refused; two epochs make tickets stale;
two pools are one replacement. `log`: with two entries, the ring grows at the second and at
the fourth message, wrapped and not. `alloc`: three nodes are enough for a view, its source
being freed and a third that would overwrite it; two sizes make blocks that fit exactly, with
rest, or not; two graphs make one that reuses a plan.

*Fairness.* Weak fairness of the main loop as a whole and of each worker once its request
has begun: each is a thread that blocks only where its action is disabled. Starting a
request, disconnecting and SIGINT are not fair. Nothing forces an individual branch: a
decode need never fail or be aborted. In `KvRing` weak fairness of the main loop alone: one
thread, which always has a step unless it sleeps. In `LogWorker` weak fairness of the worker
thread and of the return from join, in `MoePrefetch` of each worker and of each thread that is
inside a call; nothing makes anyone log, enqueue or replace a pool.

*Deadlock* is checked in `moe`, where threads wait for each other on three mutexes and two
condition variables and someone always has a call to make. It is not checked elsewhere: a
server with no more requests (the model's clients ask once) sleeps, a context is not used
any more, a log is freed, a reply ends, and the last graph is computed.

## Proofs

All theorems hold for every value of the constants: any number of clients, tasks, slots,
threads, cells and messages. What they assume is the `ASSUME` of the module, which TLC
evaluates in every run, and the conditions named below.

| Theorem | States | Inductive invariant |
|---|---|---|
| `ServerLoop_proofs!TypeCorrect`, `TypesKept` | `TypeOK`, `SlotsOK` | their conjunction, `SlotInv` |
| `ServerLoop_proofs!NoTaskTwice` | `TaskInOnePlace` | `PlaceInv` |
| `ServerLoop_proofs!WhoeverWaitsWillHear` | `NobodyWaitsForNothing` | `AnswerInv` |
| `ServerLoop_proofs!ReleasesAnnounced` | `NoSilentRelease` | `AnswerInv` |
| `ServerLoop_proofs!OneResultEach` | `OneTerminal` | `TerminalInv` |
| `ServerLoop_proofs!QueuesEmptied` | `NothingLeftBehind` | `TerminalInv` |
| `ReasoningBudget_proofs!TypeCorrect` | `TypeOK` | `Inv` |
| `ReasoningBudget_proofs!BudgetRespected`, `OverBudgetBounded` | `BudgetAccounting`, `OverBudgetOnlyForUtf8` | `BlockInv` |
| `ReasoningBudget_proofs!OpenedOnlyByTag` | `OpenedByStartTag` | `Inv`, `TagInv` |
| `ReasoningBudget_proofs!ForcedWhole` | `ForcedSequenceEmitted` | `Inv`, `TagInv`, `ForceInv` |
| `MoePrefetch_proofs!TypeCorrect`, `CountsExact`, `WaitComplete`, `PoolsOutliveCalls` | `TypeOK`, `PendingExact`, `WaitedForAll`, `PoolOutlivesCalls` | `IInv` |
| `LogWorker_proofs!RingInBounds`, `FilesKept` | the ends of the ring, `EachToItsFile` | `IInv` |
| `LogWorker_proofs!RingIsQueue` | the safety part of `ImplementsLogFifo` | `IInv` |
| `KvContext_proofs!UsedIsExact`, `RowsRotatedRight`, `Compacts` | `UsedExact`, `RowsAtTheirPositions`, `DefragCompacts` | `IInv` |
| `KvPair_proofs!NothingInOneOnly`, `WindowInView` | `CachesAgree`, `SlidingInView` | `PairInv` |
| `KvPair_proofs!CacheIsMap` | `ImplementsKvMap` | `IInv`, `Low` |
| `KvPair_proofs!WindowStays` | `WindowResident` | `WinInv` |
| `GraphAlloc_proofs!Tiles`, `LeakFree` | `MemoryTiled`, `NothingLeaks` | `AllocInv` |
| `GraphAlloc_proofs!ReadersSafe`, `OutputsSafe`, `Inside` | `ReadsIntact`, `OutputsKept`, `InsideBuffer` | `RunInv` |
| `KvRing_proofs!RequestsKeepCells`, `RingTypes` | `LiveSequencesKept`, `TypeOK` | `TypeInv` |
| `KvRing_proofs!TokensHaveCells`, `WholeBatchTokensHaveCells` | `OneCellPerToken` | `RingInv` |
| `KvRing_proofs!OneSlotNeverFails` | `OneCellPerToken`, `AdmittedNeverFails` for one slot | `RingInv` |

TLC finds each inductive invariant to hold on the configuration of the component's run.

*Server.* `SlotsOK` says that a slot has a live task exactly while it is processing, under
the id that results are sent to, and that the slots still to be decoded or unwound are
processing. `TypeOK` alone is not inductive, because the result queues are typed by task ids
and only `SlotsOK` says that the id a slot sends to is one.

`PlaceInv` adds `TaskInOnePlace` and `NotYetPosted`: the tasks a client has still to post are
nowhere in the server. Without it a post could add a task that is already there. Most steps
only take tasks away (`NothingNew`, lemma `Shrink`); deferring and the heartbeat's move back
have steps of their own (`DeferMoves`, `PlaceLoop`).

The proofs of what becomes of a task first classify every step of the main loop (`LoopSide`): it is quiet,
or one task ends with its result, or the target of a CANCEL leaves without one, or the
unwinding of a failed decode reaches a slot that has no task. `AnswerInv` says of every task
from the moment it is posted what `NobodyWaitsForNothing` says of a client in `recv`, for a
result may be there before its client comes to wait; and that a CANCEL in the server means
that its client has stopped waiting (`CancelsOfGone`), without which a CANCEL could take away
what somebody waits for. The waiters do not include the slot actions, whose
error goes to the other queue. `TerminalInv`
counts: a task with a result is not in the server nor about to be posted, its result is in
one queue or was received, and `received_count` is the number of its reader's received
results. Both theorems on it have the condition `kv_unified \/ ~DecodeMayFail` of their properties: with
separate caches a failed decode sends its error to every slot, idle ones too. They use
`RequestsAssumption` (a request makes finitely many tasks; `recv` reads for one).

*Reasoning budget.* For every vocabulary, tag, budget and number of rewinds of any length.
`BudgetAccounting` and `OverBudgetOnlyForUtf8` need each other: the token that exhausts the
budget is the budget-th of its block. `TagInv` says that the reply ends with the part of the
start tag the matcher has seen; that a restarted match is again the end of the reply is lemma
`AdvanceEnds`. `ForcedWhole` assumes `PromptFits`, that the generation prompt is no longer than
the start tag and the budget. The bound is sharp: nothing masks the tokens of the prompt, which
are fed through `accept`, so a prompt that runs on after its own block has exhausted the
budget advances the forced position without the forced tokens having been written. The run
`budget` is at the boundary (tag 2, budget 2, `MaxPrefill` 4).

*Shared ring.* For any number of cells, slots and requests, prompts of any length, batches and
ubatches of any size. `TypeInv` says of every slot how far its state lets `n_past` and the
cache go (a generating slot has room for one more token whenever a batch is built, which is what
`context_shift` is for), and that there are no more cells than the ring has. It is all that
`LiveSequencesKept` needs: the victims of a reclaim are idle. Both theorems assume `n_keep + 2 <= n_ctx`, so that
a prompt that fills the context can be cut in blocks of at least one token; the code asserts
that the cut succeeded (`server-context.cpp:4786`).

`RingInv` adds for `OneCellPerToken`: a task is on one slot only and that task is running
(`TaskInv`); the tokens of a slot in the batch are the last of those it believes cached, in
order and once each, and only a slot that processes has any (`BatchInv`); the cache of a slot that loads its
prompt is what it has loaded (`LoadInv`); and the cells are exactly those of the cached
tokens except what is still to be decoded (`Exact`). `Exact` is what a retry, a halved chunk or an abort must respect in the
middle of a batch, where the property itself says nothing. An abort needs the order of the
batch: the cells of what was placed are a prefix, so its last position tells how many there
are (`seq_pos_max`, which `UnwoundSlot` trusts). The one exception is `Unplaced`: a sequence of which nothing was placed
keeps its first token without a cell, for as long as it stays cached. It needs a second slot
whose tokens fill what was decoded, which is why `OneSlotNeverFails` has no exception.

The theorems on it say only as much as the code keeps. `Settled`: the cache is cleared before
the first request (`~params.early`), and no prompt is cut by `context_shift_prompt`. `NobodyFailed`: a decode that is given up
releases its slots without trimming what they believe cached. `RetryPlacesNothing`: when a
chunk is tried again, the attempt before it placed nothing; `WholeBatches` proves it for `n_batch <= n_ubatch`. Each
is needed: without it TLC finds the counterexample described above. `AdmittedNeverFails`
with several slots is not a theorem for the same kind of reason, for small rings.
With one slot it is: `context_shift` keeps one cell free for the next token and a
prompt is shorter than the context, so a chunk of one token always finds room
(`OneSlotRoom`), and `NobodyFailed` becomes part of the invariant.

*Prefetch.* `IInv` has the ownership of pools (a call holds a pool that is not stopped; who
joins a pool has stopped it; one thread at a time replaces the pool, and then there is none to
enter) and `PendingExact`. The types in it allow negative counts; that they are not negative
follows from `PendingExact`, since a ticket counts the jobs in the queue and in the workers'
hands (lemmas `AtTail`, `AtConcat`, `HandsTake`, `HandsGive`).

*Log.* `IInv` says that the entries in the worker's hands and in the ring, read from `head`
around, are the accepted and not yet printed messages in order, with the marker last, and that
what is not printed was accepted for the file that is open. `EachToItsFile` needs all of it:
the file changes only after the join, and the join means that the ring is empty.
`RingIsQueue` maps the ring to `Unwritten` and shows that every step is one of `LogFifo` or a
stutter; growth (`add` on a full ring, which unrolls it) is the hard case. All assume
`~PauseOnFull`: the end marker that fills the ring makes it look empty, and both theorems fail
(`log.cpp:321`, see the findings above).

*KV cache.* `IInv` says of each cache on its own (`Sound`): a cell has a position exactly when
it has an owner, its row with the pending difference is at its position, no difference
is pending unless `has_shift` says so, on free cells neither (a cell that is taken keeps its
old `delta`), and `used` counts the cells in use. The lemmas are one per internal function (`PlaceSound`,
`KShiftSound`, `DefragSound`, ...). `Compacts` also follows the moves: the holes filled are
those of the first `max_moves` blocks (`Filled`), and as many cells leave the end (`Left`).
`CachesAgree` is not inductive: a cell shared by two sequences could be
one cell in one cache and two in the other, and a shift then moves only one of them. `PairInv`
says that every cell of the sliding cache has a twin in the other with the same
position, owners and token. `CacheIsMap` is the refinement. What a cell says is the set `Tokens` of its entries, and the map is the
union of these (`HeldIn`), so that for each function it is enough to say what it does to one cell
(`RmHeld`, `CpHeld`, `AddHeld`, ...); a removal that finds a hole in the window is the removal of the whole
sequence, and a shift after it moves nothing. `Low`, that no position is beyond `MaxPos`, is
inductive with it: it is what makes the next position of a sequence the same in both.
The theorems assume `~hybrid`: in hybrid models `seq_cp` stamps a
position on a cell that may be another's, and they fail (see above). The others do not depend on
`DeepRewinds` and `SelfExtend`.

`WindowStays` says that the two caches agree on the window. It is proved on the maps
that the caches are (`HeldIn`), for which the proof of `CacheIsMap` has said what each function does.
`WinInv` adds that positions tell the tokens of a sequence apart (`Apart`): where a sequence is cut, it is
known of positions only that they are held (`CoverageHeld`), and they must be those of the same
tokens. The first position that a query of the batch can have is never after the one where its
sequence goes on (`RefPosBound`), so no eviction, with the guard or without, takes what is in
reach (`EvictKeepsReach`). A context shift is the subtle call (`WindowShifted`): a window
found without a hole (`CoverageOk`) shows that the removed block lay outside it, so what is below
the block is out of reach of the end that moved down to it. The theorem
assumes `~DeepRewinds` and `~SelfExtend`; with either it fails (see above).

*Graph allocator.* For graphs of any size, wiring and tensor sizes. Three layers. The free list:
what `tallocr_alloc` and `tallocr_free` do to a list that is sorted and has no touching blocks
(`Sorted`), in terms of the units that are free (`AllocFacts`, `FreeFacts`, the latter by the
cases of its merging: `NewBlock`, `GrownBack`, `GrownFront`). The last block always reaches the
end of memory (`EndsIn`), because a plan can use up no more than the sum of the sizes, which is why
`AllocAssumption` bounds that sum by `Limit`: without it best fit could return a block that is
too small. The plan: `PlanInv` says that the counters are the numbers of readings and views to
come (`Counted`, over `Rest` and `RestViews`), that a tensor without memory has no reader left
(`Dead`), and, what `ReadsIntact` needs, that when two placed tensors overlap the readers
of the earlier one come before the later one, or the later one is its only reader and works in place
(`Clash`). `Clash` is not implied by the tiling: it speaks of tensors that had the same memory
at different times. The computation: `RunInv` says the same of the remembered plan
(`PlanShares`), that the sizes of now fit in it (`Running`), and that a unit of a computed tensor
holds it unless a later tensor lies there (`Holds`). The theorems on `RunInv` assume
`~NewTopology` and `~UnreadLeafs`; with either they fail (see above). `Tiles` and `LeakFree`
assume nothing.

Where a proof needs the least element of a set of numbers it takes it from the
well-foundedness of `<` (`NatLessThanWellFounded`, `WFMin`), not by induction over
an operator, which the provers cannot instantiate.

*Only model-checked.* Liveness and ENABLED, which the prover does not handle
(`ConnectedEventuallyAnswered`, `ShutdownEnds`, `EveryTaskLeaves`, `EveryRequestEnds`,
`CallsReturn`, `PauseReturns`, and the fairness of `ImplementsLogFifo`). `ForcedAtCharBoundary` is
about what a fold over the bytes of the reply computes, for which induction over data would be
needed. That `FirstSlot` is what the loop of `find_slot` computes (`ScanAgrees`) likewise. The
proofs take it as the definition. `AdmittedNeverFails` is proved for one slot; for two it is checked
in `kv`: the promises of several slots are a sum (`kv_unified_cells_busy`), a fold over the slots
of which nothing can be proved without induction over data.

## Plan

1. The sizes of ring, batch and reserve for which `AdmittedNeverFails` holds with several slots.
2. Fairness between prompts and generations in `KvRing`.
3. `RequestReply`: each request gets at most one outcome; `ServerLoop` implements it.
4. Prompt cache and checkpoints with eviction; `SeqDecomp`; the conditions under which
   `llama.cpp` reuses a graph; the DSV4 cache; draft, verify and accept of `speculative.cpp`.

## Not modelled

Most of the repository's lines are kernels and quantisation (`ggml.c`, `ggml-quants.c`, the
CUDA, Vulkan and other backends), tables (`unicode-data.cpp`), the loading of weights and
the building of graphs for each architecture, image and audio encoders, chat templates,
grammars and JSON, converters, benches, the web UI and launch scripts: numerics and data
processing without shared or long-lived state, in which there are no interleavings to
explore and whose correctness is about values that a model of this kind would not have. The
map therefore stays a small share of all lines and covers the code that has state machines
and threads.

Of the parts that are modelled: the multitask list of `server_queue`, which nothing fills
(`split_multiprompt_task` has no caller); what the HTTP threads do after `start_loop` has
returned; purely recurrent caches and the checkpoints of hybrid ones; several compute
buffers and the linear allocator for weights; what log entries look like. Planned and not
yet there: the components the plan names.
