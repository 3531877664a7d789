---------------------------- MODULE MoePrefetch ----------------------------
(***************************************************************************)
(* The expert prefetch engine, ggml/src/ggml-moe-prefetch.cpp: a pool of   *)
(* workers reads chunks of expert weights ahead of the threads that        *)
(* compute graphs.  The engine is one per process; graph threads (one per  *)
(* context) enqueue chunks of a tensor, wait for a tensor, and let the     *)
(* pages that were only streamed through go cold; a thread that creates a  *)
(* context may replace the pool under their feet.                          *)
(*                                                                         *)
(* A critical section is one step, and so is each atomic access outside of *)
(* one.  Addresses are chunk numbers of a tensor; what mincore and madvise *)
(* answer is a choice.  Jobs and read chunks carry the epoch they were     *)
(* enqueued in, for the properties only.                                   *)
(***************************************************************************)
EXTENDS Integers, Sequences, FiniteSets

CONSTANTS
    Graphs,         \* threads that compute graphs
    Creators,       \* threads that create contexts, and so size the pool
    Tensors,        \* expert weight tensors
    NChunks,        \* chunks of GGML_MOE_PREFETCH_CHUNK bytes in a tensor
    Selections,     \* the sets of chunks a node's expert ids can select
    NWorkers,       \* largest pool asked for
    MaxQueue,       \* GGML_MOE_PREFETCH_MAX_QUEUE
    MaxEpoch,       \* bound: scheduler passes
    MaxPools        \* bound: pools created

ASSUME MoeAssumption ==
    /\ NChunks \in Nat \ {0} /\ NWorkers \in Nat \ {0} /\ MaxQueue \in Nat
    /\ MaxEpoch \in Nat \ {0} /\ MaxPools \in Nat \ {0}
    /\ Selections \subseteq SUBSET (1..NChunks)
    /\ IsFiniteSet(Graphs) /\ IsFiniteSet(Creators) /\ IsFiniteSet(Tensors)

VARIABLES
    pool,           \* prefetch_state::pool, a pool's number; 0 is none
    made,           \* pools created so far
    pool_mtx,       \* set while set_n_threads is inside its critical section
    epoch,          \* prefetch_state::epoch
    mappings,       \* tensors inside a registered mapping
    queue,          \* of each pool
    shutdown,       \* of each pool
    tickets,        \* of each pool and tensor
    workers,        \* of each pool
    th              \* the call each thread is in

vars == <<pool, made, pool_mtx, epoch, mappings, queue, shutdown, tickets, workers, th>>

Threads == Graphs \cup Creators
Pools   == 1..MaxPools
Chunks  == 1..NChunks

Job       == [w : Tensors, c : Chunks, ep : 1..MaxEpoch]
ReadChunk == [c : Chunks, ep : 1..MaxEpoch]
Ticket    == [pending : Nat, epoch : 0..MaxEpoch, track_reads : BOOLEAN,
              read_chunks : SUBSET ReadChunk]

NewTicket == [pending |-> 0, epoch |-> 0, track_reads |-> FALSE, read_chunks |-> {}]

(* A worker without a job: not started, waiting for work, or gone. *)
Off(pc) == [pc |-> pc]
Holding(pc, job, done_read, left) ==
    [pc |-> pc, job |-> job, done_read |-> done_read, left |-> left]

Idle == [pc |-> "idle", pool |-> 0]

Init ==
    /\ pool = 0 /\ made = 0 /\ pool_mtx = FALSE
    /\ epoch = 1
    /\ mappings = {}
    /\ queue = [p \in Pools |-> <<>>]
    /\ shutdown = [p \in Pools |-> FALSE]
    /\ tickets = [p \in Pools |-> [w \in Tensors |-> NewTicket]]
    /\ workers = [p \in Pools |-> [i \in 1..NWorkers |-> Off("none")]]
    /\ th = [t \in Threads |-> Idle]

-----------------------------------------------------------------------------
(* Workers: prefetch_pool::run.                                            *)

(* Wait for work and take the first job, or leave. *)
Pop(p, i) ==
    /\ workers[p][i].pc = "wait"
    /\ ~shutdown[p]
    /\ queue[p] # <<>>
    /\ workers' = [workers EXCEPT ![p][i] = Holding("read", Head(queue[p]), FALSE, 0)]
    /\ queue' = [queue EXCEPT ![p] = Tail(@)]
    /\ UNCHANGED <<pool, made, pool_mtx, epoch, mappings, shutdown, tickets, th>>

Exit(p, i) ==
    /\ workers[p][i].pc = "wait"
    /\ shutdown[p]
    /\ workers' = [workers EXCEPT ![p][i] = Off("gone")]
    /\ UNCHANGED <<pool, made, pool_mtx, epoch, mappings, queue, shutdown, tickets, th>>

(* Read the chunk, unless it is resident or the read fails, as it does     *)
(* once the mapping is gone; then count the job as done, before taking the *)
(* mutex.                                                                  *)
Read(p, i) ==
    /\ workers[p][i].pc = "read"
    /\ LET j == workers[p][i].job
       IN  /\ \E done_read \in IF j.w \in mappings THEN BOOLEAN ELSE {FALSE} :
                workers' = [workers EXCEPT ![p][i] =
                    Holding("record", j, done_read, tickets[p][j.w].pending)]
           /\ tickets' = [tickets EXCEPT ![p][j.w].pending = @ - 1]
    /\ UNCHANGED <<pool, made, pool_mtx, epoch, mappings, queue, shutdown, th>>

(* Mutant: the last job is the one that leaves -1. *)
Wakes_late(left) == left = 0

(* The job that brought pending to 0 wakes the waiters. *)
Wakes(left) == left = 1

(* cv_done.notify_all() *)
Woken(p) == [t \in Threads |->
    IF th[t].pc = "asleep" /\ th[t].pool = p THEN [th[t] EXCEPT !.pc = "check"] ELSE th[t]]

(* Under the mutex: note the chunk as read from storage, wake the waiters. *)
Record(p, i) ==
    /\ workers[p][i].pc = "record"
    /\ LET wk == workers[p][i]
           tk == tickets[p][wk.job.w]
       IN  /\ tickets' = IF wk.done_read /\ tk.track_reads
                THEN [tickets EXCEPT ![p][wk.job.w].read_chunks =
                        @ \cup {[c |-> wk.job.c, ep |-> wk.job.ep]}]
                ELSE tickets
           /\ th' = IF Wakes(wk.left) THEN Woken(p) ELSE th
    /\ workers' = [workers EXCEPT ![p][i] = Off("wait")]
    /\ UNCHANGED <<pool, made, pool_mtx, epoch, mappings, queue, shutdown>>

Worker(p, i) == Pop(p, i) \/ Exit(p, i) \/ Read(p, i) \/ Record(p, i)

-----------------------------------------------------------------------------
(* Life of a pool.  A thread inside a call holds a shared_ptr to the pool  *)
(* it looked up; the pool is stopped by whoever lets go of it last.        *)

Queued(p, w) == Cardinality({k \in DOMAIN queue[p] : queue[p][k].w = w})

(* Mutant: the jobs that are dropped stay counted. *)
Completed_none(p) == tickets[p]

(* The tickets of a pool whose queue is dropped. *)
Completed(p) == [w \in Tensors |-> [tickets[p][w] EXCEPT !.pending = @ - Queued(p, w)]]

(* prefetch_pool::stop up to the joins.  Nobody is asleep on cv_done then, *)
(* because a waiter holds the pool; the notify is kept all the same.       *)
Stop(p) ==
    /\ shutdown' = [shutdown EXCEPT ![p] = TRUE]
    /\ tickets' = [tickets EXCEPT ![p] = Completed(p)]
    /\ queue' = [queue EXCEPT ![p] = <<>>]

(* The workers have been joined, and the pool's memory is freed. *)
Freed(p) ==
    IF p = 0 THEN tickets
    ELSE [tickets EXCEPT ![p] = [w \in Tensors |-> NewTicket]]

AllGone(p) == \A i \in 1..NWorkers : workers[p][i].pc \in {"none", "gone"}

(* Mutant: the pool is stopped as soon as it has been replaced. *)
LastOwner_anyone(t, p) == TRUE

(* No other thread is inside a call on the pool. *)
LastOwner(t, p) == \A u \in Threads \ {t} : th[u].pool # p

(* A call ends and lets go of its pool. *)
Release(t) ==
    /\ th[t].pc = "release"
    /\ IF pool # th[t].pool /\ LastOwner(t, th[t].pool)
         THEN /\ Stop(th[t].pool)
              /\ th' = [Woken(th[t].pool) EXCEPT ![t] = [pc |-> "join", pool |-> th[t].pool]]
         ELSE /\ th' = [th EXCEPT ![t] = Idle]
              /\ UNCHANGED <<shutdown, tickets, queue>>
    /\ UNCHANGED <<pool, made, pool_mtx, epoch, mappings, workers>>

Join(t) ==
    /\ th[t].pc = "join"
    /\ AllGone(th[t].pool)
    /\ tickets' = Freed(th[t].pool)
    /\ th' = [th EXCEPT ![t] = Idle]
    /\ UNCHANGED <<pool, made, pool_mtx, epoch, mappings, queue, shutdown, workers>>

SizeOf(p) == Cardinality({i \in 1..NWorkers : workers[p][i].pc # "none"})

(* set_n_threads: keep a pool of the same size; otherwise let go of the    *)
(* old one, stopping it here if no call holds it, and start another.  Its  *)
(* only caller asks for one thread or more; on a kernel without            *)
(* MADV_POPULATE_READ there is never a pool.                               *)
set_n_threads(t, n) ==
    /\ th[t].pc = "idle"
    /\ ~pool_mtx
    /\ made < MaxPools
    /\ pool # 0 => SizeOf(pool) # n
    /\ pool_mtx' = TRUE
    /\ pool' = 0
    /\ LET stopping == pool # 0 /\ LastOwner(t, pool)
       IN  /\ IF stopping THEN Stop(pool) ELSE UNCHANGED <<shutdown, tickets, queue>>
           /\ th' = [th EXCEPT ![t] =
                [pc |-> "start", pool |-> IF stopping THEN pool ELSE 0, n |-> n]]
    /\ UNCHANGED <<made, epoch, mappings, workers>>

(* ... the old workers have been joined. *)
Start(t) ==
    /\ th[t].pc = "start"
    /\ th[t].pool # 0 => AllGone(th[t].pool)
    /\ pool' = made + 1
    /\ made' = made + 1
    /\ workers' = [workers EXCEPT ![made + 1] =
            [i \in 1..NWorkers |-> IF i <= th[t].n THEN Off("wait") ELSE Off("none")]]
    /\ tickets' = Freed(th[t].pool)
    /\ pool_mtx' = FALSE
    /\ th' = [th EXCEPT ![t] = Idle]
    /\ UNCHANGED <<epoch, mappings, queue, shutdown>>

-----------------------------------------------------------------------------
(* Calls of the graph threads.                                             *)

new_epoch(t) ==
    /\ th[t].pc = "idle"
    /\ epoch < MaxEpoch
    /\ epoch' = epoch + 1
    /\ UNCHANGED <<pool, made, pool_mtx, mappings, queue, shutdown, tickets, workers, th>>

(* Each call first copies the shared_ptr, under pool_mtx; without a pool   *)
(* it returns at once.                                                     *)
Enter(t, call) ==
    /\ th[t].pc = "idle"
    /\ ~pool_mtx
    /\ pool # 0
    /\ th' = [th EXCEPT ![t] = call]
    /\ UNCHANGED <<pool, made, pool_mtx, epoch, mappings, queue, shutdown, tickets, workers>>

(* The whole tensor, to be read when there is time ... *)
ggml_moe_prefetch_tensor(t, w) ==
    Enter(t, [pc |-> "mapped", pool |-> pool, w |-> w, sel |-> Chunks, urgent |-> FALSE])

(* ... or the chunks of the experts that were selected, before all others; *)
(* the kernel hook does the same.                                          *)
ggml_moe_prefetch_node(t, w, sel) ==
    Enter(t, [pc |-> "mapped", pool |-> pool, w |-> w, sel |-> sel, urgent |-> TRUE])

(* enqueue_ranges, before the pool's mutex: is the tensor mapped, and      *)
(* which pass is this?                                                     *)
IsMapped(t) ==
    /\ th[t].pc = "mapped"
    /\ th' = [th EXCEPT ![t] = IF @.w \in mappings
                THEN [pc |-> "enqueue", w |-> @.w, sel |-> @.sel, urgent |-> @.urgent,
                      pool |-> @.pool, ep |-> epoch]
                ELSE [pc |-> "release", pool |-> @.pool]]
    /\ UNCHANGED <<pool, made, pool_mtx, epoch, mappings, queue, shutdown, tickets, workers>>

(* The chunks of a selection as jobs, in address order: there is one such  *)
(* sequence.                                                               *)
JobsOf(call) ==
    LET Jobs == [w : {call.w}, c : call.sel, ep : {call.ep}]
    IN  {s \in [1..Cardinality(call.sel) -> Jobs] :
            \A k \in DOMAIN s : \A j \in 1..k-1 : s[j].c < s[k].c}

(* enqueue_ranges under the mutex: once per tensor and pass, lookahead     *)
(* only while the queue is short.                                          *)
enqueue_ranges(t) ==
    /\ th[t].pc = "enqueue"
    /\ LET call == th[t]
           p    == call.pool
           tk   == tickets[p][call.w]
       IN  \E jobs \in JobsOf(call) :
           IF \/ shutdown[p]
              \/ tk.epoch = call.ep
              \/ ~call.urgent /\ Len(queue[p]) > MaxQueue
             THEN UNCHANGED <<tickets, queue>>
             ELSE /\ tickets' = [tickets EXCEPT ![p][call.w] =
                        [pending     |-> tk.pending + Len(jobs),
                         epoch       |-> call.ep,
                         track_reads |-> ~call.urgent,
                         read_chunks |-> {}]]
                  /\ queue' = [queue EXCEPT ![p] =
                        IF call.urgent THEN jobs \o @ ELSE @ \o jobs]
    /\ th' = [th EXCEPT ![t] = [pc |-> "release", pool |-> @.pool]]
    /\ UNCHANGED <<pool, made, pool_mtx, epoch, mappings, shutdown, workers>>

(* wait: find the ticket and look at its count; if jobs are left, look     *)
(* again under the mutex, and sleep until notified.  No ticket is the same *)
(* as one with nothing pending.                                            *)
ggml_moe_prefetch_wait(t, w) == Enter(t, [pc |-> "find", pool |-> pool, w |-> w])

(* Mutant: a single job left is not waited for. *)
Arrived_early(p, w) == tickets[p][w].pending <= 1

Arrived(p, w) == tickets[p][w].pending <= 0

WaitFind(t) ==
    /\ th[t].pc = "find"
    /\ th' = [th EXCEPT ![t].pc = IF Arrived(th[t].pool, th[t].w) THEN "release" ELSE "check"]
    /\ UNCHANGED <<pool, made, pool_mtx, epoch, mappings, queue, shutdown, tickets, workers>>

WaitCheck(t) ==
    /\ th[t].pc = "check"
    /\ th' = [th EXCEPT ![t].pc =
                IF shutdown[th[t].pool] \/ Arrived(th[t].pool, th[t].w)
                THEN "release" ELSE "asleep"]
    /\ UNCHANGED <<pool, made, pool_mtx, epoch, mappings, queue, shutdown, tickets, workers>>

(* cold: take the read chunks of a tracked ticket, and madvise them. *)
ggml_moe_prefetch_cold(t, w) == Enter(t, [pc |-> "cold", pool |-> pool, w |-> w])

Cold(t) ==
    /\ th[t].pc = "cold"
    /\ LET p == th[t].pool
       IN  tickets' = IF tickets[p][th[t].w].track_reads
                      THEN [tickets EXCEPT ![p][th[t].w].read_chunks = {}]
                      ELSE tickets
    /\ th' = [th EXCEPT ![t] = [pc |-> "release", pool |-> @.pool]]
    /\ UNCHANGED <<pool, made, pool_mtx, epoch, mappings, queue, shutdown, workers>>

(* A model's mapping comes, and goes when no graph uses it any more; jobs  *)
(* for it may still be queued.                                             *)
register_mapping(w) ==
    /\ w \notin mappings
    /\ mappings' = mappings \cup {w}
    /\ UNCHANGED <<pool, made, pool_mtx, epoch, queue, shutdown, tickets, workers, th>>

unregister_mapping(w) ==
    /\ w \in mappings
    /\ \A t \in Threads : th[t].pc \in {"mapped", "enqueue", "find", "check", "asleep", "cold"}
                            => th[t].w # w
    /\ mappings' = mappings \ {w}
    /\ UNCHANGED <<pool, made, pool_mtx, epoch, queue, shutdown, tickets, workers, th>>

-----------------------------------------------------------------------------
Create(t) == \E n \in 1..NWorkers : set_n_threads(t, n)

Call(t) ==
    \/ new_epoch(t)
    \/ \E w \in Tensors :
         \/ ggml_moe_prefetch_tensor(t, w)
         \/ \E sel \in Selections : ggml_moe_prefetch_node(t, w, sel)
         \/ ggml_moe_prefetch_wait(t, w)
         \/ ggml_moe_prefetch_cold(t, w)

Proceed(t) ==
    \/ Start(t) \/ IsMapped(t) \/ enqueue_ranges(t)
    \/ WaitFind(t) \/ WaitCheck(t) \/ Cold(t)
    \/ Release(t) \/ Join(t)

Next ==
    \/ \E p \in Pools, i \in 1..NWorkers : Worker(p, i)
    \/ \E t \in Creators : Create(t)
    \/ \E t \in Graphs : Call(t)
    \/ \E t \in Threads : Proceed(t)
    \/ \E w \in Tensors : register_mapping(w) \/ unregister_mapping(w)

(* Threads run: a worker with something to do and a thread inside a call   *)
(* go on.  Nobody has to call anything.                                    *)
Spec ==
    /\ Init /\ [][Next]_vars
    /\ \A p \in Pools, i \in 1..NWorkers : WF_vars(Worker(p, i))
    /\ \A t \in Threads : WF_vars(Proceed(t))

-----------------------------------------------------------------------------
(* Types: a count of outstanding jobs is never negative, epochs and read   *)
(* chunks stay in range.                                                   *)
TypeOK ==
    /\ pool \in 0..made /\ made \in 0..MaxPools /\ pool_mtx \in BOOLEAN
    /\ epoch \in 1..MaxEpoch
    /\ mappings \subseteq Tensors
    /\ \A p \in Pools :
         /\ \A k \in DOMAIN queue[p] : queue[p][k] \in Job
         /\ \A w \in Tensors : tickets[p][w] \in Ticket
         /\ \A i \in 1..NWorkers : workers[p][i].pc \in {"none", "wait", "read", "record", "gone"}
    /\ shutdown \in [Pools -> BOOLEAN]
    /\ \A t \in Threads : th[t].pool \in 0..made

(* Jobs of a tensor that no worker has counted as done. *)
InHand(p, w) ==
    Cardinality({i \in 1..NWorkers : workers[p][i].pc = "read" /\ workers[p][i].job.w = w})

(* A ticket counts the jobs that are queued or in a worker's hands, no     *)
(* more and no less, through pops, urgent insertions, several epochs and   *)
(* the dropping of a whole queue by stop().                                *)
PendingExact ==
    \A p \in Pools, w \in Tensors :
        tickets[p][w].pending = Queued(p, w) + InHand(p, w)

(* "block until all pending prefetch jobs for tensor w are complete": when *)
(* wait() goes on, nothing that was enqueued for the tensor in its pool is *)
(* outstanding, although it looks at the count without the mutex first.    *)
WaitedForAll ==
    [][\A t \in Threads :
          /\ th[t].pc \in {"find", "check"}
          /\ th'[t].pc = "release"
          => Queued(th[t].pool, th[t].w) + InHand(th[t].pool, th[t].w) = 0]_vars

(* A pool is not shut down while a call is still inside it: replacing the  *)
(* pool leaves the old one to the calls that hold it, and only the last of *)
(* them stops it ("the shared_ptr keeps the pool alive").                  *)
PoolOutlivesCalls ==
    \A t \in Threads :
        th[t].pc \notin {"idle", "join", "start"} => ~shutdown[th[t].pool]

(* Every call returns: no wakeup of a waiter is lost, although the count   *)
(* drops outside the mutex, and stopping a pool joins all its workers.     *)
CallsReturn == \A t \in Threads : (th[t].pc # "idle") ~> (th[t].pc = "idle")

(* The list that cold() works from holds chunks that were read from        *)
(* storage by the current sweep of the tensor: "Pages already resident     *)
(* before the sweep are left alone".  It does not hold: a chunk is counted *)
(* before it is recorded, and the next sweep can begin in between.         *)
OnlyThisSweep ==
    \A p \in Pools, w \in Tensors :
        \A r \in tickets[p][w].read_chunks : r.ep = tickets[p][w].epoch
=============================================================================
