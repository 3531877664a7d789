------------------------- MODULE MoePrefetch_proofs -------------------------
(* Proofs about MoePrefetch for any threads, tensors, chunks, pools, workers *)
(* and queue limit.                                                          *)
EXTENDS MoePrefetch, FiniteSetTheorems, TLAPS

-----------------------------------------------------------------------------
(* Counting the jobs of a tensor in a queue.                               *)

At(q, w) == {k \in DOMAIN q : q[k].w = w}
Shifted(S, d) == {k + d : k \in S}

(* Moving a finite set of numbers does not change how many they are.       *)
LEMMA ShiftedCount ==
  ASSUME NEW S \in SUBSET Int, IsFiniteSet(S), NEW d \in Int
  PROVE  /\ IsFiniteSet(Shifted(S, d))
         /\ Cardinality(Shifted(S, d)) = Cardinality(S)
<1> DEFINE f == [k \in S |-> k + d]
<1>1. f \in Bijection(S, Shifted(S, d))
  <2>1. f \in [S -> Shifted(S, d)]
    BY DEF Shifted
  <2>2. \A a, b \in S : f[a] = f[b] => a = b
    OBVIOUS
  <2>3. \A y \in Shifted(S, d) : \E x \in S : f[x] = y
    BY DEF Shifted
  <2> HIDE DEF f
  <2> QED BY <2>1, <2>2, <2>3 DEF Bijection, Injection, Surjection, IsInjective
<1>2. ExistsBijection(S, Shifted(S, d))
  BY <1>1 DEF ExistsBijection
<1> QED BY <1>2, FS_Bijection

(* There are finitely many places in a queue. *)
LEMMA AtFinite ==
  ASSUME NEW q \in Seq(Job), NEW w
  PROVE  /\ At(q, w) \in SUBSET Int
         /\ IsFiniteSet(At(q, w))
         /\ Cardinality(At(q, w)) \in Nat
<1>1. IsFiniteSet(1..Len(q))
  BY FS_Interval
<1>2. At(q, w) \in SUBSET (1..Len(q))
  BY DEF At
<1>3. IsFiniteSet(At(q, w))
  BY <1>1, <1>2, FS_Subset
<1> QED BY <1>2, <1>3, FS_CardinalityType

LEMMA AtEmpty == \A w : Cardinality(At(<<>>, w)) = 0
<1>1. \A w : At(<<>>, w) = {}
  BY DEF At
<1> QED BY <1>1, FS_EmptySet

(* Taking the first job off. *)
LEMMA AtTail ==
  ASSUME NEW q \in Seq(Job), q # <<>>, NEW w
  PROVE  Cardinality(At(Tail(q), w)) =
           IF Head(q).w = w THEN Cardinality(At(q, w)) - 1 ELSE Cardinality(At(q, w))
<1> DEFINE A == At(q, w)
           B == At(Tail(q), w)
<1>1. A \ {1} = Shifted(B, 1)
  <2>1. ASSUME NEW k \in A \ {1} PROVE k - 1 \in B /\ k = (k - 1) + 1
    BY <2>1 DEF At
  <2>2. ASSUME NEW k \in B PROVE k + 1 \in A \ {1}
    BY <2>2 DEF At
  <2> QED BY <2>1, <2>2 DEF Shifted
<1>2. /\ Cardinality(A \ {1}) = IF 1 \in A THEN Cardinality(A) - 1 ELSE Cardinality(A)
  BY AtFinite, FS_RemoveElement
<1>3. 1 \in A <=> Head(q).w = w
  BY DEF At
<1>4. Tail(q) \in Seq(Job)
  OBVIOUS
<1>5. Cardinality(Shifted(B, 1)) = Cardinality(B)
  <2>1. B \in SUBSET Int /\ IsFiniteSet(B)
    BY <1>4, AtFinite
  <2> HIDE DEF B
  <2> QED BY <2>1, ShiftedCount
<1> QED BY <1>1, <1>2, <1>3, <1>5

(* Putting two queues together. *)
LEMMA AtConcat ==
  ASSUME NEW q \in Seq(Job), NEW r \in Seq(Job), NEW w
  PROVE  Cardinality(At(q \o r, w)) = Cardinality(At(q, w)) + Cardinality(At(r, w))
<1> DEFINE n == Len(q)
           A == At(q, w)
           B == At(r, w)
           C == Shifted(B, n)
<1>0. n \in Nat /\ Len(r) \in Nat /\ Len(q \o r) = n + Len(r)
  OBVIOUS
<1>1. At(q \o r, w) = A \cup C
  <2>1. ASSUME NEW k \in At(q \o r, w) PROVE k \in A \cup C
    <3>1. k \in 1..(n + Len(r)) /\ (q \o r)[k].w = w
      BY <2>1, <1>0 DEF At
    <3>2. CASE k <= n
      BY <3>1, <3>2, <1>0 DEF At
    <3>3. CASE k > n
      <4>1. k - n \in 1..Len(r) /\ r[k - n].w = w
        BY <3>1, <3>3, <1>0
      <4>2. k - n \in B
        BY <4>1 DEF At
      <4>3. k = (k - n) + n
        BY <3>1, <1>0
      <4> QED BY <4>2, <4>3 DEF Shifted
    <3> QED BY <3>1, <3>2, <3>3, <1>0
  <2>2. ASSUME NEW k \in A PROVE k \in At(q \o r, w)
    BY <2>2, <1>0 DEF At
  <2>3. ASSUME NEW k \in B PROVE k + n \in At(q \o r, w)
    <3>1. k \in 1..Len(r) /\ r[k].w = w
      BY <2>3 DEF At
    <3>2. k + n \in 1..Len(q \o r) /\ (q \o r)[k + n] = r[k]
      BY <3>1, <1>0
    <3> QED BY <3>1, <3>2 DEF At
  <2> QED BY <2>1, <2>2, <2>3 DEF Shifted
<1>2. A \cap C = {}
  BY <1>0 DEF At, Shifted
<1>3. IsFiniteSet(A) /\ IsFiniteSet(C) /\ Cardinality(C) = Cardinality(B)
      /\ Cardinality(A) \in Nat /\ Cardinality(B) \in Nat
  BY AtFinite, ShiftedCount, <1>0
<1>4. Cardinality(A \cup C) = Cardinality(A) + Cardinality(C) - Cardinality(A \cap C)
  BY <1>3, FS_Union
<1>5. Cardinality(A \cap C) = 0
  BY <1>2, FS_EmptySet
<1> QED BY <1>1, <1>3, <1>4, <1>5

(* Jobs that are all for one tensor. *)
LEMMA AtUniform ==
  ASSUME NEW q \in Seq(Job), NEW v, \A k \in DOMAIN q : q[k].w = v, NEW w
  PROVE  Cardinality(At(q, w)) = IF w = v THEN Len(q) ELSE 0
<1>1. CASE w = v
  <2>1. At(q, w) = 1..Len(q)
    BY <1>1 DEF At
  <2>2. \A n \in Nat : Cardinality(1..n) = n
    BY FS_Interval
  <2>3. Cardinality(1..Len(q)) = Len(q)
    BY <2>2
  <2> QED BY <1>1, <2>1, <2>3
<1>2. CASE w # v
  <2>1. At(q, w) = {}
    BY <1>2 DEF At
  <2> QED BY <1>2, <2>1, FS_EmptySet
<1> QED BY <1>1, <1>2

-----------------------------------------------------------------------------
(* The inductive invariant.                                                *)

(* A thread between calls or at the end of one, replacing the pool, adding *)
(* the chunks of a tensor, waiting for a tensor or letting it go cold.     *)
ThreadRec ==
    [pc : {"idle", "join", "release"}, pool : 0..MaxPools]
      \cup [pc : {"start"}, pool : 0..MaxPools, n : 1..NWorkers]
      \cup [pc : {"mapped"}, pool : Pools, w : Tensors, sel : SUBSET Chunks, urgent : BOOLEAN]
      \cup [pc : {"enqueue"}, pool : Pools, w : Tensors, sel : SUBSET Chunks, urgent : BOOLEAN,
            ep : 1..MaxEpoch]
      \cup [pc : {"find", "check", "asleep", "cold", "release"}, pool : Pools, w : Tensors]

WorkerRec ==
    [pc : {"none", "wait", "gone"}]
      \cup [pc : {"read", "record"}, job : Job, done_read : BOOLEAN, left : Int]

TicketRec == [pending : Int, epoch : 0..MaxEpoch, track_reads : BOOLEAN,
              read_chunks : SUBSET ReadChunk]

(* Types, with counts that may be negative: that they are not follows from *)
(* PendingExact.                                                           *)
Types ==
    /\ made \in 0..MaxPools /\ pool \in 0..made /\ pool_mtx \in BOOLEAN
    /\ epoch \in 1..MaxEpoch
    /\ mappings \subseteq Tensors
    /\ queue \in [Pools -> Seq(Job)]
    /\ shutdown \in [Pools -> BOOLEAN]
    /\ tickets \in [Pools -> [Tensors -> TicketRec]]
    /\ workers \in [Pools -> [1..NWorkers -> WorkerRec]]
    /\ th \in [Threads -> ThreadRec]

Outside == {"idle", "start", "join"}

(* Who holds which pool: a call holds one that is made and not stopped;    *)
(* whoever joins the workers of a pool has stopped it; pool_mtx is held by *)
(* the one thread that replaces the pool, and then there is no pool to     *)
(* enter.                                                                  *)
CallsHold ==
    \A t \in Threads :
        th[t].pc \notin Outside => th[t].pool \in 1..made /\ ~shutdown[th[t].pool]
JoinsStopped ==
    \A t \in Threads :
        /\ th[t].pc = "idle" => th[t].pool = 0
        /\ th[t].pc = "join" => th[t].pool # 0
        /\ th[t].pc \in {"join", "start"} /\ th[t].pool # 0 => shutdown[th[t].pool]
OneStarts ==
    /\ \A t \in Threads : th[t].pc = "start" => pool_mtx /\ made < MaxPools
    /\ \A t, u \in Threads : th[t].pc = "start" /\ th[u].pc = "start" => t = u
    /\ pool_mtx => pool = 0

(* The current pool runs, a stopped one has no jobs, and those to come are *)
(* as they were made.                                                      *)
PoolsOK ==
    /\ pool # 0 => ~shutdown[pool]
    /\ \A p \in Pools : shutdown[p] => queue[p] = <<>>
    /\ \A p \in Pools : p > made =>
         /\ ~shutdown[p] /\ queue[p] = <<>>
         /\ \A i \in 1..NWorkers : workers[p][i].pc = "none"

Ownership == CallsHold /\ JoinsStopped /\ OneStarts /\ PoolsOK

IInv == Types /\ Ownership /\ PendingExact

-----------------------------------------------------------------------------
(* What the types say of the record of a thread and of a worker.           *)

LEMMA ThreadFacts ==
  ASSUME NEW r \in ThreadRec
  PROVE  /\ r.pool \in 0..MaxPools
         /\ r.pc \in {"idle", "join", "release", "start", "mapped", "enqueue",
                      "find", "check", "asleep", "cold"}
         /\ r.pc = "start" => r.n \in 1..NWorkers
         /\ r.pc \in {"mapped", "enqueue"} =>
              /\ r.w \in Tensors /\ r.sel \in SUBSET Chunks /\ r.urgent \in BOOLEAN
              /\ r.pool \in Pools
         /\ r.pc = "enqueue" => r.ep \in 1..MaxEpoch
         /\ r.pc \in {"find", "check", "asleep", "cold"} => r.w \in Tensors /\ r.pool \in Pools
<1>0. Pools \subseteq 0..MaxPools
  BY MoeAssumption DEF Pools
<1> QED BY <1>0 DEF ThreadRec

(* Going on to another step of a wait. *)
LEMMA WaitStep ==
  ASSUME NEW r \in ThreadRec, r.pc \in {"find", "check", "asleep"},
         NEW c \in {"check", "asleep", "release"}
  PROVE  LET s == [r EXCEPT !.pc = c]
         IN  s \in ThreadRec /\ s.pc = c /\ s.pool = r.pool
<1>1. r \in [pc : {"find", "check", "asleep", "cold", "release"}, pool : Pools, w : Tensors]
  BY DEF ThreadRec
<1>2. [r EXCEPT !.pc = c] \in
        [pc : {"find", "check", "asleep", "cold", "release"}, pool : Pools, w : Tensors]
  BY <1>1
<1> QED BY <1>1, <1>2 DEF ThreadRec

LEMMA TicketUpdate ==
  ASSUME NEW k \in TicketRec, NEW n \in Int, NEW m, m = [k EXCEPT !.pending = n]
  PROVE  m \in TicketRec /\ m.pending = n
BY DEF TicketRec

LEMMA WorkerFacts ==
  ASSUME NEW r \in WorkerRec
  PROVE  /\ r.pc \in {"none", "wait", "gone", "read", "record"}
         /\ r.pc \in {"read", "record"} =>
              r.job \in Job /\ r.done_read \in BOOLEAN /\ r.left \in Int
BY DEF WorkerRec

(* The jobs of a tensor that the workers of a pool are reading. *)
Hands(ws, w) == {i \in 1..NWorkers : ws[i].pc = "read" /\ ws[i].job.w = w}

LEMMA HandsFinite ==
  ASSUME NEW ws, NEW w
  PROVE  IsFiniteSet(Hands(ws, w)) /\ Cardinality(Hands(ws, w)) \in Nat
<1>1. IsFiniteSet(1..NWorkers)
  BY FS_Interval, MoeAssumption
<1>2. Hands(ws, w) \in SUBSET (1..NWorkers)
  BY DEF Hands
<1>3. IsFiniteSet(Hands(ws, w))
  BY <1>1, <1>2, FS_Subset
<1> QED BY <1>3, FS_CardinalityType

(* A worker takes a job; ws is before, vs after. *)
LEMMA HandsTake ==
  ASSUME NEW ws, NEW vs, NEW i \in 1..NWorkers, NEW w,
         \A k \in 1..NWorkers : k # i => vs[k] = ws[k],
         ws[i].pc # "read", vs[i].pc = "read"
  PROVE  Cardinality(Hands(vs, w)) =
           IF vs[i].job.w = w THEN Cardinality(Hands(ws, w)) + 1 ELSE Cardinality(Hands(ws, w))
<1>1. Hands(vs, w) =
        IF vs[i].job.w = w THEN Hands(ws, w) \cup {i} ELSE Hands(ws, w)
  BY DEF Hands
<1>2. i \notin Hands(ws, w)
  BY DEF Hands
<1>3. Cardinality(Hands(ws, w) \cup {i}) = Cardinality(Hands(ws, w)) + 1
  BY <1>2, HandsFinite, FS_AddElement
<1> QED BY <1>1, <1>3

(* A worker is done with a job. *)
LEMMA HandsGive ==
  ASSUME NEW ws, NEW vs, NEW i \in 1..NWorkers, NEW w,
         \A k \in 1..NWorkers : k # i => vs[k] = ws[k],
         ws[i].pc = "read", vs[i].pc # "read"
  PROVE  Hands(vs, w) = Hands(ws, w) \ {i} /\ (i \in Hands(ws, w) <=> ws[i].job.w = w)
BY DEF Hands

(* A worker does something else. *)
LEMMA HandsSame ==
  ASSUME NEW ws, NEW vs, NEW i \in 1..NWorkers, NEW w,
         \A k \in 1..NWorkers : k # i => vs[k] = ws[k],
         ws[i].pc # "read", vs[i].pc # "read"
  PROVE  Hands(vs, w) = Hands(ws, w)
BY DEF Hands

(* Nobody reads for a pool whose workers are gone or not there yet. *)
LEMMA HandsNone ==
  ASSUME NEW ws, \A i \in 1..NWorkers : ws[i].pc # "read", NEW w
  PROVE  Cardinality(Hands(ws, w)) = 0
<1>1. Hands(ws, w) = {}
  BY DEF Hands
<1> QED BY <1>1, FS_EmptySet

(* PendingExact in terms of the two sets, in this state and in the next.   *)
Count(q, ws, w) == Cardinality(At(q, w)) + Cardinality(Hands(ws, w))

LEMMA PendingIs ==
  /\ PendingExact <=> \A p \in Pools, w \in Tensors :
        tickets[p][w].pending = Count(queue[p], workers[p], w)
  /\ PendingExact' <=> \A p \in Pools, w \in Tensors :
        tickets'[p][w].pending = Count(queue'[p], workers'[p], w)
BY DEF PendingExact, Queued, InHand, At, Hands, Count

(* A step that leaves the jobs where they are. *)
LEMMA SamePending ==
  ASSUME IInv, UNCHANGED queue,
         \A p \in Pools, w \in Tensors : tickets'[p][w].pending = tickets[p][w].pending,
         \A p \in Pools, w \in Tensors : Hands(workers'[p], w) = Hands(workers[p], w)
  PROVE  PendingExact'
BY PendingIs DEF IInv, Count

-----------------------------------------------------------------------------
(* The workers.                                                            *)

LEMMA PopStep ==
  ASSUME IInv, NEW p \in Pools, NEW i \in 1..NWorkers, Pop(p, i)
  PROVE  IInv'
<1> DEFINE r == Holding("read", Head(queue[p]), FALSE, 0)
<1> USE DEF IInv
<1>1. /\ queue[p] \in Seq(Job) /\ queue[p] # <<>> /\ Head(queue[p]) \in Job
      /\ Tail(queue[p]) \in Seq(Job)
  BY DEF Pop, Types
<1>2. r \in WorkerRec /\ r.pc = "read" /\ r.job = Head(queue[p])
  BY <1>1 DEF Holding, WorkerRec
<1> HIDE DEF r
<1>3. /\ workers' = [workers EXCEPT ![p] = [workers[p] EXCEPT ![i] = r]]
      /\ workers[p] \in [1..NWorkers -> WorkerRec] /\ workers[p][i].pc = "wait"
      /\ ~shutdown[p]
  BY DEF Pop, Types, r
<1>4. queue' = [queue EXCEPT ![p] = Tail(queue[p])]
  BY DEF Pop
<1>5. Types'
  <2>1. workers' \in [Pools -> [1..NWorkers -> WorkerRec]]
    BY <1>2, <1>3 DEF Types
  <2>2. queue' \in [Pools -> Seq(Job)]
    BY <1>1, <1>4 DEF Types
  <2> QED BY <2>1, <2>2 DEF Pop, Types
<1>6. Ownership'
  <2>1. ~(p > made)
    BY <1>3 DEF Ownership, PoolsOK
  <2>2. CallsHold' /\ JoinsStopped' /\ OneStarts'
    BY DEF Pop, Ownership, CallsHold, JoinsStopped, OneStarts
  <2>3. \A q \in Pools : q # p => queue'[q] = queue[q] /\ workers'[q] = workers[q]
    BY <1>3, <1>4 DEF Types
  <2>4. PoolsOK'
    <3>1. UNCHANGED <<pool, made, shutdown>>
      BY DEF Pop
    <3>2. PoolsOK /\ made \in Nat /\ p \in Nat
      BY DEF Ownership, Types, Pools
    <3> QED BY <1>3, <2>1, <2>3, <3>1, <3>2 DEF PoolsOK
  <2> QED BY <2>2, <2>4 DEF Ownership
<1>7. PendingExact'
  <2> SUFFICES ASSUME NEW q \in Pools, NEW w \in Tensors
               PROVE  tickets'[q][w].pending = Count(queue'[q], workers'[q], w)
    BY PendingIs
  <2>0. tickets'[q][w].pending = Count(queue[q], workers[q], w)
    BY PendingIs DEF Pop
  <2>1. CASE q # p
    BY <1>3, <1>4, <2>0, <2>1 DEF Types
  <2>2. CASE q = p
    <3>1. queue'[p] = Tail(queue[p]) /\ workers'[p] = [workers[p] EXCEPT ![i] = r]
      BY <1>3, <1>4 DEF Types
    <3>2. Cardinality(At(Tail(queue[p]), w)) =
            IF r.job.w = w THEN Cardinality(At(queue[p], w)) - 1
                           ELSE Cardinality(At(queue[p], w))
      BY <1>1, <1>2, AtTail
    <3>3. Cardinality(Hands(workers'[p], w)) =
            IF r.job.w = w THEN Cardinality(Hands(workers[p], w)) + 1
                           ELSE Cardinality(Hands(workers[p], w))
      <4>1. workers[p][i].pc # "read" /\ r.pc = "read"
        BY <1>2, <1>3
      <4>2. workers'[p][i] = r /\ \A k \in 1..NWorkers : k # i => workers'[p][k] = workers[p][k]
        BY <1>3, <3>1
      <4>3. workers'[p][i].pc = "read"
        BY <4>1, <4>2
      <4>4. Cardinality(Hands(workers'[p], w)) =
              IF workers'[p][i].job.w = w THEN Cardinality(Hands(workers[p], w)) + 1
                                          ELSE Cardinality(Hands(workers[p], w))
        BY ONLY i \in 1..NWorkers, <4>1, <4>2, <4>3, HandsTake
      <4> QED BY <4>2, <4>4
    <3>4. Cardinality(At(queue[p], w)) \in Nat /\ Cardinality(Hands(workers[p], w)) \in Nat
      BY <1>1, AtFinite, HandsFinite
    <3> QED BY <2>0, <2>2, <3>1, <3>2, <3>3, <3>4 DEF Count
  <2> QED BY <2>1, <2>2
<1> QED BY <1>5, <1>6, <1>7

LEMMA ExitStep ==
  ASSUME IInv, NEW p \in Pools, NEW i \in 1..NWorkers, Exit(p, i)
  PROVE  IInv'
<1> DEFINE r == Off("gone")
<1> USE DEF IInv
<1>1. r \in WorkerRec /\ r.pc = "gone"
  BY DEF Off, WorkerRec
<1>2. /\ workers' = [workers EXCEPT ![p] = [workers[p] EXCEPT ![i] = r]]
      /\ workers[p] \in [1..NWorkers -> WorkerRec] /\ workers[p][i].pc = "wait"
  BY DEF Exit, Types
<1> HIDE DEF r
<1>3. Types'
  BY <1>1, <1>2 DEF Exit, Types
<1>4. Ownership'
  <2>1. ~(p > made)
    BY <1>2 DEF Ownership, PoolsOK
  <2> QED BY <1>2, <2>1 DEF Exit, Types, Ownership, CallsHold, JoinsStopped, OneStarts, PoolsOK
<1>5. \A q \in Pools, w \in Tensors : Hands(workers'[q], w) = Hands(workers[q], w)
  <2> TAKE q \in Pools, w \in Tensors
  <2>1. CASE q # p
    BY <1>2, <2>1 DEF Types
  <2>2. CASE q = p
    <3>1. workers'[p] = [workers[p] EXCEPT ![i] = r]
      BY <1>2 DEF Types
    <3>2. workers'[p][i] = r /\ \A k \in 1..NWorkers : k # i => workers'[p][k] = workers[p][k]
      BY <1>2, <3>1
    <3>3. workers[p][i].pc # "read" /\ r.pc # "read"
      BY <1>1, <1>2
    <3> QED BY ONLY i \in 1..NWorkers, <2>2, <3>2, <3>3, HandsSame
  <2> QED BY <2>1, <2>2
<1>6. PendingExact'
  BY <1>5, SamePending DEF Exit
<1> QED BY <1>3, <1>4, <1>6

LEMMA ReadStep ==
  ASSUME IInv, NEW p \in Pools, NEW i \in 1..NWorkers, Read(p, i)
  PROVE  IInv'
<1> DEFINE j == workers[p][i].job
           tk == tickets[p][j.w]
<1> USE DEF IInv
<1>1. /\ workers[p] \in [1..NWorkers -> WorkerRec] /\ workers[p][i].pc = "read"
      /\ j \in Job /\ j.w \in Tensors
  <2>1. workers[p] \in [1..NWorkers -> WorkerRec] /\ workers[p][i].pc = "read"
    BY DEF Read, Types
  <2>2. workers[p][i] \in WorkerRec
    BY <2>1
  <2>3. j \in Job
    BY <2>1, <2>2, WorkerFacts
  <2> QED BY <2>1, <2>3 DEF Job
<1>2. tk \in TicketRec /\ tk.pending \in Int
  BY <1>1 DEF Types, TicketRec
<1>3. PICK b \in BOOLEAN : workers' = [workers EXCEPT ![p][i] =
                                          Holding("record", j, b, tk.pending)]
  BY DEF Read
<1> DEFINE r == Holding("record", j, b, tk.pending)
           tk1 == [tk EXCEPT !.pending = tk.pending - 1]
<1>4. r \in WorkerRec /\ r.pc = "record"
  BY <1>1, <1>2 DEF Holding, WorkerRec
<1>5. tk1 \in TicketRec /\ tk1.pending = tk.pending - 1
  <2> HIDE DEF tk
  <2>1. tk.pending - 1 \in Int
    BY <1>2
  <2> QED BY <1>2, <2>1, TicketUpdate
<1>6. /\ workers' = [workers EXCEPT ![p] = [workers[p] EXCEPT ![i] = r]]
      /\ tickets' = [tickets EXCEPT ![p] = [tickets[p] EXCEPT ![j.w] = tk1]]
      /\ tickets[p] \in [Tensors -> TicketRec]
  BY <1>1, <1>3 DEF Read, Types
<1>a. UNCHANGED <<pool, made, pool_mtx, epoch, mappings, queue, shutdown, th>>
  BY DEF Read
<1> HIDE DEF r, tk, tk1, j
<1>7. Types'
  <2>1. workers' \in [Pools -> [1..NWorkers -> WorkerRec]]
    BY <1>1, <1>4, <1>6 DEF Types
  <2>2. tickets' \in [Pools -> [Tensors -> TicketRec]]
    BY <1>1, <1>5, <1>6 DEF Types
  <2> QED BY <1>a, <2>1, <2>2 DEF Types
<1>8. Ownership'
  <2>1. ~(p > made)
    BY <1>1 DEF Ownership, PoolsOK
  <2>2. \A q \in Pools : q > made => workers'[q] = workers[q]
    BY <1>6, <2>1 DEF Types
  <2>3. CallsHold' /\ JoinsStopped' /\ OneStarts'
    BY <1>a DEF Ownership, CallsHold, JoinsStopped, OneStarts
  <2>4. PoolsOK'
    BY <1>a, <2>2 DEF Ownership, PoolsOK
  <2> QED BY <2>3, <2>4 DEF Ownership
<1>9. PendingExact'
  <2> SUFFICES ASSUME NEW q \in Pools, NEW w \in Tensors
               PROVE  tickets'[q][w].pending = Count(queue'[q], workers'[q], w)
    BY PendingIs
  <2>0. tickets[q][w].pending = Count(queue[q], workers[q], w) /\ queue' = queue
    BY PendingIs DEF Read
  <2>1. CASE q # p
    BY <1>6, <2>0, <2>1 DEF Types
  <2>2. CASE q = p
    <3>1. /\ workers'[p] = [workers[p] EXCEPT ![i] = r]
          /\ tickets'[p] = [tickets[p] EXCEPT ![j.w] = tk1]
      BY <1>6 DEF Types
    <3>2. Cardinality(Hands(workers'[p], w)) =
            IF j.w = w THEN Cardinality(Hands(workers[p], w)) - 1
                       ELSE Cardinality(Hands(workers[p], w))
      <4>1. workers[p][i].pc = "read"
        BY <1>1
      <4>2. workers'[p][i] = r /\ \A k \in 1..NWorkers : k # i => workers'[p][k] = workers[p][k]
        BY <1>1, <3>1
      <4>3. workers'[p][i].pc # "read"
        BY <1>4, <4>2
      <4>4. \A k \in 1..NWorkers : k # i => workers'[p][k] = workers[p][k]
        BY <4>2
      <4>5. Cardinality(Hands(workers'[p], w)) =
              IF workers[p][i].job.w = w THEN Cardinality(Hands(workers[p], w)) - 1
                                         ELSE Cardinality(Hands(workers[p], w))
        <5>1. /\ Hands(workers'[p], w) = Hands(workers[p], w) \ {i}
              /\ i \in Hands(workers[p], w) <=> workers[p][i].job.w = w
          BY ONLY i \in 1..NWorkers, <4>1, <4>3, <4>4, HandsGive
        <5>2. IsFiniteSet(Hands(workers[p], w))
          BY HandsFinite
        <5> QED BY ONLY <5>1, <5>2, FS_RemoveElement
      <4> QED BY <4>5 DEF j
    <3>3. Cardinality(At(queue[p], w)) \in Nat /\ Cardinality(Hands(workers[p], w)) \in Nat
      BY AtFinite, HandsFinite DEF Types
    <3>4. tickets'[p][w].pending = IF j.w = w THEN tickets[p][w].pending - 1
                                              ELSE tickets[p][w].pending
      BY <1>5, <1>6, <3>1 DEF tk
    <3> QED BY <2>0, <2>2, <3>1, <3>2, <3>3, <3>4 DEF Count
  <2> QED BY <2>1, <2>2
<1> QED BY <1>7, <1>8, <1>9

-----------------------------------------------------------------------------
(* The threads.                                                            *)

(* Where a call may be without having anything to do with the life of a    *)
(* pool.                                                                   *)
Fine(r) ==
    /\ r.pc \notin {"start", "join"}
    /\ r.pc = "idle" => r.pool = 0
    /\ r.pc \notin Outside => r.pool \in 1..made /\ ~shutdown[r.pool]

LEMMA ThreadsKeep ==
  ASSUME IInv, UNCHANGED <<pool, made, pool_mtx, shutdown>>,
         \A u \in Threads : th'[u] = th[u] \/ Fine(th'[u])
  PROVE  CallsHold' /\ JoinsStopped' /\ OneStarts'
<1> USE DEF IInv, Ownership
<1>1. CallsHold'
  BY DEF CallsHold, Fine, Outside
<1>2. JoinsStopped'
  BY DEF JoinsStopped, Fine, Outside
<1>3. OneStarts'
  BY DEF OneStarts, Fine
<1> QED BY <1>1, <1>2, <1>3

(* A step of one call that leaves pools, workers and tickets alone. *)
LEMMA CallOnly ==
  ASSUME IInv, NEW t \in Threads, NEW r \in ThreadRec, Fine(r),
         th' = [th EXCEPT ![t] = r],
         UNCHANGED <<pool, made, pool_mtx, queue, shutdown, tickets, workers>>,
         epoch' \in 1..MaxEpoch, mappings' \subseteq Tensors
  PROVE  IInv'
<1> USE DEF IInv
<1>1. th \in [Threads -> ThreadRec]
  BY DEF Types
<1>2. \A u \in Threads : th'[u] = th[u] \/ Fine(th'[u])
  BY <1>1
<1>3. th' \in [Threads -> ThreadRec]
  BY <1>1
<1>4. Types'
  BY <1>3 DEF Types
<1>5. CallsHold' /\ JoinsStopped' /\ OneStarts'
  BY <1>2, ThreadsKeep
<1>6. PoolsOK'
  BY DEF Ownership, PoolsOK
<1>7. PendingExact'
  BY PendingIs
<1> QED BY <1>4, <1>5, <1>6, <1>7 DEF Ownership

LEMMA NewEpochStep ==
  ASSUME IInv, NEW t \in Threads, new_epoch(t)
  PROVE  IInv'
<1> USE DEF IInv
<1>1. Types'
  BY MoeAssumption DEF new_epoch, Types
<1>2. Ownership'
  BY DEF new_epoch, Ownership, CallsHold, JoinsStopped, OneStarts, PoolsOK
<1>3. PendingExact'
  BY PendingIs DEF new_epoch
<1> QED BY <1>1, <1>2, <1>3

LEMMA EnterStep ==
  ASSUME IInv, NEW t \in Threads, NEW r, Enter(t, r), r.pool = pool,
         r.pc \in {"mapped", "find", "cold"}, pool # 0 => r \in ThreadRec
  PROVE  IInv'
<1> USE DEF IInv
<1>1. pool # 0 /\ pool \in 1..made /\ ~shutdown[pool]
  BY DEF Enter, Types, Ownership, PoolsOK
<1>2. Fine(r)
  BY <1>1 DEF Fine
<1> QED BY <1>1, <1>2, CallOnly DEF Enter, Types

LEMMA CallStep ==
  ASSUME IInv, NEW t \in Threads, Call(t)
  PROVE  IInv'
<1>1. pool # 0 => pool \in Pools
  BY MoeAssumption DEF IInv, Types, Pools
<1>2. CASE new_epoch(t)
  BY <1>2, NewEpochStep
<1>3. ASSUME NEW w \in Tensors, ggml_moe_prefetch_tensor(t, w) PROVE IInv'
  <2> DEFINE r == [pc |-> "mapped", pool |-> pool, w |-> w, sel |-> Chunks, urgent |-> FALSE]
  <2>1. r.pool = pool /\ r.pc = "mapped" /\ (pool # 0 => r \in ThreadRec)
    BY <1>1 DEF ThreadRec
  <2>2. Enter(t, r)
    BY <1>3 DEF ggml_moe_prefetch_tensor
  <2> HIDE DEF r
  <2> QED BY <2>1, <2>2, EnterStep
<1>4. ASSUME NEW w \in Tensors, NEW sel \in Selections, ggml_moe_prefetch_node(t, w, sel)
      PROVE  IInv'
  <2> DEFINE r == [pc |-> "mapped", pool |-> pool, w |-> w, sel |-> sel, urgent |-> TRUE]
  <2>0. sel \in SUBSET Chunks
    BY MoeAssumption DEF Chunks
  <2>1. r.pool = pool /\ r.pc = "mapped" /\ (pool # 0 => r \in ThreadRec)
    BY <1>1, <2>0 DEF ThreadRec
  <2>2. Enter(t, r)
    BY <1>4 DEF ggml_moe_prefetch_node
  <2> HIDE DEF r
  <2> QED BY <2>1, <2>2, EnterStep
<1>5. ASSUME NEW w \in Tensors, ggml_moe_prefetch_wait(t, w) PROVE IInv'
  <2> DEFINE r == [pc |-> "find", pool |-> pool, w |-> w]
  <2>1. r.pool = pool /\ r.pc = "find" /\ (pool # 0 => r \in ThreadRec)
    BY <1>1 DEF ThreadRec
  <2>2. Enter(t, r)
    BY <1>5 DEF ggml_moe_prefetch_wait
  <2> HIDE DEF r
  <2> QED BY <2>1, <2>2, EnterStep
<1>6. ASSUME NEW w \in Tensors, ggml_moe_prefetch_cold(t, w) PROVE IInv'
  <2> DEFINE r == [pc |-> "cold", pool |-> pool, w |-> w]
  <2>1. r.pool = pool /\ r.pc = "cold" /\ (pool # 0 => r \in ThreadRec)
    BY <1>1 DEF ThreadRec
  <2>2. Enter(t, r)
    BY <1>6 DEF ggml_moe_prefetch_cold
  <2> HIDE DEF r
  <2> QED BY <2>1, <2>2, EnterStep
<1> QED BY <1>2, <1>3, <1>4, <1>5, <1>6 DEF Call

(* A call that is inside a pool may stay in it or be about to leave. *)
LEMMA FineInside ==
  ASSUME IInv, NEW t \in Threads, th[t].pc \notin Outside, NEW r, r.pool = th[t].pool,
         r.pc \notin Outside
  PROVE  Fine(r)
BY DEF IInv, Ownership, CallsHold, Fine, Outside

LEMMA IsMappedStep ==
  ASSUME IInv, NEW t \in Threads, IsMapped(t)
  PROVE  IInv'
<1> DEFINE c == th[t]
           e == [pc |-> "enqueue", w |-> c.w, sel |-> c.sel, urgent |-> c.urgent,
                 pool |-> c.pool, ep |-> epoch]
           l == [pc |-> "release", pool |-> c.pool]
           r == IF c.w \in mappings THEN e ELSE l
<1>1. c \in ThreadRec /\ c.pc = "mapped" /\ epoch \in 1..MaxEpoch
  BY DEF IInv, Types, IsMapped
<1>2. /\ c.w \in Tensors /\ c.sel \in SUBSET Chunks /\ c.urgent \in BOOLEAN
      /\ c.pool \in Pools /\ c.pool \in 0..MaxPools
  BY <1>1, ThreadFacts
<1>3. e \in ThreadRec /\ l \in ThreadRec
  <2> HIDE DEF c
  <2> QED BY <1>1, <1>2 DEF ThreadRec
<1>4. r \in ThreadRec /\ r.pool = c.pool /\ r.pc \notin Outside
  BY <1>3 DEF Outside
<1>5. th' = [th EXCEPT ![t] = r]
  BY DEF IsMapped
<1> HIDE DEF r, e, l
<1>6. Fine(r)
  BY <1>1, <1>4, FineInside DEF Outside
<1> QED BY <1>4, <1>5, <1>6, CallOnly DEF IsMapped, IInv, Types

LEMMA WaitFindStep ==
  ASSUME IInv, NEW t \in Threads, WaitFind(t) \/ WaitCheck(t)
  PROVE  IInv'
<1>1. th[t] \in ThreadRec /\ th[t].pc \in {"find", "check", "asleep"} /\ th[t].pc \notin Outside
  BY DEF IInv, Types, WaitFind, WaitCheck, Outside
<1>2. PICK c \in {"check", "asleep", "release"} : th' = [th EXCEPT ![t] = [th[t] EXCEPT !.pc = c]]
  BY <1>1 DEF IInv, Types, WaitFind, WaitCheck
<1> DEFINE r == [th[t] EXCEPT !.pc = c]
<1>3. r \in ThreadRec /\ r.pc = c /\ r.pool = th[t].pool
  BY <1>1, WaitStep
<1>4. th' = [th EXCEPT ![t] = r]
  BY <1>2
<1> HIDE DEF r
<1>5. Fine(r)
  BY <1>1, <1>3, FineInside DEF Outside
<1> QED BY <1>3, <1>4, <1>5, CallOnly DEF WaitFind, WaitCheck, IInv, Types

(* The whole invariant from its parts, when pools are neither made nor     *)
(* stopped.                                                                *)
LEMMA TicketStep ==
  ASSUME IInv, UNCHANGED <<pool, made, pool_mtx, epoch, mappings, shutdown>>,
         queue' \in [Pools -> Seq(Job)],
         tickets' \in [Pools -> [Tensors -> TicketRec]],
         workers' \in [Pools -> [1..NWorkers -> WorkerRec]],
         th' \in [Threads -> ThreadRec],
         \A u \in Threads : th'[u] = th[u] \/ Fine(th'[u]),
         PoolsOK', PendingExact'
  PROVE  IInv'
<1>1. Types'
  BY DEF IInv, Types
<1>2. CallsHold' /\ JoinsStopped' /\ OneStarts'
  BY ThreadsKeep
<1> QED BY <1>1, <1>2 DEF IInv, Ownership

(* cv_done.notify_all only moves those who sleep on the pool. *)
LEMMA WokenFine ==
  ASSUME IInv, NEW p \in Pools
  PROVE  /\ Woken(p) \in [Threads -> ThreadRec]
         /\ \A u \in Threads : Woken(p)[u] = th[u] \/ Fine(Woken(p)[u])
<1>1. ASSUME NEW u \in Threads PROVE /\ Woken(p)[u] \in ThreadRec
                                     /\ Woken(p)[u] = th[u] \/ Fine(Woken(p)[u])
  <2>1. th[u] \in ThreadRec
    BY DEF IInv, Types
  <2>2. CASE th[u].pc = "asleep" /\ th[u].pool = p
    <3> DEFINE r == [th[u] EXCEPT !.pc = "check"]
    <3>1. r \in ThreadRec /\ r.pc = "check" /\ r.pool = th[u].pool
      BY <2>1, <2>2, WaitStep
    <3>2. Woken(p)[u] = r
      BY <2>2 DEF Woken
    <3> HIDE DEF r
    <3>3. Fine(r)
      BY <2>2, <3>1, FineInside DEF Outside
    <3> QED BY <3>1, <3>2, <3>3
  <2>3. CASE ~(th[u].pc = "asleep" /\ th[u].pool = p)
    BY <2>1, <2>3 DEF Woken
  <2> QED BY <2>2, <2>3
<1>2. Woken(p) = [u \in Threads |-> Woken(p)[u]]
  BY DEF Woken
<1> QED BY <1>1, <1>2

LEMMA ReadChunksUpdate ==
  ASSUME NEW k \in TicketRec, NEW c \in SUBSET ReadChunk, NEW m, m = [k EXCEPT !.read_chunks = c]
  PROVE  m \in TicketRec /\ m.pending = k.pending
BY DEF TicketRec

(* Recording or forgetting read chunks does not touch the counts. *)
LEMMA ChunksOnly ==
  ASSUME IInv, NEW p \in Pools, NEW w \in Tensors, NEW c \in SUBSET ReadChunk,
         tickets' = tickets
           \/ tickets' = [tickets EXCEPT ![p] =
                            [tickets[p] EXCEPT ![w] = [tickets[p][w] EXCEPT !.read_chunks = c]]]
  PROVE  /\ tickets' \in [Pools -> [Tensors -> TicketRec]]
         /\ \A q \in Pools, v \in Tensors : tickets'[q][v].pending = tickets[q][v].pending
<1> DEFINE m == [tickets[p][w] EXCEPT !.read_chunks = c]
<1>1. /\ tickets \in [Pools -> [Tensors -> TicketRec]]
      /\ tickets[p] \in [Tensors -> TicketRec] /\ tickets[p][w] \in TicketRec
  BY DEF IInv, Types
<1>2. m \in TicketRec /\ m.pending = tickets[p][w].pending
  BY <1>1, ReadChunksUpdate
<1> HIDE DEF m
<1>3. CASE tickets' = tickets
  BY <1>1, <1>3
<1>4. CASE tickets' = [tickets EXCEPT ![p] = [tickets[p] EXCEPT ![w] = m]]
  BY <1>1, <1>2, <1>4
<1> QED BY <1>3, <1>4 DEF m

LEMMA RecordStep ==
  ASSUME IInv, NEW p \in Pools, NEW i \in 1..NWorkers, Record(p, i)
  PROVE  IInv'
<1> DEFINE wk == workers[p][i]
           c == tickets[p][wk.job.w].read_chunks \cup {[c |-> wk.job.c, ep |-> wk.job.ep]}
           r == Off("wait")
<1>1. /\ workers \in [Pools -> [1..NWorkers -> WorkerRec]]
      /\ workers[p] \in [1..NWorkers -> WorkerRec] /\ wk \in WorkerRec /\ wk.pc = "record"
  BY DEF IInv, Types, Record
<1>2. wk.job \in Job
  BY <1>1, WorkerFacts
<1>3. wk.job.w \in Tensors /\ [c |-> wk.job.c, ep |-> wk.job.ep] \in ReadChunk
  BY <1>2 DEF Job, ReadChunk
<1>4. c \in SUBSET ReadChunk
  <2>1. tickets[p][wk.job.w] \in TicketRec
    BY <1>3 DEF IInv, Types
  <2>2. tickets[p][wk.job.w].read_chunks \in SUBSET ReadChunk
    BY <2>1 DEF TicketRec
  <2> QED BY <1>3, <2>2
<1>5. tickets' = tickets
        \/ tickets' = [tickets EXCEPT ![p] =
             [tickets[p] EXCEPT ![wk.job.w] = [tickets[p][wk.job.w] EXCEPT !.read_chunks = c]]]
  BY DEF Record
<1>6. r \in WorkerRec /\ r.pc = "wait"
  BY DEF Off, WorkerRec
<1>7. workers' = [workers EXCEPT ![p] = [workers[p] EXCEPT ![i] = r]] /\ UNCHANGED queue
  BY DEF Record
<1> HIDE DEF c, r
<1>8. /\ tickets' \in [Pools -> [Tensors -> TicketRec]]
      /\ \A q \in Pools, v \in Tensors : tickets'[q][v].pending = tickets[q][v].pending
  <2> HIDE DEF wk
  <2> QED BY <1>3, <1>4, <1>5, ChunksOnly
<1>9. workers' \in [Pools -> [1..NWorkers -> WorkerRec]]
  BY <1>1, <1>6, <1>7
<1>10. th' \in [Threads -> ThreadRec] /\ \A u \in Threads : th'[u] = th[u] \/ Fine(th'[u])
  <2>1. th' = Woken(p) \/ th' = th
    BY DEF Record
  <2>2. CASE th' = Woken(p)
    BY <2>2, WokenFine
  <2>3. CASE th' = th
    BY <2>3 DEF IInv, Types
  <2> QED BY <2>1, <2>2, <2>3
<1>11. PoolsOK'
  <2>1. ~(p > made)
    BY <1>1 DEF IInv, Ownership, PoolsOK
  <2>2. UNCHANGED <<pool, made, shutdown, queue>> /\ PoolsOK
    BY DEF Record, IInv, Ownership
  <2>3. \A q \in Pools : q # p => workers'[q] = workers[q]
    BY <1>1, <1>7
  <2> QED BY <2>1, <2>2, <2>3 DEF PoolsOK
<1>12. \A q \in Pools, w \in Tensors : Hands(workers'[q], w) = Hands(workers[q], w)
  <2> TAKE q \in Pools, w \in Tensors
  <2>1. CASE q # p
    BY <1>1, <1>7, <2>1
  <2>2. CASE q = p
    <3>1. workers'[p][i] = r /\ \A k \in 1..NWorkers : k # i => workers'[p][k] = workers[p][k]
      BY <1>1, <1>7
    <3>2. workers[p][i].pc # "read" /\ r.pc # "read"
      BY <1>1, <1>6
    <3> QED BY ONLY i \in 1..NWorkers, <2>2, <3>1, <3>2, HandsSame
  <2> QED BY <2>1, <2>2
<1>13. PendingExact'
  BY <1>7, <1>8, <1>12, SamePending
<1>14. UNCHANGED <<pool, made, pool_mtx, epoch, mappings, shutdown>>
  BY DEF Record
<1>15. queue' \in [Pools -> Seq(Job)]
  BY <1>7 DEF IInv, Types
<1> QED BY <1>8, <1>9, <1>10, <1>11, <1>13, <1>14, <1>15, TicketStep

(* The end of a call, up to letting go of the pool. *)
LEMMA LeaveFine ==
  ASSUME IInv, NEW t \in Threads, th[t].pc \notin Outside, NEW r, r = [pc |-> "release", pool |-> th[t].pool],
         th' = [th EXCEPT ![t] = r]
  PROVE  th' \in [Threads -> ThreadRec] /\ \A u \in Threads : th'[u] = th[u] \/ Fine(th'[u])
<1>1. th \in [Threads -> ThreadRec] /\ th[t] \in ThreadRec
  BY DEF IInv, Types
<1>2. th[t].pool \in 0..MaxPools
  BY <1>1, ThreadFacts
<1>3. r \in ThreadRec /\ r.pool = th[t].pool /\ r.pc \notin Outside
  BY <1>2 DEF ThreadRec, Outside
<1>4. Fine(r)
  BY <1>3, FineInside
<1> HIDE DEF Fine
<1> QED BY <1>1, <1>3, <1>4

LEMMA ColdStep ==
  ASSUME IInv, NEW t \in Threads, Cold(t)
  PROVE  IInv'
<1> DEFINE p == th[t].pool
           w == th[t].w
<1>1. th[t] \in ThreadRec /\ th[t].pc = "cold" /\ th[t].pc \notin Outside
  BY DEF IInv, Types, Cold, Outside
<1>2. p \in Pools /\ w \in Tensors
  BY <1>1, ThreadFacts
<1>3. tickets' = tickets
        \/ tickets' = [tickets EXCEPT ![p] =
             [tickets[p] EXCEPT ![w] = [tickets[p][w] EXCEPT !.read_chunks = {}]]]
  BY DEF Cold
<1>4. th' = [th EXCEPT ![t] = [pc |-> "release", pool |-> th[t].pool]]
  BY DEF Cold
<1>5. th' \in [Threads -> ThreadRec] /\ \A u \in Threads : th'[u] = th[u] \/ Fine(th'[u])
  BY <1>1, <1>4, LeaveFine
<1> HIDE DEF p, w
<1>6. /\ tickets' \in [Pools -> [Tensors -> TicketRec]]
      /\ \A q \in Pools, v \in Tensors : tickets'[q][v].pending = tickets[q][v].pending
  <2>1. {} \in SUBSET ReadChunk
    OBVIOUS
  <2> QED BY <1>2, <1>3, <2>1, ChunksOnly
<1>7. UNCHANGED <<pool, made, pool_mtx, epoch, mappings, queue, shutdown, workers>>
  BY DEF Cold
<1>8. PoolsOK'
  BY <1>7 DEF IInv, Ownership, PoolsOK
<1>9. PendingExact'
  BY <1>6, <1>7, SamePending
<1>10. /\ queue' \in [Pools -> Seq(Job)] /\ workers' \in [Pools -> [1..NWorkers -> WorkerRec]]
  BY <1>7 DEF IInv, Types
<1> QED BY <1>5, <1>6, <1>7, <1>8, <1>9, <1>10, TicketStep

(* The jobs of a call are jobs for its tensor. *)
LEMMA JobsOfFacts ==
  ASSUME NEW r \in ThreadRec, r.pc = "enqueue", NEW jobs \in JobsOf(r)
  PROVE  /\ jobs \in Seq(Job)
         /\ Len(jobs) \in Nat
         /\ \A k \in DOMAIN jobs : jobs[k].w = r.w
<1> DEFINE J == [w : {r.w}, c : r.sel, ep : {r.ep}]
           n == Cardinality(r.sel)
<1>1. r.w \in Tensors /\ r.sel \in SUBSET Chunks /\ r.ep \in 1..MaxEpoch
  BY ThreadFacts
<1>2. J \subseteq Job
  BY <1>1 DEF Job
<1>3. n \in Nat
  <2>1. IsFiniteSet(Chunks)
    BY FS_Interval, MoeAssumption DEF Chunks
  <2>2. IsFiniteSet(r.sel)
    BY <1>1, <2>1, FS_Subset
  <2> QED BY <2>2, FS_CardinalityType
<1>4. jobs \in [1..n -> J]
  BY DEF JobsOf
<1> HIDE DEF n
<1>5. jobs \in Seq(J)
  <2> HIDE DEF J
  <2> QED BY <1>3, <1>4
<1>6. \A k \in DOMAIN jobs : jobs[k].w = r.w
  BY <1>4
<1>7. jobs \in Seq(Job)
  <2> HIDE DEF J
  <2> QED BY <1>2, <1>5
<1> QED BY <1>6, <1>7

LEMMA EnqueueStep ==
  ASSUME IInv, NEW t \in Threads, enqueue_ranges(t)
  PROVE  IInv'
<1> DEFINE call == th[t]
           p == call.pool
           v == call.w
           tk == tickets[p][v]
<1>1. call \in ThreadRec /\ call.pc = "enqueue" /\ call.pc \notin Outside
  BY DEF IInv, Types, enqueue_ranges, Outside
<1>2. p \in Pools /\ v \in Tensors /\ call.urgent \in BOOLEAN /\ call.ep \in 1..MaxEpoch
  BY <1>1, ThreadFacts
<1>3. p \in 1..made /\ ~shutdown[p] /\ made \in Nat
  BY <1>1 DEF IInv, Ownership, CallsHold, Types
<1>4. UNCHANGED <<pool, made, pool_mtx, epoch, mappings, shutdown, workers>>
  BY DEF enqueue_ranges
<1>5. th' \in [Threads -> ThreadRec] /\ \A u \in Threads : th'[u] = th[u] \/ Fine(th'[u])
  <2>1. th' = [th EXCEPT ![t] = [pc |-> "release", pool |-> th[t].pool]]
    BY DEF enqueue_ranges
  <2> QED BY <1>1, <2>1, LeaveFine
<1>6. workers' \in [Pools -> [1..NWorkers -> WorkerRec]]
  BY <1>4 DEF IInv, Types
<1>7. CASE UNCHANGED <<tickets, queue>>
  <2>1. PoolsOK' /\ PendingExact'
    BY <1>4, <1>7, PendingIs DEF IInv, Ownership, PoolsOK
  <2>2. queue' \in [Pools -> Seq(Job)] /\ tickets' \in [Pools -> [Tensors -> TicketRec]]
    BY <1>7 DEF IInv, Types
  <2> QED BY <1>4, <1>5, <1>6, <2>1, <2>2, TicketStep
<1>8. CASE ~UNCHANGED <<tickets, queue>>
  <2>1. PICK jobs \in JobsOf(call) :
          /\ tickets' = [tickets EXCEPT ![p][v] =
                           [pending |-> tk.pending + Len(jobs), epoch |-> call.ep,
                            track_reads |-> ~call.urgent, read_chunks |-> {}]]
          /\ queue' = [queue EXCEPT ![p] =
                           IF call.urgent THEN jobs \o @ ELSE @ \o jobs]
    BY <1>8 DEF enqueue_ranges
  <2> DEFINE nt == [pending |-> tk.pending + Len(jobs), epoch |-> call.ep,
                    track_reads |-> ~call.urgent, read_chunks |-> {}]
             nq == IF call.urgent THEN jobs \o queue[p] ELSE queue[p] \o jobs
  <2>2. jobs \in Seq(Job) /\ Len(jobs) \in Nat /\ \A k \in DOMAIN jobs : jobs[k].w = v
    BY <1>1, JobsOfFacts
  <2>3. /\ tickets \in [Pools -> [Tensors -> TicketRec]] /\ tickets[p] \in [Tensors -> TicketRec]
        /\ tk \in TicketRec /\ tk.pending \in Int
    BY <1>2 DEF IInv, Types, TicketRec
  <2>4. nt \in TicketRec /\ nt.pending = tk.pending + Len(jobs)
    <3> HIDE DEF tk, call
    <3> QED BY <1>2, <2>2, <2>3 DEF TicketRec
  <2>5. queue \in [Pools -> Seq(Job)] /\ queue[p] \in Seq(Job)
    BY <1>2 DEF IInv, Types
  <2>6. nq \in Seq(Job)
    BY <2>2, <2>5
  <2>7. /\ tickets' = [tickets EXCEPT ![p] = [tickets[p] EXCEPT ![v] = nt]]
        /\ queue' = [queue EXCEPT ![p] = nq]
    BY <2>1
  <2> HIDE DEF nt, nq, p, v
  <2>8. queue' \in [Pools -> Seq(Job)] /\ tickets' \in [Pools -> [Tensors -> TicketRec]]
    BY <1>2, <2>3, <2>4, <2>5, <2>6, <2>7
  <2>9. PoolsOK'
    <3>1. PoolsOK
      BY DEF IInv, Ownership
    <3>2. \A q \in Pools : q # p => queue'[q] = queue[q]
      BY <2>5, <2>7
    <3>3. ~(p > made)
      BY <1>3
    <3> QED BY <1>3, <1>4, <3>1, <3>2, <3>3 DEF PoolsOK
  <2>10. PendingExact'
    <3> SUFFICES ASSUME NEW q \in Pools, NEW w \in Tensors
                 PROVE  tickets'[q][w].pending = Count(queue'[q], workers'[q], w)
      BY PendingIs
    <3>0. tickets[q][w].pending = Count(queue[q], workers[q], w) /\ workers' = workers
      BY <1>4, PendingIs DEF IInv
    <3>1. CASE q # p
      BY <1>2, <2>3, <2>5, <2>7, <3>0, <3>1
    <3>2. CASE q = p
      <4>1. queue'[p] = nq /\ tickets'[p] = [tickets[p] EXCEPT ![v] = nt]
        BY <1>2, <2>3, <2>5, <2>7
      <4>2. tickets'[p][w].pending = IF w = v THEN tickets[p][w].pending + Len(jobs)
                                              ELSE tickets[p][w].pending
        BY <1>2, <2>3, <2>4, <4>1 DEF p, v
      <4>3. Cardinality(At(jobs, w)) = IF w = v THEN Len(jobs) ELSE 0
        BY <2>2, AtUniform
      <4>4. Cardinality(At(nq, w)) = Cardinality(At(queue[p], w)) + Cardinality(At(jobs, w))
        <5>1. /\ Cardinality(At(queue[p], w)) \in Nat /\ Cardinality(At(jobs, w)) \in Nat
          BY <2>2, <2>5, AtFinite
        <5>2. /\ Cardinality(At(jobs \o queue[p], w)) =
                   Cardinality(At(jobs, w)) + Cardinality(At(queue[p], w))
              /\ Cardinality(At(queue[p] \o jobs, w)) =
                   Cardinality(At(queue[p], w)) + Cardinality(At(jobs, w))
          BY <2>2, <2>5, AtConcat
        <5> QED BY <5>1, <5>2 DEF nq
      <4>5. /\ Cardinality(At(queue[p], w)) \in Nat /\ Cardinality(Hands(workers[p], w)) \in Nat
        BY <2>5, AtFinite, HandsFinite
      <4> QED BY <2>2, <3>0, <3>2, <4>1, <4>2, <4>3, <4>4, <4>5 DEF Count
    <3> QED BY <3>1, <3>2
  <2> QED BY <1>4, <1>5, <1>6, <2>8, <2>9, <2>10, TicketStep
<1> QED BY <1>7, <1>8

-----------------------------------------------------------------------------
(* The life of a pool.                                                     *)

(* stop() drops the queue of a pool and counts what was in it as done. *)
LEMMA StopPool ==
  ASSUME IInv, NEW p \in Pools, Stop(p), UNCHANGED workers
  PROVE  /\ shutdown' = [shutdown EXCEPT ![p] = TRUE]
         /\ shutdown' \in [Pools -> BOOLEAN]
         /\ queue' = [queue EXCEPT ![p] = <<>>]
         /\ queue' \in [Pools -> Seq(Job)]
         /\ tickets' \in [Pools -> [Tensors -> TicketRec]]
         /\ PendingExact'
<1> DEFINE C == Completed(p)
<1>1. /\ tickets \in [Pools -> [Tensors -> TicketRec]] /\ tickets[p] \in [Tensors -> TicketRec]
      /\ queue \in [Pools -> Seq(Job)] /\ queue[p] \in Seq(Job)
      /\ shutdown \in [Pools -> BOOLEAN]
  BY DEF IInv, Types
<1>2. /\ shutdown' = [shutdown EXCEPT ![p] = TRUE]
      /\ tickets' = [tickets EXCEPT ![p] = C]
      /\ queue' = [queue EXCEPT ![p] = <<>>]
  BY DEF Stop
<1>3. ASSUME NEW w \in Tensors
      PROVE  C[w] \in TicketRec /\ C[w].pending = tickets[p][w].pending - Cardinality(At(queue[p], w))
  <2> DEFINE n == tickets[p][w].pending - Cardinality(At(queue[p], w))
  <2>1. tickets[p][w] \in TicketRec /\ tickets[p][w].pending \in Int
    BY <1>1 DEF TicketRec
  <2>2. n \in Int
    BY <1>1, <2>1, AtFinite
  <2>3. C[w] = [tickets[p][w] EXCEPT !.pending = n]
    BY DEF Completed, Queued, At
  <2> HIDE DEF n, C
  <2>4. C[w] \in TicketRec /\ C[w].pending = n
    BY <2>1, <2>2, <2>3, TicketUpdate
  <2> QED BY <2>4 DEF n
<1>4. C = [w \in Tensors |-> C[w]]
  BY DEF Completed
<1> HIDE DEF C
<1>5. C \in [Tensors -> TicketRec]
  BY <1>3, <1>4
<1>6. PendingExact'
  <2> SUFFICES ASSUME NEW q \in Pools, NEW w \in Tensors
               PROVE  tickets'[q][w].pending = Count(queue'[q], workers'[q], w)
    BY PendingIs
  <2>0. tickets[q][w].pending = Count(queue[q], workers[q], w) /\ workers' = workers
    BY PendingIs DEF IInv
  <2>1. CASE q # p
    BY <1>1, <1>2, <2>0, <2>1
  <2>2. CASE q = p
    <3>1. queue'[p] = <<>> /\ tickets'[p] = C
      BY <1>1, <1>2
    <3>2. Cardinality(At(<<>>, w)) = 0
      BY AtEmpty
    <3>3. /\ Cardinality(At(queue[p], w)) \in Nat /\ Cardinality(Hands(workers[p], w)) \in Nat
      BY <1>1, AtFinite, HandsFinite
    <3> QED BY <1>3, <2>0, <2>2, <3>1, <3>2, <3>3 DEF Count
  <2> QED BY <2>1, <2>2
<1>7. queue' \in [Pools -> Seq(Job)]
  <2>1. <<>> \in Seq(Job)
    OBVIOUS
  <2> QED BY <1>1, <1>2, <2>1
<1> QED BY <1>1, <1>2, <1>5, <1>6, <1>7

(* What the pool's life needs of the state in which it is stopped: no call *)
(* is inside it and it is no longer the one to enter.                      *)
LEMMA StoppedOwnership ==
  ASSUME IInv, NEW p \in Pools, p \in 1..made, NEW t \in Threads,
         UNCHANGED <<made, workers>>,
         shutdown' = [shutdown EXCEPT ![p] = TRUE],
         queue' = [queue EXCEPT ![p] = <<>>],
         pool' # p, pool' = pool \/ pool' = 0,
         pool_mtx => pool_mtx', pool_mtx' => pool' = 0,
         \A u \in Threads : u # t => th'[u] = th[u] /\ th[u].pool # p,
         th'[t].pc \in {"start", "join"}, th'[t].pool = p,
         th'[t].pc = "start" => pool_mtx' /\ ~pool_mtx /\ made < MaxPools
  PROVE  Ownership'
<1> USE DEF IInv, Ownership
<1>1. shutdown \in [Pools -> BOOLEAN] /\ queue \in [Pools -> Seq(Job)] /\ made \in Nat /\ 1..made \subseteq Pools
  BY MoeAssumption DEF Types, Pools
<1>2. shutdown'[p] /\ queue'[p] = <<>>
      /\ \A q \in Pools : q # p => shutdown'[q] = shutdown[q] /\ queue'[q] = queue[q]
  BY <1>1
<1>3. CallsHold'
  <2>1. CallsHold
    OBVIOUS
  <2> QED BY <1>1, <1>2, <2>1 DEF CallsHold, Outside
<1>4. JoinsStopped'
  <2>1. JoinsStopped
    OBVIOUS
  <2>2. \A u \in Threads : th[u].pool \in 0..MaxPools
    BY ThreadFacts DEF Types
  <2>3. p # 0
    BY DEF Pools
  <2> QED BY <1>2, <2>1, <2>2, <2>3, MoeAssumption DEF JoinsStopped, Pools
<1>5. OneStarts'
  <2>1. OneStarts
    OBVIOUS
  <2> QED BY <2>1 DEF OneStarts
<1>6. PoolsOK'
  <2>1. PoolsOK
    OBVIOUS
  <2>2. pool' # 0 => pool' \in Pools
    BY <1>1 DEF Types
  <2>3. ~(p > made)
    BY <1>1
  <2> QED BY <1>2, <2>1, <2>2, <2>3 DEF PoolsOK
<1> QED BY <1>3, <1>4, <1>5, <1>6

LEMMA ReleaseStep ==
  ASSUME IInv, NEW t \in Threads, Release(t)
  PROVE  IInv'
<1> DEFINE p == th[t].pool
<1>1. /\ th \in [Threads -> ThreadRec] /\ th[t] \in ThreadRec /\ th[t].pc = "release"
      /\ th[t].pc \notin Outside
  BY DEF IInv, Types, Release, Outside
<1>2. p \in 1..made /\ p \in Pools /\ ~shutdown[p]
  BY <1>1, MoeAssumption DEF IInv, Ownership, CallsHold, Types, Pools
<1>3. UNCHANGED <<pool, made, pool_mtx, epoch, mappings, workers>>
  BY DEF Release
<1>4. CASE ~(pool # p /\ LastOwner(t, p))
  <2>1. th' = [th EXCEPT ![t] = Idle] /\ UNCHANGED <<shutdown, tickets, queue>>
    BY <1>4 DEF Release
  <2>2. Idle \in ThreadRec /\ Fine(Idle)
    BY MoeAssumption DEF Idle, ThreadRec, Fine, Outside
  <2> QED BY <1>3, <2>1, <2>2, CallOnly DEF IInv, Types
<1>5. CASE pool # p /\ LastOwner(t, p)
  <2> DEFINE r == [pc |-> "join", pool |-> p]
  <2>1. Stop(p) /\ th' = [Woken(p) EXCEPT ![t] = r]
    BY <1>5 DEF Release
  <2>2. r \in ThreadRec /\ r.pc = "join" /\ r.pool = p
    BY <1>1, ThreadFacts DEF ThreadRec
  <2> HIDE DEF r
  <2>3. \A u \in Threads : u # t => th[u].pool # p
    BY <1>5 DEF LastOwner
  <2>4. /\ th'[t] = r
        /\ \A u \in Threads : u # t => th'[u] = th[u]
    BY <2>1, <2>3 DEF Woken
  <2>5. th' \in [Threads -> ThreadRec]
    <3>1. Woken(p) \in [Threads -> ThreadRec]
      BY <1>2, WokenFine
    <3> QED BY <2>1, <2>2, <3>1
  <2>6. /\ shutdown' = [shutdown EXCEPT ![p] = TRUE]
        /\ shutdown' \in [Pools -> BOOLEAN]
        /\ queue' = [queue EXCEPT ![p] = <<>>]
        /\ queue' \in [Pools -> Seq(Job)]
        /\ tickets' \in [Pools -> [Tensors -> TicketRec]]
        /\ PendingExact'
    BY <1>2, <1>3, <2>1, StopPool
  <2>7. Types'
    BY <1>3, <2>5, <2>6 DEF IInv, Types
  <2>8. pool_mtx' => pool' = 0
    BY <1>3 DEF IInv, Ownership, OneStarts
  <2>9. Ownership'
    <3> HIDE DEF p
    <3>1. /\ pool' # p
          /\ pool' = pool \/ pool' = 0
          /\ pool_mtx => pool_mtx'
          /\ UNCHANGED <<made, workers>>
      BY <1>3, <1>5
    <3>2. /\ th'[t].pc \in {"start", "join"} /\ th'[t].pool = p
          /\ th'[t].pc = "start" => pool_mtx' /\ ~pool_mtx /\ made < MaxPools
      BY <2>2, <2>4
    <3>3. \A u \in Threads : u # t => th'[u] = th[u] /\ th[u].pool # p
      BY <2>3, <2>4
    <3>4. shutdown' = [shutdown EXCEPT ![p] = TRUE] /\ queue' = [queue EXCEPT ![p] = <<>>]
      BY <2>6
    <3> QED BY ONLY IInv, t \in Threads, <1>2, <2>8, <3>1, <3>2, <3>3, <3>4, StoppedOwnership
  <2> QED BY <2>6, <2>7, <2>9 DEF IInv
<1> QED BY <1>4, <1>5

(* A pool that is stopped and whose workers are gone has nothing to count, *)
(* so that freeing it keeps the counts exact.                              *)
LEMMA FreedPool ==
  ASSUME IInv, NEW p \in 0..MaxPools, p # 0 => shutdown[p] /\ AllGone(p),
         tickets' = Freed(p), UNCHANGED queue,
         \A q \in Pools, w \in Tensors : Hands(workers'[q], w) = Hands(workers[q], w)
  PROVE  tickets' \in [Pools -> [Tensors -> TicketRec]] /\ PendingExact'
<1>1. tickets \in [Pools -> [Tensors -> TicketRec]]
  BY DEF IInv, Types
<1>2. CASE p = 0
  <2>1. tickets' = tickets
    BY <1>2 DEF Freed
  <2> QED BY <1>1, <2>1, SamePending
<1>3. CASE p # 0
  <2> DEFINE N == [w \in Tensors |-> NewTicket]
  <2>1. p \in Pools /\ queue[p] = <<>>
    BY <1>3 DEF IInv, Ownership, PoolsOK, Pools
  <2>2. tickets' = [tickets EXCEPT ![p] = N]
    BY <1>3 DEF Freed
  <2>3. NewTicket \in TicketRec /\ NewTicket.pending = 0
    BY MoeAssumption DEF NewTicket, TicketRec
  <2>4. N \in [Tensors -> TicketRec] /\ \A w \in Tensors : N[w].pending = 0
    BY <2>3
  <2> HIDE DEF N
  <2>5. tickets' \in [Pools -> [Tensors -> TicketRec]]
    BY <1>1, <2>1, <2>2, <2>4
  <2>6. PendingExact'
    <3> SUFFICES ASSUME NEW q \in Pools, NEW w \in Tensors
                 PROVE  tickets'[q][w].pending = Count(queue'[q], workers'[q], w)
      BY PendingIs
    <3>0. tickets[q][w].pending = Count(queue[q], workers[q], w)
      BY PendingIs DEF IInv
    <3>1. Count(queue'[q], workers'[q], w) = Count(queue[q], workers[q], w)
      BY DEF Count
    <3>2. CASE q # p
      BY <1>1, <2>2, <3>0, <3>1, <3>2
    <3>3. CASE q = p
      <4>1. \A i \in 1..NWorkers : workers[p][i].pc # "read"
        BY <1>3 DEF AllGone
      <4>2. Cardinality(Hands(workers[p], w)) = 0
        BY <4>1, HandsNone
      <4>3. Cardinality(At(queue[p], w)) = 0
        BY <2>1, AtEmpty
      <4>4. tickets'[p][w].pending = 0
        BY <1>1, <2>1, <2>2, <2>4
      <4> QED BY <3>1, <3>3, <4>2, <4>3, <4>4 DEF Count
    <3> QED BY <3>2, <3>3
  <2> QED BY <2>5, <2>6
<1> QED BY <1>2, <1>3

LEMMA JoinStep ==
  ASSUME IInv, NEW t \in Threads, Join(t)
  PROVE  IInv'
<1> DEFINE p == th[t].pool
<1>1. th \in [Threads -> ThreadRec] /\ th[t] \in ThreadRec /\ th[t].pc = "join"
  BY DEF IInv, Types, Join
<1>2. p \in 0..MaxPools /\ shutdown[p] /\ AllGone(p)
  BY <1>1, ThreadFacts DEF IInv, Ownership, JoinsStopped, Join
<1>3. UNCHANGED <<pool, made, pool_mtx, epoch, mappings, queue, shutdown, workers>>
      /\ tickets' = Freed(p) /\ th' = [th EXCEPT ![t] = Idle]
  BY DEF Join
<1>4. tickets' \in [Pools -> [Tensors -> TicketRec]] /\ PendingExact'
  <2> HIDE DEF p
  <2>1. \A q \in Pools, w \in Tensors : Hands(workers'[q], w) = Hands(workers[q], w)
    BY <1>3
  <2> QED BY <1>2, <1>3, <2>1, FreedPool
<1>5. Idle \in ThreadRec /\ Fine(Idle)
  BY MoeAssumption DEF Idle, ThreadRec, Fine, Outside
<1>6. th' \in [Threads -> ThreadRec] /\ \A u \in Threads : th'[u] = th[u] \/ Fine(th'[u])
  BY <1>1, <1>3, <1>5
<1>7. PoolsOK' /\ queue' \in [Pools -> Seq(Job)] /\ workers' \in [Pools -> [1..NWorkers -> WorkerRec]]
  BY <1>3 DEF IInv, Ownership, PoolsOK, Types
<1> QED BY <1>3, <1>4, <1>6, <1>7, TicketStep

LEMMA SetThreadsStep ==
  ASSUME IInv, NEW t \in Threads, NEW n \in 1..NWorkers, set_n_threads(t, n)
  PROVE  IInv'
<1> DEFINE stopping == pool # 0 /\ LastOwner(t, pool)
           r == [pc |-> "start", pool |-> IF stopping THEN pool ELSE 0, n |-> n]
<1>1. /\ th \in [Threads -> ThreadRec] /\ made \in 0..MaxPools /\ pool \in 0..made
      /\ th[t].pc = "idle" /\ ~pool_mtx /\ made < MaxPools
  BY DEF set_n_threads, IInv, Types
<1>2. /\ pool_mtx' = TRUE /\ pool' = 0
      /\ UNCHANGED <<made, epoch, mappings, workers>>
      /\ th' = [th EXCEPT ![t] = r]
  BY DEF set_n_threads
<1>3. /\ r \in ThreadRec /\ r.pc = "start"
      /\ r.pool = IF stopping THEN pool ELSE 0
  <2> HIDE DEF stopping
  <2>1. pool \in 0..MaxPools /\ 0 \in 0..MaxPools
    BY <1>1, MoeAssumption
  <2> QED BY <2>1 DEF ThreadRec
<1> HIDE DEF r
<1>4. th' \in [Threads -> ThreadRec] /\ th'[t] = r /\ \A u \in Threads : u # t => th'[u] = th[u]
  BY <1>1, <1>2, <1>3
<1>5. pool' \in 0..made' /\ pool_mtx' \in BOOLEAN
  BY <1>1, <1>2
<1>6. CASE stopping
  <2>1. Stop(pool)
    BY <1>6 DEF set_n_threads
  <2>2. pool \in Pools /\ pool \in 1..made
    <3>1. pool # 0
      BY <1>6
    <3> QED BY <1>1, <3>1, MoeAssumption DEF Pools
  <2>3. /\ shutdown' = [shutdown EXCEPT ![pool] = TRUE]
        /\ shutdown' \in [Pools -> BOOLEAN]
        /\ queue' = [queue EXCEPT ![pool] = <<>>]
        /\ queue' \in [Pools -> Seq(Job)]
        /\ tickets' \in [Pools -> [Tensors -> TicketRec]]
        /\ PendingExact'
    BY <1>2, <2>1, <2>2, StopPool
  <2>4. Types'
    BY <1>2, <1>4, <1>5, <2>3 DEF IInv, Types
  <2>5. Ownership'
    <3>1. /\ pool' # pool
          /\ pool' = pool \/ pool' = 0
          /\ pool_mtx => pool_mtx'
          /\ pool_mtx' => pool' = 0
          /\ UNCHANGED <<made, workers>>
      BY <1>1, <1>2, <1>6
    <3>2. /\ th'[t].pc \in {"start", "join"} /\ th'[t].pool = pool
          /\ th'[t].pc = "start" => pool_mtx' /\ ~pool_mtx /\ made < MaxPools
      BY <1>1, <1>2, <1>3, <1>4, <1>6
    <3>3. \A u \in Threads : u # t => th'[u] = th[u] /\ th[u].pool # pool
      BY <1>4, <1>6 DEF LastOwner
    <3>4. shutdown' = [shutdown EXCEPT ![pool] = TRUE] /\ queue' = [queue EXCEPT ![pool] = <<>>]
      BY <2>3
    <3> QED BY ONLY IInv, t \in Threads, <2>2, <3>1, <3>2, <3>3, <3>4, StoppedOwnership
  <2> QED BY <2>3, <2>4, <2>5 DEF IInv
<1>7. CASE ~stopping
  <2>1. UNCHANGED <<shutdown, tickets, queue>>
    BY <1>7 DEF set_n_threads
  <2>2. Types'
    BY <1>2, <1>4, <1>5, <2>1 DEF IInv, Types
  <2>3. th'[t].pc = "start" /\ th'[t].pool = 0
    BY <1>3, <1>4, <1>7
  <2>4. CallsHold'
    <3>1. CallsHold
      BY DEF IInv, Ownership
    <3> QED BY <1>2, <1>4, <2>1, <2>3, <3>1 DEF CallsHold, Outside
  <2>5. JoinsStopped'
    <3>1. JoinsStopped
      BY DEF IInv, Ownership
    <3> QED BY <1>4, <2>1, <2>3, <3>1 DEF JoinsStopped
  <2>6. OneStarts'
    <3>1. OneStarts
      BY DEF IInv, Ownership
    <3> QED BY <1>1, <1>2, <1>4, <2>3, <3>1 DEF OneStarts
  <2>7. PoolsOK'
    BY <1>2, <2>1 DEF IInv, Ownership, PoolsOK
  <2>8. PendingExact'
    BY <1>2, <2>1, PendingIs DEF IInv
  <2> QED BY <2>2, <2>4, <2>5, <2>6, <2>7, <2>8 DEF IInv, Ownership
<1> QED BY <1>6, <1>7

LEMMA StartStep ==
  ASSUME IInv, NEW t \in Threads, Start(t)
  PROVE  IInv'
<1> DEFINE p == th[t].pool
           m == made + 1
           W == [i \in 1..NWorkers |-> IF i <= th[t].n THEN Off("wait") ELSE Off("none")]
<1>1. th \in [Threads -> ThreadRec] /\ th[t] \in ThreadRec /\ th[t].pc = "start"
  BY DEF IInv, Types, Start
<1>2. p \in 0..MaxPools /\ (p # 0 => shutdown[p] /\ AllGone(p))
  BY <1>1, ThreadFacts DEF IInv, Ownership, JoinsStopped, Start
<1>3. /\ made \in 0..MaxPools /\ made < MaxPools /\ m \in Pools /\ m > made /\ m \in 1..m
      /\ ~shutdown[m] /\ queue[m] = <<>>
      /\ \A i \in 1..NWorkers : workers[m][i].pc = "none"
  <2>1. made \in 0..MaxPools /\ made < MaxPools
    BY <1>1 DEF IInv, Types, Ownership, OneStarts
  <2>2. m \in Pools /\ m > made /\ m \in 1..m
    BY <2>1, MoeAssumption DEF Pools
  <2> QED BY <2>1, <2>2 DEF IInv, Ownership, PoolsOK
<1>4. /\ pool' = m /\ made' = m
      /\ workers' = [workers EXCEPT ![m] = W]
      /\ tickets' = Freed(p) /\ pool_mtx' = FALSE
      /\ th' = [th EXCEPT ![t] = Idle]
      /\ UNCHANGED <<epoch, mappings, queue, shutdown>>
  BY DEF Start
<1>5. W \in [1..NWorkers -> WorkerRec] /\ \A i \in 1..NWorkers : W[i].pc # "read"
  BY DEF Off, WorkerRec
<1> HIDE DEF W, p
<1>6. /\ workers \in [Pools -> [1..NWorkers -> WorkerRec]]
      /\ workers' \in [Pools -> [1..NWorkers -> WorkerRec]]
      /\ workers'[m] = W /\ \A q \in Pools : q # m => workers'[q] = workers[q]
  BY <1>3, <1>4, <1>5 DEF IInv, Types
<1>7. \A q \in Pools, w \in Tensors : Hands(workers'[q], w) = Hands(workers[q], w)
  <2> TAKE q \in Pools, w \in Tensors
  <2>1. CASE q # m
    BY <1>6, <2>1
  <2>2. CASE q = m
    <3>1. Hands(W, w) = {} /\ Hands(workers[m], w) = {}
      BY <1>3, <1>5 DEF Hands
    <3> QED BY <1>6, <2>2, <3>1
  <2> QED BY <2>1, <2>2
<1>8. tickets' \in [Pools -> [Tensors -> TicketRec]] /\ PendingExact'
  BY <1>2, <1>4, <1>7, FreedPool
<1>9. /\ Idle \in ThreadRec /\ Idle.pc = "idle" /\ Idle.pool = 0
      /\ th' \in [Threads -> ThreadRec] /\ th'[t] = Idle
      /\ \A u \in Threads : u # t => th'[u] = th[u]
  <2>1. Idle \in ThreadRec /\ Idle.pc = "idle" /\ Idle.pool = 0
    BY MoeAssumption DEF Idle, ThreadRec
  <2> QED BY <1>1, <1>4, <2>1
<1>10. Types'
  <2>1. made' \in 0..MaxPools /\ pool' \in 0..made'
    BY <1>3, <1>4, MoeAssumption
  <2> QED BY <1>4, <1>6, <1>8, <1>9, <2>1 DEF IInv, Types
<1>11. CallsHold'
  <2>1. CallsHold
    BY DEF IInv, Ownership
  <2>2. \A u \in Threads : u # t => th'[u] = th[u]
    BY <1>9
  <2>3. 1..made \subseteq 1..m
    BY <1>3
  <2>4. th'[t].pc \in Outside
    BY <1>9 DEF Outside
  <2> QED BY <1>4, <2>1, <2>2, <2>3, <2>4 DEF CallsHold
<1>12. JoinsStopped'
  <2>1. JoinsStopped
    BY DEF IInv, Ownership
  <2> QED BY <1>4, <1>9, <2>1 DEF JoinsStopped
<1>13. OneStarts'
  <2>1. \A u \in Threads : u # t => th[u].pc # "start"
    BY <1>1 DEF IInv, Ownership, OneStarts
  <2>2. \A u \in Threads : th'[u].pc # "start"
    BY <1>9, <2>1
  <2> QED BY <1>4, <2>2 DEF OneStarts
<1>14. PoolsOK'
  <2>1. PoolsOK
    BY DEF IInv, Ownership
  <2>2. ASSUME NEW q \in Pools, q > m
        PROVE  /\ ~shutdown'[q] /\ queue'[q] = <<>>
               /\ \A i \in 1..NWorkers : workers'[q][i].pc = "none"
    <3>1. q > made /\ q # m
      BY <1>3, <2>2 DEF Pools
    <3> QED BY <1>4, <1>6, <2>1, <3>1 DEF PoolsOK
  <2>3. pool' # 0 => ~shutdown'[pool']
    BY <1>3, <1>4
  <2>4. \A q \in Pools : shutdown'[q] => queue'[q] = <<>>
    BY <1>4, <2>1 DEF PoolsOK
  <2> QED BY <1>4, <2>2, <2>3, <2>4 DEF PoolsOK
<1> QED BY <1>8, <1>10, <1>11, <1>12, <1>13, <1>14 DEF IInv, Ownership

LEMMA MappingStep ==
  ASSUME IInv, NEW w \in Tensors, register_mapping(w) \/ unregister_mapping(w)
  PROVE  IInv'
<1>1. mappings' \subseteq Tensors
      /\ UNCHANGED <<pool, made, pool_mtx, epoch, queue, shutdown, tickets, workers, th>>
  BY DEF register_mapping, unregister_mapping, IInv, Types
<1>2. Types'
  BY <1>1 DEF IInv, Types
<1>3. Ownership'
  BY <1>1 DEF IInv, Ownership, CallsHold, JoinsStopped, OneStarts, PoolsOK
<1>4. PendingExact'
  BY <1>1, PendingIs DEF IInv
<1> QED BY <1>2, <1>3, <1>4 DEF IInv

-----------------------------------------------------------------------------
(* The invariant holds initially and every step keeps it.                  *)

LEMMA InitIInv == Init => IInv
<1> SUFFICES ASSUME Init PROVE IInv
  OBVIOUS
<1> USE DEF Init
<1>1. Types
  <2>1. Idle \in ThreadRec /\ Off("none") \in WorkerRec /\ NewTicket \in TicketRec
    BY MoeAssumption DEF Idle, ThreadRec, Off, WorkerRec, NewTicket, TicketRec
  <2>2. <<>> \in Seq(Job)
    OBVIOUS
  <2>3. made \in 0..MaxPools /\ pool \in 0..made /\ pool_mtx \in BOOLEAN /\ epoch \in 1..MaxEpoch
    <3>1. MaxPools \in Nat /\ MaxEpoch \in Nat /\ MaxEpoch >= 1
      BY ONLY MoeAssumption
    <3>2. made = 0 /\ pool = 0 /\ epoch = 1 /\ pool_mtx = FALSE
      OBVIOUS
    <3>3. pool_mtx \in BOOLEAN
      BY ONLY <3>2
    <3>4. made \in 0..MaxPools /\ pool \in 0..made /\ epoch \in 1..MaxEpoch
      BY ONLY <3>1, made = 0, pool = 0, epoch = 1
    <3> QED BY ONLY <3>3, <3>4
  <2>4. workers \in [Pools -> [1..NWorkers -> WorkerRec]] /\ th \in [Threads -> ThreadRec]
    BY <2>1
  <2>5. tickets \in [Pools -> [Tensors -> TicketRec]]
    BY <2>1
  <2> QED BY <2>2, <2>3, <2>4, <2>5 DEF Types
<1>2. Ownership
  BY DEF Ownership, CallsHold, JoinsStopped, OneStarts, PoolsOK, Idle, Off, Outside, Pools
<1>3. PendingExact
  <2> SUFFICES ASSUME NEW p \in Pools, NEW w \in Tensors
               PROVE  tickets[p][w].pending = Count(queue[p], workers[p], w)
    BY PendingIs
  <2>1. tickets[p][w].pending = 0 /\ queue[p] = <<>>
    BY DEF NewTicket
  <2>2. \A i \in 1..NWorkers : workers[p][i].pc # "read"
    BY DEF Off
  <2>3. Cardinality(Hands(workers[p], w)) = 0
    BY <2>2, HandsNone
  <2>4. Cardinality(At(queue[p], w)) = 0
    BY <2>1, AtEmpty
  <2> QED BY <2>1, <2>3, <2>4 DEF Count
<1> QED BY <1>1, <1>2, <1>3 DEF IInv

LEMMA NextIInv == IInv /\ [Next]_vars => IInv'
<1> SUFFICES ASSUME IInv, [Next]_vars PROVE IInv'
  OBVIOUS
<1>1. ASSUME NEW p \in Pools, NEW i \in 1..NWorkers, Worker(p, i) PROVE IInv'
  BY <1>1, PopStep, ExitStep, ReadStep, RecordStep DEF Worker
<1>2. ASSUME NEW t \in Creators, Create(t) PROVE IInv'
  BY <1>2, SetThreadsStep DEF Create, Threads
<1>3. ASSUME NEW t \in Graphs, Call(t) PROVE IInv'
  BY <1>3, CallStep DEF Threads
<1>4. ASSUME NEW t \in Threads, Proceed(t) PROVE IInv'
  BY <1>4, StartStep, IsMappedStep, EnqueueStep, WaitFindStep, ColdStep, ReleaseStep, JoinStep
     DEF Proceed
<1>5. ASSUME NEW w \in Tensors, register_mapping(w) \/ unregister_mapping(w) PROVE IInv'
  BY <1>5, MappingStep
<1>6. CASE UNCHANGED vars
  <2>1. UNCHANGED <<pool, made, pool_mtx, epoch, mappings, queue, shutdown, tickets, workers, th>>
    BY <1>6 DEF vars
  <2>2. Types' /\ Ownership'
    BY <2>1 DEF IInv, Types, Ownership, CallsHold, JoinsStopped, OneStarts, PoolsOK
  <2>3. PendingExact'
    BY <2>1, PendingIs DEF IInv
  <2> QED BY <2>2, <2>3 DEF IInv
<1> QED BY <1>1, <1>2, <1>3, <1>4, <1>5, <1>6 DEF Next

LEMMA Safety == Spec => []IInv
<1>1. Init /\ [][Next]_vars => []IInv
  BY InitIInv, NextIInv, PTL
<1> QED BY <1>1, PTL DEF Spec

-----------------------------------------------------------------------------
(* The properties.                                                         *)

(* Counts are numbers, because they count something, and a stopped pool    *)
(* has been made.                                                          *)
LEMMA TypeOKFromIInv == IInv => TypeOK
<1> SUFFICES ASSUME IInv PROVE TypeOK
  OBVIOUS
<1>1. ASSUME NEW p \in Pools, NEW w \in Tensors PROVE tickets[p][w] \in Ticket
  <2>1. tickets[p][w] \in TicketRec
    BY DEF IInv, Types
  <2>2. tickets[p][w].pending = Count(queue[p], workers[p], w)
    BY PendingIs DEF IInv
  <2>3. Count(queue[p], workers[p], w) \in Nat
    <3>1. queue[p] \in Seq(Job)
      BY DEF IInv, Types
    <3>2. Cardinality(At(queue[p], w)) \in Nat /\ Cardinality(Hands(workers[p], w)) \in Nat
      BY <3>1, AtFinite, HandsFinite
    <3> QED BY <3>2 DEF Count
  <2> QED BY <2>1, <2>2, <2>3 DEF TicketRec, Ticket
<1>2. ASSUME NEW p \in Pools
      PROVE  /\ \A k \in DOMAIN queue[p] : queue[p][k] \in Job
             /\ \A i \in 1..NWorkers :
                  workers[p][i].pc \in {"none", "wait", "read", "record", "gone"}
  <2>1. queue[p] \in Seq(Job) /\ workers[p] \in [1..NWorkers -> WorkerRec]
    BY DEF IInv, Types
  <2>2. \A k \in DOMAIN queue[p] : queue[p][k] \in Job
    BY <2>1
  <2> QED BY <2>1, <2>2, WorkerFacts
<1>3. ASSUME NEW t \in Threads PROVE th[t].pool \in 0..made
  <2>1. th[t] \in ThreadRec /\ made \in 0..MaxPools
    BY DEF IInv, Types
  <2>2. th[t].pool \in 0..MaxPools
    BY <2>1, ThreadFacts
  <2>3. CASE th[t].pc \notin Outside
    BY <2>1, <2>3 DEF IInv, Ownership, CallsHold
  <2>4. CASE th[t].pc \in Outside
    <3>1. th[t].pool = 0 \/ shutdown[th[t].pool]
      BY <2>4 DEF IInv, Ownership, JoinsStopped, Outside
    <3>2. th[t].pool # 0 => th[t].pool \in Pools
      BY <2>2, MoeAssumption DEF Pools
    <3>3. th[t].pool # 0 => ~(th[t].pool > made)
      BY <3>1, <3>2 DEF IInv, Ownership, PoolsOK
    <3> QED BY <2>1, <2>2, <3>3, MoeAssumption
  <2> QED BY <2>3, <2>4
<1> QED BY <1>1, <1>2, <1>3 DEF TypeOK, IInv, Types

(* Whoever goes on from a wait has looked at the count in that step. *)
LEMMA LeavesWait ==
  ASSUME IInv, Next, NEW t \in Threads, th[t].pc \in {"find", "check"}, th'[t].pc = "release"
  PROVE  WaitFind(t) \/ WaitCheck(t)
<1>0. th \in [Threads -> ThreadRec]
  BY DEF IInv, Types
<1>1. th'[t] # th[t]
  OBVIOUS
<1>2. ASSUME NEW p \in Pools, NEW i \in 1..NWorkers, Worker(p, i) PROVE FALSE
  <2>1. th' = th \/ th' = Woken(p)
    BY <1>2 DEF Worker, Pop, Exit, Read, Record
  <2>2. Woken(p)[t] = th[t]
    BY DEF Woken
  <2> QED BY <1>1, <2>1, <2>2
<1>3. ASSUME NEW u \in Creators, Create(u) PROVE FALSE
  <2>1. th[u].pc = "idle" /\ \A v \in Threads : v # u => th'[v] = th[v]
    BY <1>0, <1>3 DEF Create, set_n_threads
  <2> QED BY <1>1, <2>1
<1>4. ASSUME NEW u \in Graphs, Call(u) PROVE FALSE
  <2>1. th[u].pc = "idle" /\ \A v \in Threads : v # u => th'[v] = th[v]
    BY <1>0, <1>4 DEF Call, new_epoch, Enter, ggml_moe_prefetch_tensor, ggml_moe_prefetch_node,
                      ggml_moe_prefetch_wait, ggml_moe_prefetch_cold
  <2> QED BY <1>1, <2>1
<1>5. ASSUME NEW u \in Threads, Proceed(u) PROVE WaitFind(t) \/ WaitCheck(t)
  <2>1. CASE WaitFind(u) \/ WaitCheck(u)
    <3>1. \A v \in Threads : v # u => th'[v] = th[v]
      BY <1>0, <2>1 DEF WaitFind, WaitCheck
    <3> QED BY <1>1, <2>1, <3>1
  <2>2. CASE Start(u) \/ IsMapped(u) \/ enqueue_ranges(u) \/ Cold(u) \/ Join(u)
    <3>1. /\ th[u].pc \notin {"find", "check"}
          /\ \A v \in Threads : v # u => th'[v] = th[v]
      BY <1>0, <2>2 DEF Start, IsMapped, enqueue_ranges, Cold, Join
    <3> QED BY <1>1, <3>1
  <2>3. CASE Release(u)
    <3>1. /\ th[u].pc = "release"
          /\ \A v \in Threads : v # u => th'[v] = th[v] \/ th'[v] = Woken(th[u].pool)[v]
      BY <1>0, <2>3 DEF Release, Woken
    <3>2. Woken(th[u].pool)[t] = th[t]
      BY DEF Woken
    <3> QED BY <1>1, <3>1, <3>2
  <2> QED BY <1>5, <2>1, <2>2, <2>3 DEF Proceed
<1>6. ASSUME NEW w \in Tensors, register_mapping(w) \/ unregister_mapping(w) PROVE FALSE
  BY <1>1, <1>6 DEF register_mapping, unregister_mapping
<1> QED BY <1>2, <1>3, <1>4, <1>5, <1>6 DEF Next

(* When wait() of ggml-moe-prefetch.cpp goes on, the pool it is in is not  *)
(* stopped, so the count is 0, and it is the count of what is outstanding. *)
LEMMA WaitNothingLeft ==
  ASSUME IInv, Next, NEW t \in Threads, th[t].pc \in {"find", "check"}, th'[t].pc = "release"
  PROVE  Queued(th[t].pool, th[t].w) + InHand(th[t].pool, th[t].w) = 0
<1> DEFINE p == th[t].pool
           w == th[t].w
<1>1. th \in [Threads -> ThreadRec] /\ th[t] \in ThreadRec
  BY DEF IInv, Types
<1>2. p \in Pools /\ w \in Tensors
  BY <1>1, ThreadFacts
<1>3. ~shutdown[p]
  BY DEF IInv, Ownership, CallsHold, Outside
<1>4. Arrived(p, w)
  <2>1. WaitFind(t) \/ WaitCheck(t)
    BY LeavesWait
  <2>2. th'[t] = [th[t] EXCEPT !.pc = IF Arrived(p, w) THEN "release" ELSE "check"]
          \/ th'[t] = [th[t] EXCEPT !.pc = IF shutdown[p] \/ Arrived(p, w) THEN "release" ELSE "asleep"]
    BY <1>1, <2>1 DEF WaitFind, WaitCheck
  <2>3. \A c : [th[t] EXCEPT !.pc = c].pc = c
    BY <1>1 DEF ThreadRec
  <2> QED BY <1>3, <2>2, <2>3
<1>5. Count(queue[p], workers[p], w) <= 0
  BY <1>2, <1>4, PendingIs DEF IInv, Arrived
<1>6. Cardinality(At(queue[p], w)) \in Nat /\ Cardinality(Hands(workers[p], w)) \in Nat
  <2>1. queue[p] \in Seq(Job)
    BY <1>2 DEF IInv, Types
  <2> QED BY <2>1, AtFinite, HandsFinite
<1>7. Count(queue[p], workers[p], w) = 0
  BY <1>5, <1>6 DEF Count
<1> QED BY <1>7 DEF Count, Queued, InHand, At, Hands

(* Type correctness: in particular no count of outstanding jobs ever goes  *)
(* below zero, whatever order workers count, record and stop in.           *)
THEOREM TypeCorrect == Spec => []TypeOK
BY Safety, TypeOKFromIInv, PTL

(* A ticket's pending count is the number of jobs of its tensor that are   *)
(* queued or being read, for any number of threads, tensors, workers and   *)
(* pools: fetch_sub before the mutex, urgent insertion at the front and    *)
(* the completion of dropped jobs by stop() keep it so.                    *)
THEOREM CountsExact == Spec => []PendingExact
BY Safety, PTL DEF IInv

(* wait() never goes on while a job of its tensor is outstanding.          *)
THEOREM WaitComplete == Spec => WaitedForAll
<1> DEFINE A == \A t \in Threads :
                    /\ th[t].pc \in {"find", "check"}
                    /\ th'[t].pc = "release"
                    => Queued(th[t].pool, th[t].w) + InHand(th[t].pool, th[t].w) = 0
<1>1. IInv /\ [Next]_vars => [A]_vars
  <2>1. ASSUME IInv, Next PROVE A
    BY <2>1, WaitNothingLeft
  <2> HIDE DEF A
  <2> QED BY <2>1
<1>2. Spec => []IInv /\ [][Next]_vars
  BY Safety, PTL DEF Spec
<1>3. Spec => [][A]_vars
  <2> HIDE DEF A
  <2> QED BY <1>1, <1>2, PTL
<1> QED BY <1>3 DEF WaitedForAll

(* A pool is never stopped under a call that is inside it.                 *)
THEOREM PoolsOutliveCalls == Spec => []PoolOutlivesCalls
<1>1. IInv => PoolOutlivesCalls
  BY DEF IInv, Ownership, CallsHold, Outside, PoolOutlivesCalls
<1> QED BY <1>1, Safety, PTL
=============================================================================
