----------------------------- MODULE GraphAlloc -----------------------------
(***************************************************************************)
(* The graph allocator of ggml/src/ggml-alloc.c for one buffer: it walks   *)
(* the nodes of a graph in the order in which they will be computed, gives *)
(* each an address in one compute buffer, reuses the memory of tensors     *)
(* that are not read any more (in place or through a list of free blocks), *)
(* and remembers the plan for the next graph, which is planned anew only   *)
(* if it does not fit.  The model then computes the graph on that memory,  *)
(* to see whose values the nodes really read.                              *)
(*                                                                         *)
(* Sizes are in units of the buffer's alignment (the code rounds them up   *)
(* in alloc and in free alike).  Weights, which have memory of their own,  *)
(* never enter the plan and are left out.  A view covers its whole source. *)
(* The loops over inputs, nodes and the parents of a node are steps.       *)
(***************************************************************************)
EXTENDS Integers, Sequences, FiniteSets, SequencesExt

CONSTANTS
    NLeafs,         \* graph inputs
    NNodes,         \* nodes of a graph
    MaxSrc,         \* GGML_MAX_SRC
    Sizes,          \* sizes of tensors
    Limit,          \* SIZE_MAX/2: what the measuring allocator starts with
    MaxGraphs,      \* bound: graphs computed one after the other
    NewTopology,    \* whether a later graph may be wired differently
    UnreadLeafs     \* whether a graph may have inputs that none of its nodes reads

ASSUME AllocAssumption ==
    /\ NLeafs \in Nat \ {0} /\ NNodes \in Nat /\ MaxGraphs \in Nat /\ Limit \in Nat \ {0}
    /\ Sizes \subseteq Nat \ {0} /\ MaxSrc \in Nat
    /\ NewTopology \in BOOLEAN /\ UnreadLeafs \in BOOLEAN
    /\ \A s \in Sizes : (NLeafs + NNodes) * s < Limit

VARIABLES
    graph,          \* its tensors: leafs, then nodes in order of computation
    phase,          \* build, plan, run, done
    at,             \* the last tensor planned or computed
    parents,        \* how many parents of the node that is planned were updated
    n_children, n_views, offset, allocated,     \* hash_values of each tensor
    free_blocks,    \* of the dynamic allocator, in order of their offsets
    max_size,       \* its high-water mark
    plan,           \* node_allocs and leaf_allocs: <<>> before the first plan
    buffer,         \* size of the compute buffer
    mem,            \* the tensor whose value each unit of the buffer holds
    graphs          \* graphs computed so far

tallocVars == <<offset, allocated, free_blocks, max_size>>
gallocVars == <<parents, n_children, n_views, offset, allocated, free_blocks, max_size>>
vars == <<graph, phase, at, gallocVars, plan, buffer, mem, graphs>>

(* op: "none" for a leaf, "inplace" for the ones ggml_op_can_inplace lists, *)
(* "other" for the rest, "view" for those that only rename memory.          *)
Tensor == [op : {"none", "inplace", "other", "view"}, src : Seq(Nat), size : Sizes,
           view_src : Nat, output : BOOLEAN]

Ids   == DOMAIN graph
Nodes == (NLeafs + 1)..Len(graph)
IsView(t) == graph[t].op = "view"
Leaf(size) == [op |-> "none", src |-> <<>>, size |-> size, view_src |-> 0, output |-> FALSE]

-----------------------------------------------------------------------------
(* ggml_dyn_tallocr: free blocks in order of their offsets.                *)

Fits(blocks, size) == {i \in 1..Len(blocks) - 1 : blocks[i].size >= size}

(* The smallest block that fits, the last one among equals; the block at   *)
(* the end of memory only when there is no other.                          *)
BestFit(blocks, size) ==
    IF Fits(blocks, size) = {} THEN Len(blocks)
    ELSE CHOOSE i \in Fits(blocks, size) : \A j \in Fits(blocks, size) :
            \/ blocks[i].size < blocks[j].size
            \/ blocks[i].size = blocks[j].size /\ i >= j

Block(start, size) == [offset |-> start, size |-> size]

tallocr_alloc(blocks, size) ==
    LET i == BestFit(blocks, size)
    IN  IF blocks[i].size = size
          THEN RemoveAt(blocks, i)
          ELSE [blocks EXCEPT ![i] = Block(blocks[i].offset + size, blocks[i].size - size)]

EndOf(b) == b.offset + b.size

Grown(blocks, i, size) ==
    [blocks EXCEPT ![i] = Block(blocks[i].offset, blocks[i].size + size)]

(* Mutant: the block after the freed one is merged and stays in the list. *)
MergeAfter_kept(blocks, i) ==
    IF i < Len(blocks) /\ EndOf(blocks[i]) = blocks[i+1].offset
      THEN Grown(blocks, i, blocks[i+1].size)
      ELSE blocks

(* Block i has grown at one end: join it with the block that follows. *)
MergeAfter(blocks, i) ==
    IF i < Len(blocks) /\ EndOf(blocks[i]) = blocks[i+1].offset
      THEN RemoveAt(Grown(blocks, i, blocks[i+1].size), i + 1)
      ELSE blocks

(* Free a range: grow the first block it touches, or insert a new one.     *)
tallocr_free(blocks, start, size) ==
    LET touched == {i \in DOMAIN blocks : EndOf(blocks[i]) = start \/ start + size = blocks[i].offset}
        i == CHOOSE k \in touched : \A l \in touched : k <= l
        before == {k \in DOMAIN blocks : blocks[k].offset < start}
    IN  IF touched = {}
          THEN InsertAt(blocks, Cardinality(before) + 1, Block(start, size))
        ELSE IF EndOf(blocks[i]) = start
          THEN MergeAfter(Grown(blocks, i, size), i)
        ELSE LET grown == [blocks EXCEPT ![i] = Block(start, blocks[i].size + size)]
             IN  IF i > 1 THEN MergeAfter(grown, i - 1) ELSE grown

-----------------------------------------------------------------------------
(* Planning: ggml_gallocr_alloc_graph_impl.                                *)

(* A reading <<t, j>>: node t reads s as its source number j.              *)
Readings(s) == {r \in Nodes \X (1..MaxSrc) :
                  r[2] \in DOMAIN graph[r[1]].src /\ graph[r[1]].src[r[2]] = s}

Children(s) == Cardinality(Readings(s))

Views(s) == Cardinality({t \in Nodes : graph[t].view_src = s})

(* Mutant: the high-water mark is the start of the highest tensor. *)
HighWater_start(top, start, size) == IF top > start THEN top ELSE start

HighWater(top, start, size) == IF top > start + size THEN top ELSE start + size

(* Memory from the free blocks. *)
Place(t) ==
    LET size == graph[t].size
        start == free_blocks[BestFit(free_blocks, size)].offset
    IN  /\ allocated' = [allocated EXCEPT ![t] = TRUE]
        /\ offset' = [offset EXCEPT ![t] = start]
        /\ free_blocks' = tallocr_alloc(free_blocks, size)
        /\ max_size' = HighWater(max_size, start, size)

(* Mutant: a parent that others still read is taken all the same. *)
Reusable_read(t, p) ==
    /\ allocated[p]
    /\ ~graph[p].output
    /\ graph[t].size = graph[p].size
    /\ n_views[p] = 0

(* A parent whose memory the node may take: planned here, no output, of    *)
(* the same layout, read by nobody else.  A view is never marked as        *)
(* allocated, so that the branch for views is not reached.                 *)
Reusable(t, p) ==
    /\ allocated[p]
    /\ ~graph[p].output
    /\ graph[t].size = graph[p].size
    /\ n_children[p] = 1 /\ n_views[p] = 0

(* The node takes the memory of the first parent that lets it. *)
TakeOver(t, p) ==
    /\ allocated' = [allocated EXCEPT ![t] = TRUE, ![p] = FALSE]
    /\ offset' = [offset EXCEPT ![t] = offset[p]]
    /\ UNCHANGED <<free_blocks, max_size>>

(* ggml_gallocr_allocate_node *)
allocate_node(t) ==
    LET src == graph[t].src
        reusable == {j \in DOMAIN src : Reusable(t, src[j])}
        first == CHOOSE j \in reusable : \A k \in reusable : j <= k
        inplace == graph[t].op = "inplace" /\ reusable # {}
    IN  \/ (IsView(t) \/ allocated[t]) /\ UNCHANGED tallocVars
        \/ ~IsView(t) /\ ~allocated[t] /\ inplace /\ TakeOver(t, src[first])
        \/ ~IsView(t) /\ ~allocated[t] /\ ~inplace /\ Place(t)

(* Mutant: outputs are freed like everything else. *)
free_node_any(t) ==
    /\ allocated' = [allocated EXCEPT ![t] = FALSE]
    /\ free_blocks' = tallocr_free(free_blocks, offset[t], graph[t].size)
    /\ UNCHANGED <<offset, max_size>>

(* ggml_gallocr_free_node: graph outputs are never freed. *)
free_node(t) ==
    \/ graph[t].output /\ UNCHANGED tallocVars
    \/ /\ ~graph[t].output
       /\ allocated' = [allocated EXCEPT ![t] = FALSE]
       /\ free_blocks' = tallocr_free(free_blocks, offset[t], graph[t].size)
       /\ UNCHANGED <<offset, max_size>>

FreeIfOwn(t) ==
    \/ allocated[t] /\ free_node(t)
    \/ ~allocated[t] /\ UNCHANGED tallocVars

(* Mutant: the last view of a tensor goes without freeing it. *)
update_parent_leak(p) ==
    LET root == graph[p].view_src
        unread == n_children[p] = 1 /\ n_views[p] = 0
    IN  /\ n_children' = [n_children EXCEPT ![p] = @ - 1]
        /\ n_views' = IF unread /\ IsView(p) THEN [n_views EXCEPT ![root] = @ - 1] ELSE n_views
        /\ \/ unread /\ ~IsView(p) /\ FreeIfOwn(p)
           \/ ~(unread /\ ~IsView(p)) /\ UNCHANGED tallocVars

(* One reading of parent p is over: free it, or the tensor it is a view    *)
(* of, after the last one.                                                 *)
update_parent(p) ==
    LET root == graph[p].view_src
        unread == n_children[p] = 1 /\ n_views[p] = 0
        last_view == n_views[root] = 1 /\ n_children[root] = 0
    IN  /\ n_children' = [n_children EXCEPT ![p] = @ - 1]
        /\ n_views' = IF unread /\ IsView(p) THEN [n_views EXCEPT ![root] = @ - 1] ELSE n_views
        /\ \/ ~unread /\ UNCHANGED tallocVars
           \/ unread /\ ~IsView(p) /\ FreeIfOwn(p)
           \/ unread /\ IsView(p) /\ last_view /\ FreeIfOwn(root)
           \/ unread /\ IsView(p) /\ ~last_view /\ UNCHANGED tallocVars

-----------------------------------------------------------------------------
Init ==
    /\ \E sizes \in [1..NLeafs -> Sizes] : graph = [k \in 1..NLeafs |-> Leaf(sizes[k])]
    /\ phase = "build" /\ at = NLeafs
    /\ parents = 0 /\ max_size = 0 /\ free_blocks = <<>>
    /\ n_children = <<>> /\ n_views = <<>> /\ offset = <<>> /\ allocated = <<>>
    /\ plan = <<>> /\ buffer = 0 /\ mem = <<>> /\ graphs = 0

(* The caller's graph, node by node: ggml_set_output is for the ops.       *)
AddNode(op, src, size, output) ==
    /\ phase = "build"
    /\ Len(graph) < NLeafs + NNodes
    /\ LET p == src[1]
           root == IF IsView(p) THEN graph[p].view_src ELSE p
       IN  /\ op = "view" => Len(src) = 1 /\ size = graph[p].size /\ ~output
           /\ op = "inplace" => size = graph[p].size
           /\ graph' = Append(graph, [op |-> op, src |-> src, size |-> size, output |-> output,
                                      view_src |-> IF op = "view" THEN root ELSE 0])
    /\ UNCHANGED <<phase, at, gallocVars, plan, buffer, mem, graphs>>

(* ggml_gallocr_node_needs_realloc, which answers whether tensor t can     *)
(* live where tensor number k of the planned graph was (src: as source     *)
(* number j of node number k).                                             *)
Fit(t, was) == IsView(t) \/ (was.size > 0 /\ was.size >= graph[t].size)

NoPlace == [offset |-> 0, size |-> 0]

(* ggml_gallocr_needs_realloc compares counts and sizes, not the wiring.   *)
needs_realloc ==
    \/ Len(plan) # Len(graph)
    \/ \E t \in Nodes :
         \/ ~Fit(t, plan[t].dst)
         \/ \E j \in DOMAIN graph[t].src :
              ~Fit(graph[t].src[j],
                   IF j \in DOMAIN plan[t].src THEN plan[t].src[j] ELSE NoPlace)

(* The hash values and the free list are reset, readers and views counted. *)
Begin ==
    /\ n_children' = [t \in Ids |-> Children(t)]
    /\ n_views' = [t \in Ids |-> Views(t)]
    /\ offset' = [t \in Ids |-> 0] /\ allocated' = [t \in Ids |-> FALSE]
    /\ free_blocks' = <<[offset |-> 0, size |-> Limit]>>
    /\ parents' = 0 /\ max_size' = 0

(* Addresses from the last plan, and the application's inputs. *)
Assign ==
    mem' = [u \in 0..buffer-1 |->
              LET in == {k \in 1..NLeafs : u \in plan[k].dst.offset ..
                              plan[k].dst.offset + graph[k].size - 1}
              IN  IF in = {} THEN 0 ELSE CHOOSE k \in in : TRUE]

(* ggml_gallocr_alloc_graph: plan, or take the addresses of the last plan. *)
alloc_graph ==
    /\ phase = "build"
    /\ Len(graph) = NLeafs + NNodes
    /\ UnreadLeafs \/ \A k \in 1..NLeafs : Readings(k) # {}
    /\ IF needs_realloc
         THEN /\ phase' = "plan" /\ at' = 0
              /\ Begin
              /\ UNCHANGED mem
         ELSE /\ phase' = "run" /\ at' = NLeafs
              /\ Assign
              /\ UNCHANGED gallocVars
    /\ UNCHANGED <<graph, plan, buffer, graphs>>

AllUpdated == at = 0 \/ parents = Len(graph[at].src)

(* ggml_gallocr_alloc_graph_impl: the inputs, then one node after the      *)
(* other, the parents of each updated before the next.                     *)
PlanLeaf ==
    /\ phase = "plan"
    /\ at < NLeafs
    /\ at' = at + 1
    /\ Place(at')
    /\ UNCHANGED <<graph, phase, parents, n_children, n_views, plan, buffer, mem, graphs>>

PlanNode ==
    /\ phase = "plan"
    /\ at \in NLeafs..Len(graph)-1 /\ AllUpdated
    /\ at' = at + 1 /\ parents' = 0
    /\ allocate_node(at')
    /\ UNCHANGED <<graph, phase, n_children, n_views, plan, buffer, mem, graphs>>

UpdateParents ==
    /\ phase = "plan"
    /\ ~AllUpdated
    /\ parents' = parents + 1
    /\ update_parent(graph[at].src[parents'])
    /\ UNCHANGED <<graph, phase, at, plan, buffer, mem, graphs>>

(* The end of ggml_gallocr_reserve: note where everything went and grow    *)
(* the buffer if it is too small; alloc_graph then sees that all fits.     *)
Where(t) == IF IsView(t) THEN NoPlace
            ELSE [offset |-> offset[t], size |-> graph[t].size]

(* Nothing is kept of the planning but the plan. *)
Forget ==
    /\ parents' = 0 /\ max_size' = 0 /\ free_blocks' = <<>>
    /\ n_children' = <<>> /\ n_views' = <<>> /\ offset' = <<>> /\ allocated' = <<>>

EndPlan ==
    /\ phase = "plan"
    /\ at = Len(graph) /\ AllUpdated
    /\ plan' = [t \in Ids |-> [dst |-> Where(t),
                 src |-> [j \in DOMAIN graph[t].src |-> Where(graph[t].src[j])]]]
    /\ buffer' = IF max_size > buffer THEN max_size ELSE buffer
    /\ phase' = "build"
    /\ Forget
    /\ UNCHANGED <<graph, at, mem, graphs>>

Units(t) == LET r == IF IsView(t) THEN graph[t].view_src ELSE t
            IN  plan[r].dst.offset .. plan[r].dst.offset + graph[t].size - 1

(* The backend computes a node: an op writes its result, a view nothing.   *)
Compute ==
    /\ phase = "run"
    /\ at < Len(graph)
    /\ at' = at + 1
    /\ mem' = IF IsView(at') THEN mem
              ELSE [u \in DOMAIN mem |-> IF u \in Units(at') THEN at' ELSE mem[u]]
    /\ UNCHANGED <<graph, phase, gallocVars, plan, buffer, graphs>>

(* The same graph for another batch, whose sizes are those of the first    *)
(* scaled, or a graph wired in another way.                                *)
Scaled(f) == [t \in Ids |-> [graph[t] EXCEPT !.size = f[@]]]
Rescaled == {Scaled(f) : f \in {g \in [Sizes -> Sizes] :
                \A a, b \in Sizes : a <= b => g[a] <= g[b]}} \ {graph}

NextGraph ==
    /\ phase = "run"
    /\ at = Len(graph)
    /\ graphs + 1 < MaxGraphs
    /\ phase' = "build"
    /\ graph' \in Rescaled \cup (IF NewTopology THEN {SubSeq(graph, 1, NLeafs)} ELSE {})
    /\ at' = NLeafs
    /\ graphs' = graphs + 1
    /\ mem' = <<>>
    /\ UNCHANGED <<gallocVars, plan, buffer>>

Next ==
    \/ \E op \in {"inplace", "other", "view"}, size \in Sizes, output \in BOOLEAN,
          src \in UNION {[1..n -> Ids] : n \in 1..MaxSrc} :
            AddNode(op, src, size, output)
    \/ alloc_graph
    \/ PlanLeaf
    \/ PlanNode
    \/ UpdateParents
    \/ EndPlan
    \/ Compute
    \/ NextGraph

Spec == Init /\ [][Next]_vars

-----------------------------------------------------------------------------
(* Types: counts of readers never go below zero, addresses stay in range.  *)
TypeOK ==
    /\ \A t \in Ids : graph[t].size \in Sizes
    /\ phase \in {"build", "plan", "run"}
    /\ at \in 0..(NLeafs + NNodes)
    /\ buffer \in 0..Limit
    /\ phase = "plan" =>
         \A t \in Ids : /\ n_children[t] \in 0..MaxSrc*NNodes
                        /\ n_views[t] \in 0..NNodes
                        /\ offset[t] \in 0..Limit

(* The value of a tensor is where a reader looks for it. *)
Intact(t) == LET r == IF IsView(t) THEN graph[t].view_src ELSE t
             IN  \A u \in Units(t) : mem[u] = r

(* Every node reads what its parents computed: no memory is given away     *)
(* while somebody still reads it, directly or through a view, in place or  *)
(* by way of the free list, under a fresh plan or a remembered one; and an *)
(* op that does not work in place never writes on what it reads.           *)
ReadsIntact ==
    phase = "run" /\ at < Len(graph) =>
      \A j \in DOMAIN graph[at+1].src :
        LET s == graph[at+1].src[j]
        IN  /\ Intact(s)
            /\ \/ IsView(at+1)
               \/ Units(s) \cap Units(at+1) = {}
               \/ graph[at+1].op = "inplace" /\ Units(s) = Units(at+1)

(* "output tensors are never freed and never overwritten": after the last  *)
(* node every output computed on the way is still there.                   *)
OutputsKept ==
    phase = "run" => \A t \in (NLeafs+1)..at : graph[t].output => Intact(t)

(* Every tensor of the graph lies inside the buffer, whose size is the     *)
(* high-water mark of some plan.                                           *)
InsideBuffer ==
    phase = "run" => \A t \in Ids : \A u \in Units(t) : u < buffer

Live == {t \in Ids : allocated[t]}
Span(b) == b.offset .. b.offset + b.size - 1
TensorSpan(t) == Span([offset |-> offset[t], size |-> graph[t].size])

(* While a graph is planned, the free blocks and the memory of the live    *)
(* tensors tile the address space: nothing is in both, or twice, nothing   *)
(* is lost, and free neighbours have been merged.                          *)
MemoryTiled ==
    phase = "plan" =>
      /\ \A i \in 1..Len(free_blocks) - 1 : EndOf(free_blocks[i]) < free_blocks[i+1].offset
      /\ \A t \in Live : \A i \in DOMAIN free_blocks :
           TensorSpan(t) \cap Span(free_blocks[i]) = {}
      /\ \A t, s \in Live : t # s => TensorSpan(t) \cap TensorSpan(s) = {}
      /\ (UNION {TensorSpan(t) : t \in Live})
           \cup (UNION {Span(free_blocks[i]) : i \in DOMAIN free_blocks}) = 0..Limit-1

(* A plan does not leak: what is still live at its end is an output, or    *)
(* was never read, or has a view that was never read.                      *)
NothingLeaks ==
    phase = "plan" /\ at = Len(graph) /\ AllUpdated =>
      \A t \in Live : \/ graph[t].output
                      \/ Children(t) = 0
                      \/ \E v \in Nodes : graph[v].view_src = t /\ Children(v) = 0
=============================================================================
