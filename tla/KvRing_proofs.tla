--------------------------- MODULE KvRing_proofs ----------------------------
(* The shared ring with any number of cells, slots and requests: what a     *)
(* slot believes cached has one cell per token, and a request in progress   *)
(* loses cells only to the context shift of the deepest slot.               *)
EXTENDS KvRing, FiniteSetTheorems, TLAPS

USE RingAssumption

(***************************************************************************)
(* Numbers.                                                                *)
(***************************************************************************)
LEMMA MinTwo ==
  ASSUME NEW a \in Int, NEW b \in Int
  PROVE  Min({a, b}) = IF a <= b THEN a ELSE b
BY DEF Min

LEMMA MaxTwo ==
  ASSUME NEW a \in Int, NEW b \in Int
  PROVE  Max({a, b}) = IF a >= b THEN a ELSE b
BY DEF Max

LEMMA MinThree ==
  ASSUME NEW a \in Int, NEW b \in Int, NEW c \in Int
  PROVE  /\ Min({a, b, c}) \in {a, b, c}
         /\ Min({a, b, c}) <= a /\ Min({a, b, c}) <= b /\ Min({a, b, c}) <= c
<1>1. \E x \in {a, b, c} : x <= a /\ x <= b /\ x <= c
  <2>1. CASE a <= b /\ a <= c
    BY <2>1
  <2>2. CASE b <= a /\ b <= c
    BY <2>2
  <2>3. CASE c <= a /\ c <= b
    BY <2>3
  <2>. QED
    BY <2>1, <2>2, <2>3
<1>2. \E x \in {a, b, c} : \A y \in {a, b, c} : x <= y
  BY <1>1
<1>3. Min({a, b, c}) \in {a, b, c} /\ \A y \in {a, b, c} : Min({a, b, c}) <= y
  BY <1>2 DEF Min
<1>. QED
  BY <1>3

LEMMA Least ==
  ASSUME NEW S \in SUBSET Nat, S # {}
  PROVE  \E x \in S : \A y \in S : x <= y
<1>1. PICK x \in S : \A y \in S : ~ (<<y, x>> \in OpToRel(<, Nat))
  BY NatLessThanWellFounded, WFMin, Zenon
<1>2. \A y \in S : ~(y < x)
  BY <1>1, Zenon DEF OpToRel
<1>. QED
  BY <1>2

(***************************************************************************)
(* Types, and the bounds they need.                                        *)
(***************************************************************************)
SlotRec ==
  [state : SlotState, task : Request \cup {NoRequest}, prompt : Nat, ticked : BOOLEAN,
   n_past : 0 .. n_ctx - 1, cache : 0 .. n_ctx - 1, n_decoded : 0 .. MaxGen]

CellRec == [seq : Slot, pos : 0 .. n_ctx - 1, copy : Nat]

Entry == [seq : Slot, pos : 0 .. n_ctx - 1]

(* A slot holds a task exactly while it processes one; one that generates   *)
(* counts what it has cached; one that loads has a prompt that fits, and    *)
(* has not reached its end.                                                 *)
WellKept(sl) ==
  /\ sl \in SlotRec
  /\ is_processing(sl) <=> sl.task # NoRequest
  /\ sl.state = "PROC" => sl.n_past = sl.cache
  /\ sl.state = "LOAD" => sl.prompt > 0
  /\ sl.state = "LOAD" /\ sl.ticked => sl.n_past < sl.prompt /\ sl.prompt < n_ctx
  /\ sl.state = "LOAD" /\ ~sl.ticked => sl.n_past = 0

SlotsOk ==
  /\ slots \in [Slot -> SlotRec]
  /\ \A s \in Slot : WellKept(slots[s])

(* After a context shift every generating slot has room for one token.      *)
Shifted ==
  pc = "batch" => \A s \in Slot : slots[s].state = "PROC" => slots[s].n_past < n_ctx - 1

CellSet(c) == c \in SUBSET CellRec /\ IsFiniteSet(c) /\ Cardinality(c) <= n_ctx

CellsOk == CellSet(cells)

Statuses == {"new", "queued", "deferred", "running"} \cup Outcomes

StatusOk ==
  /\ params \in Params
  /\ status \in [Request -> Statuses]
  /\ \A r \in Request : status[r] \in {"queued", "deferred"} => params.len[r] > 0

BatchOk ==
  /\ batch \in Seq(Entry) /\ at \in Nat /\ nb \in 1 .. n_batch /\ cur \in 1 .. n_parallel + 1

FlagsOk ==
  /\ clean_kv_cache \in BOOLEAN /\ prev_prompt \in BOOLEAN /\ defrag_tried \in BOOLEAN
  /\ pc \in {"loop", "shift", "batch", "prompt", "decode"}

TypeInv == SlotsOk /\ Shifted /\ CellsOk /\ StatusOk /\ BatchOk /\ FlagsOk

LEMMA ParamsType ==
  ASSUME NEW p \in Params
  PROVE  /\ p.ctx_shift \in BOOLEAN /\ p.recurrent \in BOOLEAN /\ p.early \in BOOLEAN
         /\ p.len \in [Request -> Nat]
OBVIOUS

LEMMA ReleasedOk ==
  ASSUME NEW sl, WellKept(sl)
  PROVE  /\ WellKept(released(sl)) /\ released(sl) \in SlotRec
         /\ released(sl).cache = sl.cache /\ released(sl).n_past = 0
         /\ released(sl).state = "RELEASE" /\ released(sl).task = NoRequest
         /\ ~is_processing(released(sl))
<1>. DEFINE d == released(sl)
            e == EmptySlot
<1>1. e \in SlotRec /\ e.n_past = 0 /\ e.task = NoRequest
  BY DEF EmptySlot, SlotRec, SlotState
<1>2. d = [e EXCEPT !.state = "RELEASE", !.cache = sl.cache]
  BY DEF released
<1>3. sl.cache \in 0 .. n_ctx - 1
  BY DEF WellKept, SlotRec
<1>. HIDE DEF d, e
<1>4. d \in SlotRec /\ d.state = "RELEASE" /\ d.task = NoRequest /\ d.cache = sl.cache /\ d.n_past = 0
  BY <1>1, <1>2, <1>3 DEF SlotRec, SlotState
<1>. QED
  BY <1>4 DEF WellKept, is_processing, d

LEMMA InitTypes == Init => TypeInv
<1>. SUFFICES ASSUME Init PROVE TypeInv
  OBVIOUS
<1>1. SlotsOk
  <2>1. WellKept(EmptySlot) /\ EmptySlot \in SlotRec
    BY DEF WellKept, SlotRec, EmptySlot, is_processing, SlotState
  <2>. QED
    BY <2>1 DEF SlotsOk, Init
<1>2. CellsOk
  BY FS_EmptySet DEF CellsOk, CellSet, Init
<1>3. StatusOk
  BY DEF StatusOk, Statuses, Init
<1>4. BatchOk
  BY DEF BatchOk, Init
<1>5. FlagsOk /\ Shifted
  BY ParamsType DEF FlagsOk, Shifted, Init
<1>. QED
  BY <1>1, <1>2, <1>3, <1>4, <1>5 DEF TypeInv

LEMMA FewerCells ==
  ASSUME NEW c, CellSet(c), NEW d \in SUBSET c
  PROVE  CellSet(d)
<1>1. IsFiniteSet(d) /\ Cardinality(d) <= Cardinality(c)
  BY FS_Subset DEF CellSet
<1>2. IsFiniteSet(c) /\ Cardinality(c) \in Nat /\ Cardinality(d) \in Nat
  BY <1>1, FS_CardinalityType DEF CellSet
<1>. QED
  BY <1>1, <1>2 DEF CellSet

(***************************************************************************)
(* Admission.                                                              *)
(***************************************************************************)
IdleSlots == {s \in Slot : slots[s].state = "IDLE"}

LEMMA VictimsIdle ==
  ASSUME NEW need, NEW except, NEW V \in Victims(need, except)
  PROVE  V \in SUBSET IdleSlots
BY DEF Victims, IdleSlots

LEMMA ReclaimedOk ==
  ASSUME SlotsOk, NEW V \in SUBSET IdleSlots, NEW sl, sl = ReclaimedSlots(V)
  PROVE  /\ sl \in [Slot -> SlotRec]
         /\ \A s \in Slot \ V : sl[s] = slots[s]
         /\ \A s \in Slot : WellKept(sl[s])
         /\ \A s \in Slot : sl[s].state = slots[s].state
         /\ \A s \in V : sl[s].cache = 0 /\ sl[s].task = slots[s].task /\ sl[s].state = "IDLE"
<1>1. ASSUME NEW s \in V
      PROVE  /\ s \in Slot /\ sl[s] \in SlotRec /\ sl[s].state = "IDLE" /\ sl[s].cache = 0
             /\ sl[s].task = slots[s].task /\ slots[s].state = "IDLE" /\ WellKept(sl[s])
  <2>1. s \in Slot /\ slots[s] \in SlotRec /\ slots[s].state = "IDLE" /\ WellKept(slots[s])
    BY DEF IdleSlots, SlotsOk
  <2>2. sl[s] = [slots[s] EXCEPT !.cache = 0, !.n_past = 0]
    BY <2>1 DEF ReclaimedSlots
  <2>3. PICK x, y : x = slots[s] /\ y = sl[s]
    OBVIOUS
  <2>4. y \in SlotRec /\ y.state = "IDLE" /\ y.cache = 0 /\ y.task = x.task
    <3>1. x \in SlotRec /\ x.state = "IDLE" /\ y = [x EXCEPT !.cache = 0, !.n_past = 0]
      BY <2>1, <2>2, <2>3
    <3>2. 0 \in 0 .. n_ctx - 1
      OBVIOUS
    <3>. QED
      BY <3>1, <3>2 DEF SlotRec
  <2>. QED
    BY <2>1, <2>3, <2>4 DEF WellKept, is_processing
<1>2. ASSUME NEW s \in Slot \ V PROVE sl[s] = slots[s]
  BY DEF ReclaimedSlots
<1>3. sl \in [Slot -> SlotRec]
  <2>1. \A s \in Slot : sl[s] \in SlotRec
    BY <1>1, <1>2 DEF SlotsOk
  <2>. QED
    BY <2>1 DEF ReclaimedSlots
<1>. QED
  BY <1>1, <1>2, <1>3 DEF SlotsOk

LEMMA LaunchOk ==
  ASSUME TypeInv, NEW sl \in [Slot -> SlotRec], \A t \in Slot : WellKept(sl[t]),
         NEW s \in Slot, NEW r \in Request, status[r] = "queued", Launch(sl, s, r)
  PROVE  /\ SlotsOk' /\ status' = [status EXCEPT ![r] = "running"]
         /\ \A t \in Slot \ {s} : slots'[t] = sl[t]
         /\ slots'[s].state = "LOAD" /\ slots'[s].task = r /\ slots'[s].prompt = params.len[r]
         /\ ~slots'[s].ticked /\ slots'[s].n_past = 0 /\ slots'[s].cache = sl[s].cache
<1>. DEFINE d == [state |-> "LOAD", task |-> r, prompt |-> params.len[r], ticked |-> FALSE,
                  n_past |-> 0, cache |-> sl[s].cache, n_decoded |-> 0]
<1>1. slots' = [sl EXCEPT ![s] = d] /\ status' = [status EXCEPT ![r] = "running"]
  BY DEF Launch
<1>2. params.len[r] \in Nat /\ params.len[r] > 0
  BY ParamsType DEF TypeInv, StatusOk
<1>3. sl[s].cache \in 0 .. n_ctx - 1
  BY DEF SlotRec
<1>4. /\ d.state = "LOAD" /\ d.task = r /\ d.prompt = params.len[r] /\ ~d.ticked
      /\ d.n_past = 0 /\ d.cache = sl[s].cache
  OBVIOUS
<1>5. d \in SlotRec
  BY <1>2, <1>3 DEF SlotRec, SlotState
<1>. HIDE DEF d
<1>6. WellKept(d)
  BY <1>2, <1>4, <1>5 DEF WellKept, is_processing
<1>7. slots' \in [Slot -> SlotRec] /\ slots'[s] = d /\ \A t \in Slot \ {s} : slots'[t] = sl[t]
  BY <1>1, <1>5
<1>. QED
  BY <1>1, <1>4, <1>6, <1>7 DEF SlotsOk

LEMMA DispatchTypes ==
  ASSUME TypeInv, NEW r \in Request, Dispatch(r)
  PROVE  TypeInv'
<1>1. pc = "loop" /\ status[r] = "queued" /\ UNCHANGED <<params, pc, prev_prompt, decode>>
  BY DEF Dispatch
<1>2. BatchOk' /\ pc' = "loop" /\ Shifted'
  BY <1>1 DEF TypeInv, BatchOk, decode, Shifted
<1>3. CASE NoSlotAvailable(r)
  <2>1. UNCHANGED <<slots, cells, clean_kv_cache>> /\ status' = [status EXCEPT ![r] = "deferred"]
    BY <1>3 DEF NoSlotAvailable, ring, defer
  <2>2. SlotsOk' /\ CellsOk'
    BY <2>1 DEF TypeInv, SlotsOk, CellsOk
  <2>3. StatusOk'
    BY <1>1, <2>1 DEF TypeInv, StatusOk, Statuses
  <2>4. FlagsOk'
    BY <1>1, <2>1 DEF TypeInv, FlagsOk, decode
  <2>. QED
    BY <1>2, <2>2, <2>3, <2>4 DEF TypeInv
<1>4. CASE \E s \in Slot : slots[s].state = "IDLE" /\ kv_unified_admit(r, s) /\ UNCHANGED clean_kv_cache
  <2>1. PICK s \in Slot : slots[s].state = "IDLE" /\ kv_unified_admit(r, s) /\ UNCHANGED clean_kv_cache
    BY <1>4
  <2>2. \/ Launch(slots, s, r) /\ UNCHANGED cells
        \/ \E V \in SUBSET IdleSlots :
              /\ cells' = ReclaimedCells(V)
              /\ Launch(ReclaimedSlots(V), s, r) \/ (defer(r) /\ slots' = ReclaimedSlots(V))
    BY <2>1, VictimsIdle DEF kv_unified_admit
  <2>3. \E V \in SUBSET IdleSlots :
              /\ cells' \in SUBSET cells
              /\ \/ Launch(slots, s, r) \/ Launch(ReclaimedSlots(V), s, r)
                 \/ (defer(r) /\ slots' = ReclaimedSlots(V))
    BY <2>2 DEF ReclaimedCells
  <2>4. PICK V \in SUBSET IdleSlots :
              /\ cells' \in SUBSET cells
              /\ \/ Launch(slots, s, r) \/ Launch(ReclaimedSlots(V), s, r)
                 \/ (defer(r) /\ slots' = ReclaimedSlots(V))
    BY <2>3
  <2>5. CellsOk'
    BY <2>4, FewerCells DEF TypeInv, CellsOk
  <2>6. SlotsOk' /\ (status' = [status EXCEPT ![r] = "running"] \/ status' = [status EXCEPT ![r] = "deferred"])
    <3>1. PICK sl : sl = ReclaimedSlots(V)
      OBVIOUS
    <3>2. sl \in [Slot -> SlotRec] /\ \A t \in Slot : WellKept(sl[t])
      BY <3>1, ReclaimedOk DEF TypeInv
    <3>3. CASE Launch(slots, s, r)
      BY <1>1, <3>3, LaunchOk DEF TypeInv, SlotsOk
    <3>4. CASE Launch(sl, s, r)
      BY <1>1, <3>2, <3>4, LaunchOk
    <3>5. CASE defer(r) /\ slots' = sl
      BY <3>2, <3>5 DEF SlotsOk, defer
    <3>. QED
      BY <2>4, <3>1, <3>3, <3>4, <3>5
  <2>7. StatusOk'
    BY <1>1, <2>6 DEF TypeInv, StatusOk, Statuses
  <2>8. FlagsOk'
    BY <1>1, <2>1 DEF TypeInv, FlagsOk, decode
  <2>. QED
    BY <1>2, <2>5, <2>6, <2>7, <2>8 DEF TypeInv
<1>. QED
  BY <1>3, <1>4 DEF Dispatch

LEMMA CancelTypes ==
  ASSUME TypeInv, NEW r \in Request, Cancel(r)
  PROVE  TypeInv'
<1>1. /\ pc = "loop" /\ status[r] \in {"queued", "deferred", "running"}
      /\ status' = [status EXCEPT ![r] = "cancelled"]
      /\ UNCHANGED <<params, cells, clean_kv_cache, pc, prev_prompt, decode>>
  BY DEF Cancel
<1>2. ASSUME NEW s \in Slot
      PROVE  slots'[s] \in SlotRec /\ WellKept(slots'[s])
  <2>1. slots'[s] = IF slots[s].task = r THEN released(slots[s]) ELSE slots[s]
    BY DEF Cancel
  <2>2. WellKept(slots[s]) /\ slots[s] \in SlotRec
    BY DEF TypeInv, SlotsOk
  <2>3. WellKept(released(slots[s])) /\ released(slots[s]) \in SlotRec
    BY <2>2, ReleasedOk
  <2>. QED
    BY <2>1, <2>2, <2>3
<1>3. SlotsOk'
  <2>1. DOMAIN slots' = Slot /\ slots' = [s \in Slot |-> slots'[s]]
    BY DEF Cancel
  <2>. QED
    BY <1>2, <2>1 DEF SlotsOk
<1>4. CellsOk' /\ BatchOk' /\ FlagsOk' /\ Shifted'
  BY <1>1 DEF TypeInv, CellsOk, BatchOk, FlagsOk, Shifted, decode
<1>5. StatusOk'
  BY <1>1 DEF TypeInv, StatusOk, Statuses, Outcomes
<1>. QED
  BY <1>3, <1>4, <1>5 DEF TypeInv

LEMMA ArriveTypes ==
  ASSUME TypeInv, NEW r \in Request, Arrive(r)
  PROVE  TypeInv'
<1>1. /\ params.len[r] > 0 /\ status' = [status EXCEPT ![r] = "queued"]
      /\ UNCHANGED <<params, slots, cells, clean_kv_cache, pc, prev_prompt, decode>>
  BY DEF Arrive, ring
<1>2. SlotsOk' /\ Shifted'
  BY <1>1 DEF TypeInv, SlotsOk, Shifted
<1>3. CellsOk' /\ BatchOk' /\ FlagsOk'
  BY <1>1 DEF TypeInv, CellsOk, BatchOk, FlagsOk, decode
<1>4. StatusOk'
  BY <1>1 DEF TypeInv, StatusOk, Statuses
<1>. QED
  BY <1>2, <1>3, <1>4 DEF TypeInv

LEMMA RequeuedOk ==
  ASSUME StatusOk
  PROVE  /\ requeued \in [Request -> Statuses]
         /\ \A r \in Request : requeued[r] \in {"queued", "deferred"} => status[r] \in {"queued", "deferred"}
BY DEF StatusOk, requeued, Statuses

LEMMA ReleaseTypes ==
  ASSUME TypeInv, ReleaseSlots
  PROVE  TypeInv'
<1>1. /\ slots' = [s \in Slot |-> IF slots[s].state = "RELEASE"
                                  THEN [slots[s] EXCEPT !.state = "IDLE"] ELSE slots[s]]
      /\ pc' \in {"loop", "shift"}
      /\ cells' = {} \/ cells' = cells
      /\ clean_kv_cache' \in {FALSE, clean_kv_cache}
      /\ status' = requeued \/ status' = status
      /\ UNCHANGED <<params, prev_prompt, decode>>
  BY DEF ReleaseSlots
<1>2. ASSUME NEW s \in Slot
      PROVE  slots'[s] \in SlotRec /\ WellKept(slots'[s])
  <2>1. PICK x, y : x = slots[s] /\ y = slots'[s]
    OBVIOUS
  <2>2. x \in SlotRec /\ WellKept(x)
    BY <2>1 DEF TypeInv, SlotsOk
  <2>3. y = IF x.state = "RELEASE" THEN [x EXCEPT !.state = "IDLE"] ELSE x
    BY <1>1, <2>1
  <2>4. CASE x.state = "RELEASE"
    <3>1. y = [x EXCEPT !.state = "IDLE"]
      BY <2>3, <2>4
    <3>2. y \in SlotRec /\ y.state = "IDLE" /\ y.task = x.task
      BY <2>2, <3>1 DEF SlotRec, SlotState
    <3>. QED
      BY <2>1, <2>2, <2>4, <3>2 DEF WellKept, is_processing
  <2>. QED
    BY <2>1, <2>2, <2>3, <2>4
<1>3. SlotsOk'
  <2>1. slots' = [s \in Slot |-> slots'[s]]
    BY <1>1
  <2>. QED
    BY <1>2, <2>1 DEF SlotsOk
<1>4. CellsOk'
  BY <1>1, FewerCells DEF TypeInv, CellsOk
<1>5. BatchOk' /\ FlagsOk' /\ Shifted'
  BY <1>1 DEF TypeInv, BatchOk, FlagsOk, Shifted, decode
<1>6. StatusOk'
  BY <1>1, RequeuedOk DEF TypeInv, StatusOk
<1>. QED
  BY <1>3, <1>4, <1>5, <1>6 DEF TypeInv

LEMMA HeartbeatTypes ==
  ASSUME TypeInv, Heartbeat
  PROVE  TypeInv'
<1>1. /\ status' = requeued
      /\ UNCHANGED <<params, slots, cells, clean_kv_cache, pc, prev_prompt, decode>>
  BY DEF Heartbeat, ring
<1>2. SlotsOk' /\ Shifted'
  BY <1>1 DEF TypeInv, SlotsOk, Shifted
<1>3. CellsOk' /\ BatchOk' /\ FlagsOk'
  BY <1>1 DEF TypeInv, CellsOk, BatchOk, FlagsOk, decode
<1>4. StatusOk'
  BY <1>1, RequeuedOk DEF TypeInv, StatusOk
<1>. QED
  BY <1>2, <1>3, <1>4 DEF TypeInv

(***************************************************************************)
(* The context shift.                                                      *)
(***************************************************************************)
LEMMA ImageFewer ==
  ASSUME NEW S, IsFiniteSet(S), NEW f, f = [x \in S |-> f[x]], NEW T, T = {f[x] : x \in S}
  PROVE  IsFiniteSet(T) /\ Cardinality(T) <= Cardinality(S)
<1>1. f \in Surjection(S, T)
  <2>1. f \in [S -> T]
    OBVIOUS
  <2>. QED
    BY <2>1 DEF Surjection
<1>. QED
  BY <1>1, FS_Surjection

LEMMA KeptTokensType == KeptTokens \in 1 .. n_ctx - 4
<1>1. PICK m : m = Max({1, n_keep})
  OBVIOUS
<1>2. m \in Nat /\ m >= 1
  BY <1>1, MaxTwo
<1>3. PICK k : k = n_ctx - 4
  OBVIOUS
<1>4. k \in Nat /\ k >= 1
  BY <1>3
<1>5. Min({k, m}) = IF k <= m THEN k ELSE m
  BY <1>2, <1>4, MinTwo
<1>6. KeptTokens = Min({k, m})
  BY <1>1, <1>3 DEF KeptTokens
<1>. QED
  BY <1>2, <1>3, <1>4, <1>5, <1>6

LEMMA DiscardedOk ==
  ASSUME NEW sl \in SlotRec
  PROVE  /\ Discarded(sl) \in 0 .. sl.n_past
         /\ Discarded(sl) > 0 => KeptTokens + Discarded(sl) <= sl.n_past
         /\ sl.n_past >= n_ctx - 1 => Discarded(sl) > 0
<1>. DEFINE k == KeptTokens
            p == sl.n_past
            h == (p - k) \div 2
<1>1. k \in 1 .. n_ctx - 4 /\ p \in 0 .. n_ctx - 1
  BY KeptTokensType DEF SlotRec
<1>2. h \in Int
  BY <1>1
<1>3. Discarded(sl) = IF 0 >= h THEN 0 ELSE h
  BY <1>2, MaxTwo DEF Discarded
<1>4. 2 * h <= p - k /\ p - k < 2 * h + 2
  BY <1>1
<1>. HIDE DEF k, p, h
<1>. QED
  BY <1>1, <1>2, <1>3, <1>4 DEF k, p

(* Who yields at the shift: slots that generate, and all that have filled   *)
(* the context.                                                             *)
Yields(sl, Y) ==
  \A s \in Slot :
    /\ s \in Y => /\ sl[s].state = "PROC"
                  /\ s \in Deepest(sl) \/ sl[s].n_past = n_ctx - 1
    /\ sl[s].state = "PROC" /\ sl[s].n_past = n_ctx - 1 => s \in Y

DiscardedFor(sl, Y) == [s \in Slot |-> IF s \in Y THEN Discarded(sl[s]) ELSE 0]

ShiftedSlots(sl, n) ==
  [s \in Slot |-> [sl[s] EXCEPT !.n_past = @ - n[s], !.cache = @ - n[s]]]

ShiftStep(sl, c, Y) ==
  IF params.ctx_shift
  THEN /\ slots' = ShiftedSlots(sl, DiscardedFor(sl, Y))
       /\ cells' = discard_cells(c, KeptTokens, DiscardedFor(sl, Y), [s \in Slot |-> sl[s].n_past])
       /\ UNCHANGED status
  ELSE /\ slots' = [s \in Slot |-> IF s \in Y THEN released(sl[s]) ELSE sl[s]]
       /\ cells' = c
       /\ status' = Outcome(Y, "error")

LEMMA ShiftFacts ==
  ASSUME SlotsOk, context_shift
  PROVE  \E V \in SUBSET IdleSlots : \E Y \in SUBSET Slot :
           /\ Yields(ReclaimedSlots(V), Y)
           /\ ShiftStep(ReclaimedSlots(V), ReclaimedCells(V), Y)
<1>. DEFINE Full(c) == Cardinality(c) >= n_ctx - kv_unified_margin
            Y(sl, c) == {s \in Slot : /\ is_processing(sl[s])
                                      /\ (Full(c) /\ s \in Deepest(sl)) \/ sl[s].n_past >= n_ctx - 1}
<1>1. \E V \in IF Full(cells) THEN Victims(2 * kv_unified_margin, 0) ELSE {{}} :
        ShiftStep(ReclaimedSlots(V), ReclaimedCells(V), Y(ReclaimedSlots(V), ReclaimedCells(V)))
  BY DEF context_shift, ShiftStep, ShiftedSlots, DiscardedFor
<1>2. PICK V \in SUBSET IdleSlots :
        ShiftStep(ReclaimedSlots(V), ReclaimedCells(V), Y(ReclaimedSlots(V), ReclaimedCells(V)))
  <2>1. \A V \in IF Full(cells) THEN Victims(2 * kv_unified_margin, 0) ELSE {{}} : V \in SUBSET IdleSlots
    <3>. HIDE DEF Full
    <3>. QED
      BY VictimsIdle
  <2>. HIDE DEF Full, Y
  <2>. QED
    BY <1>1, <2>1
<1>3. PICK sl, c : sl = ReclaimedSlots(V) /\ c = ReclaimedCells(V)
  OBVIOUS
<1>4. \A s \in Slot : sl[s] \in SlotRec /\ WellKept(sl[s])
  BY <1>3, ReclaimedOk
<1>5. ASSUME NEW s \in Slot
      PROVE  /\ s \in Y(sl, c) => /\ sl[s].state = "PROC"
                                  /\ s \in Deepest(sl) \/ sl[s].n_past = n_ctx - 1
             /\ sl[s].state = "PROC" /\ sl[s].n_past = n_ctx - 1 => s \in Y(sl, c)
  <2>1. /\ sl[s].n_past \in 0 .. n_ctx - 1
        /\ sl[s].state = "LOAD" /\ sl[s].ticked => sl[s].n_past < sl[s].prompt /\ sl[s].prompt < n_ctx
        /\ sl[s].state = "LOAD" /\ ~sl[s].ticked => sl[s].n_past = 0
        /\ sl[s].prompt \in Nat
    BY <1>4 DEF WellKept, SlotRec
  <2>2. sl[s].n_past >= n_ctx - 1 <=> sl[s].n_past = n_ctx - 1
    BY <2>1
  <2>3. sl[s].state = "LOAD" => sl[s].n_past < n_ctx - 1
    BY <2>1
  <2>4. s \in Deepest(sl) => sl[s].state = "PROC"
    BY DEF Deepest
  <2>5. is_processing(sl[s]) <=> sl[s].state = "LOAD" \/ sl[s].state = "PROC"
    BY DEF is_processing
  <2>6. ~(sl[s].state = "LOAD" /\ sl[s].n_past >= n_ctx - 1)
    BY <2>1, <2>3
  <2>. HIDE DEF Full
  <2>7. s \in Y(sl, c) <=> /\ is_processing(sl[s])
                           /\ (Full(c) /\ s \in Deepest(sl)) \/ sl[s].n_past >= n_ctx - 1
    OBVIOUS
  <2>. HIDE DEF Y
  <2>. QED
    BY <2>2, <2>4, <2>5, <2>6, <2>7, Zenon
<1>6. Yields(sl, Y(sl, c)) /\ Y(sl, c) \in SUBSET Slot
  <2>1. Y(sl, c) \in SUBSET Slot
    OBVIOUS
  <2>. HIDE DEF Y
  <2>. QED
    BY <1>5, <2>1 DEF Yields
<1>. QED
  <2>. HIDE DEF Y
  <2>. QED
    BY <1>2, <1>3, <1>6

(* A cell that a block before it leaves behind is where it was, or n lower. *)
LEMMA DiscardCells ==
  ASSUME NEW c, CellSet(c), NEW keep \in Nat, NEW n \in [Slot -> Nat], NEW upto \in [Slot -> Nat]
  PROVE  CellSet(discard_cells(c, keep, n, upto))
<1>. DEFINE S == {y \in c : ~(keep <= y.pos /\ y.pos < keep + n[y.seq])}
            f == [x \in S |-> [x EXCEPT !.pos = IF keep + n[x.seq] <= x.pos /\ x.pos < upto[x.seq]
                                                THEN x.pos - n[x.seq] ELSE x.pos]]
            T == discard_cells(c, keep, n, upto)
<1>1. T = {f[x] : x \in S}
  BY DEF discard_cells
<1>2. CellSet(S)
  <2>1. S \in SUBSET c
    OBVIOUS
  <2>. QED
    BY <2>1, FewerCells
<1>3. ASSUME NEW x \in S PROVE f[x] \in CellRec
  <2>1. x \in CellRec /\ x.seq \in Slot /\ x.pos \in 0 .. n_ctx - 1
    BY <1>2 DEF CellSet, CellRec
  <2>2. n[x.seq] \in Nat
    BY <2>1
  <2>3. PICK q : q = IF keep + n[x.seq] <= x.pos /\ x.pos < upto[x.seq] THEN x.pos - n[x.seq] ELSE x.pos
    OBVIOUS
  <2>4. q \in 0 .. n_ctx - 1
    BY <2>1, <2>2, <2>3
  <2>5. f[x] = [x EXCEPT !.pos = q]
    BY <2>3
  <2>. QED
    BY <2>1, <2>4, <2>5 DEF CellRec
<1>4. f = [x \in S |-> f[x]]
  OBVIOUS
<1>. HIDE DEF S, f, T
<1>5. IsFiniteSet(T) /\ Cardinality(T) <= Cardinality(S)
  BY <1>1, <1>2, <1>4, ImageFewer DEF CellSet
<1>6. Cardinality(T) \in Nat /\ Cardinality(S) \in Nat
  BY <1>2, <1>5, FS_CardinalityType DEF CellSet
<1>7. T \in SUBSET CellRec
  BY <1>1, <1>3
<1>. QED
  BY <1>2, <1>5, <1>6, <1>7 DEF CellSet, T

(* What a slot has cached, less n tokens.                                   *)
LEMMA TrimmedOk ==
  ASSUME NEW x, WellKept(x), NEW n \in 0 .. x.n_past, n > 0 => x.state = "PROC",
         NEW y, y = [x EXCEPT !.n_past = x.n_past - n, !.cache = x.cache - n]
  PROVE  /\ y \in SlotRec /\ WellKept(y) /\ y.state = x.state /\ y.task = x.task
         /\ y.prompt = x.prompt /\ y.ticked = x.ticked
         /\ y.n_past = x.n_past - n /\ y.cache = x.cache - n
<1>1. /\ x \in SlotRec /\ x.n_past \in 0 .. n_ctx - 1 /\ x.cache \in 0 .. n_ctx - 1
      /\ x.state = "PROC" => x.n_past = x.cache
  BY DEF WellKept, SlotRec
<1>2. PICK p, c : p = x.n_past - n /\ c = x.cache - n
  OBVIOUS
<1>3. p \in 0 .. n_ctx - 1 /\ c \in 0 .. n_ctx - 1
  <2>1. CASE n = 0
    BY <1>1, <1>2, <2>1
  <2>2. CASE n > 0
    BY <1>1, <1>2, <2>2
  <2>. QED
    BY <1>1, <2>1, <2>2
<1>4. y = [x EXCEPT !.n_past = p, !.cache = c]
  BY <1>2
<1>5. /\ y \in SlotRec /\ y.state = x.state /\ y.task = x.task /\ y.prompt = x.prompt
      /\ y.ticked = x.ticked /\ y.n_past = p /\ y.cache = c
  BY <1>1, <1>3, <1>4 DEF SlotRec
<1>6. WellKept(y)
  <2>1. x.state = "LOAD" => n = 0
    BY <1>1
  <2>. QED
    BY <1>1, <1>2, <1>5, <2>1 DEF WellKept, is_processing
<1>. QED
  BY <1>2, <1>5, <1>6

LEMMA ShiftedSlotsOk ==
  ASSUME NEW sl \in [Slot -> SlotRec], \A s \in Slot : WellKept(sl[s]),
         NEW Y \in SUBSET Slot, Yields(sl, Y), NEW s \in Slot,
         NEW n, n = DiscardedFor(sl, Y)[s], NEW y, y = ShiftedSlots(sl, DiscardedFor(sl, Y))[s]
  PROVE  /\ n \in 0 .. sl[s].n_past
         /\ n > 0 => sl[s].state = "PROC" /\ KeptTokens + n <= sl[s].n_past /\ s \in Y
         /\ y \in SlotRec /\ WellKept(y) /\ y.state = sl[s].state /\ y.task = sl[s].task
         /\ y.prompt = sl[s].prompt /\ y.ticked = sl[s].ticked
         /\ y.n_past = sl[s].n_past - n /\ y.cache = sl[s].cache - n
         /\ y.state = "PROC" => y.n_past < n_ctx - 1
<1>1. PICK x : x = sl[s]
  OBVIOUS
<1>2. x \in SlotRec /\ WellKept(x) /\ x.n_past \in 0 .. n_ctx - 1
  BY <1>1 DEF SlotRec
<1>3. n = IF s \in Y THEN Discarded(x) ELSE 0
  BY <1>1 DEF DiscardedFor
<1>4. y = [x EXCEPT !.n_past = x.n_past - n, !.cache = x.cache - n]
  BY <1>1 DEF ShiftedSlots
<1>5. /\ Discarded(x) \in 0 .. x.n_past
      /\ Discarded(x) > 0 => KeptTokens + Discarded(x) <= x.n_past
      /\ x.n_past >= n_ctx - 1 => Discarded(x) > 0
  BY <1>2, DiscardedOk
<1>6. n \in 0 .. x.n_past /\ (n > 0 => KeptTokens + n <= x.n_past /\ s \in Y)
  BY <1>2, <1>3, <1>5
<1>7. s \in Y => x.state = "PROC"
  BY <1>1 DEF Yields
<1>8. x.state = "PROC" /\ x.n_past = n_ctx - 1 => s \in Y
  BY <1>1 DEF Yields
<1>9. /\ y \in SlotRec /\ WellKept(y) /\ y.state = x.state /\ y.task = x.task
      /\ y.prompt = x.prompt /\ y.ticked = x.ticked
      /\ y.n_past = x.n_past - n /\ y.cache = x.cache - n
  <2>1. WellKept(x) /\ n \in 0 .. x.n_past /\ (n > 0 => x.state = "PROC")
    BY <1>2, <1>6, <1>7
  <2>. QED
    BY ONLY <1>4, <2>1, TrimmedOk
<1>10. y.state = "PROC" => y.n_past < n_ctx - 1
  <2>1. CASE x.n_past < n_ctx - 1
    BY <1>2, <1>6, <1>9, <2>1
  <2>2. CASE x.state = "PROC" /\ x.n_past = n_ctx - 1
    <3>1. n > 0
      BY <1>2, <1>3, <1>5, <1>8, <2>2
    <3>. QED
      BY <1>2, <1>6, <1>9, <2>2, <3>1
  <2>. QED
    BY <1>2, <1>9, <2>1, <2>2
<1>. QED
  BY <1>1, <1>6, <1>7, <1>9, <1>10

LEMMA OutcomeOk ==
  ASSUME StatusOk, NEW S, NEW what \in Outcomes
  PROVE  /\ Outcome(S, what) \in [Request -> Statuses]
         /\ \A r \in Request : Outcome(S, what)[r] \in {"queued", "deferred"} => params.len[r] > 0
<1>1. ASSUME NEW r \in Request
      PROVE  /\ Outcome(S, what)[r] \in Statuses
             /\ Outcome(S, what)[r] \in {"queued", "deferred"} => status[r] \in {"queued", "deferred"}
  <2>1. Outcome(S, what)[r] = IF r \in TasksOf(S) THEN what ELSE status[r]
    BY DEF Outcome
  <2>. QED
    BY <2>1 DEF StatusOk, Statuses, Outcomes
<1>2. Outcome(S, what) = [r \in Request |-> Outcome(S, what)[r]]
  BY DEF Outcome
<1>. QED
  BY <1>1, <1>2 DEF StatusOk

LEMMA ContextShiftTypes ==
  ASSUME TypeInv, context_shift
  PROVE  TypeInv'
<1>1. pc' = "batch" /\ UNCHANGED <<params, clean_kv_cache, prev_prompt, decode>>
  BY DEF context_shift
<1>2. BatchOk' /\ FlagsOk'
  BY <1>1 DEF TypeInv, BatchOk, FlagsOk, decode
<1>3. PICK V \in SUBSET IdleSlots, Y \in SUBSET Slot :
        Yields(ReclaimedSlots(V), Y) /\ ShiftStep(ReclaimedSlots(V), ReclaimedCells(V), Y)
  BY ShiftFacts DEF TypeInv
<1>4. PICK sl, c : sl = ReclaimedSlots(V) /\ c = ReclaimedCells(V)
  OBVIOUS
<1>5. sl \in [Slot -> SlotRec] /\ \A s \in Slot : WellKept(sl[s])
  BY <1>4, ReclaimedOk DEF TypeInv
<1>6. Yields(sl, Y) /\ ShiftStep(sl, c, Y)
  BY <1>3, <1>4
<1>7. CellSet(c)
  <2>1. c \in SUBSET cells
    BY <1>4 DEF ReclaimedCells
  <2>. QED
    BY <2>1, FewerCells DEF TypeInv, CellsOk
<1>8. CASE params.ctx_shift
  <2>1. PICK n : n = DiscardedFor(sl, Y)
    OBVIOUS
  <2>2. /\ slots' = ShiftedSlots(sl, n)
        /\ cells' = discard_cells(c, KeptTokens, n, [s \in Slot |-> sl[s].n_past])
        /\ UNCHANGED status
    BY <1>6, <1>8, <2>1 DEF ShiftStep
  <2>3. ASSUME NEW s \in Slot
        PROVE  /\ n[s] \in Nat /\ slots'[s] \in SlotRec /\ WellKept(slots'[s])
               /\ slots'[s].state = "PROC" => slots'[s].n_past < n_ctx - 1
    <3>1. PICK k, y : k = n[s] /\ y = slots'[s]
      OBVIOUS
    <3>2. k = DiscardedFor(sl, Y)[s] /\ y = ShiftedSlots(sl, DiscardedFor(sl, Y))[s]
      BY <2>1, <2>2, <3>1
    <3>3. /\ k \in 0 .. sl[s].n_past /\ y \in SlotRec /\ WellKept(y)
          /\ y.state = "PROC" => y.n_past < n_ctx - 1
      BY ONLY <1>5, <1>6, <2>3, <3>2, ShiftedSlotsOk
    <3>. QED
      BY <3>1, <3>3
  <2>4. n \in [Slot -> Nat]
    <3>1. n = [s \in Slot |-> n[s]]
      BY <2>1 DEF DiscardedFor
    <3>. QED
      BY <2>3, <3>1
  <2>5. CellsOk'
    <3>1. PICK upto : upto = [s \in Slot |-> sl[s].n_past]
      OBVIOUS
    <3>2. upto \in [Slot -> Nat]
      <4>1. \A s \in Slot : sl[s].n_past \in Nat
        BY <1>5 DEF SlotRec
      <4>. QED
        BY <3>1, <4>1
    <3>3. CellSet(discard_cells(c, KeptTokens, n, upto))
      BY <1>7, <2>4, <3>2, DiscardCells, KeptTokensType
    <3>. QED
      BY <2>2, <3>1, <3>3 DEF CellsOk
  <2>6. SlotsOk' /\ Shifted'
    <3>1. slots' = [s \in Slot |-> slots'[s]]
      BY <2>2 DEF ShiftedSlots
    <3>. QED
      BY <2>3, <3>1 DEF SlotsOk, Shifted
  <2>7. StatusOk'
    BY <1>1, <2>2 DEF TypeInv, StatusOk
  <2>. QED
    BY <1>2, <2>5, <2>6, <2>7 DEF TypeInv
<1>9. CASE ~params.ctx_shift
  <2>1. /\ slots' = [s \in Slot |-> IF s \in Y THEN released(sl[s]) ELSE sl[s]]
        /\ cells' = c
        /\ status' = Outcome(Y, "error")
    BY <1>6, <1>9 DEF ShiftStep
  <2>2. ASSUME NEW s \in Slot
        PROVE  /\ slots'[s] \in SlotRec /\ WellKept(slots'[s])
               /\ slots'[s].state = "PROC" => slots'[s].n_past < n_ctx - 1
    <3>1. PICK x, y : x = sl[s] /\ y = slots'[s]
      OBVIOUS
    <3>2. x \in SlotRec /\ WellKept(x) /\ x.n_past \in 0 .. n_ctx - 1
      BY <1>5, <3>1 DEF SlotRec
    <3>3. y = IF s \in Y THEN released(x) ELSE x
      BY <2>1, <3>1
    <3>4. x.state = "PROC" /\ x.n_past = n_ctx - 1 => s \in Y
      BY <1>6, <3>1 DEF Yields
    <3>5. WellKept(released(x)) /\ released(x) \in SlotRec /\ released(x).state = "RELEASE"
      BY <3>2, ReleasedOk
    <3>. QED
      BY <3>1, <3>2, <3>3, <3>4, <3>5
  <2>3. SlotsOk' /\ Shifted'
    <3>1. slots' = [s \in Slot |-> slots'[s]]
      BY <2>1
    <3>. QED
      BY <2>2, <3>1 DEF SlotsOk, Shifted
  <2>4. CellsOk'
    BY <1>7, <2>1 DEF CellsOk
  <2>5. StatusOk'
    <3>1. "error" \in Outcomes
      BY DEF Outcomes
    <3>2. /\ status' \in [Request -> Statuses]
          /\ \A r \in Request : status'[r] \in {"queued", "deferred"} => params.len[r] > 0
      BY <2>1, <3>1, OutcomeOk DEF TypeInv
    <3>. QED
      BY <1>1, <3>2 DEF TypeInv, StatusOk
  <2>. QED
    BY <1>2, <2>3, <2>4, <2>5 DEF TypeInv
<1>. QED
  BY <1>8, <1>9

(***************************************************************************)
(* The batch.                                                              *)
(***************************************************************************)
LEMMA NthOk ==
  ASSUME NEW S \in SUBSET Slot
  PROVE  /\ Cardinality(S) \in Nat
         /\ \A j \in 1 .. Cardinality(S) : Nth(S, j) \in S
         /\ \A s \in S : \E j \in 1 .. Cardinality(S) : Nth(S, j) = s
         /\ \A i, j \in 1 .. Cardinality(S) : Nth(S, i) = Nth(S, j) => i = j
<1>. DEFINE N == Cardinality(S)
            upto(s) == {t \in S : t <= s}
            rank == [s \in S |-> Cardinality(upto(s))]
<1>1. IsFiniteSet(S) /\ N \in Nat
  <2>1. IsFiniteSet(Slot)
    BY FS_Interval DEF Slot
  <2>2. IsFiniteSet(S)
    BY <2>1, FS_Subset
  <2>. QED
    BY <2>2, FS_CardinalityType
<1>2. \A s \in S : IsFiniteSet(upto(s)) /\ Cardinality(upto(s)) \in Nat /\ Cardinality(upto(s)) <= N
  <2>1. ASSUME NEW s \in S PROVE IsFiniteSet(upto(s)) /\ Cardinality(upto(s)) \in Nat /\ Cardinality(upto(s)) <= N
    <3>1. upto(s) \in SUBSET S
      OBVIOUS
    <3>. HIDE DEF upto
    <3>2. IsFiniteSet(upto(s)) /\ Cardinality(upto(s)) <= N
      BY <1>1, <3>1, FS_Subset
    <3>. QED
      BY <3>2, FS_CardinalityType
  <2>. QED
    BY <2>1
<1>3. ASSUME NEW s \in S, NEW t \in S, s < t PROVE Cardinality(upto(s)) < Cardinality(upto(t))
  <2>1. s \in Nat /\ t \in Nat /\ \A x \in S : x \in Nat
    BY DEF Slot
  <2>2. upto(s) \in SUBSET upto(t) /\ t \in upto(t) /\ t \notin upto(s)
    <3>1. \A x \in S : x <= s => x <= t
      BY <1>3, <2>1
    <3>2. t <= t /\ ~(t <= s)
      BY <1>3, <2>1
    <3>. QED
      BY <3>1, <3>2
  <2>. HIDE DEF upto
  <2>3. upto(s) # upto(t)
    BY <2>2
  <2>4. Cardinality(upto(s)) <= Cardinality(upto(t)) /\ Cardinality(upto(t)) # Cardinality(upto(s))
    BY <1>2, <2>2, <2>3, FS_Subset
  <2>. QED
    BY <1>2, <2>4
<1>4. ASSUME NEW s \in S PROVE rank[s] \in 1 .. N
  <2>1. s \in upto(s)
    BY DEF Slot
  <2>2. upto(s) # {}
    BY <2>1
  <2>. HIDE DEF upto
  <2>3. Cardinality(upto(s)) # 0
    BY <1>2, <2>2, FS_EmptySet
  <2>. QED
    BY <1>1, <1>2, <2>3
<1>5. \A s, t \in S : rank[s] = rank[t] => s = t
  <2>1. ASSUME NEW s \in S, NEW t \in S, rank[s] = rank[t] PROVE s = t
    <3>1. ~(s < t) /\ ~(t < s)
      <4>. HIDE DEF upto
      <4>1. Cardinality(upto(s)) = Cardinality(upto(t)) /\ Cardinality(upto(s)) \in Nat
        BY <1>2, <2>1
      <4>2. s < t => FALSE
        BY <1>3, <4>1
      <4>3. t < s => FALSE
        BY <1>3, <4>1
      <4>. QED
        BY <4>2, <4>3
    <3>2. s \in Nat /\ t \in Nat
      BY DEF Slot
    <3>. QED
      BY <3>1, <3>2
  <2>. QED
    BY <2>1
<1>6. \A j \in 1 .. N : \E s \in S : rank[s] = j
  <2>1. rank \in Injection(S, 1 .. N)
    <3>1. rank = [s \in S |-> rank[s]]
      OBVIOUS
    <3>. HIDE DEF rank
    <3>2. rank \in [S -> 1 .. N]
      BY <1>4, <3>1
    <3>. QED
      BY <1>5, <3>2 DEF Injection, IsInjective
  <2>2. IsFiniteSet(1 .. N) /\ Cardinality(1 .. N) = N
    BY <1>1, FS_Interval
  <2>. HIDE DEF rank
  <2>3. rank \in Surjection(S, 1 .. N)
    BY <2>1, <2>2, FS_Injection
  <2>. QED
    BY <2>3 DEF Surjection
<1>7. ASSUME NEW j \in 1 .. N PROVE Nth(S, j) \in S /\ rank[Nth(S, j)] = j
  <2>1. Nth(S, j) = CHOOSE s \in S : Cardinality(upto(s)) = j
    BY DEF Nth
  <2>2. \E s \in S : Cardinality(upto(s)) = j
    BY <1>6
  <2>. HIDE DEF upto
  <2>. QED
    BY <2>1, <2>2
<1>8. ASSUME NEW s \in S PROVE \E j \in 1 .. N : Nth(S, j) = s
  <2>1. PICK j : j = rank[s]
    OBVIOUS
  <2>2. j \in 1 .. N
    BY <1>4, <2>1
  <2>. HIDE DEF rank
  <2>3. Nth(S, j) \in S /\ rank[Nth(S, j)] = rank[s]
    BY <1>7, <2>1, <2>2
  <2>. QED
    BY <1>5, <2>2, <2>3
<1>9. ASSUME NEW i \in 1 .. N, NEW j \in 1 .. N, Nth(S, i) = Nth(S, j) PROVE i = j
  <2>. HIDE DEF rank
  <2>. QED
    BY <1>7, <1>9
<1>. QED
  <2>. HIDE DEF rank
  <2>. QED
    BY <1>1, <1>7, <1>8, <1>9

Generating == {s \in Slot : ~PromptTick /\ slots[s].state = "PROC"}

LEMMA SampledSlots ==
  ASSUME TypeInv, add_sampled_tokens, NEW s \in Slot
  PROVE  /\ slots'[s] \in SlotRec /\ WellKept(slots'[s])
         /\ slots'[s].state = slots[s].state /\ slots'[s].task = slots[s].task
         /\ slots'[s].prompt = slots[s].prompt /\ slots'[s].ticked = slots[s].ticked
         /\ slots'[s].cache = slots[s].cache + (IF s \in Generating THEN 1 ELSE 0)
         /\ s \notin Generating => slots'[s] = slots[s]
         /\ s \in Generating => slots[s].state = "PROC" /\ slots[s].cache < n_ctx - 1
<1>1. PICK x, y : x = slots[s] /\ y = slots'[s]
  OBVIOUS
<1>2. x \in SlotRec /\ WellKept(x) /\ x.n_past \in 0 .. n_ctx - 1 /\ x.cache \in 0 .. n_ctx - 1
  BY <1>1 DEF TypeInv, SlotsOk, SlotRec
<1>3. y = IF s \in Generating THEN [x EXCEPT !.cache = x.cache + 1, !.n_past = x.cache + 1] ELSE x
  BY <1>1 DEF add_sampled_tokens, Generating
<1>4. CASE s \in Generating
  <2>1. x.state = "PROC" /\ x.n_past = x.cache /\ x.n_past < n_ctx - 1
    BY <1>1, <1>2, <1>4 DEF Generating, add_sampled_tokens, TypeInv, Shifted, WellKept
  <2>2. PICK c : c = x.cache + 1
    OBVIOUS
  <2>3. c \in 0 .. n_ctx - 1
    BY <1>2, <2>1, <2>2
  <2>4. y = [x EXCEPT !.cache = c, !.n_past = c]
    BY <1>3, <1>4, <2>2
  <2>5. /\ y \in SlotRec /\ y.state = x.state /\ y.task = x.task /\ y.prompt = x.prompt
        /\ y.ticked = x.ticked /\ y.cache = c /\ y.n_past = c
    BY <1>2, <2>3, <2>4 DEF SlotRec
  <2>6. WellKept(y)
    BY <1>2, <2>1, <2>5 DEF WellKept, is_processing
  <2>. QED
    BY <1>1, <1>2, <1>4, <2>1, <2>2, <2>5, <2>6
<1>5. CASE s \notin Generating
  BY <1>1, <1>2, <1>3, <1>5
<1>. QED
  BY <1>4, <1>5

LEMMA SampledBatch ==
  ASSUME TypeInv, add_sampled_tokens
  PROVE  /\ batch' \in Seq(Entry) /\ Len(batch') = Cardinality(Generating)
         /\ Generating \in SUBSET Slot /\ Cardinality(Generating) \in Nat
         /\ \A j \in 1 .. Len(batch') :
              /\ batch'[j].seq = Nth(Generating, j) /\ Nth(Generating, j) \in Generating
              /\ batch'[j].pos = slots[Nth(Generating, j)].cache
<1>. DEFINE N == Cardinality(Generating)
<1>1. Generating \in SUBSET Slot
  BY DEF Generating
<1>2. N \in Nat /\ \A j \in 1 .. N : Nth(Generating, j) \in Generating
  BY <1>1, NthOk
<1>3. batch' = [j \in 1 .. N |-> [seq |-> Nth(Generating, j), pos |-> slots[Nth(Generating, j)].cache]]
  BY DEF add_sampled_tokens, Generating
<1>4. ASSUME NEW j \in 1 .. N PROVE batch'[j] \in Entry
  <2>1. PICK s : s = Nth(Generating, j)
    OBVIOUS
  <2>2. s \in Slot
    BY <1>1, <1>2, <2>1
  <2>3. slots[s].cache \in 0 .. n_ctx - 1
    BY <2>2 DEF TypeInv, SlotsOk, SlotRec
  <2>4. batch'[j] = [seq |-> s, pos |-> slots[s].cache]
    BY <1>3, <2>1
  <2>. QED
    BY <2>2, <2>3, <2>4 DEF Entry
<1>. HIDE DEF N
<1>5. batch' = [j \in 1 .. N |-> batch'[j]]
  BY <1>3
<1>6. batch' \in Seq(Entry) /\ Len(batch') = N
  BY <1>2, <1>4, <1>5
<1>7. \A j \in 1 .. N : /\ batch'[j].seq = Nth(Generating, j)
                        /\ batch'[j].pos = slots[Nth(Generating, j)].cache
  BY <1>3
<1>. QED
  BY <1>1, <1>2, <1>6, <1>7 DEF N

LEMMA AddSampledTypes ==
  ASSUME TypeInv, add_sampled_tokens
  PROVE  TypeInv'
<1>1. /\ pc' = "prompt" /\ prev_prompt' = PromptTick
      /\ cur' = IF params.recurrent /\ Generating # {} THEN n_parallel + 1 ELSE 1
      /\ UNCHANGED <<params, cells, clean_kv_cache, status, at, nb, defrag_tried>>
  BY DEF add_sampled_tokens, Generating
<1>2. SlotsOk'
  <2>1. slots' = [s \in Slot |-> slots'[s]]
    BY DEF add_sampled_tokens
  <2>. QED
    BY <2>1, SampledSlots DEF SlotsOk
<1>3. CellsOk' /\ StatusOk' /\ Shifted'
  BY <1>1 DEF TypeInv, CellsOk, StatusOk, Shifted
<1>4. BatchOk'
  BY <1>1, SampledBatch DEF TypeInv, BatchOk
<1>5. FlagsOk'
  <2>1. PromptTick \in BOOLEAN
    BY ParamsType DEF PromptTick, TypeInv, StatusOk
  <2>. QED
    BY <1>1, <2>1 DEF TypeInv, FlagsOk
<1>. QED
  BY <1>2, <1>3, <1>4, <1>5 DEF TypeInv

LEMMA NextSlotOk ==
  ASSUME cur \in Slot, NEW n, NextSlot(n)
  PROVE  cur' \in 1 .. n_parallel + 1 /\ cur' > cur
BY DEF NextSlot, Slot

LEMMA SkipTypes ==
  ASSUME TypeInv, SkipSlot
  PROVE  TypeInv'
<1>1. /\ cur' \in 1 .. n_parallel + 1
      /\ UNCHANGED <<params, slots, cells, clean_kv_cache, status, pc, prev_prompt, batch, at, nb, defrag_tried>>
  BY NextSlotOk DEF SkipSlot, ring
<1>2. SlotsOk' /\ Shifted' /\ CellsOk' /\ StatusOk'
  BY <1>1 DEF TypeInv, SlotsOk, Shifted, CellsOk, StatusOk
<1>3. BatchOk' /\ FlagsOk'
  BY <1>1 DEF TypeInv, BatchOk, FlagsOk
<1>. QED
  BY <1>2, <1>3 DEF TypeInv

LEMMA BatchDoneTypes ==
  ASSUME TypeInv, BatchDone
  PROVE  TypeInv'
<1>1. /\ cur' = 1 /\ prev_prompt' = (prev_prompt /\ batch # <<>>) /\ pc' \in {"loop", "decode"}
      /\ UNCHANGED <<params, slots, cells, clean_kv_cache, status, batch, at, nb, defrag_tried>>
  BY DEF BatchDone, ring
<1>2. SlotsOk' /\ Shifted' /\ CellsOk' /\ StatusOk'
  BY <1>1 DEF TypeInv, SlotsOk, Shifted, CellsOk, StatusOk
<1>3. BatchOk'
  BY <1>1 DEF TypeInv, BatchOk
<1>4. FlagsOk'
  BY <1>1 DEF TypeInv, FlagsOk
<1>. QED
  BY <1>2, <1>3, <1>4 DEF TypeInv

(***************************************************************************)
(* A prompt is looked at.                                                  *)
(***************************************************************************)
LEMMA MatchPrefixOk ==
  ASSUME NEW x \in SlotRec, x.state = "LOAD", x.task # NoRequest, x.prompt > 0, x.prompt < n_ctx,
         NEW y \in MatchPrefix(x)
  PROVE  /\ y \in SlotRec /\ WellKept(y) /\ y.state = "LOAD" /\ y.task = x.task
         /\ y.prompt = x.prompt /\ y.ticked /\ y.cache = x.cache /\ y.n_past <= x.cache
<1>1. x.cache \in 0 .. n_ctx - 1 /\ x.prompt \in Nat
  BY DEF SlotRec
<1>2. PICK k \in Reuse :
        y = [x EXCEPT !.ticked = TRUE,
                      !.n_past = IF Min({k, x.cache, x.prompt}) >= x.prompt
                                 THEN x.prompt - 1 ELSE Min({k, x.cache, x.prompt})]
  BY DEF MatchPrefix
<1>3. PICK m : m = Min({k, x.cache, x.prompt})
  OBVIOUS
<1>4. m \in Nat /\ m <= x.cache /\ m <= x.prompt
  <2>1. PICK c, p : c = x.cache /\ p = x.prompt
    OBVIOUS
  <2>2. k \in Nat /\ c \in Nat /\ p \in Nat /\ m = Min({k, c, p})
    BY <1>1, <1>3, <2>1
  <2>3. m \in {k, c, p} /\ m <= c /\ m <= p
    <3>1. k \in Int /\ c \in Int /\ p \in Int
      BY <2>2
    <3>2. /\ Min({k, c, p}) \in {k, c, p}
          /\ Min({k, c, p}) <= k /\ Min({k, c, p}) <= c /\ Min({k, c, p}) <= p
      BY ONLY <3>1, MinThree, Zenon
    <3>. QED
      BY <2>2, <3>2
  <2>. QED
    BY <2>1, <2>2, <2>3
<1>5. PICK q : q = IF m >= x.prompt THEN x.prompt - 1 ELSE m
  OBVIOUS
<1>6. q \in 0 .. n_ctx - 1 /\ q < x.prompt /\ q <= x.cache
  BY <1>1, <1>4, <1>5
<1>7. y = [x EXCEPT !.ticked = TRUE, !.n_past = q]
  BY <1>2, <1>3, <1>5
<1>8. /\ y \in SlotRec /\ y.state = "LOAD" /\ y.task = x.task /\ y.prompt = x.prompt
      /\ y.ticked = TRUE /\ y.cache = x.cache /\ y.n_past = q
  BY <1>6, <1>7 DEF SlotRec
<1>. QED
  BY <1>6, <1>8 DEF WellKept, is_processing

LEMMA Quotient ==
  ASSUME NEW a \in Nat, NEW b \in Nat, b > 0
  PROVE  /\ a \div b \in Nat
         /\ b * (a \div b + 1) > a /\ b * (a \div b + 1) <= a + b
<1>1. PICK q : q = a \div b
  OBVIOUS
<1>2. q \in Int /\ b * q <= a /\ a < b * q + b
  BY <1>1, Z3
<1>3. q >= 0
  <2>1. ASSUME q < 0 PROVE FALSE
    <3>1. q + 1 <= 0
      BY <1>2, <2>1
    <3>2. b * (q + 1) <= 0
      BY <1>2, <3>1
    <3>3. b * (q + 1) = b * q + b
      BY <1>2
    <3>. QED
      BY <1>2, <3>2, <3>3
  <2>. QED
    BY <1>2, <2>1
<1>4. b * (q + 1) = b * q + b
  BY <1>2
<1>5. b * q \in Int
  BY <1>2
<1>. QED
  BY <1>1, <1>2, <1>3, <1>4, <1>5

LEMMA CutPromptOk ==
  ASSUME NEW x \in SlotRec, x.prompt >= n_ctx, BlockSize > 0, NEW y, y = context_shift_prompt(x)
  PROVE  /\ y \in SlotRec /\ y.state = x.state /\ y.task = x.task
         /\ y.prompt > 0 /\ y.prompt < n_ctx
<1>1. x.cache \in 0 .. n_ctx - 1 /\ x.prompt \in Nat
  BY DEF SlotRec
<1>2. PICK b : b = BlockSize
  OBVIOUS
<1>3. b \in Nat /\ b > 0 /\ b < n_ctx
  BY <1>2 DEF BlockSize
<1>4. PICK a : a = x.prompt - n_ctx
  OBVIOUS
<1>5. a \in Nat
  BY <1>1, <1>4
<1>6. PICK d : d = b * (a \div b + 1)
  OBVIOUS
<1>7. d \in Nat /\ d > a /\ d <= a + b
  <2>1. PICK e : e = a \div b + 1
    OBVIOUS
  <2>2. e \in Nat /\ b * e > a /\ b * e <= a + b
    BY <1>3, <1>5, <2>1, Quotient
  <2>3. b * e \in Nat
    BY <1>3, <2>2
  <2>. QED
    BY <1>6, <2>1, <2>2, <2>3
<1>8. PICK p : p = x.prompt - d
  OBVIOUS
<1>9. p \in Nat /\ p > 0 /\ p < n_ctx
  BY <1>1, <1>3, <1>4, <1>5, <1>7, <1>8
<1>10. PICK k : k = CacheBlock(x)
  OBVIOUS
<1>11. k \in Nat /\ k <= x.cache
  <2>1. PICK m : m = Max({0, x.cache - n_keep})
    OBVIOUS
  <2>2. m \in Nat /\ m <= x.cache
    BY <1>1, <2>1, MaxTwo
  <2>3. k = Min({b, m})
    BY <1>2, <1>10, <2>1 DEF CacheBlock
  <2>4. Min({b, m}) = IF b <= m THEN b ELSE m
    BY <1>3, <2>2, MinTwo
  <2>. QED
    BY <1>3, <1>1, <2>2, <2>3, <2>4
<1>12. PICK c : c = IF n_keep + k < x.cache THEN x.cache - k ELSE x.cache
  OBVIOUS
<1>13. c \in 0 .. n_ctx - 1
  BY <1>1, <1>11, <1>12
<1>14. y = [x EXCEPT !.prompt = p, !.cache = c]
  BY <1>2, <1>4, <1>6, <1>8, <1>10, <1>12 DEF context_shift_prompt
<1>15. y \in SlotRec /\ y.state = x.state /\ y.task = x.task /\ y.prompt = p
  BY <1>9, <1>13, <1>14 DEF SlotRec
<1>. QED
  BY <1>9, <1>15

(* A prompt longer than the context can be cut; the code asserts the result *)
(* (GGML_ASSERT(slot.n_prompt_tokens < slot.n_ctx)).                        *)
Cuttable ==
  \/ BlockSize > 0
  \/ params.ctx_shift => \A s \in Slot :
       slots[s].state = "LOAD" /\ ~slots[s].ticked => slots[s].prompt < n_ctx

LEMMA CutBlock ==
  ASSUME NEW x \in SlotRec, BlockSize > 0
  PROVE  [s \in Slot |-> IF s = cur THEN CacheBlock(x) ELSE 0] \in [Slot -> Nat]
<1>1. x.cache \in Nat
  BY DEF SlotRec
<1>2. PICK m : m = Max({0, x.cache - n_keep})
  OBVIOUS
<1>3. m \in Nat
  BY <1>1, <1>2, MaxTwo
<1>4. PICK b : b = BlockSize
  OBVIOUS
<1>5. b \in Nat
  BY <1>4 DEF BlockSize
<1>6. Min({b, m}) \in Nat
  BY <1>3, <1>5, MinTwo
<1>7. CacheBlock(x) = Min({b, m})
  BY <1>2, <1>4 DEF CacheBlock
<1>. QED
  BY <1>6, <1>7

CutCells(x) ==
  discard_cells(cells, n_keep, [s \in Slot |-> IF s = cur THEN CacheBlock(x) ELSE 0],
                [s \in Slot |-> slots[s].n_past])

LEMMA FirstLookCases ==
  ASSUME TypeInv, FirstLook, Cuttable, NEW x, x = slots[cur]
  PROVE  /\ cur \in Slot /\ x \in SlotRec /\ WellKept(x) /\ x.state = "LOAD" /\ ~x.ticked
         /\ \A s \in Slot \ {cur} : slots'[s] = slots[s]
         /\ slots' = [slots EXCEPT ![cur] = slots'[cur]]
         /\ slots'[cur] \in SlotRec /\ WellKept(slots'[cur])
         /\ \/ /\ slots'[cur].state = "LOAD" /\ slots'[cur].ticked /\ slots'[cur].task = x.task
               /\ UNCHANGED <<status, cur>>
               /\ \/ /\ x.prompt < n_ctx /\ UNCHANGED cells
                     /\ slots'[cur].prompt = x.prompt
                     /\ slots'[cur].cache = x.cache /\ slots'[cur].n_past <= x.cache
                  \/ /\ x.prompt >= n_ctx /\ params.ctx_shift /\ BlockSize > 0
                     /\ cells' = CutCells(x)
            \/ /\ slots'[cur] = released(x) /\ UNCHANGED cells
               /\ status' = [status EXCEPT ![x.task] = "error"]
               /\ cur' \in 1 .. n_parallel + 1 /\ cur' > cur
<1>1. /\ cur \in Slot /\ x \in SlotRec /\ WellKept(x) /\ x.state = "LOAD" /\ ~x.ticked
      /\ x.task # NoRequest /\ x.prompt > 0 /\ x.prompt \in Nat
  BY DEF FirstLook, TypeInv, SlotsOk, WellKept, is_processing, SlotRec
<1>2. /\ slots \in [Slot -> SlotRec]
  BY DEF TypeInv, SlotsOk
<1>3. CASE /\ x.prompt < n_ctx
           /\ \E new \in MatchPrefix(x) : slots' = [slots EXCEPT ![cur] = new]
           /\ UNCHANGED <<cells, status, cur>>
  <2>1. PICK y \in MatchPrefix(x) : slots' = [slots EXCEPT ![cur] = y]
    BY <1>3
  <2>2. /\ y \in SlotRec /\ WellKept(y) /\ y.state = "LOAD" /\ y.task = x.task
        /\ y.prompt = x.prompt /\ y.ticked /\ y.cache = x.cache /\ y.n_past <= x.cache
    BY <1>1, <1>3, MatchPrefixOk
  <2>3. slots'[cur] = y /\ \A s \in Slot \ {cur} : slots'[s] = slots[s]
    BY <1>1, <1>2, <2>1
  <2>. QED
    BY <1>1, <1>3, <2>1, <2>2, <2>3
<1>4. CASE /\ x.prompt >= n_ctx /\ params.ctx_shift
           /\ \E new \in MatchPrefix(context_shift_prompt(x)) : slots' = [slots EXCEPT ![cur] = new]
           /\ cells' = CutCells(x)
           /\ UNCHANGED <<status, cur>>
  <2>1. PICK z : z = context_shift_prompt(x)
    OBVIOUS
  <2>2. BlockSize > 0
    BY <1>1, <1>4 DEF Cuttable
  <2>3. /\ z \in SlotRec /\ z.state = x.state /\ z.task = x.task
        /\ z.prompt > 0 /\ z.prompt < n_ctx
    BY <1>1, <1>4, <2>1, <2>2, CutPromptOk
  <2>4. PICK y \in MatchPrefix(z) : slots' = [slots EXCEPT ![cur] = y]
    BY <1>4, <2>1
  <2>5. y \in SlotRec /\ WellKept(y) /\ y.state = "LOAD" /\ y.task = z.task /\ y.ticked
    BY <1>1, <2>3, <2>4, MatchPrefixOk
  <2>6. slots'[cur] = y /\ \A s \in Slot \ {cur} : slots'[s] = slots[s]
    BY <1>1, <1>2, <2>4
  <2>. QED
    BY <1>1, <1>4, <2>2, <2>3, <2>4, <2>5, <2>6
<1>5. CASE /\ x.prompt >= n_ctx /\ ~params.ctx_shift
           /\ slots' = [slots EXCEPT ![cur] = released(x)]
           /\ status' = [status EXCEPT ![x.task] = "error"]
           /\ NextSlot(Len(batch)) /\ UNCHANGED cells
  <2>1. released(x) \in SlotRec /\ WellKept(released(x))
    BY <1>1, ReleasedOk
  <2>2. slots'[cur] = released(x) /\ \A s \in Slot \ {cur} : slots'[s] = slots[s]
    BY <1>1, <1>2, <1>5
  <2>3. cur' \in 1 .. n_parallel + 1 /\ cur' > cur
    BY <1>1, <1>5, NextSlotOk
  <2>. QED
    BY <1>1, <1>5, <2>1, <2>2, <2>3
<1>. QED
  BY <1>3, <1>4, <1>5 DEF FirstLook, CutCells

LEMMA FirstLookTypes ==
  ASSUME TypeInv, FirstLook, Cuttable
  PROVE  TypeInv'
<1>1. PICK x : x = slots[cur]
  OBVIOUS
<1>2. /\ pc = "prompt"
      /\ UNCHANGED <<params, clean_kv_cache, pc, prev_prompt, batch, at, nb, defrag_tried>>
  BY DEF FirstLook
<1>3. /\ cur \in Slot /\ x \in SlotRec /\ WellKept(x) /\ x.state = "LOAD"
      /\ \A s \in Slot \ {cur} : slots'[s] = slots[s]
      /\ slots' = [slots EXCEPT ![cur] = slots'[cur]]
      /\ slots'[cur] \in SlotRec /\ WellKept(slots'[cur])
  BY <1>1, FirstLookCases
<1>4. \/ UNCHANGED <<status, cur, cells>>
      \/ /\ UNCHANGED <<status, cur>> /\ BlockSize > 0
         /\ cells' = CutCells(x)
      \/ /\ UNCHANGED cells /\ status' = [status EXCEPT ![x.task] = "error"]
         /\ cur' \in 1 .. n_parallel + 1
  BY <1>1, FirstLookCases
<1>5. SlotsOk' /\ Shifted'
  <2>1. slots' \in [Slot -> SlotRec] /\ \A s \in Slot : WellKept(slots'[s])
    BY <1>3 DEF TypeInv, SlotsOk
  <2>. QED
    BY <1>2, <2>1 DEF SlotsOk, Shifted
<1>6. StatusOk'
  BY <1>2, <1>4 DEF TypeInv, StatusOk, Statuses, Outcomes
<1>7. BatchOk' /\ FlagsOk'
  BY <1>2, <1>4 DEF TypeInv, BatchOk, FlagsOk
<1>8. CellsOk'
  <2>1. PICK n, upto : /\ n = [s \in Slot |-> IF s = cur THEN CacheBlock(x) ELSE 0]
                       /\ upto = [s \in Slot |-> slots[s].n_past]
    OBVIOUS
  <2>2. upto \in [Slot -> Nat] /\ (BlockSize > 0 => n \in [Slot -> Nat])
    <3>1. \A s \in Slot : slots[s].n_past \in Nat
      BY DEF TypeInv, SlotsOk, SlotRec
    <3>. QED
      BY <1>3, <2>1, <3>1, CutBlock
  <2>3. BlockSize > 0 => CellSet(discard_cells(cells, n_keep, n, upto))
    BY <2>2, DiscardCells DEF TypeInv, CellsOk
  <2>. QED
    BY <1>4, <2>1, <2>3 DEF TypeInv, CellsOk, CutCells
<1>. QED
  BY <1>5, <1>6, <1>7, <1>8 DEF TypeInv

(* The tokens a prompt adds to the batch.                                   *)
AddedFrom(x, n) == [j \in 1 .. n |-> [seq |-> cur, pos |-> x.n_past + j - 1]]

LEMMA AddPromptFacts ==
  ASSUME TypeInv, AddPromptTokens, NEW x, x = slots[cur]
  PROVE  /\ cur \in Slot /\ x \in SlotRec /\ WellKept(x) /\ x.state = "LOAD" /\ x.ticked
         /\ \A s \in Slot \ {cur} : slots'[s] = slots[s]
         /\ slots' = [slots EXCEPT ![cur] = slots'[cur]]
         /\ \E n \in 0 .. x.prompt - x.n_past :
              /\ slots'[cur] \in SlotRec /\ WellKept(slots'[cur])
              /\ slots'[cur].state = IF x.n_past + n = x.prompt THEN "PROC" ELSE "LOAD"
              /\ slots'[cur].task = x.task /\ slots'[cur].prompt = x.prompt /\ slots'[cur].ticked
              /\ slots'[cur].n_past = x.n_past + n /\ slots'[cur].cache = x.n_past + n
              /\ batch' = batch \o AddedFrom(x, n) /\ AddedFrom(x, n) \in Seq(Entry)
              /\ Len(AddedFrom(x, n)) = n
              /\ cur' \in 1 .. n_parallel + 1 /\ cur' > cur
<1>1. cur \in Slot /\ x.state = "LOAD" /\ x.ticked
  BY DEF AddPromptTokens
<1>2. /\ x \in SlotRec /\ WellKept(x) /\ x.n_past < x.prompt /\ x.prompt < n_ctx
      /\ x.n_past \in 0 .. n_ctx - 1 /\ x.prompt \in Nat /\ slots \in [Slot -> SlotRec]
      /\ x.task # NoRequest
  BY <1>1 DEF TypeInv, SlotsOk, WellKept, SlotRec, is_processing
<1>3. PICK n : n = Min({x.prompt - x.n_past, Max({0, n_batch - Len(batch)})})
  OBVIOUS
<1>4. PICK d : d = x.prompt - x.n_past
  OBVIOUS
<1>5. n \in 0 .. d
  <2>1. PICK m : m = Max({0, n_batch - Len(batch)})
    OBVIOUS
  <2>2. Len(batch) \in Nat
    BY DEF TypeInv, BatchOk
  <2>3. m \in Nat
    BY <2>1, <2>2, MaxTwo
  <2>4. d \in Nat
    BY <1>2, <1>4
  <2>5. n = Min({d, m})
    BY <1>3, <1>4, <2>1
  <2>6. Min({d, m}) = IF d <= m THEN d ELSE m
    BY <2>3, <2>4, MinTwo
  <2>. QED
    BY <2>3, <2>4, <2>5, <2>6
<1>6. PICK p : p = x.n_past + n
  OBVIOUS
<1>7. p \in 0 .. n_ctx - 1 /\ p <= x.prompt
  BY <1>2, <1>4, <1>5, <1>6
<1>8. PICK y : y = [x EXCEPT !.cache = p, !.n_past = p, !.state = IF p = x.prompt THEN "PROC" ELSE "LOAD"]
  OBVIOUS
<1>9. /\ y \in SlotRec /\ y.state = (IF p = x.prompt THEN "PROC" ELSE "LOAD") /\ y.task = x.task
      /\ y.prompt = x.prompt /\ y.ticked = x.ticked /\ y.cache = p /\ y.n_past = p
  <2>1. CASE p = x.prompt
    <3>1. y = [x EXCEPT !.cache = p, !.n_past = p, !.state = "PROC"]
      BY <1>8, <2>1
    <3>. QED
      BY <1>2, <1>7, <2>1, <3>1 DEF SlotRec, SlotState
  <2>2. CASE p # x.prompt
    <3>1. y = [x EXCEPT !.cache = p, !.n_past = p, !.state = "LOAD"]
      BY <1>8, <2>2
    <3>. QED
      BY <1>2, <1>7, <2>2, <3>1 DEF SlotRec, SlotState
  <2>. QED
    BY <2>1, <2>2
<1>10. WellKept(y)
  BY <1>1, <1>2, <1>7, <1>9 DEF WellKept, is_processing
<1>11. slots' = [slots EXCEPT ![cur] = y]
  BY <1>3, <1>6, <1>8 DEF AddPromptTokens
<1>12. slots'[cur] = y /\ \A s \in Slot \ {cur} : slots'[s] = slots[s]
  BY <1>1, <1>2, <1>11
<1>13. batch' = batch \o AddedFrom(x, n)
  BY <1>3 DEF AddPromptTokens, AddedFrom
<1>14. AddedFrom(x, n) \in Seq(Entry) /\ Len(AddedFrom(x, n)) = n
  <2>1. n \in Nat
    BY <1>2, <1>4, <1>5
  <2>2. ASSUME NEW j \in 1 .. n PROVE [seq |-> cur, pos |-> x.n_past + j - 1] \in Entry
    <3>1. x.n_past + j - 1 \in 0 .. n_ctx - 1
      BY <1>2, <1>4, <1>5
    <3>. QED
      BY <1>1, <3>1 DEF Entry
  <2>. QED
    BY <2>1, <2>2 DEF AddedFrom
<1>15. cur' \in 1 .. n_parallel + 1 /\ cur' > cur
  BY <1>1, NextSlotOk DEF AddPromptTokens
<1>16. n \in 0 .. x.prompt - x.n_past
  BY <1>4, <1>5
<1>17. /\ slots'[cur] \in SlotRec /\ WellKept(slots'[cur])
       /\ slots'[cur].state = IF x.n_past + n = x.prompt THEN "PROC" ELSE "LOAD"
       /\ slots'[cur].task = x.task /\ slots'[cur].prompt = x.prompt /\ slots'[cur].ticked
       /\ slots'[cur].n_past = x.n_past + n /\ slots'[cur].cache = x.n_past + n
  BY <1>1, <1>6, <1>9, <1>10, <1>12
<1>. QED
  BY <1>1, <1>2, <1>11, <1>12, <1>13, <1>14, <1>15, <1>16, <1>17

LEMMA AddPromptTypes ==
  ASSUME TypeInv, AddPromptTokens
  PROVE  TypeInv'
<1>1. PICK x : x = slots[cur]
  OBVIOUS
<1>2. /\ pc = "prompt"
      /\ UNCHANGED <<params, clean_kv_cache, status, pc, prev_prompt, at, nb, defrag_tried>>
      /\ cells' \in SUBSET cells
  BY DEF AddPromptTokens
<1>3. /\ cur \in Slot /\ \A s \in Slot \ {cur} : slots'[s] = slots[s]
      /\ slots' = [slots EXCEPT ![cur] = slots'[cur]]
  BY <1>1, AddPromptFacts
<1>4. PICK n \in 0 .. x.prompt - x.n_past :
        /\ slots'[cur] \in SlotRec /\ WellKept(slots'[cur])
        /\ batch' = batch \o AddedFrom(x, n) /\ AddedFrom(x, n) \in Seq(Entry)
        /\ cur' \in 1 .. n_parallel + 1
  BY <1>1, AddPromptFacts
<1>5. SlotsOk' /\ Shifted'
  <2>1. slots' \in [Slot -> SlotRec] /\ \A s \in Slot : WellKept(slots'[s])
    BY <1>3, <1>4 DEF TypeInv, SlotsOk
  <2>. QED
    BY <1>2, <2>1 DEF SlotsOk, Shifted
<1>6. CellsOk'
  BY <1>2, FewerCells DEF TypeInv, CellsOk
<1>7. BatchOk'
  <2>1. batch' \in Seq(Entry)
    <3>1. PICK b, a : b = batch /\ a = AddedFrom(x, n)
      OBVIOUS
    <3>2. b \in Seq(Entry) /\ a \in Seq(Entry) /\ batch' = b \o a
      BY <1>4, <3>1 DEF TypeInv, BatchOk
    <3>. QED
      BY <3>2
  <2>. QED
    BY <1>2, <1>4, <2>1 DEF TypeInv, BatchOk
<1>8. StatusOk' /\ FlagsOk'
  BY <1>2 DEF TypeInv, StatusOk, FlagsOk
<1>. QED
  BY <1>5, <1>6, <1>7, <1>8 DEF TypeInv

(***************************************************************************)
(* A chunk is decoded, or not.                                             *)
(***************************************************************************)
LEMMA ChunkType ==
  ASSUME TypeInv
  PROVE  /\ ChunkSize \in Int /\ ChunkSize <= nb /\ ChunkSize <= Len(batch) - at
         /\ ChunkSize = nb \/ ChunkSize = Len(batch) - at
         /\ Len(batch) \in Nat /\ at \in Nat /\ nb \in 1 .. n_batch
<1>1. PICK d : d = Len(batch) - at
  OBVIOUS
<1>2. Len(batch) \in Nat /\ at \in Nat /\ nb \in 1 .. n_batch
  BY DEF TypeInv, BatchOk
<1>3. d \in Int /\ nb \in Int
  BY <1>1, <1>2
<1>4. ChunkSize = Min({nb, d})
  BY <1>1 DEF ChunkSize
<1>5. Min({nb, d}) = IF nb <= d THEN nb ELSE d
  BY <1>3, MinTwo
<1>. QED
  BY <1>1, <1>2, <1>3, <1>4, <1>5

LEMMA UbatchType ==
  ASSUME TypeInv, NEW m \in UbatchEnds
  PROVE  m \in Nat /\ m >= 1 /\ m <= ChunkSize /\ at + m <= Len(batch)
<1>1. m \in 1 .. ChunkSize
  BY DEF UbatchEnds
<1>. QED
  BY <1>1, ChunkType

(* The cell that token j of the batch gets.                                 *)
Copies(b) == Cardinality({x \in cells : x.seq = b.seq /\ x.pos = b.pos})

CellFor(j) == [seq |-> batch[j].seq, pos |-> batch[j].pos, copy |-> Copies(batch[j])]

LEMMA CellForType ==
  ASSUME TypeInv, NEW j \in 1 .. Len(batch)
  PROVE  CellFor(j) \in CellRec
<1>1. batch[j] \in Entry
  BY DEF TypeInv, BatchOk
<1>2. Copies(batch[j]) \in Nat
  <2>1. PICK S : S = {x \in cells : x.seq = batch[j].seq /\ x.pos = batch[j].pos}
    OBVIOUS
  <2>2. S \in SUBSET cells
    BY <2>1
  <2>3. IsFiniteSet(S)
    BY <2>2, FS_Subset DEF TypeInv, CellsOk, CellSet
  <2>. QED
    BY <2>1, <2>3, FS_CardinalityType DEF Copies
<1>. QED
  BY <1>1, <1>2 DEF CellFor, CellRec, Entry

LEMMA PlacedAre ==
  ASSUME NEW m
  PROVE  Placed(m) = cells \cup {CellFor(j) : j \in at + 1 .. at + m}
BY DEF Placed, CellFor, Copies

LEMMA PlacedTypes ==
  ASSUME TypeInv, NEW m \in Int, at + m <= Len(batch), CanPlace(m)
  PROVE  CellSet(Placed(m))
<1>. DEFINE J == at + 1 .. at + m
            f == [j \in J |-> CellFor(j)]
            T == {CellFor(j) : j \in J}
<1>1. at \in Nat /\ Len(batch) \in Nat
  BY DEF TypeInv, BatchOk
<1>2. CellSet(cells)
  BY DEF TypeInv, CellsOk
<1>3. CASE m <= 0
  <2>1. J = {}
    BY <1>1, <1>3
  <2>. HIDE DEF J
  <2>2. T = {}
    BY <2>1
  <2>3. Placed(m) = cells
    BY <2>2, PlacedAre DEF J
  <2>. QED
    BY <1>2, <2>3
<1>4. CASE m > 0
  <2>1. IsFiniteSet(J) /\ Cardinality(J) = m
    BY <1>1, <1>4, FS_Interval
  <2>2. \A j \in J : j \in 1 .. Len(batch)
    BY <1>1
  <2>3. T \in SUBSET CellRec
    <3>. HIDE DEF J
    <3>. QED
      BY <2>2, CellForType
  <2>4. f = [j \in J |-> f[j]] /\ T = {f[j] : j \in J}
    <3>. HIDE DEF J
    <3>. QED
      OBVIOUS
  <2>. HIDE DEF f, J, T
  <2>5. IsFiniteSet(T) /\ Cardinality(T) <= m
    BY <2>1, <2>4, ImageFewer
  <2>6. IsFiniteSet(cells)
    BY <1>2 DEF CellSet
  <2>7. /\ IsFiniteSet(cells \cup T)
        /\ Cardinality(cells \cup T) = Cardinality(cells) + Cardinality(T) - Cardinality(cells \cap T)
    BY <2>5, <2>6, FS_Union
  <2>8. IsFiniteSet(cells \cap T)
    <3>1. cells \cap T \in SUBSET cells
      OBVIOUS
    <3>. QED
      BY <2>6, <3>1, FS_Subset
  <2>9. /\ Cardinality(cells) \in Nat /\ Cardinality(T) \in Nat
        /\ Cardinality(cells \cap T) \in Nat
    BY <2>5, <2>6, <2>8, FS_CardinalityType
  <2>10. Cardinality(cells) + m <= n_ctx
    BY DEF CanPlace
  <2>11. Cardinality(cells \cup T) <= n_ctx
    BY <2>5, <2>7, <2>9, <2>10
  <2>12. Placed(m) = cells \cup T
    BY PlacedAre DEF T, J
  <2>. QED
    BY <1>2, <2>3, <2>7, <2>11, <2>12 DEF CellSet
<1>. QED
  BY <1>3, <1>4

LEMMA EndOk ==
  ASSUME TypeInv, EndDecode
  PROVE  pc' = "loop" /\ batch' = <<>> /\ at' = 0 /\ nb' = n_batch /\ defrag_tried' = FALSE
BY DEF EndDecode

LEMMA PosMax ==
  ASSUME NEW c \in SUBSET CellRec, NEW s
  PROVE  /\ seq_pos_max(c, s) \in 0 .. n_ctx - 1
         /\ \A x \in CellsOf(c, s) : x.pos <= seq_pos_max(c, s)
         /\ seq_pos_max(c, s) = 0 \/ \E x \in CellsOf(c, s) : x.pos = seq_pos_max(c, s)
<1>. DEFINE S == {x.pos : x \in CellsOf(c, s)} \cup {0}
            T == {n_ctx - y : y \in S}
<1>1. S \in SUBSET (0 .. n_ctx - 1)
  BY DEF CellsOf, CellRec
<1>2. T \in SUBSET Nat /\ T # {}
  <2>1. 0 \in S
    OBVIOUS
  <2>. HIDE DEF S
  <2>2. \A y \in S : n_ctx - y \in Nat
    BY <1>1
  <2>. QED
    BY <2>1, <2>2
<1>3. PICK t \in T : \A u \in T : t <= u
  <2>. HIDE DEF T
  <2>. QED
    BY <1>2, Least
<1>. HIDE DEF S
<1>4. PICK m \in S : t = n_ctx - m
  BY <1>3
<1>5. \A y \in S : m >= y
  <2>1. ASSUME NEW y \in S PROVE m >= y
    <3>1. n_ctx - m <= n_ctx - y
      BY <1>3, <1>4
    <3>2. m \in Int /\ y \in Int
      BY <1>1, <1>4
    <3>. QED
      BY <3>1, <3>2
  <2>. QED
    BY <2>1
<1>6. Max(S) \in S /\ \A y \in S : Max(S) >= y
  BY <1>5 DEF Max
<1>7. seq_pos_max(c, s) = Max(S)
  BY DEF seq_pos_max, S
<1>8. PICK k : k = seq_pos_max(c, s)
  OBVIOUS
<1>9. k \in S /\ \A y \in S : k >= y
  BY <1>6, <1>7, <1>8
<1>10. ASSUME NEW x \in CellsOf(c, s) PROVE x.pos <= k
  <2>1. x.pos \in S
    BY DEF S
  <2>2. k >= x.pos /\ k \in Int /\ x.pos \in Int
    BY <1>1, <1>9, <2>1
  <2>. QED
    BY <2>2
<1>11. k = 0 \/ \E x \in CellsOf(c, s) : x.pos = k
  BY <1>9 DEF S
<1>12. k \in 0 .. n_ctx - 1
  BY <1>1, <1>9
<1>. QED
  BY <1>8, <1>10, <1>11, <1>12

LEMMA UnwoundOk ==
  ASSUME TypeInv, NEW c \in SUBSET CellRec, NEW s \in Slot, NEW y, y = UnwoundSlot(c, s)
  PROVE  /\ y \in SlotRec /\ WellKept(y) /\ y.state = "RELEASE" /\ y.task = NoRequest
         /\ y.cache = IF slots[s].cache <= seq_pos_max(c, s) + 1
                      THEN slots[s].cache ELSE seq_pos_max(c, s) + 1
<1>1. PICK x : x = slots[s]
  OBVIOUS
<1>2. x \in SlotRec /\ WellKept(x) /\ x.cache \in 0 .. n_ctx - 1
  BY <1>1 DEF TypeInv, SlotsOk, SlotRec
<1>3. PICK k : k = seq_pos_max(c, s) + 1
  OBVIOUS
<1>4. k \in 0 .. n_ctx
  BY <1>3, PosMax
<1>5. PICK n, i : i = x.cache /\ n = Min({i, k})
  OBVIOUS
<1>6. i \in Int /\ k \in Int
  BY <1>2, <1>4, <1>5
<1>7. n = IF i <= k THEN i ELSE k
  BY <1>5, <1>6, MinTwo
<1>8. n \in 0 .. n_ctx - 1
  <2>1. i \in 0 .. n_ctx - 1
    BY <1>2, <1>5
  <2>2. CASE i <= k
    BY <1>7, <2>1, <2>2
  <2>3. CASE ~(i <= k)
    BY <1>4, <1>7, <2>1, <2>3
  <2>. QED
    BY <2>2, <2>3
<1>9. PICK z : z = released(x)
  OBVIOUS
<1>10. z \in SlotRec /\ z.state = "RELEASE" /\ z.task = NoRequest
  BY <1>2, <1>9, ReleasedOk
<1>11. y = [z EXCEPT !.cache = n]
  BY <1>1, <1>3, <1>5, <1>9 DEF UnwoundSlot
<1>12. y \in SlotRec /\ y.state = "RELEASE" /\ y.task = NoRequest /\ y.cache = n
  BY <1>8, <1>10, <1>11 DEF SlotRec
<1>. QED
  BY <1>1, <1>3, <1>5, <1>7, <1>12 DEF WellKept, is_processing

LEMMA DoneOk ==
  ASSUME TypeInv, NEW done \in SUBSET Sampled,
         {s \in Sampled : slots[s].n_decoded + 1 >= MaxGen} \subseteq done,
         NEW s \in Slot,
         NEW y, y = IF s \in done THEN released(slots[s])
                    ELSE IF s \in Sampled THEN [slots[s] EXCEPT !.n_decoded = @ + 1] ELSE slots[s]
  PROVE  /\ y \in SlotRec /\ WellKept(y) /\ y.cache = slots[s].cache
         /\ s \in done => y.state = "RELEASE" /\ y.task = NoRequest
         /\ s \notin done => /\ y.state = slots[s].state /\ y.task = slots[s].task
                             /\ y.prompt = slots[s].prompt /\ y.ticked = slots[s].ticked
                             /\ y.n_past = slots[s].n_past
<1>1. PICK x : x = slots[s]
  OBVIOUS
<1>2. x \in SlotRec /\ WellKept(x) /\ x.n_decoded \in 0 .. MaxGen
  BY <1>1 DEF TypeInv, SlotsOk, SlotRec
<1>3. CASE s \in done
  BY <1>1, <1>2, <1>3, ReleasedOk
<1>4. CASE s \notin done /\ s \in Sampled
  <2>1. PICK d : d = x.n_decoded + 1
    OBVIOUS
  <2>2. ~(d >= MaxGen)
    BY <1>1, <1>4, <2>1
  <2>3. d \in 0 .. MaxGen
    BY <1>2, <2>1, <2>2
  <2>4. y = [x EXCEPT !.n_decoded = d]
    BY <1>1, <1>4, <2>1
  <2>5. /\ y \in SlotRec /\ y.state = x.state /\ y.task = x.task /\ y.prompt = x.prompt
        /\ y.ticked = x.ticked /\ y.n_past = x.n_past /\ y.cache = x.cache
    BY <1>2, <2>3, <2>4 DEF SlotRec
  <2>. QED
    BY <1>1, <1>2, <1>4, <2>5 DEF WellKept, is_processing
<1>5. CASE s \notin done /\ s \notin Sampled
  BY <1>1, <1>2, <1>5
<1>. QED
  BY <1>3, <1>4, <1>5

LEMMA EndTypes ==
  ASSUME TypeInv, EndDecode, UNCHANGED cur
  PROVE  BatchOk' /\ Shifted'
<1>1. pc' = "loop" /\ batch' = <<>> /\ at' = 0 /\ nb' = n_batch
  BY EndOk
<1>. QED
  BY <1>1 DEF TypeInv, BatchOk, Shifted

LEMMA DecodeChunkTypes ==
  ASSUME TypeInv, DecodeChunk
  PROVE  TypeInv'
<1>1. /\ pc = "decode" /\ CanPlace(ChunkSize) /\ cells' = Placed(ChunkSize)
      /\ UNCHANGED <<params, clean_kv_cache, prev_prompt, cur>>
  BY DEF DecodeChunk
<1>2. PICK done \in SUBSET Sampled :
        /\ {s \in Sampled : slots[s].n_decoded + 1 >= MaxGen} \subseteq done
        /\ slots' = [s \in Slot |->
                        IF s \in done THEN released(slots[s])
                        ELSE IF s \in Sampled THEN [slots[s] EXCEPT !.n_decoded = @ + 1]
                        ELSE slots[s]]
        /\ status' = Outcome(done, "answered")
  BY DEF DecodeChunk
<1>3. CellsOk'
  BY <1>1, ChunkType, PlacedTypes DEF CellsOk
<1>4. SlotsOk'
  <2>1. slots' = [s \in Slot |-> slots'[s]]
    BY <1>2
  <2>2. ASSUME NEW s \in Slot PROVE slots'[s] \in SlotRec /\ WellKept(slots'[s])
    <3>1. PICK y : y = slots'[s]
      OBVIOUS
    <3>2. y = IF s \in done THEN released(slots[s])
              ELSE IF s \in Sampled THEN [slots[s] EXCEPT !.n_decoded = @ + 1] ELSE slots[s]
      BY <1>2, <3>1
    <3>. QED
      BY <1>2, <3>1, <3>2, DoneOk
  <2>. QED
    BY <2>1, <2>2 DEF SlotsOk
<1>5. StatusOk'
  <2>1. "answered" \in Outcomes
    BY DEF Outcomes
  <2>2. /\ status' \in [Request -> Statuses]
        /\ \A r \in Request : status'[r] \in {"queued", "deferred"} => params.len[r] > 0
    BY <1>2, <2>1, OutcomeOk DEF TypeInv
  <2>. QED
    BY <1>1, <2>2 DEF TypeInv, StatusOk
<1>6. CASE EndDecode
  <2>1. BatchOk' /\ Shifted'
    BY <1>1, <1>6, EndTypes
  <2>2. FlagsOk'
    BY <1>1, <1>6, EndOk DEF TypeInv, FlagsOk
  <2>. QED
    BY <1>3, <1>4, <1>5, <2>1, <2>2 DEF TypeInv
<1>7. CASE /\ ~(at + ChunkSize >= Len(batch))
           /\ at' = at + ChunkSize /\ UNCHANGED <<pc, batch, nb, defrag_tried>>
  <2>1. at' \in Nat
    BY <1>7, ChunkType
  <2>2. BatchOk' /\ Shifted'
    BY <1>1, <1>7, <2>1 DEF TypeInv, BatchOk, Shifted
  <2>3. FlagsOk'
    BY <1>1, <1>7 DEF TypeInv, FlagsOk
  <2>. QED
    BY <1>3, <1>4, <1>5, <2>2, <2>3 DEF TypeInv
<1>. QED
  BY <1>6, <1>7 DEF DecodeChunk

LEMMA NoRoomTypes ==
  ASSUME TypeInv, DecodeNoRoom
  PROVE  TypeInv'
<1>1. /\ pc = "decode" /\ UNCHANGED <<params, clean_kv_cache, prev_prompt, cur>>
  BY DEF DecodeNoRoom
<1>2. CellsOk'
  <2>1. PICK m \in ({0} \cup UbatchEnds) \ {ChunkSize} : NoRoomAfter(m) /\ cells' = Placed(m)
    BY DEF DecodeNoRoom
  <2>2. CanPlace(m)
    BY <2>1 DEF NoRoomAfter
  <2>3. m = 0 \/ m \in UbatchEnds
    BY <2>1
  <2>4. CASE m = 0
    <3>1. at \in Nat
      BY DEF TypeInv, BatchOk
    <3>2. at + 1 .. at + m = {}
      BY <2>4, <3>1
    <3>3. Placed(m) = cells
      BY <3>2, PlacedAre
    <3>. QED
      BY <2>1, <3>3 DEF TypeInv, CellsOk
  <2>5. CASE m \in UbatchEnds
    BY <2>1, <2>2, <2>5, UbatchType, PlacedTypes DEF CellsOk
  <2>. QED
    BY <2>3, <2>4, <2>5
<1>3. CASE UnwindFail
  <2>1. /\ slots' = [s \in Slot |-> IF s \in Processing THEN released(slots[s]) ELSE slots[s]]
        /\ status' = Outcome(Processing, "failed") /\ EndDecode
    BY <1>3 DEF UnwindFail
  <2>2. SlotsOk'
    <3>1. slots' = [s \in Slot |-> slots'[s]]
      BY <2>1
    <3>2. ASSUME NEW s \in Slot PROVE slots'[s] \in SlotRec /\ WellKept(slots'[s])
      <4>1. WellKept(slots[s]) /\ slots[s] \in SlotRec
        BY DEF TypeInv, SlotsOk
      <4>2. WellKept(released(slots[s])) /\ released(slots[s]) \in SlotRec
        BY <4>1, ReleasedOk
      <4>. QED
        BY <2>1, <4>1, <4>2
    <3>. QED
      BY <3>1, <3>2 DEF SlotsOk
  <2>3. StatusOk'
    <3>1. "failed" \in Outcomes
      BY DEF Outcomes
    <3>2. /\ status' \in [Request -> Statuses]
          /\ \A r \in Request : status'[r] \in {"queued", "deferred"} => params.len[r] > 0
      BY <2>1, <3>1, OutcomeOk DEF TypeInv
    <3>. QED
      BY <1>1, <3>2 DEF TypeInv, StatusOk
  <2>4. BatchOk' /\ Shifted'
    BY <1>1, <2>1, EndTypes
  <2>5. FlagsOk'
    BY <1>1, <2>1, EndOk DEF TypeInv, FlagsOk
  <2>. QED
    BY <1>2, <2>2, <2>3, <2>4, <2>5 DEF TypeInv
<1>4. CASE /\ ~(defrag_tried /\ nb = 1)
           /\ defrag_tried' = TRUE
           /\ nb' = IF defrag_tried THEN nb \div 2 ELSE nb
           /\ UNCHANGED <<slots, status, pc, batch, at>>
  <2>1. SlotsOk' /\ Shifted' /\ StatusOk'
    BY <1>1, <1>4 DEF TypeInv, SlotsOk, Shifted, StatusOk
  <2>2. nb' \in 1 .. n_batch
    <3>1. nb \in 1 .. n_batch /\ nb \div 2 \in Int /\ 2 * (nb \div 2) <= nb /\ nb < 2 * (nb \div 2) + 2
      BY DEF TypeInv, BatchOk
    <3>2. CASE defrag_tried
      <4>1. nb > 1 /\ nb' = nb \div 2
        BY <1>4, <3>1, <3>2
      <4>. QED
        BY <3>1, <4>1
    <3>3. CASE ~defrag_tried
      BY <1>4, <3>1, <3>3
    <3>. QED
      BY <3>2, <3>3
  <2>3. BatchOk'
    BY <1>1, <1>4, <2>2 DEF TypeInv, BatchOk
  <2>4. FlagsOk'
    BY <1>1, <1>4 DEF TypeInv, FlagsOk
  <2>. QED
    BY <1>2, <2>1, <2>3, <2>4 DEF TypeInv
<1>. QED
  BY <1>3, <1>4 DEF DecodeNoRoom

LEMMA AbortedTypes ==
  ASSUME TypeInv, DecodeAborted
  PROVE  TypeInv'
<1>1. /\ status' = Outcome(Processing, "aborted") /\ EndDecode
      /\ UNCHANGED <<params, clean_kv_cache, prev_prompt, cur>>
  BY DEF DecodeAborted
<1>2. PICK m \in UbatchEnds :
        /\ CanPlace(m) /\ cells' = Placed(m)
        /\ slots' = [s \in Slot |-> IF s \in Processing THEN UnwoundSlot(cells', s) ELSE slots[s]]
  BY DEF DecodeAborted
<1>3. CellsOk' /\ cells' \in SUBSET CellRec
  <2>1. CellSet(Placed(m))
    BY <1>2, UbatchType, PlacedTypes
  <2>. QED
    BY <1>2, <2>1 DEF CellsOk, CellSet
<1>4. SlotsOk'
  <2>1. slots' = [s \in Slot |-> slots'[s]]
    BY <1>2
  <2>2. ASSUME NEW s \in Slot PROVE slots'[s] \in SlotRec /\ WellKept(slots'[s])
    <3>1. PICK c, y : c = cells' /\ y = UnwoundSlot(c, s)
      OBVIOUS
    <3>2. y \in SlotRec /\ WellKept(y)
      BY <1>3, <3>1, UnwoundOk
    <3>3. slots'[s] = IF s \in Processing THEN y ELSE slots[s]
      BY <1>2, <3>1
    <3>. QED
      BY <3>2, <3>3 DEF TypeInv, SlotsOk
  <2>. QED
    BY <2>1, <2>2 DEF SlotsOk
<1>5. StatusOk'
  <2>1. "aborted" \in Outcomes
    BY DEF Outcomes
  <2>2. /\ status' \in [Request -> Statuses]
        /\ \A r \in Request : status'[r] \in {"queued", "deferred"} => params.len[r] > 0
    BY <1>1, <2>1, OutcomeOk DEF TypeInv
  <2>. QED
    BY <1>1, <2>2 DEF TypeInv, StatusOk
<1>6. BatchOk' /\ Shifted'
  BY <1>1, EndTypes
<1>7. FlagsOk'
  BY <1>1, EndOk DEF TypeInv, FlagsOk
<1>. QED
  BY <1>3, <1>4, <1>5, <1>6, <1>7 DEF TypeInv

LEMMA NextTypes ==
  ASSUME TypeInv, Cuttable, [Next]_vars
  PROVE  TypeInv'
<1>1. CASE Next
  BY <1>1, DispatchTypes, CancelTypes, ArriveTypes, ReleaseTypes, HeartbeatTypes,
     ContextShiftTypes, AddSampledTypes, SkipTypes, FirstLookTypes, AddPromptTypes,
     BatchDoneTypes, DecodeChunkTypes, NoRoomTypes, AbortedTypes DEF Next, MainLoop
<1>2. CASE UNCHANGED vars
  <2>1. UNCHANGED <<params, slots, cells, clean_kv_cache, status, pc, prev_prompt, cur, batch, at, nb, defrag_tried>>
    BY <1>2 DEF vars, ring, decode
  <2>2. SlotsOk' /\ Shifted' /\ CellsOk' /\ StatusOk'
    BY <2>1 DEF TypeInv, SlotsOk, Shifted, CellsOk, StatusOk
  <2>3. BatchOk' /\ FlagsOk'
    BY <2>1 DEF TypeInv, BatchOk, FlagsOk
  <2>. QED
    BY <2>2, <2>3 DEF TypeInv
<1>. QED
  BY <1>1, <1>2

(***************************************************************************)
(* Requests in progress keep their cells.                                  *)
(***************************************************************************)
LiveKept ==
  \A s \in Slot :
    \/ slots[s].state # "PROC" \/ slots'[s].state # "PROC"
    \/ slots[s].task # slots'[s].task
    \/ CellsOf(cells, s) \subseteq cells'
    \/ /\ pc = "shift" /\ params.ctx_shift
       /\ \A t \in Slot : slots[t].state = "PROC" => slots[t].n_past <= slots[s].n_past

(* Cells of a sequence that discards nothing stay.                          *)
LEMMA NotDiscarded ==
  ASSUME NEW c \in SUBSET CellRec, NEW keep \in Nat, NEW n, NEW upto, NEW s \in Slot, n[s] = 0,
         NEW x \in CellsOf(c, s)
  PROVE  x \in discard_cells(c, keep, n, upto)
<1>1. x \in c /\ x.seq = s /\ x \in CellRec /\ x.pos \in Int
  BY DEF CellsOf, CellRec
<1>2. ~(keep <= x.pos /\ x.pos < keep + n[x.seq])
  BY <1>1
<1>3. PICK q : q = IF keep + n[x.seq] <= x.pos /\ x.pos < upto[x.seq] THEN x.pos - n[x.seq] ELSE x.pos
  OBVIOUS
<1>4. q = x.pos
  BY <1>1, <1>3
<1>5. [x EXCEPT !.pos = q] = x
  BY <1>1, <1>4 DEF CellRec
<1>6. [x EXCEPT !.pos = IF keep + n[x.seq] <= x.pos /\ x.pos < upto[x.seq]
                        THEN x.pos - n[x.seq] ELSE x.pos] = x
  BY <1>3, <1>5
<1>. QED
  BY <1>1, <1>2, <1>6 DEF discard_cells

LEMMA CellsAre == TypeInv => cells \in SUBSET CellRec
BY DEF TypeInv, CellsOk, CellSet

LEMMA DispatchKeeps ==
  ASSUME TypeInv, NEW r \in Request, Dispatch(r)
  PROVE  LiveKept
<1>1. \/ UNCHANGED cells
      \/ \E s \in Slot : kv_unified_admit(r, s)
  BY DEF Dispatch, NoSlotAvailable, ring
<1>2. \/ UNCHANGED cells
      \/ \E V \in SUBSET IdleSlots : cells' = ReclaimedCells(V)
  BY <1>1, VictimsIdle DEF kv_unified_admit
<1>3. CASE UNCHANGED cells
  BY <1>3 DEF LiveKept, CellsOf
<1>4. CASE \E V \in SUBSET IdleSlots : cells' = ReclaimedCells(V)
  <2>1. PICK V \in SUBSET IdleSlots : cells' = ReclaimedCells(V)
    BY <1>4
  <2>2. ASSUME NEW s \in Slot, slots[s].state = "PROC" PROVE CellsOf(cells, s) \subseteq cells'
    <3>1. s \notin V
      BY <2>2 DEF IdleSlots
    <3>. QED
      BY <2>1, <3>1 DEF CellsOf, ReclaimedCells
  <2>. QED
    BY <2>2 DEF LiveKept
<1>. QED
  BY <1>2, <1>3, <1>4

LEMMA ShiftKeeps ==
  ASSUME TypeInv, context_shift
  PROVE  LiveKept
<1>1. pc = "shift"
  BY DEF context_shift
<1>2. PICK V \in SUBSET IdleSlots, Y \in SUBSET Slot :
        Yields(ReclaimedSlots(V), Y) /\ ShiftStep(ReclaimedSlots(V), ReclaimedCells(V), Y)
  BY ShiftFacts DEF TypeInv
<1>3. PICK sl, c : sl = ReclaimedSlots(V) /\ c = ReclaimedCells(V)
  OBVIOUS
<1>4. /\ sl \in [Slot -> SlotRec] /\ \A s \in Slot \ V : sl[s] = slots[s]
      /\ \A s \in Slot : sl[s].state = slots[s].state
  BY <1>3, ReclaimedOk DEF TypeInv
<1>5. Yields(sl, Y) /\ ShiftStep(sl, c, Y)
  BY <1>2, <1>3
<1>6. SUFFICES ASSUME NEW s \in Slot, slots[s].state = "PROC"
               PROVE  \/ CellsOf(cells, s) \subseteq cells'
                      \/ /\ params.ctx_shift
                         /\ \A t \in Slot : slots[t].state = "PROC" => slots[t].n_past <= slots[s].n_past
  BY <1>1 DEF LiveKept
<1>7. \A t \in Slot : slots[t].state = "PROC" => t \notin V
  BY DEF IdleSlots
<1>8. CellsOf(cells, s) \subseteq CellsOf(c, s)
  BY <1>3, <1>6, <1>7 DEF CellsOf, ReclaimedCells
<1>9. c \in SUBSET CellRec
  BY <1>3, CellsAre DEF ReclaimedCells
<1>10. CASE ~params.ctx_shift
  <2>1. cells' = c
    BY <1>5, <1>10 DEF ShiftStep
  <2>. QED
    BY <1>8, <2>1 DEF CellsOf
<1>11. CASE params.ctx_shift /\ s \notin Y
  <2>1. PICK n, upto : n = DiscardedFor(sl, Y) /\ upto = [t \in Slot |-> sl[t].n_past]
    OBVIOUS
  <2>2. cells' = discard_cells(c, KeptTokens, n, upto)
    BY <1>5, <1>11, <2>1 DEF ShiftStep
  <2>3. n[s] = 0
    BY <1>11, <2>1 DEF DiscardedFor
  <2>4. \A x \in CellsOf(c, s) : x \in discard_cells(c, KeptTokens, n, upto)
    <3>1. ASSUME NEW x \in CellsOf(c, s) PROVE x \in discard_cells(c, KeptTokens, n, upto)
      <4>1. KeptTokens \in Nat
        BY KeptTokensType
      <4>. QED
        BY <1>6, <1>9, <2>3, <4>1, NotDiscarded
    <3>. QED
      BY <3>1
  <2>. QED
    BY <1>8, <2>2, <2>4
<1>12. CASE params.ctx_shift /\ s \in Y
  <2>1. s \in Deepest(sl) \/ sl[s].n_past = n_ctx - 1
    BY <1>5, <1>12 DEF Yields
  <2>2. sl[s] = slots[s]
    BY <1>4, <1>6, <1>7
  <2>3. ASSUME NEW t \in Slot, slots[t].state = "PROC" PROVE slots[t].n_past <= slots[s].n_past
    <3>1. sl[t] = slots[t] /\ sl[t].state = "PROC"
      BY <1>4, <1>7, <2>3
    <3>2. sl[t].n_past \in 0 .. n_ctx - 1 /\ sl[s].n_past \in 0 .. n_ctx - 1
      BY <1>4 DEF SlotRec
    <3>3. s \in Deepest(sl) => sl[t].n_past < sl[s].n_past \/ sl[t].n_past = sl[s].n_past
      BY <3>1 DEF Deepest
    <3>. QED
      BY <2>1, <2>2, <3>1, <3>2, <3>3
  <2>. QED
    BY <1>12, <2>3
<1>. QED
  BY <1>10, <1>11, <1>12

LEMMA FirstLookKeeps ==
  ASSUME TypeInv, FirstLook, Cuttable
  PROVE  LiveKept
<1>1. PICK x : x = slots[cur]
  OBVIOUS
<1>2. cur \in Slot /\ slots[cur].state = "LOAD"
  BY <1>1, FirstLookCases
<1>3. UNCHANGED cells \/ cells' = CutCells(x)
  BY <1>1, FirstLookCases
<1>4. CASE UNCHANGED cells
  BY <1>4 DEF LiveKept, CellsOf
<1>5. CASE cells' = CutCells(x)
  <2>1. PICK n, upto : /\ n = [s \in Slot |-> IF s = cur THEN CacheBlock(x) ELSE 0]
                       /\ upto = [s \in Slot |-> slots[s].n_past]
    OBVIOUS
  <2>2. cells' = discard_cells(cells, n_keep, n, upto)
    BY <1>5, <2>1 DEF CutCells
  <2>3. ASSUME NEW s \in Slot, slots[s].state = "PROC" PROVE CellsOf(cells, s) \subseteq cells'
    <3>1. n[s] = 0
      BY <1>2, <2>1, <2>3
    <3>2. ASSUME NEW y \in CellsOf(cells, s) PROVE y \in discard_cells(cells, n_keep, n, upto)
      BY <3>1, CellsAre, NotDiscarded
    <3>. QED
      BY <2>2, <3>2
  <2>. QED
    BY <2>3 DEF LiveKept
<1>. QED
  BY <1>3, <1>4, <1>5

LEMMA NextKeeps ==
  ASSUME TypeInv, Cuttable, [Next]_vars
  PROVE  LiveKept
<1>1. ASSUME cells \subseteq cells' PROVE LiveKept
  BY <1>1 DEF LiveKept, CellsOf
<1>2. CASE UNCHANGED vars
  <2>1. cells' = cells
    BY <1>2 DEF vars, ring
  <2>. QED
    BY <1>1, <2>1
<1>3. CASE \E r \in Request : Dispatch(r)
  BY <1>3, DispatchKeeps
<1>4. CASE ReleaseSlots
  <2>1. cells' = cells \/ \A s \in Slot : slots'[s].state = "IDLE"
    BY <1>4 DEF ReleaseSlots
  <2>. QED
    BY <1>1, <2>1 DEF LiveKept
<1>5. CASE context_shift
  BY <1>5, ShiftKeeps
<1>6. CASE FirstLook
  BY <1>6, FirstLookKeeps
<1>7. CASE AddPromptTokens
  <2>1. slots[cur].state = "LOAD"
    BY <1>7 DEF AddPromptTokens
  <2>2. ASSUME NEW s \in Slot, slots[s].state = "PROC" PROVE CellsOf(cells, s) \subseteq cells'
    <3>1. s # cur
      BY <2>1, <2>2
    <3>2. cells' = {x \in cells : ~(x.seq = cur /\ x.pos >= slots[cur].n_past)}
      BY <1>7 DEF AddPromptTokens
    <3>. QED
      BY <3>1, <3>2 DEF CellsOf
  <2>. QED
    BY <2>2 DEF LiveKept
<1>8. CASE DecodeChunk \/ DecodeNoRoom \/ DecodeAborted
  <2>1. \E m : cells' = Placed(m)
    BY <1>8 DEF DecodeChunk, DecodeNoRoom, DecodeAborted
  <2>2. \A m : cells \subseteq Placed(m)
    BY DEF Placed
  <2>. QED
    BY <1>1, <2>1, <2>2
<1>9. CASE \/ Heartbeat \/ add_sampled_tokens \/ SkipSlot \/ BatchDone
           \/ \E r \in Request : Arrive(r) \/ Cancel(r)
  <2>1. cells' = cells
    BY <1>9 DEF Heartbeat, add_sampled_tokens, SkipSlot, BatchDone, Arrive, Cancel, ring
  <2>. QED
    BY <1>1, <2>1
<1>. QED
  BY <1>2, <1>3, <1>4, <1>5, <1>6, <1>7, <1>8, <1>9 DEF Next, MainLoop

(* Whoever else is admitted, whatever prompt another slot loads: a request  *)
(* in progress loses cells of the ring only when the context shift picks    *)
(* the deepest slot (kv_unified_reclaim_idle and context_shift in           *)
(* server-context.cpp).                                                     *)
THEOREM RequestsKeepCells ==
  ASSUME n_keep + 2 <= n_ctx
  PROVE  Spec => LiveSequencesKept
<1>. DEFINE A == LiveKept
<1>1. Cuttable
  <2>1. BlockSize > 0
    BY DEF BlockSize
  <2>. QED
    BY <2>1 DEF Cuttable
<1>2. Init => TypeInv
  BY InitTypes
<1>3. TypeInv /\ [Next]_vars => TypeInv'
  BY <1>1, NextTypes
<1>4. TypeInv /\ [Next]_vars => [A]_vars
  BY <1>1, NextKeeps
<1>5. LiveSequencesKept <=> [][A]_vars
  BY DEF LiveSequencesKept, LiveKept
<1>. HIDE DEF A
<1>. QED
  BY <1>2, <1>3, <1>4, <1>5, PTL DEF Spec

(***************************************************************************)
(* Each slot has a task of its own, and that task is running.              *)
(***************************************************************************)
TaskInv ==
  \A s \in Slot : slots[s].task # NoRequest =>
    /\ status[slots[s].task] = "running"
    /\ slots[s].state = "LOAD" /\ ~slots[s].ticked => slots[s].prompt = params.len[slots[s].task]
    /\ \A t \in Slot \ {s} : slots[t].task # slots[s].task

(* A step lets slots go and takes up none.                                  *)
Follows ==
  \A s \in Slot :
    \/ slots'[s].task = NoRequest
    \/ /\ slots'[s].task = slots[s].task
       /\ status[slots[s].task] = "running" => status'[slots[s].task] = "running"
       /\ slots'[s].state = "LOAD" /\ ~slots'[s].ticked =>
            slots[s].state = "LOAD" /\ ~slots[s].ticked /\ slots'[s].prompt = slots[s].prompt

EndedStays == \A r \in Request : status[r] \in {"failed", "aborted"} => status'[r] = status[r]

LEMMA FollowsTasks ==
  ASSUME TypeInv, TaskInv, Follows, params' = params
  PROVE  TaskInv'
<1>1. ASSUME NEW s \in Slot, slots'[s].task # NoRequest
      PROVE  /\ slots'[s].task = slots[s].task
             /\ status'[slots'[s].task] = "running"
             /\ slots'[s].state = "LOAD" /\ ~slots'[s].ticked => slots'[s].prompt = params.len[slots'[s].task]
  BY <1>1 DEF Follows, TaskInv
<1>2. ASSUME NEW s \in Slot, slots'[s].task # NoRequest, NEW t \in Slot \ {s}
      PROVE  slots'[t].task # slots'[s].task
  <2>1. slots'[s].task = slots[s].task /\ slots[s].task # NoRequest
    BY <1>1, <1>2
  <2>2. CASE slots'[t].task = NoRequest
    BY <1>2, <2>2
  <2>3. CASE slots'[t].task # NoRequest
    <3>1. slots'[t].task = slots[t].task
      BY <1>1, <2>3
    <3>. QED
      BY <2>1, <3>1 DEF TaskInv
  <2>. QED
    BY <2>2, <2>3
<1>. QED
  BY <1>1, <1>2 DEF TaskInv

LEMMA TaskType ==
  ASSUME TypeInv, NEW s \in Slot
  PROVE  /\ slots[s] \in SlotRec /\ WellKept(slots[s])
         /\ slots[s].task # NoRequest => slots[s].task \in Request
         /\ s \in Processing <=> slots[s].task # NoRequest
         /\ slots[s].state = "PROC" \/ slots[s].state = "LOAD" => slots[s].task # NoRequest
BY DEF TypeInv, SlotsOk, SlotRec, WellKept, Processing, is_processing

(* The slots S let their tasks go, with the same outcome.                   *)
LEMMA OutcomeFollows ==
  ASSUME TypeInv, TaskInv, NEW S \in SUBSET Slot, NEW what, status' = Outcome(S, what)
  PROVE  /\ \A r \in Request : status[r] \in {"failed", "aborted"} => status'[r] = status[r]
         /\ \A s \in Slot \ S : slots[s].task # NoRequest => status'[slots[s].task] = status[slots[s].task]
         /\ \A s \in S : slots[s].task # NoRequest => status'[slots[s].task] = what
<1>1. \A r \in Request : status'[r] = IF r \in TasksOf(S) THEN what ELSE status[r]
  BY DEF Outcome
<1>2. ASSUME NEW r \in Request, status[r] \in {"failed", "aborted"} PROVE status'[r] = status[r]
  <2>1. ASSUME NEW s \in S, slots[s].task = r PROVE FALSE
    <3>1. slots[s].task # NoRequest
      BY <2>1
    <3>2. status[r] = "running"
      BY <2>1, <3>1 DEF TaskInv
    <3>. QED
      BY <1>2, <3>2
  <2>2. r \notin TasksOf(S)
    BY <2>1 DEF TasksOf
  <2>. QED
    BY <1>1, <1>2, <2>2
<1>3. ASSUME NEW s \in Slot \ S, slots[s].task # NoRequest
      PROVE  status'[slots[s].task] = status[slots[s].task]
  <2>1. \A t \in S : slots[t].task # slots[s].task
    BY <1>3 DEF TaskInv
  <2>2. slots[s].task \notin TasksOf(S)
    BY <2>1 DEF TasksOf
  <2>3. slots[s].task \in Request
    BY <1>3, TaskType
  <2>. QED
    BY <1>1, <2>2, <2>3
<1>4. ASSUME NEW s \in S, slots[s].task # NoRequest PROVE status'[slots[s].task] = what
  <2>1. slots[s].task \in TasksOf(S)
    BY DEF TasksOf
  <2>2. slots[s].task \in Request
    BY <1>4, TaskType
  <2>. QED
    BY <1>1, <2>1, <2>2
<1>. QED
  BY <1>2, <1>3, <1>4

(* A slot is released, or keeps its task, its prompt and its state.         *)
LEMMA LetGo ==
  ASSUME TypeInv, TaskInv, NEW S \in SUBSET Slot, NEW what, status' = Outcome(S, what),
         \A s \in S : slots'[s].task = NoRequest,
         \A s \in Slot \ S : /\ slots'[s].task = slots[s].task /\ slots'[s].state = slots[s].state
                             /\ slots'[s].ticked = slots[s].ticked /\ slots'[s].prompt = slots[s].prompt
  PROVE  Follows /\ EndedStays
<1>1. ASSUME NEW s \in Slot \ S, slots[s].task # NoRequest
      PROVE  status'[slots[s].task] = status[slots[s].task]
  BY <1>1, OutcomeFollows
<1>2. Follows
  BY <1>1 DEF Follows
<1>. QED
  BY <1>2, OutcomeFollows DEF EndedStays

LEMMA CancelFollows ==
  ASSUME TypeInv, TaskInv, NEW r \in Request, Cancel(r)
  PROVE  Follows /\ EndedStays /\ params' = params
<1>1. /\ status[r] \in {"queued", "deferred", "running"} /\ status' = [status EXCEPT ![r] = "cancelled"]
      /\ slots' = [s \in Slot |-> IF slots[s].task = r THEN released(slots[s]) ELSE slots[s]]
      /\ params' = params
  BY DEF Cancel
<1>2. status \in [Request -> Statuses]
  BY DEF TypeInv, StatusOk
<1>3. ASSUME NEW s \in Slot, slots'[s].task # NoRequest
      PROVE  slots'[s] = slots[s] /\ (status[slots[s].task] = "running" => status'[slots[s].task] = "running")
  <2>1. slots[s].task # r
    <3>1. released(slots[s]).task = NoRequest
      BY TaskType, ReleasedOk
    <3>. QED
      BY <1>1, <1>3, <3>1
  <2>2. slots'[s] = slots[s]
    BY <1>1, <2>1
  <2>3. slots[s].task \in Request
    BY <1>3, <2>2, TaskType
  <2>. QED
    BY <1>1, <1>2, <2>1, <2>2, <2>3
<1>4. Follows
  BY <1>3 DEF Follows
<1>5. EndedStays
  BY <1>1, <1>2 DEF EndedStays
<1>. QED
  BY <1>1, <1>4, <1>5

(* Deferred requests are queued again, no slot changes its task.            *)
LEMMA RequeueFollows ==
  ASSUME TypeInv, status' = requeued \/ status' = status,
         \A s \in Slot : /\ slots'[s].task = slots[s].task
                         /\ slots'[s].state = "LOAD" => slots'[s] = slots[s]
  PROVE  Follows /\ EndedStays
<1>1. \A r \in Request : /\ status[r] = "running" => status'[r] = "running"
                         /\ status[r] \in {"failed", "aborted"} => status'[r] = status[r]
  BY DEF requeued
<1>2. Follows
  BY <1>1, TaskType DEF Follows
<1>. QED
  BY <1>1, <1>2 DEF EndedStays

LEMMA ReleasedOnce ==
  ASSUME TypeInv, ReleaseSlots, NEW s \in Slot
  PROVE  /\ slots'[s].task = slots[s].task /\ slots'[s].cache = slots[s].cache
         /\ slots'[s].state = "LOAD" \/ slots'[s].state = "PROC" => slots'[s] = slots[s]
         /\ slots[s].state = "LOAD" \/ slots[s].state = "PROC" => slots'[s] = slots[s]
<1>1. PICK x, y : x = slots[s] /\ y = slots'[s]
  OBVIOUS
<1>2. y = IF x.state = "RELEASE" THEN [x EXCEPT !.state = "IDLE"] ELSE x
  BY <1>1 DEF ReleaseSlots
<1>3. x \in SlotRec
  BY <1>1, TaskType
<1>4. y.task = x.task /\ y.cache = x.cache /\ (x.state = "RELEASE" => y.state = "IDLE")
  BY <1>2, <1>3 DEF SlotRec
<1>. QED
  BY <1>1, <1>2, <1>4

LEMMA ShiftFollows ==
  ASSUME TypeInv, TaskInv, context_shift
  PROVE  Follows /\ EndedStays
<1>1. PICK V \in SUBSET IdleSlots, Y \in SUBSET Slot :
        Yields(ReclaimedSlots(V), Y) /\ ShiftStep(ReclaimedSlots(V), ReclaimedCells(V), Y)
  BY ShiftFacts DEF TypeInv
<1>2. PICK sl, c : sl = ReclaimedSlots(V) /\ c = ReclaimedCells(V)
  OBVIOUS
<1>3. /\ sl \in [Slot -> SlotRec] /\ \A s \in Slot : WellKept(sl[s])
      /\ \A s \in Slot \ V : sl[s] = slots[s]
      /\ \A s \in V : sl[s].task = slots[s].task /\ slots[s].state = "IDLE" /\ sl[s].state = "IDLE"
  BY <1>2, ReclaimedOk DEF TypeInv, IdleSlots
<1>4. Yields(sl, Y) /\ ShiftStep(sl, c, Y)
  BY <1>1, <1>2
<1>5. \A s \in V : slots[s].task = NoRequest
  BY <1>3, TaskType DEF Processing, is_processing, IdleSlots
<1>6. CASE params.ctx_shift
  <2>1. slots' = ShiftedSlots(sl, DiscardedFor(sl, Y)) /\ status' = status
    BY <1>4, <1>6 DEF ShiftStep
  <2>2. ASSUME NEW s \in Slot
        PROVE  /\ slots'[s].task = sl[s].task /\ slots'[s].state = sl[s].state
               /\ slots'[s].ticked = sl[s].ticked /\ slots'[s].prompt = sl[s].prompt
    <3>1. PICK k, y : k = DiscardedFor(sl, Y)[s] /\ y = ShiftedSlots(sl, DiscardedFor(sl, Y))[s]
      OBVIOUS
    <3>2. y.state = sl[s].state /\ y.task = sl[s].task /\ y.prompt = sl[s].prompt /\ y.ticked = sl[s].ticked
      BY ONLY <1>3, <1>4, <2>2, <3>1, ShiftedSlotsOk
    <3>. QED
      BY <2>1, <3>1, <3>2
  <2>3. Follows
    BY <1>3, <1>5, <2>1, <2>2 DEF Follows
  <2>. QED
    BY <2>1, <2>3 DEF EndedStays
<1>7. CASE ~params.ctx_shift
  <2>1. /\ slots' = [s \in Slot |-> IF s \in Y THEN released(sl[s]) ELSE sl[s]]
        /\ status' = Outcome(Y, "error")
    BY <1>4, <1>7 DEF ShiftStep
  <2>2. \A s \in Y : slots'[s].task = NoRequest
    BY <1>3, <2>1, ReleasedOk
  <2>3. \A s \in Slot \ Y : slots'[s] = sl[s]
    BY <2>1
  <2>4. \A s \in Slot \ Y : slots[s].task # NoRequest => slots'[s] = slots[s]
    BY <1>3, <1>5, <2>3
  <2>5. ASSUME NEW s \in Slot \ Y, slots[s].task # NoRequest
        PROVE  status'[slots[s].task] = status[slots[s].task]
    BY <2>1, <2>5, OutcomeFollows
  <2>6. \A s \in Slot \ Y : slots[s].task = NoRequest => slots'[s].task = NoRequest
    BY <1>3, <2>3
  <2>7. Follows
    BY <2>2, <2>4, <2>5, <2>6 DEF Follows
  <2>. QED
    BY <2>1, <2>7, OutcomeFollows DEF EndedStays
<1>. QED
  BY <1>6, <1>7

LEMMA FirstLookFollows ==
  ASSUME TypeInv, TaskInv, FirstLook, Cuttable
  PROVE  Follows /\ EndedStays
<1>1. PICK x : x = slots[cur]
  OBVIOUS
<1>2. /\ cur \in Slot /\ x \in SlotRec /\ WellKept(x) /\ x.state = "LOAD"
      /\ \A s \in Slot \ {cur} : slots'[s] = slots[s]
  BY <1>1, FirstLookCases
<1>3. x.task # NoRequest /\ x.task \in Request /\ status[x.task] = "running"
  BY <1>1, <1>2, TaskType DEF TaskInv
<1>4. status \in [Request -> Statuses]
  BY DEF TypeInv, StatusOk
<1>5. \/ status' = status /\ slots'[cur].ticked /\ slots'[cur].task = x.task
      \/ slots'[cur] = released(x) /\ status' = [status EXCEPT ![x.task] = "error"]
  BY <1>1, FirstLookCases
<1>6. CASE status' = status /\ slots'[cur].ticked /\ slots'[cur].task = x.task
  BY <1>1, <1>2, <1>6 DEF Follows, EndedStays
<1>7. CASE slots'[cur] = released(x) /\ status' = [status EXCEPT ![x.task] = "error"]
  <2>1. slots'[cur].task = NoRequest
    BY <1>2, <1>7, ReleasedOk
  <2>2. ASSUME NEW s \in Slot \ {cur}, slots[s].task # NoRequest
        PROVE  status'[slots[s].task] = status[slots[s].task]
    <3>1. slots[s].task # x.task /\ slots[s].task \in Request
      BY <1>1, <1>2, <2>2, TaskType DEF TaskInv
    <3>. QED
      BY <1>3, <1>4, <1>7, <3>1
  <2>3. Follows
    BY <1>2, <2>1, <2>2 DEF Follows
  <2>4. EndedStays
    BY <1>3, <1>4, <1>7 DEF EndedStays
  <2>. QED
    BY <2>3, <2>4
<1>. QED
  BY <1>5, <1>6, <1>7

LEMMA AddPromptFollows ==
  ASSUME TypeInv, AddPromptTokens
  PROVE  Follows /\ EndedStays
<1>1. PICK x : x = slots[cur]
  OBVIOUS
<1>2. cur \in Slot /\ \A s \in Slot \ {cur} : slots'[s] = slots[s]
  BY <1>1, AddPromptFacts
<1>3. slots'[cur].task = x.task /\ slots'[cur].ticked
  BY <1>1, AddPromptFacts
<1>4. status' = status
  BY DEF AddPromptTokens
<1>. QED
  BY <1>1, <1>2, <1>3, <1>4 DEF Follows, EndedStays

LEMMA ChunkFollows ==
  ASSUME TypeInv, TaskInv, DecodeChunk
  PROVE  Follows /\ EndedStays
<1>1. PICK done \in SUBSET Sampled :
        /\ {s \in Sampled : slots[s].n_decoded + 1 >= MaxGen} \subseteq done
        /\ slots' = [s \in Slot |->
                        IF s \in done THEN released(slots[s])
                        ELSE IF s \in Sampled THEN [slots[s] EXCEPT !.n_decoded = @ + 1]
                        ELSE slots[s]]
        /\ status' = Outcome(done, "answered")
  BY DEF DecodeChunk
<1>2. ASSUME NEW s \in Slot
      PROVE  /\ s \in done => slots'[s].task = NoRequest
             /\ s \notin done => /\ slots'[s].task = slots[s].task /\ slots'[s].state = slots[s].state
                                 /\ slots'[s].ticked = slots[s].ticked /\ slots'[s].prompt = slots[s].prompt
  <2>1. PICK y : y = slots'[s]
    OBVIOUS
  <2>2. y = IF s \in done THEN released(slots[s])
            ELSE IF s \in Sampled THEN [slots[s] EXCEPT !.n_decoded = @ + 1] ELSE slots[s]
    BY <1>1, <2>1
  <2>. QED
    BY <1>1, <2>1, <2>2, DoneOk
<1>3. done \in SUBSET Slot
  BY DEF Sampled
<1>. QED
  BY <1>1, <1>2, <1>3, LetGo

(* Of a decode that is given up, every processing slot is released.         *)
LEMMA UnwindFollows ==
  ASSUME TypeInv, TaskInv, NEW what, status' = Outcome(Processing, what),
         \A s \in Processing : slots'[s].task = NoRequest,
         \A s \in Slot \ Processing : slots'[s] = slots[s]
  PROVE  Follows /\ EndedStays
<1>1. Processing \in SUBSET Slot
  BY DEF Processing
<1>. QED
  BY <1>1, LetGo

LEMMA AbortFollows ==
  ASSUME TypeInv, TaskInv, DecodeAborted
  PROVE  Follows /\ EndedStays
<1>1. /\ status' = Outcome(Processing, "aborted")
      /\ slots' = [s \in Slot |-> IF s \in Processing THEN UnwoundSlot(cells', s) ELSE slots[s]]
  BY DEF DecodeAborted
<1>2. PICK c : c = cells'
  OBVIOUS
<1>3. c \in SUBSET CellRec
  BY <1>2, AbortedTypes DEF TypeInv, CellsOk, CellSet
<1>4. ASSUME NEW s \in Processing PROVE slots'[s].task = NoRequest
  <2>1. s \in Slot
    BY DEF Processing
  <2>2. PICK y : y = UnwoundSlot(c, s)
    OBVIOUS
  <2>3. y.task = NoRequest
    BY <1>3, <2>1, <2>2, UnwoundOk
  <2>. QED
    BY <1>1, <1>2, <2>1, <2>2, <2>3
<1>5. \A s \in Slot \ Processing : slots'[s] = slots[s]
  BY <1>1
<1>. QED
  BY <1>1, <1>4, <1>5, UnwindFollows

LEMMA NoRoomFollows ==
  ASSUME TypeInv, TaskInv, DecodeNoRoom
  PROVE  Follows /\ EndedStays
<1>1. CASE UnwindFail
  <2>1. /\ slots' = [s \in Slot |-> IF s \in Processing THEN released(slots[s]) ELSE slots[s]]
        /\ status' = Outcome(Processing, "failed")
    BY <1>1 DEF UnwindFail
  <2>2. \A s \in Processing : slots'[s].task = NoRequest
    BY <2>1, TaskType, ReleasedOk DEF Processing
  <2>3. \A s \in Slot \ Processing : slots'[s] = slots[s]
    BY <2>1
  <2>. QED
    BY <2>1, <2>2, <2>3, UnwindFollows
<1>2. CASE UNCHANGED <<slots, status>>
  BY <1>2 DEF Follows, EndedStays
<1>. QED
  BY <1>1, <1>2 DEF DecodeNoRoom

LEMMA DispatchTasks ==
  ASSUME TypeInv, TaskInv, NEW r \in Request, Dispatch(r)
  PROVE  TaskInv' /\ EndedStays
<1>1. status[r] = "queued" /\ params' = params
  BY DEF Dispatch
<1>2. status \in [Request -> Statuses]
  BY DEF TypeInv, StatusOk
<1>3. \A t \in Slot : slots[t].task # r
  <2>1. ASSUME NEW t \in Slot, slots[t].task = r PROVE FALSE
    <3>1. slots[t].task # NoRequest
      BY <2>1
    <3>2. status[r] = "running"
      BY <2>1, <3>1 DEF TaskInv
    <3>. QED
      BY <1>1, <3>2
  <2>. QED
    BY <2>1
<1>4. PICK V \in SUBSET IdleSlots :
        \/ NoSlotAvailable(r)
        \/ \E s \in Slot : /\ slots[s].state = "IDLE"
                           /\ \/ Launch(slots, s, r) \/ Launch(ReclaimedSlots(V), s, r)
                              \/ (defer(r) /\ slots' = ReclaimedSlots(V))
  <2>1. CASE NoSlotAvailable(r)
    <3>1. {} \in SUBSET IdleSlots
      OBVIOUS
    <3>. QED
      BY <2>1, <3>1
  <2>2. CASE \E s \in Slot : slots[s].state = "IDLE" /\ kv_unified_admit(r, s)
    <3>1. PICK s \in Slot : slots[s].state = "IDLE" /\ kv_unified_admit(r, s)
      BY <2>2
    <3>2. \/ Launch(slots, s, r)
          \/ \E V \in SUBSET IdleSlots :
               Launch(ReclaimedSlots(V), s, r) \/ (defer(r) /\ slots' = ReclaimedSlots(V))
      BY <3>1, VictimsIdle DEF kv_unified_admit
    <3>3. {} \in SUBSET IdleSlots
      OBVIOUS
    <3>. QED
      BY <3>1, <3>2, <3>3
  <2>. QED
    BY <2>1, <2>2 DEF Dispatch
<1>5. PICK sl : sl = ReclaimedSlots(V)
  OBVIOUS
<1>6. /\ sl \in [Slot -> SlotRec] /\ \A t \in Slot : WellKept(sl[t])
      /\ \A t \in Slot \ V : sl[t] = slots[t]
      /\ \A t \in V : sl[t].task = slots[t].task /\ sl[t].state = "IDLE"
  BY <1>5, ReclaimedOk DEF TypeInv
<1>7. slots \in [Slot -> SlotRec] /\ \A t \in Slot : WellKept(slots[t])
  BY DEF TypeInv, SlotsOk
<1>8. \A t \in Slot : /\ sl[t].task = slots[t].task
                      /\ sl[t].task # NoRequest => sl[t] = slots[t]
  <2>1. \A t \in V : sl[t].task = NoRequest /\ t \in Slot
    BY <1>6 DEF WellKept, is_processing, IdleSlots
  <2>. QED
    BY <1>6, <2>1
<1>9. CASE status' = [status EXCEPT ![r] = "deferred"] /\ (slots' = slots \/ slots' = sl)
  <2>1. EndedStays
    BY <1>1, <1>2, <1>9 DEF EndedStays
  <2>2. ASSUME NEW t \in Slot, slots'[t].task # NoRequest
        PROVE  slots'[t] = slots[t] /\ status'[slots[t].task] = status[slots[t].task]
    <3>1. slots'[t] = slots[t]
      BY <1>8, <1>9, <2>2
    <3>2. slots[t].task \in Request /\ slots[t].task # r
      BY <1>3, <2>2, <3>1, TaskType
    <3>. QED
      BY <1>2, <1>9, <3>1, <3>2
  <2>3. Follows
    BY <2>2 DEF Follows
  <2>. QED
    BY <1>1, <2>1, <2>3, FollowsTasks
<1>10. ASSUME NEW s \in Slot, NEW u \in [Slot -> SlotRec], \A t \in Slot : WellKept(u[t]),
              \A t \in Slot : u[t].task = slots[t].task /\ (u[t].task # NoRequest => u[t] = slots[t]),
              Launch(u, s, r)
       PROVE  TaskInv' /\ EndedStays
  <2>1. /\ status' = [status EXCEPT ![r] = "running"]
        /\ \A t \in Slot \ {s} : slots'[t] = u[t]
        /\ slots'[s].task = r /\ slots'[s].prompt = params.len[r]
    BY <1>1, <1>10, LaunchOk
  <2>2. EndedStays
    BY <1>1, <1>2, <2>1 DEF EndedStays
  <2>3. \A t \in Slot \ {s} : slots'[t].task = slots[t].task
    BY <1>10, <2>1
  <2>4. ASSUME NEW t \in Slot \ {s}, slots'[t].task # NoRequest
        PROVE  /\ status'[slots'[t].task] = "running"
               /\ slots'[t].state = "LOAD" /\ ~slots'[t].ticked => slots'[t].prompt = params.len[slots'[t].task]
               /\ \A v \in Slot \ {t} : slots'[v].task # slots'[t].task
    <3>1. slots'[t] = slots[t] /\ slots[t].task # NoRequest
      BY <1>10, <2>1, <2>4
    <3>2. slots[t].task \in Request /\ slots[t].task # r
      BY <1>3, <3>1, TaskType
    <3>3. status'[slots[t].task] = status[slots[t].task]
      BY <1>2, <2>1, <3>2
    <3>4. \A v \in Slot \ {t} : slots'[v].task # slots[t].task
      BY <2>1, <2>3, <3>1, <3>2 DEF TaskInv
    <3>. QED
      BY <3>1, <3>3, <3>4 DEF TaskInv
  <2>5. \A v \in Slot \ {s} : slots'[v].task # slots'[s].task
    BY <1>3, <2>1, <2>3
  <2>6. status'[r] = "running"
    BY <1>2, <2>1
  <2>7. TaskInv'
    BY <1>1, <2>1, <2>4, <2>5, <2>6 DEF TaskInv
  <2>. QED
    BY <2>2, <2>7
<1>11. CASE NoSlotAvailable(r)
  BY <1>9, <1>11 DEF NoSlotAvailable, ring, defer
<1>12. CASE \E s \in Slot : defer(r) /\ slots' = ReclaimedSlots(V)
  BY <1>5, <1>9, <1>12 DEF defer
<1>13. CASE \E s \in Slot : Launch(slots, s, r)
  <2>1. PICK s \in Slot : Launch(slots, s, r)
    BY <1>13
  <2>. QED
    BY <1>7, <1>10, <2>1
<1>14. CASE \E s \in Slot : Launch(sl, s, r)
  <2>1. PICK s \in Slot : Launch(sl, s, r)
    BY <1>14
  <2>. QED
    BY <1>6, <1>8, <1>10, <2>1
<1>. QED
  BY <1>4, <1>5, <1>11, <1>12, <1>13, <1>14

LEMMA NextTasks ==
  ASSUME TypeInv, TaskInv, Cuttable, [Next]_vars
  PROVE  TaskInv' /\ EndedStays
<1>1. CASE \E r \in Request : Dispatch(r)
  BY <1>1, DispatchTasks
<1>2. ASSUME Follows /\ EndedStays, params' = params PROVE TaskInv' /\ EndedStays
  BY <1>2, FollowsTasks
<1>3. CASE \E r \in Request : Cancel(r)
  BY <1>2, <1>3, CancelFollows
<1>4. CASE \E r \in Request : Arrive(r)
  <2>1. PICK r \in Request : Arrive(r)
    BY <1>4
  <2>2. /\ status[r] = "new" /\ status' = [status EXCEPT ![r] = "queued"]
        /\ slots' = slots /\ params' = params
    BY <2>1 DEF Arrive, ring
  <2>3. status \in [Request -> Statuses]
    BY DEF TypeInv, StatusOk
  <2>4. Follows /\ EndedStays
    BY <2>2, <2>3, TaskType DEF Follows, EndedStays
  <2>. QED
    BY <1>2, <2>2, <2>4
<1>5. CASE ReleaseSlots
  <2>1. params' = params /\ (status' = requeued \/ status' = status)
    BY <1>5 DEF ReleaseSlots
  <2>2. \A s \in Slot : /\ slots'[s].task = slots[s].task
                        /\ slots'[s].state = "LOAD" => slots'[s] = slots[s]
    BY <1>5, ReleasedOnce
  <2>. QED
    BY <1>2, <2>1, <2>2, RequeueFollows
<1>6. CASE Heartbeat
  <2>1. params' = params /\ status' = requeued /\ slots' = slots
    BY <1>6 DEF Heartbeat, ring
  <2>. QED
    BY <1>2, <2>1, RequeueFollows
<1>7. CASE context_shift
  <2>1. params' = params
    BY <1>7 DEF context_shift
  <2>. QED
    BY <1>2, <1>7, <2>1, ShiftFollows
<1>8. CASE add_sampled_tokens
  <2>1. params' = params /\ status' = status
    BY <1>8 DEF add_sampled_tokens
  <2>2. Follows /\ EndedStays
    BY <1>8, <2>1, SampledSlots DEF Follows, EndedStays
  <2>. QED
    BY <1>2, <2>1, <2>2
<1>9. CASE FirstLook
  <2>1. params' = params
    BY <1>9 DEF FirstLook
  <2>. QED
    BY <1>2, <1>9, <2>1, FirstLookFollows
<1>10. CASE AddPromptTokens
  <2>1. params' = params
    BY <1>10 DEF AddPromptTokens
  <2>. QED
    BY <1>2, <1>10, <2>1, AddPromptFollows
<1>11. CASE DecodeChunk
  <2>1. params' = params
    BY <1>11 DEF DecodeChunk
  <2>. QED
    BY <1>2, <1>11, <2>1, ChunkFollows
<1>12. CASE DecodeNoRoom
  <2>1. params' = params
    BY <1>12 DEF DecodeNoRoom
  <2>. QED
    BY <1>2, <1>12, <2>1, NoRoomFollows
<1>13. CASE DecodeAborted
  <2>1. params' = params
    BY <1>13 DEF DecodeAborted
  <2>. QED
    BY <1>2, <1>13, <2>1, AbortFollows
<1>14. CASE SkipSlot \/ BatchDone \/ UNCHANGED vars
  <2>1. params' = params /\ slots' = slots /\ status' = status
    BY <1>14 DEF SkipSlot, BatchDone, vars, ring
  <2>2. Follows /\ EndedStays
    BY <2>1 DEF Follows, EndedStays
  <2>. QED
    BY <1>2, <2>1, <2>2
<1>. QED
  BY <1>1, <1>3, <1>4, <1>5, <1>6, <1>7, <1>8, <1>9, <1>10, <1>11, <1>12, <1>13, <1>14 DEF Next, MainLoop

(***************************************************************************)
(* The batch, from the next chunk on.                                      *)
(***************************************************************************)
Ahead == at + 1 .. Len(batch)

(* A token of the batch is one its slot counts as cached.                   *)
Owned(j) ==
  /\ is_processing(slots[batch[j].seq])
  /\ batch[j].pos < slots[batch[j].seq].cache
  /\ pc = "prompt" => slots[batch[j].seq].state = "PROC" \/ batch[j].seq < cur

(* Tokens of a slot come in order, and those that follow come too.          *)
InOrder ==
  \A j, k \in Ahead : batch[j].seq = batch[k].seq /\ j < k => batch[j].pos < batch[k].pos

UpToTheLast ==
  \A j \in Ahead : \A p \in Nat :
    batch[j].pos <= p /\ p < slots[batch[j].seq].cache =>
      \E k \in Ahead : batch[k].seq = batch[j].seq /\ batch[k].pos = p

BatchStage ==
  /\ pc \in {"loop", "shift", "batch"} => batch = <<>>
  /\ pc # "decode" => at = 0
  /\ pc = "decode" => at < Len(batch)

BatchInv ==
  /\ BatchStage
  /\ \A j \in Ahead : Owned(j)
  /\ InOrder
  /\ UpToTheLast

(* What a loading slot counts as cached is what it has in common with its   *)
(* prompt, but while that is being found out.                               *)
LoadInv ==
  \A s \in Slot : slots[s].state = "LOAD" /\ slots[s].ticked =>
    \/ slots[s].n_past = slots[s].cache
    \/ pc = "prompt" /\ s = cur /\ slots[s].n_past <= slots[s].cache

LEMMA AheadType ==
  ASSUME TypeInv, NEW j \in Ahead
  PROVE  /\ j \in 1 .. Len(batch) /\ j \in Nat /\ batch[j] \in Entry
         /\ batch[j].seq \in Slot /\ batch[j].pos \in Nat /\ batch[j].seq \in Nat
<1>1. at \in Nat /\ Len(batch) \in Nat /\ batch \in Seq(Entry)
  BY DEF TypeInv, BatchOk
<1>2. j \in 1 .. Len(batch) /\ j \in Nat
  BY <1>1 DEF Ahead
<1>3. batch[j] \in Entry
  BY <1>1, <1>2
<1>. QED
  BY <1>2, <1>3 DEF Entry, Slot

LEMMA NoBatch ==
  ASSUME BatchStage', batch' = <<>>, pc' # "decode"
  PROVE  BatchInv' /\ Ahead' = {}
<1>1. at' = 0
  BY DEF BatchStage
<1>2. Ahead' = {}
  BY <1>1 DEF Ahead
<1>. QED
  BY <1>2 DEF BatchInv, InOrder, UpToTheLast

(* Outside a tick there is no batch.                                        *)
LEMMA LoopBatch ==
  ASSUME BatchInv, pc \in {"loop", "shift", "batch"}, pc' \in {"loop", "shift", "batch"},
         UNCHANGED <<batch, at>>
  PROVE  BatchInv' /\ Ahead' = {} /\ Ahead = {}
<1>1. batch = <<>> /\ at = 0
  BY DEF BatchInv, BatchStage
<1>2. BatchStage' /\ batch' = <<>>
  BY <1>1 DEF BatchStage
<1>3. Ahead = {}
  BY <1>1 DEF Ahead
<1>. QED
  BY <1>2, <1>3, NoBatch

LEMMA EndBatch ==
  ASSUME EndDecode
  PROVE  BatchInv' /\ Ahead' = {}
<1>1. pc' = "loop" /\ batch' = <<>> /\ at' = 0
  BY DEF EndDecode
<1>2. BatchStage'
  BY <1>1 DEF BatchStage
<1>. QED
  BY <1>1, <1>2, NoBatch

LEMMA SampledInv ==
  ASSUME TypeInv, BatchInv, add_sampled_tokens
  PROVE  /\ BatchInv' /\ Ahead = {} /\ Ahead' = 1 .. Len(batch')
<1>1. pc = "batch" /\ pc' = "prompt" /\ at' = at
  BY DEF add_sampled_tokens
<1>2. batch = <<>> /\ at = 0
  BY <1>1 DEF BatchInv, BatchStage
<1>3. Ahead = {} /\ Ahead' = 1 .. Len(batch')
  BY <1>1, <1>2 DEF Ahead
<1>4. BatchStage'
  BY <1>1, <1>2 DEF BatchStage
<1>5. PICK G, N : G = Generating /\ N = Cardinality(G)
  OBVIOUS
<1>6. /\ Len(batch') = N /\ N \in Nat /\ G \in SUBSET Slot
      /\ \A j \in 1 .. N : /\ batch'[j].seq = Nth(G, j) /\ Nth(G, j) \in G
                           /\ batch'[j].pos = slots[Nth(G, j)].cache
  BY <1>5, SampledBatch
<1>7. \A i, j \in 1 .. N : Nth(G, i) = Nth(G, j) => i = j
  BY <1>5, <1>6, NthOk
<1>8. ASSUME NEW s \in G
      PROVE  /\ slots'[s].cache = slots[s].cache + 1 /\ slots[s].cache \in Nat
             /\ slots'[s].state = "PROC"
  <2>1. s \in Slot /\ s \in Generating
    BY <1>5, <1>6
  <2>2. /\ slots'[s].cache = slots[s].cache + (IF s \in Generating THEN 1 ELSE 0)
        /\ slots'[s].state = slots[s].state /\ slots[s].state = "PROC"
    BY <2>1, SampledSlots
  <2>3. slots[s].cache \in Nat
    BY <2>1 DEF TypeInv, SlotsOk, SlotRec
  <2>. QED
    BY <2>1, <2>2, <2>3
<1>9. ASSUME NEW j \in Ahead' PROVE Owned(j)'
  <2>1. j \in 1 .. N
    BY <1>3, <1>6
  <2>2. PICK s : s = Nth(G, j)
    OBVIOUS
  <2>3. s \in G /\ batch'[j].seq = s /\ batch'[j].pos = slots[s].cache
    BY <1>6, <2>1, <2>2
  <2>4. slots[s].cache < slots'[s].cache /\ slots'[s].state = "PROC"
    BY <1>8, <2>3
  <2>. QED
    BY <2>3, <2>4 DEF Owned, is_processing
<1>10. InOrder'
  <2>1. ASSUME NEW j \in Ahead', NEW k \in Ahead', batch'[j].seq = batch'[k].seq, j < k
        PROVE  FALSE
    <3>1. j \in 1 .. N /\ k \in 1 .. N
      BY <1>3, <1>6
    <3>2. Nth(G, j) = Nth(G, k)
      BY <1>6, <2>1, <3>1
    <3>3. j = k
      BY <1>7, <3>1, <3>2
    <3>. QED
      BY <2>1, <3>1, <3>3
  <2>. QED
    BY <2>1 DEF InOrder
<1>11. UpToTheLast'
  <2>1. ASSUME NEW j \in Ahead', NEW p \in Nat, batch'[j].pos <= p, p < slots'[batch'[j].seq].cache
        PROVE  batch'[j].pos = p
    <3>1. j \in 1 .. N
      BY <1>3, <1>6
    <3>2. PICK s : s = Nth(G, j)
      OBVIOUS
    <3>3. s \in G /\ batch'[j].seq = s /\ batch'[j].pos = slots[s].cache
      BY <1>6, <3>1, <3>2
    <3>4. slots'[s].cache = slots[s].cache + 1 /\ slots[s].cache \in Nat
      BY <1>8, <3>3
    <3>5. slots[s].cache <= p /\ p < slots[s].cache + 1
      BY <2>1, <3>3, <3>4
    <3>6. p = slots[s].cache
      BY <3>4, <3>5
    <3>. QED
      BY <3>3, <3>6
  <2>. QED
    BY <2>1 DEF UpToTheLast
<1>. QED
  BY <1>3, <1>4, <1>9, <1>10, <1>11 DEF BatchInv

LEMMA SkipInv ==
  ASSUME TypeInv, BatchInv, SkipSlot
  PROVE  BatchInv' /\ Ahead' = Ahead
<1>1. /\ cur \in Slot /\ cur' > cur /\ cur' \in 1 .. n_parallel + 1
      /\ UNCHANGED <<slots, pc, batch, at>>
  BY NextSlotOk DEF SkipSlot, ring
<1>2. Ahead' = Ahead /\ BatchStage' /\ InOrder' /\ UpToTheLast'
  BY <1>1 DEF Ahead, BatchInv, BatchStage, InOrder, UpToTheLast
<1>3. ASSUME NEW j \in Ahead PROVE Owned(j)'
  <2>1. Owned(j) /\ batch[j].seq \in Nat
    BY AheadType DEF BatchInv
  <2>2. batch[j].seq < cur => batch[j].seq < cur'
    BY <1>1, <2>1 DEF Slot
  <2>. QED
    BY <1>1, <2>1, <2>2 DEF Owned
<1>. QED
  BY <1>2, <1>3 DEF BatchInv

(* The slot whose prompt is looked at has nothing in the batch yet.         *)
LEMMA CurHasNone ==
  ASSUME TypeInv, BatchInv, pc = "prompt", cur \in Slot, slots[cur].state = "LOAD", NEW j \in Ahead
  PROVE  batch[j].seq # cur
<1>1. Owned(j)
  BY DEF BatchInv
<1>2. slots[batch[j].seq].state = "PROC" \/ batch[j].seq < cur
  BY <1>1 DEF Owned
<1>3. ~(cur < cur)
  BY DEF Slot
<1>. QED
  BY <1>2, <1>3

(* Slots other than cur, which has nothing in the batch, stay as they are.  *)
LEMMA CurInv ==
  ASSUME TypeInv, BatchInv, pc = "prompt", cur \in Slot, slots[cur].state = "LOAD",
         \A s \in Slot \ {cur} : slots'[s] = slots[s], UNCHANGED <<pc, at>>,
         cur' \in Nat, cur' >= cur, NEW j \in Ahead, batch'[j] = batch[j]
  PROVE  Owned(j)' /\ slots'[batch[j].seq] = slots[batch[j].seq] /\ batch[j].seq # cur
<1>1. batch[j].seq # cur /\ batch[j].seq \in Slot /\ batch[j].seq \in Nat
  BY CurHasNone, AheadType
<1>2. slots'[batch[j].seq] = slots[batch[j].seq]
  BY <1>1
<1>3. Owned(j)
  BY DEF BatchInv
<1>4. batch[j].seq < cur => batch[j].seq < cur'
  BY <1>1 DEF Slot
<1>. QED
  BY <1>1, <1>2, <1>3, <1>4 DEF Owned

LEMMA FirstLookInv ==
  ASSUME TypeInv, BatchInv, FirstLook, Cuttable
  PROVE  BatchInv' /\ Ahead' = Ahead
<1>1. PICK x : x = slots[cur]
  OBVIOUS
<1>2. /\ cur \in Slot /\ slots[cur].state = "LOAD"
      /\ \A s \in Slot \ {cur} : slots'[s] = slots[s]
      /\ cur' = cur \/ (cur' \in 1 .. n_parallel + 1 /\ cur' > cur)
  BY <1>1, FirstLookCases
<1>3. pc = "prompt" /\ UNCHANGED <<pc, batch, at>>
  BY DEF FirstLook
<1>4. cur' \in Nat /\ cur' >= cur
  BY <1>2 DEF Slot
<1>5. Ahead' = Ahead /\ BatchStage' /\ InOrder'
  BY <1>3 DEF Ahead, BatchInv, BatchStage, InOrder
<1>6. \A j \in Ahead : Owned(j)' /\ slots'[batch[j].seq] = slots[batch[j].seq]
  <2>1. ASSUME NEW j \in Ahead PROVE Owned(j)' /\ slots'[batch[j].seq] = slots[batch[j].seq]
    <3>1. batch'[j] = batch[j]
      BY <1>3
    <3>. QED
      BY <1>2, <1>3, <1>4, <3>1, CurInv
  <2>. QED
    BY <2>1
<1>7. UpToTheLast'
  BY <1>3, <1>5, <1>6 DEF UpToTheLast, BatchInv
<1>. QED
  BY <1>5, <1>6, <1>7 DEF BatchInv

LEMMA AddPromptBatch ==
  ASSUME TypeInv, BatchInv, AddPromptTokens, NEW x, x = slots[cur]
  PROVE  \E n \in 0 .. x.prompt - x.n_past :
           /\ Ahead = 1 .. Len(batch) /\ Ahead' = 1 .. Len(batch) + n /\ Len(batch) \in Nat
           /\ Len(batch') = Len(batch) + n
           /\ x.n_past \in Nat
           /\ slots'[cur].cache = x.n_past + n /\ slots'[cur].n_past = x.n_past + n
           /\ slots'[cur].state \in {"PROC", "LOAD"}
           /\ cur' \in 1 .. n_parallel + 1 /\ cur' > cur
           /\ \A j \in 1 .. Len(batch) : batch'[j] = batch[j]
           /\ \A j \in 1 .. n : /\ batch'[Len(batch) + j].seq = cur
                                /\ batch'[Len(batch) + j].pos = x.n_past + j - 1
<1>1. pc = "prompt" /\ UNCHANGED <<pc, at>>
  BY DEF AddPromptTokens
<1>2. PICK n \in 0 .. x.prompt - x.n_past :
        /\ slots'[cur].state = IF x.n_past + n = x.prompt THEN "PROC" ELSE "LOAD"
        /\ slots'[cur].n_past = x.n_past + n /\ slots'[cur].cache = x.n_past + n
        /\ batch' = batch \o AddedFrom(x, n) /\ AddedFrom(x, n) \in Seq(Entry)
        /\ Len(AddedFrom(x, n)) = n
        /\ cur' \in 1 .. n_parallel + 1 /\ cur' > cur
  BY AddPromptFacts
<1>3. x.n_past \in Nat
  BY AddPromptFacts DEF SlotRec
<1>4. at = 0 /\ at' = 0
  BY <1>1 DEF BatchInv, BatchStage
<1>5. PICK a, b, c : a = batch /\ b = AddedFrom(x, n) /\ c = batch'
  OBVIOUS
<1>6. a \in Seq(Entry) /\ b \in Seq(Entry) /\ c = a \o b /\ Len(b) = n
  BY <1>2, <1>5 DEF TypeInv, BatchOk
<1>7. /\ Len(batch') = Len(a) + n /\ Len(a) \in Nat
      /\ \A j \in 1 .. Len(a) : batch'[j] = a[j]
      /\ \A j \in 1 .. n : batch'[Len(a) + j] = b[j]
  <2>1. /\ Len(c) = Len(a) + Len(b) /\ Len(a) \in Nat
        /\ \A j \in 1 .. Len(a) : c[j] = a[j]
        /\ \A j \in 1 .. Len(b) : c[Len(a) + j] = b[j]
    <3>1. a \in Seq(Entry) /\ b \in Seq(Entry) /\ c = a \o b
      BY <1>6
    <3>2. Len(c) = Len(a) + Len(b)
      BY ONLY <3>1
    <3>3. Len(a) \in Nat /\ Len(b) \in Nat
      BY ONLY <3>1
    <3>4. \A j \in 1 .. Len(a) : c[j] = a[j]
      BY ONLY <3>1
    <3>5. \A j \in 1 .. Len(b) : c[Len(a) + j] = b[j]
      BY ONLY <3>1, <3>3
    <3>. QED
      BY ONLY <3>2, <3>3, <3>4, <3>5
  <2>. QED
    BY <1>5, <1>6, <2>1
<1>8. \A j \in 1 .. n : b[j].seq = cur /\ b[j].pos = x.n_past + j - 1
  BY <1>5 DEF AddedFrom
<1>9. Ahead = 1 .. Len(a) /\ Ahead' = 1 .. Len(a) + n
  BY <1>4, <1>5, <1>7 DEF Ahead
<1>10. slots'[cur].state \in {"PROC", "LOAD"}
  BY <1>2
<1>11. \A j \in 1 .. n : /\ batch'[Len(batch) + j].seq = cur
                          /\ batch'[Len(batch) + j].pos = x.n_past + j - 1
  <2>1. ASSUME NEW j \in 1 .. n
        PROVE  batch'[Len(batch) + j].seq = cur /\ batch'[Len(batch) + j].pos = x.n_past + j - 1
    <3>1. batch'[Len(a) + j] = b[j]
      BY <1>7
    <3>2. Len(batch) = Len(a)
      BY <1>5
    <3>3. batch'[Len(batch) + j] = b[j]
      BY <3>1, <3>2
    <3>4. b[j].seq = cur /\ b[j].pos = x.n_past + j - 1
      BY <1>8
    <3>. QED
      BY ONLY <3>3, <3>4
  <2>. QED
    BY <2>1
<1>. QED
  BY <1>2, <1>3, <1>5, <1>7, <1>9, <1>10, <1>11

LEMMA AddPromptInv ==
  ASSUME TypeInv, BatchInv, AddPromptTokens
  PROVE  BatchInv'
<1>1. PICK x : x = slots[cur]
  OBVIOUS
<1>2. /\ cur \in Slot /\ slots[cur].state = "LOAD"
      /\ \A s \in Slot \ {cur} : slots'[s] = slots[s]
  BY <1>1, AddPromptFacts
<1>3. pc = "prompt" /\ UNCHANGED <<pc, at>>
  BY DEF AddPromptTokens
<1>4. PICK n \in 0 .. x.prompt - x.n_past :
           /\ Ahead = 1 .. Len(batch) /\ Ahead' = 1 .. Len(batch) + n /\ Len(batch) \in Nat
           /\ Len(batch') = Len(batch) + n
           /\ x.n_past \in Nat
           /\ slots'[cur].cache = x.n_past + n
           /\ slots'[cur].state \in {"PROC", "LOAD"}
           /\ cur' \in 1 .. n_parallel + 1 /\ cur' > cur
           /\ \A j \in 1 .. Len(batch) : batch'[j] = batch[j]
           /\ \A j \in 1 .. n : /\ batch'[Len(batch) + j].seq = cur
                                /\ batch'[Len(batch) + j].pos = x.n_past + j - 1
  BY <1>1, AddPromptBatch
<1>5. PICK L : L = Len(batch)
  OBVIOUS
<1>6. L \in Nat /\ n \in Nat /\ cur' \in Nat /\ cur' >= cur
  BY <1>2, <1>4, <1>5 DEF Slot
<1>7. ASSUME NEW j \in Ahead
      PROVE  /\ j \in Ahead' /\ Owned(j)' /\ slots'[batch[j].seq] = slots[batch[j].seq]
             /\ batch[j].seq # cur /\ batch'[j] = batch[j] /\ j \in Nat /\ j <= L
  <2>1. j \in 1 .. L /\ batch'[j] = batch[j]
    BY <1>4, <1>5
  <2>2. j \in Ahead' /\ j \in Nat /\ j <= L
    BY <1>4, <1>5, <1>6, <2>1
  <2>3. Owned(j)' /\ slots'[batch[j].seq] = slots[batch[j].seq] /\ batch[j].seq # cur
    BY <1>2, <1>3, <1>6, <2>1, CurInv
  <2>. QED
    BY <2>1, <2>2, <2>3
<1>8. ASSUME NEW j \in Ahead', j \notin Ahead
      PROVE  /\ j \in Nat /\ j > L /\ j <= L + n /\ batch'[j].seq = cur
             /\ batch'[j].pos = x.n_past + (j - L) - 1
  <2>1. j \in Nat /\ j > L /\ j <= L + n
    BY <1>4, <1>5, <1>6, <1>8
  <2>2. PICK i : i = j - L
    OBVIOUS
  <2>3. i \in 1 .. n /\ L + i = j
    BY <1>6, <2>1, <2>2
  <2>4. batch'[L + i].seq = cur /\ batch'[L + i].pos = x.n_past + i - 1
    BY <1>4, <1>5, <2>3
  <2>. QED
    BY <2>1, <2>2, <2>3, <2>4
<1>9. ASSUME NEW j \in Ahead', j \notin Ahead PROVE Owned(j)'
  <2>1. j \in Nat /\ j > L /\ j <= L + n /\ batch'[j].seq = cur /\ batch'[j].pos = x.n_past + (j - L) - 1
    BY <1>8, <1>9
  <2>2. x.n_past + (j - L) - 1 < x.n_past + n
    BY <1>4, <1>6, <2>1
  <2>3. batch'[j].pos < slots'[batch'[j].seq].cache
    BY <1>4, <2>1, <2>2
  <2>4. is_processing(slots'[cur])
    BY <1>4 DEF is_processing
  <2>5. batch'[j].seq < cur'
    BY <1>4, <2>1
  <2>. QED
    BY <2>1, <2>3, <2>4, <2>5 DEF Owned
<1>10. InOrder'
  <2>1. ASSUME NEW j \in Ahead', NEW k \in Ahead', batch'[j].seq = batch'[k].seq, j < k
        PROVE  batch'[j].pos < batch'[k].pos
    <3>1. CASE j \in Ahead /\ k \in Ahead
      BY <1>7, <2>1, <3>1 DEF BatchInv, InOrder
    <3>2. CASE j \in Ahead /\ k \notin Ahead
      BY <1>7, <1>8, <2>1, <3>2
    <3>3. CASE j \notin Ahead /\ k \in Ahead
      BY <1>7, <1>8, <2>1, <3>3
    <3>4. CASE j \notin Ahead /\ k \notin Ahead
      <4>1. /\ j \in Nat /\ batch'[j].pos = x.n_past + (j - L) - 1
            /\ k \in Nat /\ batch'[k].pos = x.n_past + (k - L) - 1
        BY <1>8, <3>4
      <4>2. x.n_past + (j - L) - 1 < x.n_past + (k - L) - 1
        BY <1>4, <1>6, <2>1, <4>1
      <4>. QED
        BY <4>1, <4>2
    <3>. QED
      BY <3>1, <3>2, <3>3, <3>4
  <2>. QED
    BY <2>1 DEF InOrder
<1>11. UpToTheLast'
  <2>1. ASSUME NEW j \in Ahead', NEW p \in Nat, batch'[j].pos <= p, p < slots'[batch'[j].seq].cache
        PROVE  \E k \in Ahead' : batch'[k].seq = batch'[j].seq /\ batch'[k].pos = p
    <3>1. CASE j \in Ahead
      <4>1. batch[j].pos <= p /\ p < slots[batch[j].seq].cache
        BY <1>7, <2>1, <3>1
      <4>2. PICK k \in Ahead : batch[k].seq = batch[j].seq /\ batch[k].pos = p
        BY <3>1, <4>1 DEF BatchInv, UpToTheLast
      <4>. QED
        BY <1>7, <3>1, <4>2
    <3>2. CASE j \notin Ahead
      <4>1. /\ j \in Nat /\ j > L /\ batch'[j].seq = cur /\ batch'[j].pos = x.n_past + (j - L) - 1
        BY <1>8, <3>2
      <4>2. x.n_past <= p /\ p < x.n_past + n
        BY <1>4, <1>6, <2>1, <4>1
      <4>3. PICK i : i = p - x.n_past + 1
        OBVIOUS
      <4>4. i \in 1 .. n /\ x.n_past + i - 1 = p /\ L + i \in Ahead'
        <5>1. x.n_past \in Nat /\ Ahead' = 1 .. L + n
          BY <1>4, <1>5
        <5>2. i \in 1 .. n /\ x.n_past + i - 1 = p
          BY <1>6, <4>2, <4>3, <5>1
        <5>3. L + i \in 1 .. L + n
          BY <1>6, <5>2
        <5>. QED
          BY <5>1, <5>2, <5>3
      <4>5. batch'[L + i].seq = cur /\ batch'[L + i].pos = p
        BY <1>4, <1>5, <4>4
      <4>. QED
        BY <4>1, <4>4, <4>5
    <3>. QED
      BY <3>1, <3>2
  <2>. QED
    BY <2>1 DEF UpToTheLast
<1>12. BatchStage'
  BY <1>3 DEF BatchInv, BatchStage
<1>. QED
  BY <1>7, <1>9, <1>10, <1>11, <1>12 DEF BatchInv

LEMMA ChunkPositive ==
  ASSUME TypeInv, BatchInv, pc = "decode"
  PROVE  ChunkSize \in Nat /\ ChunkSize >= 1 /\ at + ChunkSize <= Len(batch) /\ at < Len(batch)
<1>1. at < Len(batch)
  BY DEF BatchInv, BatchStage
<1>. QED
  BY <1>1, ChunkType

(* A slot that is sampled has nothing more in the batch.                    *)
LEMMA SampledLast ==
  ASSUME TypeInv, BatchInv, pc = "decode", NEW j \in Ahead, j > at + ChunkSize
  PROVE  batch[j].seq \notin Sampled
<1>1. SUFFICES ASSUME batch[j].seq \in Sampled PROVE FALSE
  OBVIOUS
<1>2. PICK s : s = batch[j].seq
  OBVIOUS
<1>3. s \in Slot
  BY <1>2, AheadType
<1>4. PICK i \in at + 1 .. at + ChunkSize : batch[i] = [seq |-> s, pos |-> slots[s].cache - 1]
  BY <1>1, <1>2 DEF Sampled
<1>5. at \in Nat /\ Len(batch) \in Nat /\ ChunkSize \in Nat /\ at + ChunkSize <= Len(batch)
  BY ChunkPositive, ChunkType
<1>6. i \in Ahead /\ i < j
  BY <1>5, AheadType DEF Ahead
<1>7. batch[i].seq = s /\ batch[i].pos = slots[s].cache - 1
  BY <1>4
<1>8. batch[i].pos < batch[j].pos
  BY <1>2, <1>6, <1>7 DEF BatchInv, InOrder
<1>9. batch[j].pos < slots[s].cache
  BY <1>2 DEF BatchInv, Owned
<1>10. slots[s].cache \in Nat /\ batch[j].pos \in Nat
  BY <1>3, AheadType DEF TypeInv, SlotsOk, SlotRec
<1>. QED
  BY <1>7, <1>8, <1>9, <1>10

LEMMA ChunkSlots ==
  ASSUME TypeInv, DecodeChunk
  PROVE  /\ \A s \in Slot : slots'[s].cache = slots[s].cache
         /\ \A s \in Slot \ Sampled : slots'[s] = slots[s]
         /\ \A s \in Slot : slots'[s].state = "LOAD" => slots[s].state = "LOAD" /\ slots'[s] = slots[s]
<1>1. PICK done \in SUBSET Sampled :
        /\ {s \in Sampled : slots[s].n_decoded + 1 >= MaxGen} \subseteq done
        /\ slots' = [s \in Slot |->
                        IF s \in done THEN released(slots[s])
                        ELSE IF s \in Sampled THEN [slots[s] EXCEPT !.n_decoded = @ + 1]
                        ELSE slots[s]]
  BY DEF DecodeChunk
<1>2. ASSUME NEW s \in Slot
      PROVE  /\ slots'[s].cache = slots[s].cache
             /\ s \notin Sampled => slots'[s] = slots[s]
             /\ s \in Sampled => slots'[s].state # "LOAD"
  <2>1. PICK y : y = slots'[s]
    OBVIOUS
  <2>2. y = IF s \in done THEN released(slots[s])
            ELSE IF s \in Sampled THEN [slots[s] EXCEPT !.n_decoded = @ + 1] ELSE slots[s]
    BY <1>1, <2>1
  <2>3. /\ y.cache = slots[s].cache
        /\ s \in done => y.state = "RELEASE" /\ y.task = NoRequest
        /\ s \notin done => /\ y.state = slots[s].state /\ y.task = slots[s].task
                            /\ y.prompt = slots[s].prompt /\ y.ticked = slots[s].ticked
                            /\ y.n_past = slots[s].n_past
    <3>1. /\ done \in SUBSET Sampled
          /\ {t \in Sampled : slots[t].n_decoded + 1 >= MaxGen} \subseteq done
      BY <1>1
    <3>. QED
      BY ONLY TypeInv, <2>2, <3>1, s \in Slot, DoneOk
  <2>4. s \in Sampled => slots[s].state = "PROC"
    BY DEF Sampled
  <2>. QED
    BY <2>1, <2>2, <2>3, <2>4
<1>. QED
  BY <1>2

LEMMA ChunkInv ==
  ASSUME TypeInv, BatchInv, DecodeChunk, ~EndDecode
  PROVE  /\ BatchInv'
         /\ at' = at + ChunkSize /\ UNCHANGED <<pc, batch>>
         /\ \A j : j \in Ahead' <=> j \in Ahead /\ j > at + ChunkSize
<1>1. /\ pc = "decode" /\ ~(at + ChunkSize >= Len(batch))
      /\ at' = at + ChunkSize /\ UNCHANGED <<pc, batch>>
  BY DEF DecodeChunk
<1>2. /\ at \in Nat /\ Len(batch) \in Nat /\ ChunkSize \in Nat /\ ChunkSize >= 1
      /\ at + ChunkSize < Len(batch)
  BY <1>1, ChunkPositive, ChunkType
<1>3. ASSUME NEW j PROVE j \in Ahead' <=> j \in Ahead /\ j > at + ChunkSize
  <2>1. PICK a, m, L : a = at /\ m = ChunkSize /\ L = Len(batch)
    OBVIOUS
  <2>2. a \in Nat /\ m \in Nat /\ L \in Nat
    BY <1>2, <2>1
  <2>3. Ahead' = a + m + 1 .. L /\ Ahead = a + 1 .. L
    BY <1>1, <2>1 DEF Ahead
  <2>4. j \in a + m + 1 .. L <=> j \in a + 1 .. L /\ j > a + m
    BY ONLY <2>2
  <2>. QED
    BY <2>1, <2>3, <2>4
<1>4. ASSUME NEW j \in Ahead'
      PROVE  j \in Ahead /\ slots'[batch[j].seq] = slots[batch[j].seq] /\ Owned(j)'
  <2>1. j \in Ahead /\ j > at + ChunkSize
    BY <1>3
  <2>2. batch[j].seq \in Slot \ Sampled
    BY <1>1, <2>1, SampledLast, AheadType
  <2>3. slots'[batch[j].seq] = slots[batch[j].seq]
    BY <2>2, ChunkSlots
  <2>4. Owned(j)
    BY <2>1 DEF BatchInv
  <2>. QED
    BY <1>1, <2>1, <2>3, <2>4 DEF Owned
<1>5. InOrder'
  BY <1>1, <1>4 DEF InOrder, BatchInv
<1>6. UpToTheLast'
  <2>1. ASSUME NEW j \in Ahead', NEW p \in Nat, batch'[j].pos <= p, p < slots'[batch'[j].seq].cache
        PROVE  \E k \in Ahead' : batch'[k].seq = batch'[j].seq /\ batch'[k].pos = p
    <3>1. j \in Ahead /\ batch[j].pos <= p /\ p < slots[batch[j].seq].cache
      BY <1>1, <1>4, <2>1
    <3>2. PICK k \in Ahead : batch[k].seq = batch[j].seq /\ batch[k].pos = p
      BY <3>1 DEF BatchInv, UpToTheLast
    <3>3. k < j => batch[k].pos < batch[j].pos
      BY <3>1, <3>2 DEF BatchInv, InOrder
    <3>4. k \in Nat /\ j \in Nat /\ batch[j].pos \in Nat /\ j > at + ChunkSize
      BY <1>3, <3>1, <3>2, AheadType
    <3>5. ~(k < j)
      BY <3>1, <3>2, <3>3, <3>4
    <3>6. k > at + ChunkSize
      BY <1>2, <3>4, <3>5
    <3>7. k \in Ahead'
      BY <1>3, <3>6
    <3>. QED
      BY <1>1, <3>2, <3>7
  <2>. QED
    BY <2>1 DEF UpToTheLast
<1>7. BatchStage'
  BY <1>1, <1>2 DEF BatchStage
<1>. QED
  BY <1>1, <1>3, <1>4, <1>5, <1>6, <1>7 DEF BatchInv

LEMMA BatchDoneInv ==
  ASSUME TypeInv, BatchInv, BatchDone
  PROVE  BatchInv' /\ Ahead' = Ahead
<1>1. /\ pc = "prompt" /\ UNCHANGED <<slots, batch, at>>
      /\ pc' = IF batch = <<>> THEN "loop" ELSE "decode"
  BY DEF BatchDone, ring
<1>2. Ahead' = Ahead /\ InOrder' /\ UpToTheLast'
  BY <1>1 DEF Ahead, InOrder, UpToTheLast, BatchInv
<1>3. BatchStage'
  <2>1. at = 0
    BY <1>1 DEF BatchInv, BatchStage
  <2>2. batch # <<>> => Len(batch) > 0
    BY DEF TypeInv, BatchOk
  <2>. QED
    BY <1>1, <2>1, <2>2 DEF BatchStage
<1>4. \A j \in Ahead : Owned(j)'
  BY <1>1 DEF Owned, BatchInv
<1>. QED
  BY <1>2, <1>3, <1>4 DEF BatchInv

LEMMA NoRoomInv ==
  ASSUME TypeInv, BatchInv, DecodeNoRoom, ~EndDecode
  PROVE  BatchInv' /\ Ahead' = Ahead /\ UNCHANGED <<slots, status, batch, at, pc>>
<1>1. UNCHANGED <<slots, status, batch, at, pc>> /\ pc = "decode"
  BY DEF DecodeNoRoom, UnwindFail
<1>2. Ahead' = Ahead /\ InOrder' /\ UpToTheLast' /\ BatchStage'
  BY <1>1 DEF Ahead, InOrder, UpToTheLast, BatchInv, BatchStage
<1>3. \A j \in Ahead : Owned(j)'
  BY <1>1 DEF Owned, BatchInv
<1>. QED
  BY <1>1, <1>2, <1>3 DEF BatchInv

LEMMA InitBatch == Init => BatchInv
<1>. SUFFICES ASSUME Init PROVE BatchInv
  OBVIOUS
<1>1. batch = <<>> /\ at = 0 /\ pc = "loop"
  BY DEF Init
<1>2. Ahead = {}
  BY <1>1 DEF Ahead
<1>. QED
  BY <1>1, <1>2 DEF BatchInv, BatchStage, InOrder, UpToTheLast

LEMMA NextBatch ==
  ASSUME TypeInv, BatchInv, Cuttable, [Next]_vars
  PROVE  BatchInv'
<1>1. ASSUME pc \in {"loop", "shift"}, pc' \in {"loop", "shift", "batch"}, UNCHANGED decode
      PROVE  BatchInv'
  BY <1>1, LoopBatch DEF decode
<1>2. CASE \E r \in Request : Dispatch(r) \/ Cancel(r)
  BY <1>1, <1>2 DEF Dispatch, Cancel
<1>3. CASE ReleaseSlots \/ Heartbeat \/ context_shift
  BY <1>1, <1>3 DEF ReleaseSlots, Heartbeat, context_shift
<1>4. CASE UNCHANGED vars \/ \E r \in Request : Arrive(r)
  <2>1. UNCHANGED <<slots, batch, at, pc, cur>>
    BY <1>4 DEF vars, ring, decode, Arrive
  <2>2. Ahead' = Ahead /\ InOrder' /\ UpToTheLast' /\ BatchStage'
    BY <2>1 DEF Ahead, InOrder, UpToTheLast, BatchInv, BatchStage
  <2>3. \A j \in Ahead : Owned(j)'
    BY <2>1 DEF Owned, BatchInv
  <2>. QED
    BY <2>2, <2>3 DEF BatchInv
<1>5. CASE add_sampled_tokens
  BY <1>5, SampledInv
<1>6. CASE SkipSlot
  BY <1>6, SkipInv
<1>7. CASE FirstLook
  BY <1>7, FirstLookInv
<1>8. CASE AddPromptTokens
  BY <1>8, AddPromptInv
<1>9. CASE BatchDone
  BY <1>9, BatchDoneInv
<1>10. CASE EndDecode
  BY <1>10, EndBatch
<1>11. CASE DecodeChunk
  BY <1>10, <1>11, ChunkInv
<1>12. CASE DecodeNoRoom
  BY <1>10, <1>12, NoRoomInv
<1>13. CASE DecodeAborted
  BY <1>10, <1>13 DEF DecodeAborted
<1>. QED
  BY <1>2, <1>3, <1>4, <1>5, <1>6, <1>7, <1>8, <1>9, <1>11, <1>12, <1>13 DEF Next, MainLoop

(***************************************************************************)
(* One cell for each cached token, but for those that are still in the     *)
(* batch.                                                                  *)
(***************************************************************************)
Cell(s, p) == [seq |-> s, pos |-> p, copy |-> 0]

InBatch(s, p) == \E j \in Ahead : batch[j].seq = s /\ batch[j].pos = p

(* The cells of sequence s are those of its first n tokens, some of E missing. *)
Holds(c, s, n, E) ==
  /\ \A x \in CellsOf(c, s) : x.copy = 0 /\ x.pos < n
  /\ \A p \in Nat : p < n => Cell(s, p) \in c \/ p \in E

Exact ==
  \A s \in Slot :
    /\ \A x \in CellsOf(cells, s) : x.copy = 0 /\ x.pos < slots[s].cache /\ ~InBatch(s, x.pos)
    /\ \A p \in Nat : p < slots[s].cache => Cell(s, p) \in cells \/ InBatch(s, p) \/ p \in Unplaced

LEMMA UnplacedIs == Unplaced \subseteq {0} /\ Unplaced' \subseteq {0}
BY DEF Unplaced

(* Whoever was aborted stays so.                                            *)
LEMMA UnplacedStays ==
  ASSUME EndedStays
  PROVE  Unplaced \subseteq Unplaced'
<1>1. ASSUME NEW r \in Request, status[r] = "aborted" PROVE status'[r] = "aborted"
  BY <1>1 DEF EndedStays
<1>. QED
  BY <1>1 DEF Unplaced

LEMMA CellFields ==
  ASSUME NEW s, NEW p
  PROVE  Cell(s, p).seq = s /\ Cell(s, p).pos = p /\ Cell(s, p).copy = 0
BY DEF Cell

LEMMA CellIs ==
  ASSUME NEW x \in CellRec, x.copy = 0
  PROVE  x = Cell(x.seq, x.pos)
BY DEF CellRec, Cell

LEMMA QuietExact ==
  ASSUME Ahead = {}, Exact, NEW s \in Slot
  PROVE  Holds(cells, s, slots[s].cache, Unplaced)
BY DEF Exact, InBatch, Holds

LEMMA QuietAfter ==
  ASSUME Ahead' = {}, NEW E, E \subseteq Unplaced', \A s \in Slot : Holds(cells', s, slots'[s].cache, E)
  PROVE  Exact'
BY DEF Exact, InBatch, Holds, CellsOf

LEMMA DiscardHolds ==
  ASSUME NEW c \in SUBSET CellRec, NEW keep \in Nat, NEW n, NEW upto, NEW s \in Slot, NEW L \in Nat,
         NEW k \in Nat, k = n[s], NEW E, E \subseteq {0}, Holds(c, s, L, E),
         k > 0 => upto[s] = L /\ keep + k <= L
  PROVE  Holds(discard_cells(c, keep, n, upto), s, L - k, E)
<1>. DEFINE D == discard_cells(c, keep, n, upto)
            Moved(x) == IF keep + n[x.seq] <= x.pos /\ x.pos < upto[x.seq] THEN x.pos - n[x.seq] ELSE x.pos
            Kept(x) == ~(keep <= x.pos /\ x.pos < keep + n[x.seq])
<1>1. D = {[x EXCEPT !.pos = Moved(x)] : x \in {y \in c : Kept(y)}}
  BY DEF discard_cells
<1>2. ASSUME NEW x \in CellsOf(D, s) PROVE x.copy = 0 /\ x.pos < L - k
  <2>1. PICK y \in c : Kept(y) /\ x = [y EXCEPT !.pos = Moved(y)]
    <3>. HIDE DEF Moved, Kept
    <3>. QED
      BY <1>1 DEF CellsOf
  <2>2. PICK q : q = Moved(y)
    OBVIOUS
  <2>3. y \in CellRec /\ y.pos \in Nat
    BY DEF CellRec
  <2>4. x.seq = y.seq /\ x.pos = q /\ x.copy = y.copy /\ x.seq = s
    <3>1. x = [y EXCEPT !.pos = q]
      BY <2>1, <2>2
    <3>. QED
      BY <2>3, <3>1 DEF CellRec, CellsOf
  <2>5. y.seq = s /\ y \in CellsOf(c, s)
    BY <2>4 DEF CellsOf
  <2>6. y.copy = 0 /\ y.pos < L
    BY <2>5 DEF Holds
  <2>7. q = (IF keep + k <= y.pos /\ y.pos < upto[s] THEN y.pos - k ELSE y.pos)
        /\ ~(keep <= y.pos /\ y.pos < keep + k)
    BY <2>1, <2>2, <2>5
  <2>8. q < L - k
    <3>1. CASE k = 0
      BY <2>3, <2>6, <2>7, <3>1
    <3>2. CASE k > 0
      BY <2>3, <2>6, <2>7, <3>2
    <3>. QED
      BY <3>1, <3>2
  <2>. QED
    BY <2>4, <2>6, <2>8
<1>3. ASSUME NEW p \in Nat, p < L - k, p \notin E PROVE Cell(s, p) \in D
  <2>1. PICK b : b = IF k > 0 /\ keep <= p THEN p + k ELSE p
    OBVIOUS
  <2>2. b \in Nat /\ b < L /\ ~(keep <= b /\ b < keep + k)
    BY <1>3, <2>1
  <2>3. PICK y : y = Cell(s, b)
    OBVIOUS
  <2>4. y \in c
    <3>1. b \notin E
      BY <1>3, <2>1
    <3>. QED
      BY <2>2, <2>3, <3>1 DEF Holds
  <2>5. y.seq = s /\ y.pos = b /\ y.copy = 0 /\ y \in CellRec
    BY <2>3, <2>4, CellFields
  <2>6. Kept(y)
    BY <2>2, <2>5
  <2>7. Moved(y) = p
    <3>1. Moved(y) = IF keep + k <= b /\ b < upto[s] THEN b - k ELSE b
      BY <2>5
    <3>2. CASE k = 0
      BY <2>1, <2>2, <3>1, <3>2
    <3>3. CASE k > 0
      BY <2>1, <2>2, <3>1, <3>3
    <3>. HIDE DEF Moved
    <3>. QED
      BY <3>2, <3>3
  <2>8. [y EXCEPT !.pos = Moved(y)] \in D
    <3>. HIDE DEF Moved, Kept, D
    <3>. QED
      BY <1>1, <2>4, <2>6
  <2>9. [y EXCEPT !.pos = Moved(y)] = Cell(s, p)
    <3>1. [y EXCEPT !.pos = Moved(y)] = [y EXCEPT !.pos = p]
      BY ONLY <2>7
    <3>2. [y EXCEPT !.pos = p] = Cell(s, p)
      BY <2>3 DEF Cell
    <3>. QED
      BY ONLY <3>1, <3>2
  <2>. QED
    BY ONLY <2>8, <2>9
<1>. HIDE DEF D
<1>4. Holds(D, s, L - k, E)
  BY <1>2, <1>3 DEF Holds
<1>. QED
  BY <1>4 DEF D

(* What reclaiming leaves.                                                  *)
LEMMA ReclaimedHolds ==
  ASSUME TypeInv, NEW V \in SUBSET IdleSlots, NEW s \in Slot,
         NEW E, Holds(cells, s, slots[s].cache, E), NEW sl, sl = ReclaimedSlots(V)
  PROVE  Holds(ReclaimedCells(V), s, sl[s].cache, E)
<1>1. CASE s \in V
  <2>1. sl[s].cache = 0
    BY <1>1, ReclaimedOk DEF TypeInv
  <2>2. \A p \in Nat : ~(p < 0)
    OBVIOUS
  <2>3. CellsOf(ReclaimedCells(V), s) = {}
    BY <1>1 DEF CellsOf, ReclaimedCells
  <2>. QED
    BY <2>1, <2>2, <2>3 DEF Holds
<1>2. CASE s \notin V
  <2>1. sl[s] = slots[s]
    BY <1>2, ReclaimedOk DEF TypeInv
  <2>2. CellsOf(ReclaimedCells(V), s) = CellsOf(cells, s)
    BY <1>2 DEF CellsOf, ReclaimedCells
  <2>3. ASSUME NEW p, Cell(s, p) \in cells PROVE Cell(s, p) \in ReclaimedCells(V)
    BY <1>2, <2>3, CellFields DEF ReclaimedCells
  <2>. QED
    BY <2>1, <2>2, <2>3 DEF Holds
<1>. QED
  BY <1>1, <1>2

(* Of a dispatch: slots and ring after it.                                  *)
LEMMA DispatchSlots ==
  ASSUME TypeInv, NEW r \in Request, Dispatch(r)
  PROVE  \E V \in SUBSET IdleSlots :
           /\ cells' = ReclaimedCells(V)
           /\ \A s \in Slot :
                /\ slots'[s].cache = ReclaimedSlots(V)[s].cache
                /\ slots'[s].state = "LOAD" /\ slots'[s].ticked => slots'[s] = slots[s]
<1>1. ReclaimedCells({}) = cells /\ {} \in SUBSET IdleSlots
  BY DEF ReclaimedCells
<1>2. ReclaimedSlots({}) = slots
  BY DEF ReclaimedSlots, TypeInv, SlotsOk
<1>3. CASE NoSlotAvailable(r)
  BY <1>1, <1>2, <1>3 DEF NoSlotAvailable, ring
<1>4. ASSUME NEW s \in Slot, NEW V \in SUBSET IdleSlots, cells' = ReclaimedCells(V),
             Launch(ReclaimedSlots(V), s, r) \/ slots' = ReclaimedSlots(V)
      PROVE  \A t \in Slot :
                /\ slots'[t].cache = ReclaimedSlots(V)[t].cache
                /\ slots'[t].state = "LOAD" /\ slots'[t].ticked => slots'[t] = slots[t]
  <2>1. PICK sl : sl = ReclaimedSlots(V)
    OBVIOUS
  <2>2. /\ sl \in [Slot -> SlotRec] /\ \A t \in Slot : WellKept(sl[t])
        /\ \A t \in Slot \ V : sl[t] = slots[t]
        /\ \A t \in V : sl[t].state = "IDLE"
    BY <2>1, ReclaimedOk DEF TypeInv
  <2>3. CASE Launch(sl, s, r)
    <3>1. status[r] = "queued"
      BY DEF Dispatch
    <3>2. /\ \A t \in Slot \ {s} : slots'[t] = sl[t]
          /\ ~slots'[s].ticked /\ slots'[s].cache = sl[s].cache
      BY <2>2, <2>3, <3>1, LaunchOk
    <3>. QED
      BY <2>1, <2>2, <3>2
  <2>4. CASE slots' = sl
    BY <2>1, <2>2, <2>4
  <2>. QED
    BY <1>4, <2>1, <2>3, <2>4
<1>5. CASE \E s \in Slot : kv_unified_admit(r, s)
  <2>1. PICK s \in Slot : kv_unified_admit(r, s)
    BY <1>5
  <2>2. \/ Launch(slots, s, r) /\ UNCHANGED cells
        \/ \E V \in SUBSET IdleSlots :
              /\ cells' = ReclaimedCells(V)
              /\ Launch(ReclaimedSlots(V), s, r) \/ slots' = ReclaimedSlots(V)
    BY <2>1, VictimsIdle DEF kv_unified_admit
  <2>3. \E V \in SUBSET IdleSlots :
              /\ cells' = ReclaimedCells(V)
              /\ Launch(ReclaimedSlots(V), s, r) \/ slots' = ReclaimedSlots(V)
    BY <1>1, <1>2, <2>2
  <2>. QED
    BY <1>4, <2>3
<1>. QED
  BY <1>3, <1>5 DEF Dispatch

(* Of a context shift: likewise.                                            *)
LEMMA ShiftSlots ==
  ASSUME TypeInv, context_shift, Ahead = {}, Exact, NEW s \in Slot
  PROVE  Holds(cells', s, slots'[s].cache, Unplaced)
<1>1. PICK V \in SUBSET IdleSlots, Y \in SUBSET Slot :
        Yields(ReclaimedSlots(V), Y) /\ ShiftStep(ReclaimedSlots(V), ReclaimedCells(V), Y)
  BY ShiftFacts DEF TypeInv
<1>2. PICK sl, c : sl = ReclaimedSlots(V) /\ c = ReclaimedCells(V)
  OBVIOUS
<1>3. sl \in [Slot -> SlotRec] /\ \A t \in Slot : WellKept(sl[t])
  BY <1>2, ReclaimedOk DEF TypeInv
<1>4. Yields(sl, Y) /\ ShiftStep(sl, c, Y)
  BY <1>1, <1>2
<1>5. c \in SUBSET CellRec
  BY <1>2, CellsAre DEF ReclaimedCells
<1>0. PICK E : E = Unplaced /\ E \subseteq {0}
  BY UnplacedIs
<1>6. Holds(c, s, sl[s].cache, E)
  <2>1. Holds(cells, s, slots[s].cache, E)
    BY <1>0, QuietExact
  <2>. QED
    BY <1>2, <2>1, ReclaimedHolds
<1>7. sl[s] \in SlotRec /\ WellKept(sl[s]) /\ sl[s].cache \in Nat /\ sl[s].n_past \in Nat
  BY <1>3 DEF SlotRec
<1>8. CASE params.ctx_shift
  <2>1. PICK n, upto : n = DiscardedFor(sl, Y) /\ upto = [t \in Slot |-> sl[t].n_past]
    OBVIOUS
  <2>2. slots' = ShiftedSlots(sl, n) /\ cells' = discard_cells(c, KeptTokens, n, upto)
    BY <1>4, <1>8, <2>1 DEF ShiftStep
  <2>3. PICK k, y : k = n[s] /\ y = slots'[s]
    OBVIOUS
  <2>4. k = DiscardedFor(sl, Y)[s] /\ y = ShiftedSlots(sl, DiscardedFor(sl, Y))[s]
    BY <2>1, <2>2, <2>3
  <2>5. /\ k \in 0 .. sl[s].n_past
        /\ k > 0 => sl[s].state = "PROC" /\ KeptTokens + k <= sl[s].n_past /\ s \in Y
        /\ y.cache = sl[s].cache - k
    BY ONLY <1>3, <1>4, s \in Slot, Y \in SUBSET Slot, <2>4, ShiftedSlotsOk
  <2>6. upto[s] = sl[s].n_past
    BY <2>1
  <2>7. sl[s].state = "PROC" => sl[s].n_past = sl[s].cache
    BY <1>7 DEF WellKept
  <2>8. PICK L, keep : L = sl[s].cache /\ keep = KeptTokens
    OBVIOUS
  <2>9. k \in Nat /\ L \in Nat /\ keep \in Nat /\ (k > 0 => upto[s] = L /\ keep + k <= L)
    BY <1>7, <2>5, <2>6, <2>7, <2>8, KeptTokensType
  <2>10. Holds(c, s, L, E)
    BY <1>6, <2>8
  <2>11. Holds(discard_cells(c, keep, n, upto), s, L - k, E)
    BY <1>0, <1>5, <2>3, <2>9, <2>10, DiscardHolds
  <2>. QED
    BY <1>0, <2>2, <2>3, <2>5, <2>8, <2>11
<1>9. CASE ~params.ctx_shift
  <2>1. /\ slots' = [t \in Slot |-> IF t \in Y THEN released(sl[t]) ELSE sl[t]]
        /\ cells' = c
    BY <1>4, <1>9 DEF ShiftStep
  <2>2. released(sl[s]).cache = sl[s].cache
    BY <1>7, ReleasedOk
  <2>3. slots'[s].cache = sl[s].cache
    BY <2>1, <2>2
  <2>. QED
    BY <1>0, <1>6, <2>1, <2>3
<1>. QED
  BY <1>8, <1>9

LEMMA ShiftLoads ==
  ASSUME TypeInv, context_shift, NEW s \in Slot, slots'[s].state = "LOAD"
  PROVE  /\ slots[s].state = "LOAD" /\ slots[s].ticked = slots'[s].ticked
         /\ slots'[s].cache = slots[s].cache /\ slots'[s].n_past = slots[s].n_past
<1>1. PICK V \in SUBSET IdleSlots, Y \in SUBSET Slot :
        Yields(ReclaimedSlots(V), Y) /\ ShiftStep(ReclaimedSlots(V), ReclaimedCells(V), Y)
  BY ShiftFacts DEF TypeInv
<1>2. PICK sl, c : sl = ReclaimedSlots(V) /\ c = ReclaimedCells(V)
  OBVIOUS
<1>3. /\ sl \in [Slot -> SlotRec] /\ \A t \in Slot : WellKept(sl[t])
      /\ \A t \in Slot \ V : sl[t] = slots[t]
      /\ \A t \in V : sl[t].state = "IDLE"
  BY <1>2, ReclaimedOk DEF TypeInv
<1>4. Yields(sl, Y) /\ ShiftStep(sl, c, Y)
  BY <1>1, <1>2
<1>5. /\ slots'[s].state = "LOAD" => sl[s].state = "LOAD" /\ slots'[s].ticked = sl[s].ticked
                                     /\ slots'[s].cache = sl[s].cache /\ slots'[s].n_past = sl[s].n_past
  <2>1. CASE params.ctx_shift
    <3>1. slots' = ShiftedSlots(sl, DiscardedFor(sl, Y))
      BY <1>4, <2>1 DEF ShiftStep
    <3>2. PICK k, y : k = DiscardedFor(sl, Y)[s] /\ y = ShiftedSlots(sl, DiscardedFor(sl, Y))[s]
      OBVIOUS
    <3>3. /\ k \in 0 .. sl[s].n_past
          /\ k > 0 => sl[s].state = "PROC" /\ KeptTokens + k <= sl[s].n_past /\ s \in Y
          /\ y.state = sl[s].state /\ y.ticked = sl[s].ticked
          /\ y.n_past = sl[s].n_past - k /\ y.cache = sl[s].cache - k
      BY ONLY <1>3, <1>4, s \in Slot, Y \in SUBSET Slot, <3>2, ShiftedSlotsOk
    <3>4. y = slots'[s]
      BY <3>1, <3>2
    <3>5. sl[s].n_past \in Nat /\ sl[s].cache \in Nat
      BY <1>3 DEF SlotRec
    <3>6. y.state = "LOAD" => k = 0
      BY <3>3, <3>5
    <3>. QED
      BY <3>3, <3>4, <3>5, <3>6
  <2>2. CASE ~params.ctx_shift
    <3>1. slots' = [t \in Slot |-> IF t \in Y THEN released(sl[t]) ELSE sl[t]]
      BY <1>4, <2>2 DEF ShiftStep
    <3>2. released(sl[s]).state = "RELEASE"
      BY <1>3, ReleasedOk
    <3>. QED
      BY <3>1, <3>2
  <2>. QED
    BY <2>1, <2>2
<1>6. s \notin V
  BY <1>3, <1>5
<1>. QED
  BY <1>3, <1>5, <1>6

(* No prompt has to be cut.                                                 *)
NoCut ==
  params.ctx_shift => \A s \in Slot :
    slots[s].state = "LOAD" /\ ~slots[s].ticked => slots[s].prompt < n_ctx

(* A slot that loads did so before, and outside of a look at its prompt.    *)
LoadsAs(s) ==
  slots'[s].state = "LOAD" /\ slots'[s].ticked =>
    /\ slots[s].state = "LOAD" /\ slots[s].ticked
    /\ slots'[s].cache = slots[s].cache /\ slots'[s].n_past = slots[s].n_past

LEMMA LoadsFollow ==
  ASSUME LoadInv, \A s \in Slot : LoadsAs(s), ~(pc = "prompt" /\ cur \in Slot)
  PROVE  LoadInv'
BY DEF LoadInv, LoadsAs

LEMMA NextLoad ==
  ASSUME TypeInv, LoadInv, NoCut, [Next]_vars
  PROVE  LoadInv'
<1>1. ASSUME \A s \in Slot : LoadsAs(s), pc # "prompt" PROVE LoadInv'
  BY <1>1, LoadsFollow
<1>2. ASSUME UNCHANGED slots, pc # "prompt" PROVE LoadInv'
  BY <1>1, <1>2 DEF LoadsAs
<1>3. CASE \E r \in Request : Dispatch(r)
  <2>1. PICK r \in Request : Dispatch(r)
    BY <1>3
  <2>2. \A s \in Slot : LoadsAs(s)
    BY <2>1, DispatchSlots DEF LoadsAs
  <2>. QED
    BY <1>1, <2>1, <2>2 DEF Dispatch
<1>4. CASE \E r \in Request : Cancel(r)
  <2>1. PICK r \in Request : Cancel(r)
    BY <1>4
  <2>2. ASSUME NEW s \in Slot PROVE LoadsAs(s)
    <3>1. slots'[s] = IF slots[s].task = r THEN released(slots[s]) ELSE slots[s]
      BY <2>1 DEF Cancel
    <3>2. released(slots[s]).state = "RELEASE"
      BY TaskType, ReleasedOk
    <3>. QED
      BY <3>1, <3>2 DEF LoadsAs
  <2>. QED
    BY <1>1, <2>1, <2>2 DEF Cancel
<1>5. CASE ReleaseSlots
  <2>1. \A s \in Slot : LoadsAs(s)
    BY <1>5, ReleasedOnce DEF LoadsAs
  <2>. QED
    BY <1>1, <1>5, <2>1 DEF ReleaseSlots
<1>6. CASE Heartbeat
  BY <1>2, <1>6 DEF Heartbeat, ring
<1>7. CASE context_shift
  <2>1. \A s \in Slot : LoadsAs(s)
    BY <1>7, ShiftLoads DEF LoadsAs
  <2>. QED
    BY <1>1, <1>7, <2>1 DEF context_shift
<1>8. CASE add_sampled_tokens
  <2>1. ASSUME NEW s \in Slot PROVE LoadsAs(s)
    <3>1. /\ slots'[s].state = slots[s].state
          /\ s \notin Generating => slots'[s] = slots[s]
          /\ s \in Generating => slots[s].state = "PROC" /\ slots[s].cache < n_ctx - 1
      BY <1>8, SampledSlots
    <3>. QED
      BY <3>1 DEF LoadsAs
  <2>. QED
    BY <1>1, <1>8, <2>1 DEF add_sampled_tokens
<1>9. CASE SkipSlot
  <2>1. /\ slots' = slots /\ pc' = pc
        /\ cur \in Slot /\ slots[cur].state # "LOAD"
    BY <1>9 DEF SkipSlot, ring
  <2>. QED
    BY <2>1 DEF LoadInv
<1>10. CASE FirstLook
  <2>1. PICK x : x = slots[cur]
    OBVIOUS
  <2>2. Cuttable /\ pc = "prompt" /\ pc' = pc
    BY <1>10 DEF Cuttable, NoCut, FirstLook
  <2>3. /\ cur \in Slot /\ x.state = "LOAD" /\ ~x.ticked
        /\ \A s \in Slot \ {cur} : slots'[s] = slots[s]
    BY <1>10, <2>1, <2>2, FirstLookCases
  <2>4. \/ /\ cur' = cur /\ slots'[cur].cache = x.cache /\ slots'[cur].n_past <= x.cache
        \/ slots'[cur] = released(x)
    <3>1. ~(x.prompt >= n_ctx /\ params.ctx_shift)
      <4>1. x.prompt \in Nat
        BY <2>1, <2>3, TaskType DEF SlotRec
      <4>2. params.ctx_shift => x.prompt < n_ctx
        BY <2>1, <2>3 DEF NoCut
      <4>. QED
        BY <4>1, <4>2
    <3>. QED
      BY <1>10, <2>1, <2>2, <3>1, FirstLookCases
  <2>5. released(x).state = "RELEASE"
    BY <2>1, <2>3, TaskType, ReleasedOk
  <2>6. ASSUME NEW s \in Slot \ {cur}, slots[s].state = "LOAD" /\ slots[s].ticked
        PROVE  slots[s].n_past = slots[s].cache
    BY <2>6 DEF LoadInv
  <2>. QED
    BY <2>1, <2>2, <2>3, <2>4, <2>5, <2>6 DEF LoadInv
<1>11. CASE AddPromptTokens
  <2>1. PICK x : x = slots[cur]
    OBVIOUS
  <2>2. /\ cur \in Slot /\ \A s \in Slot \ {cur} : slots'[s] = slots[s]
        /\ slots'[cur].n_past = slots'[cur].cache
    BY <1>11, <2>1, AddPromptFacts
  <2>3. ASSUME NEW s \in Slot \ {cur}, slots[s].state = "LOAD" /\ slots[s].ticked
        PROVE  slots[s].n_past = slots[s].cache
    BY <2>3 DEF LoadInv
  <2>. QED
    BY <2>2, <2>3 DEF LoadInv
<1>12. CASE BatchDone
  <2>1. slots' = slots /\ cur \notin Slot
    BY <1>12 DEF BatchDone, ring
  <2>. QED
    BY <2>1, LoadsFollow DEF LoadsAs
<1>13. CASE DecodeChunk
  <2>1. \A s \in Slot : LoadsAs(s)
    BY <1>13, ChunkSlots DEF LoadsAs
  <2>. QED
    BY <1>1, <1>13, <2>1 DEF DecodeChunk
<1>14. CASE DecodeNoRoom
  <2>1. ASSUME NEW s \in Slot PROVE LoadsAs(s)
    <3>1. slots'[s] = slots[s] \/ slots'[s] = released(slots[s])
      BY <1>14 DEF DecodeNoRoom, UnwindFail
    <3>2. released(slots[s]).state = "RELEASE"
      BY TaskType, ReleasedOk
    <3>. QED
      BY <3>1, <3>2 DEF LoadsAs
  <2>. QED
    BY <1>1, <1>14, <2>1 DEF DecodeNoRoom
<1>15. CASE DecodeAborted
  <2>1. PICK c : c = cells'
    OBVIOUS
  <2>2. c \in SUBSET CellRec
    BY <1>15, <2>1, AbortedTypes DEF TypeInv, CellsOk, CellSet
  <2>3. ASSUME NEW s \in Slot PROVE LoadsAs(s)
    <3>1. slots'[s] = slots[s] \/ slots'[s] = UnwoundSlot(c, s)
      BY <1>15, <2>1 DEF DecodeAborted
    <3>2. PICK y : y = UnwoundSlot(c, s)
      OBVIOUS
    <3>3. y.state = "RELEASE"
      BY <2>2, <3>2, UnwoundOk
    <3>. QED
      BY <3>1, <3>2, <3>3 DEF LoadsAs
  <2>. QED
    BY <1>1, <1>15, <2>3 DEF DecodeAborted
<1>16. CASE UNCHANGED vars \/ \E r \in Request : Arrive(r)
  <2>1. UNCHANGED <<slots, pc, cur>>
    BY <1>16 DEF vars, ring, decode, Arrive
  <2>. QED
    BY <2>1 DEF LoadInv
<1>. QED
  BY <1>3, <1>4, <1>5, <1>6, <1>7, <1>8, <1>9, <1>10, <1>11, <1>12, <1>13, <1>14, <1>15, <1>16 DEF Next, MainLoop

LEMMA DispatchExact ==
  ASSUME TypeInv, BatchInv, Exact, NEW r \in Request, Dispatch(r), Unplaced \subseteq Unplaced'
  PROVE  Exact'
<1>1. pc = "loop" /\ pc' = "loop" /\ UNCHANGED <<batch, at>>
  BY DEF Dispatch, decode
<1>2. Ahead = {} /\ Ahead' = {}
  BY <1>1, LoopBatch
<1>3. PICK V \in SUBSET IdleSlots :
        /\ cells' = ReclaimedCells(V)
        /\ \A s \in Slot : slots'[s].cache = ReclaimedSlots(V)[s].cache
  BY DispatchSlots
<1>4. ASSUME NEW s \in Slot PROVE Holds(cells', s, slots'[s].cache, Unplaced)
  <2>1. Holds(cells, s, slots[s].cache, Unplaced)
    BY <1>2, QuietExact
  <2>2. PICK sl : sl = ReclaimedSlots(V)
    OBVIOUS
  <2>3. Holds(ReclaimedCells(V), s, sl[s].cache, Unplaced)
    BY <2>1, <2>2, ReclaimedHolds
  <2>. QED
    BY <1>3, <2>2, <2>3
<1>. QED
  BY <1>2, <1>4, QuietAfter

(* Neither the ring nor what the slots and the batch say of it changes.     *)
LEMMA SameExact ==
  ASSUME Exact, UNCHANGED cells, \A s \in Slot : slots'[s].cache = slots[s].cache,
         Ahead' = Ahead, \A j \in Ahead : batch'[j] = batch[j], Unplaced \subseteq Unplaced'
  PROVE  Exact'
<1>1. \A s, p : InBatch(s, p)' <=> InBatch(s, p)
  BY DEF InBatch
<1>. QED
  BY <1>1 DEF Exact, CellsOf

LEMMA CacheType ==
  ASSUME TypeInv, NEW s \in Slot
  PROVE  /\ slots[s].cache \in Nat /\ slots[s].n_past \in Nat /\ slots[s].cache < n_ctx
         /\ \A x \in CellsOf(cells, s) : x \in CellRec /\ x.pos \in Nat /\ x.seq = s /\ x \in cells
BY CellsAre DEF TypeInv, SlotsOk, SlotRec, CellsOf, CellRec

LEMMA AddSampledExact ==
  ASSUME TypeInv, BatchInv, Exact, add_sampled_tokens, Unplaced \subseteq Unplaced'
  PROVE  Exact'
<1>1. Ahead = {} /\ Ahead' = 1 .. Len(batch')
  BY SampledInv
<1>2. cells' = cells
  BY DEF add_sampled_tokens
<1>3. PICK G, N : G = Generating /\ N = Cardinality(G)
  OBVIOUS
<1>4. /\ Len(batch') = N /\ N \in Nat /\ G \in SUBSET Slot
      /\ \A j \in 1 .. N : /\ batch'[j].seq = Nth(G, j) /\ Nth(G, j) \in G
                           /\ batch'[j].pos = slots[Nth(G, j)].cache
  BY <1>3, SampledBatch
<1>5. \A s \in G : \E j \in 1 .. N : Nth(G, j) = s
  BY <1>3, <1>4, NthOk
<1>6. ASSUME NEW s \in Slot, NEW p PROVE InBatch(s, p)' <=> s \in G /\ p = slots[s].cache
  BY <1>1, <1>4, <1>5 DEF InBatch
<1>7. ASSUME NEW s \in Slot
      PROVE  /\ \A x \in CellsOf(cells, s) : x.copy = 0 /\ x.pos < slots'[s].cache /\ ~InBatch(s, x.pos)'
             /\ \A p \in Nat : p < slots'[s].cache => Cell(s, p) \in cells \/ InBatch(s, p)' \/ p \in Unplaced
  <2>1. PICK n, m : n = slots[s].cache /\ m = slots'[s].cache
    OBVIOUS
  <2>2. m = n + (IF s \in G THEN 1 ELSE 0)
    BY <1>3, <2>1, SampledSlots
  <2>3. Holds(cells, s, n, Unplaced) /\ n \in Nat
    BY <1>1, <2>1, QuietExact, CacheType
  <2>4. ASSUME NEW x \in CellsOf(cells, s) PROVE x.copy = 0 /\ x.pos < m /\ x.pos # n
    <3>1. x.copy = 0 /\ x.pos < n /\ x.pos \in Nat
      BY <2>3, CacheType DEF Holds
    <3>. QED
      BY <2>2, <2>3, <3>1
  <2>5. ASSUME NEW p \in Nat, p < m PROVE Cell(s, p) \in cells \/ (s \in G /\ p = n) \/ p \in Unplaced
    <3>1. p < n \/ (s \in G /\ p = n)
      BY <2>2, <2>3, <2>5
    <3>. QED
      BY <2>3, <3>1 DEF Holds
  <2>. QED
    BY <1>6, <2>1, <2>4, <2>5
<1>. QED
  BY <1>2, <1>7 DEF Exact, CellsOf

LEMMA AddPromptExact ==
  ASSUME TypeInv, BatchInv, LoadInv, Exact, AddPromptTokens, Unplaced \subseteq Unplaced'
  PROVE  Exact'
<1>1. PICK x, L, c : x = slots[cur] /\ L = Len(batch) /\ c = cur
  OBVIOUS
<1>2. /\ cur \in Slot /\ x.state = "LOAD" /\ x.ticked
      /\ \A s \in Slot \ {cur} : slots'[s] = slots[s]
  BY <1>1, AddPromptFacts
<1>3. PICK n \in 0 .. x.prompt - x.n_past :
           /\ Ahead = 1 .. Len(batch) /\ Ahead' = 1 .. Len(batch) + n /\ Len(batch) \in Nat
           /\ slots'[cur].cache = x.n_past + n
           /\ \A j \in 1 .. Len(batch) : batch'[j] = batch[j]
           /\ \A j \in 1 .. n : /\ batch'[Len(batch) + j].seq = cur
                                /\ batch'[Len(batch) + j].pos = x.n_past + j - 1
  BY <1>1, AddPromptBatch
<1>4. /\ cells' = {y \in cells : ~(y.seq = cur /\ y.pos >= x.n_past)} /\ pc = "prompt"
  BY <1>1 DEF AddPromptTokens
<1>5. x.n_past \in Nat /\ x.cache \in Nat /\ x.n_past <= x.cache
  <2>1. x.n_past \in Nat /\ x.cache \in Nat
    BY <1>1, <1>2, CacheType
  <2>2. x.n_past = x.cache \/ x.n_past <= x.cache
    BY <1>1, <1>2 DEF LoadInv
  <2>. QED
    BY <2>1, <2>2
<1>6. \A j \in Ahead : batch[j].seq # cur
  BY <1>1, <1>2, <1>4, CurHasNone
<1>7. n \in Nat /\ L \in Nat
  BY <1>1, <1>3
<1>8. ASSUME NEW s \in Slot \ {cur}, NEW p PROVE InBatch(s, p)' <=> InBatch(s, p)
  <2>1. ASSUME NEW j \in Ahead PROVE j \in Ahead' /\ batch'[j] = batch[j]
    BY <1>1, <1>3, <1>7
  <2>2. ASSUME NEW j \in Ahead', batch'[j].seq = s PROVE j \in Ahead
    <3>1. SUFFICES ASSUME j \notin Ahead PROVE FALSE
      OBVIOUS
    <3>2. PICK i : i = j - L
      OBVIOUS
    <3>3. i \in 1 .. n /\ L + i = j
      BY <1>1, <1>3, <1>7, <3>1, <3>2
    <3>4. batch'[L + i].seq = cur
      BY <1>1, <1>3, <3>3
    <3>. QED
      BY <2>2, <3>3, <3>4
  <2>. QED
    BY <2>1, <2>2 DEF InBatch
<1>9. ASSUME NEW p \in Nat PROVE InBatch(c, p)' <=> x.n_past <= p /\ p < x.n_past + n
  <2>1. ASSUME NEW j \in Ahead', batch'[j].seq = cur, batch'[j].pos = p
        PROVE  x.n_past <= p /\ p < x.n_past + n
    <3>1. j \notin Ahead
      BY <1>1, <1>3, <1>6, <2>1
    <3>2. PICK i : i = j - L
      OBVIOUS
    <3>3. i \in 1 .. n /\ L + i = j
      BY <1>1, <1>3, <1>7, <3>1, <3>2
    <3>4. batch'[L + i].pos = x.n_past + i - 1
      BY <1>1, <1>3, <3>3
    <3>5. p = x.n_past + i - 1
      BY <2>1, <3>3, <3>4
    <3>. QED
      BY <1>5, <1>7, <3>3, <3>5
  <2>2. ASSUME x.n_past <= p, p < x.n_past + n
        PROVE  \E j \in Ahead' : batch'[j].seq = cur /\ batch'[j].pos = p
    <3>1. PICK i : i = p - x.n_past + 1
      OBVIOUS
    <3>2. i \in 1 .. n /\ x.n_past + i - 1 = p
      BY <1>5, <1>7, <2>2, <3>1
    <3>3. L + i \in 1 .. L + n
      BY <1>7, <3>2
    <3>4. L + i \in Ahead' /\ batch'[L + i].seq = cur /\ batch'[L + i].pos = x.n_past + i - 1
      BY <1>1, <1>3, <3>2, <3>3
    <3>. QED
      BY <3>2, <3>4
  <2>3. InBatch(c, p)' => x.n_past <= p /\ p < x.n_past + n
    BY <1>1, <2>1 DEF InBatch
  <2>4. x.n_past <= p /\ p < x.n_past + n => InBatch(c, p)'
    BY <1>1, <2>2 DEF InBatch
  <2>. QED
    BY <2>3, <2>4
<1>10. ASSUME NEW s \in Slot \ {cur}
       PROVE  /\ \A y \in CellsOf(cells', s) : y.copy = 0 /\ y.pos < slots'[s].cache /\ ~InBatch(s, y.pos)'
              /\ \A p \in Nat : p < slots'[s].cache => Cell(s, p) \in cells' \/ InBatch(s, p)' \/ p \in Unplaced
  <2>1. slots'[s] = slots[s] /\ CellsOf(cells', s) = CellsOf(cells, s)
    BY <1>2, <1>4 DEF CellsOf
  <2>2. \A p : Cell(s, p) \in cells => Cell(s, p) \in cells'
    BY <1>4, CellFields
  <2>. QED
    BY <1>8, <2>1, <2>2 DEF Exact
<1>11. /\ \A y \in CellsOf(cells', c) : y.copy = 0 /\ y.pos < slots'[c].cache /\ ~InBatch(c, y.pos)'
       /\ \A p \in Nat : p < slots'[c].cache => Cell(c, p) \in cells' \/ InBatch(c, p)' \/ p \in Unplaced
  <2>1. ASSUME NEW y \in CellsOf(cells', c)
        PROVE  y.copy = 0 /\ y.pos < slots'[c].cache /\ ~InBatch(c, y.pos)'
    <3>1. y \in CellsOf(cells, c) /\ ~(y.pos >= x.n_past)
      BY <1>1, <1>4 DEF CellsOf
    <3>2. y.copy = 0 /\ y.pos \in Nat
      BY <1>1, <1>2, <3>1, CacheType DEF Exact
    <3>3. y.pos < x.n_past
      BY <1>5, <3>1, <3>2
    <3>4. y.pos < x.n_past + n /\ ~(x.n_past <= y.pos)
      BY <1>5, <1>7, <3>2, <3>3
    <3>. QED
      BY <1>1, <1>3, <1>9, <3>2, <3>4
  <2>2. ASSUME NEW p \in Nat, p < slots'[c].cache, ~InBatch(c, p)', p \notin Unplaced
        PROVE  Cell(c, p) \in cells'
    <3>1. p < x.n_past
      BY <1>1, <1>3, <1>5, <1>7, <1>9, <2>2
    <3>2. p < x.cache
      BY <1>5, <3>1
    <3>3. ~InBatch(c, p)
      BY <1>1, <1>6 DEF InBatch
    <3>4. Cell(c, p) \in cells
      BY <1>1, <1>2, <2>2, <3>2, <3>3 DEF Exact
    <3>5. ~(Cell(c, p).pos >= x.n_past)
      BY <1>5, <3>1, CellFields
    <3>. QED
      BY <1>1, <1>4, <3>4, <3>5
  <2>. QED
    BY <2>1, <2>2
<1>12. ASSUME NEW s \in Slot
       PROVE  /\ \A y \in CellsOf(cells', s) : y.copy = 0 /\ y.pos < slots'[s].cache /\ ~InBatch(s, y.pos)'
              /\ \A p \in Nat : p < slots'[s].cache => Cell(s, p) \in cells' \/ InBatch(s, p)' \/ p \in Unplaced
  <2>1. CASE s = cur
    BY <1>1, <1>11, <2>1
  <2>2. CASE s # cur
    BY <1>10, <2>2
  <2>. QED
    BY <2>1, <2>2
<1>13. ASSUME NEW s \in Slot PROVE CellsOf(cells', s) = CellsOf(cells, s)'
  BY DEF CellsOf
<1>. QED
  BY <1>12, <1>13 DEF Exact

(* A token in the batch is not yet in the ring: the cell it gets is its     *)
(* first.                                                                   *)
LEMMA FreshCell ==
  ASSUME TypeInv, Exact, NEW j \in Ahead
  PROVE  CellFor(j) = Cell(batch[j].seq, batch[j].pos)
<1>1. PICK s, p : s = batch[j].seq /\ p = batch[j].pos
  OBVIOUS
<1>2. s \in Slot /\ InBatch(s, p)
  BY <1>1, AheadType DEF InBatch
<1>3. ASSUME NEW x \in cells, x.seq = s, x.pos = p PROVE FALSE
  <2>1. x \in CellsOf(cells, s)
    BY <1>3 DEF CellsOf
  <2>2. ~InBatch(s, x.pos)
    BY <1>2, <2>1 DEF Exact
  <2>. QED
    BY <1>2, <1>3, <2>2
<1>4. PICK S : S = {x \in cells : x.seq = s /\ x.pos = p}
  OBVIOUS
<1>5. S = {}
  BY <1>3, <1>4
<1>6. Cardinality(S) = 0
  BY <1>5, FS_EmptySet
<1>7. Copies(batch[j]) = 0
  BY <1>1, <1>4, <1>6 DEF Copies
<1>. QED
  BY <1>7 DEF CellFor, Cell

InChunk(s, p, m) == \E j \in Ahead : j <= at + m /\ batch[j].seq = s /\ batch[j].pos = p

AfterChunk(s, p, m) == \E j \in Ahead : j > at + m /\ batch[j].seq = s /\ batch[j].pos = p

LEMMA PlacedHolds ==
  ASSUME TypeInv, BatchInv, Exact, NEW m \in Nat, at + m <= Len(batch), NEW s \in Slot,
         NEW c, c = Placed(m)
  PROVE  /\ \A x \in CellsOf(c, s) :
              /\ x.copy = 0 /\ x.pos < slots[s].cache /\ x.pos \in Nat
              /\ (x \in cells /\ ~InBatch(s, x.pos)) \/ InChunk(s, x.pos, m)
         /\ \A p \in Nat : p < slots[s].cache => Cell(s, p) \in c \/ AfterChunk(s, p, m) \/ p \in Unplaced
         /\ \A p \in Nat : ~(InChunk(s, p, m) /\ AfterChunk(s, p, m))
<1>1. at \in Nat /\ Len(batch) \in Nat
  BY DEF TypeInv, BatchOk
<1>2. c = cells \cup {CellFor(j) : j \in at + 1 .. at + m}
  BY PlacedAre
<1>3. \A j : j \in at + 1 .. at + m <=> j \in Ahead /\ j <= at + m
  <2>1. PICK a, L : a = at /\ L = Len(batch)
    OBVIOUS
  <2>2. a \in Nat /\ L \in Nat /\ a + m <= L
    BY <1>1, <2>1
  <2>3. \A j : j \in a + 1 .. a + m <=> j \in a + 1 .. L /\ j <= a + m
    BY ONLY <2>2, m \in Nat
  <2>. QED
    BY <2>1, <2>3 DEF Ahead
<1>4. ASSUME NEW x \in CellsOf(c, s)
      PROVE  /\ x.copy = 0 /\ x.pos < slots[s].cache /\ x.pos \in Nat
             /\ (x \in cells /\ ~InBatch(s, x.pos)) \/ InChunk(s, x.pos, m)
  <2>1. x \in c /\ x.seq = s
    BY DEF CellsOf
  <2>2. CASE x \in cells
    <3>1. x \in CellsOf(cells, s)
      BY <2>1, <2>2 DEF CellsOf
    <3>. QED
      BY <2>2, <3>1, CacheType DEF Exact
  <2>3. CASE x \notin cells
    <3>1. PICK j \in at + 1 .. at + m : x = CellFor(j)
      BY <1>2, <2>1, <2>3
    <3>2. j \in Ahead /\ j <= at + m
      BY <1>3
    <3>3. x = Cell(batch[j].seq, batch[j].pos)
      BY <3>1, <3>2, FreshCell
    <3>4. x.seq = batch[j].seq /\ x.pos = batch[j].pos /\ x.copy = 0
      BY <3>3, CellFields
    <3>5. batch[j].pos < slots[s].cache
      BY <2>1, <3>2, <3>4 DEF BatchInv, Owned
    <3>6. batch[j].pos \in Nat
      BY <3>2, AheadType
    <3>. QED
      BY <2>1, <3>2, <3>4, <3>5, <3>6 DEF InChunk
  <2>. QED
    BY <2>2, <2>3
<1>5. ASSUME NEW p \in Nat, p < slots[s].cache, ~AfterChunk(s, p, m), p \notin Unplaced
      PROVE  Cell(s, p) \in c
  <2>1. CASE Cell(s, p) \in cells
    BY <1>2, <2>1
  <2>2. CASE InBatch(s, p)
    <3>1. PICK j \in Ahead : batch[j].seq = s /\ batch[j].pos = p
      BY <2>2 DEF InBatch
    <3>2. j <= at + m
      <4>1. j \in Nat
        BY AheadType
      <4>2. ~(j > at + m)
        BY <1>5, <3>1 DEF AfterChunk
      <4>. QED
        BY <1>1, <4>1, <4>2
    <3>3. CellFor(j) \in c
      BY <1>2, <1>3, <3>2
    <3>4. CellFor(j) = Cell(s, p)
      BY <3>1, FreshCell
    <3>. QED
      BY <3>3, <3>4
  <2>. QED
    BY <1>5, <2>1, <2>2 DEF Exact
<1>6. ASSUME NEW p \in Nat, InChunk(s, p, m), AfterChunk(s, p, m) PROVE FALSE
  <2>1. PICK j \in Ahead : j <= at + m /\ batch[j].seq = s /\ batch[j].pos = p
    BY <1>6 DEF InChunk
  <2>2. PICK k \in Ahead : k > at + m /\ batch[k].seq = s /\ batch[k].pos = p
    BY <1>6 DEF AfterChunk
  <2>3. j < k
    BY <1>1, <2>1, <2>2, AheadType
  <2>4. batch[j].pos < batch[k].pos
    BY <2>1, <2>2, <2>3 DEF BatchInv, InOrder
  <2>. QED
    BY <2>1, <2>2, <2>4
<1>. QED
  BY <1>4, <1>5, <1>6

LEMMA ChunkExact ==
  ASSUME TypeInv, BatchInv, Exact, DecodeChunk, Unplaced \subseteq Unplaced'
  PROVE  Exact'
<1>1. pc = "decode" /\ cells' = Placed(ChunkSize)
  BY DEF DecodeChunk
<1>2. PICK m, c : m = ChunkSize /\ c = cells'
  OBVIOUS
<1>3. m \in Nat /\ m >= 1 /\ at + m <= Len(batch) /\ at \in Nat /\ Len(batch) \in Nat /\ c = Placed(m)
  BY <1>1, <1>2, ChunkPositive, ChunkType
<1>4. \A s \in Slot : slots'[s].cache = slots[s].cache
  BY ChunkSlots
<1>5. ASSUME NEW s \in Slot
      PROVE  /\ \A x \in CellsOf(c, s) :
                   /\ x.copy = 0 /\ x.pos < slots'[s].cache /\ x.pos \in Nat
                   /\ (x \in cells /\ ~InBatch(s, x.pos)) \/ InChunk(s, x.pos, m)
             /\ \A p \in Nat : p < slots'[s].cache => Cell(s, p) \in c \/ AfterChunk(s, p, m) \/ p \in Unplaced
             /\ \A p \in Nat : ~(InChunk(s, p, m) /\ AfterChunk(s, p, m))
  BY <1>3, <1>4, PlacedHolds
<1>6. CASE EndDecode
  <2>1. Ahead' = {}
    BY <1>6, EndBatch
  <2>2. at + m >= Len(batch)
    <3>1. ~(at' = at + ChunkSize /\ UNCHANGED pc)
      BY <1>1, <1>6 DEF EndDecode
    <3>. QED
      BY <1>2, <3>1 DEF DecodeChunk
  <2>3. ASSUME NEW s, NEW p PROVE ~AfterChunk(s, p, m)
    <3>1. ASSUME NEW j \in Ahead, j > at + m PROVE FALSE
      <4>1. j \in 1 .. Len(batch) /\ j \in Nat
        BY AheadType
      <4>. QED
        BY <1>3, <2>2, <3>1, <4>1
    <3>. QED
      BY <3>1 DEF AfterChunk
  <2>4. ASSUME NEW s \in Slot PROVE Holds(c, s, slots'[s].cache, Unplaced)
    BY <1>5, <2>3 DEF Holds
  <2>. QED
    BY <1>2, <2>1, <2>4, QuietAfter
<1>7. CASE ~EndDecode
  <2>1. batch' = batch /\ \A j : j \in Ahead' <=> j \in Ahead /\ j > at + m
    BY <1>2, <1>7, ChunkInv
  <2>2. \A s, p : InBatch(s, p)' <=> AfterChunk(s, p, m)
    BY <2>1 DEF InBatch, AfterChunk
  <2>3. \A s, p : AfterChunk(s, p, m) => InBatch(s, p)
    BY DEF InBatch, AfterChunk
  <2>4. ASSUME NEW s \in Slot
        PROVE  /\ \A x \in CellsOf(c, s) : x.copy = 0 /\ x.pos < slots'[s].cache /\ ~InBatch(s, x.pos)'
               /\ \A p \in Nat : p < slots'[s].cache => Cell(s, p) \in c \/ InBatch(s, p)' \/ p \in Unplaced
    BY <1>5, <2>2, <2>3
  <2>5. \A s : CellsOf(c, s) = CellsOf(cells, s)'
    BY <1>2 DEF CellsOf
  <2>. QED
    BY <1>2, <2>4, <2>5 DEF Exact
<1>. QED
  BY <1>6, <1>7

LEMMA AbortExact ==
  ASSUME TypeInv, BatchInv, Exact, DecodeAborted, Unplaced \subseteq Unplaced'
  PROVE  Exact'
<1>1. pc = "decode" /\ EndDecode
  BY DEF DecodeAborted
<1>2. Ahead' = {}
  BY <1>1, EndBatch
<1>3. PICK m \in UbatchEnds :
        /\ cells' = Placed(m)
        /\ slots' = [s \in Slot |-> IF s \in Processing THEN UnwoundSlot(cells', s) ELSE slots[s]]
  BY DEF DecodeAborted
<1>4. PICK c : c = cells'
  OBVIOUS
<1>5. m \in Nat /\ at + m <= Len(batch) /\ c = Placed(m)
  BY <1>3, <1>4, UbatchType
<1>6. c \in SUBSET CellRec
  BY <1>4, AbortedTypes DEF TypeInv, CellsOk, CellSet
<1>7. ASSUME NEW s \in Processing, n_parallel > 1 PROVE 0 \in Unplaced'
  <2>1. s \in Slot /\ slots[s].task \in Request /\ slots[s].task \in TasksOf(Processing)
    BY <1>7, TaskType DEF Processing, TasksOf
  <2>2. status' = Outcome(Processing, "aborted")
    BY DEF DecodeAborted
  <2>3. status'[slots[s].task] = "aborted"
    BY <2>1, <2>2 DEF Outcome
  <2>. QED
    BY <1>7, <2>1, <2>3 DEF Unplaced
<1>8. ASSUME NEW s \in Slot, n_parallel = 1 PROVE CellsOf(c, s) # {}
  <2>1. PICK j : j = at + 1
    OBVIOUS
  <2>2. m >= 1 /\ at \in Nat /\ Len(batch) \in Nat
    <3>1. m \in 1 .. ChunkSize
      BY DEF UbatchEnds
    <3>. QED
      BY <1>5, <3>1 DEF TypeInv, BatchOk
  <2>3. j \in at + 1 .. at + m /\ j \in Ahead
    BY <1>5, <2>1, <2>2 DEF Ahead
  <2>4. PICK t : t = batch[j].seq
    OBVIOUS
  <2>5. t = s
    <3>1. t \in Slot
      BY <2>3, <2>4, AheadType
    <3>. QED
      BY <1>8, <3>1 DEF Slot
  <2>6. CellFor(j) \in c
    BY <1>5, <2>3, PlacedAre
  <2>7. CellFor(j).seq = t
    BY <2>3, <2>4, FreshCell, CellFields
  <2>. QED
    BY <2>5, <2>6, <2>7 DEF CellsOf
<1>9. ASSUME NEW s \in Slot PROVE Holds(c, s, slots'[s].cache, Unplaced')
  <2>1. PICK n : n = slots[s].cache
    OBVIOUS
  <2>2. n \in Nat
    BY <2>1, CacheType
  <2>3. /\ \A x \in CellsOf(c, s) :
              /\ x.copy = 0 /\ x.pos < n /\ x.pos \in Nat
              /\ (x \in cells /\ ~InBatch(s, x.pos)) \/ InChunk(s, x.pos, m)
        /\ \A p \in Nat : p < n => Cell(s, p) \in c \/ AfterChunk(s, p, m) \/ p \in Unplaced
        /\ \A p \in Nat : ~(InChunk(s, p, m) /\ AfterChunk(s, p, m))
    BY <1>5, <2>1, PlacedHolds
  <2>4. CASE s \notin Processing
    <3>1. slots'[s].cache = n
      BY <1>3, <2>1, <2>4
    <3>2. ASSUME NEW p PROVE ~AfterChunk(s, p, m)
      <4>1. \A j \in Ahead : batch[j].seq \in Processing
        BY AheadType DEF BatchInv, Owned, Processing
      <4>. QED
        BY <2>4, <4>1 DEF AfterChunk
    <3>. QED
      BY <2>3, <3>1, <3>2 DEF Holds
  <2>5. CASE s \in Processing
    <3>1. PICK y, k : y = UnwoundSlot(c, s) /\ k = seq_pos_max(c, s)
      OBVIOUS
    <3>2. y.cache = IF n <= k + 1 THEN n ELSE k + 1
      BY <1>6, <2>1, <3>1, UnwoundOk
    <3>3. /\ k \in 0 .. n_ctx - 1
          /\ \A x \in CellsOf(c, s) : x.pos <= k
          /\ k = 0 \/ \E x \in CellsOf(c, s) : x.pos = k
      BY <1>6, <3>1, PosMax
    <3>4. slots'[s].cache = y.cache
      BY <1>3, <1>4, <2>5, <3>1
    <3>5. ASSUME NEW x \in CellsOf(c, s) PROVE x.copy = 0 /\ x.pos < y.cache
      <4>1. x.copy = 0 /\ x.pos < n /\ x.pos \in Nat /\ x.pos <= k
        BY <2>3, <3>3
      <4>. QED
        BY <2>2, <3>2, <3>3, <4>1
    <3>6. ASSUME NEW p \in Nat, p < y.cache, p \notin Unplaced' PROVE Cell(s, p) \in c
      <4>1. p < n /\ p <= k
        BY <2>2, <3>2, <3>3, <3>6
      <4>2. PICK x \in CellsOf(c, s) : x.pos = k
        <5>1. CASE n_parallel = 1
          <6>1. PICK x \in CellsOf(c, s) : TRUE
            BY <1>8, <5>1
          <6>2. x.pos \in Nat /\ x.pos <= k
            BY <2>3, <3>3
          <6>. QED
            BY <3>3, <6>2
        <5>2. CASE n_parallel # 1
          <6>1. n_parallel > 1
            BY <5>2, RingAssumption
          <6>2. 0 \in Unplaced'
            BY <1>7, <2>5, <6>1
          <6>3. k # 0
            BY <3>6, <4>1, <6>2
          <6>. QED
            BY <3>3, <6>3
        <5>. QED
          BY <5>1, <5>2
      <4>3. k \in Nat /\ k < n
        BY <2>3, <4>2
      <4>4. SUFFICES ASSUME AfterChunk(s, p, m) PROVE FALSE
        BY <2>3, <3>6, <4>1
      <4>5. PICK j \in Ahead : j > at + m /\ batch[j].seq = s /\ batch[j].pos = p
        BY <4>4 DEF AfterChunk
      <4>6. \E i \in Ahead : batch[i].seq = batch[j].seq /\ batch[i].pos = k
        <5>1. batch[j].pos <= k /\ k < slots[batch[j].seq].cache
          BY <2>1, <4>1, <4>3, <4>5
        <5>. QED
          BY <4>3, <5>1 DEF BatchInv, UpToTheLast
      <4>7. InBatch(s, k)
        BY <4>5, <4>6 DEF InBatch
      <4>8. InChunk(s, k, m)
        BY <2>3, <4>2, <4>7
      <4>9. PICK i \in Ahead : i <= at + m /\ batch[i].seq = s /\ batch[i].pos = k
        BY <4>8 DEF InChunk
      <4>10. i < j
        <5>1. at \in Nat
          BY DEF TypeInv, BatchOk
        <5>. QED
          BY <1>5, <4>5, <4>9, <5>1, AheadType
      <4>11. batch[i].pos < batch[j].pos
        BY <4>5, <4>9, <4>10 DEF BatchInv, InOrder
      <4>. QED
        BY <4>1, <4>3, <4>5, <4>9, <4>11
    <3>. QED
      BY <3>4, <3>5, <3>6 DEF Holds
  <2>. QED
    BY <2>4, <2>5
<1>. QED
  BY <1>2, <1>4, <1>9, QuietAfter

(***************************************************************************)
(* The invariant of the ring while no decode has been given up.            *)
(***************************************************************************)
NobodyFailed == \A r \in Request : status[r] # "failed"

(* A ring that is full is found so before anything is placed: what is tried *)
(* again has no cells yet.                                                  *)
RetryPlacesNothing == pc = "decode" /\ pc' = "decode" /\ at' = at => cells' = cells

(* Decoding is given up at the cost of some request.                        *)
LEMMA UnwindFails ==
  ASSUME TypeInv, TaskInv, BatchInv, pc = "decode", UnwindFail
  PROVE  ~NobodyFailed'
<1>1. PICK j : j = at + 1
  OBVIOUS
<1>2. j \in Ahead
  <2>1. at < Len(batch)
    BY DEF BatchInv, BatchStage
  <2>2. at \in Nat /\ Len(batch) \in Nat
    BY DEF TypeInv, BatchOk
  <2>. QED
    BY <1>1, <2>1, <2>2 DEF Ahead
<1>3. PICK s : s = batch[j].seq
  OBVIOUS
<1>4. s \in Processing
  BY <1>2, <1>3, AheadType DEF BatchInv, Owned, Processing
<1>5. slots[s].task \in Request
  <2>1. s \in Slot
    BY <1>2, <1>3, AheadType
  <2>. QED
    BY <1>4, <2>1, TaskType
<1>6. status' = Outcome(Processing, "failed")
  BY DEF UnwindFail
<1>7. slots[s].task \in TasksOf(Processing)
  BY <1>4 DEF TasksOf
<1>8. status'[slots[s].task] = "failed"
  BY <1>5, <1>6, <1>7 DEF Outcome
<1>. QED
  BY <1>5, <1>8 DEF NobodyFailed

LEMMA NextExact ==
  ASSUME TypeInv, TaskInv, BatchInv, LoadInv, NoCut, ~clean_kv_cache, Exact,
         [Next]_vars, [RetryPlacesNothing]_vars, NobodyFailed', Unplaced \subseteq Unplaced'
  PROVE  Exact'
<1>1. Cuttable
  BY DEF Cuttable, NoCut
<1>2. CASE \E r \in Request : Dispatch(r)
  BY <1>2, DispatchExact
<1>3. ASSUME pc = "loop", pc' \in {"loop", "shift"}, UNCHANGED decode, UNCHANGED cells,
             \A s \in Slot : slots'[s].cache = slots[s].cache
      PROVE  Exact'
  <2>1. Ahead' = {} /\ Ahead = {}
    BY <1>3, LoopBatch DEF decode
  <2>. QED
    BY <1>3, <2>1, SameExact
<1>4. CASE \E r \in Request : Cancel(r)
  <2>1. PICK r \in Request : Cancel(r)
    BY <1>4
  <2>2. ASSUME NEW s \in Slot PROVE slots'[s].cache = slots[s].cache
    <3>1. slots'[s] = IF slots[s].task = r THEN released(slots[s]) ELSE slots[s]
      BY <2>1 DEF Cancel
    <3>2. released(slots[s]).cache = slots[s].cache
      BY TaskType, ReleasedOk
    <3>. QED
      BY <3>1, <3>2
  <2>. QED
    BY <1>3, <2>1, <2>2 DEF Cancel
<1>5. CASE ReleaseSlots
  <2>1. pc = "loop" /\ pc' \in {"loop", "shift"} /\ UNCHANGED decode /\ UNCHANGED cells
    BY <1>5 DEF ReleaseSlots
  <2>. QED
    BY <1>3, <1>5, <2>1, ReleasedOnce
<1>6. CASE Heartbeat
  BY <1>3, <1>6 DEF Heartbeat, ring
<1>7. CASE context_shift
  <2>1. pc = "shift" /\ pc' = "batch" /\ UNCHANGED <<batch, at>>
    BY <1>7 DEF context_shift, decode
  <2>2. Ahead = {} /\ Ahead' = {}
    BY <2>1, LoopBatch
  <2>. QED
    BY <1>7, <2>2, ShiftSlots, QuietAfter
<1>8. CASE add_sampled_tokens
  BY <1>8, AddSampledExact
<1>9. ASSUME UNCHANGED <<slots, cells, batch, at>> PROVE Exact'
  <2>1. Ahead' = Ahead
    BY <1>9 DEF Ahead
  <2>. QED
    BY <1>9, <2>1, SameExact
<1>10. CASE SkipSlot \/ BatchDone \/ UNCHANGED vars \/ \E r \in Request : Arrive(r)
  BY <1>9, <1>10 DEF SkipSlot, BatchDone, Arrive, vars, ring, decode
<1>11. CASE FirstLook
  <2>1. PICK x : x = slots[cur]
    OBVIOUS
  <2>2. /\ cur \in Slot /\ x \in SlotRec /\ WellKept(x) /\ x.state = "LOAD" /\ ~x.ticked
        /\ \A s \in Slot \ {cur} : slots'[s] = slots[s]
    BY <1>1, <1>11, <2>1, FirstLookCases
  <2>3. ~(x.prompt >= n_ctx /\ params.ctx_shift)
    <3>1. x.prompt \in Nat
      BY <2>2 DEF SlotRec
    <3>2. params.ctx_shift => x.prompt < n_ctx
      BY <2>1, <2>2 DEF NoCut
    <3>. QED
      BY <3>1, <3>2
  <2>4. UNCHANGED cells /\ (slots'[cur].cache = x.cache \/ slots'[cur] = released(x))
    BY <1>1, <1>11, <2>1, <2>3, FirstLookCases
  <2>5. released(x).cache = x.cache
    BY <2>2, ReleasedOk
  <2>6. \A s \in Slot : slots'[s].cache = slots[s].cache
    BY <2>1, <2>2, <2>4, <2>5
  <2>7. batch' = batch /\ Ahead' = Ahead
    BY <1>11 DEF FirstLook, Ahead
  <2>. QED
    BY <2>4, <2>6, <2>7, SameExact
<1>12. CASE AddPromptTokens
  BY <1>12, AddPromptExact
<1>13. CASE DecodeChunk
  BY <1>13, ChunkExact
<1>14. CASE DecodeNoRoom
  <2>1. ~UnwindFail
    BY <1>14, UnwindFails DEF DecodeNoRoom
  <2>2. UNCHANGED <<slots, pc, batch, at>> /\ pc = "decode"
    BY <1>14, <2>1 DEF DecodeNoRoom
  <2>3. cells' = cells
    BY <2>2 DEF RetryPlacesNothing, vars, ring
  <2>. QED
    BY <1>9, <2>2, <2>3
<1>15. CASE DecodeAborted
  BY <1>15, AbortExact
<1>. QED
  BY <1>2, <1>4, <1>5, <1>6, <1>7, <1>8, <1>10, <1>11, <1>12, <1>13, <1>14, <1>15 DEF Next, MainLoop

(* Nothing asks for the cache to be cleared.                                *)
LEMMA NeverCleared ==
  ASSUME ~clean_kv_cache, [Next]_vars
  PROVE  ~clean_kv_cache'
BY DEF Next, MainLoop, Dispatch, NoSlotAvailable, Cancel, Arrive, ReleaseSlots, Heartbeat, context_shift,
       add_sampled_tokens, SkipSlot, FirstLook, AddPromptTokens, BatchDone, DecodeChunk,
       DecodeNoRoom, DecodeAborted, vars, ring

(* A server whose prompts all fit when the context is shifted, and whose    *)
(* first request comes after it is ready.                                   *)
Settled == ~params.early /\ (params.ctx_shift => \A r \in Request : params.len[r] < n_ctx)

LEMMA SettledNoCut ==
  ASSUME TypeInv, TaskInv, Settled
  PROVE  NoCut
<1>1. ASSUME params.ctx_shift, NEW s \in Slot, slots[s].state = "LOAD", ~slots[s].ticked
      PROVE  slots[s].prompt < n_ctx
  <2>1. slots[s].task # NoRequest /\ slots[s].task \in Request
    BY <1>1, TaskType
  <2>2. slots[s].prompt = params.len[slots[s].task]
    BY <1>1, <2>1 DEF TaskInv
  <2>. QED
    BY <1>1, <2>1, <2>2 DEF Settled
<1>. QED
  BY <1>1 DEF NoCut

RingInv ==
  Settled =>
    /\ TypeInv /\ TaskInv /\ BatchInv /\ LoadInv /\ ~clean_kv_cache
    /\ NobodyFailed => Exact

LEMMA InitRing ==
  ASSUME Init
  PROVE  RingInv
<1>1. TypeInv /\ BatchInv
  BY InitTypes, InitBatch
<1>2. \A s \in Slot : /\ slots[s].task = NoRequest /\ slots[s].state = "IDLE" /\ slots[s].cache = 0
  BY DEF Init, EmptySlot
<1>3. TaskInv /\ LoadInv
  BY <1>2 DEF TaskInv, LoadInv
<1>4. cells = {} /\ (Settled => ~clean_kv_cache)
  BY DEF Init, Settled
<1>5. Exact
  BY <1>2, <1>4 DEF Exact, CellsOf
<1>. QED
  BY <1>1, <1>3, <1>4, <1>5 DEF RingInv

LEMMA ParamsStay ==
  ASSUME [Next]_vars
  PROVE  params' = params
BY DEF Next, MainLoop, Dispatch, Cancel, Arrive, ReleaseSlots, Heartbeat, context_shift,
       add_sampled_tokens, SkipSlot, FirstLook, AddPromptTokens, BatchDone, DecodeChunk,
       DecodeNoRoom, DecodeAborted, vars

LEMMA NextRing ==
  ASSUME RingInv, [Next]_vars, RingInv /\ Settled => [RetryPlacesNothing]_vars
  PROVE  RingInv'
<1>. SUFFICES ASSUME Settled' PROVE RingInv'
  BY DEF RingInv
<1>0. Settled /\ [RetryPlacesNothing]_vars
  BY ParamsStay DEF Settled
<1>1. TypeInv /\ TaskInv /\ BatchInv /\ LoadInv /\ ~clean_kv_cache
  BY <1>0 DEF RingInv
<1>2. NoCut /\ Cuttable
  BY <1>0, <1>1, SettledNoCut DEF NoCut, Cuttable
<1>3. TypeInv' /\ TaskInv' /\ EndedStays /\ BatchInv' /\ LoadInv' /\ ~clean_kv_cache'
  BY <1>1, <1>2, NextTypes, NextTasks, NextBatch, NextLoad, NeverCleared
<1>4. NobodyFailed' => NobodyFailed
  BY <1>3 DEF NobodyFailed, EndedStays
<1>5. NobodyFailed' => Exact'
  <2>1. SUFFICES ASSUME NobodyFailed' PROVE Exact'
    OBVIOUS
  <2>2. Exact
    BY <1>0, <1>4, <2>1 DEF RingInv
  <2>. QED
    BY <1>0, <1>1, <1>2, <1>3, <2>1, <2>2, NextExact, UnplacedStays
<1>. QED
  BY <1>3, <1>5 DEF RingInv

LEMMA RingHolds == RingInv /\ Settled /\ NobodyFailed => OneCellPerToken
<1>. SUFFICES ASSUME RingInv, Settled, NobodyFailed, pc \notin {"prompt", "decode"}, NEW s \in Slot
              PROVE  \E lost \in SUBSET Unplaced : CellsOf(cells, s) =
                       {[seq |-> s, pos |-> p, copy |-> 0] : p \in (0 .. slots[s].cache - 1) \ lost}
  BY DEF OneCellPerToken
<1>1. TypeInv /\ BatchInv /\ Exact
  BY DEF RingInv
<1>2. Ahead = {}
  <2>1. pc \in {"loop", "shift", "batch"}
    BY <1>1 DEF TypeInv, FlagsOk
  <2>2. batch = <<>> /\ at = 0
    BY <1>1, <2>1 DEF BatchInv, BatchStage
  <2>. QED
    BY <2>2 DEF Ahead
<1>3. PICK n : n = slots[s].cache
  OBVIOUS
<1>4. Holds(cells, s, n, Unplaced) /\ n \in Nat
  BY <1>1, <1>2, <1>3, QuietExact, CacheType
<1>0. PICK lost : lost = {p \in Unplaced : Cell(s, p) \notin cells}
  OBVIOUS
<1>5. ASSUME NEW x \in CellsOf(cells, s) PROVE \E p \in (0 .. n - 1) \ lost : x = Cell(s, p)
  <2>1. x \in CellRec /\ x.pos \in Nat /\ x.seq = s /\ x.copy = 0 /\ x.pos < n
    BY <1>1, <1>4, CacheType DEF Holds
  <2>2. x = Cell(s, x.pos)
    BY <2>1, CellIs
  <2>3. x.pos \in 0 .. n - 1
    BY <1>4, <2>1
  <2>4. x.pos \notin lost
    <3>1. x \in cells
      BY DEF CellsOf
    <3>. QED
      BY <1>0, <2>2, <3>1
  <2>. QED
    BY <2>2, <2>3, <2>4
<1>6. ASSUME NEW p \in (0 .. n - 1) \ lost PROVE Cell(s, p) \in CellsOf(cells, s)
  <2>1. p \in Nat /\ p < n
    BY <1>4
  <2>2. Cell(s, p) \in cells
    BY <1>0, <1>4, <2>1 DEF Holds
  <2>. QED
    BY <2>2, CellFields DEF CellsOf
<1>7. CellsOf(cells, s) = {Cell(s, p) : p \in (0 .. n - 1) \ lost}
  BY <1>5, <1>6
<1>. QED
  BY <1>0, <1>3, <1>7 DEF Cell

LEMMA TypesHold == TypeInv => TypeOK
<1>. SUFFICES ASSUME TypeInv PROVE TypeOK
  OBVIOUS
<1>1. slots \in [Slot -> [state : SlotState, task : Request \cup {NoRequest},
                          prompt : Nat, ticked : BOOLEAN, n_past : 0 .. n_ctx,
                          cache : 0 .. n_ctx, n_decoded : 0 .. MaxGen]]
  <2>1. \A n : n \in 0 .. n_ctx - 1 => n \in 0 .. n_ctx
    OBVIOUS
  <2>. QED
    BY <2>1 DEF TypeInv, SlotsOk, SlotRec
<1>2. \A s \in Slot : is_processing(slots[s]) <=> slots[s].task # NoRequest
  BY DEF TypeInv, SlotsOk, WellKept
<1>3. /\ \A x \in cells : x.seq \in Slot /\ x.pos \in 0 .. n_ctx - 1 /\ x.copy \in Nat
      /\ Cardinality(cells) <= n_ctx
  BY DEF TypeInv, CellsOk, CellSet, CellRec
<1>. QED
  BY <1>1, <1>2, <1>3 DEF TypeInv, TypeOK, StatusOk, Statuses, BatchOk, FlagsOk

(* The ring never holds more cells than it has, and no slot outgrows it,    *)
(* with any number of slots and prompts of any length, if a prompt that     *)
(* fills the context can be cut (the assertion after context_shift_prompt). *)
THEOREM RingTypes ==
  ASSUME n_keep + 2 <= n_ctx
  PROVE  Spec => []TypeOK
<1>1. Cuttable
  <2>1. BlockSize > 0
    BY DEF BlockSize
  <2>. QED
    BY <2>1 DEF Cuttable
<1>2. Init => TypeInv
  BY InitTypes
<1>3. TypeInv /\ [Next]_vars => TypeInv'
  BY <1>1, NextTypes
<1>4. TypeInv => TypeOK
  BY TypesHold
<1>. QED
  BY <1>2, <1>3, <1>4, PTL DEF Spec

(* Between two batches each token a slot believes cached has exactly one    *)
(* cell and the slot has no other, through admissions, reclaims, context    *)
(* shifts, releases and aborted decodes, until a decode is given up, and    *)
(* unless a retry repeats what was already placed (update_slots and         *)
(* process_batch_tokens).                                                   *)
THEOREM TokensHaveCells ==
  Spec /\ [][RetryPlacesNothing]_vars => [](Settled /\ NobodyFailed => OneCellPerToken)
<1>1. Init => RingInv
  BY InitRing
<1>2. RingInv /\ [Next]_vars /\ [RetryPlacesNothing]_vars => RingInv'
  BY NextRing
<1>3. RingInv => (Settled /\ NobodyFailed => OneCellPerToken)
  BY RingHolds
<1>. QED
  BY <1>1, <1>2, <1>3, PTL DEF Spec

(* With batches of one ubatch nothing is placed before a decode finds no    *)
(* room, so no retry does harm.                                             *)
LEMMA WholeBatches ==
  ASSUME TypeInv, n_batch <= n_ubatch, [Next]_vars
  PROVE  [RetryPlacesNothing]_vars
<1>1. SUFFICES ASSUME Next, pc = "decode", pc' = "decode", at' = at PROVE cells' = cells
  BY DEF RetryPlacesNothing
<1>2. DecodeChunk \/ DecodeNoRoom \/ DecodeAborted
  BY <1>1 DEF Next, MainLoop, Dispatch, Cancel, Arrive, ReleaseSlots, Heartbeat, context_shift,
     add_sampled_tokens, SkipSlot, FirstLook, AddPromptTokens, BatchDone
<1>3. ~EndDecode
  BY <1>1 DEF EndDecode
<1>4. CASE DecodeAborted
  BY <1>3, <1>4 DEF DecodeAborted
<1>5. CASE DecodeNoRoom
  <2>1. PICK m \in ({0} \cup UbatchEnds) \ {ChunkSize} : cells' = Placed(m)
    BY <1>5 DEF DecodeNoRoom
  <2>2. PICK k : k = ChunkSize
    OBVIOUS
  <2>3. k \in Int /\ k <= n_ubatch
    <3>1. k \in Int /\ k <= nb /\ nb \in 1 .. n_batch
      BY <2>2, ChunkType
    <3>. QED
      BY <3>1
  <2>4. m \notin UbatchEnds
    <3>1. SUFFICES ASSUME m \in 1 .. k, m % n_ubatch = 0, m # k PROVE FALSE
      BY <2>1, <2>2 DEF UbatchEnds
    <3>2. m \in 1 .. n_ubatch - 1
      BY <2>3, <3>1
    <3>3. m % n_ubatch = m
      BY <3>2
    <3>. QED
      BY <3>1, <3>2, <3>3
  <2>5. m = 0
    BY <2>1, <2>4
  <2>6. at \in Nat
    BY DEF TypeInv, BatchOk
  <2>7. at + 1 .. at + m = {}
    BY <2>5, <2>6
  <2>8. Placed(m) = cells
    BY <2>7, PlacedAre
  <2>. QED
    BY <2>1, <2>8
<1>6. CASE DecodeChunk
  <2>1. at' = at + ChunkSize /\ at < at + ChunkSize
    <3>1. at' = at + ChunkSize /\ ~(at + ChunkSize >= Len(batch))
      BY <1>3, <1>6 DEF DecodeChunk
    <3>2. ChunkSize \in Int /\ (ChunkSize = nb \/ ChunkSize = Len(batch) - at)
          /\ Len(batch) \in Nat /\ at \in Nat /\ nb \in 1 .. n_batch
      BY ChunkType
    <3>. QED
      BY <3>1, <3>2
  <2>2. at \in Nat /\ ChunkSize \in Int
    BY ChunkType
  <2>. QED
    BY <1>1, <2>1, <2>2
<1>. QED
  BY <1>2, <1>4, <1>5, <1>6

(* The same of a server whose batch is not larger than its ubatch.          *)
THEOREM WholeBatchTokensHaveCells ==
  ASSUME n_batch <= n_ubatch
  PROVE  Spec => [](Settled /\ NobodyFailed => OneCellPerToken)
<1>1. Init => RingInv
  BY InitRing
<1>2. RingInv /\ [Next]_vars => RingInv'
  <2>1. SUFFICES ASSUME RingInv, [Next]_vars PROVE RingInv'
    OBVIOUS
  <2>2. Settled => TypeInv
    BY <2>1 DEF RingInv
  <2>3. Settled => [RetryPlacesNothing]_vars
    BY <2>1, <2>2, WholeBatches
  <2>. QED
    BY <2>1, <2>3, NextRing
<1>3. RingInv => (Settled /\ NobodyFailed => OneCellPerToken)
  BY RingHolds
<1>. QED
  BY <1>1, <1>2, <1>3, PTL DEF Spec

(***************************************************************************)
(* A server with one slot.                                                 *)
(***************************************************************************)

(* A request fails only when a decode is given up.                          *)
LEMMA FailsOnlyByDecode ==
  ASSUME TypeInv, Cuttable, [Next]_vars, ~(pc = "decode" /\ DecodeNoRoom /\ UnwindFail), NobodyFailed
  PROVE  NobodyFailed'
<1>1. status \in [Request -> Statuses]
  BY DEF TypeInv, StatusOk
<1>2. ASSUME NEW r, NEW what, what # "failed", status' = [status EXCEPT ![r] = what] PROVE NobodyFailed'
  BY <1>1, <1>2 DEF NobodyFailed
<1>3. ASSUME status' = status \/ status' = requeued PROVE NobodyFailed'
  BY <1>3 DEF NobodyFailed, requeued
<1>4. ASSUME NEW S, NEW what, what # "failed", status' = Outcome(S, what) PROVE NobodyFailed'
  BY <1>4 DEF NobodyFailed, Outcome
<1>5. CASE \E r \in Request : Dispatch(r)
  <2>1. PICK r \in Request : Dispatch(r)
    BY <1>5
  <2>2. status' = [status EXCEPT ![r] = "deferred"] \/ status' = [status EXCEPT ![r] = "running"]
    BY <2>1 DEF Dispatch, NoSlotAvailable, defer, kv_unified_admit, Launch
  <2>. QED
    BY <1>2, <2>2
<1>6. CASE \E r \in Request : Cancel(r) \/ Arrive(r)
  <2>1. PICK r \in Request : Cancel(r) \/ Arrive(r)
    BY <1>6
  <2>2. status' = [status EXCEPT ![r] = "cancelled"] \/ status' = [status EXCEPT ![r] = "queued"]
    BY <2>1 DEF Cancel, Arrive
  <2>. QED
    BY <1>2, <2>2
<1>7. CASE \/ ReleaseSlots \/ Heartbeat \/ add_sampled_tokens \/ SkipSlot \/ AddPromptTokens
           \/ BatchDone \/ UNCHANGED vars
  BY <1>3, <1>7 DEF ReleaseSlots, Heartbeat, add_sampled_tokens, SkipSlot, AddPromptTokens, BatchDone, vars
<1>8. CASE context_shift
  <2>1. PICK V \in SUBSET IdleSlots, Y \in SUBSET Slot :
          ShiftStep(ReclaimedSlots(V), ReclaimedCells(V), Y)
    BY <1>8, ShiftFacts DEF TypeInv
  <2>2. status' = status \/ status' = Outcome(Y, "error")
    BY <2>1 DEF ShiftStep
  <2>. QED
    BY <1>3, <1>4, <2>2
<1>9. CASE FirstLook
  <2>1. \E r : status' = status \/ status' = [status EXCEPT ![r] = "error"]
    BY <1>9 DEF FirstLook
  <2>. QED
    BY <1>2, <1>3, <2>1
<1>10. CASE DecodeChunk \/ DecodeAborted
  <2>1. \E S : status' = Outcome(S, "answered") \/ status' = Outcome(S, "aborted")
    BY <1>10 DEF DecodeChunk, DecodeAborted
  <2>. QED
    BY <1>4, <2>1
<1>11. CASE DecodeNoRoom
  <2>1. status' = status
    BY <1>11 DEF DecodeNoRoom
  <2>. QED
    BY <1>3, <2>1
<1>. QED
  BY <1>5, <1>6, <1>7, <1>8, <1>9, <1>10, <1>11 DEF Next, MainLoop

(* One slot never holds the whole ring, so it always gets one cell more.    *)
LEMMA OneSlotRoom ==
  ASSUME n_parallel = 1, TypeInv, BatchInv, Exact, DecodeNoRoom
  PROVE  ~(pc = "decode" /\ UnwindFail)
<1>. SUFFICES ASSUME pc = "decode", UnwindFail PROVE FALSE
  OBVIOUS
<1>1. PICK k : k = ChunkSize
  OBVIOUS
<1>2. k \in Nat /\ k >= 1 /\ k <= nb
  BY <1>1, ChunkPositive, ChunkType
<1>3. PICK m \in ({0} \cup UbatchEnds) \ {ChunkSize} : NoRoomAfter(m)
  BY DEF DecodeNoRoom
<1>4. nb = 1
  <2>1. pc' = "loop"
    BY DEF UnwindFail, EndDecode
  <2>2. ~UNCHANGED pc
    BY <2>1
  <2>. QED
    BY <2>2 DEF DecodeNoRoom
<1>5. k = 1 /\ m = 0
  <2>1. k = 1
    BY <1>2, <1>4
  <2>2. UbatchEnds \subseteq {1}
    BY <1>1, <2>1 DEF UbatchEnds
  <2>. QED
    BY <1>1, <1>3, <2>1, <2>2
<1>6. ~CanPlace(1)
  <2>1. PICK u : u = Min({n_ubatch, k - m})
    OBVIOUS
  <2>2. PICK d : d = k - m
    OBVIOUS
  <2>3. d = 1
    BY <1>5, <2>2
  <2>4. Min({n_ubatch, d}) = IF n_ubatch <= d THEN n_ubatch ELSE d
    BY <2>3, MinTwo
  <2>5. u = 1
    BY <2>1, <2>2, <2>3, <2>4
  <2>6. ~CanPlace(m + u) \/ u > Contiguous
    BY <1>1, <1>3, <2>1 DEF NoRoomAfter
  <2>7. m + u = 1
    BY <1>5, <2>5
  <2>. QED
    BY <2>5, <2>6, <2>7
<1>7. Slot = {1} /\ 1 \in Slot
  BY DEF Slot
<1>8. PICK n, s : n = slots[1].cache /\ s = 1
  OBVIOUS
<1>9. n \in Nat /\ n < n_ctx
  BY <1>7, <1>8, CacheType
<1>10. PICK J : J = 0 .. n - 1
  OBVIOUS
<1>11. IsFiniteSet(J) /\ Cardinality(J) = n
  <2>1. PICK e : e = n - 1
    OBVIOUS
  <2>2. e \in Int /\ 0 \in Int
    BY <1>9, <2>1
  <2>3. IsFiniteSet(0 .. e) /\ Cardinality(0 .. e) = IF 0 > e THEN 0 ELSE e - 0 + 1
    BY <2>2, FS_Interval
  <2>. QED
    BY <1>9, <1>10, <2>1, <2>3
<1>12. PICK f : f = [p \in J |-> Cell(s, p)]
  OBVIOUS
<1>13. PICK T : T = {f[p] : p \in J}
  OBVIOUS
<1>14. IsFiniteSet(T) /\ Cardinality(T) <= n
  <2>1. f = [p \in J |-> f[p]]
    BY <1>12
  <2>. QED
    BY <1>11, <1>13, <2>1, ImageFewer
<1>15. cells \in SUBSET T
  <2>1. ASSUME NEW x \in cells PROVE x \in T
    <3>1. x \in CellRec /\ x.seq \in Slot
      BY CellsAre DEF CellRec
    <3>2. x \in CellsOf(cells, s)
      BY <1>7, <1>8, <3>1 DEF CellsOf
    <3>3. x.copy = 0 /\ x.pos < n /\ x.pos \in Nat /\ x.seq = s
      BY <1>7, <1>8, <3>2, CacheType DEF Exact
    <3>4. x = Cell(s, x.pos)
      BY <3>1, <3>3, CellIs
    <3>5. x.pos \in J
      BY <1>9, <1>10, <3>3
    <3>. QED
      BY <1>12, <1>13, <3>4, <3>5
  <2>. QED
    BY <2>1
<1>16. IsFiniteSet(cells) /\ Cardinality(cells) <= Cardinality(T)
  BY <1>14, <1>15, FS_Subset
<1>17. Cardinality(cells) \in Nat /\ Cardinality(T) \in Nat
  BY <1>14, <1>16, FS_CardinalityType
<1>18. CanPlace(1)
  BY <1>9, <1>14, <1>16, <1>17 DEF CanPlace
<1>. QED
  BY <1>6, <1>18

(* With one slot (--parallel 1) nobody fails for want of cells, and every   *)
(* token has its cell at all times: the context shift leaves one cell free  *)
(* for the next token (update_slots, process_batch_tokens).                 *)
THEOREM OneSlotNeverFails ==
  ASSUME n_parallel = 1, n_batch <= n_ubatch
  PROVE  Spec => [](Settled => OneCellPerToken /\ AdmittedNeverFails)
<1>. DEFINE I == RingInv /\ (Settled => NobodyFailed)
<1>1. Init => I
  BY InitRing DEF Init, NobodyFailed
<1>2. I /\ [Next]_vars => I'
  <2>1. SUFFICES ASSUME I, [Next]_vars PROVE I'
    OBVIOUS
  <2>2. Settled => TypeInv
    BY <2>1 DEF RingInv
  <2>3. RingInv'
    <3>1. Settled => [RetryPlacesNothing]_vars
      BY <2>1, <2>2, WholeBatches
    <3>. QED
      BY <2>1, <3>1, NextRing
  <2>4. ASSUME Settled' PROVE NobodyFailed'
    <3>1. Settled
      BY <2>1, <2>4, ParamsStay DEF Settled
    <3>2. TypeInv /\ TaskInv /\ BatchInv /\ NobodyFailed /\ Exact
      BY <2>1, <3>1 DEF RingInv
    <3>3. Cuttable
      BY <3>1, <3>2, SettledNoCut DEF NoCut, Cuttable
    <3>4. ~(pc = "decode" /\ DecodeNoRoom /\ UnwindFail)
      BY <3>2, OneSlotRoom
    <3>. QED
      BY <2>1, <3>2, <3>3, <3>4, FailsOnlyByDecode
  <2>. QED
    BY <2>3, <2>4
<1>3. I => (Settled => OneCellPerToken /\ AdmittedNeverFails)
  BY RingHolds DEF NobodyFailed, AdmittedNeverFails
<1>. HIDE DEF I
<1>. QED
  BY <1>1, <1>2, <1>3, PTL DEF Spec

=============================================================================
