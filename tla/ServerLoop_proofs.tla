------------------------- MODULE ServerLoop_proofs --------------------------
(* Proofs about ServerLoop, for any number of tasks, clients and slots.     *)
EXTENDS ServerLoop, FiniteSetTheorems, TLAPS

(***************************************************************************)
(* What the queue operations do to the ids and the answers in a queue.     *)
(***************************************************************************)
(* push_back adds the id of the entry, and keeps ids unique when it is new. *)
LEMMA AppendEntry ==
  ASSUME NEW q \in Seq(Entry), NEW e \in Entry
  PROVE  /\ Append(q, e) \in Seq(Entry)
         /\ Ids(Append(q, e)) = Ids(q) \cup {e.id}
         /\ Targets(Append(q, e)) = Targets(q) \cup {e.id_target}
         /\ Once(q) /\ (e.id \in Ids(q) => e.id = NoTask) => Once(Append(q, e))
<1>1. Append(q, e) \in Seq(Entry)
  OBVIOUS
<1>2. /\ DOMAIN Append(q, e) = 1..(Len(q) + 1)
      /\ DOMAIN q = 1..Len(q)
      /\ Len(q) \in Nat
      /\ \A i \in 1..Len(q) : Append(q, e)[i] = q[i]
      /\ Append(q, e)[Len(q) + 1] = e
  OBVIOUS
<1>3. Ids(Append(q, e)) = Ids(q) \cup {e.id}
  BY <1>2 DEF Ids
<1>4. Targets(Append(q, e)) = Targets(q) \cup {e.id_target}
  BY <1>2 DEF Targets
<1>5. ASSUME Once(q), e.id \in Ids(q) => e.id = NoTask
      PROVE  Once(Append(q, e))
  BY <1>2, <1>5 DEF Once, Ids
<1>. QED
  BY <1>1, <1>3, <1>4, <1>5

(* pop_front takes the entry and its id out.                                *)
LEMMA PopEntry ==
  ASSUME NEW q \in Seq(Entry), q # <<>>
  PROVE  /\ Head(q) \in Entry
         /\ Tail(q) \in Seq(Entry)
         /\ Ids(q) = {Head(q).id} \cup Ids(Tail(q))
         /\ Targets(q) = {Head(q).id_target} \cup Targets(Tail(q))
         /\ Once(q) => Once(Tail(q)) /\ (Head(q).id \in Ids(Tail(q)) => Head(q).id = NoTask)
<1>1. Head(q) \in Entry /\ Tail(q) \in Seq(Entry)
  OBVIOUS
<1>2. /\ DOMAIN q = 1..Len(q) /\ Len(q) \in Nat /\ Len(q) >= 1
      /\ DOMAIN Tail(q) = 1..(Len(q) - 1)
      /\ Head(q) = q[1]
      /\ \A i \in 1..(Len(q) - 1) : Tail(q)[i] = q[i + 1]
  OBVIOUS
<1>3. \A i \in DOMAIN q : i = 1 \/ (i - 1 \in 1..(Len(q) - 1) /\ q[i] = Tail(q)[i - 1])
  BY <1>2
<1>4. Ids(q) = {Head(q).id} \cup Ids(Tail(q))
  BY <1>2, <1>3, SMTT(30) DEF Ids
<1>5. Targets(q) = {Head(q).id_target} \cup Targets(Tail(q))
  BY <1>2, <1>3, SMTT(30) DEF Targets
<1>6. ASSUME Once(q)
      PROVE  Once(Tail(q)) /\ (Head(q).id \in Ids(Tail(q)) => Head(q).id = NoTask)
  <2>1. ASSUME NEW i \in DOMAIN Tail(q), NEW j \in DOMAIN Tail(q),
               Tail(q)[i].id = Tail(q)[j].id, Tail(q)[i].id # NoTask
        PROVE  i = j
    <3>1. i + 1 \in DOMAIN q /\ j + 1 \in DOMAIN q /\ i + 1 = j + 1 => i = j
      BY <1>2
    <3>. QED
      BY <1>2, <1>6, <2>1, <3>1 DEF Once
  <2>2. ASSUME NEW i \in DOMAIN Tail(q), Tail(q)[i].id = Head(q).id
        PROVE  Head(q).id = NoTask
    BY <1>2, <1>6, <2>2 DEF Once
  <2>. QED
    BY <2>1, <2>2 DEF Once, Ids
<1>. QED
  BY <1>1, <1>4, <1>5, <1>6

(* Moving the deferred tasks behind the queue keeps every id, once.         *)
LEMMA ConcatEntries ==
  ASSUME NEW q \in Seq(Entry), NEW r \in Seq(Entry)
  PROVE  /\ q \o r \in Seq(Entry)
         /\ Ids(q \o r) = Ids(q) \cup Ids(r)
         /\ Targets(q \o r) = Targets(q) \cup Targets(r)
         /\ Once(q) /\ Once(r) /\ (\A t \in Ids(q) \cap Ids(r) : t = NoTask) => Once(q \o r)
<1>1. q \o r \in Seq(Entry)
  OBVIOUS
<1>2. /\ DOMAIN (q \o r) = 1..(Len(q) + Len(r))
      /\ DOMAIN q = 1..Len(q) /\ DOMAIN r = 1..Len(r)
      /\ Len(q) \in Nat /\ Len(r) \in Nat
      /\ \A i \in 1..Len(q) : (q \o r)[i] = q[i]
      /\ \A i \in (Len(q) + 1)..(Len(q) + Len(r)) : (q \o r)[i] = r[i - Len(q)]
  OBVIOUS
<1>3. \A i \in DOMAIN (q \o r) :
        \/ i \in DOMAIN q /\ (q \o r)[i] = q[i]
        \/ i - Len(q) \in DOMAIN r /\ (q \o r)[i] = r[i - Len(q)]
  BY <1>2
<1>4. \A i \in DOMAIN r : i + Len(q) \in DOMAIN (q \o r) /\ (q \o r)[i + Len(q)] = r[i]
  BY <1>2
<1>5. \A i \in DOMAIN q : i \in DOMAIN (q \o r) /\ (q \o r)[i] = q[i]
  BY <1>2
<1>. DEFINE both == q \o r
<1>. HIDE DEF both
<1>6. Ids(both) = Ids(q) \cup Ids(r)
  <2>1. Ids(both) \subseteq Ids(q) \cup Ids(r)
    BY <1>3, Zenon DEF Ids, both
  <2>2. Ids(q) \subseteq Ids(both)
    BY <1>5, Zenon DEF Ids, both
  <2>3. Ids(r) \subseteq Ids(both)
    BY <1>4, Zenon DEF Ids, both
  <2>. QED
    BY <2>1, <2>2, <2>3
<1>7. Targets(both) = Targets(q) \cup Targets(r)
  <2>1. Targets(both) \subseteq Targets(q) \cup Targets(r)
    BY <1>3, Zenon DEF Targets, both
  <2>2. Targets(q) \subseteq Targets(both)
    BY <1>5, Zenon DEF Targets, both
  <2>3. Targets(r) \subseteq Targets(both)
    BY <1>4, Zenon DEF Targets, both
  <2>. QED
    BY <2>1, <2>2, <2>3
<1>8. ASSUME Once(q), Once(r), \A t \in Ids(q) \cap Ids(r) : t = NoTask
      PROVE  Once(q \o r)
  <2>. SUFFICES ASSUME NEW i \in DOMAIN (q \o r), NEW j \in DOMAIN (q \o r),
                       (q \o r)[i].id = (q \o r)[j].id, (q \o r)[i].id # NoTask
                PROVE  i = j
    BY DEF Once
  <2>1. \A k \in DOMAIN q, l \in DOMAIN r : q[k].id = r[l].id => q[k].id = NoTask
    BY <1>8 DEF Ids
  <2>2. i - Len(q) = j - Len(q) => i = j
    BY <1>2
  <2>3. CASE i \in DOMAIN q /\ (q \o r)[i] = q[i] /\ j \in DOMAIN q /\ (q \o r)[j] = q[j]
    BY <1>8, <2>3 DEF Once
  <2>4. CASE /\ i - Len(q) \in DOMAIN r /\ (q \o r)[i] = r[i - Len(q)]
             /\ j - Len(q) \in DOMAIN r /\ (q \o r)[j] = r[j - Len(q)]
    BY <1>8, <2>2, <2>4 DEF Once
  <2>. QED
    BY <1>3, <2>1, <2>3, <2>4
<1>. QED
  BY <1>1, <1>6, <1>7, <1>8 DEF both

(* erase at an index shifts what comes after it.                            *)
LEMMA EraseAt ==
  ASSUME NEW S, NEW q \in Seq(S), NEW n \in DOMAIN q
  PROVE  /\ RemoveAt(q, n) \in Seq(S)
         /\ DOMAIN q = 1..Len(q) /\ Len(q) \in Nat
         /\ DOMAIN RemoveAt(q, n) = 1..(Len(q) - 1)
         /\ \A i \in 1..(n - 1) : RemoveAt(q, n)[i] = q[i]
         /\ \A i \in n..(Len(q) - 1) : RemoveAt(q, n)[i] = q[i + 1]
         /\ \A i \in (n + 1)..Len(q) : RemoveAt(q, n)[i - 1] = q[i]
<1>. DEFINE a == SubSeq(q, 1, n - 1)
            b == SubSeq(q, n + 1, Len(q))
<1>1. DOMAIN q = 1..Len(q) /\ Len(q) \in Nat /\ n \in 1..Len(q)
  OBVIOUS
<1>2. /\ a \in Seq(S) /\ Len(a) = n - 1
      /\ \A i \in 1..(n - 1) : a[i] = q[i]
  BY <1>1
<1>3. b \in Seq(S) /\ Len(b) = Len(q) - n
  BY <1>1
<1>4. \A i \in 1..(Len(q) - n) : b[i] = q[n + i]
  BY <1>1
<1>5. RemoveAt(q, n) = a \o b
  BY DEF RemoveAt
<1>. HIDE DEF a, b
<1>6. /\ a \o b \in Seq(S) /\ Len(a \o b) = Len(q) - 1
      /\ DOMAIN (a \o b) = 1..(Len(q) - 1)
  <2>1. /\ a \o b \in Seq(S) /\ Len(a \o b) = Len(a) + Len(b)
        /\ DOMAIN (a \o b) = 1..(Len(a) + Len(b))
    BY <1>2, <1>3
  <2>2. (n - 1) + (Len(q) - n) = Len(q) - 1
    BY <1>1
  <2>. QED
    BY <1>2, <1>3, <2>1, <2>2
<1>7. \A i \in 1..(n - 1) : (a \o b)[i] = q[i]
  BY <1>1, <1>2, <1>3
<1>8. \A i \in n..(Len(q) - 1) : (a \o b)[i] = b[i - (n - 1)]
  BY <1>1, <1>2, <1>3
<1>9. \A i \in n..(Len(q) - 1) : (a \o b)[i] = q[i + 1]
  <2>. TAKE i \in n..(Len(q) - 1)
  <2>1. i - (n - 1) \in 1..(Len(q) - n) /\ n + (i - (n - 1)) = i + 1
    BY <1>1
  <2>. QED
    BY <1>4, <1>8, <2>1
<1>10. \A i \in (n + 1)..Len(q) : (a \o b)[i - 1] = q[i]
  <2>. TAKE i \in (n + 1)..Len(q)
  <2>1. i - 1 \in n..(Len(q) - 1) /\ (i - 1) + 1 = i
    BY <1>1
  <2>. QED
    BY <1>9, <2>1
<1>. QED
  BY <1>1, <1>5, <1>6, <1>7, <1>9, <1>10

(* cleanup_pending_task takes out the entry with the id, and only that one. *)
LEMMA CleanupEntry ==
  ASSUME NEW q \in Seq(Entry), NEW t \in Task, Once(q)
  PROVE  /\ cleanup_pending_task(q, t) \in Seq(Entry)
         /\ Ids(cleanup_pending_task(q, t)) = Ids(q) \ {t}
         /\ Targets(cleanup_pending_task(q, t)) \subseteq Targets(q)
         /\ Once(cleanup_pending_task(q, t))
<1>. DEFINE n == CHOOSE i \in DOMAIN q : q[i].id = t
            r == RemoveAt(q, n)
<1>1. CASE ~(\E i \in DOMAIN q : q[i].id = t)
  BY <1>1 DEF cleanup_pending_task, Ids
<1>2. CASE \E i \in DOMAIN q : q[i].id = t
  <2>1. n \in DOMAIN q /\ q[n].id = t
    BY <1>2
  <2>2. cleanup_pending_task(q, t) = r
    BY <1>2 DEF cleanup_pending_task
  <2>. HIDE DEF n
  <2>3. /\ r \in Seq(Entry)
        /\ DOMAIN q = 1..Len(q) /\ Len(q) \in Nat
        /\ DOMAIN r = 1..(Len(q) - 1)
        /\ \A i \in 1..(n - 1) : r[i] = q[i]
        /\ \A i \in n..(Len(q) - 1) : r[i] = q[i + 1]
        /\ \A i \in (n + 1)..Len(q) : r[i - 1] = q[i]
    BY <2>1, EraseAt
  <2>. HIDE DEF r
  <2>4. \A i \in DOMAIN q : i # n => q[i].id # t
    BY <2>1, TaskAssumption DEF Once
  (* Where the entries of r come from, and where those of q go.             *)
  <2>. DEFINE from(i) == IF i < n THEN i ELSE i + 1
              to(i)   == IF i < n THEN i ELSE i - 1
  <2>5. \A i \in DOMAIN r : from(i) \in DOMAIN q /\ from(i) # n /\ r[i] = q[from(i)]
    BY <2>1, <2>3
  <2>6. \A i \in DOMAIN q : i # n => to(i) \in DOMAIN r /\ r[to(i)] = q[i]
    BY <2>1, <2>3
  <2>7. \A i, j \in DOMAIN r : from(i) = from(j) => i = j
    BY <2>1, <2>3
  <2>. HIDE DEF from, to
  <2>8. Ids(r) = Ids(q) \ {t}
    <3>1. Ids(r) \subseteq Ids(q) \ {t}
      BY <2>4, <2>5, Zenon DEF Ids
    <3>2. Ids(q) \ {t} \subseteq Ids(r)
      BY <2>1, <2>6, Zenon DEF Ids
    <3>. QED
      BY <3>1, <3>2
  <2>9. Targets(r) \subseteq Targets(q)
    BY <2>5, Zenon DEF Targets
  <2>10. Once(r)
    <3>. SUFFICES ASSUME NEW i \in DOMAIN r, NEW j \in DOMAIN r,
                         r[i].id = r[j].id, r[i].id # NoTask
                  PROVE  i = j
      BY DEF Once
    <3>1. from(i) = from(j)
      BY <2>5 DEF Once
    <3>. QED
      BY <2>7, <3>1
  <2>. QED
    BY <2>2, <2>3, <2>8, <2>9, <2>10
<1>. QED
  BY <1>1, <1>2

(* push_front of a CANCEL adds its target and no id.                        *)
LEMMA PushCancel ==
  ASSUME NEW q \in Seq(Entry), NEW t \in Task, Once(q)
  PROVE  /\ <<Cancel(t)>> \o q \in Seq(Entry)
         /\ Ids(<<Cancel(t)>> \o q) = Ids(q) \cup {NoTask}
         /\ Targets(<<Cancel(t)>> \o q) = Targets(q) \cup {t}
         /\ Once(<<Cancel(t)>> \o q)
<1>. DEFINE one == <<Cancel(t)>>
<1>1. Cancel(t) \in Entry /\ Cancel(t).id = NoTask /\ Cancel(t).id_target = t
  BY DEF Cancel, Entry
<1>2. one \in Seq(Entry) /\ DOMAIN one = {1} /\ one[1] = Cancel(t)
  BY <1>1
<1>. HIDE DEF one
<1>3. Ids(one) = {NoTask} /\ Targets(one) = {t} /\ Once(one)
  BY <1>1, <1>2 DEF Ids, Targets, Once
<1>4. /\ one \o q \in Seq(Entry)
      /\ Ids(one \o q) = Ids(one) \cup Ids(q)
      /\ Targets(one \o q) = Targets(one) \cup Targets(q)
      /\ Once(one \o q)
  BY <1>2, <1>3, ConcatEntries
<1>. QED
  BY <1>3, <1>4 DEF one

(* An empty queue holds no id.                                              *)
LEMMA EmptyQueue ==
  <<>> \in Seq(Entry) /\ Ids(<<>>) = {} /\ Targets(<<>>) = {} /\ Once(<<>>)
BY DEF Ids, Targets, Once

(* send adds the result of a task somebody waits for, and takes none away.  *)
LEMMA SendResult ==
  ASSUME NEW q \in Seq(Result), NEW W \in SUBSET Task, NEW t,
         NEW kind \in {"partial", "final", "error"}
  PROVE  /\ send(q, W, t, kind) \in Seq(Result)
         /\ \A u : Answered(q, u) => Answered(send(q, W, t, kind), u)
         /\ t \in W /\ kind # "partial" => Answered(send(q, W, t, kind), t)
<1>1. CASE t \notin W
  BY <1>1 DEF send
<1>2. CASE t \in W
  <2>. DEFINE e == [id |-> t, kind |-> kind]
              r == Append(q, e)
  <2>1. e \in Result /\ e.id = t /\ e.kind = kind
    BY <1>2 DEF Result
  <2>. HIDE DEF e
  <2>2. /\ r \in Seq(Result) /\ DOMAIN q = 1..Len(q) /\ DOMAIN r = 1..(Len(q) + 1)
        /\ Len(q) \in Nat
        /\ \A i \in 1..Len(q) : r[i] = q[i]
        /\ r[Len(q) + 1] = e
    BY <2>1
  <2>3. send(q, W, t, kind) = r
    BY <1>2 DEF send, e
  <2>. HIDE DEF r
  <2>4. ASSUME NEW u, Answered(q, u)
        PROVE  Answered(r, u)
    BY <2>2, <2>4 DEF Answered
  <2>5. kind # "partial" => Answered(r, t)
    BY <2>1, <2>2 DEF Answered
  <2>. QED
    BY <2>2, <2>3, <2>4, <2>5
<1>. QED
  BY <1>1, <1>2

(* Taking one result out leaves every other task's results.                 *)
LEMMA TakeResult ==
  ASSUME NEW q \in Seq(Result), NEW n \in DOMAIN q
  PROVE  /\ RemoveAt(q, n) \in Seq(Result)
         /\ \A u : Answered(q, u) /\ (q[n].id = u => q[n].kind = "partial")
                  => Answered(RemoveAt(q, n), u)
<1>. DEFINE r == RemoveAt(q, n)
<1>1. /\ r \in Seq(Result)
      /\ DOMAIN q = 1..Len(q) /\ Len(q) \in Nat
      /\ DOMAIN r = 1..(Len(q) - 1)
      /\ \A i \in 1..(n - 1) : r[i] = q[i]
      /\ \A i \in (n + 1)..Len(q) : r[i - 1] = q[i]
  BY EraseAt
<1>. HIDE DEF r
<1>. DEFINE to(i) == IF i < n THEN i ELSE i - 1
<1>2. \A i \in DOMAIN q : i # n => to(i) \in DOMAIN r /\ r[to(i)] = q[i]
  BY <1>1
<1>. HIDE DEF to
<1>3. ASSUME NEW u, Answered(q, u), q[n].id = u => q[n].kind = "partial"
      PROVE  Answered(r, u)
  BY <1>2, <1>3 DEF Answered
<1>. QED
  BY <1>1, <1>3 DEF r

(* A task has at most one final or error result in the queue.               *)
AnsweredOnce(q) ==
  \A i, j \in DOMAIN q :
    q[i].id = q[j].id /\ q[i].kind # "partial" /\ q[j].kind # "partial" => i = j

(* send adds no result but the one it is given.                             *)
LEMMA SendExact ==
  ASSUME NEW q \in Seq(Result), NEW W \in SUBSET Task, NEW t,
         NEW kind \in {"partial", "final", "error"}
  PROVE  /\ \A u : Answered(send(q, W, t, kind), u) =>
                   Answered(q, u) \/ (u = t /\ t \in W /\ kind # "partial")
         /\ AnsweredOnce(q) /\ (kind = "partial" \/ ~Answered(q, t)) =>
              AnsweredOnce(send(q, W, t, kind))
<1>. DEFINE r == send(q, W, t, kind)
<1>. SUFFICES
       /\ \A u : Answered(r, u) => Answered(q, u) \/ (u = t /\ t \in W /\ kind # "partial")
       /\ AnsweredOnce(q) /\ (kind = "partial" \/ ~Answered(q, t)) => AnsweredOnce(r)
  OBVIOUS
<1>1. CASE t \notin W
  BY <1>1 DEF send
<1>2. CASE t \in W
  <2>. DEFINE e == [id |-> t, kind |-> kind]
  <2>1. e \in Result /\ e.id = t /\ e.kind = kind
    BY <1>2 DEF Result
  <2>2. r = Append(q, e)
    BY <1>2 DEF send
  <2>. HIDE DEF e, r
  <2>3. /\ DOMAIN q = 1..Len(q) /\ DOMAIN r = 1..(Len(q) + 1) /\ Len(q) \in Nat
        /\ \A i \in 1..Len(q) : r[i] = q[i]
        /\ r[Len(q) + 1] = e
    BY <2>1, <2>2
  <2>4. \A i \in DOMAIN r : (i \in DOMAIN q /\ r[i] = q[i]) \/ (i = Len(q) + 1 /\ r[i] = e)
    BY <2>3
  <2>5. ASSUME NEW u, Answered(r, u)
        PROVE  Answered(q, u) \/ (u = t /\ kind # "partial")
    BY <2>1, <2>4, <2>5 DEF Answered
  <2>6. ASSUME AnsweredOnce(q), kind = "partial" \/ ~Answered(q, t)
        PROVE  AnsweredOnce(r)
    BY <2>1, <2>4, <2>6 DEF AnsweredOnce, Answered
  <2>. QED
    BY <1>2, <2>1, <2>4, <2>5, <2>6
<1>. QED
  BY <1>1, <1>2

(* A queue of final results stays one.                                      *)
FinalOnly(q) == \A i \in DOMAIN q : q[i].kind = "final"

LEMMA SendFinal ==
  ASSUME NEW q \in Seq(Result), NEW W \in SUBSET Task, NEW t, FinalOnly(q)
  PROVE  FinalOnly(send(q, W, t, "final"))
<1>. DEFINE e == [id |-> t, kind |-> "final"]
<1>1. CASE t \notin W
  BY <1>1 DEF send
<1>2. CASE t \in W
  <2>1. send(q, W, t, "final") = Append(q, e)
    BY <1>2 DEF send
  <2>2. e \in Result /\ e.kind = "final"
    BY <1>2 DEF Result
  <2>. HIDE DEF e
  <2>3. FinalOnly(Append(q, e))
    BY <2>2 DEF FinalOnly
  <2>. QED
    BY <2>1, <2>3
<1>. QED
  BY <1>1, <1>2

(* Taking a result out adds none, and takes the only final one of its task. *)
LEMMA TakeExact ==
  ASSUME NEW q \in Seq(Result), NEW n \in DOMAIN q, NEW r, r = RemoveAt(q, n)
  PROVE  /\ \A u : Answered(r, u) => Answered(q, u)
         /\ AnsweredOnce(q) => AnsweredOnce(r)
         /\ AnsweredOnce(q) /\ q[n].kind # "partial" => ~Answered(r, q[n].id)
         /\ FinalOnly(q) => FinalOnly(r)
<1>1. /\ DOMAIN q = 1..Len(q) /\ Len(q) \in Nat
      /\ DOMAIN r = 1..(Len(q) - 1)
      /\ \A i \in 1..(n - 1) : r[i] = q[i]
      /\ \A i \in n..(Len(q) - 1) : r[i] = q[i + 1]
  BY EraseAt
<1>. DEFINE from(i) == IF i < n THEN i ELSE i + 1
<1>2. \A i \in DOMAIN r : from(i) \in DOMAIN q /\ from(i) # n /\ r[i] = q[from(i)]
  BY <1>1
<1>3. \A i, j \in DOMAIN r : from(i) = from(j) => i = j
  BY <1>1
<1>. HIDE DEF from
<1>4. \A u : Answered(r, u) => Answered(q, u)
  BY <1>2 DEF Answered
<1>5. ASSUME AnsweredOnce(q)
      PROVE  AnsweredOnce(r)
  <2>. SUFFICES ASSUME NEW i \in DOMAIN r, NEW j \in DOMAIN r, r[i].id = r[j].id,
                       r[i].kind # "partial", r[j].kind # "partial"
                PROVE  i = j
    BY DEF AnsweredOnce
  <2>1. from(i) = from(j)
    BY <1>2, <1>5 DEF AnsweredOnce
  <2>. QED
    BY <1>3, <2>1
<1>6. ASSUME AnsweredOnce(q), q[n].kind # "partial"
      PROVE  ~Answered(r, q[n].id)
  BY <1>2, <1>6 DEF AnsweredOnce, Answered
<1>7. FinalOnly(q) => FinalOnly(r)
  BY <1>2 DEF FinalOnly
<1>. QED
  BY <1>4, <1>5, <1>6, <1>7

(***************************************************************************)
(* The types of ServerLoop and the slot invariant.                         *)
(***************************************************************************)
USE TaskAssumption, ConstantsAssumption

(* The sends of a handler keep the result queues well-formed.               *)
LEMMA SendTypes ==
  ASSUME TypeOK, NEW t,
         send_error(t) \/ send_final_response(t) \/ send_partial_response(t) \/ send_legacy(t)
  PROVE  /\ queue_results' \in Seq(Result) /\ queue_results_legacy' \in Seq(Result)
         /\ waiting_task_ids' = waiting_task_ids
         /\ n_terminal' \in [Task -> Nat]
<1>1. Terminal(t) \in [Task -> Nat] /\ n_terminal \in [Task -> Nat]
  BY DEF TypeOK, ResultTypes, Terminal
<1>2. /\ queue_results \in Seq(Result) /\ queue_results_legacy \in Seq(Result)
      /\ waiting_task_ids \in SUBSET Task
  BY DEF TypeOK, ResultTypes
<1>3. \A kind \in {"partial", "final", "error"} :
        /\ send(queue_results, waiting_task_ids, t, kind) \in Seq(Result)
        /\ send(queue_results_legacy, waiting_task_ids, t, kind) \in Seq(Result)
  BY <1>2, SendResult
<1>. QED
  BY <1>1, <1>2, <1>3
  DEF send_error, send_final_response, send_partial_response, send_legacy

(* What a slot record looks like after each of the assignments to it.       *)
LEMMA SlotRecords ==
  ASSUME NEW slot \in SlotState, NEW t \in Task
  PROVE  /\ ReleasedSlot(slot) \in SlotState
         /\ ReleasedSlot(slot).task = NoTask /\ ~is_processing(ReleasedSlot(slot))
         /\ ReleasedSlot(slot).state = "IDLE"
         /\ ResetFor(slot, t) \in SlotState
         /\ ResetFor(slot, t).task = slot.task
         /\ is_processing(ResetFor(slot, t)) <=> is_processing(slot)
         /\ ResetFor(slot, t).state = slot.state /\ ResetFor(slot, t).command = slot.command
         /\ ResetFor(slot, t).id_task = t
<1>1. 0 \in 0..MaxPrompt /\ 0 \in 0..MaxDecoded
  OBVIOUS
<1>2. ReleasedSlot(slot) \in SlotState
  BY DEF ReleasedSlot, SlotState
<1>3. /\ ReleasedSlot(slot).task = NoTask
      /\ ReleasedSlot(slot).state = "IDLE" /\ ReleasedSlot(slot).command = "RELEASE"
  BY DEF ReleasedSlot, SlotState
<1>4. ~is_processing(ReleasedSlot(slot))
  BY <1>3 DEF is_processing
<1>5. ResetFor(slot, t) \in SlotState
  BY <1>1 DEF ResetFor, SlotState
<1>6. /\ ResetFor(slot, t).task = slot.task /\ ResetFor(slot, t).id_task = t
      /\ ResetFor(slot, t).state = slot.state /\ ResetFor(slot, t).command = slot.command
  BY DEF ResetFor, SlotState
<1>. QED
  BY <1>2, <1>3, <1>4, <1>5, <1>6 DEF is_processing

(* The entries that are made are entries.                                   *)
LEMMA Entries ==
  /\ NextResponse \in Entry /\ NextResponse.id = NoTask /\ NextResponse.id_target = NoTask
  /\ \A t \in Task : /\ Work(t) \in Entry /\ Work(t).id = t /\ Work(t).id_target = NoTask
                     /\ Cancel(t) \in Entry /\ Cancel(t).id = NoTask /\ Cancel(t).id_target = t
  /\ \A e \in Entry : /\ e.type \in {"WORK", "CANCEL", "NEXT_RESPONSE"}
                      /\ e.type = "WORK" => e.id \in Task /\ e.id_target = NoTask
                      /\ e.type = "CANCEL" => e.id = NoTask /\ e.id_target \in Task
                      /\ e.type = "NEXT_RESPONSE" => e.id = NoTask /\ e.id_target = NoTask
BY DEF NextResponse, Work, Cancel, Entry

(* The same for a launch, and for a decoded part of the prompt or token.    *)
LEMMA SlotSteps ==
  ASSUME NEW slot \in SlotState, NEW t \in Task
  PROVE  /\ LaunchedSlot(slot, t) \in SlotState
         /\ LaunchedSlot(slot, t).task = t /\ LaunchedSlot(slot, t).id_task = t
         /\ slot.state = "IDLE" => /\ is_processing(LaunchedSlot(slot, t))
                                   /\ LaunchedSlot(slot, t).state = "IDLE"
         /\ slot.n_past < MaxPrompt => /\ PromptSlot(slot) \in SlotState
                                       /\ PromptSlot(slot).task = slot.task
                                       /\ PromptSlot(slot).id_task = slot.id_task
                                       /\ PromptSlot(slot).state = slot.state
                                       /\ PromptSlot(slot).command = slot.command
                                       /\ is_processing(PromptSlot(slot)) <=> is_processing(slot)
         /\ slot.n_decoded < MaxDecoded => /\ TokenSlot(slot) \in SlotState
                                           /\ TokenSlot(slot).task = slot.task
                                           /\ TokenSlot(slot).id_task = slot.id_task
                                           /\ is_processing(TokenSlot(slot))
                                           /\ TokenSlot(slot).command = "NONE"
<1>. DEFINE reset == ResetFor(slot, t)
<1>0. reset \in SlotState /\ reset.id_task = t /\ reset.state = slot.state
  BY SlotRecords
<1>. HIDE DEF reset
<1>1. LaunchedSlot(slot, t) \in SlotState
  BY <1>0 DEF LaunchedSlot, SlotState, reset
<1>2. /\ LaunchedSlot(slot, t).task = t /\ LaunchedSlot(slot, t).id_task = t
      /\ LaunchedSlot(slot, t).state = slot.state
      /\ LaunchedSlot(slot, t).command = "LOAD_PROMPT"
  BY <1>0 DEF LaunchedSlot, SlotState, reset
<1>3. ASSUME slot.n_past < MaxPrompt
      PROVE  PromptSlot(slot) \in SlotState
  <2>1. slot.n_past + 1 \in 0..MaxPrompt
    BY <1>3 DEF SlotState
  <2>. QED
    BY <2>1 DEF PromptSlot, SlotState
<1>4. /\ PromptSlot(slot).task = slot.task /\ PromptSlot(slot).id_task = slot.id_task
      /\ PromptSlot(slot).state = slot.state /\ PromptSlot(slot).command = slot.command
  BY DEF PromptSlot, SlotState
<1>5. ASSUME slot.n_decoded < MaxDecoded
      PROVE  TokenSlot(slot) \in SlotState
  <2>1. slot.n_decoded + 1 \in 0..MaxDecoded
    BY <1>5 DEF SlotState
  <2>. QED
    BY <2>1 DEF TokenSlot, SlotState
<1>6. /\ TokenSlot(slot).task = slot.task /\ TokenSlot(slot).id_task = slot.id_task
      /\ TokenSlot(slot).state = "PROCESSING" /\ TokenSlot(slot).command = "NONE"
  BY DEF TokenSlot, SlotState
<1>. QED
  BY <1>1, <1>2, <1>3, <1>4, <1>5, <1>6 DEF is_processing

(* Part 1 of the invariant, and why it is inductive: slots are taken only   *)
(* when they are available, and given up only together with their task.     *)
SlotInv == TypeOK /\ SlotsOK

(* A step that gives one slot a well-formed value keeps the others.         *)
LEMMA OneSlot ==
  ASSUME SlotInv, NEW s \in Slot, NEW r \in SlotState, slots' = [slots EXCEPT ![s] = r]
  PROVE  /\ slots' \in [Slot -> SlotState]
         /\ slots'[s] = r
         /\ \A u \in Slot : u # s => slots'[u] = slots[u]
BY DEF SlotInv, TypeOK, LoopTypes

(* What release leaves of a slot.                                           *)
LEMMA Released ==
  ASSUME NEW slot \in SlotState
  PROVE  /\ ReleasedSlot(slot) \in SlotState /\ ReleasedSlot(slot).task = NoTask
         /\ ~is_processing(ReleasedSlot(slot)) /\ ReleasedSlot(slot).state = "IDLE"
BY DEF ReleasedSlot, SlotState, is_processing

(* release and DoneWith, with which handlers give up slots.                 *)
LEMMA ReleaseStep ==
  ASSUME SlotInv, NEW s \in Slot, release(s)
  PROVE  /\ slots' \in [Slot -> SlotState] /\ stop_internal_decode' \in BOOLEAN
         /\ slots'[s].task = NoTask /\ ~is_processing(slots'[s])
         /\ slots'[s].command # "NONE" => slots'[s].state = "IDLE"
         /\ \A u \in Slot : u # s => slots'[u] = slots[u]
<1>1. slots[s] \in SlotState
  BY DEF SlotInv, TypeOK, LoopTypes
<1>2. CASE is_processing(slots[s])
  <2>1. slots' = [slots EXCEPT ![s] = ReleasedSlot(slots[s])] /\ stop_internal_decode' = FALSE
    BY <1>2 DEF release
  <2>2. /\ ReleasedSlot(slots[s]) \in SlotState /\ ReleasedSlot(slots[s]).task = NoTask
        /\ ~is_processing(ReleasedSlot(slots[s])) /\ ReleasedSlot(slots[s]).state = "IDLE"
    BY <1>1, Released
  <2>. HIDE DEF ReleasedSlot
  <2>. QED
    BY <2>1, <2>2, OneSlot
<1>3. CASE ~is_processing(slots[s])
  BY <1>1, <1>3 DEF release, SlotInv, SlotsOK, TypeOK, LoopTypes
<1>. QED
  BY <1>2, <1>3

(* DoneWith takes a slot off the batch: the slots that stay in it are the   *)
(* ones whose records did not change, and the loop leaves the batch with the*)
(* last of them.                                                            *)
LEMMA DoneStep ==
  ASSUME SlotInv, NEW s \in todo, DoneWith(s),
         loop \in {"decode", "unwind_cancel", "unwind_fail"},
         slots' \in [Slot -> SlotState], stop_internal_decode' \in BOOLEAN, ResultTypes',
         slots'[s].task # NoTask <=> is_processing(slots'[s]),
         slots'[s].task # NoTask => slots'[s].id_task = slots'[s].task,
         slots'[s].command # "NONE" => slots'[s].state = "IDLE",
         \A u \in Slot : u # s => slots'[u] = slots[u]
  PROVE  SlotInv'
<1>1. /\ todo' = todo \ {s} /\ loop' = (IF todo = {s} THEN "wait" ELSE loop)
      /\ hand' = hand /\ UNCHANGED queueVars /\ UNCHANGED clientVars
  BY DEF DoneWith
<1>2. todo \subseteq Slot /\ hand = NextResponse /\ hand \in Entry
  BY DEF SlotInv, TypeOK, LoopTypes
<1>3. /\ loop' \in LoopState /\ todo' \in SUBSET Slot
      /\ todo' # {} <=> loop' \in {"decode", "unwind_cancel", "unwind_fail"}
  BY <1>1, <1>2 DEF LoopState
<1>4. loop' \in {"decode", "unwind_cancel"} => todo' \subseteq Processing'
  <2>1. loop' \in {"decode", "unwind_cancel"} => loop = loop'
    BY <1>1
  <2>2. \A u \in todo' : u # s /\ u \in todo /\ u \in Slot
    BY <1>1, <1>2
  <2>. QED
    BY <2>1, <2>2 DEF SlotInv, SlotsOK, Processing
<1>5. SlotsOK'
  BY <1>4 DEF SlotInv, SlotsOK
<1>6. QueueTypes'
  BY <1>1 DEF SlotInv, TypeOK, QueueTypes, queueVars
<1>7. ClientTypes'
  BY <1>1 DEF SlotInv, TypeOK, ClientTypes, clientVars
<1>8. LoopTypes'
  BY <1>1, <1>2, <1>3 DEF LoopTypes
<1>9. TypeOK'
  BY <1>1, <1>2, <1>3, <1>6, <1>7, <1>8 DEF TypeOK, NextResponse
<1>. QED
  BY <1>5, <1>9 DEF SlotInv

(* notify_slot_changed and deferred_cleared keep the queues queues.         *)
LEMMA NotifyTypes ==
  ASSUME TypeOK
  PROVE  /\ notify_slot_changed \in Seq(Entry) /\ deferred_cleared \in Seq(Entry)
         /\ Append(notify_slot_changed, NextResponse) \in Seq(Entry)
<1>1. queue_tasks \in Seq(Entry) /\ queue_tasks_deferred \in Seq(Entry)
  BY DEF TypeOK, QueueTypes
<1>2. queue_tasks \o queue_tasks_deferred \in Seq(Entry)
  BY <1>1, ConcatEntries
<1>3. notify_slot_changed \in Seq(Entry) /\ deferred_cleared \in Seq(Entry)
  BY <1>1, <1>2, EmptyQueue DEF notify_slot_changed, deferred_cleared
<1>. QED
  BY <1>3, Entries, AppendEntry

(* release_slots returns slots to the pool, which have no task by then.     *)
LEMMA ReleaseSlotsStep ==
  ASSUME SlotInv
  PROVE  /\ release_slots \in [Slot -> SlotState]
         /\ \A s \in Slot :
              /\ release_slots[s].task = slots[s].task
              /\ release_slots[s].id_task = slots[s].id_task
              /\ is_processing(release_slots[s]) <=> is_processing(slots[s])
              /\ release_slots[s].command # "NONE" => release_slots[s].state = "IDLE"
<1>1. slots \in [Slot -> SlotState]
  BY DEF SlotInv, TypeOK, LoopTypes
<1>2. ASSUME NEW s \in Slot, slots[s].command = "RELEASE"
      PROVE  /\ release_slots[s] \in SlotState
             /\ release_slots[s].task = slots[s].task
             /\ release_slots[s].id_task = slots[s].id_task
             /\ release_slots[s].state = "IDLE" /\ release_slots[s].command = "NONE"
  BY <1>1, <1>2 DEF release_slots, SlotState
<1>3. ASSUME NEW s \in Slot, slots[s].command # "RELEASE"
      PROVE  release_slots[s] = slots[s]
  BY <1>3 DEF release_slots
<1>4. ASSUME NEW s \in Slot, slots[s].command = "RELEASE"
      PROVE  ~is_processing(slots[s]) /\ ~is_processing(release_slots[s])
  BY <1>2, <1>4 DEF SlotInv, SlotsOK, is_processing
<1>5. release_slots \in [Slot -> SlotState]
  <2>1. \A s \in Slot : release_slots[s] \in SlotState
    BY <1>1, <1>2, <1>3
  <2>. QED
    BY <2>1 DEF release_slots
<1>6. ASSUME NEW s \in Slot
      PROVE  /\ release_slots[s].task = slots[s].task
             /\ release_slots[s].id_task = slots[s].id_task
             /\ is_processing(release_slots[s]) <=> is_processing(slots[s])
             /\ release_slots[s].command # "NONE" => release_slots[s].state = "IDLE"
  <2>1. CASE slots[s].command = "RELEASE"
    BY <1>2, <1>4, <2>1
  <2>2. CASE slots[s].command # "RELEASE"
    BY <1>3, <2>2 DEF SlotInv, SlotsOK
  <2>. QED
    BY <2>1, <2>2
<1>. QED
  BY <1>5, <1>6

(* The steps of the main loop keep part 1.                                  *)
LEMMA SlotInvLoop ==
  ASSUME SlotInv, MainLoop
  PROVE  SlotInv'
<1>. USE DEF queueVars, resultVars, loopVars, clientVars, NoSend
<1>. HIDE DEF MainLoop
<1>1. CASE StartLoop
  BY <1>1 DEF StartLoop, SlotInv, TypeOK, QueueTypes, ResultTypes, LoopTypes, ClientTypes,
     SlotsOK, Processing, LoopState
<1>2. CASE PopTask
  <2>1. queue_tasks # <<>> => Head(queue_tasks) \in Entry /\ Tail(queue_tasks) \in Seq(Entry)
    BY PopEntry DEF SlotInv, TypeOK, QueueTypes
  <2>. QED
    BY <1>2, <2>1 DEF PopTask, SlotInv, TypeOK, QueueTypes, ResultTypes, LoopTypes, ClientTypes,
       SlotsOK, Processing, LoopState
<1>3. CASE ProcessLaunch
  <2>1. PICK s \in SlotsFor(hand.id) : slots' = [slots EXCEPT ![s] = LaunchedSlot(@, hand.id)]
    BY <1>3 DEF ProcessLaunch
  <2>2. hand.id \in Task /\ s \in Slot /\ slots[s] \in SlotState /\ slots[s].state = "IDLE"
    BY <1>3, Entries DEF ProcessLaunch, HandIsGeneration, SlotsFor, available, SlotInv, TypeOK,
       LoopTypes
  <2>3. /\ LaunchedSlot(slots[s], hand.id) \in SlotState
        /\ LaunchedSlot(slots[s], hand.id).task = hand.id
        /\ LaunchedSlot(slots[s], hand.id).id_task = hand.id
        /\ is_processing(LaunchedSlot(slots[s], hand.id))
        /\ LaunchedSlot(slots[s], hand.id).state = "IDLE"
    BY <2>2, SlotSteps
  <2>4. slots' \in [Slot -> SlotState] /\ slots'[s] = LaunchedSlot(slots[s], hand.id)
        /\ \A u \in Slot : u # s => slots'[u] = slots[u]
    BY <2>1, <2>2, <2>3, OneSlot
  <2>5. loop' = "pop" /\ loop = "process" /\ hand' = NextResponse /\ todo' = todo
    BY <1>3 DEF ProcessLaunch, Processed
  <2>6. SlotsOK'
    BY <2>2, <2>3, <2>4, <2>5 DEF SlotInv, SlotsOK
  <2>7. TypeOK'
    BY <1>3, <2>4, <2>5, Entries DEF ProcessLaunch, Processed, SlotInv, TypeOK, QueueTypes, ResultTypes, LoopTypes, ClientTypes, LoopState
  <2>. QED
    BY <2>6, <2>7 DEF SlotInv
<1>4. CASE ProcessLaunchFails
  <2>1. PICK s \in SlotsFor(hand.id) : slots' = [slots EXCEPT ![s] = ResetFor(@, hand.id)]
    BY <1>4 DEF ProcessLaunchFails
  <2>2. /\ hand.id \in Task /\ s \in Slot /\ slots[s] \in SlotState
        /\ ~is_processing(slots[s])
    BY <1>4, Entries DEF ProcessLaunchFails, HandIsGeneration, SlotsFor, available,
       is_processing, SlotInv, TypeOK, LoopTypes
  <2>3. /\ ResetFor(slots[s], hand.id) \in SlotState
        /\ ResetFor(slots[s], hand.id).task = slots[s].task
        /\ ResetFor(slots[s], hand.id).id_task = hand.id
        /\ ~is_processing(ResetFor(slots[s], hand.id))
        /\ ResetFor(slots[s], hand.id).state = slots[s].state
        /\ ResetFor(slots[s], hand.id).command = slots[s].command
    BY <2>2, SlotRecords
  <2>4. slots' \in [Slot -> SlotState] /\ slots'[s] = ResetFor(slots[s], hand.id)
        /\ \A u \in Slot : u # s => slots'[u] = slots[u]
    BY <2>1, <2>2, <2>3, OneSlot
  <2>5. loop' = "pop" /\ loop = "process" /\ hand' = NextResponse /\ todo' = todo
    BY <1>4 DEF ProcessLaunchFails, Processed
  <2>6. SlotsOK'
    BY <2>2, <2>3, <2>4, <2>5 DEF SlotInv, SlotsOK
  <2>7. ResultTypes'
    BY <1>4, SendTypes DEF ProcessLaunchFails, SlotInv, TypeOK, ResultTypes
  <2>8. TypeOK'
    BY <1>4, <2>4, <2>5, <2>7, Entries DEF ProcessLaunchFails, Processed, SlotInv, TypeOK,
       QueueTypes, LoopTypes, ClientTypes, LoopState
  <2>. QED
    BY <2>6, <2>8 DEF SlotInv
<1>5. CASE ProcessDefer
  <2>1. Append(queue_tasks_deferred, hand) \in Seq(Entry)
    BY AppendEntry DEF SlotInv, TypeOK, QueueTypes, LoopTypes
  <2>. QED
    BY <1>5, <2>1, Entries DEF ProcessDefer, Processed, defer, SlotInv, TypeOK, QueueTypes, ResultTypes, LoopTypes, ClientTypes,
       SlotsOK, Processing, LoopState
<1>6. CASE ProcessCancel
  <2>1. /\ slots' \in [Slot -> SlotState] /\ stop_internal_decode' \in BOOLEAN
        /\ \A u \in Slot : \/ slots'[u] = slots[u]
                           \/ /\ slots'[u].task = NoTask /\ ~is_processing(slots'[u])
                              /\ slots'[u].command # "NONE" => slots'[u].state = "IDLE"
    <3>1. CASE \E s \in Slot : release(s)
      BY <3>1, ReleaseStep
    <3>2. CASE UNCHANGED <<slots, stop_internal_decode>>
      BY <3>2 DEF SlotInv, TypeOK, LoopTypes
    <3>. QED
      BY <1>6, <3>1, <3>2 DEF ProcessCancel
  <2>2. loop' = "pop" /\ loop = "process" /\ hand' = NextResponse /\ todo' = todo
    BY <1>6 DEF ProcessCancel, Processed
  <2>3. SlotsOK'
    BY <2>1, <2>2 DEF SlotInv, SlotsOK
  <2>4. TypeOK'
    BY <1>6, <2>1, <2>2, Entries DEF ProcessCancel, Processed, SlotInv, TypeOK, QueueTypes, ResultTypes, LoopTypes, ClientTypes, LoopState
  <2>. QED
    BY <2>3, <2>4 DEF SlotInv
<1>7. CASE ProcessNextResponse
  BY <1>7, Entries DEF ProcessNextResponse, Processed, SlotInv, TypeOK, QueueTypes, ResultTypes, LoopTypes, ClientTypes,
     SlotsOK, Processing, LoopState
<1>8. CASE ProcessMetrics
  <2>1. ResultTypes'
    BY <1>8, SendTypes DEF ProcessMetrics, SlotInv, TypeOK, ResultTypes
  <2>. QED
    BY <1>8, <2>1, Entries DEF ProcessMetrics, Processed, SlotInv, TypeOK, QueueTypes, LoopTypes,
       ClientTypes, SlotsOK, Processing, LoopState
<1>9. CASE ProcessSlotAction
  <2>1. Append(queue_tasks_deferred, hand) \in Seq(Entry)
    BY AppendEntry DEF SlotInv, TypeOK, QueueTypes, LoopTypes
  <2>2. ResultTypes'
    <3>1. CASE send_error(hand.id) \/ send_legacy(hand.id)
      BY <3>1, SendTypes DEF SlotInv, TypeOK, ResultTypes
    <3>2. CASE NoSend
      BY <3>2 DEF SlotInv, TypeOK, ResultTypes
    <3>. QED
      BY <1>9, <3>1, <3>2 DEF ProcessSlotAction
  <2>3. queue_tasks_deferred' \in Seq(Entry)
    BY <1>9, <2>1 DEF ProcessSlotAction, defer, SlotInv, TypeOK, QueueTypes
  <2>4. /\ loop' = "pop" /\ loop = "process" /\ hand' = NextResponse
        /\ UNCHANGED <<queue_tasks, running, mutex_tasks, todo, clientVars, slots,
                       stop_internal_decode>>
    BY <1>9 DEF ProcessSlotAction, Processed
  <2>. QED
    BY <2>2, <2>3, <2>4, Entries DEF SlotInv, TypeOK, QueueTypes, LoopTypes,
       ClientTypes, SlotsOK, Processing, LoopState
<1>10. CASE UpdateSlots
  <2>1. slots' = release_slots /\ hand' = hand /\ todo' = todo /\ loop = "update"
    BY <1>10 DEF UpdateSlots
  <2>2. /\ slots' \in [Slot -> SlotState]
        /\ \A s \in Slot :
             /\ slots'[s].task = slots[s].task /\ slots'[s].id_task = slots[s].id_task
             /\ is_processing(slots'[s]) <=> is_processing(slots[s])
             /\ slots'[s].command # "NONE" => slots'[s].state = "IDLE"
    BY <2>1, ReleaseSlotsStep
  <2>3. queue_tasks' \in Seq(Entry) /\ queue_tasks_deferred' \in Seq(Entry)
    BY <1>10, NotifyTypes DEF UpdateSlots, SlotInv
  <2>4. loop' \in {"wait", "batch"} /\ stop_internal_decode' = FALSE
    BY <1>10 DEF UpdateSlots
  <2>5. SlotsOK'
    BY <2>2, <2>4 DEF SlotInv, SlotsOK
  <2>6. TypeOK'
    BY <1>10, <2>1, <2>2, <2>3, <2>4 DEF UpdateSlots, SlotInv, TypeOK, QueueTypes, ResultTypes,
       LoopTypes, ClientTypes, LoopState
  <2>. QED
    BY <2>5, <2>6 DEF SlotInv
<1>11. CASE BatchEnds
  <2>1. PICK s \in Processing : release(s)
    BY <1>11 DEF BatchEnds
  <2>2. s \in Slot
    BY DEF Processing
  <2>3. /\ slots' \in [Slot -> SlotState] /\ stop_internal_decode' \in BOOLEAN
        /\ slots'[s].task = NoTask /\ ~is_processing(slots'[s])
        /\ slots'[s].command # "NONE" => slots'[s].state = "IDLE"
        /\ \A u \in Slot : u # s => slots'[u] = slots[u]
    BY <2>1, <2>2, ReleaseStep
  <2>4. ResultTypes'
    BY <1>11, SendTypes DEF BatchEnds, SlotInv, TypeOK, ResultTypes
  <2>5. loop = "batch" /\ loop' = loop /\ hand' = hand /\ todo' = todo
    BY <1>11 DEF BatchEnds
  <2>6. SlotsOK'
    BY <2>3, <2>5 DEF SlotInv, SlotsOK
  <2>7. TypeOK'
    BY <1>11, <2>3, <2>4, <2>5 DEF BatchEnds, SlotInv, TypeOK, QueueTypes, LoopTypes,
       ClientTypes
  <2>. QED
    BY <2>6, <2>7 DEF SlotInv
<1>12. CASE BatchReady
  <2>1. Processing \in SUBSET Slot
    BY DEF Processing
  <2>2. /\ loop = "batch"
        /\ \/ loop' = "wait" /\ todo' = todo
           \/ loop' = "decode" /\ todo' \in (SUBSET Processing) \ {{}}
    BY <1>12 DEF BatchReady
  <2>3. SlotsOK'
    BY <1>12, <2>2 DEF BatchReady, SlotInv, SlotsOK, Processing
  <2>4. TypeOK'
    BY <1>12, <2>1, <2>2 DEF BatchReady, SlotInv, TypeOK, QueueTypes, ResultTypes, LoopTypes,
       ClientTypes, LoopState
  <2>. QED
    BY <2>3, <2>4 DEF SlotInv
<1>13. CASE DecodePrompt
  <2>1. PICK s \in todo : /\ slots[s].n_past < MaxPrompt
                          /\ slots' = [slots EXCEPT ![s] = PromptSlot(@)]
                          /\ DoneWith(s)
    BY <1>13 DEF DecodePrompt
  <2>2. s \in Slot /\ slots[s] \in SlotState /\ loop = "decode" /\ s \in Processing
    BY <1>13 DEF DecodePrompt, SlotInv, TypeOK, LoopTypes, SlotsOK
  <2>3. slots[s].task \in Task
    BY <2>2 DEF SlotInv, SlotsOK, Processing, SlotState
  <2>4. /\ PromptSlot(slots[s]) \in SlotState
        /\ PromptSlot(slots[s]).task = slots[s].task
        /\ PromptSlot(slots[s]).id_task = slots[s].id_task
        /\ PromptSlot(slots[s]).state = slots[s].state
        /\ PromptSlot(slots[s]).command = slots[s].command
        /\ is_processing(PromptSlot(slots[s])) <=> is_processing(slots[s])
    BY <2>1, <2>2, <2>3, SlotSteps
  <2>5. /\ slots' \in [Slot -> SlotState] /\ slots'[s] = PromptSlot(slots[s])
        /\ \A u \in Slot : u # s => slots'[u] = slots[u]
    BY <2>1, <2>2, <2>4, OneSlot
  <2>6. ResultTypes' /\ stop_internal_decode' \in BOOLEAN
    BY <1>13 DEF DecodePrompt, SlotInv, TypeOK, ResultTypes, LoopTypes
  <2>7. /\ slots'[s].task # NoTask <=> is_processing(slots'[s])
        /\ slots'[s].task # NoTask => slots'[s].id_task = slots'[s].task
        /\ slots'[s].command # "NONE" => slots'[s].state = "IDLE"
    BY <2>2, <2>4, <2>5 DEF SlotInv, SlotsOK
  <2>. QED
    BY <2>1, <2>2, <2>5, <2>6, <2>7, DoneStep
<1>14. CASE DecodeToken
  <2>1. PICK s \in todo : /\ slots[s].n_decoded < MaxDecoded
                          /\ slots' = [slots EXCEPT ![s] = TokenSlot(@)]
                          /\ send_partial_response(slots[s].task) \/ NoSend
                          /\ DoneWith(s)
    BY <1>14 DEF DecodeToken
  <2>2. s \in Slot /\ slots[s] \in SlotState /\ loop = "decode" /\ s \in Processing
    BY <1>14 DEF DecodeToken, SlotInv, TypeOK, LoopTypes, SlotsOK
  <2>3. slots[s].task \in Task /\ slots[s].id_task = slots[s].task
    BY <2>2 DEF SlotInv, SlotsOK, Processing, SlotState
  <2>4. /\ TokenSlot(slots[s]) \in SlotState
        /\ TokenSlot(slots[s]).task = slots[s].task
        /\ TokenSlot(slots[s]).id_task = slots[s].id_task
        /\ TokenSlot(slots[s]).command = "NONE"
        /\ is_processing(TokenSlot(slots[s]))
    BY <2>1, <2>2, <2>3, SlotSteps
  <2>5. /\ slots' \in [Slot -> SlotState] /\ slots'[s] = TokenSlot(slots[s])
        /\ \A u \in Slot : u # s => slots'[u] = slots[u]
    BY <2>1, <2>2, <2>4, OneSlot
  <2>6. stop_internal_decode' \in BOOLEAN
    BY <1>14 DEF DecodeToken, SlotInv, TypeOK, LoopTypes
  <2>7. ResultTypes'
    BY <2>1, SendTypes DEF SlotInv, TypeOK, ResultTypes
  <2>8. /\ slots'[s].task # NoTask <=> is_processing(slots'[s])
        /\ slots'[s].task # NoTask => slots'[s].id_task = slots'[s].task
        /\ slots'[s].command # "NONE" => slots'[s].state = "IDLE"
    BY <2>3, <2>4, <2>5
  <2>. QED
    BY <2>1, <2>2, <2>5, <2>6, <2>7, <2>8, DoneStep
<1>15. CASE DecodeLast \/ UnwindCancel
  <2>1. PICK s \in todo : /\ \/ send_final_response(slots[s].task)
                             \/ send_error(slots[s].id_task)
                          /\ release(s)
                          /\ DoneWith(s)
    BY <1>15 DEF DecodeLast, UnwindCancel
  <2>2. s \in Slot /\ loop \in {"decode", "unwind_cancel"}
    BY <1>15 DEF DecodeLast, UnwindCancel, SlotInv, TypeOK, LoopTypes
  <2>3. /\ slots' \in [Slot -> SlotState] /\ stop_internal_decode' \in BOOLEAN
        /\ slots'[s].task = NoTask /\ ~is_processing(slots'[s])
        /\ slots'[s].command # "NONE" => slots'[s].state = "IDLE"
        /\ \A u \in Slot : u # s => slots'[u] = slots[u]
    BY <2>1, <2>2, ReleaseStep
  <2>4. ResultTypes'
    BY <2>1, SendTypes DEF SlotInv, TypeOK, ResultTypes
  <2>. QED
    BY <2>1, <2>2, <2>3, <2>4, DoneStep
<1>16. CASE DecodeAborted \/ DecodeFailed
  <2>1. /\ todo \subseteq Processing /\ todo # {} /\ todo \subseteq Slot
        /\ Processing \subseteq Slot /\ loop = "decode"
    BY <1>16 DEF DecodeAborted, DecodeFailed, SlotInv, TypeOK, LoopTypes, SlotsOK, Processing
  <2>2. /\ todo' \in SUBSET Slot /\ todo' # {} /\ loop' \in {"unwind_cancel", "unwind_fail"}
        /\ loop' = "unwind_cancel" => todo' = Processing
        /\ UNCHANGED <<queueVars, slots, stop_internal_decode, hand, resultVars, clientVars,
                       n_terminal>>
    BY <1>16, <2>1 DEF DecodeAborted, DecodeFailed
  <2>3. SlotsOK'
    BY <2>2 DEF SlotInv, SlotsOK, Processing
  <2>4. TypeOK'
    BY <2>1, <2>2 DEF SlotInv, TypeOK, QueueTypes, ResultTypes, LoopTypes, ClientTypes, LoopState
  <2>. QED
    BY <2>3, <2>4 DEF SlotInv
<1>17. CASE UnwindFail
  <2>1. PICK s \in todo : /\ slots' = [slots EXCEPT ![s] = ReleasedSlot(@)]
                          /\ stop_internal_decode' = FALSE
                          /\ send_error(slots[s].id_task)
                          /\ DoneWith(s)
    BY <1>17 DEF UnwindFail
  <2>2. s \in Slot /\ slots[s] \in SlotState /\ loop = "unwind_fail"
    BY <1>17 DEF UnwindFail, SlotInv, TypeOK, LoopTypes
  <2>3. /\ ReleasedSlot(slots[s]) \in SlotState /\ ReleasedSlot(slots[s]).task = NoTask
        /\ ~is_processing(ReleasedSlot(slots[s])) /\ ReleasedSlot(slots[s]).state = "IDLE"
    BY <2>2, Released
  <2>4. /\ slots' \in [Slot -> SlotState] /\ slots'[s] = ReleasedSlot(slots[s])
        /\ \A u \in Slot : u # s => slots'[u] = slots[u]
    BY <2>1, <2>2, <2>3, OneSlot
  <2>5. ResultTypes'
    BY <2>1, SendTypes DEF SlotInv, TypeOK, ResultTypes
  <2>. QED
    BY <2>1, <2>2, <2>3, <2>4, <2>5, DoneStep
<1>18. CASE WaitForTask \/ Wake
  <2>1. /\ loop \in {"wait", "sleep"} /\ loop' \in {"pop", "ended", "heartbeat", "sleep"}
        /\ UNCHANGED <<queueVars, slots, stop_internal_decode, hand, todo, resultVars, clientVars,
                       n_terminal>>
    BY <1>18 DEF WaitForTask, Wake
  <2>. QED
    BY <2>1 DEF SlotInv, TypeOK, QueueTypes, ResultTypes, LoopTypes, ClientTypes, SlotsOK,
       Processing, LoopState
<1>19. CASE Heartbeat
  <2>1. /\ loop = "heartbeat" /\ loop' = "pop"
        /\ UNCHANGED <<running, mutex_tasks, slots, stop_internal_decode, hand, todo,
                       resultVars, clientVars, n_terminal>>
    BY <1>19 DEF Heartbeat
  <2>2. queue_tasks' \in Seq(Entry) /\ queue_tasks_deferred' \in Seq(Entry)
    BY <1>19, EmptyQueue DEF Heartbeat, SlotInv, TypeOK, QueueTypes
  <2>. QED
    BY <2>1, <2>2 DEF SlotInv, TypeOK, QueueTypes, ResultTypes, LoopTypes, ClientTypes, SlotsOK,
       Processing, LoopState
<1>. QED
  BY <1>1, <1>2, <1>3, <1>4, <1>5, <1>6, <1>7, <1>8, <1>9, <1>10, <1>11, <1>12, <1>13, <1>14,
     <1>15, <1>16, <1>17, <1>18, <1>19
  DEF MainLoop, process_single_task, update_slots

(* The steps that leave the loop alone keep part 1 when what they change    *)
(* keeps its type.                                                          *)
LEMMA LoopAside ==
  ASSUME SlotInv, QueueTypes', ResultTypes', ClientTypes', stop_internal_decode' \in BOOLEAN,
         UNCHANGED <<slots, loop, hand, todo>>
  PROVE  SlotInv'
BY DEF SlotInv, TypeOK, LoopTypes, SlotsOK, Processing, NextResponse

(* The cleanup of a queue leaves a queue.                                   *)
LEMMA CleanupTypes ==
  ASSUME NEW q \in Seq(Entry), NEW t \in Task
  PROVE  cleanup_pending_task(q, t) \in Seq(Entry)
<1>1. CASE ~(\E i \in DOMAIN q : q[i].id = t)
  BY <1>1 DEF cleanup_pending_task
<1>2. CASE \E i \in DOMAIN q : q[i].id = t
  <2>. DEFINE n == CHOOSE i \in DOMAIN q : q[i].id = t
  <2>1. n \in DOMAIN q
    BY <1>2
  <2>2. cleanup_pending_task(q, t) = RemoveAt(q, n)
    BY <1>2 DEF cleanup_pending_task
  <2>. HIDE DEF n
  <2>3. RemoveAt(q, n) \in Seq(Entry)
    BY <2>1, EraseAt
  <2>. QED
    BY <2>2, <2>3
<1>. QED
  BY <1>1, <1>2

(* What is in a result queue is a result.                                   *)
LEMMA ResultAt ==
  ASSUME NEW q \in Seq(Result), NEW i \in DOMAIN q
  PROVE  q[i] \in Result /\ q[i].id \in Task
<1>1. q[i] \in Result
  OBVIOUS
<1>. QED
  BY <1>1 DEF Result

(* The steps of the HTTP threads keep part 1.                               *)
LEMMA SlotInvClient ==
  ASSUME SlotInv, NEW c \in Client, ClientStep(c) \/ Disconnect(c)
  PROVE  SlotInv'
<1>. USE DEF queueVars, resultVars, loopVars, clientVars
<1>0. /\ QueueTypes /\ ResultTypes /\ ClientTypes /\ stop_internal_decode \in BOOLEAN
      /\ \A w \in ClientState : [pc EXCEPT ![c] = w] \in [Client -> ClientState]
      /\ Owned(c) \in SUBSET Task /\ [left EXCEPT ![c] = Owned(c)] \in [Client -> SUBSET Task]
      /\ \A t : [left EXCEPT ![c] = @ \ {t}] \in [Client -> SUBSET Task]
  BY DEF SlotInv, TypeOK, LoopTypes, ClientTypes, Owned
<1>1. CASE AddWaiting(c) \/ StartSlotAction(c) \/ Register(c) \/ Stop(c)
  <2>1. /\ waiting_task_ids' \in SUBSET Task
        /\ UNCHANGED <<queue_results, queue_results_legacy, n_terminal>>
    BY <1>0, <1>1 DEF AddWaiting, StartSlotAction, Register, Stop, ResultStep, ResultTypes
  <2>2. ResultTypes'
    BY <1>0, <2>1 DEF ResultTypes
  <2>3. left' = left \/ left' = [left EXCEPT ![c] = Owned(c)]
    BY <1>1 DEF AddWaiting, StartSlotAction, Register, Stop
  <2>4. \E w \in {"post", "recv", "cancel", "done"} : Goto(c, w)
    BY <1>1 DEF AddWaiting, StartSlotAction, Register, Stop
  <2>5. pc' \in [Client -> ClientState]
    BY <1>0, <2>4 DEF Goto, ClientState
  <2>6. ClientTypes'
    BY <1>0, <1>1, <2>3, <2>5 DEF AddWaiting, StartSlotAction, Register, Stop, ClientTypes
  <2>7. UNCHANGED <<queueVars, loopVars>>
    BY <1>1 DEF AddWaiting, StartSlotAction, Register, Stop, ResultStep
  <2>8. QueueTypes' /\ stop_internal_decode' \in BOOLEAN
    BY <1>0, <2>7 DEF QueueTypes
  <2>. QED
    BY <2>2, <2>6, <2>7, <2>8, LoopAside
<1>2. CASE post(c) \/ PostCancel(c)
  <2>1. PICK t \in left[c] :
          /\ HoldWhile(c, left[c] # {t})
          /\ \/ /\ queue_tasks' = Append(queue_tasks, Work(t))
                /\ queue_tasks_deferred' = queue_tasks_deferred
             \/ /\ queue_tasks' = <<Cancel(t)>> \o cleanup_pending_task(queue_tasks, t)
                /\ queue_tasks_deferred' = cleanup_pending_task(queue_tasks_deferred, t)
          /\ left' = [left EXCEPT ![c] = @ \ {t}]
          /\ pc' = pc \/ \E w \in {"register", "recv", "done"} : Goto(c, w)
    BY <1>2 DEF post, PostCancel
  <2>2. t \in Task
    BY <1>0 DEF ClientTypes
  <2>3. queue_tasks \in Seq(Entry) /\ queue_tasks_deferred \in Seq(Entry)
    BY <1>0 DEF QueueTypes
  <2>4. Append(queue_tasks, Work(t)) \in Seq(Entry)
    BY <2>2, <2>3, Entries, AppendEntry
  <2>5. /\ cleanup_pending_task(queue_tasks, t) \in Seq(Entry)
        /\ cleanup_pending_task(queue_tasks_deferred, t) \in Seq(Entry)
    BY <2>2, <2>3, CleanupTypes
  <2>6. <<Cancel(t)>> \in Seq(Entry)
    BY <2>2, Entries
  <2>7. <<Cancel(t)>> \o cleanup_pending_task(queue_tasks, t) \in Seq(Entry)
    BY <2>5, <2>6, ConcatEntries
  <2>8. mutex_tasks' \in Client \cup {NoClient}
    BY <2>1 DEF HoldWhile
  <2>9. QueueTypes'
    BY <1>0, <1>2, <2>1, <2>3, <2>4, <2>5, <2>7, <2>8 DEF post, PostCancel, QueueTypes
  <2>10. pc' \in [Client -> ClientState]
    BY <1>0, <2>1 DEF Goto, ClientState, ClientTypes
  <2>11. ClientTypes'
    BY <1>0, <1>2, <2>1, <2>10 DEF post, PostCancel, ClientTypes
  <2>12. UNCHANGED <<resultVars, loopVars, n_terminal>>
    BY <1>2 DEF post, PostCancel
  <2>13. ResultTypes' /\ stop_internal_decode' \in BOOLEAN
    BY <1>0, <2>12 DEF ResultTypes
  <2>. QED
    BY <2>9, <2>11, <2>12, <2>13, LoopAside
<1>3. CASE LegacyRecv(c)
  <2>1. PICK i \in DOMAIN queue_results_legacy :
          /\ queue_results_legacy' = RemoveAt(queue_results_legacy, i)
          /\ got' = got \cup {queue_results_legacy[i].id}
    BY <1>3 DEF LegacyRecv
  <2>2. /\ queue_results_legacy \in Seq(Result) /\ queue_results_legacy[i] \in Result
        /\ queue_results_legacy[i].id \in Task
    BY <1>0, ResultAt DEF ResultTypes
  <2>3. queue_results_legacy' \in Seq(Result)
    BY <2>1, <2>2, TakeResult
  <2>4. ResultTypes'
    BY <1>0, <1>3, <2>3 DEF LegacyRecv, ResultStep, ResultTypes
  <2>5. pc' \in [Client -> ClientState] /\ got' \in SUBSET Task
    BY <1>0, <1>3, <2>1, <2>2 DEF LegacyRecv, Goto, ClientState, ClientTypes
  <2>6. ClientTypes'
    BY <1>0, <1>3, <2>5 DEF LegacyRecv, ClientTypes
  <2>7. UNCHANGED <<queueVars, loopVars>>
    BY <1>3 DEF LegacyRecv, ResultStep
  <2>8. QueueTypes' /\ stop_internal_decode' \in BOOLEAN
    BY <1>0, <2>7 DEF QueueTypes
  <2>. QED
    BY <2>4, <2>6, <2>7, <2>8, LoopAside
<1>4. CASE ReaderRecv(c)
  <2>1. PICK i \in DOMAIN queue_results :
          /\ queue_results' = RemoveAt(queue_results, i)
          /\ got' = IF queue_results[i].kind = "final" THEN got \cup {queue_results[i].id} ELSE got
          /\ \/ /\ Goto(c, "stop") /\ answer' = [answer EXCEPT ![c] = "error"]
                /\ UNCHANGED <<received_count, streaming>>
             \/ Delivered(c, queue_results[i].kind)
    BY <1>4 DEF ReaderRecv
  <2>2. queue_results \in Seq(Result) /\ queue_results[i] \in Result /\ queue_results[i].id \in Task
    BY <1>0, ResultAt DEF ResultTypes
  <2>3. queue_results' \in Seq(Result)
    BY <2>1, <2>2, TakeResult
  <2>4. ResultTypes'
    BY <1>0, <1>4, <2>3 DEF ReaderRecv, ResultStep, ResultTypes
  <2>5. /\ pc' = pc \/ Goto(c, "stop")
        /\ answer' = answer \/ \E a \in {"ok", "closed", "error"} :
                                 answer' = [answer EXCEPT ![c] = a]
    BY <2>1 DEF Delivered
  <2>6. /\ \/ received_count' = received_count
           \/ \E n \in {0, 1} : received_count' = [received_count EXCEPT ![c] = @ + n]
        /\ streaming' = streaming \/ \E b \in BOOLEAN : streaming' = [streaming EXCEPT ![c] = b]
    BY <2>1 DEF Delivered
  <2>7. pc' \in [Client -> ClientState] /\ got' \in SUBSET Task
    BY <1>0, <2>1, <2>2, <2>5 DEF Goto, ClientState, ClientTypes
  <2>8. received_count' \in [Client -> Nat] /\ streaming' \in [Client -> BOOLEAN]
    BY <1>0, <2>6 DEF ClientTypes
  <2>9. answer' \in [Client -> {"none", "ok", "error", "closed"}]
    BY <1>0, <2>5 DEF ClientTypes
  <2>10. ClientTypes'
    BY <1>0, <1>4, <2>7, <2>8, <2>9 DEF ReaderRecv, ClientTypes
  <2>11. UNCHANGED <<queueVars, loopVars>>
    BY <1>4 DEF ReaderRecv, ResultStep
  <2>12. QueueTypes' /\ stop_internal_decode' \in BOOLEAN
    BY <1>0, <2>11 DEF QueueTypes
  <2>. QED
    BY <2>4, <2>10, <2>11, <2>12, LoopAside
<1>5. CASE ReaderTimeout(c) \/ CheckSlots(c) \/ llama_decode_stop(c) \/ Disconnect(c)
  <2>1. UNCHANGED <<queueVars, resultVars, n_terminal, slots, loop, hand, todo>>
    BY <1>5 DEF ReaderTimeout, CheckSlots, llama_decode_stop, Disconnect, ResultStep
  <2>2. stop_internal_decode' \in BOOLEAN
    BY <1>0, <1>5 DEF ReaderTimeout, CheckSlots, llama_decode_stop, Disconnect, ResultStep
  <2>3. QueueTypes' /\ ResultTypes'
    BY <1>0, <2>1 DEF QueueTypes, ResultTypes
  <2>4. pc' = pc \/ \E w \in {"stop", "check", "abort"} : Goto(c, w)
    BY <1>5 DEF ReaderTimeout, CheckSlots, llama_decode_stop, Disconnect
  <2>5. pc' \in [Client -> ClientState]
    BY <1>0, <2>4 DEF Goto, ClientState, ClientTypes
  <2>6. ClientTypes'
    BY <1>0, <1>5, <2>5 DEF ReaderTimeout, CheckSlots, llama_decode_stop, Disconnect, ClientTypes
  <2>. QED
    BY <2>1, <2>2, <2>3, <2>6, LoopAside
<1>. QED
  BY <1>1, <1>2, <1>3, <1>4, <1>5 DEF ClientStep

(* Part 1 holds initially.                                                  *)
LEMMA SlotInvInit ==
  ASSUME Init
  PROVE  SlotInv
<1>1. [state |-> "IDLE", command |-> "NONE", id_task |-> NoTask, task |-> NoTask,
       n_past |-> 0, n_decoded |-> 0] \in SlotState
  BY DEF SlotState
<1>2. slots \in [Slot -> SlotState]
  BY <1>1 DEF Init
<1>3. SlotsOK
  <2>1. \A s \in Slot : slots[s].task = NoTask /\ slots[s].state = "IDLE" /\ slots[s].command = "NONE"
    BY DEF Init
  <2>2. loop = "init"
    BY DEF Init
  <2>. QED
    BY <2>1, <2>2 DEF SlotsOK, is_processing
<1>4. QueueTypes /\ ResultTypes
  <2>1. <<>> \in Seq(Entry) /\ <<>> \in Seq(Result)
    OBVIOUS
  <2>2. n_terminal \in [Task -> Nat]
    BY DEF Init
  <2>. QED
    BY <2>1, <2>2 DEF Init, QueueTypes, ResultTypes
<1>5. ClientTypes
  BY DEF Init, ClientTypes, ClientState
<1>6. LoopTypes
  BY <1>2, Entries DEF Init, LoopTypes, LoopState
<1>7. TypeOK
  BY <1>4, <1>5, <1>6 DEF Init, TypeOK
<1>. QED
  BY <1>3, <1>7 DEF SlotInv

(* Part 1 is inductive.                                                     *)
LEMMA SlotInvStep ==
  ASSUME SlotInv, [Next]_vars
  PROVE  SlotInv'
<1>1. CASE MainLoop
  BY <1>1, SlotInvLoop
<1>2. ASSUME NEW c \in Client, ClientStep(c) \/ Disconnect(c)
      PROVE  SlotInv'
  BY <1>2, SlotInvClient
<1>3. CASE terminate
  <2>1. UNCHANGED <<slots, loop, hand, todo, stop_internal_decode>> /\ QueueTypes'
    BY <1>3 DEF terminate, SlotInv, TypeOK, QueueTypes, loopVars
  <2>2. ResultTypes' /\ ClientTypes'
    BY <1>3 DEF terminate, SlotInv, TypeOK, ResultTypes, ClientTypes, resultVars, clientVars
  <2>3. stop_internal_decode' \in BOOLEAN
    BY <2>1 DEF SlotInv, TypeOK, LoopTypes
  <2>. QED
    BY <2>1, <2>2, <2>3, LoopAside
<1>4. CASE UNCHANGED vars
  BY <1>4 DEF vars, queueVars, resultVars, loopVars, clientVars, SlotInv, TypeOK, QueueTypes,
     ResultTypes, LoopTypes, ClientTypes, SlotsOK, Processing
<1>. QED
  BY <1>1, <1>2, <1>3, <1>4 DEF Next

(* Every reachable state is well-typed: a task is in the loop's hand only   *)
(* while process_single_task runs, slots are left over only inside a batch, *)
(* and a slot has a live task exactly while it is processing.               *)
THEOREM TypeCorrect == Spec => [](TypeOK /\ SlotsOK)
<1>1. Init => SlotInv
  BY SlotInvInit
<1>2. SlotInv /\ [Next]_vars => SlotInv'
  BY SlotInvStep
<1>3. SlotInv => TypeOK /\ SlotsOK
  BY DEF SlotInv
<1>. QED
  BY <1>1, <1>2, <1>3, PTL DEF Spec

(* The fields of the queues, the results, the slots and the requests keep   *)
(* their shapes; the loop has a task in hand only inside                    *)
(* process_single_task, and slots left to handle exactly while a batch is   *)
(* decoded or unwound.                                                      *)
THEOREM TypesKept == Spec => []TypeOK
<1>1. TypeOK /\ SlotsOK => TypeOK
  OBVIOUS
<1>. QED
  BY <1>1, TypeCorrect, PTL

(***************************************************************************)
(* Where tasks are: no task is lost between containers into two of them.   *)
(***************************************************************************)
USE TaskAssumption, ConstantsAssumption

(* A client's tasks that it has not posted yet are nowhere in the server,   *)
(* and it posts only its own.                                               *)
NotYetPosted ==
  \A c \in Client :
    /\ left[c] \subseteq Owned(c)
    /\ pc[c] = "start" => \A t \in Owned(c) : ~InSystem(t)
    /\ pc[c] = "post" => \A t \in left[c] : ~InSystem(t)

PlaceInv == SlotInv /\ TaskInOnePlace /\ NotYetPosted

(* No step but a post puts a task into the server.                          *)
NothingNew == \A t \in Task : InSystem(t)' => InSystem(t)

(* The ids of the entries and of the slots are those of tasks, or none.     *)
LEMMA PlaceTypes ==
  ASSUME SlotInv
  PROVE  /\ queue_tasks \in Seq(Entry) /\ queue_tasks_deferred \in Seq(Entry)
         /\ hand \in Entry /\ hand.id \in Task \cup {NoTask}
         /\ \A s \in Slot : slots[s] \in SlotState /\ slots[s].task \in Task \cup {NoTask}
<1>1. /\ queue_tasks \in Seq(Entry) /\ queue_tasks_deferred \in Seq(Entry) /\ hand \in Entry
      /\ slots \in [Slot -> SlotState]
  BY DEF SlotInv, TypeOK, QueueTypes, LoopTypes
<1>2. hand.id \in Task \cup {NoTask}
  BY <1>1 DEF Entry
<1>3. \A s \in Slot : slots[s].task \in Task \cup {NoTask}
  BY <1>1 DEF SlotState
<1>. QED
  BY <1>1, <1>2, <1>3

(* A step that only takes tasks out of their places.                        *)
LEMMA Shrink ==
  ASSUME TaskInOnePlace, Once(queue_tasks'), Once(queue_tasks_deferred'),
         Ids(queue_tasks') \subseteq Ids(queue_tasks) \cup {NoTask},
         Ids(queue_tasks_deferred') \subseteq Ids(queue_tasks_deferred) \cup {NoTask},
         hand'.id \in {hand.id, NoTask},
         \A s \in Slot : slots'[s].task \in {slots[s].task, NoTask}
  PROVE  TaskInOnePlace' /\ NothingNew
<1>1. TaskInOnePlace'
  BY DEF TaskInOnePlace
<1>2. NothingNew
  <2>. SUFFICES ASSUME NEW t \in Task, InSystem(t)' PROVE InSystem(t)
    BY DEF NothingNew
  <2>. QED
    BY DEF InSystem
<1>. QED
  BY <1>1, <1>2

(* Deferring moves the task in hand.                                        *)
LEMMA DeferMoves ==
  ASSUME PlaceInv, queue_tasks' = queue_tasks,
         queue_tasks_deferred' = Append(queue_tasks_deferred, hand),
         hand' = NextResponse, slots' = slots
  PROVE  TaskInOnePlace' /\ NothingNew
<1>1. /\ queue_tasks_deferred \in Seq(Entry) /\ hand \in Entry
      /\ hand'.id = NoTask
  BY PlaceTypes DEF PlaceInv, NextResponse
<1>2. hand.id \in Ids(queue_tasks_deferred) => hand.id = NoTask
  BY DEF PlaceInv, TaskInOnePlace
<1>3. /\ Ids(queue_tasks_deferred') = Ids(queue_tasks_deferred) \cup {hand.id}
      /\ Once(queue_tasks_deferred')
  BY <1>1, <1>2, AppendEntry DEF PlaceInv, TaskInOnePlace
<1>4. TaskInOnePlace'
  BY <1>1, <1>3 DEF PlaceInv, TaskInOnePlace
<1>5. NothingNew
  <2>. SUFFICES ASSUME NEW t \in Task, InSystem(t)' PROVE InSystem(t)
    BY DEF NothingNew
  <2>. QED
    BY <1>1, <1>3 DEF InSystem
<1>. QED
  BY <1>4, <1>5

(* The loop moves a task or takes it out; it never copies and adds none.    *)
LEMMA PlaceLoop ==
  ASSUME PlaceInv, MainLoop
  PROVE  TaskInOnePlace' /\ NothingNew
<1>. USE DEF queueVars, resultVars, loopVars, clientVars, NoSend
<1>. HIDE DEF MainLoop
<1>0. /\ SlotInv /\ TaskInOnePlace /\ Once(queue_tasks) /\ Once(queue_tasks_deferred)
      /\ queue_tasks \in Seq(Entry) /\ queue_tasks_deferred \in Seq(Entry)
      /\ hand \in Entry /\ hand.id \in Task \cup {NoTask} /\ NextResponse.id = NoTask
      /\ \A s \in Slot : slots[s] \in SlotState /\ slots[s].task \in Task \cup {NoTask}
  BY PlaceTypes DEF PlaceInv, TaskInOnePlace, NextResponse
<1>1. CASE StartLoop \/ BatchReady \/ DecodeAborted \/ DecodeFailed \/ WaitForTask \/ Wake
  <2>1. UNCHANGED <<queue_tasks, queue_tasks_deferred, hand, slots>>
    BY <1>1 DEF StartLoop, BatchReady, DecodeAborted, DecodeFailed, WaitForTask, Wake
  <2>. QED
    BY <1>0, <2>1, Shrink
<1>2. CASE PopTask
  <2>1. CASE queue_tasks = <<>>
    BY <1>0, <1>2, <2>1, Shrink DEF PopTask
  <2>2. CASE queue_tasks # <<>>
    <3>1. /\ hand' = Head(queue_tasks) /\ queue_tasks' = Tail(queue_tasks)
          /\ UNCHANGED <<queue_tasks_deferred, slots>> /\ loop = "pop"
      BY <1>2, <2>2 DEF PopTask
    <3>2. /\ Ids(queue_tasks) = {hand'.id} \cup Ids(queue_tasks')
          /\ Once(queue_tasks') /\ (hand'.id \in Ids(queue_tasks') => hand'.id = NoTask)
      BY <1>0, <2>2, <3>1, PopEntry
    <3>3. TaskInOnePlace'
      BY <1>0, <3>1, <3>2 DEF TaskInOnePlace
    <3>4. NothingNew
      BY <3>1, <3>2 DEF NothingNew, InSystem
    <3>. QED
      BY <3>3, <3>4
  <2>. QED
    BY <2>1, <2>2
<1>3. CASE ProcessLaunch
  <2>1. PICK s \in SlotsFor(hand.id) : slots' = [slots EXCEPT ![s] = LaunchedSlot(@, hand.id)]
    BY <1>3 DEF ProcessLaunch
  <2>2. hand.id \in Task /\ s \in Slot
    BY <1>0, <1>3, Entries DEF ProcessLaunch, HandIsGeneration, SlotsFor
  <2>3. LaunchedSlot(slots[s], hand.id) \in SlotState /\ LaunchedSlot(slots[s], hand.id).task = hand.id
    BY <1>0, <2>2, SlotSteps
  <2>4. slots'[s].task = hand.id /\ \A u \in Slot : u # s => slots'[u] = slots[u]
    BY <1>0, <2>1, <2>2, <2>3, OneSlot
  <2>5. hand'.id = NoTask /\ UNCHANGED <<queue_tasks, queue_tasks_deferred>>
    BY <1>0, <1>3 DEF ProcessLaunch, Processed
  <2>6. TaskInOnePlace'
    BY <1>0, <2>2, <2>4, <2>5 DEF TaskInOnePlace
  <2>7. NothingNew
    <3>. SUFFICES ASSUME NEW t \in Task, InSystem(t)' PROVE InSystem(t)
      BY DEF NothingNew
    <3>. QED
      BY <2>2, <2>4, <2>5 DEF InSystem
  <2>. QED
    BY <2>6, <2>7
<1>4. CASE ProcessLaunchFails
  <2>1. PICK s \in SlotsFor(hand.id) : slots' = [slots EXCEPT ![s] = ResetFor(@, hand.id)]
    BY <1>4 DEF ProcessLaunchFails
  <2>2. hand.id \in Task /\ s \in Slot
    BY <1>0, <1>4, Entries DEF ProcessLaunchFails, HandIsGeneration, SlotsFor
  <2>3. /\ ResetFor(slots[s], hand.id) \in SlotState
        /\ ResetFor(slots[s], hand.id).task = slots[s].task
    BY <1>0, <2>2, SlotRecords
  <2>4. slots'[s].task = slots[s].task /\ \A u \in Slot : u # s => slots'[u] = slots[u]
    BY <1>0, <2>1, <2>2, <2>3, OneSlot
  <2>5. hand'.id = NoTask /\ UNCHANGED <<queue_tasks, queue_tasks_deferred>>
    BY <1>0, <1>4 DEF ProcessLaunchFails, Processed
  <2>. QED
    BY <1>0, <2>4, <2>5, Shrink
<1>5. CASE ProcessDefer
  BY <1>5, DeferMoves DEF ProcessDefer, Processed, defer
<1>6. CASE ProcessCancel
  <2>1. \A u \in Slot : slots'[u].task \in {slots[u].task, NoTask}
    <3>1. CASE \E s \in Slot : release(s)
      BY <1>0, <3>1, ReleaseStep
    <3>2. CASE slots' = slots
      BY <3>2
    <3>. QED
      BY <1>6, <3>1, <3>2 DEF ProcessCancel
  <2>2. hand'.id = NoTask /\ UNCHANGED <<queue_tasks, queue_tasks_deferred>>
    BY <1>0, <1>6 DEF ProcessCancel, Processed
  <2>. QED
    BY <1>0, <2>1, <2>2, Shrink
<1>7. CASE ProcessNextResponse \/ ProcessMetrics
  <2>1. hand'.id = NoTask /\ UNCHANGED <<queue_tasks, queue_tasks_deferred, slots>>
    BY <1>0, <1>7 DEF ProcessNextResponse, ProcessMetrics, Processed
  <2>. QED
    BY <1>0, <2>1, Shrink
<1>8. CASE ProcessSlotAction
  <2>1. hand' = NextResponse /\ UNCHANGED <<queue_tasks, slots>>
    BY <1>8 DEF ProcessSlotAction, Processed
  <2>2. defer \/ UNCHANGED queue_tasks_deferred
    BY <1>8 DEF ProcessSlotAction
  <2>3. CASE UNCHANGED queue_tasks_deferred
    BY <1>0, <2>1, <2>3, Shrink
  <2>4. CASE defer
    BY <2>1, <2>4, DeferMoves DEF defer
  <2>. QED
    BY <2>2, <2>3, <2>4
<1>9. CASE UpdateSlots
  <2>1. /\ slots' = release_slots /\ hand' = hand
        /\ queue_tasks_deferred' = deferred_cleared
        /\ \/ queue_tasks' = notify_slot_changed
           \/ queue_tasks' = Append(notify_slot_changed, NextResponse)
    BY <1>9 DEF UpdateSlots
  <2>2. \A s \in Slot : slots'[s].task = slots[s].task
    BY <1>0, <2>1, ReleaseSlotsStep
  <2>3. /\ notify_slot_changed \in Seq(Entry) /\ Once(notify_slot_changed)
        /\ Once(deferred_cleared)
        /\ Ids(notify_slot_changed) \cup Ids(deferred_cleared)
             = Ids(queue_tasks) \cup Ids(queue_tasks_deferred)
        /\ \A t \in Ids(notify_slot_changed) \cap Ids(deferred_cleared) : t = NoTask
    <3>1. \A t \in Ids(queue_tasks) \cap Ids(queue_tasks_deferred) : t = NoTask
      BY <1>0 DEF TaskInOnePlace
    <3>2. CASE SlotChanged
      <4>1. /\ queue_tasks \o queue_tasks_deferred \in Seq(Entry)
            /\ Ids(queue_tasks \o queue_tasks_deferred)
                 = Ids(queue_tasks) \cup Ids(queue_tasks_deferred)
            /\ Once(queue_tasks \o queue_tasks_deferred)
        BY <1>0, <3>1, ConcatEntries
      <4>2. notify_slot_changed = queue_tasks \o queue_tasks_deferred /\ deferred_cleared = <<>>
        BY <3>2 DEF notify_slot_changed, deferred_cleared
      <4>. QED
        BY <4>1, <4>2, EmptyQueue
    <3>3. CASE ~SlotChanged
      BY <1>0, <3>1, <3>3 DEF notify_slot_changed, deferred_cleared
    <3>. QED
      BY <3>2, <3>3
  <2>4. /\ Once(queue_tasks')
        /\ Ids(queue_tasks') \subseteq Ids(notify_slot_changed) \cup {NoTask}
    <3>1. CASE queue_tasks' = notify_slot_changed
      BY <2>3, <3>1
    <3>2. CASE queue_tasks' = Append(notify_slot_changed, NextResponse)
      BY <1>0, <2>3, <3>2, AppendEntry, Entries
    <3>. QED
      BY <2>1, <3>1, <3>2
  <2>5. TaskInOnePlace'
    BY <1>0, <2>1, <2>2, <2>3, <2>4 DEF TaskInOnePlace
  <2>6. NothingNew
    <3>. SUFFICES ASSUME NEW t \in Task, InSystem(t)' PROVE InSystem(t)
      BY DEF NothingNew
    <3>. QED
      BY <2>1, <2>2, <2>3, <2>4 DEF InSystem
  <2>. QED
    BY <2>5, <2>6
<1>10. CASE BatchEnds \/ DecodeLast \/ UnwindCancel
  <2>1. PICK s \in Slot : release(s)
    BY <1>0, <1>10 DEF BatchEnds, DecodeLast, UnwindCancel, Processing, SlotInv, TypeOK, LoopTypes
  <2>2. \A u \in Slot : slots'[u].task \in {slots[u].task, NoTask}
    BY <1>0, <2>1, ReleaseStep
  <2>3. UNCHANGED <<queue_tasks, queue_tasks_deferred, hand>>
    BY <1>10 DEF BatchEnds, DecodeLast, UnwindCancel, DoneWith
  <2>. QED
    BY <1>0, <2>2, <2>3, Shrink
<1>11. CASE DecodePrompt
  <2>1. PICK s \in todo : slots' = [slots EXCEPT ![s] = PromptSlot(@)] /\ DoneWith(s)
    BY <1>11 DEF DecodePrompt
  <2>2. \A u \in Slot : slots'[u].task = slots[u].task
    BY <1>0, <2>1 DEF PromptSlot, SlotInv, TypeOK, LoopTypes, SlotState
  <2>3. UNCHANGED <<queue_tasks, queue_tasks_deferred, hand>>
    BY <2>1 DEF DoneWith
  <2>. QED
    BY <1>0, <2>2, <2>3, Shrink
<1>12. CASE DecodeToken
  <2>1. PICK s \in todo : slots' = [slots EXCEPT ![s] = TokenSlot(@)] /\ DoneWith(s)
    BY <1>12 DEF DecodeToken
  <2>2. \A u \in Slot : slots'[u].task = slots[u].task
    BY <1>0, <2>1 DEF TokenSlot, SlotInv, TypeOK, LoopTypes, SlotState
  <2>3. UNCHANGED <<queue_tasks, queue_tasks_deferred, hand>>
    BY <2>1 DEF DoneWith
  <2>. QED
    BY <1>0, <2>2, <2>3, Shrink
<1>13. CASE UnwindFail
  <2>1. PICK s \in todo : slots' = [slots EXCEPT ![s] = ReleasedSlot(@)] /\ DoneWith(s)
    BY <1>13 DEF UnwindFail
  <2>2. s \in Slot
    BY <1>0, <2>1 DEF SlotInv, TypeOK, LoopTypes
  <2>3. ReleasedSlot(slots[s]) \in SlotState /\ ReleasedSlot(slots[s]).task = NoTask
    BY <1>0, <2>2, Released
  <2>4. slots'[s].task = NoTask /\ \A u \in Slot : u # s => slots'[u] = slots[u]
    BY <1>0, <2>1, <2>2, <2>3, OneSlot
  <2>5. UNCHANGED <<queue_tasks, queue_tasks_deferred, hand>>
    BY <2>1 DEF DoneWith
  <2>. QED
    BY <1>0, <2>4, <2>5, Shrink
<1>14. CASE Heartbeat
  <2>1. UNCHANGED <<hand, slots>>
    BY <1>14 DEF Heartbeat
  <2>2. CASE UNCHANGED <<queue_tasks, queue_tasks_deferred>>
    BY <1>0, <2>1, <2>2, Shrink
  <2>3. CASE queue_tasks' = queue_tasks_deferred /\ queue_tasks_deferred' = <<>>
    <3>1. Ids(queue_tasks_deferred') = {} /\ Once(queue_tasks_deferred')
      BY <2>3, EmptyQueue
    <3>2. TaskInOnePlace'
      BY <1>0, <2>1, <2>3, <3>1 DEF TaskInOnePlace
    <3>3. NothingNew
      BY <2>1, <2>3, <3>1 DEF NothingNew, InSystem
    <3>. QED
      BY <3>2, <3>3
  <2>. QED
    BY <1>14, <2>2, <2>3 DEF Heartbeat
<1>. QED
  BY <1>1, <1>2, <1>3, <1>4, <1>5, <1>6, <1>7, <1>8, <1>9, <1>10, <1>11, <1>12, <1>13, <1>14
  DEF MainLoop, process_single_task, update_slots

(* A step that adds no task, and moves no client to where it posts, keeps   *)
(* NotYetPosted.                                                            *)
LEMMA NotYetKept ==
  ASSUME SlotInv, NotYetPosted, NothingNew,
         \A c \in Client : left'[c] \subseteq Owned(c),
         \A c \in Client : pc'[c] = "start" => pc[c] = "start",
         \A c \in Client : pc'[c] = "post" =>
           \/ pc[c] = "start"
           \/ pc[c] = "post" /\ left'[c] \subseteq left[c]
  PROVE  NotYetPosted'
<1>. SUFFICES ASSUME NEW c \in Client
              PROVE  /\ pc'[c] = "start" => \A t \in Owned(c) : ~InSystem(t)'
                     /\ pc'[c] = "post" => \A t \in left'[c] : ~InSystem(t)'
  BY DEF NotYetPosted, Owned
<1>1. \A t \in Owned(c) : InSystem(t)' => InSystem(t)
  BY DEF NothingNew, Owned
<1>2. left'[c] \subseteq Owned(c)
  OBVIOUS
<1>. QED
  BY <1>1, <1>2 DEF NotYetPosted

(* The loop does not touch the clients.                                     *)
LEMMA ClientsAside ==
  ASSUME MainLoop \/ terminate \/ UNCHANGED vars
  PROVE  UNCHANGED clientVars
BY DEF MainLoop, process_single_task, update_slots, StartLoop, PopTask, ProcessLaunch,
   ProcessLaunchFails, ProcessDefer, ProcessCancel, ProcessNextResponse, ProcessMetrics,
   ProcessSlotAction, Processed, UpdateSlots, BatchEnds, BatchReady, DecodePrompt, DecodeToken,
   DecodeLast, DecodeAborted, UnwindCancel, DecodeFailed, UnwindFail, DoneWith, WaitForTask,
   Heartbeat, Wake, terminate, vars

(* A post adds a task that was nowhere, a CANCEL only takes tasks out, and  *)
(* the other steps of a client leave the places alone.                      *)
LEMMA PlaceClient ==
  ASSUME PlaceInv, NEW c \in Client, ClientStep(c) \/ Disconnect(c)
  PROVE  TaskInOnePlace' /\ NotYetPosted'
<1>. USE DEF queueVars, resultVars, loopVars, clientVars
<1>0. /\ SlotInv /\ TaskInOnePlace /\ NotYetPosted
      /\ Once(queue_tasks) /\ Once(queue_tasks_deferred)
      /\ queue_tasks \in Seq(Entry) /\ queue_tasks_deferred \in Seq(Entry)
      /\ pc \in [Client -> ClientState] /\ left \in [Client -> SUBSET Task]
  BY PlaceTypes DEF PlaceInv, TaskInOnePlace, SlotInv, TypeOK, ClientTypes
<1>1. CASE post(c)
  <2>1. PICK t \in left[c] :
          /\ queue_tasks' = Append(queue_tasks, Work(t))
          /\ left' = [left EXCEPT ![c] = @ \ {t}]
          /\ pc' = pc \/ \E w \in {"register", "recv"} : Goto(c, w)
    BY <1>1 DEF post
  <2>2. pc[c] = "post" /\ UNCHANGED <<queue_tasks_deferred, hand, slots>>
    BY <1>1 DEF post
  <2>3. t \in Task /\ t \in Owned(c) /\ ~InSystem(t)
    BY <1>0, <2>1, <2>2 DEF NotYetPosted
  <2>4. Ids(queue_tasks') = Ids(queue_tasks) \cup {t} /\ Once(queue_tasks')
    <3>1. Work(t) \in Entry /\ Work(t).id = t /\ t \notin Ids(queue_tasks)
      BY <2>3, Entries DEF InSystem
    <3>. QED
      BY <1>0, <2>1, <3>1, AppendEntry
  <2>5. TaskInOnePlace'
    BY <1>0, <2>2, <2>3, <2>4 DEF TaskInOnePlace, InSystem
  <2>6. \A u \in Task : InSystem(u)' => InSystem(u) \/ u = t
    <3>. SUFFICES ASSUME NEW u \in Task, InSystem(u)', u # t PROVE InSystem(u)
      OBVIOUS
    <3>. QED
      BY <2>2, <2>4 DEF InSystem
  <2>7. ASSUME NEW d \in Client
        PROVE  /\ left'[d] \subseteq Owned(d)
               /\ pc'[d] = "start" => \A u \in Owned(d) : ~InSystem(u)'
               /\ pc'[d] = "post" => \A u \in left'[d] : ~InSystem(u)'
    <3>1. CASE d = c
      <4>1. left'[c] = left[c] \ {t} /\ pc'[c] # "start"
        BY <1>0, <2>1, <2>2 DEF Goto
      <4>2. \A u \in left'[c] : u \in Task /\ ~InSystem(u) /\ u # t /\ u \in Owned(c)
        BY <1>0, <2>2, <4>1 DEF NotYetPosted
      <4>. QED
        BY <2>6, <3>1, <4>1, <4>2
    <3>2. CASE d # c
      <4>1. left'[d] = left[d] /\ pc'[d] = pc[d]
        BY <1>0, <2>1, <3>2 DEF Goto
      <4>2. \A u \in Owned(d) : u \in Task /\ u # t
        BY <2>3, <3>2 DEF Owned
      <4>. QED
        BY <1>0, <2>6, <4>1, <4>2 DEF NotYetPosted
    <3>. QED
      BY <3>1, <3>2
  <2>8. NotYetPosted'
    BY <2>7 DEF NotYetPosted, Owned
  <2>. QED
    BY <2>5, <2>8
<1>2. CASE PostCancel(c)
  <2>1. PICK t \in left[c] :
          /\ queue_tasks' = <<Cancel(t)>> \o cleanup_pending_task(queue_tasks, t)
          /\ queue_tasks_deferred' = cleanup_pending_task(queue_tasks_deferred, t)
          /\ left' = [left EXCEPT ![c] = @ \ {t}]
          /\ pc' = pc \/ Goto(c, "done")
    BY <1>2 DEF PostCancel
  <2>2. pc[c] = "cancel" /\ UNCHANGED <<hand, slots>>
    BY <1>2 DEF PostCancel
  <2>3. t \in Task
    BY <1>0
  <2>4. /\ cleanup_pending_task(queue_tasks, t) \in Seq(Entry)
        /\ Once(cleanup_pending_task(queue_tasks, t))
        /\ Ids(cleanup_pending_task(queue_tasks, t)) \subseteq Ids(queue_tasks)
        /\ Once(queue_tasks_deferred')
        /\ Ids(queue_tasks_deferred') \subseteq Ids(queue_tasks_deferred)
    BY <1>0, <2>1, <2>3, CleanupEntry
  <2>5. /\ Once(queue_tasks') /\ Ids(queue_tasks') \subseteq Ids(queue_tasks) \cup {NoTask}
    BY <2>1, <2>3, <2>4, PushCancel
  <2>6. TaskInOnePlace' /\ NothingNew
    BY <1>0, <2>2, <2>4, <2>5, Shrink
  <2>7. \A d \in Client : /\ left'[d] \subseteq left[d]
                          /\ pc'[d] \in {"start", "post"} => pc'[d] = pc[d]
    BY <1>0, <2>1 DEF Goto
  <2>8. NotYetPosted'
    BY <1>0, <2>6, <2>7, NotYetKept DEF NotYetPosted
  <2>. QED
    BY <2>6, <2>8
<1>3. CASE AddWaiting(c) \/ StartSlotAction(c)
  <2>1. /\ UNCHANGED <<queue_tasks, queue_tasks_deferred, hand, slots>>
        /\ pc[c] = "start" /\ left' = [left EXCEPT ![c] = Owned(c)] /\ Goto(c, "post")
    BY <1>3 DEF AddWaiting, StartSlotAction, ResultStep
  <2>2. TaskInOnePlace' /\ NothingNew
    BY <1>0, <2>1, Shrink
  <2>3. \A d \in Client : /\ left'[d] \subseteq Owned(d)
                          /\ pc'[d] = "start" => pc[d] = "start"
                          /\ pc'[d] = "post" =>
                               \/ pc[d] = "start"
                               \/ pc[d] = "post" /\ left'[d] \subseteq left[d]
    BY <1>0, <2>1 DEF Goto, NotYetPosted
  <2>. QED
    BY <1>0, <2>2, <2>3, NotYetKept
<1>4. CASE \/ Register(c) \/ LegacyRecv(c) \/ ReaderRecv(c) \/ ReaderTimeout(c)
           \/ CheckSlots(c) \/ llama_decode_stop(c) \/ Stop(c) \/ Disconnect(c)
  <2>1. UNCHANGED <<queue_tasks, queue_tasks_deferred, hand, slots>>
    BY <1>4 DEF Register, LegacyRecv, ReaderRecv, ReaderTimeout, CheckSlots, llama_decode_stop,
       Stop, Disconnect, ResultStep
  <2>2. TaskInOnePlace' /\ NothingNew
    BY <1>0, <2>1, Shrink
  <2>3. pc' = pc \/ \E w \in {"recv", "stop", "check", "abort", "cancel", "done"} : Goto(c, w)
    BY <1>4 DEF Register, LegacyRecv, ReaderRecv, Delivered, ReaderTimeout, CheckSlots,
       llama_decode_stop, Stop, Disconnect
  <2>4. left' = left \/ (Goto(c, "cancel") /\ left' = [left EXCEPT ![c] = Owned(c)])
    BY <1>4 DEF Register, LegacyRecv, ReaderRecv, ReaderTimeout, CheckSlots,
       llama_decode_stop, Stop, Disconnect
  <2>5. \A d \in Client : /\ left'[d] \subseteq Owned(d)
                          /\ pc'[d] \in {"start", "post"} =>
                               pc'[d] = pc[d] /\ left'[d] = left[d]
    BY <1>0, <2>3, <2>4 DEF Goto, NotYetPosted
  <2>. QED
    BY <1>0, <2>2, <2>5, NotYetKept
<1>. QED
  BY <1>1, <1>2, <1>3, <1>4 DEF ClientStep

(* The invariant is inductive.                                              *)
LEMMA PlaceInvStep ==
  ASSUME PlaceInv, [Next]_vars
  PROVE  PlaceInv'
<1>1. SlotInv'
  BY SlotInvStep DEF PlaceInv
<1>2. CASE MainLoop \/ terminate \/ UNCHANGED vars
  <2>1. TaskInOnePlace' /\ NothingNew
    <3>1. CASE MainLoop
      BY <3>1, PlaceLoop
    <3>2. CASE terminate \/ UNCHANGED vars
      <4>1. UNCHANGED <<queue_tasks, queue_tasks_deferred, hand, slots>>
        BY <3>2 DEF terminate, vars, queueVars, loopVars
      <4>. QED
        BY <4>1, Shrink DEF PlaceInv, TaskInOnePlace
    <3>. QED
      BY <1>2, <3>1, <3>2
  <2>2. UNCHANGED <<pc, left>>
    BY <1>2, ClientsAside DEF clientVars
  <2>3. NotYetPosted'
    BY <2>1, <2>2, NotYetKept DEF PlaceInv, NotYetPosted
  <2>. QED
    BY <1>1, <2>1, <2>3 DEF PlaceInv
<1>3. ASSUME NEW c \in Client, ClientStep(c) \/ Disconnect(c)
      PROVE  PlaceInv'
  BY <1>1, <1>3, PlaceClient DEF PlaceInv
<1>. QED
  BY <1>2, <1>3 DEF Next

(* Initially no task is anywhere.                                           *)
LEMMA PlaceInvInit ==
  ASSUME Init
  PROVE  PlaceInv
<1>1. SlotInv
  BY SlotInvInit
<1>2. /\ Ids(queue_tasks) = {} /\ Ids(queue_tasks_deferred) = {} /\ hand.id = NoTask
      /\ Once(queue_tasks) /\ Once(queue_tasks_deferred)
      /\ \A s \in Slot : slots[s].task = NoTask
  BY EmptyQueue DEF Init, NextResponse
<1>3. TaskInOnePlace
  BY <1>2 DEF TaskInOnePlace
<1>4. \A t \in Task : ~InSystem(t)
  BY <1>2 DEF InSystem
<1>5. NotYetPosted
  BY <1>4 DEF Init, NotYetPosted, Owned
<1>. QED
  BY <1>1, <1>3, <1>5 DEF PlaceInv

(* Whatever the interleaving of posts, CANCELs, deferrals, the pump and     *)
(* releases, a task is in one place at a time: start_loop, defer,           *)
(* notify_slot_changed and launch_slot_with_task move tasks and never copy  *)
(* them.                                                                    *)
THEOREM NoTaskTwice == Spec => []TaskInOnePlace
<1>1. Init => PlaceInv
  BY PlaceInvInit
<1>2. PlaceInv /\ [Next]_vars => PlaceInv'
  BY PlaceInvStep
<1>3. PlaceInv => TaskInOnePlace
  BY DEF PlaceInv
<1>. QED
  BY <1>1, <1>2, <1>3, PTL DEF Spec

(***************************************************************************)
(* What becomes of a task: it leaves the server with one final or error    *)
(* result, or because its client has gone, and a client that waits for it  *)
(* finds that result.                                                      *)
(***************************************************************************)

(***************************************************************************)
(* What a step of the main loop does to the tasks and the results.         *)
(***************************************************************************)
(* Only generations are launched.                                           *)
Generating == \A s \in Slot : slots[s].task # NoTask => CreatesGeneration(slots[s].task)

(* The step leaves task u in the server, on its slot if it has one.         *)
Kept(u) ==
  /\ InSystem(u) => InSystem(u)'
  /\ \A s \in Slot : slots[s].task = u => slots'[s].task = u

(* Task t leaves, and no other.                                             *)
Leaves1(t) == InSystem(t) /\ ~InSystem(t)' /\ \A u \in Task \ {t} : Kept(u)

(* The final or error result of t is sent: to the queue its client reads,   *)
(* unless it is the error of a slot action.                                 *)
Sent(t) ==
  /\ UNCHANGED waiting_task_ids
  /\ n_terminal' = [n_terminal EXCEPT ![t] = @ + 1]
  /\ \/ /\ Kind[Owner[t]] # "metrics" /\ UNCHANGED queue_results_legacy
        /\ \E kind \in {"final", "error"} :
             queue_results' = send(queue_results, waiting_task_ids, t, kind)
     \/ /\ ~IsReader(Owner[t]) /\ UNCHANGED queue_results
        /\ queue_results_legacy' = send(queue_results_legacy, waiting_task_ids, t, "final")

Ends(t) == Leaves1(t) /\ Sent(t)

(* Nothing leaves and nothing is sent, but for a token of a stream.         *)
Quiet ==
  /\ \A u \in Task : Kept(u)
  /\ UNCHANGED <<waiting_task_ids, queue_results_legacy, n_terminal>>
  /\ \/ UNCHANGED queue_results
     \/ \E t \in Task : queue_results' = send(queue_results, waiting_task_ids, t, "partial")

(* The target of a CANCEL leaves, without a result.                         *)
Cancels ==
  /\ \A u \in Task : u # hand.id_target => Kept(u)
  /\ NoSend

(* The unwinding of a failed decode reaches a slot that has no task: the    *)
(* error goes to the task it had last.                                      *)
Stray ==
  /\ loop = "unwind_fail" /\ ~(todo \subseteq Processing)
  /\ \A u \in Task : Kept(u)
  /\ \E t : send_error(t)

(* A step that moves tasks without losing any.                              *)
LEMMA AllKept ==
  ASSUME \A s \in Slot : slots'[s].task = slots[s].task \/ slots[s].task = NoTask,
         \A u \in Task : u \in Ids(queue_tasks) \cup Ids(queue_tasks_deferred) \cup {hand.id} =>
           \/ u \in Ids(queue_tasks') \cup Ids(queue_tasks_deferred') \cup {hand'.id}
           \/ \E s \in Slot : slots'[s].task = u
  PROVE  \A u \in Task : Kept(u)
<1>. TAKE u \in Task
<1>1. \A s \in Slot : slots[s].task = u => slots'[s].task = u
  OBVIOUS
<1>2. InSystem(u) => InSystem(u)'
  BY <1>1 DEF InSystem
<1>. QED
  BY <1>1, <1>2 DEF Kept

(* The loop is through with the task in its hand.                           *)
LEMMA HandLeaves ==
  ASSUME PlaceInv, NEW t \in Task, hand.id = t, hand' = NextResponse,
         UNCHANGED <<queue_tasks, queue_tasks_deferred>>,
         \A s \in Slot : slots'[s].task = slots[s].task
  PROVE  Leaves1(t)
<1>1. hand'.id = NoTask
  BY DEF NextResponse
<1>2. \A u \in Task \ {t} : Kept(u)
  BY DEF Kept, InSystem
<1>3. InSystem(t)
  BY DEF InSystem
<1>4. ~InSystem(t)'
  <2>1. t \notin Ids(queue_tasks') /\ t \notin Ids(queue_tasks_deferred') /\ hand'.id # t
    BY <1>1 DEF PlaceInv, TaskInOnePlace
  <2>2. \A s \in Slot : slots'[s].task # t
    BY DEF PlaceInv, TaskInOnePlace
  <2>. QED
    BY <2>1, <2>2 DEF InSystem
<1>. QED
  BY <1>2, <1>3, <1>4 DEF Leaves1

(* A slot gives up its task.                                                *)
LEMMA SlotLeaves ==
  ASSUME PlaceInv, NEW s \in Slot, NEW t \in Task, slots[s].task = t,
         slots'[s].task = NoTask, \A u \in Slot : u # s => slots'[u] = slots[u],
         UNCHANGED <<queue_tasks, queue_tasks_deferred, hand>>
  PROVE  Leaves1(t)
<1>1. \A u \in Task \ {t} : Kept(u)
  <2>. TAKE u \in Task \ {t}
  <2>1. \A r \in Slot : slots[r].task = u => slots'[r].task = u
    OBVIOUS
  <2>. QED
    BY <2>1 DEF Kept, InSystem
<1>2. InSystem(t)
  BY DEF InSystem
<1>3. ~InSystem(t)'
  <2>1. t \notin Ids(queue_tasks) /\ t \notin Ids(queue_tasks_deferred) /\ hand.id # t
    BY DEF PlaceInv, TaskInOnePlace
  <2>2. \A r \in Slot : slots'[r].task # t
    BY DEF PlaceInv, TaskInOnePlace
  <2>. QED
    BY <2>1, <2>2 DEF InSystem
<1>. QED
  BY <1>1, <1>2, <1>3 DEF Leaves1

(* A slot that is processing ends its request with a result and is released.*)
LEMMA ReleaseEnds ==
  ASSUME PlaceInv, Generating, NEW s \in Slot, is_processing(slots[s]),
         slots'[s].task = NoTask, \A u \in Slot : u # s => slots'[u] = slots[u],
         UNCHANGED <<queue_tasks, queue_tasks_deferred, hand>>,
         \/ send_error(slots[s].id_task)
         \/ send_final_response(slots[s].task)
  PROVE  \E t \in Task : Ends(t)
<1>. DEFINE t == slots[s].task
<1>1. t \in Task /\ slots[s].id_task = t
  BY PlaceTypes DEF PlaceInv, SlotInv, SlotsOK
<1>2. IsReader(Owner[t]) /\ Owner[t] \in Client
  BY <1>1 DEF Generating, CreatesGeneration
<1>3. send_error(t) \/ send_final_response(t)
  BY <1>1
<1>. HIDE DEF t
<1>4. Sent(t)
  BY <1>1, <1>2, <1>3 DEF Sent, send_error, send_final_response, Terminal, IsReader
<1>5. slots[s].task = t
  BY DEF t
<1>6. Leaves1(t)
  BY <1>1, <1>5, SlotLeaves
<1>. QED
  BY <1>1, <1>4, <1>6 DEF Ends

(* Every step of the main loop is of one of these kinds.                    *)
LEMMA LoopEffect ==
  ASSUME PlaceInv, Generating, MainLoop
  PROVE  /\ Generating'
         /\ Quiet \/ Stray \/ Cancels \/ \E t \in Task : Ends(t)
<1>. USE DEF queueVars, resultVars, loopVars, clientVars, NoSend
<1>. HIDE DEF MainLoop
<1>0. /\ SlotInv /\ TaskInOnePlace /\ todo \subseteq Slot
      /\ queue_tasks \in Seq(Entry) /\ queue_tasks_deferred \in Seq(Entry)
      /\ hand \in Entry /\ hand.id \in Task \cup {NoTask} /\ NextResponse.id = NoTask
      /\ \A s \in Slot : slots[s] \in SlotState /\ slots[s].task \in Task \cup {NoTask}
  BY PlaceTypes DEF PlaceInv, NextResponse, SlotInv, TypeOK, LoopTypes
<1>a. ASSUME \A s \in Slot : slots'[s].task \in {slots[s].task, NoTask}
      PROVE  Generating'
  BY <1>a DEF Generating, CreatesGeneration
<1>1. CASE StartLoop \/ BatchReady \/ DecodeAborted \/ DecodeFailed \/ WaitForTask \/ Wake
  <2>1. UNCHANGED <<queue_tasks, queue_tasks_deferred, hand, slots, resultVars, n_terminal>>
    BY <1>1 DEF StartLoop, BatchReady, DecodeAborted, DecodeFailed, WaitForTask, Wake
  <2>2. Quiet
    BY <2>1, AllKept DEF Quiet
  <2>. QED
    BY <1>a, <2>1, <2>2
<1>2. CASE PopTask
  <2>1. UNCHANGED <<queue_tasks_deferred, slots, resultVars, n_terminal>> /\ loop = "pop"
    BY <1>2 DEF PopTask
  <2>2. hand.id = NoTask
    BY <1>0, <2>1 DEF SlotInv, TypeOK
  <2>3. Ids(queue_tasks) \subseteq Ids(queue_tasks') \cup {hand'.id}
    <3>1. CASE queue_tasks = <<>>
      BY <1>2, <3>1 DEF PopTask
    <3>2. CASE queue_tasks # <<>>
      BY <1>0, <1>2, <3>2, PopEntry DEF PopTask
    <3>. QED
      BY <3>1, <3>2
  <2>4. Quiet
    BY <2>1, <2>2, <2>3, AllKept DEF Quiet
  <2>. QED
    BY <1>a, <2>1, <2>4
<1>3. CASE ProcessLaunch
  <2>1. PICK s \in SlotsFor(hand.id) : slots' = [slots EXCEPT ![s] = LaunchedSlot(@, hand.id)]
    BY <1>3 DEF ProcessLaunch
  <2>2. /\ hand.id \in Task /\ s \in Slot /\ CreatesGeneration(hand.id)
        /\ available(slots[s])
    BY <1>0, <1>3, Entries DEF ProcessLaunch, HandIsGeneration, SlotsFor
  <2>3. LaunchedSlot(slots[s], hand.id) \in SlotState /\ LaunchedSlot(slots[s], hand.id).task = hand.id
    BY <1>0, <2>2, SlotSteps
  <2>4. slots'[s].task = hand.id /\ \A u \in Slot : u # s => slots'[u] = slots[u]
    BY <1>0, <2>1, <2>2, <2>3, OneSlot
  <2>5. slots[s].task = NoTask
    BY <1>0, <2>2 DEF SlotInv, SlotsOK, available, is_processing
  <2>6. UNCHANGED <<queue_tasks, queue_tasks_deferred, resultVars, n_terminal>>
    BY <1>3 DEF ProcessLaunch, Processed
  <2>7. Quiet
    BY <2>2, <2>4, <2>5, <2>6, AllKept DEF Quiet
  <2>8. Generating'
    BY <2>2, <2>4 DEF Generating, CreatesGeneration
  <2>. QED
    BY <2>7, <2>8
<1>4. CASE ProcessLaunchFails
  <2>1. PICK s \in SlotsFor(hand.id) : slots' = [slots EXCEPT ![s] = ResetFor(@, hand.id)]
    BY <1>4 DEF ProcessLaunchFails
  <2>2. hand.id \in Task /\ s \in Slot /\ CreatesGeneration(hand.id)
    BY <1>0, <1>4, Entries DEF ProcessLaunchFails, HandIsGeneration, SlotsFor
  <2>3. /\ ResetFor(slots[s], hand.id) \in SlotState
        /\ ResetFor(slots[s], hand.id).task = slots[s].task
    BY <1>0, <2>2, SlotRecords
  <2>4. slots'[s].task = slots[s].task /\ \A u \in Slot : u # s => slots'[u] = slots[u]
    BY <1>0, <2>1, <2>2, <2>3, OneSlot
  <2>5. hand' = NextResponse /\ UNCHANGED <<queue_tasks, queue_tasks_deferred>>
    BY <1>0, <1>4 DEF ProcessLaunchFails, Processed
  <2>6. PICK t \in Task : t = hand.id
    BY <2>2
  <2>7. Leaves1(t)
    BY <2>4, <2>5, <2>6, HandLeaves
  <2>8. send_error(t)
    BY <1>4, <2>6 DEF ProcessLaunchFails
  <2>9. Sent(t)
    BY <2>2, <2>6, <2>8 DEF Sent, send_error, Terminal, CreatesGeneration, IsReader
  <2>. QED
    BY <1>a, <2>4, <2>7, <2>9 DEF Ends
<1>5. CASE ProcessDefer
  <2>1. /\ queue_tasks_deferred' = Append(queue_tasks_deferred, hand)
        /\ UNCHANGED <<queue_tasks, slots, resultVars, n_terminal>>
    BY <1>5 DEF ProcessDefer, Processed, defer
  <2>2. Ids(queue_tasks_deferred') = Ids(queue_tasks_deferred) \cup {hand.id}
    BY <1>0, <2>1, AppendEntry
  <2>3. Quiet
    BY <2>1, <2>2, AllKept DEF Quiet
  <2>. QED
    BY <1>a, <2>1, <2>3
<1>6. CASE ProcessCancel
  <2>1. /\ hand.type = "CANCEL" /\ hand' = NextResponse
        /\ UNCHANGED <<queue_tasks, queue_tasks_deferred>> /\ NoSend
    BY <1>6 DEF ProcessCancel, Processed
  <2>2. hand.id = NoTask
    BY <1>0, <2>1, Entries
  <2>3. \A u \in Slot : \/ slots'[u].task = slots[u].task
                        \/ slots'[u].task = NoTask /\ slots[u].task = hand.id_target
    <3>1. ASSUME NEW s \in Slot, release(s), slots[s].task = hand.id_target
          PROVE  \A u \in Slot : \/ slots'[u].task = slots[u].task
                                 \/ slots'[u].task = NoTask /\ slots[u].task = hand.id_target
      <4>1. slots'[s].task = NoTask /\ \A u \in Slot : u # s => slots'[u] = slots[u]
        BY <1>0, <3>1, ReleaseStep
      <4>. QED
        BY <3>1, <4>1
    <3>2. CASE slots' = slots
      BY <3>2
    <3>3. \/ slots' = slots
          \/ \E s \in Slot : release(s) /\ slots[s].task = hand.id_target
      BY <1>6 DEF ProcessCancel
    <3>. QED
      BY <3>1, <3>2, <3>3
  <2>4. ASSUME NEW u \in Task, u # hand.id_target
        PROVE  Kept(u)
    <3>1. \A s \in Slot : slots[s].task = u => slots'[s].task = u
      BY <2>3, <2>4
    <3>2. InSystem(u) => InSystem(u)'
      BY <2>1, <2>2, <3>1 DEF InSystem
    <3>. QED
      BY <3>1, <3>2 DEF Kept
  <2>5. Cancels
    BY <2>1, <2>4 DEF Cancels
  <2>. QED
    BY <1>a, <2>3, <2>5
<1>7. CASE ProcessNextResponse
  <2>1. /\ hand.type = "NEXT_RESPONSE"
        /\ UNCHANGED <<queue_tasks, queue_tasks_deferred, slots, resultVars, n_terminal>>
    BY <1>7 DEF ProcessNextResponse, Processed
  <2>2. hand.id = NoTask
    BY <1>0, <2>1, Entries
  <2>3. Quiet
    BY <2>1, <2>2, AllKept DEF Quiet
  <2>. QED
    BY <1>a, <2>1, <2>3
<1>8. CASE ProcessMetrics \/ ProcessSlotAction
  <2>1. /\ hand.type = "WORK" /\ hand' = NextResponse /\ UNCHANGED <<queue_tasks, slots>>
        /\ ~IsReader(Owner[hand.id])
    BY <1>8 DEF ProcessMetrics, ProcessSlotAction, Processed, IsReader
  <2>2. PICK t \in Task : t = hand.id
    BY <1>0, <2>1, Entries
  <2>3. CASE defer /\ NoSend
    <3>1. Ids(queue_tasks_deferred') = Ids(queue_tasks_deferred) \cup {hand.id}
      BY <1>0, <2>3, AppendEntry DEF defer
    <3>2. Quiet
      BY <2>1, <2>3, <3>1, AllKept DEF Quiet
    <3>. QED
      BY <1>a, <2>1, <3>2
  <2>4. CASE /\ UNCHANGED queue_tasks_deferred
             /\ send_legacy(t) \/ (send_error(t) /\ Kind[Owner[t]] = "slot")
    <3>1. Leaves1(t)
      BY <2>1, <2>2, <2>4, HandLeaves
    <3>2. Sent(t)
      BY <2>1, <2>2, <2>4 DEF Sent, send_error, send_legacy, Terminal
    <3>. QED
      BY <1>a, <2>1, <3>1, <3>2 DEF Ends
  <2>. QED
    BY <1>8, <2>2, <2>3, <2>4 DEF ProcessMetrics, ProcessSlotAction
<1>9. CASE UpdateSlots
  <2>1. /\ slots' = release_slots /\ hand' = hand /\ UNCHANGED <<resultVars, n_terminal>>
        /\ queue_tasks_deferred' = deferred_cleared
        /\ \/ queue_tasks' = notify_slot_changed
           \/ queue_tasks' = Append(notify_slot_changed, NextResponse)
    BY <1>9 DEF UpdateSlots
  <2>2. \A s \in Slot : slots'[s].task = slots[s].task
    BY <1>0, <2>1, ReleaseSlotsStep
  <2>3. notify_slot_changed \in Seq(Entry)
    BY <1>0, NotifyTypes DEF SlotInv
  <2>4. Ids(queue_tasks) \cup Ids(queue_tasks_deferred)
          \subseteq Ids(notify_slot_changed) \cup Ids(deferred_cleared)
    BY <1>0, ConcatEntries DEF notify_slot_changed, deferred_cleared
  <2>5. Ids(notify_slot_changed) \subseteq Ids(queue_tasks')
    <3>1. NextResponse \in Entry
      BY Entries
    <3>2. Ids(Append(notify_slot_changed, NextResponse)) = Ids(notify_slot_changed) \cup {NextResponse.id}
      BY ONLY <2>3, <3>1, AppendEntry
    <3>3. CASE queue_tasks' = notify_slot_changed
      BY ONLY <3>3
    <3>4. CASE queue_tasks' = Append(notify_slot_changed, NextResponse)
      BY ONLY <3>2, <3>4
    <3>. QED
      BY ONLY <2>1, <3>3, <3>4
  <2>6. Quiet
    BY <2>1, <2>2, <2>4, <2>5, AllKept DEF Quiet
  <2>. QED
    BY <1>a, <2>2, <2>6
<1>10. CASE BatchEnds \/ DecodeLast \/ UnwindCancel
  <2>1. PICK s \in Slot : /\ is_processing(slots[s]) /\ release(s)
                          /\ \/ send_error(slots[s].id_task)
                             \/ send_final_response(slots[s].task)
    BY <1>0, <1>10 DEF BatchEnds, DecodeLast, UnwindCancel, Processing, SlotInv, SlotsOK
  <2>2. slots'[s].task = NoTask /\ \A u \in Slot : u # s => slots'[u] = slots[u]
    BY <1>0, <2>1, ReleaseStep
  <2>3. UNCHANGED <<queue_tasks, queue_tasks_deferred, hand>>
    BY <1>10 DEF BatchEnds, DecodeLast, UnwindCancel, DoneWith
  <2>4. \E t \in Task : Ends(t)
    BY <2>1, <2>2, <2>3, ReleaseEnds
  <2>. QED
    BY <1>a, <2>2, <2>4
<1>11. CASE DecodePrompt
  <2>1. PICK s \in todo : slots' = [slots EXCEPT ![s] = PromptSlot(@)] /\ DoneWith(s)
    BY <1>11 DEF DecodePrompt
  <2>2. \A u \in Slot : slots'[u].task = slots[u].task
    BY <1>0, <2>1 DEF PromptSlot, SlotInv, TypeOK, LoopTypes, SlotState
  <2>3. UNCHANGED <<queue_tasks, queue_tasks_deferred, hand, resultVars, n_terminal>>
    BY <1>11, <2>1 DEF DoneWith, DecodePrompt
  <2>4. Quiet
    BY <2>2, <2>3, AllKept DEF Quiet
  <2>. QED
    BY <1>a, <2>2, <2>4
<1>12. CASE DecodeToken
  <2>1. PICK s \in todo :
          /\ slots' = [slots EXCEPT ![s] = TokenSlot(@)] /\ DoneWith(s)
          /\ is_processing(slots[s])
          /\ send_partial_response(slots[s].task) \/ NoSend
    BY <1>12 DEF DecodeToken
  <2>2. \A u \in Slot : slots'[u].task = slots[u].task
    BY <1>0, <2>1 DEF TokenSlot, SlotInv, TypeOK, LoopTypes, SlotState
  <2>3. UNCHANGED <<queue_tasks, queue_tasks_deferred, hand>>
    BY <2>1 DEF DoneWith
  <2>4. \A u \in Task : Kept(u)
    BY <2>2, <2>3, AllKept
  <2>5. slots[s].task \in Task
    BY <1>0, <2>1 DEF SlotInv, SlotsOK
  <2>6. Quiet
    BY <2>1, <2>4, <2>5 DEF Quiet, send_partial_response
  <2>. QED
    BY <1>a, <2>2, <2>6
<1>13. CASE UnwindFail
  <2>1. PICK s \in todo : /\ slots' = [slots EXCEPT ![s] = ReleasedSlot(@)] /\ DoneWith(s)
                          /\ send_error(slots[s].id_task)
    BY <1>13 DEF UnwindFail
  <2>2. s \in Slot
    BY <1>0, <2>1
  <2>3. ReleasedSlot(slots[s]) \in SlotState /\ ReleasedSlot(slots[s]).task = NoTask
    BY <1>0, <2>2, Released
  <2>4. slots'[s].task = NoTask /\ \A u \in Slot : u # s => slots'[u] = slots[u]
    BY <1>0, <2>1, <2>2, <2>3, OneSlot
  <2>5. UNCHANGED <<queue_tasks, queue_tasks_deferred, hand>>
    BY <2>1 DEF DoneWith
  <2>6. CASE is_processing(slots[s])
    <3>1. \E t \in Task : Ends(t)
      BY <2>1, <2>2, <2>4, <2>5, <2>6, ReleaseEnds
    <3>. QED
      BY <1>a, <2>4, <3>1
  <2>7. CASE ~is_processing(slots[s])
    <3>1. slots[s].task = NoTask
      BY <1>0, <2>2, <2>7 DEF SlotInv, SlotsOK
    <3>2. \A u \in Task : Kept(u)
      BY <2>4, <2>5, <3>1, AllKept
    <3>3. Stray
      BY <1>13, <2>1, <2>2, <2>7, <3>2 DEF Stray, Processing, UnwindFail
    <3>. QED
      BY <1>a, <2>4, <3>3
  <2>. QED
    BY <2>6, <2>7
<1>14. CASE Heartbeat
  <2>1. UNCHANGED <<hand, slots, resultVars, n_terminal>>
    BY <1>14 DEF Heartbeat
  <2>2. Ids(queue_tasks) \cup Ids(queue_tasks_deferred)
          \subseteq Ids(queue_tasks') \cup Ids(queue_tasks_deferred')
    BY <1>14, EmptyQueue DEF Heartbeat
  <2>3. Quiet
    BY <2>1, <2>2, AllKept DEF Quiet
  <2>. QED
    BY <1>a, <2>1, <2>3
<1>. QED
  BY <1>1, <1>2, <1>3, <1>4, <1>5, <1>6, <1>7, <1>8, <1>9, <1>10, <1>11, <1>12, <1>13, <1>14
  DEF MainLoop, process_single_task, update_slots

(***************************************************************************)
(* Whoever waits will hear.                                                *)
(***************************************************************************)
(* Task t has been pushed to the queue by its client.                       *)
Posted(t) ==
  /\ pc[Owner[t]] # "start"
  /\ pc[Owner[t]] = "post" => t \notin left[Owner[t]]

ReadBy(c) == IF IsReader(c) THEN queue_results ELSE queue_results_legacy

(* There is a CANCEL of t in the server.                                    *)
Targeted(t) ==
  \/ t \in Targets(queue_tasks) \/ t \in Targets(queue_tasks_deferred)
  \/ hand.id_target = t

(* Only clients that have stopped waiting cancel.                           *)
CancelsOfGone == \A t \in Task : Targeted(t) => pc[Owner[t]] \in {"cancel", "done"}

Registered ==
  \A c \in Client :
    /\ pc[c] \in {"cancel", "done"} => waiting_task_ids \cap Owned(c) = {}
    /\ pc[c] = "register" => Kind[c] = "slot"

(* NobodyWaitsForNothing, from the moment a task is posted.                 *)
HeardOf(t) ==
  /\ t \in waiting_task_ids \ got
  /\ Kind[Owner[t]] # "slot" /\ pc[Owner[t]] \in {"post", "recv"} /\ Posted(t)
  => InSystem(t) \/ Answered(ReadBy(Owner[t]), t)

AnswerInv ==
  /\ PlaceInv /\ Generating /\ CancelsOfGone /\ Registered
  /\ \A t \in Task : HeardOf(t)

(* The loop makes no CANCEL.                                                *)
LEMMA LoopTargets ==
  ASSUME PlaceInv, MainLoop
  PROVE  \A t \in Task : Targeted(t)' => Targeted(t)
<1>. USE DEF queueVars, resultVars, loopVars, clientVars, NoSend
<1>. HIDE DEF MainLoop
<1>0. /\ queue_tasks \in Seq(Entry) /\ queue_tasks_deferred \in Seq(Entry)
      /\ hand \in Entry /\ NextResponse.id_target = NoTask
      /\ SlotInv
  BY PlaceTypes, Entries DEF PlaceInv
<1>1. CASE StartLoop \/ BatchReady \/ DecodeAborted \/ DecodeFailed \/ WaitForTask \/ Wake
           \/ BatchEnds \/ DecodeLast \/ UnwindCancel \/ DecodePrompt \/ DecodeToken \/ UnwindFail
  <2>1. UNCHANGED <<queue_tasks, queue_tasks_deferred, hand>>
    BY <1>1 DEF StartLoop, BatchReady, DecodeAborted, DecodeFailed, WaitForTask, Wake, BatchEnds,
       DecodeLast, UnwindCancel, DecodePrompt, DecodeToken, UnwindFail, DoneWith
  <2>. QED
    BY <2>1 DEF Targeted
<1>2. CASE PopTask
  <2>1. queue_tasks_deferred' = queue_tasks_deferred
    BY <1>2 DEF PopTask
  <2>2. Targets(queue_tasks') \cup {hand'.id_target} \subseteq Targets(queue_tasks) \cup {hand.id_target}
    <3>1. CASE queue_tasks = <<>>
      BY <1>2, <3>1 DEF PopTask
    <3>2. CASE queue_tasks # <<>>
      BY <1>0, <1>2, <3>2, PopEntry DEF PopTask
    <3>. QED
      BY <3>1, <3>2
  <2>. QED
    BY <2>1, <2>2 DEF Targeted
<1>3. CASE process_single_task
  <2>1. hand' = NextResponse /\ queue_tasks' = queue_tasks
    BY <1>3 DEF process_single_task, ProcessLaunch, ProcessLaunchFails, ProcessDefer, ProcessCancel,
       ProcessNextResponse, ProcessMetrics, ProcessSlotAction, Processed
  <2>2. \/ queue_tasks_deferred' = queue_tasks_deferred
        \/ queue_tasks_deferred' = Append(queue_tasks_deferred, hand)
    BY <1>3 DEF process_single_task, ProcessLaunch, ProcessLaunchFails, ProcessDefer, ProcessCancel,
       ProcessNextResponse, ProcessMetrics, ProcessSlotAction, defer
  <2>3. Targets(queue_tasks_deferred') \subseteq Targets(queue_tasks_deferred) \cup {hand.id_target}
    BY <1>0, <2>2, AppendEntry
  <2>. QED
    BY <1>0, <2>1, <2>3 DEF Targeted
<1>4. CASE UpdateSlots
  <2>1. /\ hand' = hand /\ queue_tasks_deferred' = deferred_cleared
        /\ \/ queue_tasks' = notify_slot_changed
           \/ queue_tasks' = Append(notify_slot_changed, NextResponse)
    BY <1>4 DEF UpdateSlots
  <2>2. notify_slot_changed \in Seq(Entry)
    BY <1>0, NotifyTypes DEF SlotInv
  <2>3. /\ Targets(notify_slot_changed) \subseteq Targets(queue_tasks) \cup Targets(queue_tasks_deferred)
        /\ Targets(deferred_cleared) \subseteq Targets(queue_tasks_deferred)
    BY <1>0, ConcatEntries, EmptyQueue DEF notify_slot_changed, deferred_cleared
  <2>4. Targets(queue_tasks') \subseteq Targets(notify_slot_changed) \cup {NoTask}
    <3>1. CASE queue_tasks' = notify_slot_changed
      BY <3>1
    <3>2. CASE queue_tasks' = Append(notify_slot_changed, NextResponse)
      BY <2>2, <3>2, AppendEntry, Entries
    <3>. QED
      BY <2>1, <3>1, <3>2
  <2>. QED
    BY <2>1, <2>3, <2>4 DEF Targeted
<1>5. CASE Heartbeat
  <2>1. Targets(queue_tasks') \cup Targets(queue_tasks_deferred')
          \subseteq Targets(queue_tasks) \cup Targets(queue_tasks_deferred)
    BY <1>5, EmptyQueue DEF Heartbeat
  <2>2. hand' = hand
    BY <1>5 DEF Heartbeat
  <2>. QED
    BY <2>1, <2>2 DEF Targeted
<1>. QED
  BY <1>1, <1>2, <1>3, <1>4, <1>5 DEF MainLoop, update_slots

(* What a send does for whoever waits: results are only added.              *)
LEMMA SendsKeep ==
  ASSUME PlaceInv, Quiet \/ Stray \/ Cancels \/ \E t \in Task : Ends(t)
  PROVE  /\ waiting_task_ids' = waiting_task_ids
         /\ \A u \in Task : Answered(queue_results, u) => Answered(queue_results', u)
         /\ \A u \in Task : Answered(queue_results_legacy, u) => Answered(queue_results_legacy', u)
<1>1. /\ queue_results \in Seq(Result) /\ queue_results_legacy \in Seq(Result)
      /\ waiting_task_ids \in SUBSET Task
  BY DEF PlaceInv, SlotInv, TypeOK, ResultTypes
<1>2. /\ waiting_task_ids' = waiting_task_ids
      /\ \/ queue_results' = queue_results
         \/ \E kind \in {"partial", "final", "error"} : \E t :
              queue_results' = send(queue_results, waiting_task_ids, t, kind)
      /\ \/ queue_results_legacy' = queue_results_legacy
         \/ \E t : queue_results_legacy' = send(queue_results_legacy, waiting_task_ids, t, "final")
  <2>1. CASE Quiet \/ Cancels
    BY <2>1 DEF Quiet, Cancels, NoSend, resultVars
  <2>2. CASE Stray
    BY <2>2 DEF Stray, send_error
  <2>3. CASE \E t \in Task : Ends(t)
    BY <2>3 DEF Ends, Sent
  <2>. QED
    BY <2>1, <2>2, <2>3
<1>3. ASSUME NEW q \in Seq(Result), NEW r, NEW u,
             r = q \/ \E kind \in {"partial", "final", "error"} : \E t :
                        r = send(q, waiting_task_ids, t, kind),
             Answered(q, u)
      PROVE  Answered(r, u)
  <2>1. CASE r = q
    BY <1>3, <2>1
  <2>2. ASSUME NEW kind \in {"partial", "final", "error"}, NEW t,
               r = send(q, waiting_task_ids, t, kind)
        PROVE  Answered(r, u)
    BY <1>1, <1>3, <2>2, SendResult
  <2>. QED
    BY <1>3, <2>1, <2>2
<1>4. ASSUME NEW u \in Task
      PROVE  /\ Answered(queue_results, u) => Answered(queue_results', u)
             /\ Answered(queue_results_legacy, u) => Answered(queue_results_legacy', u)
  BY <1>1, <1>2, <1>3
<1>. QED
  BY <1>2, <1>4

(* The same for terminate and a stuttering step.                            *)
LEMMA LoopSide ==
  ASSUME PlaceInv, Generating, MainLoop \/ terminate \/ UNCHANGED vars
  PROVE  /\ Generating'
         /\ Quiet \/ Stray \/ Cancels \/ \E t \in Task : Ends(t)
         /\ \A t \in Task : Targeted(t)' => Targeted(t)
<1>1. CASE MainLoop
  BY <1>1, LoopEffect, LoopTargets
<1>2. CASE terminate \/ UNCHANGED vars
  <2>1. UNCHANGED <<queue_tasks, queue_tasks_deferred, hand, slots, resultVars, n_terminal>>
    BY <1>2 DEF terminate, vars, queueVars, loopVars
  <2>2. Quiet
    BY <2>1, AllKept DEF Quiet, resultVars
  <2>3. \A t \in Task : Targeted(t)' => Targeted(t)
    BY <2>1 DEF Targeted
  <2>4. Generating'
    BY <2>1 DEF Generating, CreatesGeneration
  <2>. QED
    BY <2>2, <2>3, <2>4
<1>. QED
  BY <1>1, <1>2

(* A task that a step leaves alone, with its results and its client.        *)
LEMMA HeardKept ==
  ASSUME NEW u \in Task, HeardOf(u),
         pc'[Owner[u]] = pc[Owner[u]], left'[Owner[u]] = left[Owner[u]],
         u \in waiting_task_ids' => u \in waiting_task_ids, u \in got => u \in got',
         InSystem(u) => InSystem(u)',
         Answered(queue_results, u) => Answered(queue_results', u),
         Answered(queue_results_legacy, u) => Answered(queue_results_legacy', u)
  PROVE  HeardOf(u)'
<1>1. Posted(u)' => Posted(u)
  BY DEF Posted
<1>2. Answered(ReadBy(Owner[u]), u) => Answered(ReadBy(Owner[u]), u)'
  BY DEF ReadBy, IsReader, Answered
<1>. QED
  BY <1>1, <1>2 DEF HeardOf

(* The loop leaves nobody waiting for nothing.                              *)
LEMMA AnswerLoop ==
  ASSUME AnswerInv, MainLoop \/ terminate \/ UNCHANGED vars
  PROVE  Generating' /\ CancelsOfGone' /\ Registered' /\ \A t \in Task : HeardOf(t)'
<1>1. /\ PlaceInv /\ Generating /\ CancelsOfGone /\ Registered
      /\ \A t \in Task : HeardOf(t)
      /\ queue_results \in Seq(Result) /\ queue_results_legacy \in Seq(Result)
      /\ waiting_task_ids \in SUBSET Task
  BY DEF AnswerInv, PlaceInv, SlotInv, TypeOK, ResultTypes
<1>2. pc' = pc /\ left' = left /\ got' = got
  BY ClientsAside DEF clientVars
<1>3. /\ Generating'
      /\ Quiet \/ Stray \/ Cancels \/ \E t \in Task : Ends(t)
      /\ \A t \in Task : Targeted(t)' => Targeted(t)
  BY <1>1, LoopSide
<1>4. /\ waiting_task_ids' = waiting_task_ids
      /\ \A u \in Task : Answered(queue_results, u) => Answered(queue_results', u)
      /\ \A u \in Task : Answered(queue_results_legacy, u) => Answered(queue_results_legacy', u)
  BY <1>1, <1>3, SendsKeep
<1>5. CancelsOfGone' /\ Registered'
  BY <1>1, <1>2, <1>3, <1>4 DEF CancelsOfGone, Registered, Owned
<1>6. ASSUME NEW u \in Task
      PROVE  HeardOf(u)'
  <2>1. CASE Kept(u)
    <3>1. InSystem(u) => InSystem(u)'
      BY <2>1 DEF Kept
    <3>. QED
      BY <1>1, <1>2, <1>4, <3>1, HeardKept
  <2>2. CASE Cancels /\ u = hand.id_target
    <3>1. pc[Owner[u]] \in {"cancel", "done"}
      BY <1>1, <2>2 DEF CancelsOfGone, Targeted
    <3>. QED
      BY <1>2, <3>1 DEF HeardOf
  <2>3. CASE Ends(u)
    <3>. SUFFICES ASSUME u \in waiting_task_ids, Kind[Owner[u]] # "slot"
                  PROVE  Answered(ReadBy(Owner[u]), u)'
      BY <1>4 DEF HeardOf
    <3>1. Owner[u] \in Client /\ Kind[Owner[u]] \in ClientKind
      OBVIOUS
    <3>2. CASE IsReader(Owner[u])
      <4>1. PICK kind \in {"final", "error"} :
              queue_results' = send(queue_results, waiting_task_ids, u, kind)
        BY <2>3, <3>2 DEF Ends, Sent
      <4>2. Answered(queue_results', u)
        BY <1>1, <4>1, SendResult
      <4>. QED
        BY <3>2, <4>2 DEF ReadBy, IsReader, Answered
    <3>3. CASE ~IsReader(Owner[u])
      <4>1. Kind[Owner[u]] = "metrics"
        BY <3>1, <3>3 DEF IsReader, ClientKind
      <4>2. queue_results_legacy' = send(queue_results_legacy, waiting_task_ids, u, "final")
        BY <2>3, <4>1 DEF Ends, Sent
      <4>3. Answered(queue_results_legacy', u)
        BY <1>1, <4>2, SendResult
      <4>. QED
        BY <3>3, <4>3 DEF ReadBy, IsReader, Answered
    <3>. QED
      BY <3>2, <3>3
  <2>. QED
    BY <1>3, <2>1, <2>2, <2>3 DEF Quiet, Stray, Cancels, Ends, Leaves1
<1>. QED
  BY <1>3, <1>5, <1>6

(* A result taken by its client is no result of anybody else.               *)
LEMMA TakenFrom ==
  ASSUME NEW q \in Seq(Result), NEW c, NEW i \in DOMAIN q, q[i].id \in Owned(c),
         NEW r, r = RemoveAt(q, i)
  PROVE  \A u \in Task : /\ Owner[u] # c /\ Answered(q, u) => Answered(r, u)
                         /\ (q[i].id # u \/ q[i].kind = "partial") /\ Answered(q, u)
                              => Answered(r, u)
<1>1. \A u : Answered(q, u) /\ (q[i].id = u => q[i].kind = "partial") => Answered(r, u)
  BY TakeResult
<1>2. Owner[q[i].id] = c
  BY DEF Owned
<1>. QED
  BY <1>1, <1>2

(* No request is left waiting for nothing by the steps of the requests.     *)
LEMMA AnswerClient ==
  ASSUME AnswerInv, NEW c \in Client, ClientStep(c) \/ Disconnect(c)
  PROVE  Generating' /\ CancelsOfGone' /\ Registered' /\ \A t \in Task : HeardOf(t)'
<1>. USE DEF queueVars, resultVars, loopVars, clientVars
<1>0. /\ PlaceInv /\ Generating /\ CancelsOfGone /\ Registered /\ NotYetPosted
      /\ \A t \in Task : HeardOf(t)
      /\ Once(queue_tasks) /\ Once(queue_tasks_deferred)
      /\ queue_tasks \in Seq(Entry) /\ queue_tasks_deferred \in Seq(Entry)
      /\ queue_results \in Seq(Result) /\ queue_results_legacy \in Seq(Result)
      /\ waiting_task_ids \in SUBSET Task
      /\ pc \in [Client -> ClientState] /\ left \in [Client -> SUBSET Task]
  BY DEF AnswerInv, PlaceInv, SlotInv, TypeOK, QueueTypes, ResultTypes, ClientTypes, TaskInOnePlace
<1>a. slots' = slots => Generating'
  BY <1>0 DEF Generating, CreatesGeneration
<1>b. ASSUME NEW d \in Client, d # c
      PROVE  \A u \in Owned(d) : u \in Task /\ Owner[u] = d /\ u \notin Owned(c)
  BY <1>b DEF Owned
<1>c. \A u \in Task : Owner[u] \in Client /\ u \in Owned(Owner[u])
  BY DEF Owned
<1>1. CASE post(c)
  <2>1. PICK t \in left[c] :
          /\ queue_tasks' = Append(queue_tasks, Work(t))
          /\ left' = [left EXCEPT ![c] = @ \ {t}]
          /\ IF left[c] # {t} THEN pc' = pc
             ELSE Goto(c, IF Kind[c] = "slot" THEN "register" ELSE "recv")
    BY <1>1 DEF post
  <2>2. /\ pc[c] = "post"
        /\ UNCHANGED <<queue_tasks_deferred, hand, slots, resultVars, got>>
    BY <1>1 DEF post
  <2>3. t \in Task /\ Owner[t] = c
    BY <1>0, <2>1 DEF NotYetPosted, Owned
  <2>4. /\ Ids(queue_tasks') = Ids(queue_tasks) \cup {t}
        /\ Targets(queue_tasks') = Targets(queue_tasks) \cup {NoTask}
    BY <1>0, <2>1, <2>3, AppendEntry, Entries
  <2>5. /\ left'[c] = left[c] \ {t}
        /\ pc'[c] \in {"post", "recv", "register"}
        /\ pc'[c] = "register" => Kind[c] = "slot"
        /\ pc'[c] # "post" => left[c] = {t}
        /\ \A d \in Client : d # c => pc'[d] = pc[d] /\ left'[d] = left[d]
    BY <1>0, <2>1, <2>2 DEF Goto
  <2>6. \A d \in Client : pc[d] \in {"cancel", "done"} <=> pc'[d] \in {"cancel", "done"}
    BY <2>2, <2>5
  <2>7. \A u \in Task : Targeted(u)' => Targeted(u)
    BY <2>2, <2>4 DEF Targeted
  <2>8. CancelsOfGone'
    BY <1>0, <1>c, <2>6, <2>7 DEF CancelsOfGone
  <2>9. Registered'
    BY <1>0, <2>2, <2>5, <2>6 DEF Registered, Owned
  <2>10. ASSUME NEW u \in Task
         PROVE  HeardOf(u)'
    <3>1. InSystem(u) => InSystem(u)'
      BY <2>2, <2>4 DEF InSystem
    <3>2. CASE Owner[u] # c
      BY <1>0, <1>c, <2>2, <2>5, <3>1, <3>2, HeardKept
    <3>3. CASE u = t
      BY <2>4, <3>3 DEF HeardOf, InSystem
    <3>4. CASE Owner[u] = c /\ u # t
      <4>1. Posted(u)' => Posted(u)
        BY <2>2, <2>5, <3>4 DEF Posted
      <4>2. Answered(ReadBy(c), u) => Answered(ReadBy(c), u)'
        BY <2>2 DEF ReadBy, Answered, IsReader
      <4>. QED
        BY <1>0, <2>2, <3>1, <3>4, <4>1, <4>2 DEF HeardOf
    <3>. QED
      BY <3>2, <3>3, <3>4
  <2>. QED
    BY <1>a, <2>2, <2>8, <2>9, <2>10
<1>2. CASE PostCancel(c)
  <2>1. PICK t \in left[c] :
          /\ queue_tasks' = <<Cancel(t)>> \o cleanup_pending_task(queue_tasks, t)
          /\ queue_tasks_deferred' = cleanup_pending_task(queue_tasks_deferred, t)
          /\ left' = [left EXCEPT ![c] = @ \ {t}]
          /\ pc' = pc \/ Goto(c, "done")
    BY <1>2 DEF PostCancel
  <2>2. pc[c] = "cancel" /\ UNCHANGED <<hand, slots, resultVars, got>>
    BY <1>2 DEF PostCancel
  <2>3. t \in Task /\ Owner[t] = c
    BY <1>0, <2>1 DEF NotYetPosted, Owned
  <2>4. /\ cleanup_pending_task(queue_tasks, t) \in Seq(Entry)
        /\ Once(cleanup_pending_task(queue_tasks, t))
        /\ Ids(cleanup_pending_task(queue_tasks, t)) = Ids(queue_tasks) \ {t}
        /\ Targets(cleanup_pending_task(queue_tasks, t)) \subseteq Targets(queue_tasks)
        /\ Ids(queue_tasks_deferred') = Ids(queue_tasks_deferred) \ {t}
        /\ Targets(queue_tasks_deferred') \subseteq Targets(queue_tasks_deferred)
    BY <1>0, <2>1, <2>3, CleanupEntry
  <2>5. /\ Ids(queue_tasks') = (Ids(queue_tasks) \ {t}) \cup {NoTask}
        /\ Targets(queue_tasks') \subseteq Targets(queue_tasks) \cup {t}
    BY <2>1, <2>3, <2>4, PushCancel
  <2>6. /\ pc'[c] \in {"cancel", "done"}
        /\ \A d \in Client : d # c => pc'[d] = pc[d] /\ left'[d] = left[d]
    BY <1>0, <2>1, <2>2 DEF Goto
  <2>7. \A u \in Task : Targeted(u)' => Targeted(u) \/ u = t
    BY <2>2, <2>4, <2>5 DEF Targeted
  <2>8. CancelsOfGone'
    BY <1>0, <1>c, <2>3, <2>6, <2>7 DEF CancelsOfGone
  <2>9. Registered'
    BY <1>0, <2>2, <2>6 DEF Registered, Owned
  <2>10. ASSUME NEW u \in Task
         PROVE  HeardOf(u)'
    <3>1. CASE Owner[u] = c
      BY <2>6, <3>1 DEF HeardOf
    <3>2. CASE Owner[u] # c
      <4>1. InSystem(u) => InSystem(u)'
        BY <2>2, <2>3, <2>4, <2>5, <3>2 DEF InSystem
      <4>. QED
        BY <1>0, <1>c, <2>2, <2>6, <3>2, <4>1, HeardKept
    <3>. QED
      BY <3>1, <3>2
  <2>. QED
    BY <1>a, <2>2, <2>8, <2>9, <2>10
<1>3. CASE ~post(c) /\ ~PostCancel(c)
  <2>1. UNCHANGED <<queue_tasks, queue_tasks_deferred, hand, slots>>
    BY <1>3 DEF ClientStep, AddWaiting, StartSlotAction, Register, LegacyRecv, ReaderRecv,
       ReaderTimeout, CheckSlots, llama_decode_stop, Stop, Disconnect, ResultStep
  <2>2. \A u \in Task : (Targeted(u)' <=> Targeted(u)) /\ (InSystem(u)' <=> InSystem(u))
    BY <2>1 DEF Targeted, InSystem
  <2>3. ASSUME pc[c] \notin {"cancel", "done"},
               \A d \in Client : d # c => pc'[d] = pc[d]
        PROVE  CancelsOfGone'
    BY <1>0, <1>c, <2>2, <2>3 DEF CancelsOfGone
  <2>4. CASE Disconnect(c)
    <3>1. UNCHANGED <<pc, left, got, resultVars>>
      BY <2>4 DEF Disconnect
    <3>2. CancelsOfGone' /\ Registered'
      BY <1>0, <2>2, <3>1 DEF CancelsOfGone, Registered, Owned
    <3>3. \A u \in Task : HeardOf(u)'
      BY <1>0, <2>2, <3>1, HeardKept
    <3>. QED
      BY <1>a, <2>1, <3>2, <3>3
  <2>5. CASE AddWaiting(c) \/ StartSlotAction(c)
    <3>1. /\ pc[c] = "start" /\ pc' = [pc EXCEPT ![c] = "post"]
          /\ left' = [left EXCEPT ![c] = Owned(c)]
          /\ waiting_task_ids' \in {waiting_task_ids, waiting_task_ids \cup Owned(c)}
          /\ UNCHANGED <<queue_results, queue_results_legacy, got>>
      BY <2>5 DEF AddWaiting, StartSlotAction, Goto
    <3>2. /\ pc'[c] = "post" /\ left'[c] = Owned(c)
          /\ \A d \in Client : d # c => pc'[d] = pc[d] /\ left'[d] = left[d]
      BY <1>0, <3>1
    <3>3. CancelsOfGone'
      BY <2>3, <3>1, <3>2
    <3>4. Registered'
      BY <1>0, <1>b, <3>1, <3>2 DEF Registered, Owned
    <3>5. ASSUME NEW u \in Task PROVE HeardOf(u)'
      <4>1. CASE Owner[u] = c
        BY <1>c, <3>2, <4>1 DEF HeardOf, Posted, Owned
      <4>2. CASE Owner[u] # c
        <5>1. u \notin Owned(c)
          BY <4>2 DEF Owned
        <5>. QED
          BY <1>0, <1>c, <2>2, <3>1, <3>2, <4>2, <5>1, HeardKept
      <4>. QED
        BY <4>1, <4>2
    <3>. QED
      BY <1>a, <2>1, <3>3, <3>4, <3>5
  <2>6. CASE Register(c) \/ ReaderTimeout(c) \/ CheckSlots(c) \/ llama_decode_stop(c) \/ Stop(c)
    <3>1. /\ pc[c] \notin {"cancel", "done", "start", "post"}
          /\ UNCHANGED <<queue_results, queue_results_legacy, got>>
          /\ \E w \in {"recv", "check", "abort", "stop", "cancel", "done"} :
               pc' = [pc EXCEPT ![c] = w]
          /\ Goto(c, "recv") => Kind[c] = "slot" /\ waiting_task_ids' = waiting_task_ids \cup Owned(c)
          /\ Goto(c, "cancel") \/ Goto(c, "done") => waiting_task_ids' = waiting_task_ids \ Owned(c)
          /\ waiting_task_ids' \subseteq waiting_task_ids \cup Owned(c)
          /\ left' = left \/ left' = [left EXCEPT ![c] = Owned(c)]
      <4>1. CASE Register(c)
        BY <1>0, <4>1 DEF Register, Goto, Registered
      <4>2. CASE ReaderTimeout(c)
        BY <1>0, <4>2 DEF ReaderTimeout, Goto
      <4>3. CASE CheckSlots(c)
        BY <1>0, <4>3 DEF CheckSlots, Goto
      <4>4. CASE llama_decode_stop(c)
        BY <1>0, <4>4 DEF llama_decode_stop, Goto
      <4>5. CASE Stop(c)
        BY <1>0, <4>5 DEF Stop, Goto
      <4>. QED
        BY <2>6, <4>1, <4>2, <4>3, <4>4, <4>5
    <3>2. /\ pc'[c] \notin {"start", "post", "register"}
          /\ pc'[c] = "recv" => Kind[c] = "slot"
          /\ pc'[c] \in {"cancel", "done"} => waiting_task_ids' = waiting_task_ids \ Owned(c)
          /\ \A d \in Client : d # c => pc'[d] = pc[d] /\ left'[d] = left[d]
      BY <1>0, <3>1 DEF Goto
    <3>3. CancelsOfGone'
      BY <2>3, <3>1, <3>2
    <3>4. Registered'
      BY <1>0, <1>b, <3>1, <3>2 DEF Registered, Owned
    <3>5. ASSUME NEW u \in Task PROVE HeardOf(u)'
      <4>1. CASE Owner[u] = c
        BY <3>2, <4>1 DEF HeardOf
      <4>2. CASE Owner[u] # c
        <5>1. u \notin Owned(c)
          BY <4>2 DEF Owned
        <5>. QED
          BY <1>0, <1>c, <2>2, <3>1, <3>2, <4>2, <5>1, HeardKept
      <4>. QED
        BY <4>1, <4>2
    <3>. QED
      BY <1>a, <2>1, <3>3, <3>4, <3>5
  <2>7. CASE LegacyRecv(c)
    <3>1. PICK i \in DOMAIN queue_results_legacy :
            /\ queue_results_legacy[i].id \in Owned(c)
            /\ queue_results_legacy' = RemoveAt(queue_results_legacy, i)
            /\ got' = got \cup {queue_results_legacy[i].id}
      BY <2>7 DEF LegacyRecv, FirstFor
    <3>2. /\ pc[c] = "recv" /\ pc' = [pc EXCEPT ![c] = "stop"]
          /\ UNCHANGED <<waiting_task_ids, queue_results, left>>
      BY <2>7 DEF LegacyRecv, Goto
    <3>3. pc'[c] = "stop" /\ \A d \in Client : d # c => pc'[d] = pc[d]
      BY <1>0, <3>2
    <3>4. CancelsOfGone' /\ Registered'
      BY <1>0, <2>3, <3>2, <3>3 DEF Registered, Owned
    <3>5. ASSUME NEW u \in Task PROVE HeardOf(u)'
      <4>1. CASE Owner[u] = c
        BY <3>3, <4>1 DEF HeardOf
      <4>2. CASE Owner[u] # c
        <5>1. Answered(queue_results_legacy, u) => Answered(queue_results_legacy', u)
          BY <1>0, <3>1, <4>2, TakenFrom
        <5>. QED
          BY <1>0, <1>c, <2>2, <3>1, <3>2, <3>3, <4>2, <5>1, HeardKept
      <4>. QED
        BY <4>1, <4>2
    <3>. QED
      BY <1>a, <2>1, <3>4, <3>5
  <2>8. CASE ReaderRecv(c)
    <3>1. PICK i \in DOMAIN queue_results :
            /\ queue_results[i].id \in Owned(c)
            /\ queue_results' = RemoveAt(queue_results, i)
            /\ got' = IF queue_results[i].kind = "final" THEN got \cup {queue_results[i].id} ELSE got
            /\ queue_results[i].kind = "error" => Goto(c, "stop")
            /\ pc' = pc \/ Goto(c, "stop")
      BY <2>8 DEF ReaderRecv, FirstFor, Delivered
    <3>2. /\ pc[c] = "recv" /\ IsReader(c)
          /\ UNCHANGED <<waiting_task_ids, queue_results_legacy, left>>
      BY <2>8 DEF ReaderRecv
    <3>3. /\ pc'[c] \in {"recv", "stop"} /\ (queue_results[i].kind = "error" => pc'[c] = "stop")
          /\ \A d \in Client : d # c => pc'[d] = pc[d]
      BY <1>0, <3>1, <3>2 DEF Goto
    <3>4. CancelsOfGone' /\ Registered'
      BY <1>0, <2>3, <3>2, <3>3 DEF Registered, Owned
    <3>5. ASSUME NEW u \in Task PROVE HeardOf(u)'
      <4>1. CASE Owner[u] = c /\ pc'[c] = "stop"
        BY <4>1 DEF HeardOf
      <4>2. CASE Owner[u] = c /\ pc'[c] # "stop" /\ queue_results[i].id = u
                 /\ queue_results[i].kind # "partial"
        <5>1. queue_results[i].kind \in {"partial", "final", "error"}
          BY <1>0, ResultAt DEF Result
        <5>2. u \in got'
          BY <3>1, <3>3, <4>2, <5>1
        <5>. QED
          BY <5>2 DEF HeardOf
      <4>3. CASE \/ Owner[u] # c
                 \/ pc'[c] # "stop" /\ (queue_results[i].id # u \/ queue_results[i].kind = "partial")
        <5>1. Answered(queue_results, u) => Answered(queue_results', u)
          BY <1>0, <3>1, <4>3, TakenFrom
        <5>2. pc'[Owner[u]] = pc[Owner[u]]
          BY <1>c, <3>2, <3>3, <4>3
        <5>3. u \in got => u \in got'
          BY <3>1
        <5>. QED
          BY <1>0, <2>2, <3>2, <5>1, <5>2, <5>3, HeardKept
      <4>. QED
        BY <4>1, <4>2, <4>3
    <3>. QED
      BY <1>a, <2>1, <3>4, <3>5
  <2>. QED
    BY <1>3, <2>4, <2>5, <2>6, <2>7, <2>8 DEF ClientStep
<1>. QED
  BY <1>1, <1>2, <1>3

(* The invariant is inductive.                                              *)
LEMMA AnswerInvStep ==
  ASSUME AnswerInv, [Next]_vars
  PROVE  AnswerInv'
<1>1. PlaceInv'
  BY PlaceInvStep DEF AnswerInv
<1>2. Generating' /\ CancelsOfGone' /\ Registered' /\ \A t \in Task : HeardOf(t)'
  BY AnswerLoop, AnswerClient DEF Next
<1>. QED
  BY <1>1, <1>2 DEF AnswerInv

(* Initially nobody has posted or registered anything.                      *)
LEMMA AnswerInvInit ==
  ASSUME Init
  PROVE  AnswerInv
<1>1. PlaceInv
  BY PlaceInvInit
<1>2. Generating /\ Registered
  BY DEF Init, Generating, Registered
<1>3. \A t \in Task : ~Targeted(t)
  BY EmptyQueue, Entries DEF Init, Targeted
<1>4. \A t \in Task : HeardOf(t)
  BY DEF Init, HeardOf
<1>. QED
  BY <1>1, <1>2, <1>3, <1>4 DEF AnswerInv, CancelsOfGone

(* Whoever is blocked in recv or recv_with_timeout waits for a task that    *)
(* the server still has, or whose result is in the queue that is read.      *)
THEOREM WhoeverWaitsWillHear == Spec => []NobodyWaitsForNothing
<1>1. Init => AnswerInv
  BY AnswerInvInit
<1>2. AnswerInv /\ [Next]_vars => AnswerInv'
  BY AnswerInvStep
<1>3. AnswerInv => NobodyWaitsForNothing
  <2>. SUFFICES ASSUME AnswerInv, NEW t \in waiting_task_ids \ got,
                       pc[Owner[t]] = "recv", Kind[Owner[t]] # "slot"
                PROVE  InSystem(t) \/ Answered(ReadBy(Owner[t]), t)
    BY DEF NobodyWaitsForNothing, ReadBy
  <2>1. t \in Task
    BY DEF AnswerInv, PlaceInv, SlotInv, TypeOK, ResultTypes
  <2>2. Posted(t) /\ HeardOf(t)
    BY <2>1 DEF Posted, AnswerInv
  <2>. QED
    BY <2>2 DEF HeardOf
<1>. QED
  BY <1>1, <1>2, <1>3, PTL DEF Spec

(* server_slot::release is never silent towards a client that waits: it     *)
(* comes with a final or error result, or the client has given up.          *)
THEOREM ReleasesAnnounced == Spec => NoSilentRelease
<1>. DEFINE A == \A s \in Slot :
                   LET t == slots[s].task IN
                   t # NoTask /\ slots'[s].task # t =>
                     n_terminal'[t] = n_terminal[t] + 1 \/ t \notin waiting_task_ids
<1>1. Init => AnswerInv
  BY AnswerInvInit
<1>2. AnswerInv /\ [Next]_vars => AnswerInv'
  BY AnswerInvStep
<1>3. AnswerInv /\ [Next]_vars => [A]_vars
  <2>. SUFFICES ASSUME AnswerInv, [Next]_vars, NEW s \in Slot, NEW t, t = slots[s].task,
                       t # NoTask, slots'[s].task # t, t \in waiting_task_ids
                PROVE  n_terminal'[t] = n_terminal[t] + 1
    OBVIOUS
  <2>1. PlaceInv /\ Generating /\ t \in Task /\ n_terminal \in [Task -> Nat]
    BY PlaceTypes DEF AnswerInv, PlaceInv, SlotInv, TypeOK, ResultTypes
  <2>2. CASE MainLoop \/ terminate \/ UNCHANGED vars
    <3>1. Quiet \/ Stray \/ Cancels \/ \E u \in Task : Ends(u)
      BY <2>1, <2>2, LoopSide
    <3>2. ~Kept(t)
      BY DEF Kept
    <3>3. CASE Cancels
      <4>1. Targeted(t)
        BY <2>1, <3>2, <3>3 DEF Cancels, Targeted
      <4>2. Owner[t] \in Client /\ t \in Owned(Owner[t]) /\ pc[Owner[t]] \in {"cancel", "done"}
        BY <2>1, <4>1 DEF AnswerInv, CancelsOfGone, Owned
      <4>. QED
        BY <4>2 DEF AnswerInv, Registered
    <3>4. CASE Ends(t)
      BY <2>1, <3>4 DEF Ends, Sent
    <3>. QED
      BY <2>1, <3>1, <3>2, <3>3, <3>4 DEF Quiet, Stray, Ends, Leaves1
  <2>3. ASSUME NEW c \in Client, ClientStep(c) \/ Disconnect(c)
        PROVE  slots' = slots
    BY <2>3 DEF ClientStep, AddWaiting, StartSlotAction, post, Register, LegacyRecv, ReaderRecv,
       ReaderTimeout, CheckSlots, llama_decode_stop, Stop, PostCancel, Disconnect, ResultStep,
       loopVars
  <2>. QED
    BY <2>2, <2>3 DEF Next
<1>4. NoSilentRelease <=> [][A]_vars
  BY DEF NoSilentRelease
<1>. HIDE DEF A
<1>. QED
  BY <1>1, <1>2, <1>3, <1>4, PTL DEF Spec

(***************************************************************************)
(* One final or error result per task, and none left behind.               *)
(***************************************************************************)
(* The unwinding of a failed decode is confined to the requests in flight.  *)
Confined == kv_unified \/ ~DecodeMayFail

OnlyLive == loop = "unwind_fail" => todo \subseteq Processing

(* A task that has had its result is not in the server, nor about to be.    *)
CountedOf(t) ==
  n_terminal[t] = 0 \/ (n_terminal[t] = 1 /\ ~InSystem(t) /\ Posted(t))

(* The result of a task was sent before it can be in a queue or received,   *)
(* and is in one of these places.                                           *)
TracedOf(t) ==
  /\ Answered(queue_results, t) \/ Answered(queue_results_legacy, t) =>
       n_terminal[t] = 1 /\ t \notin got
  /\ ~Answered(queue_results, t) \/ ~Answered(queue_results_legacy, t)
  /\ t \in got => n_terminal[t] = 1

ResultsOnce ==
  /\ AnsweredOnce(queue_results) /\ AnsweredOnce(queue_results_legacy)
  /\ FinalOnly(queue_results_legacy)

(* A reader's received_count is the number of its final results, and a      *)
(* request is answered in full when it has them all.                        *)
TallyOf(c) ==
  /\ IsReader(c) => received_count[c] = Cardinality(got \cap Owned(c))
  /\ answer[c] = "ok" => Owned(c) \subseteq got

TerminalInv ==
  /\ AnswerInv
  /\ Confined => /\ OnlyLive /\ ResultsOnce
                 /\ \A t \in Task : CountedOf(t) /\ TracedOf(t)
                 /\ \A c \in Client : TallyOf(c)

(* The unwinding stays with the slots that are processing.                  *)
LEMMA StaysConfined ==
  ASSUME SlotInv, Confined, OnlyLive, MainLoop \/ terminate \/ UNCHANGED vars
  PROVE  OnlyLive'
<1>. USE DEF queueVars, resultVars, loopVars, clientVars, NoSend
<1>. HIDE DEF MainLoop
<1>1. CASE terminate \/ UNCHANGED vars
  BY <1>1 DEF terminate, vars, OnlyLive, Processing
<1>2. CASE DecodeFailed
  BY <1>2 DEF DecodeFailed, Confined, OnlyLive, Processing
<1>3. CASE UnwindFail
  <2>1. PICK s \in todo : slots' = [slots EXCEPT ![s] = ReleasedSlot(@)] /\ DoneWith(s)
    BY <1>3 DEF UnwindFail
  <2>2. s \in Slot /\ slots[s] \in SlotState /\ todo \subseteq Processing /\ todo' = todo \ {s}
    BY <1>3, <2>1 DEF SlotInv, TypeOK, LoopTypes, UnwindFail, OnlyLive, DoneWith
  <2>3. \A u \in Slot : u # s => slots'[u] = slots[u]
    BY <2>1, <2>2, OneSlot, Released
  <2>. QED
    BY <2>2, <2>3 DEF OnlyLive, Processing
<1>4. CASE process_single_task
  <2>1. loop' = "pop"
    BY <1>4 DEF process_single_task, ProcessLaunch, ProcessLaunchFails, ProcessDefer, ProcessCancel,
       ProcessNextResponse, ProcessMetrics, ProcessSlotAction, Processed
  <2>. QED
    BY <2>1 DEF OnlyLive
<1>5. CASE StartLoop \/ PopTask \/ UpdateSlots \/ BatchReady \/ DecodeAborted \/ WaitForTask
           \/ Heartbeat \/ Wake \/ BatchEnds
  <2>1. loop' # "unwind_fail"
    BY <1>5 DEF StartLoop, PopTask, UpdateSlots, BatchReady, DecodeAborted, WaitForTask, Heartbeat,
       Wake, BatchEnds
  <2>. QED
    BY <2>1 DEF OnlyLive
<1>6. CASE DecodePrompt \/ DecodeToken \/ DecodeLast \/ UnwindCancel
  <2>1. loop # "unwind_fail" /\ \E s \in todo : DoneWith(s)
    BY <1>6 DEF DecodePrompt, DecodeToken, DecodeLast, UnwindCancel
  <2>2. loop' # "unwind_fail"
    BY <2>1 DEF DoneWith
  <2>. QED
    BY <2>2 DEF OnlyLive
<1>. QED
  BY <1>1, <1>2, <1>3, <1>4, <1>5, <1>6 DEF MainLoop, update_slots

(* The loop adds no task.                                                   *)
LEMMA LoopAddsNone ==
  ASSUME PlaceInv, MainLoop \/ terminate \/ UNCHANGED vars
  PROVE  NothingNew
<1>1. CASE MainLoop
  BY <1>1, PlaceLoop
<1>2. CASE terminate \/ UNCHANGED vars
  <2>1. UNCHANGED <<queue_tasks, queue_tasks_deferred, hand, slots>>
    BY <1>2 DEF terminate, vars, queueVars, loopVars
  <2>. QED
    BY <2>1 DEF NothingNew, InSystem
<1>. QED
  BY <1>1, <1>2

(* A task in the server has been posted.                                    *)
LEMMA InSystemPosted ==
  ASSUME NotYetPosted, NEW t \in Task, InSystem(t)
  PROVE  Posted(t)
<1>1. Owner[t] \in Client /\ t \in Owned(Owner[t])
  BY DEF Owned
<1>. QED
  BY <1>1 DEF NotYetPosted, Posted

(* Each result is sent once and goes to one queue.                          *)
LEMMA TerminalLoop ==
  ASSUME TerminalInv, Confined, MainLoop \/ terminate \/ UNCHANGED vars
  PROVE  /\ OnlyLive' /\ ResultsOnce'
         /\ \A t \in Task : CountedOf(t)' /\ TracedOf(t)'
         /\ \A c \in Client : TallyOf(c)'
<1>1. /\ PlaceInv /\ Generating /\ NotYetPosted /\ SlotInv /\ OnlyLive /\ ResultsOnce
      /\ \A t \in Task : CountedOf(t) /\ TracedOf(t)
      /\ \A c \in Client : TallyOf(c)
      /\ queue_results \in Seq(Result) /\ queue_results_legacy \in Seq(Result)
      /\ waiting_task_ids \in SUBSET Task /\ n_terminal \in [Task -> Nat]
  BY DEF TerminalInv, AnswerInv, PlaceInv, SlotInv, TypeOK, ResultTypes
<1>2. pc' = pc /\ left' = left /\ got' = got /\ received_count' = received_count /\ answer' = answer
  BY ClientsAside DEF clientVars
<1>3. Quiet \/ Cancels \/ \E t \in Task : Ends(t)
  BY <1>1, LoopSide DEF Stray, OnlyLive
<1>4. OnlyLive'
  BY <1>1, StaysConfined
<1>5. \A c \in Client : TallyOf(c)'
  BY <1>1, <1>2 DEF TallyOf, IsReader, Owned
<1>6. \A t \in Task : (~InSystem(t) => ~InSystem(t)') /\ (Posted(t) <=> Posted(t)')
  <2>1. NothingNew
    BY <1>1, LoopAddsNone
  <2>. QED
    BY <1>2, <2>1 DEF NothingNew, Posted
<1>7. CASE Quiet \/ Cancels
  <2>1. /\ UNCHANGED <<queue_results_legacy, n_terminal>>
        /\ \/ queue_results' = queue_results
           \/ \E t \in Task : queue_results' = send(queue_results, waiting_task_ids, t, "partial")
    BY <1>7 DEF Quiet, Cancels, NoSend, resultVars
  <2>2. /\ \A u \in Task : Answered(queue_results', u) => Answered(queue_results, u)
        /\ AnsweredOnce(queue_results')
    <3>1. CASE queue_results' = queue_results
      BY <1>1, <3>1 DEF ResultsOnce
    <3>2. ASSUME NEW t \in Task, queue_results' = send(queue_results, waiting_task_ids, t, "partial")
          PROVE  /\ \A u \in Task : Answered(queue_results', u) => Answered(queue_results, u)
                 /\ AnsweredOnce(queue_results')
      BY <1>1, <3>2, SendExact DEF ResultsOnce
    <3>. QED
      BY <2>1, <3>1, <3>2
  <2>3. ResultsOnce'
    BY <1>1, <2>1, <2>2 DEF ResultsOnce
  <2>4. ASSUME NEW t \in Task PROVE CountedOf(t)' /\ TracedOf(t)'
    <3>1. CountedOf(t)'
      BY <1>1, <1>6, <2>1 DEF CountedOf
    <3>2. TracedOf(t)'
      BY <1>1, <1>2, <2>1, <2>2 DEF TracedOf
    <3>. QED
      BY <3>1, <3>2
  <2>. QED
    BY <1>4, <1>5, <2>3, <2>4
<1>8. ASSUME NEW t \in Task, Ends(t)
      PROVE  ResultsOnce' /\ \A u \in Task : CountedOf(u)' /\ TracedOf(u)'
  <2>1. /\ InSystem(t) /\ ~InSystem(t)' /\ Posted(t)
    BY <1>1, <1>8, InSystemPosted DEF Ends, Leaves1
  <2>2. /\ n_terminal[t] = 0 /\ n_terminal'[t] = 1 /\ \A u \in Task \ {t} : n_terminal'[u] = n_terminal[u]
    BY <1>1, <1>8, <2>1 DEF Ends, Sent, CountedOf
  <2>3. t \notin got /\ ~Answered(queue_results, t) /\ ~Answered(queue_results_legacy, t)
    BY <1>1, <2>2 DEF TracedOf
  <2>4. /\ ResultsOnce'
        /\ \A u \in Task \ {t} : /\ Answered(queue_results', u) => Answered(queue_results, u)
                                 /\ Answered(queue_results_legacy', u) => Answered(queue_results_legacy, u)
        /\ ~Answered(queue_results', t) \/ ~Answered(queue_results_legacy', t)
    <3>0. AnsweredOnce(queue_results) /\ AnsweredOnce(queue_results_legacy)
      BY <1>1 DEF ResultsOnce
    <3>1. ASSUME NEW kind \in {"final", "error"}, queue_results_legacy' = queue_results_legacy,
                 queue_results' = send(queue_results, waiting_task_ids, t, kind)
          PROVE  <2>4!:
      <4>0. kind \in {"partial", "final", "error"}
        OBVIOUS
      <4>1. ASSUME NEW u \in Task \ {t}, Answered(queue_results', u)
            PROVE  Answered(queue_results, u)
        <5>1. queue_results \in Seq(Result) /\ waiting_task_ids \in SUBSET Task /\ u # t
          BY <1>1
        <5>2. Answered(send(queue_results, waiting_task_ids, t, kind), u) =>
                Answered(queue_results, u) \/ (u = t /\ t \in waiting_task_ids /\ kind # "partial")
          BY ONLY <4>0, <5>1, SendExact
        <5>. QED
          BY <3>1, <4>1, <5>1, <5>2
      <4>2. AnsweredOnce(queue_results')
        BY <1>1, <2>3, <3>0, <3>1, <4>0, SendExact
      <4>. QED
        BY <1>1, <2>3, <3>1, <4>1, <4>2 DEF ResultsOnce
    <3>2. ASSUME queue_results' = queue_results,
                 queue_results_legacy' = send(queue_results_legacy, waiting_task_ids, t, "final")
          PROVE  <2>4!:
      <4>1. ASSUME NEW u \in Task \ {t}, Answered(queue_results_legacy', u)
            PROVE  Answered(queue_results_legacy, u)
        <5>1. queue_results_legacy \in Seq(Result) /\ waiting_task_ids \in SUBSET Task /\ u # t
          BY <1>1
        <5>2. "final" \in {"partial", "final", "error"}
          OBVIOUS
        <5>3. Answered(send(queue_results_legacy, waiting_task_ids, t, "final"), u) =>
                \/ Answered(queue_results_legacy, u)
                \/ u = t /\ t \in waiting_task_ids /\ "final" # "partial"
          BY ONLY <5>1, <5>2, SendExact
        <5>. QED
          BY <3>2, <4>1, <5>1, <5>3
      <4>2. AnsweredOnce(queue_results_legacy')
        BY <1>1, <2>3, <3>0, <3>2, SendExact
      <4>3. FinalOnly(queue_results_legacy')
        BY <1>1, <3>2, SendFinal DEF ResultsOnce
      <4>. QED
        BY <1>1, <2>3, <3>2, <4>1, <4>2, <4>3 DEF ResultsOnce
    <3>. QED
      BY <1>8, <3>1, <3>2 DEF Ends, Sent
  <2>5. ASSUME NEW u \in Task PROVE CountedOf(u)' /\ TracedOf(u)'
    <3>1. CASE u = t
      <4>1. CountedOf(t)'
        BY <1>6, <2>1, <2>2 DEF CountedOf
      <4>2. TracedOf(t)'
        BY <1>2, <2>2, <2>3, <2>4 DEF TracedOf
      <4>. QED
        BY <3>1, <4>1, <4>2
    <3>2. CASE u # t
      <4>1. CountedOf(u)'
        BY <1>1, <1>6, <2>2, <3>2 DEF CountedOf
      <4>2. TracedOf(u)'
        BY <1>1, <1>2, <2>2, <2>4, <3>2 DEF TracedOf
      <4>. QED
        BY <4>1, <4>2
    <3>. QED
      BY <3>1, <3>2
  <2>. QED
    BY <2>4, <2>5
<1>. QED
  BY <1>3, <1>4, <1>5, <1>7, <1>8

(* What a client has posted stays posted and does not come back.            *)
LEMMA PostedOnce ==
  ASSUME PlaceInv, NEW c \in Client, ClientStep(c) \/ Disconnect(c), NEW t \in Task, Posted(t)
  PROVE  Posted(t)' /\ (InSystem(t)' => InSystem(t))
<1>. USE DEF queueVars, resultVars, loopVars, clientVars
<1>0. /\ SlotInv /\ NotYetPosted
      /\ Once(queue_tasks) /\ Once(queue_tasks_deferred)
      /\ queue_tasks \in Seq(Entry) /\ queue_tasks_deferred \in Seq(Entry)
      /\ pc \in [Client -> ClientState] /\ left \in [Client -> SUBSET Task]
      /\ Owner[t] \in Client
  BY PlaceTypes DEF PlaceInv, TaskInOnePlace, SlotInv, TypeOK, ClientTypes
<1>1. CASE post(c)
  <2>1. PICK u \in left[c] :
          /\ queue_tasks' = Append(queue_tasks, Work(u))
          /\ left' = [left EXCEPT ![c] = @ \ {u}]
          /\ pc' = pc \/ \E w \in {"register", "recv"} : Goto(c, w)
    BY <1>1 DEF post
  <2>2. pc[c] = "post" /\ UNCHANGED <<queue_tasks_deferred, hand, slots>>
    BY <1>1 DEF post
  <2>3. u \in Task /\ Owner[u] = c /\ u # t
    BY <1>0, <2>1, <2>2 DEF NotYetPosted, Owned, Posted
  <2>4. Ids(queue_tasks') = Ids(queue_tasks) \cup {u}
    BY <1>0, <2>1, <2>3, AppendEntry, Entries
  <2>5. Posted(t)'
    BY <1>0, <2>1 DEF Posted, Goto
  <2>6. InSystem(t)' => InSystem(t)
    BY <2>2, <2>3, <2>4 DEF InSystem
  <2>. QED
    BY <2>5, <2>6
<1>2. CASE PostCancel(c)
  <2>1. PICK u \in left[c] :
          /\ queue_tasks' = <<Cancel(u)>> \o cleanup_pending_task(queue_tasks, u)
          /\ queue_tasks_deferred' = cleanup_pending_task(queue_tasks_deferred, u)
          /\ left' = [left EXCEPT ![c] = @ \ {u}]
          /\ pc' = pc \/ Goto(c, "done")
    BY <1>2 DEF PostCancel
  <2>2. pc[c] = "cancel" /\ UNCHANGED <<hand, slots>>
    BY <1>2 DEF PostCancel
  <2>3. u \in Task
    BY <1>0
  <2>4. /\ cleanup_pending_task(queue_tasks, u) \in Seq(Entry)
        /\ Once(cleanup_pending_task(queue_tasks, u))
        /\ Ids(cleanup_pending_task(queue_tasks, u)) \subseteq Ids(queue_tasks)
        /\ Ids(queue_tasks_deferred') \subseteq Ids(queue_tasks_deferred)
    BY <1>0, <2>1, <2>3, CleanupEntry
  <2>5. Ids(queue_tasks') \subseteq Ids(queue_tasks) \cup {NoTask}
    BY <2>1, <2>3, <2>4, PushCancel
  <2>6. Posted(t)'
    BY <1>0, <2>1 DEF Posted, Goto
  <2>7. InSystem(t)' => InSystem(t)
    BY <2>2, <2>4, <2>5 DEF InSystem
  <2>. QED
    BY <2>6, <2>7
<1>3. CASE ~post(c) /\ ~PostCancel(c)
  <2>1. UNCHANGED <<queue_tasks, queue_tasks_deferred, hand, slots>>
    BY <1>3 DEF ClientStep, AddWaiting, StartSlotAction, Register, LegacyRecv, ReaderRecv,
       ReaderTimeout, CheckSlots, llama_decode_stop, Stop, Disconnect, ResultStep
  <2>2. InSystem(t)' => InSystem(t)
    BY <2>1 DEF InSystem
  <2>3. CASE AddWaiting(c) \/ StartSlotAction(c)
    <3>1. pc[c] = "start" /\ left' = [left EXCEPT ![c] = Owned(c)] /\ Goto(c, "post")
      BY <2>3 DEF AddWaiting, StartSlotAction
    <3>. QED
      BY <1>0, <2>2, <3>1 DEF Posted, Goto
  <2>4. CASE \/ Register(c) \/ LegacyRecv(c) \/ ReaderRecv(c) \/ ReaderTimeout(c)
             \/ CheckSlots(c) \/ llama_decode_stop(c) \/ Stop(c) \/ Disconnect(c)
    <3>1. pc' = pc \/ \E w \in {"recv", "stop", "check", "abort", "cancel", "done"} : Goto(c, w)
      BY <2>4 DEF Register, LegacyRecv, ReaderRecv, Delivered, ReaderTimeout, CheckSlots,
         llama_decode_stop, Stop, Disconnect
    <3>2. left' = left \/ (Goto(c, "cancel") /\ left' = [left EXCEPT ![c] = Owned(c)])
      BY <2>4 DEF Register, LegacyRecv, ReaderRecv, ReaderTimeout, CheckSlots,
         llama_decode_stop, Stop, Disconnect
    <3>3. \A d \in Client : pc'[d] \in {"start", "post"} => pc'[d] = pc[d] /\ left'[d] = left[d]
      BY <1>0, <3>1, <3>2 DEF Goto
    <3>. QED
      BY <1>0, <2>2, <3>3 DEF Posted
  <2>. QED
    BY <1>3, <2>3, <2>4 DEF ClientStep
<1>. QED
  BY <1>1, <1>2, <1>3

(* The count of a reader that gets one more final result, and of one that   *)
(* has them all.                                                            *)
LEMMA CountFinals ==
  ASSUME NEW c \in Client, NEW G \in SUBSET Task, NEW v \in Owned(c)
  PROVE  /\ Cardinality(G \cap Owned(c)) \in Nat /\ Cardinality(Owned(c)) \in Nat
         /\ v \notin G => Cardinality((G \cup {v}) \cap Owned(c)) = Cardinality(G \cap Owned(c)) + 1
         /\ Cardinality(G \cap Owned(c)) >= Cardinality(Owned(c)) => Owned(c) \subseteq G
<1>. DEFINE O == Owned(c)
<1>1. IsFiniteSet(O)
  BY RequestsAssumption DEF Owned
<1>. HIDE DEF O
<1>2. /\ IsFiniteSet(G \cap O) /\ Cardinality(G \cap O) <= Cardinality(O)
      /\ Cardinality(O) = Cardinality(G \cap O) => O = G \cap O
  BY <1>1, FS_Subset
<1>3. Cardinality(G \cap O) \in Nat /\ Cardinality(O) \in Nat
  BY <1>1, <1>2, FS_CardinalityType
<1>4. ASSUME v \notin G
      PROVE  Cardinality((G \cup {v}) \cap O) = Cardinality(G \cap O) + 1
  <2>1. (G \cup {v}) \cap O = (G \cap O) \cup {v}
    BY DEF O
  <2>2. v \notin G \cap O
    BY <1>4
  <2>3. Cardinality((G \cap O) \cup {v}) = Cardinality(G \cap O) + 1
    BY <1>2, <2>2, FS_AddElement
  <2>. QED
    BY <2>1, <2>3
<1>5. ASSUME Cardinality(G \cap O) >= Cardinality(O)
      PROVE  O \subseteq G
  <2>1. Cardinality(O) = Cardinality(G \cap O)
    BY <1>2, <1>3, <1>5
  <2>. QED
    BY <1>2, <2>1
<1>. QED
  BY <1>3, <1>4, <1>5 DEF O

(* A request that takes its results counts each of them once.               *)
LEMMA TerminalClient ==
  ASSUME TerminalInv, Confined, NEW c \in Client, ClientStep(c) \/ Disconnect(c)
  PROVE  /\ OnlyLive' /\ ResultsOnce'
         /\ \A t \in Task : CountedOf(t)' /\ TracedOf(t)'
         /\ \A d \in Client : TallyOf(d)'
<1>. USE DEF queueVars, resultVars, loopVars, clientVars
<1>1. /\ PlaceInv /\ OnlyLive /\ ResultsOnce
      /\ \A t \in Task : CountedOf(t) /\ TracedOf(t)
      /\ \A d \in Client : TallyOf(d)
      /\ queue_results \in Seq(Result) /\ queue_results_legacy \in Seq(Result)
      /\ received_count \in [Client -> Nat] /\ got \in SUBSET Task
      /\ answer \in [Client -> {"none", "ok", "error", "closed"}]
  BY DEF TerminalInv, AnswerInv, PlaceInv, SlotInv, TypeOK, ResultTypes, ClientTypes
<1>2. UNCHANGED <<slots, loop, todo, n_terminal>>
  BY DEF ClientStep, AddWaiting, StartSlotAction, post, Register, LegacyRecv, ReaderRecv,
     ReaderTimeout, CheckSlots, llama_decode_stop, Stop, PostCancel, Disconnect, ResultStep
<1>3. OnlyLive'
  BY <1>1, <1>2 DEF OnlyLive, Processing
<1>4. \A t \in Task : CountedOf(t)'
  <2>. TAKE t \in Task
  <2>1. n_terminal'[t] = n_terminal[t]
    BY <1>2
  <2>2. Posted(t) => Posted(t)' /\ (InSystem(t)' => InSystem(t))
    BY <1>1, PostedOnce
  <2>. QED
    BY <1>1, <2>1, <2>2 DEF CountedOf
<1>b. \A d \in Client : d # c => \A v \in Owned(c) : v \notin Owned(d)
  BY DEF Owned
<1>5. CASE ~LegacyRecv(c) /\ ~ReaderRecv(c)
  <2>1. UNCHANGED <<queue_results, queue_results_legacy, got, received_count>>
    BY <1>5 DEF ClientStep, AddWaiting, StartSlotAction, post, Register,
       ReaderTimeout, CheckSlots, llama_decode_stop, Stop, PostCancel, Disconnect, ResultStep
  <2>2. answer' = answer \/ answer' = [answer EXCEPT ![c] = "closed"]
    BY <1>5 DEF ClientStep, AddWaiting, StartSlotAction, post, Register,
       ReaderTimeout, CheckSlots, llama_decode_stop, Stop, PostCancel, Disconnect, ResultStep
  <2>3. \A d \in Client : answer'[d] = "ok" => answer[d] = "ok"
    BY <1>1, <2>2
  <2>4. ResultsOnce' /\ \A t \in Task : TracedOf(t)'
    BY <1>1, <1>2, <2>1 DEF ResultsOnce, TracedOf
  <2>5. \A d \in Client : TallyOf(d)'
    BY <1>1, <2>1, <2>3 DEF TallyOf, IsReader, Owned
  <2>. QED
    BY <1>3, <1>4, <2>4, <2>5
<1>6. CASE LegacyRecv(c)
  <2>1. PICK i \in DOMAIN queue_results_legacy :
          /\ queue_results_legacy[i].id \in Owned(c)
          /\ queue_results_legacy' = RemoveAt(queue_results_legacy, i)
          /\ got' = got \cup {queue_results_legacy[i].id}
    BY <1>6 DEF LegacyRecv, FirstFor
  <2>2. /\ ~IsReader(c) /\ answer' = [answer EXCEPT ![c] = "ok"]
        /\ UNCHANGED <<queue_results, received_count>>
    BY <1>6 DEF LegacyRecv
  <2>. DEFINE v == queue_results_legacy[i].id
  <2>3. queue_results_legacy[i].kind = "final" /\ v \in Task
    BY <1>1, <2>1 DEF ResultsOnce, FinalOnly, Owned
  <2>4. Answered(queue_results_legacy, v)
    BY <2>3 DEF Answered
  <2>5. /\ \A u : Answered(queue_results_legacy', u) => Answered(queue_results_legacy, u)
        /\ AnsweredOnce(queue_results_legacy') /\ FinalOnly(queue_results_legacy')
        /\ ~Answered(queue_results_legacy', v)
    BY <1>1, <2>1, <2>3, TakeExact DEF ResultsOnce
  <2>6. v \in Owned(c) /\ got' = got \cup {v}
    BY <2>1
  <2>. HIDE DEF v
  <2>7. ResultsOnce'
    BY <1>1, <2>2, <2>5 DEF ResultsOnce
  <2>8. n_terminal[v] = 1 /\ ~Answered(queue_results, v)
    BY <1>1, <2>3, <2>4 DEF TracedOf
  <2>9. ASSUME NEW t \in Task PROVE TracedOf(t)'
    <3>1. CASE t = v
      BY <1>2, <2>2, <2>5, <2>8, <3>1 DEF TracedOf
    <3>2. CASE t # v
      BY <1>1, <1>2, <2>2, <2>5, <2>6, <3>2 DEF TracedOf
    <3>. QED
      BY <3>1, <3>2
  <2>10. ASSUME NEW d \in Client PROVE TallyOf(d)'
    <3>1. CASE d = c
      <4>1. \A u \in Owned(c) : u = v
        <5>1. Kind[c] \in {"metrics", "slot"}
          BY <2>2 DEF IsReader, ClientKind
        <5>. QED
          BY <2>6, <5>1, RequestsAssumption DEF Owned
      <4>. QED
        BY <2>2, <2>6, <3>1, <4>1 DEF TallyOf, IsReader, Owned
    <3>2. CASE d # c
      <4>1. got' \cap Owned(d) = got \cap Owned(d) /\ got \subseteq got'
        BY <1>b, <2>6, <3>2
      <4>2. answer'[d] = answer[d] /\ received_count'[d] = received_count[d]
        BY <1>1, <2>2, <3>2
      <4>. QED
        BY <1>1, <4>1, <4>2 DEF TallyOf, IsReader, Owned
    <3>. QED
      BY <3>1, <3>2
  <2>. QED
    BY <1>3, <1>4, <2>7, <2>9, <2>10
<1>7. CASE ReaderRecv(c)
  <2>1. PICK i \in DOMAIN queue_results :
          /\ queue_results[i].id \in Owned(c)
          /\ queue_results' = RemoveAt(queue_results, i)
          /\ got' = IF queue_results[i].kind = "final" THEN got \cup {queue_results[i].id} ELSE got
          /\ IF queue_results[i].kind = "error"
               THEN /\ answer' = [answer EXCEPT ![c] = "error"]
                    /\ received_count' = received_count
               ELSE Delivered(c, queue_results[i].kind)
    BY <1>7 DEF ReaderRecv, FirstFor
  <2>2. IsReader(c) /\ UNCHANGED queue_results_legacy
    BY <1>7 DEF ReaderRecv
  <2>. DEFINE v == queue_results[i].id
              k == queue_results[i].kind
  <2>3. /\ \A u : Answered(queue_results', u) => Answered(queue_results, u)
        /\ AnsweredOnce(queue_results')
        /\ k # "partial" => ~Answered(queue_results', v)
    BY <1>1, <2>1, TakeExact DEF ResultsOnce
  <2>4. k # "partial" => Answered(queue_results, v)
    BY DEF Answered
  <2>5. /\ v \in Owned(c) /\ v \in Task
        /\ got' = (IF k = "final" THEN got \cup {v} ELSE got)
        /\ IF k = "error" THEN answer' = [answer EXCEPT ![c] = "error"] /\ received_count' = received_count
           ELSE Delivered(c, k)
    BY <2>1 DEF Owned
  <2>. HIDE DEF v, k
  <2>6. ResultsOnce'
    BY <1>1, <2>2, <2>3 DEF ResultsOnce
  <2>7. k # "partial" => n_terminal[v] = 1 /\ ~Answered(queue_results_legacy, v) /\ v \notin got
    BY <1>1, <2>4, <2>5 DEF TracedOf
  <2>8. ASSUME NEW t \in Task PROVE TracedOf(t)'
    <3>1. CASE k = "final" /\ t = v
      BY <1>2, <2>2, <2>3, <2>7, <3>1 DEF TracedOf
    <3>2. CASE k # "final" \/ t # v
      <4>1. t \in got' <=> t \in got
        BY <2>5, <3>2
      <4>. QED
        BY <1>1, <1>2, <2>2, <2>3, <4>1 DEF TracedOf
    <3>. QED
      BY <3>1, <3>2
  <2>9. /\ received_count'[c] = received_count[c] + (IF k = "final" THEN 1 ELSE 0)
        /\ \A d \in Client : d # c => received_count'[d] = received_count[d] /\ answer'[d] = answer[d]
        /\ answer'[c] = "ok" => answer[c] = "ok" \/ ~(received_count'[c] < Cardinality(Owned(c)))
    <3>1. CASE k = "error"
      BY <1>1, <2>5, <3>1
    <3>2. CASE k # "error"
      <4>1. /\ received_count' = [received_count EXCEPT ![c] = @ + (IF k = "final" THEN 1 ELSE 0)]
            /\ \/ answer' = answer
               \/ answer' = [answer EXCEPT ![c] = "closed"]
               \/ /\ answer' = [answer EXCEPT ![c] = "ok"]
                  /\ ~(received_count[c] + (IF k = "final" THEN 1 ELSE 0) < Cardinality(Owned(c)))
        BY <2>5, <3>2 DEF Delivered
      <4>2. /\ received_count'[c] = received_count[c] + (IF k = "final" THEN 1 ELSE 0)
            /\ \A d \in Client : d # c => received_count'[d] = received_count[d]
        BY <1>1, <4>1
      <4>. QED
        BY <1>1, <4>1, <4>2
    <3>. QED
      BY <3>1, <3>2
  <2>10. ASSUME NEW d \in Client PROVE TallyOf(d)'
    <3>1. CASE d = c
      <4>1. received_count[c] = Cardinality(got \cap Owned(c)) /\ (answer[c] = "ok" => Owned(c) \subseteq got)
        BY <1>1, <2>2 DEF TallyOf
      <4>2. got' \in SUBSET Task /\ got \subseteq got'
        BY <1>1, <2>5
      <4>3. received_count'[c] = Cardinality(got' \cap Owned(c))
        <5>1. CASE k = "final"
          <6>1. /\ Cardinality((got \cup {v}) \cap Owned(c)) = Cardinality(got \cap Owned(c)) + 1
            BY <1>1, <2>5, <2>7, <5>1, CountFinals
          <6>. QED
            BY <2>5, <2>9, <4>1, <5>1, <6>1
        <5>2. CASE k # "final"
          <6>1. received_count[c] \in Nat
            BY <1>1
          <6>. QED
            BY <2>5, <2>9, <4>1, <5>2, <6>1
        <5>. QED
          BY <5>1, <5>2
      <4>4. /\ Cardinality(got' \cap Owned(c)) \in Nat /\ Cardinality(Owned(c)) \in Nat
            /\ Cardinality(got' \cap Owned(c)) >= Cardinality(Owned(c)) => Owned(c) \subseteq got'
        BY <2>5, <4>2, CountFinals
      <4>5. answer'[c] = "ok" => Owned(c) \subseteq got'
        BY <2>9, <4>1, <4>2, <4>3, <4>4
      <4>. QED
        BY <3>1, <4>3, <4>5 DEF TallyOf, Owned
    <3>2. CASE d # c
      <4>1. got' \cap Owned(d) = got \cap Owned(d) /\ got \subseteq got'
        BY <1>b, <2>5, <3>2
      <4>. QED
        BY <1>1, <2>9, <3>2, <4>1 DEF TallyOf, IsReader, Owned
    <3>. QED
      BY <3>1, <3>2
  <2>. QED
    BY <1>3, <1>4, <2>6, <2>8, <2>10
<1>. QED
  BY <1>5, <1>6, <1>7

(* The invariant is inductive.                                              *)
LEMMA TerminalInvStep ==
  ASSUME TerminalInv, [Next]_vars
  PROVE  TerminalInv'
<1>1. AnswerInv'
  BY AnswerInvStep DEF TerminalInv
<1>2. ASSUME Confined
      PROVE  /\ OnlyLive' /\ ResultsOnce'
             /\ \A t \in Task : CountedOf(t)' /\ TracedOf(t)'
             /\ \A c \in Client : TallyOf(c)'
  <2>1. CASE MainLoop \/ terminate \/ UNCHANGED vars
    BY <1>2, <2>1, TerminalLoop
  <2>2. CASE \E c \in Client : ClientStep(c) \/ Disconnect(c)
    BY <1>2, <2>2, TerminalClient
  <2>. QED
    BY <2>1, <2>2 DEF Next
<1>3. Confined' <=> Confined
  BY DEF Confined
<1>. QED
  BY <1>1, <1>2, <1>3 DEF TerminalInv

(* Initially there is no result.                                            *)
LEMMA TerminalInvInit ==
  ASSUME Init
  PROVE  TerminalInv
<1>1. AnswerInv
  BY AnswerInvInit
<1>2. OnlyLive /\ ResultsOnce
  BY DEF Init, OnlyLive, ResultsOnce, AnsweredOnce, FinalOnly
<1>3. \A t \in Task : CountedOf(t) /\ TracedOf(t)
  BY DEF Init, CountedOf, TracedOf, Answered
<1>4. \A c \in Client : TallyOf(c)
  <2>. TAKE c \in Client
  <2>1. received_count[c] = 0 /\ got \cap Owned(c) = {} /\ answer[c] = "none"
    BY DEF Init
  <2>. QED
    BY <2>1, FS_EmptySet DEF TallyOf
<1>. QED
  BY <1>1, <1>2, <1>3, <1>4 DEF TerminalInv

(* send_error and send_final_response are called once for a task at most,   *)
(* when the unwinding of a failed decode is confined to requests in flight. *)
THEOREM OneResultEach == Spec => []OneTerminal
<1>1. Init => TerminalInv
  BY TerminalInvInit
<1>2. TerminalInv /\ [Next]_vars => TerminalInv'
  BY TerminalInvStep
<1>3. TerminalInv => OneTerminal
  BY DEF TerminalInv, Confined, CountedOf, OneTerminal
<1>. QED
  BY <1>1, <1>2, <1>3, PTL DEF Spec

(* A request answered in full leaves no final or error result in the queues *)
(* of server_response.                                                      *)
THEOREM QueuesEmptied == Spec => []NothingLeftBehind
<1>1. Init => TerminalInv
  BY TerminalInvInit
<1>2. TerminalInv /\ [Next]_vars => TerminalInv'
  BY TerminalInvStep
<1>3. TerminalInv => NothingLeftBehind
  <2>. SUFFICES ASSUME TerminalInv, Confined, NEW c \in Client, answer[c] = "ok", NEW t \in Owned(c)
                PROVE  ~Answered(queue_results, t) /\ ~Answered(queue_results_legacy, t)
    BY DEF NothingLeftBehind, Confined
  <2>1. t \in Task /\ t \in got
    BY DEF TerminalInv, TallyOf, Owned
  <2>. QED
    BY <2>1 DEF TerminalInv, TracedOf
<1>. QED
  BY <1>1, <1>2, <1>3, PTL DEF Spec
=============================================================================
