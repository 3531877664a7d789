-------------------------- MODULE LogWorker_proofs --------------------------
(* The log's ring for any capacity and any number of messages and files,    *)
(* while the owner does not pause a ring with a single free entry: it is a  *)
(* queue through every growth, and each message reaches its file.           *)
EXTENDS LogWorker, FiniteSetTheorems, SequenceTheorems, TLAPS

(***************************************************************************)
(* The inductive invariant.                                                *)
(***************************************************************************)
(* The i-th used entry.                                                     *)
At(i) == entries[(head + i - 1) % Size]

(* The worker has an entry to print.                                        *)
Held == IF thrd \in {"print", "file"} THEN 1 ELSE 0

(* An end marker is in the ring.                                            *)
Marked == ~running /\ thrd # "exited"

Types ==
  /\ TypeOK /\ Size \in Nat \ {0}
  /\ accepted \in Seq([msg : 1..MaxAdds, file : 0..MaxFiles])
  /\ printed \in Seq([msg : 0..MaxAdds, file : 0..MaxFiles])

(* The owner stopped the worker, and only it starts a new one.              *)
Owners ==
  /\ running <=> owner = "idle"
  /\ owner \in {"paused", "freed"} => thrd = "exited"
  /\ thrd = "exited" => ~running

(* The messages in the worker's hands and in the ring are those that were   *)
(* accepted and not printed, in order; the marker comes last.               *)
Ring ==
  /\ Len(printed) + Held + InUse = Len(accepted) + (IF Marked THEN 1 ELSE 0)
  /\ Held = 1 => cur.msg = Len(printed) + 1
  /\ \A i \in 1..InUse : /\ At(i).is_end <=> Marked /\ i = InUse
                         /\ ~At(i).is_end => At(i).msg = Len(printed) + Held + i
  /\ Marked => InUse # 0
  /\ thrd = "exited" => InUse = 0

(* What is not printed yet was accepted for the file that is open.          *)
Histories ==
  /\ Len(accepted) <= MaxAdds
  /\ \A i \in 1..Len(accepted) : accepted[i].msg = i
  /\ \A i \in 1..Len(printed) : printed[i] = accepted[i]
  /\ \A i \in Len(printed)+1..Len(accepted) : accepted[i].file = file

IInv == Types /\ Owners /\ Ring /\ Histories

(***************************************************************************)
(* Positions in the ring.                                                  *)
(***************************************************************************)
(* One turn around a ring of n entries.                                     *)
LEMMA Wrap ==
  ASSUME NEW n \in Nat \ {0}, NEW a \in Int, -n <= a, a < 2 * n
  PROVE  a % n = IF a < 0 THEN a + n ELSE IF a < n THEN a ELSE a - n
OBVIOUS

(* The size of a ring indexed from 0.                                       *)
LEMMA SizeOf ==
  ASSUME NEW n \in Nat, NEW f, DOMAIN f = 0..n-1
  PROVE  Cardinality(DOMAIN f) = n
<1>1. \A a, b \in Int : a <= b => Cardinality(a..b) = b - a + 1
  BY FS_Interval
<1>2. CASE n = 0
  BY <1>2, FS_Interval
<1>3. CASE n # 0
  BY <1>1, <1>3
<1>. QED
  BY <1>2, <1>3

(* How many entries are in use.                                             *)
LEMMA UseCount ==
  ASSUME Types
  PROVE  /\ InUse = IF head <= tail THEN tail - head ELSE tail - head + Size
         /\ InUse \in 0..Size-1
         /\ InUse = 0 <=> head = tail
<1>1. Size \in Nat \ {0} /\ head \in 0..Size-1 /\ tail \in 0..Size-1
  BY DEF Types, TypeOK
<1>2. tail - head \in Int /\ -Size <= tail - head /\ tail - head < 2 * Size
  BY <1>1
<1>3. (tail - head) % Size
        = IF tail - head < 0 THEN tail - head + Size
          ELSE IF tail - head < Size THEN tail - head ELSE tail - head - Size
  BY <1>1, <1>2, Wrap
<1>. QED
  BY <1>1, <1>3 DEF InUse

(* Where the i-th entry is.                                                 *)
LEMMA Place ==
  ASSUME NEW n \in Nat \ {0}, NEW h \in 0..n-1, NEW i \in 1..n
  PROVE  (h + i - 1) % n = IF h + i - 1 < n THEN h + i - 1 ELSE h + i - 1 - n
<1>. DEFINE a == h + i - 1
<1>1. a \in Int /\ -n <= a /\ a < 2 * n /\ ~(a < 0)
  OBVIOUS
<1>. HIDE DEF a
<1>2. a % n = IF a < n THEN a ELSE a - n
  BY <1>1, Wrap
<1>. QED
  BY <1>2 DEF a

(* The position after another.                                              *)
LEMMA After ==
  ASSUME NEW n \in Nat \ {0}, NEW p \in 0..n-1
  PROVE  /\ (p + 1) % n = IF p + 1 = n THEN 0 ELSE p + 1
         /\ (p + 1) % n \in 0..n-1
<1>. DEFINE a == p + 1
<1>1. a \in Int /\ -n <= a /\ a < 2 * n /\ ~(a < 0) /\ 0 < a /\ a <= n
  OBVIOUS
<1>. HIDE DEF a
<1>2. a % n = IF a < n THEN a ELSE a - n
  BY <1>1, Wrap
<1>3. a % n = (IF a = n THEN 0 ELSE a) /\ a % n \in 0..n-1
  BY <1>1, <1>2
<1>. QED
  BY <1>3 DEF a

(* An entry stored at tail, with one left free after it.                    *)
LEMMA Store ==
  ASSUME Types, NEW e \in Entry, entries' = [entries EXCEPT ![tail] = e], head' = head,
         tail' = (tail + 1) % Size, tail' # head, NEW k, k = InUse
  PROVE  /\ Size' = Size /\ entries' \in [0..Size-1 -> Entry] /\ tail' \in 0..Size-1
         /\ InUse' = k + 1
         /\ \A i \in 1..k : At(i)' = At(i)
         /\ At(k + 1)' = e
<1>. DEFINE n == Size
<1>1. /\ n \in Nat \ {0} /\ head \in 0..n-1 /\ tail \in 0..n-1
      /\ entries \in [0..n-1 -> Entry]
  BY DEF Types, TypeOK
<1>2. Size' = n /\ entries' \in [0..n-1 -> Entry]
  BY <1>1 DEF Size
<1>. HIDE DEF n
<1>3. tail' = (IF tail + 1 = n THEN 0 ELSE tail + 1) /\ tail' \in 0..n-1
  BY <1>1, After DEF n
<1>4. k = (IF head <= tail THEN tail - head ELSE tail - head + n) /\ k \in 0..n-1
  BY UseCount DEF n
<1>5. InUse' = (tail' - head) % n
  BY <1>2 DEF InUse
<1>6. tail' - head \in Int /\ -n <= tail' - head /\ tail' - head < 2 * n
  BY <1>1, <1>3
<1>7. (tail' - head) % n = IF tail' - head < 0 THEN tail' - head + n
                           ELSE IF tail' - head < n THEN tail' - head ELSE tail' - head - n
  BY <1>1, <1>6, Wrap
<1>. DEFINE u == (tail' - head) % n
<1>8. InUse' = k + 1 /\ k + 1 <= n - 1
  <2>1. u = IF tail' < head THEN tail' - head + n ELSE tail' - head
    BY <1>1, <1>3, <1>7
  <2>. HIDE DEF u
  <2>2. u = k + 1 /\ k + 1 <= n - 1
    BY <1>1, <1>3, <1>4, <2>1
  <2>. QED
    BY <1>5, <2>2 DEF u
<1>9. \A i \in 1..n : (head + i - 1) % n = IF head + i - 1 < n THEN head + i - 1 ELSE head + i - 1 - n
  BY <1>1, Place
<1>10. \A i \in 1..k : (head + i - 1) % n \in 0..n-1 /\ (head + i - 1) % n # tail
  BY <1>1, <1>4, <1>8, <1>9
<1>11. (head + (k + 1) - 1) % n = tail
  BY <1>1, <1>4, <1>8, <1>9
<1>12. \A i \in 1..k : At(i)' = At(i)
  <2>. TAKE i \in 1..k
  <2>1. At(i)' = entries'[(head + i - 1) % n] /\ At(i) = entries[(head + i - 1) % n]
    BY <1>2 DEF At, n
  <2>. QED
    BY <1>1, <1>10, <2>1
<1>13. At(k + 1)' = e
  <2>1. At(k + 1)' = entries'[(head + (k + 1) - 1) % n]
    BY <1>2 DEF At
  <2>. QED
    BY <1>1, <1>11, <2>1
<1>. QED
  BY <1>2, <1>3, <1>8, <1>12, <1>13 DEF n

(* An entry stored at tail that fills the ring, which is doubled.           *)
LEMMA Grow ==
  ASSUME Types, NEW e \in Entry, NEW ring, ring = [entries EXCEPT ![tail] = e],
         (tail + 1) % Size = head, entries' = Expanded(ring, head), head' = 0, tail' = Size,
         NEW k, k = InUse
  PROVE  /\ Size' = 2 * Size /\ entries' \in [0..Size'-1 -> Entry] /\ Size' \in Nat \ {0}
         /\ head' \in 0..Size'-1 /\ tail' \in 0..Size'-1
         /\ InUse' = k + 1
         /\ \A i \in 1..k : At(i)' = At(i)
         /\ At(k + 1)' = e
<1>. DEFINE n == Size
<1>1. /\ n \in Nat \ {0} /\ head \in 0..n-1 /\ tail \in 0..n-1
      /\ entries \in [0..n-1 -> Entry]
  BY DEF Types, TypeOK
<1>2. ring \in [0..n-1 -> Entry] /\ Cardinality(DOMAIN ring) = n
  BY <1>1 DEF Size
<1>3. Blank \in Entry
  BY LogAssumption DEF Blank, Entry
<1>. HIDE DEF n
<1>4. \A i \in 1..n : /\ (head + i - 1) % n = IF head + i - 1 < n THEN head + i - 1 ELSE head + i - 1 - n
                      /\ (head + i - 1) % n \in 0..n-1
  <2>. TAKE i \in 1..n
  <2>. DEFINE a == (head + i - 1) % n
  <2>1. a = IF head + i - 1 < n THEN head + i - 1 ELSE head + i - 1 - n
    BY <1>1, Place
  <2>. HIDE DEF a
  <2>2. a \in 0..n-1
    BY <1>1, <2>1
  <2>. QED
    BY <2>1, <2>2 DEF a
<1>5. \A i \in 0..n-1 : (head + i) % n \in 0..n-1
  <2>. TAKE i \in 0..n-1
  <2>1. i + 1 \in 1..n /\ head + (i + 1) - 1 = head + i
    BY <1>1
  <2>. QED
    BY <1>4, <2>1
<1>6. entries' = [i \in 0..2*n-1 |-> IF i < n THEN ring[(head + i) % n] ELSE Blank]
  BY <1>2 DEF Expanded
<1>7. entries' \in [0..2*n-1 -> Entry]
  <2>1. ASSUME NEW i \in 0..2*n-1
        PROVE  (IF i < n THEN ring[(head + i) % n] ELSE Blank) \in Entry
    <3>1. i < n => i \in 0..n-1
      BY <1>1
    <3>. QED
      BY <1>2, <1>3, <1>5, <3>1
  <2>. QED
    BY <1>6, <2>1
<1>8. Size' = 2 * n /\ 2 * n \in Nat \ {0}
  <2>1. 2 * n \in Nat /\ DOMAIN entries' = 0..2*n-1 /\ 2 * n # 0
    BY <1>1, <1>6
  <2>. QED
    BY <2>1, SizeOf DEF Size
<1>9. head = IF tail + 1 = n THEN 0 ELSE tail + 1
  BY <1>1, After DEF n
<1>10. k = (IF head <= tail THEN tail - head ELSE tail - head + n) /\ k \in 0..n-1
  BY UseCount DEF n
<1>11. k = n - 1
  BY <1>1, <1>9, <1>10
<1>12. InUse' = (n - 0) % (2 * n)
  BY <1>8 DEF InUse, n
<1>13. InUse' = n
  <2>. DEFINE m == 2 * n
  <2>1. n \in Int /\ -m <= n /\ n < 2 * m /\ m \in Nat \ {0} /\ ~(n < 0) /\ n < m /\ n - 0 = n
    BY <1>1
  <2>. HIDE DEF m
  <2>2. n % m = n
    BY <2>1, Wrap
  <2>. QED
    BY <1>12, <2>1, <2>2 DEF m
<1>14. \A i \in 1..n : (0 + i - 1) % (2 * n) = i - 1
  <2>. TAKE i \in 1..n
  <2>1. 0 \in 0..(2*n)-1 /\ i \in 1..2*n /\ 2 * n \in Nat \ {0} /\ 0 + i - 1 < 2 * n
    BY <1>1
  <2>2. (0 + i - 1) % (2 * n) = IF 0 + i - 1 < 2 * n THEN 0 + i - 1 ELSE 0 + i - 1 - 2 * n
    BY <2>1, Place
  <2>. QED
    BY <1>1, <2>1, <2>2
<1>15. ASSUME NEW i \in 1..n
       PROVE  At(i)' = ring[(head + i - 1) % n]
  <2>1. At(i)' = entries'[(0 + i - 1) % (2 * n)]
    BY <1>8 DEF At
  <2>2. i - 1 \in 0..2*n-1 /\ i - 1 < n /\ head + (i - 1) = head + i - 1
    BY <1>1
  <2>3. entries'[i - 1] = ring[(head + (i - 1)) % n]
    BY <1>6, <2>2
  <2>. QED
    BY <1>14, <2>1, <2>2, <2>3
<1>16. \A i \in 1..k : i \in 1..n /\ (head + i - 1) % n # tail
  BY <1>1, <1>4, <1>9, <1>10, <1>11
<1>17. k + 1 \in 1..n /\ (head + (k + 1) - 1) % n = tail
  BY <1>1, <1>4, <1>9, <1>10, <1>11
<1>18. \A i \in 1..k : At(i)' = At(i)
  <2>. TAKE i \in 1..k
  <2>1. At(i) = entries[(head + i - 1) % n]
    BY DEF At, n
  <2>. QED
    BY <1>1, <1>4, <1>15, <1>16, <2>1
<1>19. At(k + 1)' = e
  BY <1>1, <1>15, <1>17
<1>20. 0 \in 0..2*n-1 /\ n \in 0..2*n-1 /\ k + 1 = n
  BY <1>1, <1>11
<1>. QED
  BY <1>7, <1>8, <1>13, <1>18, <1>19, <1>20 DEF n

(* The oldest entry taken out.                                              *)
LEMMA TakeOut ==
  ASSUME Types, entries' = entries, tail' = tail, head' = (head + 1) % Size, head # tail,
         NEW k, k = InUse
  PROVE  /\ Size' = Size /\ head' \in 0..Size-1
         /\ InUse' = k - 1 /\ k # 0
         /\ \A i \in 1..k-1 : At(i)' = At(i + 1)
         /\ entries[head] = At(1) /\ At(1) \in Entry
<1>. DEFINE n == Size
<1>1. /\ n \in Nat \ {0} /\ head \in 0..n-1 /\ tail \in 0..n-1
      /\ entries \in [0..n-1 -> Entry]
  BY DEF Types, TypeOK
<1>2. Size' = n
  BY DEF Size
<1>. HIDE DEF n
<1>3. head' = (IF head + 1 = n THEN 0 ELSE head + 1) /\ head' \in 0..n-1
  BY <1>1, After DEF n
<1>4. k = (IF head <= tail THEN tail - head ELSE tail - head + n) /\ k \in 0..n-1 /\ k # 0
  BY UseCount DEF n
<1>5. InUse' = (tail - head') % n
  BY <1>2 DEF InUse
<1>6. tail - head' \in Int /\ -n <= tail - head' /\ tail - head' < 2 * n
  BY <1>1, <1>3
<1>7. (tail - head') % n = IF tail - head' < 0 THEN tail - head' + n
                           ELSE IF tail - head' < n THEN tail - head' ELSE tail - head' - n
  BY <1>1, <1>6, Wrap
<1>8. InUse' = k - 1
  BY <1>1, <1>3, <1>4, <1>5, <1>7
<1>9. \A h \in 0..n-1, i \in 1..n :
        (h + i - 1) % n = IF h + i - 1 < n THEN h + i - 1 ELSE h + i - 1 - n
  BY <1>1, Place
<1>10. ASSUME NEW i \in 1..k-1
       PROVE  (head' + i - 1) % n = (head + (i + 1) - 1) % n
  <2>1. i \in 1..n /\ i + 1 \in 1..n
    BY <1>1, <1>4
  <2>2. /\ (head' + i - 1) % n = IF head' + i - 1 < n THEN head' + i - 1 ELSE head' + i - 1 - n
        /\ (head + (i + 1) - 1) % n
             = IF head + (i + 1) - 1 < n THEN head + (i + 1) - 1 ELSE head + (i + 1) - 1 - n
    BY <1>1, <1>3, <1>9, <2>1
  <2>. DEFINE a == (head' + i - 1) % n
              b == (head + (i + 1) - 1) % n
  <2>. HIDE DEF a, b
  <2>3. /\ a = IF head' + i - 1 < n THEN head' + i - 1 ELSE head' + i - 1 - n
        /\ b = IF head + (i + 1) - 1 < n THEN head + (i + 1) - 1 ELSE head + (i + 1) - 1 - n
    BY <2>2 DEF a, b
  <2>4. a = b
    BY <1>1, <1>3, <1>4, <2>1, <2>3
  <2>. QED
    BY <2>4 DEF a, b
<1>11. \A i \in 1..k-1 : At(i)' = At(i + 1)
  <2>. TAKE i \in 1..k-1
  <2>1. At(i)' = entries[(head' + i - 1) % n] /\ At(i + 1) = entries[(head + (i + 1) - 1) % n]
    BY <1>2 DEF At, n
  <2>. QED
    BY <1>10, <2>1
<1>12. entries[head] = At(1)
  <2>1. 1 \in 1..n /\ head + 1 - 1 < n /\ head + 1 - 1 = head
    BY <1>1
  <2>2. (head + 1 - 1) % n = head
    BY <1>1, <1>9, <2>1
  <2>. QED
    BY <2>2 DEF At, n
<1>. QED
  BY <1>1, <1>2, <1>3, <1>4, <1>8, <1>11, <1>12 DEF n

(* A step that leaves the ring alone.                                       *)
LEMMA RingAside ==
  ASSUME UNCHANGED <<entries, head, tail>>
  PROVE  Size' = Size /\ InUse' = InUse /\ \A i : At(i)' = At(i)
BY DEF Size, InUse, At

(* A ring that is not full but for one entry has room for the marker.       *)
LEMMA RoomAfter ==
  ASSUME Types, InUse < Size - 1
  PROVE  (tail + 1) % Size # head
<1>. DEFINE n == Size
            u == InUse
            a == (tail + 1) % n
<1>1. n \in Nat \ {0} /\ head \in 0..n-1 /\ tail \in 0..n-1
  BY DEF Types, TypeOK
<1>2. u = (IF head <= tail THEN tail - head ELSE tail - head + n) /\ u \in 0..n-1 /\ u < n - 1
  BY UseCount
<1>. HIDE DEF n, u
<1>3. a = IF tail + 1 = n THEN 0 ELSE tail + 1
  BY <1>1, After
<1>. HIDE DEF a
<1>4. a # head
  BY <1>1, <1>2, <1>3
<1>. QED
  BY <1>4 DEF a, n

(***************************************************************************)
(* Every step keeps the invariant.                                         *)
(***************************************************************************)
(* add() puts the message behind all others.                                *)
LEMMA AddKeeps ==
  ASSUME IInv, add
  PROVE  IInv'
<1>. DEFINE A == Len(accepted)
            P == Len(printed)
            k == InUse
            e == [msg |-> A + 1, is_end |-> FALSE]
<1>1. /\ Types /\ Owners /\ Ring /\ Histories /\ running /\ A < MaxAdds /\ A \in Nat /\ P \in Nat
      /\ accepted \in Seq([msg : 1..MaxAdds, file : 0..MaxFiles]) /\ file \in 0..MaxFiles
  BY DEF IInv, add, Types, TypeOK
<1>2. e \in Entry /\ e.msg = A + 1 /\ ~e.is_end
  BY <1>1, LogAssumption DEF Entry
<1>3. /\ accepted' = Append(accepted, [msg |-> A + 1, file |-> file])
      /\ UNCHANGED <<running, thrd, cur, owner, file, calls, printed>>
  BY DEF add
<1>4. /\ (tail + 1) % Size # head =>
           entries' = [entries EXCEPT ![tail] = e] /\ tail' = (tail + 1) % Size /\ head' = head
      /\ (tail + 1) % Size = head =>
           entries' = Expanded([entries EXCEPT ![tail] = e], head) /\ head' = 0 /\ tail' = Size
  BY DEF add
<1>. HIDE DEF e
<1>5. /\ entries' \in [0..Size'-1 -> Entry] /\ Size' \in Nat \ {0}
      /\ head' \in 0..Size'-1 /\ tail' \in 0..Size'-1
      /\ InUse' = k + 1 /\ (\A i \in 1..k : At(i)' = At(i))
      /\ \A j : j = k + 1 => At(j)' = e
  <2>1. CASE (tail + 1) % Size # head
    <3>1. /\ Size' = Size /\ entries' \in [0..Size-1 -> Entry] /\ tail' \in 0..Size-1
          /\ InUse' = k + 1 /\ \A i \in 1..k : At(i)' = At(i)
      BY <1>1, <1>2, <1>4, <2>1, Store
    <3>2. ASSUME NEW j, j = k + 1 PROVE At(j)' = e
      <4>1. \A m : m = InUse => At(m + 1)' = e
        BY <1>1, <1>2, <1>4, <2>1, Store
      <4>2. PICK m : m = k
        OBVIOUS
      <4>. QED
        BY <3>2, <4>1, <4>2
    <3>. QED
      BY <1>1, <1>4, <2>1, <3>1, <3>2 DEF Types, TypeOK
  <2>2. CASE (tail + 1) % Size = head
    <3>. DEFINE ring == [entries EXCEPT ![tail] = e]
    <3>0. entries' = Expanded(ring, head)
      BY <1>4, <2>2
    <3>. HIDE DEF ring
    <3>1. ring = [entries EXCEPT ![tail] = e]
      BY DEF ring
    <3>2. \A m : m = InUse =>
            /\ Size' = 2 * Size /\ entries' \in [0..Size'-1 -> Entry] /\ Size' \in Nat \ {0}
            /\ head' \in 0..Size'-1 /\ tail' \in 0..Size'-1
            /\ InUse' = m + 1
            /\ \A i \in 1..m : At(i)' = At(i)
            /\ At(m + 1)' = e
      BY <1>1, <1>2, <1>4, <2>2, <3>0, <3>1, Grow
    <3>3. PICK m : m = k
      OBVIOUS
    <3>. QED
      BY <3>2, <3>3
  <2>. QED
    BY <2>1, <2>2
<1>6. k \in Nat
  BY <1>1, UseCount DEF Types
<1>7. /\ accepted' \in Seq([msg : 1..MaxAdds, file : 0..MaxFiles])
      /\ Len(accepted') = A + 1
      /\ \A i \in 1..A : accepted'[i] = accepted[i]
      /\ accepted'[A + 1].msg = A + 1 /\ accepted'[A + 1].file = file
  <2>. DEFINE r == [msg |-> A + 1, file |-> file]
  <2>1. r \in [msg : 1..MaxAdds, file : 0..MaxFiles] /\ r.msg = A + 1 /\ r.file = file
    BY <1>1, LogAssumption
  <2>. HIDE DEF r
  <2>. QED
    BY <1>1, <1>3, <2>1 DEF r
<1>8. ~Marked /\ ~Marked' /\ Held' = Held /\ Held \in 0..1
  BY <1>1, <1>3 DEF Marked, Held
<1>9. P + Held + k = A
  BY <1>1, <1>8 DEF Ring
<1>10. Types'
  BY <1>1, <1>3, <1>5, <1>7 DEF Types, TypeOK
<1>11. Owners'
  BY <1>1, <1>3 DEF Owners
<1>12. Ring'
  <2>1. P + Held' + InUse' = A + 1
    <3>1. P \in Nat /\ A \in Nat /\ InUse' = k + 1 /\ Held' = Held /\ Held \in Nat
      BY <1>1, <1>5, <1>8
    <3>. QED
      BY ONLY <1>6, <1>9, <3>1
  <2>2. Held' = 1 => cur'.msg = P + 1
    BY <1>1, <1>3, <1>8 DEF Ring
  <2>3. thrd' # "exited"
    BY <1>1, <1>3 DEF Owners
  <2>4. ASSUME NEW i \in 1..k+1
        PROVE  ~At(i)'.is_end /\ At(i)'.msg = P + Held + i
    <3>1. CASE i \in 1..k
      BY <1>1, <1>5, <1>8, <3>1 DEF Ring
    <3>2. CASE i = k + 1
      <4>1. At(i)' = e
        BY <1>5, <3>2
      <4>2. P \in Nat /\ A \in Nat /\ Held \in Nat
        BY <1>1, <1>8
      <4>3. A + 1 = P + Held + i
        BY ONLY <1>6, <1>9, <3>2, <4>2
      <4>. QED
        BY <1>2, <4>1, <4>3
    <3>. QED
      BY <1>6, <3>1, <3>2
  <2>5. Len(printed') = P
    BY <1>3
  <2>6. \A i \in 1..InUse' : /\ At(i)'.is_end <=> Marked' /\ i = InUse'
                             /\ ~At(i)'.is_end => At(i)'.msg = Len(printed') + Held' + i
    BY <1>5, <1>8, <2>4, <2>5
  <2>. QED
    BY <1>7, <1>8, <2>1, <2>2, <2>3, <2>5, <2>6 DEF Ring
<1>13. Histories'
  <2>1. P <= A
    BY <1>1, <1>6, <1>8, <1>9
  <2>. HIDE DEF A, P
  <2>2. Len(accepted') <= MaxAdds
    BY <1>1, <1>7, LogAssumption
  <2>3. \A i \in 1..Len(accepted') : accepted'[i].msg = i
    <3>1. \A i \in 1..A : accepted[i].msg = i
      BY <1>1 DEF Histories, A
    <3>2. ASSUME NEW i \in 1..Len(accepted') PROVE accepted'[i].msg = i
      <4>1. i \in 1..A \/ i = A + 1
        BY <1>1, <1>7
      <4>2. CASE i \in 1..A
        BY <1>7, <3>1, <4>2
      <4>3. CASE i = A + 1
        BY <1>7, <4>3
      <4>. QED
        BY <4>1, <4>2, <4>3
    <3>. QED
      BY <3>2
  <2>4. \A i \in 1..Len(printed') : printed'[i] = accepted'[i]
    BY <1>1, <1>3, <1>7, <2>1 DEF Histories, P
  <2>5. \A i \in Len(printed')+1..Len(accepted') : accepted'[i].file = file'
    BY <1>1, <1>3, <1>7, <2>1 DEF Histories, A, P
  <2>. QED
    BY <2>2, <2>3, <2>4, <2>5 DEF Histories
<1>. QED
  BY <1>10, <1>11, <1>12, <1>13 DEF IInv

(* The worker takes the oldest message, or the marker when nothing else is  *)
(* left.                                                                    *)
LEMMA TakeKeeps ==
  ASSUME IInv, Take
  PROVE  IInv'
<1>. DEFINE A == Len(accepted)
            P == Len(printed)
            k == InUse
<1>1. /\ Types /\ Owners /\ Ring /\ Histories /\ A \in Nat /\ P \in Nat
      /\ thrd = "wait" /\ head # tail
  BY DEF IInv, Take, Types
<1>2. /\ cur' = entries[head] /\ head' = (head + 1) % Size
      /\ thrd' = (IF cur'.is_end THEN "exited" ELSE "print")
      /\ UNCHANGED <<entries, tail, running, owner, file, calls, accepted, printed>>
  BY DEF Take
<1>3. /\ Size' = Size /\ head' \in 0..Size-1 /\ InUse' = k - 1 /\ k # 0
      /\ (\A i \in 1..k-1 : At(i)' = At(i + 1))
      /\ cur' = At(1) /\ cur' \in Entry
  <2>1. \A m : m = InUse =>
          /\ Size' = Size /\ head' \in 0..Size-1 /\ InUse' = m - 1 /\ m # 0
          /\ \A i \in 1..m-1 : At(i)' = At(i + 1)
          /\ entries[head] = At(1) /\ At(1) \in Entry
    BY <1>1, <1>2, TakeOut
  <2>2. PICK m : m = k
    OBVIOUS
  <2>. QED
    BY <1>2, <2>1, <2>2
<1>4. k \in Nat /\ Held = 0
  BY <1>1, UseCount DEF Types, Held
<1>5. Types'
  BY <1>1, <1>2, <1>3 DEF Types, TypeOK
<1>6. /\ cur'.is_end <=> Marked /\ k = 1
      /\ ~cur'.is_end => cur'.msg = P + 1
  <2>1. 1 \in 1..k /\ P + 0 + 1 = P + 1
    BY <1>1, <1>3, <1>4
  <2>2. /\ At(1).is_end <=> Marked /\ 1 = k
        /\ ~At(1).is_end => At(1).msg = P + Held + 1
    BY <1>1, <2>1 DEF Ring
  <2>. QED
    BY <1>3, <1>4, <2>1, <2>2
<1>7. Marked <=> ~running
  BY <1>1 DEF Marked
<1>8. CASE cur'.is_end
  <2>1. thrd' = "exited" /\ ~running /\ k = 1 /\ Marked /\ ~Marked' /\ Held' = 0
    BY <1>2, <1>6, <1>7, <1>8 DEF Marked, Held
  <2>2. InUse' = 0 /\ P = A
    BY <1>1, <1>3, <1>4, <2>1 DEF Ring
  <2>3. Owners'
    BY <1>1, <1>2, <2>1 DEF Owners
  <2>4. Ring'
    BY <1>1, <1>2, <2>1, <2>2 DEF Ring
  <2>. QED
    BY <1>1, <1>2, <1>5, <2>3, <2>4 DEF IInv, Histories
<1>9. CASE ~cur'.is_end
  <2>1. thrd' = "print" /\ (Marked' <=> Marked) /\ Held' = 1 /\ cur'.msg = P + 1
        /\ (Marked => k # 1)
    BY <1>2, <1>6, <1>7, <1>9 DEF Marked, Held
  <2>2. Owners'
    BY <1>1, <1>2, <2>1 DEF Owners
  <2>3. P + Held' + InUse' = A + (IF Marked' THEN 1 ELSE 0)
    <3>1. P + Held + k = A + (IF Marked THEN 1 ELSE 0)
      BY <1>1 DEF Ring
    <3>. QED
      BY <1>1, <1>3, <1>4, <2>1, <3>1
  <2>4. ASSUME NEW i \in 1..k-1
        PROVE  /\ At(i)'.is_end <=> Marked' /\ i = k - 1
               /\ ~At(i)'.is_end => At(i)'.msg = P + 1 + i
    <3>1. i + 1 \in 1..k /\ (i + 1 = k <=> i = k - 1) /\ P + 0 + (i + 1) = P + 1 + i
      BY <1>1, <1>4
    <3>2. /\ At(i + 1).is_end <=> Marked /\ i + 1 = k
          /\ ~At(i + 1).is_end => At(i + 1).msg = P + Held + (i + 1)
      BY <1>1, <3>1 DEF Ring
    <3>. QED
      BY <1>3, <1>4, <2>1, <3>1, <3>2
  <2>5. Ring'
    <3>1. \A i \in 1..InUse' : /\ At(i)'.is_end <=> Marked' /\ i = InUse'
                               /\ ~At(i)'.is_end => At(i)'.msg = P + Held' + i
      BY <1>3, <2>1, <2>4
    <3>2. Marked' => InUse' # 0
      BY <1>3, <1>4, <2>1
    <3>. QED
      BY <1>2, <2>1, <2>3, <3>1, <3>2 DEF Ring
  <2>. QED
    BY <1>1, <1>2, <1>5, <2>2, <2>5 DEF IInv, Histories
<1>. QED
  BY <1>8, <1>9

(* The worker prints the message to the file it was logged for.             *)
LEMMA PrintKeeps ==
  ASSUME IInv, PrintConsole \/ PrintFile
  PROVE  IInv'
<1>. DEFINE A == Len(accepted)
            P == Len(printed)
            k == InUse
<1>1. /\ Types /\ Owners /\ Ring /\ Histories /\ A \in Nat /\ P \in Nat
      /\ UNCHANGED <<entries, head, tail, running, cur, owner, file, calls, accepted>>
      /\ thrd \in {"print", "file"} /\ thrd' \in {"file", "wait"}
  BY DEF IInv, PrintConsole, PrintFile, Types
<1>2. Size' = Size /\ InUse' = k /\ (\A i : At(i)' = At(i)) /\ (Marked' <=> Marked) /\ Held = 1
  BY <1>1, RingAside DEF Marked, Held
<1>3. k \in Nat
  BY <1>1, UseCount DEF Types
<1>4. Owners'
  BY <1>1 DEF Owners
<1>5. CASE PrintConsole
  <2>1. printed' = printed /\ Held' = 1
    BY <1>5 DEF PrintConsole, Held
  <2>2. Types' /\ Histories'
    BY <1>1, <1>2, <2>1 DEF Types, TypeOK, Histories
  <2>3. Ring'
    BY <1>1, <1>2, <2>1 DEF Ring
  <2>. QED
    BY <1>4, <2>2, <2>3 DEF IInv
<1>6. CASE PrintFile
  <2>1. /\ printed' = Append(printed, [msg |-> cur.msg, file |-> file]) /\ thrd' = "wait" /\ Held' = 0
    BY <1>6 DEF PrintFile, Held
  <2>2. cur.msg = P + 1
    BY <1>1, <1>2 DEF Ring
  <2>3. P + 1 + k = A + (IF Marked THEN 1 ELSE 0) /\ (Marked => k # 0)
    BY <1>1, <1>2 DEF Ring
  <2>4. P + 1 \in 1..A /\ P + 1 \in P+1..A
    BY <1>1, <1>3, <2>3
  <2>5. accepted[P + 1] = [msg |-> cur.msg, file |-> file]
    <3>1. accepted[P + 1] \in [msg : 1..MaxAdds, file : 0..MaxFiles]
      <4>. DEFINE a == P + 1
                  R == [msg : 1..MaxAdds, file : 0..MaxFiles]
      <4>1. accepted \in Seq(R)
        BY <1>1 DEF Types
      <4>2. a \in 1..Len(accepted)
        BY <2>4
      <4>. HIDE DEF a, R
      <4>3. accepted[a] \in R
        BY ONLY <4>1, <4>2
      <4>. QED
        BY <4>3 DEF a, R
    <3>2. accepted[P + 1].msg = P + 1 /\ accepted[P + 1].file = file
      BY <1>1, <2>4 DEF Histories
    <3>. QED
      BY <2>2, <3>1, <3>2
  <2>6. /\ printed' \in Seq([msg : 0..MaxAdds, file : 0..MaxFiles]) /\ Len(printed') = P + 1
        /\ \A i \in 1..P : printed'[i] = printed[i]
        /\ printed'[P + 1] = accepted[P + 1]
    <3>1. [msg |-> cur.msg, file |-> file] \in [msg : 0..MaxAdds, file : 0..MaxFiles]
      BY <1>1 DEF Types, TypeOK, Entry
    <3>. QED
      BY <1>1, <2>1, <2>5, <3>1 DEF Types
  <2>7. Types'
    BY <1>1, <1>2, <2>1, <2>6 DEF Types, TypeOK
  <2>8. Histories'
    <3>1. ASSUME NEW i \in 1..Len(printed') PROVE printed'[i] = accepted'[i]
      <4>1. i \in 1..P \/ i = P + 1
        BY <1>1, <2>6
      <4>. QED
        BY <1>1, <2>6, <4>1 DEF Histories
    <3>2. ASSUME NEW i \in Len(printed')+1..Len(accepted') PROVE accepted'[i].file = file'
      <4>1. i \in P+1..A
        BY <1>1, <2>6
      <4>. QED
        BY <1>1, <4>1 DEF Histories
    <3>3. Len(accepted') <= MaxAdds /\ \A i \in 1..Len(accepted') : accepted'[i].msg = i
      BY <1>1 DEF Histories
    <3>. QED
      BY <3>1, <3>2, <3>3 DEF Histories
  <2>9. Ring'
    <3>1. ASSUME NEW i \in 1..k
          PROVE  /\ At(i)'.is_end <=> Marked' /\ i = k
                 /\ ~At(i)'.is_end => At(i)'.msg = P + 1 + 0 + i
      <4>1. /\ At(i).is_end <=> Marked /\ i = k
            /\ ~At(i).is_end => At(i).msg = P + Held + i
        BY <1>1 DEF Ring
      <4>2. P + 1 + i = P + 1 + 0 + i
        BY <1>1
      <4>. QED
        BY <1>2, <4>1, <4>2
    <3>2. P + 1 + 0 + k = A + (IF Marked THEN 1 ELSE 0)
      BY <1>1, <1>3, <2>3
    <3>. QED
      BY <1>1, <1>2, <2>1, <2>3, <2>6, <3>1, <3>2 DEF Ring
  <2>. QED
    BY <1>4, <2>7, <2>8, <2>9 DEF IInv
<1>. QED
  BY <1>5, <1>6

(* The owner's marker goes behind all messages, where there is room.        *)
LEMMA PauseKeeps ==
  ASSUME IInv, ~PauseOnFull, NEW why \in {"pause", "set_file", "set_colors", "free"}, Pause(why)
  PROVE  IInv'
<1>. DEFINE A == Len(accepted)
            P == Len(printed)
            k == InUse
            e == [entries[tail] EXCEPT !.is_end = TRUE]
<1>1. /\ Types /\ Owners /\ Ring /\ Histories /\ A \in Nat /\ P \in Nat
      /\ owner = "idle" /\ running /\ InUse < Size - 1
      /\ UNCHANGED <<head, thrd, cur, file, accepted, printed>>
  BY DEF IInv, Pause, Types
<1>2. /\ running' = FALSE /\ owner' = why /\ tail' = (tail + 1) % Size
      /\ entries' = [entries EXCEPT ![tail] = e]
  BY DEF Pause, PushEnd
<1>3. calls' \in 0..MaxFiles
  <2>1. calls \in 0..MaxFiles /\ MaxFiles \in Nat
    BY <1>1, LogAssumption DEF Types, TypeOK
  <2>2. why # "free" => calls < MaxFiles
    BY DEF Pause
  <2>. QED
    BY <2>1, <2>2 DEF Pause
<1>4. e \in Entry /\ e.is_end
  <2>1. entries[tail] \in Entry
    BY <1>1 DEF Types, TypeOK
  <2>. QED
    BY <2>1 DEF Entry
<1>. HIDE DEF e
<1>5. tail' # head
  BY <1>1, <1>2, RoomAfter
<1>6. /\ Size' = Size /\ entries' \in [0..Size-1 -> Entry] /\ tail' \in 0..Size-1
      /\ InUse' = k + 1 /\ (\A i \in 1..k : At(i)' = At(i))
      /\ \A j : j = k + 1 => At(j)' = e
  <2>1. \A m : m = InUse =>
          /\ Size' = Size /\ entries' \in [0..Size-1 -> Entry] /\ tail' \in 0..Size-1
          /\ InUse' = m + 1
          /\ \A i \in 1..m : At(i)' = At(i)
          /\ At(m + 1)' = e
    BY <1>1, <1>2, <1>4, <1>5, Store
  <2>2. PICK m : m = k
    OBVIOUS
  <2>. QED
    BY <2>1, <2>2
<1>7. k \in Nat
  BY <1>1, UseCount DEF Types
<1>8. ~Marked /\ Marked' /\ Held' = Held /\ Held \in 0..1 /\ thrd' # "exited"
  BY <1>1, <1>2 DEF Marked, Held, Owners
<1>9. Types'
  BY <1>1, <1>2, <1>3, <1>6 DEF Types, TypeOK
<1>10. Owners'
  BY <1>1, <1>2, <1>8 DEF Owners
<1>11. Histories'
  BY <1>1 DEF Histories
<1>12. Ring'
  <2>1. P + Held + k = A
    BY <1>1, <1>8 DEF Ring
  <2>2. P + Held' + InUse' = A + (IF Marked' THEN 1 ELSE 0)
    <3>1. Held \in Nat
      BY <1>8
    <3>2. P \in Nat /\ A \in Nat
      BY <1>1
    <3>3. P + Held + (k + 1) = A + 1
      BY ONLY <1>7, <2>1, <3>1, <3>2
    <3>. QED
      BY <1>6, <1>8, <3>3
  <2>3. Held' = 1 => cur'.msg = P + 1
    BY <1>1, <1>8 DEF Ring
  <2>4. ASSUME NEW i \in 1..k+1
        PROVE  /\ At(i)'.is_end <=> i = k + 1
               /\ ~At(i)'.is_end => At(i)'.msg = P + Held + i
    <3>1. i \in 1..k \/ i = k + 1
      BY <1>7
    <3>2. CASE i \in 1..k
      <4>1. i # k + 1
        BY <1>7, <3>2
      <4>. QED
        BY <1>1, <1>6, <1>8, <3>2, <4>1 DEF Ring
    <3>3. CASE i = k + 1
      BY <1>4, <1>6, <3>3
    <3>. QED
      BY <3>1, <3>2, <3>3
  <2>5. \A i \in 1..InUse' : /\ At(i)'.is_end <=> Marked' /\ i = InUse'
                             /\ ~At(i)'.is_end => At(i)'.msg = P + Held' + i
    BY <1>6, <1>8, <2>4
  <2>6. InUse' # 0
    BY <1>6, <1>7
  <2>. QED
    BY <1>1, <1>8, <2>2, <2>3, <2>5, <2>6 DEF Ring
<1>. QED
  BY <1>9, <1>10, <1>11, <1>12 DEF IInv

(* The worker that took the marker leaves nothing in its hands or in the    *)
(* ring.                                                                    *)
LEMMA Drained ==
  ASSUME IInv, thrd = "exited"
  PROVE  InUse = 0 /\ Held = 0 /\ ~Marked /\ Len(printed) = Len(accepted)
<1>1. InUse = 0 /\ Held = 0 /\ ~Marked
  BY DEF IInv, Ring, Held, Marked
<1>2. Len(printed) + Held + InUse = Len(accepted) + 0 /\ Len(printed) \in Nat /\ Len(accepted) \in Nat
  BY <1>1 DEF IInv, Ring, Types
<1>. QED
  BY <1>1, <1>2

(* Nothing waits for a file when the owner changes it.                      *)
LEMMA JoinedKeeps ==
  ASSUME IInv, Joined \/ CallPaused
  PROVE  IInv'
<1>1. /\ Types /\ Owners /\ Ring /\ Histories
      /\ UNCHANGED <<entries, head, tail, cur, calls, accepted, printed>>
  BY DEF IInv, Joined, CallPaused
<1>2. thrd = "exited" /\ owner # "idle"
  BY <1>1 DEF Joined, CallPaused, Owners
<1>3. /\ InUse = 0 /\ Held = 0 /\ ~Marked /\ Len(printed) = Len(accepted)
      /\ Len(printed) \in Nat
  BY <1>1, <1>2, Drained DEF Types
<1>4. Size' = Size /\ InUse' = 0
  BY <1>1, <1>3, RingAside
<1>5. \/ owner' = "idle" /\ running' = TRUE /\ thrd' = "wait"
      \/ owner' \in {"paused", "freed"} /\ running' = running /\ thrd' = thrd
  BY DEF Joined, CallPaused, resume
<1>6. file' \in 0..MaxFiles
  <2>1. file \in 0..MaxFiles /\ calls \in 0..MaxFiles /\ 0 \in 0..MaxFiles
    BY <1>1, LogAssumption DEF Types, TypeOK
  <2>. QED
    BY <2>1 DEF Joined, CallPaused
<1>7. ~running
  BY <1>1, <1>2 DEF Owners
<1>8. Held' = 0 /\ ~Marked'
  BY <1>2, <1>5 DEF Held, Marked
<1>9. Types'
  <2>1. running' \in BOOLEAN
    <3>1. running \in BOOLEAN
      BY <1>1 DEF Types, TypeOK
    <3>. QED
      BY <1>5, <3>1, Zenon
  <2>2. thrd' \in {"wait", "print", "file", "exited"}
    BY <1>2, <1>5
  <2>3. owner' \in {"idle", "paused", "freed", "pause", "set_file", "set_colors", "free"}
    BY <1>5
  <2>. QED
    BY <1>1, <1>4, <1>6, <2>1, <2>2, <2>3 DEF Types, TypeOK
<1>10. Owners'
  BY <1>2, <1>5, <1>7 DEF Owners
<1>11. Ring'
  <2>1. Len(printed') + Held' + InUse' = Len(accepted') + (IF Marked' THEN 1 ELSE 0)
    BY <1>1, <1>3, <1>4, <1>8
  <2>. QED
    BY <1>4, <1>8, <2>1 DEF Ring
<1>12. Histories'
  BY <1>1, <1>3 DEF Histories
<1>. QED
  BY <1>9, <1>10, <1>11, <1>12 DEF IInv

(* A new log is an empty ring.                                              *)
LEMMA InitInv == Init => IInv
<1>. SUFFICES ASSUME Init PROVE IInv
  OBVIOUS
<1>1. Capacity \in Nat \ {0} /\ MaxAdds \in Nat /\ MaxFiles \in Nat
  BY LogAssumption
<1>2. Size = Capacity
  <2>1. Capacity \in Nat /\ DOMAIN entries = 0..Capacity-1
    BY <1>1 DEF Init
  <2>. QED
    BY <2>1, SizeOf DEF Size
<1>3. Blank \in Entry
  BY <1>1 DEF Blank, Entry
<1>4. Types
  <2>1. entries \in [0..Size-1 -> Entry] /\ head \in 0..Size-1 /\ tail \in 0..Size-1
    BY <1>1, <1>2, <1>3 DEF Init
  <2>. QED
    BY <1>1, <1>2, <1>3, <2>1 DEF Init, Types, TypeOK
<1>5. InUse = 0
  BY <1>4, UseCount DEF Init
<1>6. Held = 0 /\ ~Marked /\ Len(printed) = 0 /\ Len(accepted) = 0
  BY DEF Init, Held, Marked
<1>7. Ring
  BY <1>5, <1>6 DEF Init, Ring
<1>8. Owners /\ Histories
  BY <1>1, <1>6 DEF Init, Owners, Histories
<1>. QED
  BY <1>4, <1>7, <1>8 DEF IInv

LEMMA NextInv ==
  ASSUME ~PauseOnFull
  PROVE  IInv /\ [Next]_vars => IInv'
<1>. SUFFICES ASSUME IInv, [Next]_vars PROVE IInv'
  OBVIOUS
<1>1. CASE add
  BY <1>1, AddKeeps
<1>2. CASE Worker
  BY <1>2, TakeKeeps, PrintKeeps DEF Worker
<1>3. CASE \E why \in {"pause", "set_file", "set_colors", "free"} : Pause(why)
  BY <1>3, PauseKeeps
<1>4. CASE Joined \/ CallPaused
  BY <1>4, JoinedKeeps
<1>5. CASE UNCHANGED vars
  <2>1. UNCHANGED <<entries, head, tail>> /\ UNCHANGED <<running, thrd, cur, owner>>
        /\ UNCHANGED <<file, calls, accepted, printed>>
    BY <1>5 DEF vars
  <2>2. /\ Size' = Size /\ InUse' = InUse /\ (\A i : At(i)' = At(i))
        /\ (Marked' <=> Marked) /\ Held' = Held
    BY <2>1, RingAside DEF Marked, Held
  <2>3. Types' /\ Owners' /\ Histories'
    BY <2>1, <2>2 DEF IInv, Types, TypeOK, Owners, Histories
  <2>4. Ring'
    BY <2>1, <2>2 DEF IInv, Ring
  <2>. QED
    BY <2>3, <2>4 DEF IInv
<1>. QED
  BY <1>1, <1>2, <1>3, <1>4, <1>5 DEF Next

(***************************************************************************)
(* The theorems.                                                           *)
(***************************************************************************)
LEMMA Inductive ==
  ASSUME ~PauseOnFull
  PROVE  Spec => []IInv
BY InitInv, NextInv, PTL DEF Spec

(* Both ends of the ring stay inside it through every growth.               *)
THEOREM RingInBounds ==
  ASSUME ~PauseOnFull
  PROVE  Spec => []TypeOK
<1>1. IInv => TypeOK
  BY DEF IInv, Types
<1>. QED
  BY <1>1, Inductive, PTL

(* Every message is printed once, in the order of the calls of add(), to    *)
(* the file that was open when it was logged, although set_file and the     *)
(* worker touch `file` without the mutex.                                   *)
THEOREM FilesKept ==
  ASSUME ~PauseOnFull
  PROVE  Spec => []EachToItsFile
<1>1. ASSUME IInv PROVE EachToItsFile
  <2>1. /\ Len(printed) \in Nat /\ Len(accepted) \in Nat /\ Held \in 0..1 /\ InUse \in Nat
        /\ Len(printed) + Held + InUse = Len(accepted) + (IF Marked THEN 1 ELSE 0)
        /\ Marked => InUse # 0
    BY <1>1, UseCount DEF IInv, Types, Ring, Held
  <2>2. Len(printed) <= Len(accepted)
    BY <2>1
  <2>3. \A i \in DOMAIN printed : printed[i] = accepted[i]
    <3>1. DOMAIN printed = 1..Len(printed)
      BY <1>1 DEF IInv, Types
    <3>2. \A i \in 1..Len(printed) : printed[i] = accepted[i]
      BY <1>1 DEF IInv, Histories
    <3>. QED
      BY <3>1, <3>2
  <2>. QED
    BY <2>2, <2>3 DEF EachToItsFile
<1>. QED
  BY <1>1, Inductive, PTL

(***************************************************************************)
(* The ring as a queue.                                                    *)
(***************************************************************************)
(* The messages after the p-th up to the a-th.                              *)
Between(p, a) == [i \in 1..a-p |-> p + i]

LEMMA BetweenIsSeq ==
  ASSUME NEW p \in Nat, NEW a \in Nat, p <= a
  PROVE  /\ Between(p, a) \in Seq(Nat) /\ Len(Between(p, a)) = a - p
         /\ \A i \in 1..a-p : Between(p, a)[i] = p + i
<1>1. a - p \in Nat /\ \A i \in 1..a-p : p + i \in Nat
  OBVIOUS
<1>. QED
  BY <1>1, IsASeq DEF Between

LEMMA BetweenAppend ==
  ASSUME NEW p \in Nat, NEW a \in Nat, p <= a, NEW b, b = a + 1
  PROVE  Between(p, b) = Append(Between(p, a), b)
<1>. DEFINE s == Between(p, a)
            t == Between(p, b)
            n == a - p
<1>1. b \in Nat /\ p <= b /\ n \in Nat /\ b - p = n + 1 /\ p + (n + 1) = b
  OBVIOUS
<1>2. s \in Seq(Nat) /\ Len(s) = n /\ \A i \in 1..n : s[i] = p + i
  BY BetweenIsSeq
<1>3. t \in Seq(Nat) /\ Len(t) = n + 1 /\ \A i \in 1..n+1 : t[i] = p + i
  <2>1. t \in Seq(Nat) /\ Len(t) = b - p /\ \A i \in 1..b-p : t[i] = p + i
    BY <1>1, BetweenIsSeq
  <2>. QED
    BY <1>1, <2>1
<1>. HIDE DEF s, t, n
<1>. DEFINE u == Append(s, b)
<1>4. u \in Seq(Nat) /\ Len(u) = n + 1 /\ (\A i \in 1..n : u[i] = s[i]) /\ u[n + 1] = b
  BY <1>1, <1>2
<1>. HIDE DEF u
<1>5. ASSUME NEW i \in 1..n+1 PROVE t[i] = u[i]
  <2>1. i \in 1..n \/ i = n + 1
    BY <1>1
  <2>2. CASE i \in 1..n
    BY <1>2, <1>3, <1>4, <2>2
  <2>3. CASE i = n + 1
    BY <1>1, <1>3, <1>4, <2>3
  <2>. QED
    BY <2>1, <2>2, <2>3
<1>6. t = u
  BY <1>3, <1>4, <1>5, SeqEqual
<1>. QED
  BY <1>6 DEF s, t, u

LEMMA BetweenTail ==
  ASSUME NEW p \in Nat, NEW a \in Nat, NEW q, q = p + 1, q <= a
  PROVE  Between(p, a) # <<>> /\ Between(q, a) = Tail(Between(p, a))
<1>. DEFINE s == Between(p, a)
            t == Between(q, a)
            n == a - q
<1>1. q \in Nat /\ p <= a /\ n \in Nat /\ a - p = n + 1 /\ \A i \in 1..n : q + i = p + (i + 1)
  OBVIOUS
<1>2. s \in Seq(Nat) /\ Len(s) = n + 1 /\ \A i \in 1..n+1 : s[i] = p + i
  <2>1. s \in Seq(Nat) /\ Len(s) = a - p /\ \A i \in 1..a-p : s[i] = p + i
    BY <1>1, BetweenIsSeq
  <2>. QED
    BY <1>1, <2>1
<1>3. t \in Seq(Nat) /\ Len(t) = n /\ \A i \in 1..n : t[i] = q + i
  BY <1>1, BetweenIsSeq
<1>. HIDE DEF s, t, n
<1>. DEFINE u == Tail(s)
<1>4. s # <<>>
  BY <1>1, <1>2
<1>5. u \in Seq(Nat) /\ Len(u) = n /\ \A i \in 1..n : u[i] = s[i + 1]
  BY <1>1, <1>2, <1>4
<1>. HIDE DEF u
<1>6. ASSUME NEW i \in 1..n PROVE t[i] = u[i]
  <2>1. i + 1 \in 1..n+1
    BY <1>1
  <2>. QED
    BY <1>1, <1>2, <1>3, <1>5, <2>1
<1>7. t = u
  BY <1>3, <1>5, <1>6, SeqEqual
<1>. QED
  BY <1>4, <1>7 DEF s, t, u

(* What the log holds is what was accepted and not printed.                 *)
Contents ==
  /\ Len(printed) \in Nat /\ Len(accepted) \in Nat /\ Len(printed) <= Len(accepted)
  /\ Unwritten = Between(Len(printed), Len(accepted))

LEMMA Content == IInv => Contents
<1>. SUFFICES ASSUME IInv PROVE Contents
  OBVIOUS
<1>. DEFINE A == Len(accepted)
            P == Len(printed)
            k == InUse
            h == Held
            m == Messages
<1>1. Types /\ Ring
  BY DEF IInv
<1>2. A \in Nat /\ P \in Nat /\ k \in Nat /\ h \in Nat
  BY <1>1, UseCount DEF Types, Held
<1>3. \A i \in 1..k : Queued[i] = At(i)
  BY DEF Queued, At
<1>4. m = IF Marked THEN k - 1 ELSE k
  <2>1. k # 0 => k \in 1..k
    BY <1>2
  <2>2. k # 0 => (Queued[k].is_end <=> Marked)
    BY <1>1, <1>3, <2>1 DEF Ring
  <2>. QED
    BY <1>1, <2>2 DEF Messages, Ring
<1>5. m \in Nat /\ P + h + m = A
  <2>1. P + h + k = A + (IF Marked THEN 1 ELSE 0) /\ (Marked => k # 0)
    BY <1>1 DEF Ring
  <2>. HIDE DEF A, P, k, h, m
  <2>. QED
    BY <1>2, <1>4, <2>1
<1>6. ASSUME NEW i \in 1..m PROVE Queued[i].msg = P + h + i
  <2>1. i \in 1..k /\ (Marked => i # k)
    <3>. HIDE DEF k, m
    <3>. QED
      BY <1>2, <1>4, <1>5
  <2>. QED
    BY <1>1, <1>3, <2>1 DEF Ring
<1>. DEFINE q == [i \in 1..m |-> Queued[i].msg]
            s == Between(P, A)
<1>7. P <= A /\ A - P = h + m
  <2>. HIDE DEF A, P, h, m
  <2>. QED
    BY <1>2, <1>5
<1>8. s \in Seq(Nat) /\ Len(s) = h + m /\ \A i \in 1..h+m : s[i] = P + i
  <2>. HIDE DEF A, P, h, m
  <2>1. s \in Seq(Nat) /\ Len(s) = A - P /\ \A i \in 1..A-P : s[i] = P + i
    BY <1>2, <1>7, BetweenIsSeq
  <2>. QED
    BY <1>7, <2>1
<1>9. q \in Seq(Nat) /\ Len(q) = m /\ \A i \in 1..m : q[i] = P + h + i
  <2>. HIDE DEF P, h, m
  <2>1. \A i \in 1..m : Queued[i].msg \in Nat
    BY <1>2, <1>5, <1>6
  <2>. QED
    BY <1>5, <1>6, <2>1, IsASeq
<1>10. InHand \in Seq(Nat) /\ Len(InHand) = h /\ \A i \in 1..h : InHand[i] = P + i
  <2>1. CASE thrd \in {"print", "file"}
    <3>1. h = 1 /\ cur.msg = P + 1 /\ InHand = <<cur.msg>>
      BY <1>1, <2>1 DEF Held, InHand, Ring
    <3>. HIDE DEF P, h
    <3>. QED
      BY <1>2, <3>1
  <2>2. CASE ~(thrd \in {"print", "file"})
    BY <2>2 DEF Held, InHand
  <2>. QED
    BY <2>1, <2>2
<1>11. Unwritten = InHand \o q
  BY DEF Unwritten
<1>. HIDE DEF q, s, P, A, h, m
<1>. DEFINE u == InHand \o q
<1>12. u \in Seq(Nat) /\ Len(u) = h + m
  BY <1>9, <1>10, ConcatProperties
<1>13. ASSUME NEW i \in 1..h+m PROVE u[i] = s[i]
  <2>1. u[i] = IF i <= h THEN InHand[i] ELSE q[i - h]
    BY <1>9, <1>10, ConcatProperties
  <2>2. CASE i <= h
    BY <1>2, <1>8, <1>10, <2>1, <2>2
  <2>3. CASE ~(i <= h)
    <3>1. i - h \in 1..m /\ P + h + (i - h) = P + i
      BY <1>2, <1>5, <2>3
    <3>. QED
      BY <1>8, <1>9, <2>1, <2>3, <3>1
  <2>. QED
    BY <2>2, <2>3
<1>. HIDE DEF u
<1>14. u = s
  BY <1>8, <1>12, <1>13, SeqEqual
<1>. QED
  BY <1>2, <1>7, <1>11, <1>14 DEF Contents, u, s, P, A

LEMMA ContentNext == IInv' => Contents'
BY Content, PTL

(* Every step of the log is a step of the queue or leaves it alone.         *)
LEMMA StepOfQueue ==
  ASSUME IInv, IInv', [Next]_vars
  PROVE  [Fifo!Next]_(Fifo!vars)
<1>. DEFINE A == Len(accepted)
            P == Len(printed)
            B == Len(accepted')
            Q == Len(printed')
<1>1. A \in Nat /\ P \in Nat /\ P <= A /\ Unwritten = Between(P, A)
  BY Content DEF Contents
<1>2. B \in Nat /\ Q \in Nat /\ Q <= B /\ Unwritten' = Between(Q, B)
  BY ContentNext DEF Contents, Between
<1>3. CASE add
  <2>1. /\ running /\ running' = running /\ Q = P /\ A < MaxAdds
        /\ accepted' = Append(accepted, [msg |-> A + 1, file |-> file])
        /\ accepted \in Seq([msg : 1..MaxAdds, file : 0..MaxFiles])
    BY <1>3 DEF add, IInv, Types
  <2>2. B = A + 1
    BY <2>1
  <2>3. B \in 1..MaxAdds
    BY <1>1, <2>1, <2>2, LogAssumption
  <2>. HIDE DEF A, P, B, Q
  <2>4. Unwritten' = Append(Unwritten, B)
    BY <1>1, <1>2, <2>1, <2>2, BetweenAppend
  <2>5. Fifo!Log(B)
    BY <2>1, <2>4 DEF Fifo!Log
  <2>. QED
    BY <2>3, <2>5 DEF Fifo!Next
<1>4. CASE Take \/ PrintConsole \/ UNCHANGED vars
  <2>1. running' = running /\ accepted' = accepted /\ printed' = printed
    BY <1>4 DEF Take, PrintConsole, vars
  <2>2. Unwritten' = Unwritten
    BY <1>1, <1>2, <2>1
  <2>. QED
    BY <2>1, <2>2 DEF Fifo!vars
<1>5. CASE PrintFile
  <2>1. /\ running' = running /\ B = A
        /\ printed' = Append(printed, [msg |-> cur.msg, file |-> file])
        /\ printed \in Seq([msg : 0..MaxAdds, file : 0..MaxFiles])
    BY <1>5 DEF PrintFile, IInv, Types
  <2>2. Q = P + 1
    BY <2>1
  <2>. HIDE DEF A, P, B, Q
  <2>3. Unwritten # <<>> /\ Unwritten' = Tail(Unwritten)
    BY <1>1, <1>2, <2>1, <2>2, BetweenTail
  <2>. QED
    BY <2>1, <2>3 DEF Fifo!Write, Fifo!Next
<1>6. CASE \E why \in {"pause", "set_file", "set_colors", "free"} : Pause(why)
  <2>1. running /\ running' = FALSE /\ accepted' = accepted /\ printed' = printed
    BY <1>6 DEF Pause, PushEnd
  <2>2. Unwritten' = Unwritten
    BY <1>1, <1>2, <2>1
  <2>. QED
    BY <2>1, <2>2 DEF Fifo!Close, Fifo!Next
<1>7. CASE Joined \/ CallPaused
  <2>1. /\ accepted' = accepted /\ printed' = printed
        /\ running' = TRUE \/ running' = running
        /\ thrd = "exited" /\ ~running
    BY <1>7 DEF Joined, CallPaused, resume, IInv, Owners
  <2>2. Unwritten' = Unwritten
    BY <1>1, <1>2, <2>1
  <2>3. P = A
    BY <2>1, Drained
  <2>4. Unwritten = <<>>
    <3>1. A - P = 0 /\ 1..0 = {}
      BY <1>1, <2>3
    <3>2. Unwritten \in Seq(Nat) /\ Len(Unwritten) = 0
      <4>. HIDE DEF A, P
      <4>. QED
        BY <1>1, <3>1, BetweenIsSeq
    <3>. QED
      BY <3>2, EmptySeq
  <2>. QED
    BY <2>1, <2>2, <2>4 DEF Fifo!Reopen, Fifo!Next, Fifo!vars
<1>. QED
  BY <1>3, <1>4, <1>5, <1>6, <1>7 DEF Next, Worker

(* The ring with its growth, its marker and its worker is a queue: nothing  *)
(* accepted is lost, repeated or reordered, and a paused log accepts again  *)
(* only when all of it was written.                                         *)
THEOREM RingIsQueue ==
  ASSUME ~PauseOnFull
  PROVE  Spec => Fifo!Init /\ [][Fifo!Next]_(Fifo!vars)
<1>1. ASSUME Init PROVE Fifo!Init
  <2>1. IInv /\ Len(printed) = 0 /\ Len(accepted) = 0 /\ running = TRUE
    BY <1>1, InitInv DEF Init
  <2>2. Unwritten = Between(0, 0)
    BY <2>1, Content DEF Contents
  <2>3. Unwritten \in Seq(Nat) /\ Len(Unwritten) = 0
    BY <2>2, BetweenIsSeq
  <2>4. Unwritten = <<>>
    BY <2>3, EmptySeq
  <2>. QED
    BY <2>1, <2>4 DEF Fifo!Init
<1>2. Spec => []IInv
  BY Inductive
<1>3. IInv /\ IInv' /\ [Next]_vars => [Fifo!Next]_(Fifo!vars)
  BY StepOfQueue
<1>. QED
  BY <1>1, <1>2, <1>3, PTL DEF Spec
=============================================================================
