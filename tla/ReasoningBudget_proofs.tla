----------------------- MODULE ReasoningBudget_proofs -----------------------
(* Proofs about ReasoningBudget for every vocabulary, tag, budget and bound. *)
EXTENDS ReasoningBudget, TLAPS

(* The matcher position stays inside its tag.                              *)
LEMMA AdvanceRange ==
  ASSUME NEW tokens \in Seq(Token), tokens # <<>>, NEW pos \in 0..(Len(tokens) - 1), NEW t
  PROVE  Advance(tokens, pos, t).pos \in 0..(Len(tokens) - 1)
<1>1. Len(tokens) \in Nat \ {0}
  OBVIOUS
<1>2. CASE t = tokens[pos + 1] /\ pos + 1 >= Len(tokens)
  BY <1>1, <1>2 DEF Advance
<1>3. CASE t = tokens[pos + 1] /\ ~(pos + 1 >= Len(tokens))
  BY <1>1, <1>3 DEF Advance
<1>4. CASE t # tokens[pos + 1]
  <2>1. Advance(tokens, pos, t).pos = IF t = tokens[1] THEN 1 ELSE 0
    BY <1>4 DEF Advance
  <2>2. CASE Len(tokens) = 1
    <3>1. pos = 0
      BY <2>2
    <3> QED BY <1>4, <2>1, <3>1, <1>1
  <2>3. CASE Len(tokens) # 1
    <3> DEFINE n == Len(tokens)
    <3>1. n \in Nat \ {0, 1}
      BY <2>3, <1>1
    <3> HIDE DEF n
    <3>2. 0 \in 0..(n - 1) /\ 1 \in 0..(n - 1)
      BY <3>1
    <3> QED BY <2>1, <3>2 DEF n
  <2> QED BY <2>2, <2>3
<1> QED BY <1>2, <1>3, <1>4

(* What is inductive: typing, and that a counted block has budget left.    *)
Inv == TypeOK /\ (state = "COUNTING" => remaining > 0)

(* One accepted token keeps the invariant.                                 *)
LEMMA AcceptInv ==
  ASSUME Inv, NEW t \in Token, Accept(t)
  PROVE  /\ state' \in States /\ start_pos' \in 0..(Len(start_tokens) - 1)
         /\ end_pos' \in 0..(Len(end_tokens) - 1) /\ remaining' \in 0..budget
         /\ force_pos' \in Nat /\ text' \in Seq(Token) /\ block' \in Seq(Token)
         /\ (state' = "COUNTING" => remaining' > 0)
<1> USE BudgetAssumption DEF Inv, TypeOK, States
<1> DEFINE ms == Advance(start_tokens, start_pos, t)
           me == Advance(end_tokens, end_pos, t)
<1>1. ms.pos \in 0..(Len(start_tokens) - 1) /\ me.pos \in 0..(Len(end_tokens) - 1)
  BY AdvanceRange
<1>2. text' \in Seq(Token) /\ <<>> \in Seq(Token) /\ Append(block, t) \in Seq(Token)
  BY DEF Accept
<1>3. ASSUME Activate(t)
      PROVE  /\ start_pos' \in 0..(Len(start_tokens) - 1) /\ remaining' \in 0..budget
             /\ force_pos' \in Nat /\ block' \in Seq(Token)
             /\ state' \in {state, "FORCING", "COUNTING"}
             /\ (state' = "COUNTING" /\ state # "COUNTING" => remaining' > 0)
  <2>0. start_pos' = ms.pos
    BY <1>3 DEF Activate
  <2>1. CASE ms.hit
    <3>1. /\ state' = IF budget <= 0 THEN "FORCING" ELSE "COUNTING"
          /\ remaining' = budget
          /\ force_pos' = IF budget <= 0 THEN 0 ELSE force_pos
          /\ block' = <<>>
      BY <1>3, <2>1 DEF Activate
    <3> HIDE DEF ms
    <3> QED BY <1>1, <1>2, <2>0, <3>1
  <2>2. CASE ~ms.hit
    <3>1. UNCHANGED <<state, remaining, force_pos, block>>
      BY <1>3, <2>2 DEF Activate
    <3> HIDE DEF ms
    <3> QED BY <1>1, <1>2, <2>0, <3>1
  <2> QED BY <2>1, <2>2
<1>4. CASE AcceptIdle(t)
  BY <1>2, <1>3, <1>4 DEF AcceptIdle
<1>5. CASE AcceptDone(t)
  <2>1. end_pos' \in 0..(Len(end_tokens) - 1)
    BY <1>5 DEF AcceptDone
  <2> QED BY <1>2, <1>3, <1>5, <2>1 DEF AcceptDone
<1>6. CASE AcceptCounting(t)
  <2> DEFINE left == IF state = "COUNTING" THEN remaining - 1 ELSE remaining
  <2>1. left \in 0..budget
    OBVIOUS
  <2>2. CASE me.hit
    BY <1>1, <1>2, <1>6, <2>2 DEF AcceptCounting
  <2>3. CASE ~me.hit
    <3>1. remaining' = left
      BY <1>6, <2>3 DEF AcceptCounting
    <3>2. state' = IF ~(state = "WAITING_UTF8" \/ left <= 0) THEN state
                   ELSE IF utf8_is_complete(Piece[t]) THEN "FORCING" ELSE "WAITING_UTF8"
      BY <1>6, <2>3 DEF AcceptCounting
    <3>3. /\ force_pos' = IF state' = "FORCING" THEN 0 ELSE force_pos
          /\ end_pos' = IF state' = state THEN me.pos ELSE 0
          /\ block' = Append(block, t) /\ UNCHANGED start_pos
          /\ state \in {"COUNTING", "WAITING_UTF8"}
      BY <1>6, <2>3 DEF AcceptCounting
    <3> HIDE DEF left, me
    <3>4. /\ state' \in States
          /\ state' = "COUNTING" => left > 0
      BY <2>1, <3>2, <3>3
    <3>5. end_pos' \in 0..(Len(end_tokens) - 1)
      BY <1>1, <3>3, SMTT(30)
    <3> QED BY <1>2, <2>1, <3>1, <3>3, <3>4, <3>5
  <2> QED BY <2>2, <2>3
<1>7. CASE AcceptForcing(t)
  BY <1>2, <1>7 DEF AcceptForcing
<1> QED BY <1>4, <1>5, <1>6, <1>7 DEF Accept

(* The inductive invariant holds in every reachable state.                 *)
LEMMA InvCorrect == Spec => []Inv
<1>1. Init => Inv
  BY BudgetAssumption DEF Init, Inv, TypeOK, States
<1>2. Inv /\ [Next]_vars => Inv'
  <2> SUFFICES ASSUME Inv, [Next]_vars PROVE Inv'
    OBVIOUS
  <2>1. ASSUME NEW t \in Token, Prefill(t) PROVE Inv'
    BY <2>1, AcceptInv DEF Prefill, Inv, TypeOK
  <2>2. ASSUME NEW t \in Token, Generate(t) PROVE Inv'
    BY <2>2, AcceptInv DEF Generate, Inv, TypeOK
  <2>3. CASE StartGeneration
    BY <2>3 DEF StartGeneration, Inv, TypeOK, matchers
  <2>4. ASSUME NEW n \in 1..MaxRewind, Rewind(n) PROVE Inv'
    <3>1. text' \in Seq(Token)
      BY <2>4, BudgetAssumption DEF Rewind, Inv, TypeOK
    <3>2. rewinds' \in 0..MaxRewinds
      BY <2>4, BudgetAssumption DEF Rewind, Inv, TypeOK
    <3> QED BY <2>4, <3>1, <3>2 DEF Rewind, Inv, TypeOK, matchers
  <2>5. CASE UNCHANGED vars
    BY <2>5 DEF vars, Inv, TypeOK
  <2> QED BY <2>1, <2>2, <2>3, <2>4, <2>5 DEF Next
<1> QED BY <1>1, <1>2, PTL DEF Spec

(* Typing holds in every reachable state: in particular the unchecked      *)
(* index tokens[pos] of token_matcher::advance is always in range.         *)
THEOREM TypeCorrect == Spec => []TypeOK
<1>1. Inv => TypeOK
  BY DEF Inv
<1> QED BY <1>1, InvCorrect, PTL

-----------------------------------------------------------------------------
(* Accounting and the over-budget clause, which need each other: the token *)
(* that exhausts the budget is the budget-th of its block.                 *)
BlockInv == Inv /\ BudgetAccounting /\ OverBudgetOnlyForUtf8

(* An index of the longer sequence is the last one or one of the shorter.  *)
LEMMA EarlierIndex ==
  ASSUME NEW n \in Nat, NEW m, m = n + 1, NEW i \in 1..m, i # n + 1
  PROVE  i \in 1..n
OBVIOUS

(* One accepted token keeps both clauses.                                  *)
LEMMA AcceptBlock ==
  ASSUME BlockInv, NEW t \in Token, Accept(t)
  PROVE  BudgetAccounting' /\ OverBudgetOnlyForUtf8'
<1> USE BudgetAssumption DEF BlockInv, Inv, TypeOK, States
<1> DEFINE longer == Append(block, t)
<1>0. /\ Len(block) \in Nat /\ Len(longer) = Len(block) + 1
      /\ longer[Len(block) + 1] = t
      /\ \A i \in 1..Len(block) : longer[i] = block[i]
  OBVIOUS
<1> HIDE DEF longer
<1>1. ASSUME Activate(t), state \in {"IDLE", "DONE"}
      PROVE  BudgetAccounting' /\ OverBudgetOnlyForUtf8'
  <2>1. \/ state' \in {"IDLE", "DONE", "FORCING"}
        \/ state' = "COUNTING" /\ budget > 0 /\ remaining' = budget /\ block' = <<>>
    <3> DEFINE m == Advance(start_tokens, start_pos, t)
    <3>1. IF m.hit
            THEN /\ state' = IF budget <= 0 THEN "FORCING" ELSE "COUNTING"
                 /\ remaining' = budget /\ block' = <<>>
            ELSE state' = state
      BY <1>1 DEF Activate
    <3> HIDE DEF m
    <3> QED BY <1>1, <3>1
  <2>2. CASE state' \in {"IDLE", "DONE", "FORCING"}
    BY <2>2 DEF BudgetAccounting, OverBudgetOnlyForUtf8
  <2>3. CASE state' = "COUNTING" /\ budget > 0 /\ remaining' = budget
             /\ block' = <<>>
    BY <2>3 DEF BudgetAccounting, OverBudgetOnlyForUtf8
  <2> QED BY <2>1, <2>2, <2>3
<1>2. CASE AcceptIdle(t)
  BY <1>1, <1>2 DEF AcceptIdle
<1>3. CASE AcceptDone(t)
  BY <1>1, <1>3 DEF AcceptDone
<1>4. CASE AcceptCounting(t)
  <2> DEFINE left == IF state = "COUNTING" THEN remaining - 1 ELSE remaining
  <2>1. /\ state \in {"COUNTING", "WAITING_UTF8"} /\ block' = longer
        /\ \/ state' = "DONE"
           \/ /\ remaining' = left
              /\ state' = IF ~(state = "WAITING_UTF8" \/ left <= 0) THEN state
                          ELSE IF utf8_is_complete(Piece[t]) THEN "FORCING"
                          ELSE "WAITING_UTF8"
    BY <1>4 DEF AcceptCounting, longer
  <2>2. CASE state' \in {"DONE", "FORCING"}
    BY <2>2 DEF BudgetAccounting, OverBudgetOnlyForUtf8
  <2>3. CASE state' = "COUNTING"
    <3>1. state = "COUNTING" /\ remaining' = remaining - 1 /\ remaining' > 0
      BY <2>1, <2>3
    <3>2. remaining' + Len(block') = budget
      BY <3>1, <2>1, <1>0 DEF BudgetAccounting
    <3>3. Len(block') < budget
      BY <3>1, <3>2, <2>1, <1>0
    <3> QED BY <1>0, <2>1, <3>1, <3>2, <3>3 DEF BudgetAccounting, OverBudgetOnlyForUtf8
  <2>4. CASE state' = "WAITING_UTF8"
    <3>1. /\ state = "COUNTING" => remaining = 1
          /\ ~utf8_is_complete(Piece[t])
      BY <2>1, <2>4
    <3>2. \A i \in 1..Len(block) : i >= budget => ~utf8_is_complete(Piece[block[i]])
      <4>1. CASE state = "WAITING_UTF8"
        BY <4>1 DEF OverBudgetOnlyForUtf8
      <4>2. CASE state = "COUNTING"
        BY <4>2, <1>0, <3>1 DEF BudgetAccounting
      <4> QED BY <2>1, <4>1, <4>2
    <3>3. ASSUME NEW i \in 1..Len(block'), i >= budget
          PROVE  ~utf8_is_complete(Piece[block'[i]])
      <4>0. Len(block') = Len(block) + 1
        BY <1>0, <2>1
      <4>1. CASE i = Len(block) + 1
        BY <4>1, <1>0, <2>1, <3>1
      <4>2. CASE i # Len(block) + 1
        <5>1. i \in 1..Len(block)
          BY ONLY <4>0, <4>2, <1>0, i \in 1..Len(block'), EarlierIndex
        <5> QED BY <5>1, <1>0, <2>1, <3>2, <3>3
      <4> QED BY <4>1, <4>2
    <3> QED BY <2>4, <3>3 DEF BudgetAccounting, OverBudgetOnlyForUtf8
  <2> QED BY <2>1, <2>2, <2>3, <2>4
<1>5. CASE AcceptForcing(t)
  BY <1>5 DEF AcceptForcing, BudgetAccounting, OverBudgetOnlyForUtf8
<1> QED BY <1>2, <1>3, <1>4, <1>5 DEF Accept

(* For every budget and tag, and whatever the server takes back: a counted *)
(* block's tokens and its remaining budget always add up, and the only     *)
(* tokens past the budget are ones that leave a character unfinished.      *)
THEOREM BudgetRespected == Spec => [](BudgetAccounting /\ OverBudgetOnlyForUtf8)
<1>1. Init => BudgetAccounting /\ OverBudgetOnlyForUtf8
  BY DEF Init, BudgetAccounting, OverBudgetOnlyForUtf8
<1>2. Inv /\ BudgetAccounting /\ OverBudgetOnlyForUtf8 /\ [Next]_vars
      => BudgetAccounting' /\ OverBudgetOnlyForUtf8'
  <2> SUFFICES ASSUME BlockInv, [Next]_vars
               PROVE  BudgetAccounting' /\ OverBudgetOnlyForUtf8'
    BY DEF BlockInv
  <2>1. ASSUME NEW t \in Token, Prefill(t) PROVE BudgetAccounting' /\ OverBudgetOnlyForUtf8'
    BY <2>1, AcceptBlock DEF Prefill
  <2>2. ASSUME NEW t \in Token, Generate(t) PROVE BudgetAccounting' /\ OverBudgetOnlyForUtf8'
    BY <2>2, AcceptBlock DEF Generate
  <2>3. CASE StartGeneration
    BY <2>3 DEF StartGeneration, BlockInv, BudgetAccounting, OverBudgetOnlyForUtf8
  <2>4. ASSUME NEW n \in 1..MaxRewind, Rewind(n)
        PROVE  BudgetAccounting' /\ OverBudgetOnlyForUtf8'
    BY <2>4 DEF Rewind, BlockInv, BudgetAccounting, OverBudgetOnlyForUtf8
  <2>5. CASE UNCHANGED vars
    BY <2>5 DEF vars, BlockInv, BudgetAccounting, OverBudgetOnlyForUtf8
  <2> QED BY <2>1, <2>2, <2>3, <2>4, <2>5 DEF Next
<1>3. Spec => []Inv
  BY InvCorrect
<1> QED BY <1>1, <1>2, <1>3, PTL DEF Spec

(* A block that is open past its budget is waiting for the end of a        *)
(* character: the second half of BudgetRespected by its own name.          *)
THEOREM OverBudgetBounded == Spec => []OverBudgetOnlyForUtf8
BY BudgetRespected, PTL

-----------------------------------------------------------------------------
(* What the end of the reply has to do with the matcher positions.         *)

(* s ends with the first n tokens of p. *)
Ends(s, p, n) == n <= Len(s) /\ \A k \in 1..n : s[Len(s) - n + k] = p[k]

LEMMA EndsNone == ASSUME NEW s \in Seq(Token), NEW p PROVE Ends(s, p, 0)
BY DEF Ends

LEMMA EndsAppend ==
  ASSUME NEW s \in Seq(Token), NEW p \in Seq(Token), NEW n \in Nat, Ends(s, p, n),
         NEW t \in Token, t = p[n + 1]
  PROVE  Ends(Append(s, t), p, n + 1)
<1> DEFINE r == Append(s, t)
<1>1. /\ Len(s) \in Nat /\ Len(r) = Len(s) + 1 /\ r[Len(s) + 1] = t
      /\ \A i \in 1..Len(s) : r[i] = s[i]
  OBVIOUS
<1> HIDE DEF r
<1>2. ASSUME NEW k \in 1..(n + 1) PROVE r[Len(r) - (n + 1) + k] = p[k]
  <2>1. CASE k = n + 1
    BY <1>1, <2>1
  <2>2. CASE k # n + 1
    <3>1. k \in 1..n /\ Len(r) - (n + 1) + k = Len(s) - n + k
      BY <1>1, <2>2
    <3>2. Len(s) - n + k \in 1..Len(s)
      BY <1>1, <3>1 DEF Ends
    <3> QED BY <1>1, <3>1, <3>2 DEF Ends
  <2> QED BY <2>1, <2>2
<1>3. n + 1 <= Len(r)
  BY <1>1 DEF Ends
<1>4. Ends(r, p, n + 1)
  BY <1>2, <1>3 DEF Ends
<1> QED BY <1>4 DEF r

LEMMA EndsIsSuffix ==
  ASSUME NEW s \in Seq(Token), NEW p \in Seq(Token), Ends(s, p, Len(p))
  PROVE  IsSuffix(p, s)
<1> DEFINE P == Reverse(p)
           S == Reverse(s)
           n == Len(p)
           m == Len(s)
<1>1. n \in Nat /\ m \in Nat /\ n <= m
  BY DEF Ends
<1>2. /\ P \in Seq(Token) /\ Len(P) = n /\ \A i \in 1..n : P[i] = p[(n - i) + 1]
  BY <1>1 DEF Reverse
<1>3. /\ S \in Seq(Token) /\ Len(S) = m /\ \A i \in 1..m : S[i] = s[(m - i) + 1]
  BY <1>1 DEF Reverse
<1> HIDE DEF P, S
<1>4. ASSUME NEW i \in 1..n PROVE P[i] = S[i]
  <2>1. (n - i) + 1 \in 1..n /\ i \in 1..m /\ m - n + ((n - i) + 1) = (m - i) + 1
    BY <1>1
  <2>2. s[m - n + ((n - i) + 1)] = p[(n - i) + 1]
    BY <2>1 DEF Ends
  <2> QED BY <1>2, <1>3, <2>1, <2>2
<1> HIDE DEF n, m
<1>5. SubSeq(P, 1, n) = SubSeq(S, 1, n)
  BY <1>1, <1>2, <1>3, <1>4
<1> QED BY <1>1, <1>2, <1>3, <1>5 DEF IsSuffix, IsPrefix, P, S

(* As long as nothing was taken back, the reply ends with the part of the  *)
(* start tag that its matcher has seen, and the matcher rests at 0 inside  *)
(* a block.                                                                *)
TagInv ==
  /\ prefilling => rewinds = 0
  /\ rewinds = 0 =>
       /\ Ends(text, start_tokens, start_pos)
       /\ state \notin {"IDLE", "DONE"} => start_pos = 0

(* The matcher advances with the reply, and hits when the reply ends with  *)
(* the whole tag.                                                          *)
LEMMA AdvanceEnds ==
  ASSUME NEW p \in Seq(Token), p # <<>>, NEW pos \in 0..(Len(p) - 1), NEW t \in Token,
         NEW s \in Seq(Token), Ends(s, p, pos)
  PROVE  /\ Ends(Append(s, t), p, Advance(p, pos, t).pos)
         /\ Advance(p, pos, t).hit => Advance(p, pos, t).pos = 0 /\ Ends(Append(s, t), p, Len(p))
<1> DEFINE r == Append(s, t)
<1>0. Len(p) \in Nat \ {0} /\ r \in Seq(Token) /\ pos \in Nat
  OBVIOUS
<1>1. Ends(r, p, 0) /\ Ends(s, p, 0)
  BY <1>0, EndsNone
<1>2. CASE t = p[pos + 1]
  <2>1. Ends(r, p, pos + 1)
    BY <1>0, <1>2, EndsAppend
  <2>2. CASE pos + 1 >= Len(p)
    <3>1. pos + 1 = Len(p)
      BY <1>0, <2>2
    <3>2. Advance(p, pos, t) = [pos |-> 0, hit |-> TRUE]
      BY <1>2, <2>2 DEF Advance
    <3> QED BY <1>1, <2>1, <3>1, <3>2
  <2>3. CASE ~(pos + 1 >= Len(p))
    <3>1. Advance(p, pos, t) = [pos |-> pos + 1, hit |-> FALSE]
      BY <1>2, <2>3 DEF Advance
    <3> QED BY <2>1, <3>1
  <2> QED BY <2>2, <2>3
<1>3. CASE t # p[pos + 1]
  <2>1. Advance(p, pos, t) = [pos |-> IF t = p[1] THEN 1 ELSE 0, hit |-> FALSE]
    BY <1>3 DEF Advance
  <2>2. CASE t = p[1]
    <3>1. Ends(r, p, 0 + 1)
      BY <1>1, <2>2, EndsAppend
    <3> QED BY <2>1, <2>2, <3>1
  <2>3. CASE t # p[1]
    BY <1>1, <2>1, <2>3
  <2> QED BY <2>2, <2>3
<1> QED BY <1>2, <1>3

(* An accepted token keeps TagInv, and opens a block only at the end of    *)
(* the tag.                                                                *)
LEMMA AcceptTag ==
  ASSUME Inv, TagInv, rewinds = 0, NEW t \in Token, Accept(t)
  PROVE  /\ Ends(text', start_tokens, start_pos')
         /\ state' \notin {"IDLE", "DONE"} => start_pos' = 0
         /\ state \in {"IDLE", "DONE"} /\ state' \in {"COUNTING", "FORCING"}
              => Ends(text', start_tokens, Len(start_tokens))
<1> DEFINE m == Advance(start_tokens, start_pos, t)
<1>0. /\ text \in Seq(Token) /\ text' = Append(text, t) /\ text' \in Seq(Token)
      /\ start_tokens \in Seq(Token) /\ start_tokens # <<>>
      /\ start_pos \in 0..(Len(start_tokens) - 1) /\ state \in States
  BY BudgetAssumption DEF Inv, TypeOK, Accept
<1>1. CASE state \in {"IDLE", "DONE"}
  <2>1. Activate(t)
    BY <1>1 DEF Accept, AcceptIdle, AcceptDone, AcceptCounting, AcceptForcing
  <2>2. /\ Ends(text', start_tokens, m.pos)
        /\ m.hit => m.pos = 0 /\ Ends(text', start_tokens, Len(start_tokens))
    BY <1>0, AdvanceEnds DEF TagInv
  <2>3. start_pos' = m.pos /\ (~m.hit => state' = state)
    BY <2>1 DEF Activate
  <2> HIDE DEF m
  <2> QED BY <1>1, <2>2, <2>3
<1>2. CASE state \notin {"IDLE", "DONE"}
  <2>1. start_pos' = start_pos /\ start_pos = 0
    BY <1>2 DEF Accept, AcceptIdle, AcceptDone, AcceptCounting, AcceptForcing, TagInv
  <2> QED BY <1>0, <1>2, <2>1, EndsNone
<1> QED BY <1>1, <1>2

LEMMA TagCorrect == Spec => [](Inv /\ TagInv)
<1>1. Init => TagInv
  BY DEF Init, TagInv, Ends
<1>2. Inv /\ TagInv /\ [Next]_vars => TagInv'
  <2> SUFFICES ASSUME Inv, TagInv, [Next]_vars PROVE TagInv'
    OBVIOUS
  <2>1. ASSUME NEW t \in Token, Prefill(t) \/ Generate(t) PROVE TagInv'
    <3>1. Accept(t) /\ rewinds' = rewinds /\ prefilling' = prefilling
      BY <2>1 DEF Prefill, Generate
    <3>2. CASE rewinds = 0
      BY <3>1, <3>2, AcceptTag DEF TagInv
    <3>3. CASE rewinds # 0
      BY <3>1, <3>3 DEF TagInv
    <3> QED BY <3>2, <3>3
  <2>2. CASE StartGeneration
    BY <2>2 DEF StartGeneration, matchers, TagInv
  <2>3. ASSUME NEW n \in 1..MaxRewind, Rewind(n) PROVE TagInv'
    <3>1. rewinds' # 0 /\ ~prefilling'
      BY <2>3 DEF Rewind, Inv, TypeOK
    <3> QED BY <3>1 DEF TagInv
  <2>4. CASE UNCHANGED vars
    BY <2>4 DEF vars, TagInv
  <2> QED BY <2>1, <2>2, <2>3, <2>4 DEF Next
<1> QED BY <1>1, <1>2, InvCorrect, PTL DEF Spec

(* A block is opened, whether by the first tag or by a later one, only     *)
(* when the reply ends with the whole start tag: a partial match followed  *)
(* by a block never leaves a matcher position that a later token completes.*)
THEOREM OpenedOnlyByTag == Spec => OpenedByStartTag
<1> DEFINE A == (rewinds = 0 /\ state \in {"IDLE", "DONE"} /\ state' \in {"COUNTING", "FORCING"})
                  => IsSuffix(start_tokens, text')
<1>1. Inv /\ TagInv /\ [Next]_vars => [A]_vars
  <2> SUFFICES ASSUME Inv, TagInv, Next, rewinds = 0, state \in {"IDLE", "DONE"},
                      state' \in {"COUNTING", "FORCING"}
               PROVE  IsSuffix(start_tokens, text')
    OBVIOUS
  <2>1. PICK t \in Token : Accept(t)
    BY DEF Next, Prefill, Generate, StartGeneration, Rewind
  <2>2. Ends(text', start_tokens, Len(start_tokens))
    BY <2>1, AcceptTag
  <2>3. text' \in Seq(Token) /\ start_tokens \in Seq(Token)
    BY <2>1, AcceptInv, BudgetAssumption
  <2> QED BY <2>2, <2>3, EndsIsSuffix
<1>2. Spec => [][A]_vars
  <2> HIDE DEF A
  <2> QED BY <1>1, TagCorrect, PTL DEF Spec
<1> QED BY <1>2 DEF OpenedByStartTag

-----------------------------------------------------------------------------
(* The forced sequence.  Nothing masks the tokens of the generation prompt *)
(* (common_sampler_init feeds them through accept), so a prompt that runs  *)
(* on after its own block has exhausted the budget is counted against the  *)
(* forced tokens.  The theorem is about prompts that do not.               *)

PromptFits == MaxPrefill <= Len(start_tokens) + budget

(* While the prompt is read, what is left of the budget is at least what   *)
(* the prompt still leaves room for; once forcing, the reply ends with the *)
(* forced tokens so far.                                                   *)
ForceInv ==
  /\ prefilling /\ state = "COUNTING" =>
       Len(text) + remaining >= Len(start_tokens) + budget
  /\ prefilling /\ state \in {"WAITING_UTF8", "FORCING"} =>
       Len(text) >= Len(start_tokens) + budget
  /\ rewinds = 0 /\ state = "FORCING" =>
       /\ Ends(text, forced_tokens, force_pos)
       /\ force_pos < Len(forced_tokens) \/ force_pos = 0

(* An accepted token outside of forcing. *)
LEMMA AcceptBeforeForcing ==
  ASSUME Inv, TagInv, ForceInv, rewinds = 0, NEW t \in Token, Accept(t), state # "FORCING",
         UNCHANGED <<prefilling, rewinds>>
  PROVE  ForceInv'
<1>0. /\ text \in Seq(Token) /\ text' = Append(text, t) /\ text' \in Seq(Token)
      /\ Len(text) \in Nat /\ Len(text') = Len(text) + 1
      /\ budget \in Nat /\ remaining \in 0..budget /\ state \in States
      /\ Len(start_tokens) \in Nat
  BY BudgetAssumption DEF Inv, TypeOK, Accept
<1>1. CASE state \in {"IDLE", "DONE"}
  <2>1. Activate(t)
    BY <1>1 DEF Accept, AcceptIdle, AcceptDone, AcceptCounting, AcceptForcing
  <2>2. \/ state' = state
        \/ state' = "COUNTING" /\ remaining' = budget
        \/ state' = "FORCING" /\ remaining' = budget /\ budget = 0 /\ force_pos' = 0
    BY <1>0, <2>1 DEF Activate
  <2>3. CASE state' = state
    BY <1>1, <2>3 DEF ForceInv
  <2>4. CASE state' # state
    <3>1. state' \in {"COUNTING", "FORCING"}
      BY <2>2, <2>4
    <3>2. Ends(text', start_tokens, Len(start_tokens))
      BY <1>1, <3>1, AcceptTag
    <3>3. Len(text') >= Len(start_tokens)
      BY <3>2 DEF Ends
    <3>4. Ends(text', forced_tokens, 0)
      BY <1>0, EndsNone
    <3> QED BY <1>0, <2>2, <2>4, <3>3, <3>4 DEF ForceInv
  <2> QED BY <2>3, <2>4
<1>2. CASE state \in {"COUNTING", "WAITING_UTF8"}
  <2> DEFINE left == IF state = "COUNTING" THEN remaining - 1 ELSE remaining
  <2>1. AcceptCounting(t)
    BY <1>2 DEF Accept, AcceptIdle, AcceptDone, AcceptForcing
  <2>2. \/ state' = "DONE"
        \/ /\ remaining' = left
           /\ state' = IF ~(state = "WAITING_UTF8" \/ left <= 0) THEN state
                       ELSE IF utf8_is_complete(Piece[t]) THEN "FORCING"
                       ELSE "WAITING_UTF8"
           /\ force_pos' = IF state' = "FORCING" THEN 0 ELSE force_pos
    BY <2>1 DEF AcceptCounting
  <2>3. CASE state' = "DONE"
    BY <2>3 DEF ForceInv
  <2>4. CASE state' = "COUNTING"
    <3>1. state = "COUNTING" /\ remaining' = remaining - 1
      BY <1>2, <2>2, <2>4
    <3> QED BY <1>0, <2>4, <3>1 DEF ForceInv
  <2>5. CASE state' \in {"WAITING_UTF8", "FORCING"}
    <3>1. state = "COUNTING" => remaining <= 1
      BY <1>0, <2>2, <2>5
    <3>2. prefilling => Len(text') >= Len(start_tokens) + budget
      <4>1. CASE state = "COUNTING"
        BY <1>0, <3>1, <4>1 DEF ForceInv
      <4>2. CASE state = "WAITING_UTF8"
        BY <1>0, <4>2 DEF ForceInv
      <4> QED BY <1>2, <4>1, <4>2
    <3>3. state' = "FORCING" => force_pos' = 0
      BY <2>2
    <3>4. Ends(text', forced_tokens, 0)
      BY <1>0, EndsNone
    <3> QED BY <2>5, <3>2, <3>3, <3>4 DEF ForceInv
  <2> QED BY <1>2, <2>2, <2>3, <2>4, <2>5
<1> QED BY <1>0, <1>1, <1>2 DEF States

(* A drawn token while forcing. *)
LEMMA GenerateForcing ==
  ASSUME Inv, ForceInv, rewinds = 0, NEW t \in Token, Generate(t), state = "FORCING"
  PROVE  /\ ForceInv'
         /\ state' = "DONE" => Ends(text', forced_tokens, Len(forced_tokens))
<1>0. /\ text \in Seq(Token) /\ text' = Append(text, t) /\ text' \in Seq(Token)
      /\ force_pos \in Nat /\ forced_tokens \in Seq(Token) /\ Len(forced_tokens) \in Nat
      /\ ~prefilling'
  BY BudgetAssumption DEF Inv, TypeOK, Accept, Generate
<1>1. /\ force_pos' = force_pos + 1
      /\ state' = IF force_pos' >= Len(forced_tokens) THEN "DONE" ELSE state
  BY DEF Generate, Accept, AcceptIdle, AcceptDone, AcceptCounting, AcceptForcing
<1>2. CASE force_pos < Len(forced_tokens)
  <2>1. t = forced_tokens[force_pos + 1]
    BY <1>2 DEF Generate, Allowed
  <2>2. Ends(text', forced_tokens, force_pos + 1)
    BY <1>0, <2>1, EndsAppend DEF ForceInv
  <2> QED BY <1>0, <1>1, <1>2, <2>2 DEF ForceInv
<1>3. CASE ~(force_pos < Len(forced_tokens))
  <2>1. force_pos = 0 /\ Len(forced_tokens) = 0
    BY <1>0, <1>3 DEF ForceInv
  <2>2. state' = "DONE"
    BY <1>1, <2>1
  <2>3. Ends(text', forced_tokens, 0)
    BY <1>0, EndsNone
  <2> QED BY <1>0, <2>1, <2>2, <2>3 DEF ForceInv
<1> QED BY <1>2, <1>3

LEMMA ForceCorrect ==
  ASSUME PromptFits
  PROVE  Spec => [](Inv /\ TagInv /\ ForceInv)
<1>1. Init => ForceInv
  BY DEF Init, ForceInv
<1>2. Inv /\ TagInv /\ ForceInv /\ [Next]_vars => ForceInv'
  <2> SUFFICES ASSUME Inv, TagInv, ForceInv, [Next]_vars PROVE ForceInv'
    OBVIOUS
  <2>1. ASSUME NEW t \in Token, Prefill(t) PROVE ForceInv'
    <3>1. /\ Accept(t) /\ UNCHANGED <<prefilling, rewinds>> /\ rewinds = 0
          /\ prefilling /\ Len(text) < MaxPrefill
      BY <2>1 DEF Prefill, TagInv
    <3>2. state # "FORCING"
      <4>1. Len(text) \in Nat /\ MaxPrefill \in Nat /\ Len(start_tokens) + budget \in Nat
        BY BudgetAssumption DEF Inv, TypeOK
      <4> QED BY <3>1, <4>1 DEF PromptFits, ForceInv
    <3> QED BY <3>1, <3>2, AcceptBeforeForcing
  <2>2. ASSUME NEW t \in Token, Generate(t) PROVE ForceInv'
    <3>1. Accept(t) /\ UNCHANGED <<prefilling, rewinds>> /\ ~prefilling
      BY <2>2 DEF Generate
    <3>2. CASE rewinds # 0
      BY <3>1, <3>2 DEF ForceInv
    <3>3. CASE rewinds = 0 /\ state = "FORCING"
      BY <2>2, <3>3, GenerateForcing
    <3>4. CASE rewinds = 0 /\ state # "FORCING"
      BY <3>1, <3>4, AcceptBeforeForcing
    <3> QED BY <3>2, <3>3, <3>4
  <2>3. CASE StartGeneration
    BY <2>3 DEF StartGeneration, matchers, ForceInv
  <2>4. ASSUME NEW n \in 1..MaxRewind, Rewind(n) PROVE ForceInv'
    <3>1. rewinds' # 0 /\ ~prefilling'
      BY <2>4 DEF Rewind, Inv, TypeOK
    <3> QED BY <3>1 DEF ForceInv
  <2>5. CASE UNCHANGED vars
    BY <2>5 DEF vars, ForceInv
  <2> QED BY <2>1, <2>2, <2>3, <2>4, <2>5 DEF Next
<1> QED BY <1>1, <1>2, TagCorrect, PTL DEF Spec

(* When forcing ends, the whole forced sequence is the end of the reply,   *)
(* for every budget, tag and message, and every generation prompt that     *)
(* does not itself run past the budget: the mask of                        *)
(* common_reasoning_budget_apply and the count of accept stay in step.     *)
THEOREM ForcedWhole ==
  ASSUME PromptFits
  PROVE  Spec => ForcedSequenceEmitted
<1> DEFINE A == rewinds = 0 /\ state = "FORCING" /\ state' = "DONE"
                  => IsSuffix(forced_tokens, text')
<1>1. Inv /\ TagInv /\ ForceInv /\ [Next]_vars => [A]_vars
  <2> SUFFICES ASSUME Inv, TagInv, ForceInv, Next, rewinds = 0, state = "FORCING", state' = "DONE"
               PROVE  IsSuffix(forced_tokens, text')
    OBVIOUS
  <2>1. ASSUME NEW t \in Token, Prefill(t) PROVE FALSE
    <3>1. prefilling /\ Len(text) < MaxPrefill
      BY <2>1 DEF Prefill
    <3>2. Len(text) \in Nat /\ MaxPrefill \in Nat /\ Len(start_tokens) + budget \in Nat
      BY BudgetAssumption DEF Inv, TypeOK
    <3> QED BY <3>1, <3>2 DEF PromptFits, ForceInv
  <2>2. PICK t \in Token : Generate(t)
    BY <2>1 DEF Next, StartGeneration, Rewind
  <2>3. Ends(text', forced_tokens, Len(forced_tokens))
    BY <2>2, GenerateForcing
  <2>4. text' \in Seq(Token) /\ forced_tokens \in Seq(Token)
    BY <2>2, AcceptInv, BudgetAssumption DEF Generate
  <2> QED BY <2>3, <2>4, EndsIsSuffix
<1>2. Spec => [][A]_vars
  <2> HIDE DEF A
  <2> QED BY <1>1, ForceCorrect, PTL DEF Spec
<1> QED BY <1>2 DEF ForcedSequenceEmitted
=============================================================================
