-------------------------- MODULE ReasoningBudget --------------------------
(***************************************************************************)
(* The reasoning-budget sampler of common/reasoning-budget.cpp: it watches *)
(* the generated tokens for a start tag, counts the tokens of the          *)
(* reasoning block down from budget, and when none remain makes the        *)
(* sampler emit forced_tokens (a message and the end tag).                 *)
(*                                                                         *)
(* One step is one round of the sampler: common_reasoning_budget_apply     *)
(* masks the logits, a token is drawn, common_sampler_accept feeds it      *)
(* back.  Before generation starts, common_sampler_init feeds the tokens   *)
(* of the generation prompt through the same accept function.  The server  *)
(* may take back the last tokens (rewind_context, string bans) without     *)
(* telling this sampler.                                                   *)
(***************************************************************************)
EXTENDS Integers, SequencesExt

CONSTANTS
  Token,           \* the vocabulary
  Piece,           \* Piece[t]: the bytes of token t (none: a control token)
  start_tokens, end_tokens, forced_tokens,
  budget,
  MaxTokens,       \* bound on the length of the text and of one block
  MaxPrefill,      \* bound on the tokens of the generation prompt
  MaxRewind,       \* most tokens one rewind takes back
  MaxRewinds       \* bound: rewinds in a reply

VARIABLES
  state,           \* common_reasoning_budget_state
  start_pos,       \* start_matcher.pos
  end_pos,         \* end_matcher.pos
  remaining,
  force_pos,
  prefilling,      \* still inside common_sampler_init
  text,            \* the tokens of the reply so far, prefill included
  block,           \* history: the tokens counted since the last activation
  rewinds          \* how often tokens have been taken back

matchers == <<start_pos, end_pos>>
vars == <<state, start_pos, end_pos, remaining, force_pos, prefilling, text, block,
          rewinds>>

States == {"IDLE", "COUNTING", "FORCING", "WAITING_UTF8", "DONE"}

(* A byte is 0 (a UTF-8 continuation byte) or the length 1..4 of the       *)
(* sequence it starts.                                                     *)
Byte == 0..4

ASSUME BudgetAssumption ==
  /\ budget \in Nat
  /\ start_tokens \in Seq(Token) /\ start_tokens # <<>>
  /\ end_tokens \in Seq(Token) /\ end_tokens # <<>>
  /\ forced_tokens \in Seq(Token)
  /\ Piece \in [Token -> Seq(Byte)]
  /\ MaxTokens \in Nat /\ MaxPrefill \in Nat /\ MaxRewind \in Nat /\ MaxRewinds \in Nat

-----------------------------------------------------------------------------
(* Mutant of Advance: the position is not rewound after a full match.      *)
AdvanceNoWrap(tokens, pos, t) ==
  IF t = tokens[pos + 1] THEN [pos |-> pos + 1, hit |-> pos + 1 >= Len(tokens)]
                         ELSE [pos |-> 0, hit |-> FALSE]

(* Mutant of Advance: a mismatch keeps the progress made so far.           *)
AdvanceNoReset(tokens, pos, t) ==
  IF t = tokens[pos + 1]
    THEN IF pos + 1 >= Len(tokens) THEN [pos |-> 0, hit |-> TRUE]
                                   ELSE [pos |-> pos + 1, hit |-> FALSE]
    ELSE [pos |-> pos, hit |-> FALSE]

(* token_matcher::advance: the next position, and whether the whole        *)
(* sequence has just been seen.                                            *)
Advance(tokens, pos, t) ==
  IF t = tokens[pos + 1]
    THEN IF pos + 1 >= Len(tokens) THEN [pos |-> 0, hit |-> TRUE]
                                   ELSE [pos |-> pos + 1, hit |-> FALSE]
    ELSE [pos |-> IF t = tokens[1] THEN 1 ELSE 0, hit |-> FALSE]

(* common_utf8_is_complete: the last starting byte within the final four   *)
(* has all its continuation bytes.                                         *)
utf8_is_complete(s) ==
  LET Starts == {i \in 1..4 : i <= Len(s) /\ s[Len(s) - i + 1] # 0}
  IN  \/ s = <<>>
      \/ \E i \in Starts : /\ \A j \in Starts : i <= j
                           /\ i >= s[Len(s) - i + 1]

(* Mutant of Activate: a new block inherits the old block's remainder.     *)
ActivateNoRefill(t) ==
  LET m == Advance(start_tokens, start_pos, t)
  IN  /\ start_pos' = m.pos
      /\ state' = IF m.hit THEN IF remaining <= 0 THEN "FORCING" ELSE "COUNTING"
                           ELSE state
      /\ force_pos' = IF m.hit THEN 0 ELSE force_pos
      /\ block' = IF m.hit THEN <<>> ELSE block
      /\ UNCHANGED remaining

(* The start tag has been seen: open a block, or force its end at once.    *)
Activate(t) ==
  LET m == Advance(start_tokens, start_pos, t)
  IN  /\ start_pos' = m.pos
      /\ IF m.hit
           THEN /\ state' = IF budget <= 0 THEN "FORCING" ELSE "COUNTING"
                /\ remaining' = budget
                /\ force_pos' = IF budget <= 0 THEN 0 ELSE force_pos
                /\ block' = <<>>
           ELSE UNCHANGED <<state, remaining, force_pos, block>>

AcceptIdle(t) ==
  /\ state = "IDLE"
  /\ Activate(t)
  /\ UNCHANGED end_pos

(* Also resets the end matcher when it re-arms.                            *)
AcceptDone(t) ==
  /\ state = "DONE"
  /\ Activate(t)
  /\ end_pos' = IF state' = "DONE" THEN end_pos ELSE 0

(* Mutant of AcceptCounting: one token too many before the budget ends.    *)
AcceptCountingLate(t) ==
  LET m == Advance(end_tokens, end_pos, t)
  IN  /\ state \in {"COUNTING", "WAITING_UTF8"}
      /\ remaining' = IF remaining = 0 THEN 0 ELSE remaining - 1
      /\ state' = IF m.hit THEN "DONE" ELSE IF remaining > 0 THEN state ELSE "FORCING"
      /\ force_pos' = 0 /\ end_pos' = m.pos
      /\ block' = Append(block, t)
      /\ UNCHANGED start_pos

(* Mutant of AcceptCounting: no wait for the end of a character.           *)
AcceptCountingNoUtf8(t) ==
  LET m == Advance(end_tokens, end_pos, t)
  IN  /\ state \in {"COUNTING", "WAITING_UTF8"}
      /\ remaining' = remaining - 1
      /\ state' = IF m.hit THEN "DONE" ELSE IF remaining' > 0 THEN state ELSE "FORCING"
      /\ force_pos' = 0 /\ end_pos' = m.pos
      /\ block' = Append(block, t)
      /\ UNCHANGED start_pos

(* Inside a block: the natural end wins over the budget; the budget        *)
(* expires only on a token whose own bytes end a character.                *)
AcceptCounting(t) ==
  LET m    == Advance(end_tokens, end_pos, t)
      left == IF state = "COUNTING" THEN remaining - 1 ELSE remaining
      over == state = "WAITING_UTF8" \/ left <= 0
  IN  /\ state \in {"COUNTING", "WAITING_UTF8"}
      /\ \/ /\ m.hit
            /\ state' = "DONE" /\ end_pos' = m.pos
            /\ UNCHANGED <<remaining, force_pos>>
         \/ /\ ~m.hit
            /\ remaining' = left
            /\ state' = IF ~over THEN state
                        ELSE IF utf8_is_complete(Piece[t]) THEN "FORCING"
                        ELSE "WAITING_UTF8"
            /\ force_pos' = IF state' = "FORCING" THEN 0 ELSE force_pos
            /\ end_pos' = IF state' = state THEN m.pos ELSE 0
      /\ block' = Append(block, t)
      /\ UNCHANGED start_pos

(* Mutant of AcceptForcing: forcing ends one token early.                  *)
AcceptForcingShort(t) ==
  /\ state = "FORCING"
  /\ force_pos' = force_pos + 1
  /\ state' = IF force_pos' + 1 >= Len(forced_tokens) THEN "DONE" ELSE state
  /\ UNCHANGED <<remaining, start_pos, end_pos, block>>

(* common_reasoning_budget_accept while forcing: the token is not looked   *)
(* at, only counted.                                                       *)
AcceptForcing(t) ==
  /\ state = "FORCING"
  /\ force_pos' = force_pos + 1
  /\ state' = IF force_pos' >= Len(forced_tokens) THEN "DONE" ELSE state
  /\ UNCHANGED <<remaining, start_pos, end_pos, block>>

(* common_reasoning_budget_accept *)
Accept(t) ==
  /\ \/ AcceptIdle(t) \/ AcceptDone(t) \/ AcceptCounting(t) \/ AcceptForcing(t)
  /\ text' = Append(text, t)

(* common_reasoning_budget_apply: the tokens left with a finite logit.     *)
Allowed ==
  IF state = "FORCING" /\ force_pos < Len(forced_tokens)
    THEN {forced_tokens[force_pos + 1]} ELSE Token

-----------------------------------------------------------------------------
(* common_reasoning_budget_init as common_sampler_init calls it.           *)
Init ==
  /\ state = "IDLE" /\ start_pos = 0 /\ end_pos = 0
  /\ remaining = budget /\ force_pos = 0
  /\ prefilling = TRUE /\ text = <<>> /\ block = <<>> /\ rewinds = 0

(* One token of the generation prompt, which nothing masks.                *)
Prefill(t) ==
  /\ prefilling /\ Len(text) < MaxPrefill
  /\ Accept(t)
  /\ UNCHANGED <<prefilling, rewinds>>

StartGeneration ==
  /\ prefilling /\ prefilling' = FALSE
  /\ UNCHANGED <<state, matchers, remaining, force_pos, text, block, rewinds>>

(* Draw a token the mask allows and accept it.                             *)
Generate(t) ==
  /\ ~prefilling /\ Len(text) < MaxTokens /\ Len(block) < MaxTokens
  /\ t \in Allowed
  /\ Accept(t)
  /\ UNCHANGED <<prefilling, rewinds>>

(* rewind_context takes the last n unsent tokens back; the sampler state   *)
(* stays (common_sampler_review only knows adaptive-p).                    *)
Rewind(n) ==
  /\ ~prefilling /\ n \in 1..MaxRewind /\ n <= Len(text)
  /\ text' = SubSeq(text, 1, Len(text) - n)
  /\ rewinds < MaxRewinds /\ rewinds' = rewinds + 1
  /\ UNCHANGED <<state, matchers, remaining, force_pos, prefilling, block>>

Next ==
  \/ \E t \in Token : Prefill(t) \/ Generate(t)
  \/ StartGeneration
  \/ \E n \in 1..MaxRewind : Rewind(n)

Spec == Init /\ [][Next]_vars

-----------------------------------------------------------------------------
(* Every variable stays in its range; the matcher positions index their    *)
(* tag (reasoning-budget.cpp reads tokens[pos] unchecked).                 *)
TypeOK ==
  /\ state \in States
  /\ start_pos \in 0..(Len(start_tokens) - 1)
  /\ end_pos \in 0..(Len(end_tokens) - 1)
  /\ remaining \in 0..budget
  /\ force_pos \in Nat
  /\ prefilling \in BOOLEAN
  /\ text \in Seq(Token)
  /\ block \in Seq(Token)
  /\ rewinds \in 0..MaxRewinds

(* While a block is counted, the tokens of the block and what remains add  *)
(* up to the budget, and something remains: a re-armed block gets a fresh  *)
(* window, no token is counted twice or missed, and a rewind gives none of *)
(* the budget back.                                                        *)
BudgetAccounting ==
  state = "COUNTING" => /\ remaining > 0
                        /\ remaining + Len(block) = budget

(* A block runs over its budget only through tokens whose own bytes do not *)
(* end a character: the state machine never lets the model reason on for   *)
(* another reason.                                                         *)
OverBudgetOnlyForUtf8 ==
  state \in {"COUNTING", "WAITING_UTF8"} =>
    \A i \in 1..Len(block) : i >= budget => ~utf8_is_complete(Piece[block[i]])

(* The bytes of the reply.                                                 *)
Bytes(s) == FlattenSeq([i \in 1..Len(s) |-> Piece[s[i]]])

(* As long as no token has been taken back, the forced message starts in   *)
(* the middle of a character only behind a token without bytes: control    *)
(* tokens have none in the reply, and no bytes count as a complete         *)
(* character, although the bytes before them may have opened one.          *)
ForcedAtCharBoundary ==
  [][(rewinds = 0 /\ state \in {"COUNTING", "WAITING_UTF8"} /\ state' = "FORCING")
       => utf8_is_complete(Bytes(text')) \/ Piece[Last(text')] = <<>>]_vars

(* When forcing ends, the reply ends with the whole forced sequence, so    *)
(* the reasoning block is closed by its end tag (a rewind makes a gap).    *)
ForcedSequenceEmitted ==
  [][rewinds = 0 /\ state = "FORCING" /\ state' = "DONE" => IsSuffix(forced_tokens, text')]_vars

(* A block is opened only by the whole start tag, contiguous in the reply. *)
OpenedByStartTag ==
  [][(rewinds = 0 /\ state \in {"IDLE", "DONE"} /\ state' \in {"COUNTING", "FORCING"})
       => IsSuffix(start_tokens, text')]_vars
=============================================================================
