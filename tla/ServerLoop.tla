----------------------------- MODULE ServerLoop -----------------------------
(* The serving core: the main loop of server_queue::start_loop with the     *)
(* handlers it calls (process_single_task, update_slots and the decode of a *)
(* tick), and the HTTP worker threads that post tasks and wait for results. *)
(*                                                                          *)
(* Each step of a thread is what it does between two points where another   *)
(* thread can see or change the shared state.  mutex_tasks is modelled where*)
(* a thread holds it over a loop (the vector post()); every other critical  *)
(* section is one step.                                                     *)
EXTENDS ServerQueue, FiniteSets

CONSTANTS
  Client,         \* HTTP requests, each served by a worker thread
  Owner,          \* the client a task belongs to
  Kind,           \* what a client does, see ClientKind
  IdSlot,         \* the "id_slot" a task asks for
  Slot,
  AnySlot,        \* id_slot == -1
  BadSlot,        \* an id_slot that get_slot_by_id does not find
  NoClient,       \* mutex_tasks is free
  kv_unified,     \* params_base.kv_unified
  DecodeMayFail,  \* llama_decode can return an error other than -3
  Leaves,         \* the clients that may close their connection
  Shutdown,       \* a SIGINT can arrive
  MaxPrompt,      \* bound: prompt chunks of a task beyond the first
  MaxDecoded      \* bound: tokens of a task before its last

(* "all": completions without stream, and embeddings (wait_for_all);        *)
(* "stream": completions with stream; "metrics": health, slots, metrics;    *)
(* "slot": save, restore and erase of a slot, and with id_slot == AnySlot   *)
(* the LoRA and control vector requests, which need no slot.                *)
ClientKind == {"all", "stream", "metrics", "slot"}

ASSUME ConstantsAssumption ==
  /\ Owner \in [Task -> Client]
  /\ Kind \in [Client -> ClientKind]
  /\ IdSlot \in [Task -> Slot \cup {AnySlot, BadSlot}]
  /\ AnySlot \notin Slot /\ BadSlot \notin Slot /\ AnySlot # BadSlot
  /\ NoClient \notin Client /\ Leaves \subseteq Client
  /\ kv_unified \in BOOLEAN /\ DecodeMayFail \in BOOLEAN /\ Shutdown \in BOOLEAN
  /\ MaxPrompt \in Nat /\ MaxDecoded \in Nat

(* A request makes finitely many tasks, and one only when it reads with     *)
(* recv.                                                                    *)
ASSUME RequestsAssumption ==
  /\ \A c \in Client : IsFiniteSet({t \in Task : Owner[t] = c})
  /\ \A t, u \in Task : Owner[t] = Owner[u] /\ Kind[Owner[t]] \in {"metrics", "slot"} => t = u

VARIABLES
  queue_tasks, queue_tasks_deferred, running, mutex_tasks,   \* server_queue
  waiting_task_ids, queue_results, queue_results_legacy,     \* server_response
  slots,                    \* server_context::slots
  stop_internal_decode,     \* the process-global flag of llama_decode_stop
  loop,                     \* where the main loop is
  hand,                     \* the task it has popped, or an empty sequence
  todo,                     \* slots of the batch still to decode, or to unwind
  pc,                       \* where each client is
  left,                     \* tasks the vector post() still has to push
  received_count,           \* of a server_response_reader
  streaming,                \* the first result is in, chunks are being sent
  connected,                \* the client has not gone away
  answer,                   \* what the client got
  got,                      \* history: tasks whose final result was received
  n_terminal                \* history: final and error results per task

queueVars  == <<queue_tasks, queue_tasks_deferred, running, mutex_tasks>>
resultVars == <<waiting_task_ids, queue_results, queue_results_legacy>>
loopVars   == <<slots, stop_internal_decode, loop, hand, todo>>
clientVars == <<pc, left, received_count, streaming, connected, answer, got>>
vars == <<queueVars, resultVars, loopVars, clientVars, n_terminal>>

Owned(c)   == {t \in Task : Owner[t] = c}
IsReader(c) == Kind[c] \in {"all", "stream"}
CreatesGeneration(t) == IsReader(Owner[t])

(***************************************************************************)
(* server_slot                                                             *)
(***************************************************************************)
SlotState == [state : {"IDLE", "PROCESSING"},
              command : {"NONE", "LOAD_PROMPT", "RELEASE"},
              id_task : Task \cup {NoTask},     \* survives a release
              task : Task \cup {NoTask},        \* reset by it
              n_past : 0..MaxPrompt, n_decoded : 0..MaxDecoded]

available(slot)     == slot.state = "IDLE" /\ slot.command = "NONE"
is_processing(slot) == \/ slot.state = "IDLE" /\ slot.command = "LOAD_PROMPT"
                       \/ slot.state = "PROCESSING"
Processing          == {s \in Slot : is_processing(slots[s])}

(* server_slot::reset and the id_task assignment that follows it.           *)
ResetFor(slot, t) == [slot EXCEPT !.id_task = t, !.n_past = 0, !.n_decoded = 0]

(* The end of launch_slot_with_task.                                        *)
LaunchedSlot(slot, t) ==
  [ResetFor(slot, t) EXCEPT !.command = "LOAD_PROMPT", !.task = t]

(* A part of the prompt, or a token, has been decoded.                      *)
PromptSlot(slot) == [slot EXCEPT !.n_past = @ + 1]
TokenSlot(slot)  == [slot EXCEPT !.state = "PROCESSING", !.command = "NONE",
                                 !.n_decoded = @ + 1]

(* Mutant: the task is not reset.                                           *)
ReleasedKeepsTask(slot) == [slot EXCEPT !.state = "IDLE", !.command = "RELEASE"]

(* server_slot::release on slot s, and the llama_decode_reset() it ends     *)
(* with: a request to stop a decode is forgotten whoever made it.           *)
ReleasedSlot(slot) == [slot EXCEPT !.state = "IDLE", !.command = "RELEASE", !.task = NoTask]

release(s) ==
  /\ slots' = IF is_processing(slots[s]) THEN [slots EXCEPT ![s] = ReleasedSlot(@)] ELSE slots
  /\ stop_internal_decode' = FALSE

(***************************************************************************)
(* Results.  Sends of the handlers below, with the history they leave.      *)
(***************************************************************************)
Terminal(t) == IF t \in Task THEN [n_terminal EXCEPT ![t] = @ + 1] ELSE n_terminal

send_error(t) ==
  /\ queue_results' = send(queue_results, waiting_task_ids, t, "error")
  /\ n_terminal' = Terminal(t)
  /\ UNCHANGED <<waiting_task_ids, queue_results_legacy>>

send_final_response(t) ==
  /\ queue_results' = send(queue_results, waiting_task_ids, t, "final")
  /\ n_terminal' = Terminal(t)
  /\ UNCHANGED <<waiting_task_ids, queue_results_legacy>>

send_partial_response(t) ==
  /\ queue_results' = send(queue_results, waiting_task_ids, t, "partial")
  /\ UNCHANGED <<waiting_task_ids, queue_results_legacy, n_terminal>>

send_legacy(t) ==
  /\ queue_results_legacy' = send(queue_results_legacy, waiting_task_ids, t, "final")
  /\ n_terminal' = Terminal(t)
  /\ UNCHANGED <<waiting_task_ids, queue_results>>

NoSend == UNCHANGED <<resultVars, n_terminal>>

(***************************************************************************)
(* server_queue::start_loop.  loop is "init" before it, "pop" in the inner  *)
(* loop, "process" in callback_new_task, "update", "batch", "decode",       *)
(* "unwind_cancel" and "unwind_fail" in callback_update_slots, and "wait",  *)
(* "heartbeat" and "sleep" in the wait at the end of an iteration.          *)
(***************************************************************************)
LoopState == {"init", "pop", "process", "update", "batch", "decode", "unwind_cancel",
              "unwind_fail", "wait", "heartbeat", "sleep", "ended"}

StartLoop ==
  /\ loop = "init"
  /\ running' = TRUE
  /\ loop' = "pop"
  /\ UNCHANGED <<queue_tasks, queue_tasks_deferred, mutex_tasks, resultVars, slots,
                 stop_internal_decode, hand, todo, clientVars, n_terminal>>

PopTask ==
  /\ loop = "pop" /\ mutex_tasks = NoClient
  /\ IF queue_tasks = <<>>
       THEN loop' = "update" /\ UNCHANGED <<queue_tasks, hand>>
       ELSE /\ loop' = "process"
            /\ hand' = Head(queue_tasks)
            /\ queue_tasks' = Tail(queue_tasks)
  /\ UNCHANGED <<queue_tasks_deferred, running, mutex_tasks, resultVars, slots,
                 stop_internal_decode, todo, clientVars, n_terminal>>

(* What every branch of process_single_task shares: the task is dealt with  *)
(* and the loop goes for the next.                                          *)
Processed ==
  /\ loop = "process"
  /\ loop' = "pop"
  /\ hand' = NextResponse
  /\ UNCHANGED <<queue_tasks, running, mutex_tasks, todo, clientVars>>

defer ==
  /\ mutex_tasks = NoClient
  /\ queue_tasks_deferred' = Append(queue_tasks_deferred, hand)

(* The slots a task may be given: the one it names, or any available one    *)
(* (get_available_slot picks by prompt similarity, then by last use).       *)
SlotsFor(t) == {s \in Slot : /\ available(slots[s])
                             /\ IdSlot[t] \in {s, AnySlot}}

HandIsGeneration == hand.type = "WORK" /\ CreatesGeneration(hand.id)

(* launch_slot_with_task succeeds.  With kv_unified the ring must have room *)
(* as well, see ProcessDefer.                                               *)
ProcessLaunch ==
  /\ Processed /\ HandIsGeneration
  /\ \E s \in SlotsFor(hand.id) :
       slots' = [slots EXCEPT ![s] = LaunchedSlot(@, hand.id)]
  /\ NoSend /\ UNCHANGED <<queue_tasks_deferred, stop_internal_decode>>

(* launch_slot_with_task refuses the parameters: the slot stays available   *)
(* with the id_task of the refused task.                                    *)
ProcessLaunchFails ==
  /\ Processed /\ HandIsGeneration
  /\ \E s \in SlotsFor(hand.id) : slots' = [slots EXCEPT ![s] = ResetFor(@, hand.id)]
  /\ send_error(hand.id)
  /\ UNCHANGED <<queue_tasks_deferred, stop_internal_decode>>

(* No slot, a busy slot, or (KV_ADMIT_DEFER) a ring whose cells are pinned  *)
(* by slots that are not available: reclaiming empties all the others.      *)
(* A task that names a slot that does not exist takes the same path as one  *)
(* for which no slot is free.                                               *)
ProcessDefer ==
  /\ Processed /\ HandIsGeneration
  /\ SlotsFor(hand.id) = {} \/ (kv_unified /\ \E s \in Slot : ~available(slots[s]))
  /\ defer
  /\ NoSend /\ UNCHANGED <<slots, stop_internal_decode>>

ProcessCancel ==
  /\ Processed /\ hand.type = "CANCEL"
  /\ IF \E s \in Slot : slots[s].task = hand.id_target /\ is_processing(slots[s])
       THEN \E s \in Slot : /\ slots[s].task = hand.id_target /\ is_processing(slots[s])
                            /\ release(s)
       ELSE UNCHANGED <<slots, stop_internal_decode>>
  /\ NoSend /\ UNCHANGED queue_tasks_deferred

ProcessNextResponse ==
  /\ Processed /\ hand.type = "NEXT_RESPONSE"
  /\ NoSend /\ UNCHANGED <<queue_tasks_deferred, slots, stop_internal_decode>>

ProcessMetrics ==
  /\ Processed /\ hand.type = "WORK" /\ Kind[Owner[hand.id]] = "metrics"
  /\ send_legacy(hand.id)
  /\ UNCHANGED <<queue_tasks_deferred, slots, stop_internal_decode>>

(* SLOT_SAVE, SLOT_RESTORE, SLOT_ERASE, and the LoRA and control vector     *)
(* tasks.  send_error answers on queue_results, the rest on the legacy one. *)
ProcessSlotAction ==
  /\ Processed /\ hand.type = "WORK" /\ Kind[Owner[hand.id]] = "slot"
  /\ LET id_slot == IdSlot[hand.id] IN
       \/ /\ id_slot = BadSlot
          /\ send_error(hand.id) /\ UNCHANGED queue_tasks_deferred
       \/ /\ id_slot \in Slot /\ ~available(slots[id_slot])
          /\ defer /\ NoSend
       \/ /\ id_slot \in Slot /\ available(slots[id_slot])     \* RESTORE of a bad file
          /\ send_error(hand.id) /\ UNCHANGED queue_tasks_deferred
       \/ /\ id_slot \in Slot => available(slots[id_slot])
          /\ id_slot # BadSlot
          /\ send_legacy(hand.id) /\ UNCHANGED queue_tasks_deferred
  /\ UNCHANGED <<slots, stop_internal_decode>>

process_single_task ==
  \/ ProcessLaunch \/ ProcessLaunchFails \/ ProcessDefer \/ ProcessCancel
  \/ ProcessNextResponse \/ ProcessMetrics \/ ProcessSlotAction

(***************************************************************************)
(* server_context::update_slots.                                           *)
(***************************************************************************)
(* Mutant: the slot is not handed back.                                     *)
ReleaseSlotsForgets == slots

release_slots ==
  [s \in Slot |-> IF slots[s].command = "RELEASE"
                    THEN [slots[s] EXCEPT !.state = "IDLE", !.command = "NONE"]
                    ELSE slots[s]]

(* notify_slot_changed, which release_slots calls when it releases a slot:  *)
(* the queue and the deferred queue after it.                               *)
SlotChanged == \E s \in Slot : slots[s].command = "RELEASE"

(* Mutant: the deferred tasks are left where they are as well.              *)
DeferredStay == queue_tasks_deferred

notify_slot_changed ==
  IF SlotChanged THEN queue_tasks \o queue_tasks_deferred ELSE queue_tasks

deferred_cleared == IF SlotChanged THEN <<>> ELSE queue_tasks_deferred

(* Mutant: nothing keeps the loop from sleeping while slots are busy.       *)
UpdateSlotsNoNext ==
  /\ loop = "update" /\ mutex_tasks = NoClient
  /\ stop_internal_decode' = FALSE
  /\ slots' = release_slots
  /\ queue_tasks_deferred' = deferred_cleared
  /\ IF \A s \in Slot : available(slots'[s])
       THEN loop' = "wait" /\ queue_tasks' = notify_slot_changed
       ELSE loop' = "batch" /\ queue_tasks' = notify_slot_changed
  /\ UNCHANGED <<running, mutex_tasks, hand, todo, resultVars, clientVars, n_terminal>>

(* The head of a tick: the stop flag, the releases, and unless every slot is*)
(* idle the NEXT_RESPONSE that keeps the loop from sleeping.                *)
UpdateSlots ==
  /\ loop = "update" /\ mutex_tasks = NoClient
  /\ stop_internal_decode' = FALSE
  /\ slots' = release_slots
  /\ queue_tasks_deferred' = deferred_cleared
  /\ IF \A s \in Slot : available(slots'[s])
       THEN loop' = "wait" /\ queue_tasks' = notify_slot_changed
       ELSE loop' = "batch" /\ queue_tasks' = Append(notify_slot_changed, NextResponse)
  /\ UNCHANGED <<running, mutex_tasks, hand, todo, resultVars, clientVars, n_terminal>>

(* A request that ends before it is in the batch: context_shift and         *)
(* batch_pending_prompt send an error (the request exceeds the context, the *)
(* image cannot be processed), or for an empty prompt the final response,   *)
(* and release the slot.                                                    *)
BatchEnds ==
  /\ loop = "batch"
  /\ \E s \in Processing :
       /\ release(s)
       /\ \/ send_error(slots[s].id_task)
          \/ slots[s].command = "LOAD_PROMPT" /\ send_final_response(slots[s].task)
  /\ UNCHANGED <<queueVars, loop, hand, todo, clientVars>>

(* The batch holds tokens of some of the slots that have work: which ones is*)
(* the prompt and generation alternation of the tick.                       *)
BatchReady ==
  /\ loop = "batch"
  /\ IF Processing = {}
       THEN loop' = "wait" /\ UNCHANGED todo
       ELSE loop' = "decode" /\ todo' \in (SUBSET Processing) \ {{}}
  /\ UNCHANGED <<queueVars, slots, stop_internal_decode, hand, resultVars, clientVars,
                 n_terminal>>

(* Mutant: the first slot ends the tick.                                    *)
DoneWithEarly(s) ==
  /\ todo' = todo \ {s}
  /\ loop' = "wait"
  /\ UNCHANGED <<queueVars, hand, clientVars>>

(* process_batch_tokens decodes the batch in chunks.  A slot of a chunk that*)
(* was decoded makes progress, one slot at a time.                          *)
DoneWith(s) ==
  /\ todo' = todo \ {s}
  /\ loop' = IF todo = {s} THEN "wait" ELSE loop
  /\ UNCHANGED <<queueVars, hand, clientVars>>

(* A part of the prompt that does not reach its end.                        *)
DecodePrompt ==
  /\ loop = "decode"
  /\ \E s \in todo :
       /\ slots[s].command = "LOAD_PROMPT" /\ slots[s].n_past < MaxPrompt
       /\ slots' = [slots EXCEPT ![s] = PromptSlot(@)]
       /\ DoneWith(s)
  /\ NoSend /\ UNCHANGED stop_internal_decode

(* A token after which the generation goes on.  A stream gets it, unless the*)
(* text is not yet valid UTF-8 or is held back in the ban buffer.           *)
DecodeToken ==
  /\ loop = "decode"
  /\ \E s \in todo :
       /\ is_processing(slots[s]) /\ slots[s].n_decoded < MaxDecoded
       /\ slots' = [slots EXCEPT ![s] = TokenSlot(@)]
       /\ \/ Kind[Owner[slots[s].task]] = "stream" /\ send_partial_response(slots[s].task)
          \/ NoSend
       /\ DoneWith(s)
  /\ UNCHANGED stop_internal_decode

(* The last token, or an exception in the sampler: the final response or an *)
(* error, then the release.                                                 *)
DecodeLast ==
  /\ loop = "decode"
  /\ \E s \in todo :
       /\ send_final_response(slots[s].task) \/ send_error(slots[s].id_task)
       /\ release(s)
       /\ DoneWith(s)

(* llama_decode polls the stop flag and returns -3: every slot that is in   *)
(* the middle of a request is unwound.                                      *)
DecodeAborted ==
  /\ loop = "decode" /\ stop_internal_decode
  /\ loop' = "unwind_cancel"
  /\ todo' = Processing
  /\ UNCHANGED <<queueVars, slots, stop_internal_decode, hand, resultVars, clientVars,
                 n_terminal>>

(* Mutant: slots are released without a word, as before the repair.         *)
UnwindCancelSilent ==
  /\ loop = "unwind_cancel"
  /\ \E s \in todo : release(s) /\ DoneWith(s)
  /\ NoSend

UnwindCancel ==
  /\ loop = "unwind_cancel"
  /\ \E s \in todo : send_error(slots[s].id_task) /\ release(s) /\ DoneWith(s)

(* Mutant: every slot is unwound, with kv_unified as well.                  *)
DecodeFailedAll ==
  /\ loop = "decode" /\ DecodeMayFail
  /\ loop' = "unwind_fail"
  /\ todo' = Slot
  /\ UNCHANGED <<queueVars, slots, stop_internal_decode, hand, resultVars, clientVars,
                 n_terminal>>

(* llama_decode fails for good (no room even for one token, or ret < 0).    *)
(* Without kv_unified slots that have nothing to do with the batch are      *)
(* unwound as well.                                                         *)
DecodeFailed ==
  /\ loop = "decode" /\ DecodeMayFail
  /\ loop' = "unwind_fail"
  /\ todo' = IF kv_unified THEN Processing ELSE Slot
  /\ UNCHANGED <<queueVars, slots, stop_internal_decode, hand, resultVars, clientVars,
                 n_terminal>>

(* The slot is made PROCESSING and then released, whatever it was doing.    *)
UnwindFail ==
  /\ loop = "unwind_fail"
  /\ \E s \in todo :
       /\ slots' = [slots EXCEPT ![s] = ReleasedSlot(@)]
       /\ stop_internal_decode' = FALSE
       /\ send_error(slots[s].id_task)
       /\ DoneWith(s)

update_slots ==
  \/ UpdateSlots \/ BatchEnds \/ BatchReady
  \/ DecodePrompt \/ DecodeToken \/ DecodeLast
  \/ DecodeAborted \/ UnwindCancel \/ DecodeFailed \/ UnwindFail

(***************************************************************************)
(* The wait at the end of an iteration of start_loop.                      *)
(***************************************************************************)
WaitForTask ==
  /\ loop = "wait" /\ mutex_tasks = NoClient
  /\ loop' = IF queue_tasks # <<>> THEN "pop"
             ELSE IF ~running THEN "ended"
             ELSE IF queue_tasks_deferred # <<>> THEN "heartbeat"
             ELSE "sleep"
  /\ UNCHANGED <<queueVars, slots, stop_internal_decode, hand, todo, resultVars, clientVars,
                 n_terminal>>

(* The deferred-task pump: wait_for() ends within 500 ms.  callback_slot_   *)
(* available may also say no for lack of cells in the shared ring.          *)
Heartbeat ==
  /\ loop = "heartbeat" /\ mutex_tasks = NoClient
  /\ loop' = "pop"
  /\ \/ /\ queue_tasks = <<>> /\ \E s \in Slot : available(slots[s])
        /\ queue_tasks' = queue_tasks_deferred
        /\ queue_tasks_deferred' = <<>>
     \/ /\ queue_tasks # <<>> \/ kv_unified \/ \A s \in Slot : ~available(slots[s])
        /\ UNCHANGED <<queue_tasks, queue_tasks_deferred>>
  /\ UNCHANGED <<running, mutex_tasks, slots, stop_internal_decode, hand, todo, resultVars,
                 clientVars, n_terminal>>

(* Mutant: only a task ends the sleep.                                      *)
WakeForTask ==
  /\ loop = "sleep" /\ mutex_tasks = NoClient
  /\ queue_tasks # <<>>
  /\ loop' = "pop"
  /\ UNCHANGED <<queueVars, slots, stop_internal_decode, hand, todo, resultVars, clientVars,
                 n_terminal>>

Wake ==
  /\ loop = "sleep" /\ mutex_tasks = NoClient
  /\ queue_tasks # <<>> \/ ~running
  /\ loop' = "pop"
  /\ UNCHANGED <<queueVars, slots, stop_internal_decode, hand, todo, resultVars, clientVars,
                 n_terminal>>

MainLoop ==
  \/ StartLoop \/ PopTask \/ process_single_task \/ update_slots
  \/ WaitForTask \/ Heartbeat \/ Wake

(***************************************************************************)
(* HTTP worker threads.  pc is "start", "post" (in the vector post()),     *)
(* "register" (post() has returned an id), "recv", "check" and "abort" (in *)
(* cancel_active_decode), "stop", "cancel" (posting CANCELs) or "done".    *)
(***************************************************************************)
ClientState == {"start", "post", "register", "recv", "check", "abort", "stop", "cancel", "done"}

has_next(c) == received_count[c] < Cardinality(Owned(c))

Goto(c, where) == pc' = [pc EXCEPT ![c] = where]

(* A step of c that leaves the loop's state and the tasks alone.            *)
ResultStep == UNCHANGED <<queueVars, loopVars, n_terminal>>

(* add_waiting_tasks, before anything is posted.                            *)
AddWaiting(c) ==
  /\ pc[c] = "start" /\ Kind[c] # "slot"
  /\ waiting_task_ids' = waiting_task_ids \cup Owned(c)
  /\ left' = [left EXCEPT ![c] = Owned(c)]
  /\ Goto(c, "post")
  /\ UNCHANGED <<queue_results, queue_results_legacy, received_count, streaming, connected,
                 answer, got>>
  /\ ResultStep

(* A slot action posts first: post() is where its task gets its id.         *)
StartSlotAction(c) ==
  /\ pc[c] = "start" /\ Kind[c] = "slot"
  /\ left' = [left EXCEPT ![c] = Owned(c)]
  /\ Goto(c, "post")
  /\ UNCHANGED <<resultVars, received_count, streaming, connected, answer, got>>
  /\ ResultStep

(* One iteration of the loop of post(): the lock is held until the last.    *)
HoldWhile(c, more) ==
  /\ mutex_tasks \in {NoClient, c}
  /\ mutex_tasks' = IF more THEN c ELSE NoClient

post(c) ==
  /\ pc[c] = "post"
  /\ \E t \in left[c] :
       /\ HoldWhile(c, left[c] # {t})
       /\ queue_tasks' = Append(queue_tasks, Work(t))
       /\ left' = [left EXCEPT ![c] = @ \ {t}]
       /\ IF left[c] # {t} THEN UNCHANGED pc
          ELSE Goto(c, IF Kind[c] = "slot" THEN "register" ELSE "recv")
  /\ UNCHANGED <<queue_tasks_deferred, running, resultVars, loopVars, received_count,
                 streaming, connected, answer, got, n_terminal>>

Register(c) ==
  /\ pc[c] = "register"
  /\ waiting_task_ids' = waiting_task_ids \cup Owned(c)
  /\ Goto(c, "recv")
  /\ UNCHANGED <<queue_results, queue_results_legacy, left, received_count, streaming,
                 connected, answer, got>>
  /\ ResultStep

(* recv and then remove_waiting_task_id of a legacy request.                *)
LegacyRecv(c) ==
  /\ pc[c] = "recv" /\ ~IsReader(c)
  /\ \E i \in DOMAIN queue_results_legacy :
       /\ FirstFor(queue_results_legacy, Owned(c), i)
       /\ queue_results_legacy' = RemoveAt(queue_results_legacy, i)
       /\ got' = got \cup {queue_results_legacy[i].id}
  /\ answer' = [answer EXCEPT ![c] = "ok"]
  /\ Goto(c, "stop")
  /\ UNCHANGED <<waiting_task_ids, queue_results, left, received_count, streaming, connected>>
  /\ ResultStep

(* What a reader does with a result that is not an error: count it when it  *)
(* has stop set, and stop when nothing is left to come.  The first result of*)
(* a stream only starts the stream: the next call of next() is made without *)
(* a look at has_next().  Writing to a client that has gone may fail.       *)
Delivered(c, kind) ==
  LET more == received_count[c] + (IF kind = "final" THEN 1 ELSE 0)
                < Cardinality(Owned(c)) IN
  /\ received_count' = [received_count EXCEPT ![c] = @ + (IF kind = "final" THEN 1 ELSE 0)]
  /\ streaming' = [streaming EXCEPT ![c] = Kind[c] = "stream"]
  /\ IF Kind[c] = "stream" /\ ~streaming[c]
       THEN UNCHANGED <<pc, answer>>
       ELSE \/ IF more THEN UNCHANGED <<pc, answer>>
               ELSE Goto(c, "stop") /\ answer' = [answer EXCEPT ![c] = "ok"]
            \/ /\ streaming[c] /\ ~connected[c]
               /\ Goto(c, "stop") /\ answer' = [answer EXCEPT ![c] = "closed"]

(* recv_with_timeout finds a result.                                        *)
ReaderRecv(c) ==
  /\ pc[c] = "recv" /\ IsReader(c)
  /\ \E i \in DOMAIN queue_results :
       LET result == queue_results[i] IN
       /\ FirstFor(queue_results, Owned(c), i)
       /\ queue_results' = RemoveAt(queue_results, i)
       /\ got' = IF result.kind = "final" THEN got \cup {result.id} ELSE got
       /\ IF result.kind = "error"
            THEN /\ Goto(c, "stop")
                 /\ answer' = [answer EXCEPT ![c] = "error"]
                 /\ UNCHANGED <<received_count, streaming>>
            ELSE Delivered(c, result.kind)
  /\ UNCHANGED <<waiting_task_ids, queue_results_legacy, left, connected>>
  /\ ResultStep

(* recv_with_timeout gives up after a second without a result, and          *)
(* should_stop() finds the connection closed.  Once a stream is being sent  *)
(* its end is on_complete, which calls stop() only.                         *)
ReaderTimeout(c) ==
  /\ pc[c] = "recv" /\ IsReader(c) /\ ~connected[c]
  /\ \A i \in DOMAIN queue_results : queue_results[i].id \notin Owned(c)
  /\ answer' = [answer EXCEPT ![c] = "closed"]
  /\ Goto(c, IF streaming[c] THEN "stop" ELSE "check")
  /\ UNCHANGED <<resultVars, left, received_count, streaming, connected, got>>
  /\ ResultStep

(* cancel_active_decode: look at the slots, then, some time later, stop the *)
(* decode.                                                                  *)
CheckSlots(c) ==
  /\ pc[c] = "check"
  /\ LET ours == {s \in Processing : slots[s].id_task \in Owned(c)} IN
       Goto(c, IF ours # {} /\ ours = Processing THEN "abort" ELSE "stop")
  /\ UNCHANGED <<resultVars, left, received_count, streaming, connected, answer, got>>
  /\ ResultStep

llama_decode_stop(c) ==
  /\ pc[c] = "abort"
  /\ stop_internal_decode' = TRUE
  /\ Goto(c, "stop")
  /\ UNCHANGED <<queueVars, resultVars, slots, loop, hand, todo, left, received_count,
                 streaming, connected, answer, got, n_terminal>>

(* server_response_reader::stop up to the post of the CANCELs, and          *)
(* remove_waiting_task_id for the legacy requests.                          *)
Stop(c) ==
  /\ pc[c] = "stop"
  /\ waiting_task_ids' = waiting_task_ids \ Owned(c)
  /\ IF IsReader(c) /\ has_next(c)
       THEN Goto(c, "cancel") /\ left' = [left EXCEPT ![c] = Owned(c)]
       ELSE Goto(c, "done") /\ UNCHANGED left
  /\ UNCHANGED <<queue_results, queue_results_legacy, received_count, streaming, connected,
                 answer, got>>
  /\ ResultStep

(* post(cancel_tasks, front = true), one task at a time under the lock.     *)
PostCancel(c) ==
  /\ pc[c] = "cancel"
  /\ \E t \in left[c] :
       /\ HoldWhile(c, left[c] # {t})
       /\ queue_tasks' = <<Cancel(t)>> \o cleanup_pending_task(queue_tasks, t)
       /\ queue_tasks_deferred' = cleanup_pending_task(queue_tasks_deferred, t)
       /\ left' = [left EXCEPT ![c] = @ \ {t}]
       /\ IF left[c] # {t} THEN UNCHANGED pc ELSE Goto(c, "done")
  /\ UNCHANGED <<running, resultVars, loopVars, received_count, streaming, connected,
                 answer, got, n_terminal>>

ClientStep(c) ==
  \/ AddWaiting(c) \/ StartSlotAction(c) \/ post(c) \/ Register(c) \/ LegacyRecv(c)
  \/ ReaderRecv(c) \/ ReaderTimeout(c) \/ CheckSlots(c) \/ llama_decode_stop(c)
  \/ Stop(c) \/ PostCancel(c)

(* The client closes its connection.                                        *)
Disconnect(c) ==
  /\ connected[c] /\ c \in Leaves
  /\ connected' = [connected EXCEPT ![c] = FALSE]
  /\ UNCHANGED <<queueVars, resultVars, loopVars, pc, left, received_count, streaming, answer,
                 got, n_terminal>>

(* SIGINT: server_queue::terminate.                                         *)
terminate ==
  /\ Shutdown /\ mutex_tasks = NoClient /\ loop # "ended"
  /\ running' = FALSE
  /\ UNCHANGED <<queue_tasks, queue_tasks_deferred, mutex_tasks, resultVars, loopVars,
                 clientVars, n_terminal>>

(***************************************************************************)
(* The specification.                                                      *)
(***************************************************************************)
Init ==
  /\ queue_tasks = <<>> /\ queue_tasks_deferred = <<>>
  /\ running = FALSE /\ mutex_tasks = NoClient
  /\ waiting_task_ids = {} /\ queue_results = <<>> /\ queue_results_legacy = <<>>
  /\ slots = [s \in Slot |-> [state |-> "IDLE", command |-> "NONE", id_task |-> NoTask,
                              task |-> NoTask, n_past |-> 0, n_decoded |-> 0]]
  /\ stop_internal_decode = FALSE
  /\ loop = "init" /\ hand = NextResponse /\ todo = {}
  /\ pc = [c \in Client |-> "start"]
  /\ left = [c \in Client |-> {}]
  /\ received_count = [c \in Client |-> 0]
  /\ streaming = [c \in Client |-> FALSE]
  /\ connected = [c \in Client |-> TRUE]
  /\ answer = [c \in Client |-> "none"]
  /\ got = {}
  /\ n_terminal = [t \in Task |-> 0]

Next ==
  \/ MainLoop
  \/ \E c \in Client : ClientStep(c) \/ Disconnect(c)
  \/ terminate

Spec == Init /\ [][Next]_vars

(* The main loop and the worker threads keep running: each is a thread that *)
(* blocks only where its action says so.  Nobody has to start a request, to *)
(* disconnect or to shut the server down.                                   *)
Fairness ==
  /\ WF_vars(MainLoop)
  /\ \A c \in Client : WF_vars(pc[c] # "start" /\ ClientStep(c))

FairSpec == Spec /\ Fairness

(***************************************************************************)
(* Properties.                                                             *)
(***************************************************************************)
QueueTypes ==
  /\ queue_tasks \in Seq(Entry) /\ queue_tasks_deferred \in Seq(Entry)
  /\ running \in BOOLEAN
  /\ mutex_tasks \in Client \cup {NoClient}

ResultTypes ==
  /\ waiting_task_ids \in SUBSET Task
  /\ queue_results \in Seq(Result) /\ queue_results_legacy \in Seq(Result)
  /\ n_terminal \in [Task -> Nat]

LoopTypes ==
  /\ slots \in [Slot -> SlotState] /\ stop_internal_decode \in BOOLEAN
  /\ loop \in LoopState /\ hand \in Entry /\ todo \in SUBSET Slot

ClientTypes ==
  /\ pc \in [Client -> ClientState] /\ left \in [Client -> SUBSET Task]
  /\ received_count \in [Client -> Nat]
  /\ streaming \in [Client -> BOOLEAN] /\ connected \in [Client -> BOOLEAN]
  /\ answer \in [Client -> {"none", "ok", "error", "closed"}]
  /\ got \in SUBSET Task

(* The variables have the shapes of the code's fields; a task is in hand    *)
(* only while process_single_task runs, and slots are left to handle exactly*)
(* while a batch is decoded or unwound.                                     *)
TypeOK ==
  /\ QueueTypes /\ ResultTypes /\ LoopTypes /\ ClientTypes
  /\ hand # NextResponse => loop = "process"
  /\ todo # {} <=> loop \in {"decode", "unwind_cancel", "unwind_fail"}

(* A task exists once: it is in the queue, in the deferred queue, in the    *)
(* loop's hand or live on one slot, and never in two of these.  Deferring,  *)
(* re-dispatching (release_slots and the pump) and launching move it.       *)
TaskInOnePlace ==
  /\ Once(queue_tasks) /\ Once(queue_tasks_deferred)
  /\ \A t \in Ids(queue_tasks) \ {NoTask} :
       t \notin Ids(queue_tasks_deferred) /\ t # hand.id /\ \A s \in Slot : slots[s].task # t
  /\ \A t \in Ids(queue_tasks_deferred) \ {NoTask} :
       t # hand.id /\ \A s \in Slot : slots[s].task # t
  /\ hand.id # NoTask => \A s \in Slot : slots[s].task # hand.id
  /\ \A s, r \in Slot : slots[s].task = slots[r].task /\ slots[s].task # NoTask => s = r

(* A slot has a live task exactly while it is processing, under the id_task *)
(* that results are sent to; a batch holds slots that are processing.       *)
SlotsOK ==
  /\ \A s \in Slot :
       /\ slots[s].task # NoTask <=> is_processing(slots[s])
       /\ slots[s].task # NoTask => slots[s].id_task = slots[s].task
       /\ slots[s].command # "NONE" => slots[s].state = "IDLE"
  /\ loop \in {"decode", "unwind_cancel"} => todo \subseteq Processing

InSystem(t) ==
  \/ t \in Ids(queue_tasks) \/ t \in Ids(queue_tasks_deferred)
  \/ hand.id = t \/ \E s \in Slot : slots[s].task = t

(* Whoever waits will hear: while a reader (or a metrics request) blocks in *)
(* recv for a task whose final result it does not have, the task is still in*)
(* the server's hands or its final or error result is in the queue the      *)
(* client reads.  A silent release, a lost deferral or a result sent before *)
(* anybody was registered would leave a client hanging for ever.            *)
NobodyWaitsForNothing ==
  \A t \in waiting_task_ids \ got :
    LET c == Owner[t] IN
    pc[c] = "recv" /\ Kind[c] # "slot" =>
      \/ InSystem(t)
      \/ Answered(IF IsReader(c) THEN queue_results ELSE queue_results_legacy, t)

(* No task gets two final or error results, whatever happens to the slots   *)
(* next to it: the aborted decode and, with kv_unified, the failed decode   *)
(* unwind only requests in flight, never the stale id_task of an idle slot. *)
OneTerminal ==
  kv_unified \/ ~DecodeMayFail => \A t \in Task : n_terminal[t] <= 1

(* A slot lets go of a live task only with a final or error result for it,  *)
(* or when its client is no longer registered (its CANCEL).  This is what   *)
(* PXA_SCOPED_CANCEL_v1 repaired: "the innocent request is silently released*)
(* and its client hangs".                                                   *)
NoSilentRelease ==
  [][\A s \in Slot :
       LET t == slots[s].task IN
       t # NoTask /\ slots'[s].task # t =>
         n_terminal'[t] = n_terminal[t] + 1 \/ t \notin waiting_task_ids]_vars

(* A request answered in full leaves nothing in the result queues, which    *)
(* nobody else would ever empty.                                            *)
NothingLeftBehind ==
  kv_unified \/ ~DecodeMayFail =>
    \A c \in Client : pc[c] = "done" /\ answer[c] = "ok" =>
      \A t \in Owned(c) : ~Answered(queue_results, t) /\ ~Answered(queue_results_legacy, t)

HeardBack(c) == ~has_next(c) \/ answer[c] # "none"

(* A reader that stays connected gets all its final results or an error,    *)
(* unless the server is shut down: no request starves behind busy slots, in *)
(* the deferred queue or behind the decodes of others.                      *)
ConnectedEventuallyAnswered ==
  \A c \in Client : Kind[c] \in {"all", "stream", "metrics"} =>
    (pc[c] = "recv" ~> HeardBack(c) \/ ~connected[c] \/ ~running)

(* After terminate the loop drains its queue and the running slots, and     *)
(* start_loop returns.                                                      *)
ShutdownEnds == ~running /\ loop # "init" ~> loop = "ended"

(* No task that can have its slot is parked for ever: what enters the queue *)
(* is launched, answered or cancelled in the end, deferred or not, whoever  *)
(* still waits for it.                                                      *)
EveryTaskLeaves ==
  \A t \in Task : IdSlot[t] # BadSlot => (InSystem(t) ~> ~InSystem(t))

(***************************************************************************)
(* What comments say and the code does not do.                             *)
(***************************************************************************)
(* The deferred-task pump makes starvation "structurally impossible": not   *)
(* for a completion that names a slot that does not exist.                  *)
NoStarvation == \A t \in Task : InSystem(t) ~> ~InSystem(t)

(* recv "blocks the thread until there is a response for this id_task":     *)
(* a slot action is posted before its id is registered, so a loop that is   *)
(* quick enough answers into the void.                                      *)
LegacyRecvReturns ==
  \A c \in Client : ~IsReader(c) => (pc[c] = "recv" ~> pc[c] # "recv")

(* "Send a new result to a waiting id_task": the error of a slot action goes*)
(* to queue_results, while its client reads queue_results_legacy.           *)
ResultsWhereRead ==
  /\ \A i \in DOMAIN queue_results : IsReader(Owner[queue_results[i].id])
  /\ \A i \in DOMAIN queue_results_legacy : ~IsReader(Owner[queue_results_legacy[i].id])

(* A cancelled task does not become a ghost "that later occupied a slot     *)
(* generating for a dead client": once a reader is through, a task of its   *)
(* that is still in the server has its CANCEL still to come.  The task the  *)
(* loop holds in its hand is in neither queue when the CANCEL is posted.    *)
NoGhost ==
  \A t \in Task : pc[Owner[t]] = "done" /\ InSystem(t) =>
    Cancel(t) \in Range(queue_tasks) \cup {hand}
=============================================================================
