---------------------------- MODULE ServerQueue ----------------------------
(* The data the HTTP threads and the main loop of the server share: the     *)
(* entries of server_queue (server-queue.cpp), the results of               *)
(* server_response, and what the queue operations do to them.  A task id is *)
(* the name of the request part it stands for; ids come from a counter under*)
(* mutex_tasks and are never reused, so names are as good.                  *)
EXTENDS Integers, Sequences, SequencesExt

CONSTANTS
  Task,      \* ids of the tasks that HTTP handlers create
  NoTask     \* id_task == -1, and the null slot.task

ASSUME TaskAssumption == NoTask \notin Task

(* An entry of queue_tasks: a task to work on, a CANCEL of one, or the      *)
(* NEXT_RESPONSE the loop posts to itself.  CANCEL and NEXT_RESPONSE get an *)
(* id of their own that nothing looks at.                                   *)
Entry ==
  [type : {"WORK"}, id : Task, id_target : {NoTask}]
    \cup [type : {"CANCEL"}, id : {NoTask}, id_target : Task]
    \cup [type : {"NEXT_RESPONSE"}, id : {NoTask}, id_target : {NoTask}]

Work(t)      == [type |-> "WORK", id |-> t, id_target |-> NoTask]
Cancel(t)    == [type |-> "CANCEL", id |-> NoTask, id_target |-> t]
NextResponse == [type |-> "NEXT_RESPONSE", id |-> NoTask, id_target |-> NoTask]

(* A result: "partial" is a token of a stream, "final" has stop set,        *)
(* "error" comes from send_error.                                           *)
Result == [id : Task, kind : {"partial", "final", "error"}]

Ids(q)     == {q[i].id : i \in DOMAIN q}
Targets(q) == {q[i].id_target : i \in DOMAIN q}

(* No task is in the queue twice.                                           *)
Once(q) == \A i, j \in DOMAIN q : q[i].id = q[j].id /\ q[i].id # NoTask => i = j

(* There is a final or error result for t.                                  *)
Answered(q, t) == \E i \in DOMAIN q : q[i].id = t /\ q[i].kind # "partial"

(* Mutant: the whole queue goes.                                            *)
CleanupClears(q, id_target) ==
  IF \E i \in DOMAIN q : q[i].id = id_target THEN <<>> ELSE q

(* server_queue::cleanup_pending_task, on one of the two queues.  An id is  *)
(* in a queue at most once (invariant TaskInOnePlace of ServerLoop), so     *)
(* erase(remove_if(..)) removes the entry that has it.                      *)
cleanup_pending_task(q, id_target) ==
  IF \E i \in DOMAIN q : q[i].id = id_target
    THEN RemoveAt(q, CHOOSE i \in DOMAIN q : q[i].id = id_target)
    ELSE q

(* server_response::send: a result goes in the queue when somebody waits    *)
(* for its id, and is dropped otherwise.                                    *)
send(q, waiting, t, kind) ==
  IF t \in waiting THEN Append(q, [id |-> t, kind |-> kind]) ELSE q

(* The index at which recv and recv_with_timeout find a result: the first   *)
(* with an id of interest.                                                  *)
FirstFor(q, ids, i) ==
  /\ i \in DOMAIN q
  /\ q[i].id \in ids
  /\ \A j \in 1..(i - 1) : q[j].id \notin ids
=============================================================================
