----------------------------- MODULE LogWorker -----------------------------
(***************************************************************************)
(* The asynchronous log of common/log.cpp: callers of any thread put       *)
(* messages into a ring under one mutex, a worker thread takes them out    *)
(* and prints them outside the mutex, and an owner (the header calls these *)
(* operations "not thread-safe") pauses it, changes the output file or     *)
(* frees it, each by pushing an end marker and joining the worker.         *)
(*                                                                         *)
(* A message is its number in the order of the accepted calls; wording,    *)
(* levels, prefixes, time stamps and colours do not matter here.  A cv     *)
(* wait is a guard: there is one waiter and every change of the ring is    *)
(* followed by a notify under the same mutex.                              *)
(***************************************************************************)
EXTENDS Integers, Sequences, FiniteSets

CONSTANTS
    Capacity,       \* entries of a new ring: 256 in the code
    MaxAdds,        \* bound: messages accepted in a behaviour
    MaxFiles,       \* bound: calls of set_file, set_colors, pause
    PauseOnFull     \* whether the owner may pause with all but one entry in use

ASSUME LogAssumption ==
    /\ Capacity \in Nat \ {0}
    /\ MaxAdds \in Nat
    /\ MaxFiles \in Nat
    /\ PauseOnFull \in BOOLEAN

VARIABLES
    entries,        \* the ring: entry = [msg, is_end]
    head, tail,     \* first used, first free
    running,        \* whether add() accepts
    thrd,           \* the worker: waiting, printing, writing its file, exited
    cur,            \* the entry the worker took
    owner,          \* idle, joining for the sake of a call, or done with the log
    file,           \* the open output file, numbered; 0 is none
    calls,          \* owner calls so far
    accepted,       \* history: [msg, file] of every accepted add()
    printed         \* history: [msg, file] of every entry the worker printed

vars == <<entries, head, tail, running, thrd, cur, owner, file, calls, accepted, printed>>

Entry == [msg : 0..MaxAdds, is_end : BOOLEAN]
Blank == [msg |-> 0, is_end |-> FALSE]

Size == Cardinality(DOMAIN entries)

(* The used entries, oldest first; head = tail is the empty ring. *)
InUse == (tail - head) % Size
Queued == [i \in 1..InUse |-> entries[(head + i - 1) % Size]]

-----------------------------------------------------------------------------
Init ==
    /\ entries = [i \in 0..Capacity-1 |-> Blank]
    /\ head = 0 /\ tail = 0
    /\ running = TRUE
    /\ thrd = "wait"
    /\ cur = Blank
    /\ owner = "idle"
    /\ file = 0
    /\ calls = 0
    /\ accepted = <<>>
    /\ printed = <<>>

(* Mutant: the old ring is copied from its start instead of from head. *)
Expanded_flat(ring, from) ==
    LET n == Cardinality(DOMAIN ring)
    IN  [i \in 0..2*n-1 |-> IF i < n THEN ring[i] ELSE Blank]

(* The entries of a full ring moved, in order, to the front of one twice   *)
(* its size.                                                               *)
Expanded(ring, from) ==
    LET n == Cardinality(DOMAIN ring)
    IN  [i \in 0..2*n-1 |-> IF i < n THEN ring[(from + i) % n] ELSE Blank]

(* add(): the message is stored at tail; a ring that has become full is    *)
(* doubled at once.  While paused it returns without effect.               *)
add ==
    /\ running
    /\ Len(accepted) < MaxAdds
    /\ LET msg  == Len(accepted) + 1
           ring == [entries EXCEPT ![tail] = [msg |-> msg, is_end |-> FALSE]]
           next == (tail + 1) % Size
       IN  /\ IF next = head
                THEN /\ entries' = Expanded(ring, head)
                     /\ head' = 0
                     /\ tail' = Size
                ELSE /\ entries' = ring
                     /\ tail' = next
                     /\ UNCHANGED head
           /\ accepted' = Append(accepted, [msg |-> msg, file |-> file])
    /\ UNCHANGED <<running, thrd, cur, owner, file, calls, printed>>

(* The worker, under the mutex: take the oldest entry; the end marker      *)
(* breaks the loop.                                                        *)
Take ==
    /\ thrd = "wait"
    /\ head # tail
    /\ cur' = entries[head]
    /\ head' = (head + 1) % Size
    /\ thrd' = IF cur'.is_end THEN "exited" ELSE "print"
    /\ UNCHANGED <<entries, tail, running, owner, file, calls, accepted, printed>>

(* The worker, without the mutex: print to the console and then, if there  *)
(* is one, to the file that is open at that moment.                        *)
PrintConsole ==
    /\ thrd = "print"
    /\ thrd' = "file"
    /\ UNCHANGED <<entries, head, tail, running, cur, owner, file, calls, accepted, printed>>

PrintFile ==
    /\ thrd = "file"
    /\ printed' = Append(printed, [msg |-> cur.msg, file |-> file])
    /\ thrd' = "wait"
    /\ UNCHANGED <<entries, head, tail, running, cur, owner, file, calls, accepted>>

-----------------------------------------------------------------------------
(* Mutant: the marker goes in front, so the worker stops at once. *)
PushEnd_front ==
    /\ running' = FALSE
    /\ entries' = [entries EXCEPT ![head].is_end = TRUE]
    /\ tail' = (tail + 1) % Size

(* Mutant: the entry pushed to stop the worker does not say so. *)
PushEnd_unmarked ==
    /\ running' = FALSE
    /\ tail' = (tail + 1) % Size
    /\ UNCHANGED entries

(* pause() up to the join: stop accepting and push the end marker.         *)
(* Nothing looks whether the marker fills the ring.                        *)
PushEnd ==
    /\ running' = FALSE
    /\ entries' = [entries EXCEPT ![tail].is_end = TRUE]
    /\ tail' = (tail + 1) % Size

(* The owner's calls that start with pause(): pause alone, set_file and    *)
(* set_colors (which go on to resume), and the destructor.                 *)
Pause(why) ==
    /\ owner = "idle"
    /\ running
    /\ why \in {"pause", "set_file", "set_colors"} => calls < MaxFiles
    /\ PauseOnFull \/ InUse < Size - 1
    /\ PushEnd
    /\ owner' = why
    /\ calls' = IF why = "free" THEN calls ELSE calls + 1
    /\ UNCHANGED <<head, thrd, cur, file, accepted, printed>>

(* resume(): accept again and start a worker. *)
resume == running' = TRUE /\ thrd' = "wait"

(* thrd.join() returned, and the rest of the call.  The new ring position  *)
(* is whatever the old worker left.                                        *)
Joined ==
    /\ owner \in {"pause", "set_file", "set_colors", "free"}
    /\ thrd = "exited"
    /\ CASE owner = "pause" ->
              owner' = "paused" /\ UNCHANGED <<running, thrd, file>>
         [] owner = "set_file" ->
              owner' = "idle" /\ file' \in {0, calls} /\ resume
         [] owner = "set_colors" ->
              owner' = "idle" /\ resume /\ UNCHANGED file
         [] owner = "free" ->
              owner' = "freed" /\ file' = 0 /\ UNCHANGED <<running, thrd>>
    /\ UNCHANGED <<entries, head, tail, cur, calls, accepted, printed>>

(* The calls on a paused log, whose own pause() returns at once:           *)
(* common_log_resume() or set_colors, set_file, and the destructor.        *)
CallPaused ==
    /\ owner = "paused"
    /\ \/ owner' = "idle" /\ file' \in {file, 0, calls} /\ resume
       \/ owner' = "freed" /\ file' = 0 /\ UNCHANGED <<running, thrd>>
    /\ UNCHANGED <<entries, head, tail, cur, calls, accepted, printed>>

Worker == Take \/ PrintConsole \/ PrintFile

Next ==
    \/ add
    \/ Worker
    \/ \E why \in {"pause", "set_file", "set_colors", "free"} : Pause(why)
    \/ Joined
    \/ CallPaused

(* The worker thread runs whenever it can, and a caller in join() returns  *)
(* once the worker has exited; nobody is obliged to call anything.         *)
Spec == Init /\ [][Next]_vars /\ WF_vars(Worker) /\ WF_vars(Joined)

-----------------------------------------------------------------------------
(* Types: the ring is indexed from 0 and both ends stay inside it, through *)
(* every growth.                                                           *)
TypeOK ==
    /\ entries \in [0..Size-1 -> Entry]
    /\ head \in 0..Size-1 /\ tail \in 0..Size-1
    /\ running \in BOOLEAN
    /\ thrd \in {"wait", "print", "file", "exited"}
    /\ cur \in Entry
    /\ owner \in {"idle", "paused", "freed", "pause", "set_file", "set_colors", "free"}
    /\ file \in 0..MaxFiles
    /\ calls \in 0..MaxFiles

(* Every message reaches the file that was open when it was logged, in the *)
(* order of the calls: common/log.cpp changes `file` without the mutex and *)
(* the worker reads it without the mutex, so this rests on pause() having  *)
(* drained the ring before set_file goes on.                               *)
EachToItsFile ==
    /\ Len(printed) <= Len(accepted)
    /\ \A i \in DOMAIN printed : printed[i] = accepted[i]

(* The messages inside the log: the one in the worker's hands and those in *)
(* the ring, without the marker, which nothing can follow.                 *)
InHand == IF thrd \in {"print", "file"} THEN <<cur.msg>> ELSE <<>>
Messages == IF InUse # 0 /\ Queued[InUse].is_end THEN InUse - 1 ELSE InUse
Unwritten == InHand \o [i \in 1..Messages |-> Queued[i].msg]

(* The ring with its growth, its marker and its worker implements a queue: *)
(* nothing accepted is lost, repeated or reordered, a paused log resumes   *)
(* only when all of it was written, and everything accepted is written.    *)
Fifo == INSTANCE LogFifo WITH
            Message <- 1..MaxAdds, pending <- Unwritten, open <- running
ImplementsLogFifo == Fifo!Spec

(* pause(), set_file(), set_colors() and the destructor return: the worker *)
(* gets the marker that was pushed to stop it.                             *)
PauseReturns == (owner \in {"pause", "set_file", "set_colors", "free"})
                    ~> (owner \in {"idle", "paused", "freed"})
=============================================================================
