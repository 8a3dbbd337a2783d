---------------------------- MODULE SerialQueues ----------------------------
(***************************************************************************)
(* What the order mover promises its callers                                *)
(* (src/include/strategy/MmOrderMover.h, "Design"): the jobs of one         *)
(* instrument run one at a time and in the order in which they were posted; *)
(* none is lost before shutdown is called; the jobs that wait when it is    *)
(* may be dropped. Instruments are independent of each other. The process   *)
(* may end at any time, and a new one starts with empty queues.             *)
(***************************************************************************)
EXTENDS Sequences

CONSTANTS Instruments, Jobs, NoJob, InstrumentOf(_)

VARIABLES
  waiting,   \* per instrument: the posted jobs that have not begun, oldest first
  running,   \* per instrument: the job that runs, or NoJob
  phase      \* open; closing: shutdown has been called; over: the process has ended

vars == <<waiting, running, phase>>

Init == /\ waiting = [i \in Instruments |-> <<>>]
        /\ running = [i \in Instruments |-> NoJob]
        /\ phase = "open"

Post(j) == /\ waiting' = [waiting EXCEPT ![InstrumentOf(j)] = Append(@, j)]
           /\ UNCHANGED <<running, phase>>

Begin(i) == /\ waiting[i] # <<>> /\ running[i] = NoJob
            /\ waiting' = [waiting EXCEPT ![i] = Tail(@)]
            /\ running' = [running EXCEPT ![i] = Head(waiting[i])]
            /\ UNCHANGED phase

End(i) == /\ running[i] # NoJob
          /\ running' = [running EXCEPT ![i] = NoJob]
          /\ UNCHANGED <<waiting, phase>>

Close == phase = "open" /\ phase' = "closing" /\ UNCHANGED <<waiting, running>>

\* a worker's queue is cleared: one instrument's, or all of them
Drop(S) == /\ phase = "closing"
           /\ waiting' = [i \in Instruments |-> IF i \in S THEN <<>> ELSE waiting[i]]
           /\ UNCHANGED <<running, phase>>

Exit == phase' = "over" /\ UNCHANGED <<waiting, running>>
Restart == phase = "over" /\ Init'

Next == \/ \E j \in Jobs : Post(j)
        \/ \E i \in Instruments : Begin(i) \/ End(i)
        \/ Close \/ Exit \/ Restart
        \/ \E S \in SUBSET Instruments : Drop(S)

Spec == Init /\ [][Next]_vars
=============================================================================
