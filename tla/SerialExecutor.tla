--------------------------- MODULE SerialExecutor ---------------------------
(***************************************************************************)
(* What tse_worker.h promises, without the queue, the locks and the        *)
(* condition variables: calls are accepted while the executor is open,     *)
(* their functions run one at a time, each exactly once, and a call        *)
(* returns only after its function has run.  TseWorker implements this.    *)
(***************************************************************************)
CONSTANT Callers

VARIABLES
  open,    \* calls are accepted
  status   \* of each caller's call: out, submitted, running or ran

vars == <<open, status>>

Init == open = FALSE /\ status = [c \in Callers |-> "out"]

\* The executor opens once, before any call.
Open == /\ ~open
        /\ \A c \in Callers : status[c] = "out"
        /\ open' = TRUE
        /\ UNCHANGED status

\* A call is accepted.  A refused call changes nothing here.
Submit(c) == /\ open
             /\ status[c] = "out"
             /\ status' = [status EXCEPT ![c] = "submitted"]
             /\ UNCHANGED open

\* One function at a time reaches the device.
Begin(c) == /\ status[c] = "submitted"
            /\ \A d \in Callers : status[d] # "running"
            /\ status' = [status EXCEPT ![c] = "running"]
            /\ UNCHANGED open

End(c) == /\ status[c] = "running"
          /\ status' = [status EXCEPT ![c] = "ran"]
          /\ UNCHANGED open

Return(c) == /\ status[c] = "ran"
             /\ status' = [status EXCEPT ![c] = "out"]
             /\ UNCHANGED open

Close == open /\ open' = FALSE /\ UNCHANGED status

Next == \/ Open \/ Close
        \/ \E c \in Callers : Submit(c) \/ Begin(c) \/ End(c) \/ Return(c)

Spec == Init /\ [][Next]_vars
=============================================================================
