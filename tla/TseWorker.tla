------------------------------ MODULE TseWorker ------------------------------
(***************************************************************************)
(* The device worker (tse_worker.c): a single-slot queue guarded by s_mu,  *)
(* one condition variable s_cond that both the worker and the callers      *)
(* wait on, and per call a stack-allocated job with its own mutex and      *)
(* condition variable.                                                     *)
(*                                                                         *)
(* Each critical section of s_mu is one action (nothing outside it reads   *)
(* what it writes); pthread_cond_wait ends one section by joining the wait *)
(* set, and the thread's next section starts once a signal, a broadcast or *)
(* a spurious wakeup has removed it from the set.                          *)
(***************************************************************************)
EXTENDS Naturals

CONSTANTS
  Callers,            \* threads that call tse_worker_run
  Main,               \* the one that also calls init and shutdown
  Worker,             \* the worker thread
  NULL,
  ShutdownWhileQueued \* may shutdown start while a caller waits for the slot?

ASSUME WorkerAssumption ==
  /\ Main \in Callers
  /\ Worker \notin Callers
  /\ NULL \notin Callers \cup {Worker}
  /\ ShutdownWhileQueued \in BOOLEAN

VARIABLES
  s_running, s_pending,
  waiting,    \* the wait set of s_cond
  pc,         \* of each caller: idle, slot (wants it), posted (awaits done)
  done,       \* job.done of each caller's job
  mu,         \* holder of each job's mutex between actions, or NULL
  asleep,     \* callers in the wait set of their job's condition variable
  wpc, wjob,  \* the worker's position and the job it took
  mainPc,     \* boot, serving, joining, stopped or crashed
  runs        \* ghost: how often fn ran in each caller's current call

vars == <<s_running, s_pending, waiting, pc, done, mu, asleep, wpc, wjob,
          mainPc, runs>>

Threads == Callers \cup {Worker}

TypeOK ==
  /\ s_running \in BOOLEAN
  /\ s_pending \in Callers \cup {NULL}
  /\ waiting \subseteq Threads
  /\ pc \in [Callers -> {"idle", "slot", "posted"}]
  /\ done \in [Callers -> BOOLEAN]
  /\ mu \in [Callers -> {NULL, Worker}]
  /\ asleep \subseteq Callers
  /\ wpc \in {"absent", "loop", "exec", "finish", "unlock", "exited"}
  /\ wjob \in Callers \cup {NULL}
  /\ mainPc \in {"boot", "serving", "joining", "stopped", "crashed"}
  /\ runs \in [Callers -> Nat]

Init ==
  /\ s_running = FALSE /\ s_pending = NULL /\ waiting = {}
  /\ pc = [c \in Callers |-> "idle"]
  /\ done = [c \in Callers |-> FALSE]
  /\ mu = [c \in Callers |-> NULL]
  /\ asleep = {}
  /\ wpc = "absent" /\ wjob = NULL /\ mainPc = "boot"
  /\ runs = [c \in Callers |-> 0]

(***************************************************************************)
(* Waking threads.                                                         *)
(***************************************************************************)
\* pthread_cond_signal(&s_cond): one waiter, whichever, if there is any.
Signalled == IF waiting = {} THEN {{}} ELSE {waiting \ {t} : t \in waiting}

Broadcast == {{}}

\* POSIX lets any wait return without a signal.
SpuriousWakeup ==
  /\ \/ /\ \E t \in waiting : waiting' = waiting \ {t}
        /\ UNCHANGED asleep
     \/ /\ \E c \in asleep : asleep' = asleep \ {c}
        /\ UNCHANGED waiting
  /\ UNCHANGED <<s_running, s_pending, pc, done, mu, wpc, wjob, mainPc, runs>>

(***************************************************************************)
(* tse_worker_init and tse_worker_shutdown, called by main.                *)
(***************************************************************************)
Start ==
  /\ mainPc = "boot"
  /\ mainPc' = "serving" /\ s_running' = TRUE /\ wpc' = "loop"
  /\ UNCHANGED <<s_pending, waiting, pc, done, mu, asleep, wjob, runs>>

\* pthread_create failed; main() ignores the return code and goes on.
StartFails ==
  /\ mainPc = "boot"
  /\ mainPc' = "serving" /\ s_running' = FALSE
  /\ UNCHANGED <<s_pending, waiting, pc, done, mu, asleep, wpc, wjob, runs>>

\* Defect: shutdown wakes nobody.
ShutdownSignal_None == {waiting}

ShutdownSignal == Signalled

Shutdown ==
  /\ mainPc = "serving" /\ pc[Main] = "idle"
  /\ ShutdownWhileQueued \/ \A c \in Callers : pc[c] # "slot"
  /\ mainPc' = "joining" /\ s_running' = FALSE
  /\ waiting' \in ShutdownSignal
  /\ UNCHANGED <<s_pending, pc, done, mu, asleep, wpc, wjob, runs>>

Join ==
  /\ mainPc = "joining" /\ wpc = "exited"
  /\ mainPc' = "stopped"
  /\ UNCHANGED <<s_running, s_pending, waiting, pc, done, mu, asleep, wpc,
                 wjob, runs>>

\* Joining a thread that was never created is undefined.
JoinOfNoThread ==
  /\ mainPc = "joining" /\ wpc = "absent"
  /\ mainPc' \in {"stopped", "crashed"}
  /\ UNCHANGED <<s_running, s_pending, waiting, pc, done, mu, asleep, wpc,
                 wjob, runs>>

(***************************************************************************)
(* tse_worker_run.                                                         *)
(***************************************************************************)
\* Defect: a call is accepted although the worker does not run.
Accepts_Always == TRUE

Accepts == s_running

\* The section from line 109 on: take the slot and wake a waiter, or wait.
TakeSlotOrWait(c) ==
  \/ /\ s_pending = NULL
     /\ s_pending' = c
     /\ waiting' \in Signalled
     /\ pc' = [pc EXCEPT ![c] = "posted"]
  \/ /\ s_pending # NULL
     /\ waiting' = waiting \cup {c}
     /\ pc' = [pc EXCEPT ![c] = "slot"]
     /\ UNCHANGED s_pending

\* The call makes a job of its own and enters the queue; when the worker is
\* not running it returns -1 at once, which changes nothing.  main calls it
\* only between init and shutdown.
Call(c) ==
  /\ pc[c] = "idle"
  /\ c = Main => mainPc = "serving"
  /\ Accepts
  /\ done' = [done EXCEPT ![c] = FALSE]
  /\ runs' = [runs EXCEPT ![c] = 0]
  /\ TakeSlotOrWait(c)
  /\ UNCHANGED <<s_running, mu, asleep, wpc, wjob, mainPc>>

\* A woken caller looks at the slot again, but not at s_running.
RetrySlot(c) ==
  /\ pc[c] = "slot" /\ c \notin waiting
  /\ TakeSlotOrWait(c)
  /\ UNCHANGED <<s_running, done, mu, asleep, wpc, wjob, mainPc, runs>>

\* Defect: the caller looks at the result instead of job.done.
MayReturn_Early(c) == runs[c] > 0

MayReturn(c) == done[c]

\* Under job.mu: return 0 (the job is gone with the stack frame) or wait.
AwaitDone(c) ==
  /\ pc[c] = "posted" /\ c \notin asleep /\ mu[c] = NULL
  /\ \/ MayReturn(c) /\ pc' = [pc EXCEPT ![c] = "idle"] /\ UNCHANGED asleep
     \/ ~MayReturn(c) /\ asleep' = asleep \cup {c} /\ UNCHANGED pc
  /\ UNCHANGED <<s_running, s_pending, waiting, done, mu, wpc, wjob, mainPc,
                 runs>>

(***************************************************************************)
(* worker_thread.                                                          *)
(***************************************************************************)
\* Defect: the loop ends on the flag alone.
MustExit_NoDrain == ~s_running

MustExit == ~s_running /\ s_pending = NULL

FreedSlot == NULL

\* Defect: signal instead of broadcast.
SlotFreed_Signal == Signalled

SlotFreed == Broadcast

WorkerAwake == wpc = "loop" /\ Worker \notin waiting

\* Take the job, free the slot, wake everybody, and call fn.
WorkerTake ==
  /\ WorkerAwake /\ ~MustExit /\ s_pending # NULL
  /\ wjob' = s_pending /\ s_pending' = FreedSlot
  /\ waiting' \in SlotFreed
  /\ wpc' = "exec"
  /\ UNCHANGED <<s_running, pc, done, mu, asleep, mainPc, runs>>

WorkerSleep ==
  /\ WorkerAwake /\ ~MustExit /\ s_pending = NULL
  /\ waiting' = waiting \cup {Worker}
  /\ UNCHANGED <<s_running, s_pending, pc, done, mu, asleep, wpc, wjob,
                 mainPc, runs>>

WorkerExit ==
  /\ WorkerAwake /\ MustExit
  /\ wpc' = "exited"
  /\ UNCHANGED <<s_running, s_pending, waiting, pc, done, mu, asleep, wjob,
                 mainPc, runs>>

FnReturns ==
  /\ wpc = "exec"
  /\ wpc' = "finish" /\ runs' = [runs EXCEPT ![wjob] = @ + 1]
  /\ UNCHANGED <<s_running, s_pending, waiting, pc, done, mu, asleep, wjob,
                 mainPc>>

DoneWakes(c) == asleep \ {c}

\* Lock job.mu, set done, signal the caller ...
WorkerDone ==
  /\ wpc = "finish" /\ mu[wjob] = NULL
  /\ wpc' = "unlock"
  /\ mu' = [mu EXCEPT ![wjob] = Worker]
  /\ done' = [done EXCEPT ![wjob] = TRUE]
  /\ asleep' = DoneWakes(wjob)
  /\ UNCHANGED <<s_running, s_pending, waiting, pc, wjob, mainPc, runs>>

\* ... and unlock: the worker's last touch of the caller's stack frame.
WorkerUnlock ==
  /\ wpc = "unlock"
  /\ wpc' = "loop" /\ wjob' = NULL
  /\ mu' = [mu EXCEPT ![wjob] = NULL]
  /\ UNCHANGED <<s_running, s_pending, waiting, pc, done, asleep, mainPc,
                 runs>>

WorkerStep == \/ WorkerTake \/ WorkerSleep \/ WorkerExit
              \/ FnReturns \/ WorkerDone \/ WorkerUnlock
MainStep   == Start \/ StartFails \/ Shutdown \/ Join \/ JoinOfNoThread

Next == \/ WorkerStep \/ MainStep \/ SpuriousWakeup
        \/ \E c \in Callers : Call(c) \/ RetrySlot(c) \/ AwaitDone(c)

Spec == Init /\ [][Next]_vars

(***************************************************************************)
(* A thread that can take its next step takes it.  Nobody has to call, to  *)
(* shut down or to wake up without a signal, and a mutex need not be fair. *)
(***************************************************************************)
Fairness ==
  /\ WF_vars(WorkerStep) /\ WF_vars(Join \/ JoinOfNoThread)
  /\ \A c \in Callers : WF_vars(RetrySlot(c)) /\ WF_vars(AwaitDone(c))

FairSpec == Spec /\ Fairness

(***************************************************************************)
(* Properties.                                                             *)
(***************************************************************************)
\* The worker never touches a job whose caller has returned, and the slot
\* never holds one: the job lives in the caller's stack frame.
FrameAlive ==
  /\ s_pending # NULL => pc[s_pending] = "posted"
  /\ wjob # NULL => pc[wjob] = "posted"

\* A call that is about to return 0 has had its function run exactly once.
ExactlyOnce ==
  \A c \in Callers : /\ runs[c] <= 1
                     /\ pc[c] = "posted" /\ done[c] => runs[c] = 1

\* Both kinds of waiters share s_cond, yet no signal is lost on the wrong
\* kind: nobody sleeps while what it waits for is already there.
NoLostWakeup ==
  /\ Worker \in waiting => s_pending = NULL /\ s_running
  /\ \A c \in waiting \ {Worker} : s_pending # NULL

\* The detailed queue implements the serial executor.
StatusOf(c) ==
  IF pc[c] = "idle" THEN "out"
  ELSE IF wjob = c /\ wpc = "exec" THEN "running"
  ELSE IF runs[c] = 0 THEN "submitted" ELSE "ran"

Serial == INSTANCE SerialExecutor
            WITH open <- s_running, status <- [c \in Callers |-> StatusOf(c)]
ImplementsSerial == Serial!Spec

\* Every posted call returns, whoever else calls and even across a shutdown.
PostedReturns == \A c \in Callers : pc[c] = "posted" ~> pc[c] = "idle"

\* Shutdown always ends: the worker is woken, drains the slot and exits.
ShutdownEnds == mainPc = "joining" ~> mainPc \in {"stopped", "crashed"}
=============================================================================
