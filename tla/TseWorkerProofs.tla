--------------------------- MODULE TseWorkerProofs ---------------------------
(***************************************************************************)
(* TseWorker for any number of callers: the job queue never touches a dead *)
(* stack frame, loses no wakeup, runs every function once, and implements  *)
(* the serial executor, even when shutdown races with the callers.         *)
(***************************************************************************)
EXTENDS TseWorker, TLAPS

\* The worker holds a job exactly while it works on it; a job in its hands
\* has run iff fn has returned, and is done and locked only in between.
WorkerInv ==
  /\ wjob # NULL <=> wpc \in {"exec", "finish", "unlock"}
  /\ wjob # NULL => /\ pc[wjob] = "posted"
                    /\ runs[wjob] = IF wpc = "exec" THEN 0 ELSE 1
                    /\ done[wjob] <=> wpc = "unlock"
  /\ \A c \in Callers : mu[c] = Worker <=> wpc = "unlock" /\ wjob = c

\* The job in the slot is fresh and is not the one the worker holds.
SlotInv == s_pending # NULL => /\ pc[s_pending] = "posted"
                               /\ s_pending # wjob
                               /\ runs[s_pending] = 0
                               /\ ~done[s_pending]

CallerInv ==
  \A c \in Callers :
    /\ runs[c] <= 1
    /\ pc[c] = "slot" => runs[c] = 0 /\ ~done[c] /\ c # wjob /\ c # s_pending
    /\ pc[c] = "posted" /\ done[c] => runs[c] = 1

\* Who waits on s_cond, and what the slot then holds.
WaitInv ==
  /\ Worker \in waiting => wpc = "loop" /\ s_pending = NULL /\ s_running
  /\ \A c \in waiting \ {Worker} : s_pending # NULL /\ pc[c] = "slot"

\* Without a worker thread nothing is accepted, queued or waited for.
AbsentInv ==
  /\ mainPc = "boot" => wpc = "absent"
  /\ wpc = "absent" => /\ ~s_running /\ s_pending = NULL /\ waiting = {}
                       /\ \A c \in Callers : pc[c] = "idle"

IInv == TypeOK /\ WorkerInv /\ SlotInv /\ CallerInv /\ WaitInv /\ AbsentInv

\* A signal only removes waiters, and wakes the only one there is.
LEMMA SignalledFacts ==
  ASSUME NEW w \in Signalled
  PROVE  /\ w \subseteq waiting
         /\ \A t : waiting \subseteq {t} => w = {}
BY DEF Signalled

LEMMA InitIInv == Init => IInv
<1> SUFFICES ASSUME Init PROVE IInv
  OBVIOUS
<1> USE WorkerAssumption DEF Init
<1>1. TypeOK
  BY DEF TypeOK
<1>2. WorkerInv
  BY DEF WorkerInv
<1>3. SlotInv /\ CallerInv /\ WaitInv /\ AbsentInv
  BY DEF SlotInv, CallerInv, WaitInv, AbsentInv
<1> QED BY <1>1, <1>2, <1>3 DEF IInv

\* Taking the slot or joining its queue, from a state in which the caller
\* has a fresh job that nobody knows of yet.
LEMMA TakeSlotKeepsIInv ==
  ASSUME IInv, NEW c \in Callers, TakeSlotOrWait(c),
         wpc # "absent", c # wjob, c # s_pending, runs'[c] = 0, ~done'[c],
         runs' \in [Callers -> Nat], done' \in [Callers -> BOOLEAN],
         \A d \in Callers \ {c} : runs'[d] = runs[d] /\ done'[d] = done[d],
         UNCHANGED <<s_running, mu, asleep, wpc, wjob, mainPc>>
  PROVE  IInv'
<1> USE WorkerAssumption DEF IInv
<1>1. CASE s_pending = NULL
  <2>1. PICK w \in Signalled : w = waiting'
    BY <1>1 DEF TakeSlotOrWait
  <2>2. waiting \subseteq {Worker}
    BY <1>1 DEF WaitInv, TypeOK, Threads
  <2>3. waiting' = {}
    BY <2>1, <2>2, SignalledFacts
  <2>4. s_pending' = c /\ pc' = [pc EXCEPT ![c] = "posted"]
    BY <1>1 DEF TakeSlotOrWait
  <2>5. TypeOK'
    BY <2>3, <2>4 DEF TypeOK, Threads
  <2>6. WorkerInv'
    BY <2>4 DEF WorkerInv, TypeOK
  <2>7. SlotInv' /\ CallerInv'
    BY <1>1, <2>4 DEF SlotInv, CallerInv, TypeOK
  <2> QED BY <2>3, <2>5, <2>6, <2>7 DEF WaitInv, AbsentInv
<1>2. CASE s_pending # NULL
  <2>1. /\ waiting' = waiting \cup {c}
        /\ pc' = [pc EXCEPT ![c] = "slot"]
        /\ s_pending' = s_pending
    BY <1>2 DEF TakeSlotOrWait
  <2>2. TypeOK'
    BY <2>1 DEF TypeOK, Threads
  <2>3. WorkerInv'
    BY <2>1 DEF WorkerInv, TypeOK
  <2>4. SlotInv' /\ CallerInv'
    BY <1>2, <2>1 DEF SlotInv, CallerInv, TypeOK
  <2>5. WaitInv'
    BY <1>2, <2>1 DEF WaitInv, TypeOK
  <2> QED BY <2>2, <2>3, <2>4, <2>5 DEF AbsentInv
<1> QED BY <1>1, <1>2

LEMMA NextIInv == IInv /\ [Next]_vars => IInv'
<1> SUFFICES ASSUME IInv, [Next]_vars PROVE IInv'
  OBVIOUS
<1> USE WorkerAssumption DEF IInv
<1>1. CASE Start \/ StartFails
  <2>1. wpc = "absent" /\ s_pending = NULL /\ waiting = {}
    BY <1>1 DEF Start, StartFails, AbsentInv
  <2>2. TypeOK' /\ WorkerInv' /\ SlotInv'
    BY <1>1, <2>1 DEF Start, StartFails, TypeOK, WorkerInv, SlotInv
  <2>3. CallerInv' /\ WaitInv' /\ AbsentInv'
    BY <1>1, <2>1
       DEF Start, StartFails, TypeOK, CallerInv, WaitInv, AbsentInv
  <2> QED BY <2>2, <2>3
<1>2. CASE Shutdown
  <2>1. PICK w \in Signalled : w = waiting'
    BY <1>2 DEF Shutdown, ShutdownSignal
  <2>2. waiting' \subseteq waiting
    BY <2>1, SignalledFacts
  <2>3. Worker \notin waiting'
    <3>1. CASE Worker \in waiting
      BY <2>1, <3>1, SignalledFacts DEF WaitInv, TypeOK, Threads
    <3> QED BY <2>2, <3>1
  <2>4. TypeOK' /\ WorkerInv' /\ SlotInv'
    BY <1>2, <2>2 DEF Shutdown, TypeOK, WorkerInv, SlotInv
  <2>5. CallerInv' /\ WaitInv' /\ AbsentInv'
    BY <1>2, <2>2, <2>3 DEF Shutdown, CallerInv, WaitInv, AbsentInv
  <2> QED BY <2>4, <2>5
<1>3. CASE Join \/ JoinOfNoThread
  BY <1>3 DEF Join, JoinOfNoThread, TypeOK, WorkerInv, SlotInv, CallerInv,
              WaitInv, AbsentInv
<1>4. CASE SpuriousWakeup
  BY <1>4 DEF SpuriousWakeup, TypeOK, WorkerInv, SlotInv, CallerInv, WaitInv,
              AbsentInv
<1>5. ASSUME NEW c \in Callers, Call(c) PROVE IInv'
  <2>1. wpc # "absent" /\ c # wjob /\ c # s_pending
    BY <1>5 DEF Call, Accepts, WorkerInv, SlotInv, AbsentInv
  <2>2. runs' \in [Callers -> Nat] /\ runs'[c] = 0
        /\ \A d \in Callers \ {c} : runs'[d] = runs[d]
    BY <1>5 DEF Call, TypeOK
  <2>3. done' \in [Callers -> BOOLEAN] /\ ~done'[c]
        /\ \A d \in Callers \ {c} : done'[d] = done[d]
    BY <1>5 DEF Call, TypeOK
  <2> QED BY <1>5, <2>1, <2>2, <2>3, TakeSlotKeepsIInv DEF Call
<1>6. ASSUME NEW c \in Callers, RetrySlot(c) PROVE IInv'
  <2>1. /\ wpc # "absent" /\ c # wjob /\ c # s_pending
        /\ runs[c] = 0 /\ ~done[c]
    BY <1>6 DEF RetrySlot, CallerInv, AbsentInv
  <2> QED BY <1>6, <2>1, TakeSlotKeepsIInv DEF RetrySlot, TypeOK
<1>7. ASSUME NEW c \in Callers, AwaitDone(c) PROVE IInv'
  <2>1. CASE done[c]
    <3>1. c # s_pending /\ c # wjob
      BY <1>7, <2>1 DEF AwaitDone, SlotInv, WorkerInv, TypeOK
    <3>2. /\ pc' = [pc EXCEPT ![c] = "idle"]
          /\ UNCHANGED <<s_running, s_pending, waiting, done, mu, asleep, wpc,
                         wjob, mainPc, runs>>
      BY <1>7, <2>1 DEF AwaitDone, MayReturn
    <3>3. pc[c] = "posted"
      BY <1>7 DEF AwaitDone
    <3>4. TypeOK' /\ WorkerInv' /\ SlotInv'
      BY <3>1, <3>2 DEF TypeOK, WorkerInv, SlotInv
    <3>5. CallerInv' /\ WaitInv' /\ AbsentInv'
      BY <3>2, <3>3 DEF TypeOK, CallerInv, WaitInv, AbsentInv
    <3> QED BY <3>4, <3>5
  <2>2. CASE ~done[c]
    BY <1>7, <2>2 DEF AwaitDone, MayReturn, TypeOK, WorkerInv, SlotInv,
                      CallerInv, WaitInv, AbsentInv
  <2> QED BY <2>1, <2>2
<1>8. CASE WorkerTake
  <2>1. /\ s_pending # NULL /\ wpc = "loop" /\ wjob = NULL
        /\ wjob' = s_pending /\ s_pending' = NULL /\ waiting' = {}
        /\ wpc' = "exec"
        /\ UNCHANGED <<s_running, pc, done, mu, asleep, mainPc, runs>>
    BY <1>8 DEF WorkerTake, WorkerAwake, FreedSlot, SlotFreed, Broadcast,
                WorkerInv
  <2>2. TypeOK' /\ WorkerInv' /\ SlotInv'
    BY <2>1 DEF TypeOK, WorkerInv, SlotInv
  <2>3. CallerInv' /\ WaitInv' /\ AbsentInv'
    BY <2>1 DEF CallerInv, SlotInv, WaitInv, AbsentInv, TypeOK
  <2> QED BY <2>2, <2>3
<1>9. CASE WorkerSleep \/ WorkerExit
  <2>1. TypeOK' /\ WorkerInv' /\ SlotInv' /\ CallerInv'
    BY <1>9 DEF WorkerSleep, WorkerExit, WorkerAwake, TypeOK, Threads,
                WorkerInv, SlotInv, CallerInv
  <2>2. WaitInv' /\ AbsentInv'
    BY <1>9 DEF WorkerSleep, WorkerExit, WorkerAwake, MustExit, TypeOK,
                WaitInv, AbsentInv
  <2> QED BY <2>1, <2>2
<1>10. CASE FnReturns
  <2>1. wpc = "exec" /\ wjob \in Callers /\ runs[wjob] = 0
    BY <1>10 DEF FnReturns, WorkerInv, TypeOK
  <2>2. TypeOK'
    BY <1>10, <2>1 DEF FnReturns, TypeOK
  <2>3. WorkerInv' /\ SlotInv'
    BY <1>10, <2>1 DEF FnReturns, TypeOK, WorkerInv, SlotInv
  <2>4. CallerInv' /\ WaitInv' /\ AbsentInv'
    BY <1>10, <2>1 DEF FnReturns, TypeOK, WorkerInv, CallerInv, WaitInv,
                       AbsentInv
  <2> QED BY <2>2, <2>3, <2>4
<1>11. CASE WorkerDone
  <2>1. wpc = "finish" /\ wjob \in Callers /\ runs[wjob] = 1
        /\ asleep' = asleep \ {wjob}
    BY <1>11 DEF WorkerDone, DoneWakes, WorkerInv, TypeOK
  <2>2. TypeOK'
    BY <1>11, <2>1 DEF WorkerDone, TypeOK
  <2>3. WorkerInv' /\ SlotInv'
    BY <1>11, <2>1 DEF WorkerDone, TypeOK, WorkerInv, SlotInv
  <2>4. CallerInv' /\ WaitInv' /\ AbsentInv'
    BY <1>11, <2>1 DEF WorkerDone, TypeOK, CallerInv, WaitInv, AbsentInv
  <2> QED BY <2>2, <2>3, <2>4
<1>12. CASE WorkerUnlock
  <2>1. wpc = "unlock" /\ wjob \in Callers /\ runs[wjob] = 1
    BY <1>12 DEF WorkerUnlock, WorkerInv, TypeOK
  <2>2. TypeOK'
    BY <1>12, <2>1 DEF WorkerUnlock, TypeOK
  <2>3. WorkerInv' /\ SlotInv'
    BY <1>12, <2>1 DEF WorkerUnlock, TypeOK, WorkerInv, SlotInv
  <2>4. CallerInv' /\ WaitInv' /\ AbsentInv'
    BY <1>12, <2>1 DEF WorkerUnlock, TypeOK, WorkerInv, CallerInv, WaitInv,
                       AbsentInv
  <2> QED BY <2>2, <2>3, <2>4
<1>13. CASE UNCHANGED vars
  BY <1>13 DEF vars, TypeOK, WorkerInv, SlotInv, CallerInv, WaitInv, AbsentInv
<1> QED
  BY <1>1, <1>2, <1>3, <1>4, <1>5, <1>6, <1>7, <1>8, <1>9, <1>10, <1>11,
     <1>12, <1>13 DEF Next, WorkerStep, MainStep

LEMMA IInvImplies == IInv => TypeOK /\ FrameAlive /\ ExactlyOnce
/\ NoLostWakeup
BY DEF IInv, WorkerInv, SlotInv, CallerInv, WaitInv, FrameAlive, ExactlyOnce,
       NoLostWakeup

LEMMA SpecIInv == Spec => []IInv
BY InitIInv, NextIInv, PTL DEF Spec

\* The variables keep their types (tse_worker.c:10-29).
THEOREM TypeCorrect == Spec => []TypeOK
BY SpecIInv, IInvImplies, PTL

\* The worker only ever touches the job of a caller still blocked in
\* tse_worker_run, whose stack frame holds it (tse_worker.c:46-59, 94).
THEOREM FrameSafety == Spec => []FrameAlive
BY SpecIInv, IInvImplies, PTL

\* A call that returns 0 has had its function run, and once only
\* (tse_worker.c:46-53, 117-121).
THEOREM RunsOnce == Spec => []ExactlyOnce
BY SpecIInv, IInvImplies, PTL

\* However many threads share s_cond, the signal that posts a job reaches
\* the worker and the broadcast that frees the slot reaches every queued
\* caller (tse_worker.c:49, 87, 113).
THEOREM WakeupSafety == Spec => []NoLostWakeup
BY SpecIInv, IInvImplies, PTL

(***************************************************************************)
(* Refinement.                                                             *)
(***************************************************************************)
LEMMA InitSerial == Init => Serial!Init
BY DEF Init, Serial!Init, StatusOf

LEMMA StepSerial == IInv /\ IInv' /\ [Next]_vars => [Serial!Next]_(Serial!vars)
<1> SUFFICES ASSUME IInv, IInv', [Next]_vars
             PROVE  [Serial!Next]_(Serial!vars)
  OBVIOUS
<1> DEFINE st == [c \in Callers |-> StatusOf(c)]
<1> USE WorkerAssumption DEF IInv, Serial!vars
<1>1. CASE Start
  <2>1. ~s_running /\ s_running' /\ \A c \in Callers : pc[c] = "idle"
    BY <1>1 DEF Start, AbsentInv
  <2>2. st' = st /\ \A c \in Callers : st[c] = "out"
    BY <1>1, <2>1 DEF Start, StatusOf
  <2> QED BY <2>1, <2>2 DEF Serial!Next, Serial!Open
<1>2. CASE StartFails
  <2>1. s_running' = s_running
    BY <1>2 DEF StartFails, AbsentInv, TypeOK
  <2> QED BY <1>2, <2>1 DEF StartFails, StatusOf
<1>3. CASE Shutdown
  <2>1. st' = st /\ ~s_running'
    BY <1>3 DEF Shutdown, StatusOf
  <2> QED BY <2>1 DEF Serial!Next, Serial!Close, TypeOK
<1>4. CASE \/ Join \/ JoinOfNoThread \/ SpuriousWakeup \/ WorkerSleep
           \/ WorkerExit \/ WorkerDone \/ WorkerUnlock \/ UNCHANGED vars
  <2>1. s_running' = s_running
    BY <1>4 DEF Join, JoinOfNoThread, SpuriousWakeup, WorkerSleep, WorkerExit,
                WorkerDone, WorkerUnlock, vars
  <2>2. ASSUME NEW c \in Callers PROVE StatusOf(c)' = StatusOf(c)
    BY <1>4 DEF Join, JoinOfNoThread, SpuriousWakeup, WorkerSleep, WorkerExit,
                WorkerDone, WorkerUnlock, vars, StatusOf, WorkerAwake
  <2> QED BY <2>1, <2>2
<1>5. ASSUME NEW c \in Callers, Call(c) PROVE Serial!Next
  <2>1. pc[c] = "idle" /\ s_running /\ s_running' = s_running
    BY <1>5 DEF Call, Accepts
  <2>2. pc'[c] # "idle" /\ runs'[c] = 0 /\ wjob' = wjob /\ c # wjob
    BY <1>5, <2>1 DEF Call, TakeSlotOrWait, TypeOK, WorkerInv
  <2>3. StatusOf(c) = "out" /\ StatusOf(c)' = "submitted"
    BY <2>1, <2>2 DEF StatusOf
  <2>4. ASSUME NEW d \in Callers \ {c} PROVE StatusOf(d)' = StatusOf(d)
    BY <1>5 DEF Call, TakeSlotOrWait, TypeOK, StatusOf
  <2>5. st' = [st EXCEPT ![c] = "submitted"]
    BY <2>3, <2>4
  <2> QED BY <2>1, <2>3, <2>5 DEF Serial!Next, Serial!Submit
<1>6. ASSUME NEW c \in Callers, RetrySlot(c) PROVE UNCHANGED Serial!vars
  <2>1. ASSUME NEW d \in Callers PROVE StatusOf(d)' = StatusOf(d)
    BY <1>6 DEF RetrySlot, TakeSlotOrWait, TypeOK, StatusOf
  <2> QED BY <1>6, <2>1 DEF RetrySlot
<1>7. ASSUME NEW c \in Callers, AwaitDone(c)
      PROVE  [Serial!Next]_(Serial!vars)
  <2>1. CASE done[c]
    <3>1. /\ pc[c] = "posted" /\ pc' = [pc EXCEPT ![c] = "idle"]
          /\ UNCHANGED <<s_running, wpc, wjob, runs>>
      BY <1>7, <2>1 DEF AwaitDone, MayReturn
    <3>2. StatusOf(c) = "ran" /\ StatusOf(c)' = "out"
      BY <2>1, <3>1 DEF StatusOf, TypeOK, WorkerInv, CallerInv
    <3>3. ASSUME NEW d \in Callers \ {c} PROVE StatusOf(d)' = StatusOf(d)
      BY <3>1 DEF StatusOf, TypeOK
    <3>4. st' = [st EXCEPT ![c] = "out"]
      BY <3>2, <3>3
    <3> QED BY <3>1, <3>2, <3>4 DEF Serial!Next, Serial!Return
  <2>2. CASE ~done[c]
    BY <1>7, <2>2 DEF AwaitDone, MayReturn, StatusOf
  <2> QED BY <2>1, <2>2
<1>8. CASE WorkerTake
  <2>1. PICK c \in Callers : c = s_pending
    BY <1>8 DEF WorkerTake, TypeOK
  <2>2. /\ wpc = "loop" /\ wjob' = c /\ wpc' = "exec"
        /\ UNCHANGED <<s_running, pc, runs>>
    BY <1>8, <2>1 DEF WorkerTake, WorkerAwake
  <2>3. StatusOf(c) = "submitted" /\ StatusOf(c)' = "running"
    BY <2>1, <2>2 DEF StatusOf, SlotInv
  <2>4. ASSUME NEW d \in Callers PROVE StatusOf(d) # "running"
    BY <2>2 DEF StatusOf
  <2>5. ASSUME NEW d \in Callers \ {c} PROVE StatusOf(d)' = StatusOf(d)
    BY <2>2 DEF StatusOf
  <2>6. st' = [st EXCEPT ![c] = "running"]
    BY <2>3, <2>5
  <2>7. Serial!Begin(c)
    BY <2>2, <2>3, <2>4, <2>6 DEF Serial!Begin
  <2> QED BY <2>7 DEF Serial!Next
<1>9. CASE FnReturns
  <2>1. /\ wjob \in Callers /\ wpc = "exec" /\ wpc' = "finish"
        /\ runs' = [runs EXCEPT ![wjob] = 1]
        /\ pc[wjob] = "posted" /\ UNCHANGED <<s_running, pc, wjob>>
    BY <1>9 DEF FnReturns, WorkerInv, TypeOK
  <2>2. StatusOf(wjob) = "running" /\ StatusOf(wjob)' = "ran"
    BY <2>1 DEF StatusOf, TypeOK
  <2>3. ASSUME NEW d \in Callers \ {wjob} PROVE StatusOf(d)' = StatusOf(d)
    BY <2>1 DEF StatusOf, TypeOK
  <2>4. st' = [st EXCEPT ![wjob] = "ran"]
    BY <2>1, <2>2, <2>3
  <2>5. Serial!End(wjob)
    BY <2>1, <2>2, <2>4 DEF Serial!End
  <2> QED BY <2>1, <2>5 DEF Serial!Next
<1> QED
  BY <1>1, <1>2, <1>3, <1>4, <1>5, <1>6, <1>7, <1>8, <1>9
     DEF Next, WorkerStep, MainStep

\* The single-slot queue implements the serial executor that tse_worker.h
\* describes: device functions never overlap and none runs after a refusal.
THEOREM Refinement == Spec => ImplementsSerial
BY InitSerial, StepSerial, SpecIInv, PTL DEF Spec, ImplementsSerial,
     Serial!Spec
=============================================================================
