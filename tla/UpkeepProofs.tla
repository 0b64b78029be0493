---------------------------- MODULE UpkeepProofs -----------------------------
(***************************************************************************)
(* What the server does to keep the TSE in use.                            *)
(*                                                                         *)
(* TimeSync, for every interval, margin and bound on failures, late polls  *)
(* and steps of the wall clock that leave room in the device's windows:    *)
(* its clock and its self-test never lapse once the thread has renewed     *)
(* them; and every day has its one self-test at the slot.                  *)
(*                                                                         *)
(* Provision, for every set of PINs and any number of starts, crashes and  *)
(* faults: no credential burnt into the device is ever lost.               *)
(***************************************************************************)
EXTENDS TimeSync, Provision, Integers, TLAPS

\* A poll is at most one gap away; at the last one the age of the sync was
\* below the threshold, but for set-back clocks and failures since.
SyncInv ==
  lastSync # 0 =>
    /\ wall + stepped + validUntil = now + MaxDelay + lastSync
    /\ polled + MaxDelay
         < validUntil + Threshold + stepped + syncFails * Gap

\* At the last poll the self-test had more than the margin left, but for
\* failures since.
TestInv ==
  TestRoom /\ renewed => polled + Margin < testUntil + testFails * Gap

IInv == TypeOK /\ now <= polled + Gap /\ SyncInv /\ TestInv

LEMMA Constants ==
  /\ Gap \in Nat \ {0} /\ Threshold \in Nat \ {0}
  /\ \A n \in Nat : n * Gap \in Nat /\ (n + 1) * Gap = n * Gap + Gap
  /\ \A m, n \in Nat : m <= n => m * Gap <= n * Gap
  /\ 0 * Gap = 0
<1>1. Gap \in Nat \ {0}
  BY TimeAssumption DEF Gap
<1>2. MaxDelay \div 2 \in Nat
  BY TimeAssumption
<1>3. Threshold \in Nat \ {0}
  BY <1>2, TimeAssumption DEF Threshold
<1> HIDE DEF Gap
<1>4. ASSUME NEW n \in Nat
      PROVE  n * Gap \in Nat /\ (n + 1) * Gap = n * Gap + Gap
  BY <1>1
<1>5. ASSUME NEW m \in Nat, NEW n \in Nat, m <= n PROVE m * Gap <= n * Gap
  BY <1>1, <1>5
<1>6. 0 * Gap = 0
  BY <1>1
<1> QED BY <1>1, <1>3, <1>4, <1>5, <1>6

LEMMA InitIInv == Init => IInv
<1> SUFFICES ASSUME Init PROVE IInv
  OBVIOUS
<1> USE TimeAssumption, Constants DEF Init
<1>1. TypeOK
  <2>1. renewed \in BOOLEAN
    OBVIOUS
  <2>2. lastDay \in Nat
    BY DEF DayOf
  <2> QED BY <2>1, <2>2 DEF TypeOK
<1>2. now <= polled + Gap /\ SyncInv
  BY DEF SyncInv
<1>3. TestInv
  BY DEF TestInv
<1> QED BY <1>1, <1>2, <1>3 DEF IInv

LEMMA TickIInv == ASSUME IInv, Tick PROVE IInv'
<1> USE TimeAssumption, Constants DEF IInv, Tick, device, ghosts
<1>1. TypeOK'
  <2>1. renewed' \in BOOLEAN
    BY Zenon DEF TypeOK
  <2> QED BY <2>1 DEF TypeOK
<1>2. now' <= polled' + Gap
  BY DEF TypeOK
<1>3. SyncInv' /\ TestInv'
  BY DEF TypeOK, SyncInv, TestInv, TestRoom, Threshold, Gap
<1> QED BY <1>1, <1>2, <1>3

LEMMA StepBackIInv == ASSUME IInv, StepBack PROVE IInv'
<1> USE TimeAssumption, Constants DEF IInv, StepBack, device
<1>1. TypeOK'
  <2>1. renewed' \in BOOLEAN
    BY Zenon DEF TypeOK
  <2> QED BY <2>1 DEF TypeOK
<1>2. now' <= polled' + Gap
  BY DEF TypeOK
<1>3. SyncInv' /\ TestInv'
  BY DEF TypeOK, SyncInv, TestInv, TestRoom, Threshold, Gap
<1> QED BY <1>1, <1>2, <1>3

LEMMA RoundIInv == ASSUME IInv, Round PROVE IInv'
<1> USE TimeAssumption, Constants
<1>1. PICK tested \in BOOLEAN, synced \in BOOLEAN :
        /\ Outcome(NeedTest, tested, testFails)
        /\ Outcome(NeedSync \/ Scheduled, synced, syncFails)
        /\ testUntil' = IF tested THEN now + TestInterval ELSE testUntil
        /\ validUntil' = IF synced THEN now + MaxDelay ELSE validUntil
        /\ lastSync' = IF synced THEN wall ELSE lastSync
        /\ testFails' = Count(NeedTest, tested, testFails)
        /\ syncFails' = Count(NeedSync \/ Scheduled, synced, syncFails)
        /\ stepped' = IF synced THEN 0 ELSE stepped
        /\ renewed' = (renewed \/ tested)
  BY DEF Round
<1>2. /\ polled' = now /\ UNCHANGED <<now, wall, began>>
      /\ lastDay' = IF Scheduled THEN DayOf(wall) ELSE lastDay
      /\ ran' = IF Scheduled THEN ran \cup {DayOf(wall)} ELSE ran
  BY DEF Round
<1>3. DayOf(wall) \in Nat \ {0}
  BY DEF IInv, TypeOK, DayOf
<1>4. /\ now \in Nat /\ wall \in Nat /\ polled \in Nat /\ lastSync \in Nat
      /\ validUntil \in Nat /\ testUntil \in Nat /\ lastDay \in Nat
      /\ syncFails \in 0..Retries /\ testFails \in 0..Retries
      /\ stepped \in 0..MaxStep /\ began \in Nat
      /\ now <= polled + Gap
  BY DEF IInv, TypeOK
<1> DEFINE needed == NeedSync \/ Scheduled
<1>5. /\ syncFails' \in 0..Retries /\ stepped' \in 0..MaxStep
      /\ lastSync' \in Nat /\ validUntil' \in Nat /\ SyncInv'
  <2>1. CASE synced
    <3>1. /\ syncFails' = 0 /\ stepped' = 0 /\ lastSync' = wall
          /\ validUntil' = now + MaxDelay
      BY <1>1, <2>1 DEF Count, Outcome
    <3> QED BY <3>1, <1>2, <1>4 DEF SyncInv
  <2>2. CASE ~synced /\ needed
    <3>1. /\ syncFails' = syncFails + 1 /\ syncFails < Retries
          /\ UNCHANGED <<stepped, lastSync, validUntil>>
      BY <1>1, <2>2 DEF Count, Outcome
    <3>2. (syncFails + 1) * Gap = syncFails * Gap + Gap
          /\ syncFails * Gap \in Nat
      BY <1>4
    <3>3. SyncInv'
      BY <3>1, <3>2, <1>2, <1>4 DEF SyncInv, IInv
    <3> QED BY <3>1, <3>3, <1>4
  <2>3. CASE ~synced /\ ~needed
    <3>1. UNCHANGED <<syncFails, stepped, lastSync, validUntil>>
      BY <1>1, <2>3 DEF Count
    <3>2. lastSync # 0 => wall >= lastSync /\ wall - lastSync < Threshold
      BY <2>3, <1>4 DEF NeedSync, Stale
    <3>3. SyncInv'
      <4>1. syncFails * Gap \in Nat
        BY <1>4
      <4> QED BY <3>1, <3>2, <4>1, <1>2, <1>4 DEF SyncInv, IInv
    <3> QED BY <3>1, <3>3, <1>4
  <2> QED BY <2>1, <2>2, <2>3
<1>6. testFails' \in 0..Retries /\ testUntil' \in Nat /\ TestInv'
  <2>1. CASE tested
    <3>1. testFails' = 0 /\ testUntil' = now + TestInterval
      BY <1>1, <2>1 DEF Count, Outcome
    <3> QED BY <3>1, <1>2, <1>4 DEF TestInv, TestRoom
  <2>2. CASE ~tested
    <3>1. testUntil' = testUntil /\ (renewed' => renewed)
      BY <1>1, <2>2
    <3>2. CASE NeedTest
      <4>1. testFails' = testFails + 1 /\ testFails < Retries
        BY <1>1, <2>2, <3>2 DEF Count, Outcome
      <4>2. (testFails + 1) * Gap = testFails * Gap + Gap
            /\ testFails * Gap \in Nat
        BY <1>4
      <4>3. TestRoom' <=> TestRoom
        BY DEF TestRoom, Gap
      <4>4. TestInv'
        BY <3>1, <4>1, <4>2, <4>3, <1>2, <1>4 DEF TestInv, IInv
      <4> QED BY <3>1, <4>1, <4>4, <1>4
    <3>3. CASE ~NeedTest
      <4>1. testFails' = testFails
        BY <1>1, <3>3 DEF Count
      <4>2. now + Margin < testUntil
        BY <3>3, <1>4 DEF NeedTest, Passed
      <4>3. testFails * Gap \in Nat
        BY <1>4
      <4>4. TestInv'
        BY <3>1, <4>1, <4>2, <4>3, <1>2, <1>4 DEF TestInv
      <4> QED BY <3>1, <4>1, <4>4, <1>4
    <3> QED BY <3>2, <3>3
  <2> QED BY <2>1, <2>2
<1>7. renewed' \in BOOLEAN
  BY <1>1
<1>8. lastDay' \in Nat /\ ran' \subseteq Nat \ {0}
  BY <1>2, <1>3, <1>4 DEF IInv, TypeOK
<1>9. TypeOK'
  <2>1. /\ now' \in Nat /\ wall' \in Nat /\ polled' \in Nat
        /\ polled' <= now' /\ began' \in Nat
    BY <1>2, <1>4
  <2> QED BY <2>1, <1>5, <1>6, <1>7, <1>8 DEF TypeOK
<1>10. now' <= polled' + Gap
  BY <1>2, <1>4
<1> QED BY <1>5, <1>6, <1>9, <1>10 DEF IInv

LEMMA Inductive == Spec => []IInv
<1>1. ASSUME IInv, [Next]_vars PROVE IInv'
  <2>1. CASE Tick
    BY <1>1, <2>1, TickIInv
  <2>2. CASE StepBack
    BY <1>1, <2>2, StepBackIInv
  <2>3. CASE Round
    BY <1>1, <2>3, RoundIInv
  <2>4. CASE UNCHANGED vars
    <3>1. TypeOK'
      BY <1>1, <2>4, Zenon DEF IInv, TypeOK, vars, device, ghosts
    <3> QED BY <1>1, <2>4, <3>1
            DEF IInv, SyncInv, TestInv, TestRoom, Gap, Threshold,
                vars, device, ghosts
  <2> QED BY <1>1, <2>1, <2>2, <2>3, <2>4 DEF Next
<1> QED BY InitIInv, <1>1, PTL DEF Spec

\* Every variable keeps its type.
THEOREM TypeCorrect == Spec => []TypeOK
<1>1. IInv => TypeOK
  BY DEF IInv
<1> QED BY <1>1, Inductive, PTL

\* "proactive refresh before window expires": at the worst poll, one gap after
\* the last of Retries failures, less than MaxDelay has passed since the sync.
THEOREM ClockNeverLapses == Spec => []ClockCovered
<1>1. ASSUME IInv, SyncRoom, lastSync # 0 PROVE Valid
  <2> USE TimeAssumption, Constants
  <2>1. /\ now \in Nat /\ polled \in Nat /\ validUntil \in Nat
        /\ syncFails \in 0..Retries /\ stepped \in 0..MaxStep
        /\ now <= polled + Gap
    BY <1>1 DEF IInv, TypeOK
  <2>2. polled + MaxDelay < validUntil + Threshold + stepped + syncFails * Gap
    BY <1>1 DEF IInv, SyncInv
  <2>3. /\ syncFails * Gap \in Nat /\ Retries * Gap \in Nat
        /\ syncFails * Gap <= Retries * Gap
    BY <2>1
  <2>4. Threshold + Retries * Gap + Gap + MaxStep <= MaxDelay
    <3>1. (Retries + 1) * Gap = Retries * Gap + Gap /\ Retries * Gap \in Nat
      OBVIOUS
    <3> QED BY <1>1, <3>1 DEF SyncRoom
  <2> HIDE DEF Gap, Threshold
  <2> QED BY <2>1, <2>2, <2>3, <2>4 DEF Valid
<1>2. IInv => ClockCovered
  BY <1>1 DEF ClockCovered
<1> QED BY <1>2, Inductive, PTL

\* "proactive renew before interval expires": the margin outlasts Retries
\* failures and one more gap.
THEOREM SelfTestNeverLapses == Spec => []SelfTestCovered
<1>1. ASSUME IInv, TestRoom, renewed PROVE Passed
  <2> USE TimeAssumption, Constants
  <2>1. /\ now \in Nat /\ polled \in Nat /\ testUntil \in Nat
        /\ testFails \in 0..Retries /\ now <= polled + Gap
    BY <1>1 DEF IInv, TypeOK
  <2>2. polled + Margin < testUntil + testFails * Gap
    BY <1>1 DEF IInv, TestInv
  <2>3. /\ testFails * Gap \in Nat /\ Retries * Gap \in Nat
        /\ testFails * Gap <= Retries * Gap
    BY <2>1
  <2>4. Retries * Gap + Gap <= Margin
    <3>1. (Retries + 1) * Gap = Retries * Gap + Gap /\ Retries * Gap \in Nat
      OBVIOUS
    <3> QED BY <1>1, <3>1 DEF TestRoom
  <2> QED BY <2>1, <2>2, <2>3, <2>4 DEF Passed
<1>2. IInv => SelfTestCovered
  BY <1>1 DEF SelfTestCovered
<1> QED BY <1>2, Inductive, PTL

(***************************************************************************)
(* The daily self-test.                                                    *)
(***************************************************************************)
\* The polls see the wall clock run forward, and one falls between the slot and
\* the end of the day.
DayRoom == MaxStep <= Poll /\ Slot + Gap <= Day

\* p is what the wall clock said at the last poll, or at the start.  The days
\* whose slot is not after p have had their self-test, if it was after the start.
SeenAt(p) ==
  /\ began <= p /\ wall <= p + (now - polled) /\ p + (now - polled) <= wall + stepped
  /\ lastDay # 0 => SlotTime(lastDay) <= p
  /\ PastSlot(p) => lastDay = DayOf(p)
  /\ \A d \in ran : SlotTime(d) <= p
  /\ \A d \in Nat \ {0} : SlotTime(d) <= p => (d \in ran <=> SlotTime(d) > began)

DayInv == \E p \in Nat : SeenAt(p)

LEMMA Multiples ==
  /\ \A m \in Int : m * Day \in Int
  /\ \A m, n \in Int : m < n => m * Day + Day <= n * Day
<1>1. \A m \in Int : m * Day \in Int
  BY TimeAssumption
<1>2. ASSUME NEW m \in Int, NEW n \in Int, m < n PROVE m * Day + Day <= n * Day
  <2>1. (n - m - 1) * Day >= 0
    BY <1>2, TimeAssumption
  <2>2. (n - m - 1) * Day = n * Day - m * Day - Day
    BY TimeAssumption
  <2> QED BY <2>1, <2>2, <1>1, TimeAssumption
<1> QED BY <1>1, <1>2

LEMMA Days ==
  ASSUME NEW w \in Nat
  PROVE  /\ DayOf(w) \in Nat \ {0}
         /\ (DayOf(w) - 1) * Day <= w /\ w < (DayOf(w) - 1) * Day + Day
         /\ PastSlot(w) <=> SlotTime(DayOf(w)) <= w
<1>1. /\ w \div Day \in Nat /\ w % Day \in 0..(Day - 1)
      /\ w = Day * (w \div Day) + (w % Day)
  BY TimeAssumption
<1>2. Day * (w \div Day) = (w \div Day) * Day /\ (w \div Day) * Day \in Int
  BY <1>1, TimeAssumption
<1>3. DayOf(w) \in Nat \ {0} /\ DayOf(w) - 1 = w \div Day
  BY <1>1 DEF DayOf
<1>4. w = (DayOf(w) - 1) * Day + (w % Day) /\ (DayOf(w) - 1) * Day \in Int
  BY <1>1, <1>2, <1>3
<1>5. PastSlot(w) <=> SlotTime(DayOf(w)) <= w
  BY <1>1, <1>4, TimeAssumption DEF PastSlot, SlotTime
<1> QED BY <1>1, <1>3, <1>4, <1>5, TimeAssumption

LEMMA DayIs ==
  ASSUME NEW w \in Nat, NEW d \in Nat \ {0},
         (d - 1) * Day <= w, w < (d - 1) * Day + Day
  PROVE  d = DayOf(w)
<1> DEFINE e == DayOf(w)
<1>1. /\ e \in Nat \ {0} /\ (e - 1) * Day <= w /\ w < (e - 1) * Day + Day
  BY Days
<1> HIDE DEF e
<1>2. (d - 1) * Day \in Int /\ (e - 1) * Day \in Int
  BY <1>1, Multiples
<1>3. ~(d < e)
  <2> SUFFICES ASSUME d < e PROVE FALSE
    OBVIOUS
  <2>1. (d - 1) * Day + Day <= (e - 1) * Day
    BY <1>1, Multiples
  <2> QED BY <2>1, <1>1, <1>2, TimeAssumption
<1>4. ~(e < d)
  <2> SUFFICES ASSUME e < d PROVE FALSE
    OBVIOUS
  <2>1. (e - 1) * Day + Day <= (d - 1) * Day
    BY <1>1, Multiples
  <2> QED BY <2>1, <1>1, <1>2, TimeAssumption
<1>5. d = e
  BY <1>1, <1>3, <1>4
<1> QED BY <1>5 DEF e

\* A slot that lies between two polls is that of the later one's day.
LEMMA SlotBetween ==
  ASSUME NEW p \in Nat, NEW w \in Nat, NEW d \in Nat \ {0}, DayRoom,
         w <= p + Gap, p < SlotTime(d), SlotTime(d) <= w
  PROVE  d = DayOf(w) /\ PastSlot(w)
<1>1. (d - 1) * Day \in Int
  BY Multiples
<1>2. (d - 1) * Day <= w /\ w < (d - 1) * Day + Day
  BY <1>1, Constants, TimeAssumption DEF SlotTime, DayRoom
<1>3. d = DayOf(w)
  BY <1>2, DayIs
<1> QED BY <1>3, Days

LEMMA InitDay == ASSUME Init PROVE DayInv
<1> USE DEF Init
<1>1. wall \in Nat
  BY TimeAssumption
<1>2. /\ began <= wall /\ wall <= wall + (now - polled)
      /\ wall + (now - polled) <= wall + stepped
  BY <1>1
<1>3. lastDay # 0 => SlotTime(lastDay) <= wall
  BY <1>1, Days
<1>4. \A d \in Nat \ {0} : SlotTime(d) <= wall =>
        (d \in ran <=> SlotTime(d) > began)
  <2> SUFFICES ASSUME NEW d \in Nat \ {0}, SlotTime(d) <= wall
               PROVE  ~(SlotTime(d) > wall)
    OBVIOUS
  <2>1. SlotTime(d) \in Int
    BY Multiples, TimeAssumption DEF SlotTime
  <2> QED BY <1>1, <2>1
<1>5. SeenAt(wall)
  BY <1>2, <1>3, <1>4 DEF SeenAt
<1> QED BY <1>1, <1>5 DEF DayInv

\* Time passes, or the clock goes back: the last poll saw what it saw.
LEMMA PassDay == ASSUME IInv, DayInv, Tick \/ StepBack PROVE DayInv'
<1>1. PICK p \in Nat : SeenAt(p)
  BY DEF DayInv
<1>2. /\ now \in Nat /\ wall \in Nat /\ polled \in Nat /\ stepped \in Nat
      /\ began \in Nat
  BY TimeAssumption DEF IInv, TypeOK
<1>3. UNCHANGED <<polled, lastDay, ran, began>>
  BY DEF Tick, StepBack, ghosts
<1>4. \/ now' = now + 1 /\ wall' = wall + 1 /\ stepped' = stepped
      \/ now' = now /\ wall' = wall - 1 /\ stepped' = stepped + 1
  BY DEF Tick, StepBack, ghosts
<1>5. /\ wall' <= p + (now' - polled')
      /\ p + (now' - polled') <= wall' + stepped'
  <2>1. wall <= p + (now - polled) /\ p + (now - polled) <= wall + stepped
    BY <1>1 DEF SeenAt
  <2> QED BY <2>1, <1>2, <1>3, <1>4
<1>6. SeenAt(p)'
  BY <1>1, <1>3, <1>5 DEF SeenAt
<1> QED BY <1>6 DEF DayInv

\* The poll sees what the wall clock says now: a slot it had not seen is
\* today's, and one it had seen is not run again.
LEMMA RoundDay == ASSUME IInv, DayInv, DayRoom, Round PROVE DayInv'
<1>1. PICK p \in Nat : SeenAt(p)
  BY DEF DayInv
<1>2. /\ now \in Nat /\ wall \in Nat /\ polled \in Nat /\ stepped \in 0..MaxStep
      /\ began \in Nat /\ ran \subseteq Nat \ {0} /\ lastDay \in Nat
      /\ now <= polled + Gap
  BY DEF IInv, TypeOK
<1>3. /\ now - polled >= Poll /\ polled' = now /\ UNCHANGED <<now, wall, began>>
      /\ lastDay' = IF Scheduled THEN DayOf(wall) ELSE lastDay
      /\ ran' = IF Scheduled THEN ran \cup {DayOf(wall)} ELSE ran
      /\ stepped' = 0 \/ stepped' = stepped
  BY DEF Round
<1>4. /\ began <= p /\ p <= wall /\ wall <= p + Gap
  <2>1. /\ began <= p /\ wall <= p + (now - polled)
        /\ p + (now - polled) <= wall + stepped
    BY <1>1 DEF SeenAt
  <2> QED BY <2>1, <1>2, <1>3, Constants, TimeAssumption DEF DayRoom
<1>5. \A d \in Nat \ {0} : SlotTime(d) \in Int
  BY Multiples, TimeAssumption DEF SlotTime
<1> DEFINE today == DayOf(wall)
<1>6. /\ today \in Nat \ {0} /\ (today - 1) * Day \in Int
      /\ wall < (today - 1) * Day + Day /\ (today - 1) * Day <= SlotTime(today)
      /\ PastSlot(wall) <=> SlotTime(today) <= wall
  <2>1. (today - 1) * Day \in Int
    BY <1>2, Days, Multiples
  <2>2. (today - 1) * Day <= SlotTime(today)
    BY <2>1, TimeAssumption DEF SlotTime
  <2> QED BY <2>1, <2>2, <1>2, Days
<1>7. Scheduled <=> PastSlot(wall) /\ lastDay # today
  BY DEF Scheduled
<1>8. Scheduled => p < SlotTime(today)
  <2> SUFFICES ASSUME Scheduled, SlotTime(today) <= p PROVE FALSE
    BY <1>5, <1>6
  <2>1. (today - 1) * Day <= p /\ p < (today - 1) * Day + Day
    <3> HIDE DEF today
    <3>1. SlotTime(today) \in Int /\ SlotTime(today) <= p
      BY <1>5, <1>6
    <3>2. /\ (today - 1) * Day \in Int /\ (today - 1) * Day <= SlotTime(today)
          /\ wall < (today - 1) * Day + Day
      BY <1>6
    <3> QED BY <1>2, <1>4, <3>1, <3>2, TimeAssumption
  <2>2. today = DayOf(p)
    BY <1>6, <2>1, DayIs
  <2>3. PastSlot(p)
    BY <2>2, Days
  <2> QED BY <1>1, <1>7, <2>2, <2>3 DEF SeenAt
<1> HIDE DEF today
<1>9. /\ lastDay' # 0 => SlotTime(lastDay') <= wall
      /\ PastSlot(wall) => lastDay' = today
  <2>1. lastDay # 0 => SlotTime(lastDay) <= p
    BY <1>1 DEF SeenAt
  <2>2. lastDay # 0 => SlotTime(lastDay) <= wall
    BY <2>1, <1>2, <1>4, <1>5
  <2> QED BY <2>2, <1>3, <1>6, <1>7 DEF today
<1>10. \A d \in ran' : SlotTime(d) <= wall
  <2> SUFFICES ASSUME NEW d \in ran' PROVE SlotTime(d) <= wall
    OBVIOUS
  <2>1. CASE d \in ran
    <3>1. SlotTime(d) <= p
      BY <1>1, <2>1 DEF SeenAt
    <3> QED BY <2>1, <3>1, <1>2, <1>4, <1>5
  <2>2. CASE d \notin ran
    <3>1. Scheduled /\ d = today
      BY <2>2, <1>3 DEF today
    <3> QED BY <3>1, <1>6, <1>7
  <2> QED BY <2>1, <2>2
<1>11. ASSUME NEW d \in Nat \ {0}, SlotTime(d) <= wall
       PROVE  d \in ran' <=> SlotTime(d) > began
  <2>1. CASE SlotTime(d) <= p
    <3>1. d \in ran <=> SlotTime(d) > began
      BY <1>1, <2>1 DEF SeenAt
    <3>2. Scheduled => d # today
      BY <1>5, <1>6, <1>8, <2>1
    <3> QED BY <3>1, <3>2, <1>3 DEF today
  <2>2. CASE p < SlotTime(d)
    <3>1. d = today /\ PastSlot(wall)
      BY <1>2, <1>4, <1>11, <2>2, SlotBetween DEF today
    <3>2. lastDay # today
      <4>1. lastDay # 0 => SlotTime(lastDay) <= p
        BY <1>1 DEF SeenAt
      <4> QED BY <4>1, <3>1, <2>2, <1>5, <1>6
    <3>3. d \in ran'
      BY <3>1, <3>2, <1>3, <1>7 DEF today
    <3>4. SlotTime(d) > began
      BY <2>2, <1>2, <1>4, <1>5
    <3> QED BY <3>3, <3>4
  <2> QED BY <2>1, <2>2, <1>5
<1>12. /\ began <= wall /\ wall <= wall + (now - now)
       /\ wall + (now - now) <= wall + stepped'
  BY <1>2, <1>3, <1>4, TimeAssumption
<1>13. SeenAt(wall)'
  <2> SUFFICES
        /\ began' <= wall' /\ wall' <= wall' + (now' - polled')
        /\ wall' + (now' - polled') <= wall' + stepped'
        /\ lastDay' # 0 => SlotTime(lastDay') <= wall'
        /\ PastSlot(wall') => lastDay' = DayOf(wall')
        /\ \A d \in ran' : SlotTime(d) <= wall'
        /\ \A d \in Nat \ {0} : SlotTime(d) <= wall' =>
             (d \in ran' <=> SlotTime(d) > began')
    BY DEF SeenAt, SlotTime, PastSlot, DayOf
  <2> QED BY <1>3, <1>9, <1>10, <1>11, <1>12, Zenon DEF today
<1> QED BY <1>2, <1>3, <1>13 DEF DayInv

\* "last_scheduled_self_test_day": once a day, and only for a slot that came
\* after the start, however late the polls and however the wall clock steps.
THEOREM DailyTests == ASSUME DayRoom PROVE Spec => []DailySelfTest
<1>1. ASSUME IInv, DayInv, [Next]_vars PROVE DayInv'
  <2>1. CASE Tick \/ StepBack
    BY <1>1, <2>1, PassDay
  <2>2. CASE Round
    BY <1>1, <2>2, RoundDay
  <2>3. CASE UNCHANGED vars
    BY <1>1, <2>3
       DEF DayInv, SeenAt, SlotTime, PastSlot, DayOf, vars, device, ghosts
  <2> QED BY <1>1, <2>1, <2>2, <2>3 DEF Next
<1>2. ASSUME IInv, DayInv PROVE DailySelfTest
  <2> SUFFICES ASSUME NEW d \in 1..DayOf(wall), SlotTime(d) + Gap < wall
               PROVE  d \in ran <=> SlotTime(d) > began
    BY DEF DailySelfTest
  <2>1. PICK p \in Nat : SeenAt(p)
    BY <1>2 DEF DayInv
  <2>2. wall \in Nat /\ now \in Nat /\ polled \in Nat /\ now <= polled + Gap
    BY <1>2 DEF IInv, TypeOK
  <2>3. d \in Nat \ {0} /\ SlotTime(d) \in Int
    BY <2>2, Days, Multiples, TimeAssumption DEF SlotTime
  <2>4. wall <= p + (now - polled)
    BY <2>1 DEF SeenAt
  <2>5. SlotTime(d) <= p
    BY <2>2, <2>3, <2>4, Constants
  <2> QED BY <2>1, <2>3, <2>5 DEF SeenAt
<1> QED BY InitDay, Inductive, <1>1, <1>2, PTL DEF Spec

(***************************************************************************)
(* Provisioning.                                                           *)
(***************************************************************************)
\* A credential is on record if it is stored or the operator has given it.
OnRecord(k, v) == v = settings[k] \/ <<k, v>> \in given

\* The credentials chosen so far, before a setup that may burn them.
Decided == IF pc = "setup" THEN Keys
           ELSE IF pc = "load" THEN {Credentials[i] : i \in 1..next - 1}
           ELSE {}

CredInv ==
  /\ ProvisionTypeOK
  /\ pc \in {"info", "load", "setup"} =>
       \A k \in Keys : config[k] # NONE => <<k, config[k]>> \in given
  /\ pc \in {"load", "setup"} => tse = "blank"
  /\ tse = "blank" => attempts < 3
  /\ pc = "info" => next = 1
  /\ pc = "setup" => next = 4
  /\ ~lost => \A k \in Decided : OnRecord(k, chosen[k])
  /\ ~lost /\ tse = "ready" => \A k \in Keys : OnRecord(k, burnt[k])

LEMMA KeyOrder == /\ \A i \in 1..3 : Credentials[i] \in Keys
               /\ Keys = {Credentials[i] : i \in 1..3}
<1>1. /\ Credentials[1] = "worm_admin_pin"
      /\ Credentials[2] = "worm_admin_puk"
      /\ Credentials[3] = "worm_time_admin_pin"
  BY DEF Credentials
<1>2. \A i \in 1..3 : i = 1 \/ i = 2 \/ i = 3
  OBVIOUS
<1> QED BY <1>1, <1>2 DEF Keys

LEMMA InitCred == ProvisionInit => CredInv
<1> SUFFICES ASSUME ProvisionInit PROVE CredInv
  OBVIOUS
<1>1. ProvisionTypeOK
  <2>1. Nothing \in [Keys -> Maybe]
    BY DEF Nothing, Maybe
  <2>2. seedRight \in BOOLEAN /\ lost \in BOOLEAN
    BY DEF ProvisionInit
  <2> QED BY <2>1, <2>2 DEF ProvisionInit, ProvisionTypeOK
<1>2. Decided = {}
  BY DEF ProvisionInit, Decided
<1> QED BY <1>1, <1>2 DEF ProvisionInit, CredInv

LEMMA BootCred == ASSUME CredInv, NEW e \in [Keys -> Maybe], Boot(e) PROVE CredInv'
<1>1. ProvisionTypeOK'
  <2>1. given' \subseteq Keys \X Values
    BY DEF CredInv, ProvisionTypeOK, Boot, Maybe
  <2>2. /\ env' \in [Keys -> Maybe] /\ config' \in [Keys -> Maybe]
        /\ chosen' \in [Keys -> Maybe] /\ seedRight' \in BOOLEAN
    BY DEF Boot, Nothing, Maybe
  <2>3. lost' \in BOOLEAN
    BY Zenon DEF CredInv, ProvisionTypeOK, Boot
  <2> QED BY <2>1, <2>2, <2>3 DEF CredInv, ProvisionTypeOK, Boot, tseVars
<1>2. \A k \in Keys : config'[k] # NONE => <<k, config'[k]>> \in given'
  BY DEF Boot
<1>3. Decided' = {}
  BY DEF Boot, Decided
<1>4. ~lost' /\ tse' = "ready" => \A k \in Keys : OnRecord(k, burnt[k])'
  BY Zenon DEF CredInv, Boot, OnRecord, tseVars
<1> QED BY <1>1, <1>2, <1>3, <1>4 DEF CredInv, Boot, tseVars

LEMMA StopCred == ASSUME CredInv, Stop PROVE CredInv'
<1>1. ProvisionTypeOK'
  <2>1. lost' \in BOOLEAN /\ seedRight' \in BOOLEAN
    BY Zenon DEF CredInv, ProvisionTypeOK, Stop, start
  <2> QED BY <2>1 DEF CredInv, ProvisionTypeOK, Stop, tseVars, start
<1>2. Decided' = {}
  BY DEF Stop, Decided
<1>3. ~lost' /\ tse' = "ready" => \A k \in Keys : OnRecord(k, burnt[k])'
  BY Zenon DEF CredInv, Stop, OnRecord, tseVars, start
<1> QED BY <1>1, <1>2, <1>3 DEF CredInv, Stop, tseVars

LEMMA InfoCred == ASSUME CredInv, Info PROVE CredInv'
<1>1. ProvisionTypeOK'
  <2>1. lost' \in BOOLEAN /\ seedRight' \in BOOLEAN
    BY Zenon DEF CredInv, ProvisionTypeOK, Info, start
  <2>2. fails' \in Nat
    BY DEF CredInv, ProvisionTypeOK, Info, Fails
  <2>3. pc' \in {"load", "up"} /\ (pc' = "load" => tse = "blank")
    BY DEF Info, MustProvision
  <2>4. pc' = "load" => next' <= 3
    BY DEF CredInv, Info
  <2> QED BY <2>1, <2>2, <2>3, <2>4 DEF CredInv, ProvisionTypeOK, Info, tseVars, start
<1>2. Decided' = {}
  BY DEF CredInv, Info, Decided
<1>3. ~lost' /\ tse' = "ready" => \A k \in Keys : OnRecord(k, burnt[k])'
  BY Zenon DEF CredInv, Info, OnRecord, tseVars, start
<1>4. /\ pc' = "load" => tse' = "blank"
      /\ pc' \in {"load", "up"} /\ (tse' = "blank" => attempts' < 3)
  BY DEF CredInv, Info, MustProvision, tseVars
<1>5. \A k \in Keys : config'[k] # NONE => <<k, config'[k]>> \in given'
  BY DEF CredInv, Info, start
<1> QED BY <1>1, <1>2, <1>3, <1>4, <1>5 DEF CredInv

\* One credential more is decided, and it is on record unless its write
\* failed; the others stay on record.
LEMMA LoadCred == ASSUME CredInv, Load PROVE CredInv'
<1> DEFINE key == Credentials[next]
<1>1. next \in 1..3 /\ key \in Keys
  BY KeyOrder DEF CredInv, ProvisionTypeOK, Load
<1>2. PICK v \in Values :
        /\ chosen' = [chosen EXCEPT ![key] = v]
        /\ \/ /\ config[key] = v /\ UNCHANGED <<settings, lost, fails>>
           \/ /\ config[key] = NONE /\ Stored(key, FALSE) = v
              /\ UNCHANGED <<settings, lost, fails>>
           \/ /\ config[key] = NONE
              /\ \E r, f \in BOOLEAN :
                   /\ ~(r /\ f) /\ Fails(r \/ f)
                   /\ Stored(key, r) = NONE /\ Generate(key, v, f)
  BY DEF Load
<1>3. /\ UNCHANGED <<start, config, tseVars>>
      /\ next' = next + 1 /\ pc' = IF next = 3 THEN "setup" ELSE "load"
  BY DEF Load, LastLoaded
<1>4. chosen'[key] = v /\ \A k \in Keys \ {key} : chosen'[k] = chosen[k]
  BY <1>1, <1>2 DEF CredInv, ProvisionTypeOK
<1>5. \/ settings' = settings
      \/ /\ settings' = [settings EXCEPT ![key] = v]
         /\ config[key] = NONE
  BY <1>2 DEF Generate
<1>6. ~lost' => ~lost
  BY <1>2 DEF Generate
<1>7. ASSUME ~lost' PROVE v = settings'[key] \/ <<key, v>> \in given'
  <2>1. CASE config[key] = v
    <3>1. v # NONE
      BY ProvisionAssumption
    <3> QED BY <2>1, <3>1, <1>1, <1>3 DEF CredInv, Load, start
  <2>2. CASE Stored(key, FALSE) = v /\ UNCHANGED settings
    BY <2>2 DEF Stored
  <2>3. CASE \E f \in BOOLEAN : Generate(key, v, f)
    <3>1. settings' = [settings EXCEPT ![key] = v]
      BY <2>3, <1>7 DEF Generate
    <3> QED BY <3>1, <1>1 DEF CredInv, ProvisionTypeOK
  <2> QED BY <1>2, <2>1, <2>2, <2>3
<1>8. \A k \in Keys \ {key} : settings'[k] = settings[k]
  BY <1>1, <1>5 DEF CredInv, ProvisionTypeOK
<1>9. Decided' \subseteq Decided \cup {key}
  <2>1. Decided = {Credentials[i] : i \in 1..next - 1}
    BY DEF Decided, Load
  <2>2. Decided' \subseteq {Credentials[i] : i \in 1..next}
    <3>1. CASE next = 3
      BY <3>1, <1>3, KeyOrder DEF Decided
    <3>2. CASE next # 3
      BY <3>2, <1>1, <1>3 DEF Decided
    <3> QED BY <3>1, <3>2
  <2>3. \A i \in 1..next : i \in 1..next - 1 \/ i = next
    BY <1>1
  <2> QED BY <2>1, <2>2, <2>3
<1>10. Decided \subseteq Keys
  BY KeyOrder, <1>1 DEF Decided, Load
<1>11. ~lost' => \A k \in Decided' : OnRecord(k, chosen[k])'
  <2> SUFFICES ASSUME ~lost', NEW k \in Decided'
               PROVE  chosen'[k] = settings'[k] \/ <<k, chosen'[k]>> \in given'
    BY DEF OnRecord
  <2>1. CASE k = key
    BY <2>1, <1>4, <1>7
  <2>2. CASE k # key
    <3>1. k \in Decided /\ k \in Keys
      BY <2>2, <1>9, <1>10
    <3>2. OnRecord(k, chosen[k])
      BY <3>1, <1>6 DEF CredInv
    <3> QED BY <2>2, <3>1, <3>2, <1>3, <1>4, <1>8 DEF OnRecord, start
  <2> QED BY <2>1, <2>2
<1>12. ProvisionTypeOK'
  <2>1. lost' \in BOOLEAN
    BY <1>2 DEF CredInv, ProvisionTypeOK, Generate
  <2>2. seedRight' \in BOOLEAN
    BY <1>3, Zenon DEF CredInv, ProvisionTypeOK, start
  <2>3. settings' \in [Keys -> Maybe] /\ chosen' \in [Keys -> Maybe]
    BY <1>1, <1>2, <1>5 DEF CredInv, ProvisionTypeOK, Maybe
  <2>4. fails' \in Nat
    <3>1. fails' = fails \/ fails' = fails + 1
      BY <1>2, Zenon DEF Fails
    <3> QED BY <3>1 DEF CredInv, ProvisionTypeOK
  <2>5. /\ next' \in 1..4 /\ pc' \in {"load", "setup"}
        /\ (pc' = "load" => next' <= 3)
    BY <1>1, <1>3
  <2> QED BY <1>3, <2>1, <2>2, <2>3, <2>4, <2>5
          DEF CredInv, ProvisionTypeOK, tseVars, start
<1>13. /\ tse' = "blank" /\ attempts' < 3
       /\ (pc' = "setup" => next' = 4)
  BY <1>1, <1>3 DEF CredInv, Load, tseVars
<1>14. pc' # "info" /\ config' = config /\ given' = given
  BY <1>3 DEF start
<1>15. \A k \in Keys : config'[k] # NONE => <<k, config'[k]>> \in given'
  BY <1>14 DEF CredInv, Load
<1> QED BY <1>11, <1>12, <1>13, <1>14, <1>15 DEF CredInv

LEMMA SetupCred == ASSUME CredInv, Setup PROVE CredInv'
<1>1. /\ pc = "setup" /\ pc' = "up"
      /\ UNCHANGED <<start, settings, next, chosen, lost>>
  BY DEF Setup
<1>2. \/ SetupFails
      \/ SetupWorks
      \/ UNCHANGED tseVars
  BY DEF Setup
<1>3. config' \in [Keys -> Maybe] /\ fails' \in Nat
  BY DEF CredInv, ProvisionTypeOK, Setup, Fails
<1>4. /\ tse' \in {"blank", "ready", "locked"} /\ burnt' \in [Keys -> Maybe]
      /\ attempts' \in 0..3 /\ (tse' = "blank" => attempts' < 3)
  BY <1>1, <1>2 DEF CredInv, ProvisionTypeOK, SetupFails, SetupWorks, tseVars
<1>5. tse' = "ready" => burnt' = chosen
  BY <1>1, <1>2 DEF CredInv, SetupFails, SetupWorks, tseVars
<1>6. Decided = Keys /\ Decided' = {}
  BY <1>1 DEF Decided
<1>7. ProvisionTypeOK'
  <2>1. lost' \in BOOLEAN /\ seedRight' \in BOOLEAN
    BY <1>1, Zenon DEF CredInv, ProvisionTypeOK, start
  <2> QED BY <1>1, <1>3, <1>4, <2>1 DEF CredInv, ProvisionTypeOK, start
<1>8. ~lost' /\ tse' = "ready" => \A k \in Keys : OnRecord(k, burnt[k])'
  BY <1>1, <1>5, <1>6 DEF CredInv, OnRecord, start
<1> QED BY <1>1, <1>4, <1>6, <1>7, <1>8 DEF CredInv

LEMMA CredInductive == ProvisionSpec => []CredInv
<1>1. ASSUME CredInv, [ProvisionNext]_provisionVars PROVE CredInv'
  <2>1. ASSUME NEW e \in [Keys -> Maybe], Boot(e) PROVE CredInv'
    BY <1>1, <2>1, BootCred
  <2>2. CASE Stop
    BY <1>1, <2>2, StopCred
  <2>3. CASE Info
    BY <1>1, <2>3, InfoCred
  <2>4. CASE Load
    BY <1>1, <2>4, LoadCred
  <2>5. CASE Setup
    BY <1>1, <2>5, SetupCred
  <2>6. CASE UNCHANGED provisionVars
    <3>1. ProvisionTypeOK' /\ Decided' = Decided
      BY <1>1, <2>6, Zenon DEF CredInv, ProvisionTypeOK, Decided, provisionVars, tseVars, start
    <3>2. ~lost' => \A k \in Decided' : OnRecord(k, chosen[k])'
      BY <1>1, <2>6, <3>1, Zenon DEF CredInv, OnRecord, provisionVars, tseVars, start
    <3>3. ~lost' /\ tse' = "ready" => \A k \in Keys : OnRecord(k, burnt[k])'
      BY <1>1, <2>6, Zenon DEF CredInv, OnRecord, provisionVars, tseVars, start
    <3>4. UNCHANGED <<pc, next, config, given, tse, attempts>>
      BY <2>6 DEF provisionVars, tseVars, start
    <3> QED BY <1>1, <3>1, <3>2, <3>3, <3>4 DEF CredInv
  <2> QED BY <1>1, <2>1, <2>2, <2>3, <2>4, <2>5, <2>6 DEF ProvisionNext
<1> QED BY InitCred, <1>1, PTL DEF ProvisionSpec

\* Every variable keeps its type.
THEOREM CredentialTypes == ProvisionSpec => []ProvisionTypeOK
<1>1. CredInv => ProvisionTypeOK
  BY DEF CredInv
<1> QED BY <1>1, CredInductive, PTL

\* "persist to the local DB": load_or_generate_credential stores before the
\* setup burns, so no credential of the device is ever lost.
THEOREM NothingLost == ProvisionSpec => []Recoverable
<1>1. CredInv => Recoverable
  BY DEF CredInv, Recoverable, OnRecord
<1> QED BY <1>1, CredInductive, PTL

\* Nothing overwrites the credentials of a device that has some, and the
\* settings that record them stay as they are.
THEOREM NothingChanges == ProvisionSpec => Permanent
<1>1. ASSUME CredInv, [ProvisionNext]_provisionVars, tse = "ready"
      PROVE  UNCHANGED <<tse, burnt, settings>>
  BY <1>1 DEF CredInv, ProvisionNext, Boot, Stop, Info, Load, Setup, provisionVars, tseVars
<1> QED BY <1>1, CredInductive, PTL DEF ProvisionSpec, Permanent
=============================================================================
