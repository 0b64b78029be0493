------------------------------- MODULE TimeSync -------------------------------
(***************************************************************************)
(* When the background thread renews the TSE's clock and self-test         *)
(* (time_sync_thread_main): every few minutes it looks, renews what is     *)
(* invalid or about to become so, and runs a self-test at a fixed time of  *)
(* day.  Here a poll is one step and time passes between the steps; what a *)
(* renewal consists of, call by call, is the subject of TseSession.        *)
(***************************************************************************)
EXTENDS Naturals

CONSTANTS
  Poll,         \* check_interval_sec
  Slack,        \* how much later a poll may come: requests hold g_worm_mu
  MaxDelay,     \* the device's maxTimeSynchronizationDelay
  MinThreshold, \* the threshold is not below this (10 s)
  TestInterval, \* a self-test lasts that long (25 h)
  Margin,       \* self_test_renew_margin_sec
  Day, Slot,    \* length of a day, and CLOUDTSE_SELF_TEST_AT
  Retries,      \* bound on consecutive failures of a renewal
  MaxStep,      \* bound on how far the wall clock is set back between syncs
  Horizon       \* bound on time

ASSUME TimeAssumption ==
  /\ Poll \in Nat \ {0} /\ Slack \in Nat
  /\ MaxDelay \in Nat \ {0} /\ MinThreshold \in Nat \ {0}
  /\ TestInterval \in Nat
  /\ Margin \in Nat /\ Day \in Nat \ {0} /\ Slot \in 0..Day - 1
  /\ Retries \in Nat /\ MaxStep \in Nat /\ Horizon \in Nat

VARIABLES
  now, wall,              \* time, and what time(NULL) says
  polled,                 \* when the last poll was
  lastSync,               \* g_last_time_sync, by the wall clock; 0 is never
  validUntil, testUntil,  \* the device: its clock and its self-test last
  lastDay,                \* last_scheduled_self_test_day
  syncFails, testFails,   \* ghosts: renewals that failed in a row,
  stepped,                \* how far the wall clock went back since a sync,
  renewed,                \* whether this thread has renewed the self-test,
  began, ran              \* wall time it began at, days it tested as planned

device == <<validUntil, testUntil>>
ghosts == <<syncFails, testFails, stepped, renewed, began, ran>>
vars   == <<now, wall, polled, lastSync, device, lastDay, ghosts>>

Gap == Poll + Slack

DayOf(w)     == w \div Day + 1

\* Defect: the slot is one instant, which a poll can miss.
PastSlot_Exact(w) == w % Day = Slot

PastSlot(w)  == w % Day >= Slot
SlotTime(d)  == (d - 1) * Day + Slot

TypeOK ==
  /\ now \in Nat /\ wall \in Nat /\ polled \in Nat /\ polled <= now
  /\ lastSync \in Nat /\ validUntil \in Nat /\ testUntil \in Nat
  /\ lastDay \in Nat /\ syncFails \in 0..Retries /\ testFails \in 0..Retries
  /\ stepped \in 0..MaxStep /\ renewed \in BOOLEAN
  /\ began \in Nat /\ ran \subseteq Nat \ {0}

\* tse_worm_init either finds the clock valid or has just synchronised it.  A
\* thread that starts behind today's slot marks today done.
Init ==
  /\ now = 0 /\ polled = 0
  /\ wall \in MaxStep + 1 .. MaxStep + Day
  /\ \/ lastSync = 0 /\ validUntil \in 1..MaxDelay
     \/ lastSync = wall /\ validUntil = MaxDelay
  /\ testUntil \in 0..TestInterval
  /\ lastDay = IF PastSlot(wall) THEN DayOf(wall) ELSE 0
  /\ syncFails = 0 /\ testFails = 0 /\ stepped = 0 /\ renewed = FALSE
  /\ began = wall /\ ran = {}

Tick ==
  /\ now - polled < Gap /\ now < Horizon
  /\ now' = now + 1 /\ wall' = wall + 1
  /\ UNCHANGED <<polled, lastSync, device, lastDay, ghosts>>

\* The administrator or NTP sets the host's clock back.
StepBack ==
  /\ stepped < MaxStep /\ wall > 1
  /\ wall' = wall - 1 /\ stepped' = stepped + 1
  /\ UNCHANGED <<now, polled, lastSync, device, lastDay, syncFails, testFails,
                 renewed, began, ran>>

(***************************************************************************)
(* One round of the thread.                                                *)
(***************************************************************************)
Valid  == now < validUntil
Passed == now < testUntil

Scheduled == PastSlot(wall) /\ lastDay # DayOf(wall)

\* Defect: no renewal before the self-test has lapsed.
NeedTest_Late == ~Passed \/ Scheduled

NeedTest == ~Passed \/ Scheduled \/ testUntil - now <= Margin

Threshold == IF MaxDelay \div 2 < MinThreshold THEN MinThreshold
             ELSE MaxDelay \div 2

\* Defect: the clock is renewed when its window has passed.
Stale_Whole == wall < lastSync \/ wall - lastSync >= MaxDelay

\* now - g_last_time_sync is cast to unsigned, so a clock set back past the
\* last sync makes it huge.
Stale == wall < lastSync \/ wall - lastSync >= Threshold

NeedSync == ~Valid \/ lastSync = 0 \/ Stale

\* A renewal that is needed succeeds or fails.
Outcome(needed, ok, fails) ==
  /\ ok => needed
  /\ needed /\ ~ok => fails < Retries

Count(needed, ok, fails) == IF needed /\ ~ok THEN fails + 1
                            ELSE IF needed THEN 0 ELSE fails

\* perform_time_sync cannot succeed without a self-test, and runs one first
\* if there is none.
Round ==
  /\ now - polled >= Poll /\ polled' = now
  /\ \E tested, synced \in BOOLEAN :
       /\ Outcome(NeedTest, tested, testFails)
       /\ Outcome(NeedSync \/ Scheduled, synced, syncFails)
       /\ synced => tested \/ Passed
       /\ testUntil' = IF tested THEN now + TestInterval ELSE testUntil
       /\ validUntil' = IF synced THEN now + MaxDelay ELSE validUntil
       /\ lastSync' = IF synced THEN wall ELSE lastSync
       /\ testFails' = Count(NeedTest, tested, testFails)
       /\ syncFails' = Count(NeedSync \/ Scheduled, synced, syncFails)
       /\ stepped' = IF synced THEN 0 ELSE stepped
       /\ renewed' = (renewed \/ tested)
  /\ lastDay' = IF Scheduled THEN DayOf(wall) ELSE lastDay
  /\ ran' = IF Scheduled THEN ran \cup {DayOf(wall)} ELSE ran
  /\ UNCHANGED <<now, wall, began>>

Next == Tick \/ StepBack \/ Round

Spec == Init /\ [][Next]_vars

(***************************************************************************)
(* Properties.                                                             *)
(***************************************************************************)
\* The windows leave room for a late poll after each failure.
SyncRoom == Threshold + (Retries + 1) * Gap + MaxStep <= MaxDelay
TestRoom == (Retries + 1) * Gap <= Margin /\ Margin < TestInterval

\* "proactive refresh before window expires" (line 1121): once this process
\* has set the device's clock, it never lapses, although polls come late,
\* syncs fail and the wall clock is set back.
ClockCovered == SyncRoom /\ lastSync # 0 => Valid

\* "proactive renew before interval expires" (line 1090): once this thread
\* has renewed the self-test, it never lapses either.
SelfTestCovered == TestRoom /\ renewed => Passed

\* "Daily self-test at local HH:MM" (README): within one gap after the slot
\* of a day the self-test has been run, if the thread was there in time; and
\* "a mid-day restart does not immediately force a catch-up" (line 993).
DailySelfTest ==
  \A d \in 1..DayOf(wall) :
    SlotTime(d) + Gap < wall => (d \in ran <=> SlotTime(d) > began)
=============================================================================
