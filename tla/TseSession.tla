----------------------------- MODULE TseSession -----------------------------
(***************************************************************************)
(* Who talks to the TSE, and in what order (tse_worm.c).  The worker       *)
(* thread W runs one request at a time, the background thread T polls the  *)
(* clock and the self-test; g_worm_mu is meant to keep their sequences of  *)
(* device calls apart.  Between any two calls the device may lose power    *)
(* or let its self-test or its clock lapse, and a call may fail.           *)
(*                                                                         *)
(* Every device call is one action.  A thread's position has three levels, *)
(* like its call stack: op (the request or the poll), sync                 *)
(* (perform_time_sync) and st (ensure_self_test_passed); the innermost one *)
(* that is not "off" runs.  Reads of the info block that only log, and a   *)
(* second read of a flag just read, are left out.                          *)
(***************************************************************************)
EXTENDS Naturals, FiniteSets

CONSTANTS
  W, T,          \* the worker thread and the time-sync thread
  NULL,
  Clients, Ids,  \* client ids of requests, and ids as the device knows them
  Safe,          \* worm_safe_client_id, from Clients to Ids
  Startup,       \* "cloudtse-startup", an element of both
  CacheMax,      \* WORM_REGISTERED_CACHE_MAX
  MaxTx,         \* open transactions the device allows
  MaxFaults,     \* bound on faults of the environment
  Pins,          \* the users whose PIN is configured, of admin and time
  RegisterBeforeSelfTest, \* does the device register a client before the
                          \* self-test has passed, as tse_worm.c:802 says?
  TseSwapped     \* may the remembered client be another device's?

ASSUME SessionAssumption ==
  /\ W # T /\ NULL \notin {W, T} \cup Ids
  /\ Startup \in Clients \cap Ids
  /\ Safe \in [Clients -> Ids] /\ Safe[Startup] = Startup
  /\ CacheMax \in Nat /\ MaxTx \in Nat /\ MaxFaults \in Nat
  /\ Pins \subseteq {"admin", "time"} /\ RegisterBeforeSelfTest \in BOOLEAN
  /\ TseSwapped \in BOOLEAN

VARIABLES
  selfTest, timeValid, login, registered, openTx, \* the device
  mu,            \* holder of g_worm_mu, or NULL
  active,        \* g_active
  cache,         \* g_registered_clients
  known,         \* the setting worm_known_client in the database
  lastSync,      \* g_last_time_sync # 0
  op, sync, st,  \* each thread's position
  adm, regOk,    \* each thread's locals: logged_in, and the registration's rc
  job,           \* W's request
  reply,         \* its answer: none, ok or err
  stray,         \* ghost: the users whom a failed logout left logged in
  \* ghosts: faults so far; since the request began, lapses of the device,
  \* whether a call failed, and transactions it opened or closed
  faults, lapses, failed, effects

logins == <<login, stray>>
dev    == <<selfTest, timeValid, logins, registered, openTx>>
host   == <<active, cache, known, lastSync>>
locals == <<adm, regOk>>
ask    == <<job, reply, effects>>
env    == <<faults, lapses, failed>>
vars   == <<dev, mu, host, op, sync, st, locals, ask, env>>

Threads == {W, T}
Users   == {"admin", "time"}
Kinds   == {"info", "register", "start", "finish", "export"}
Codes   == {"ok", "needST", "noTime", "error"}

OpW == {"boot", "bootTime", "idle", "info", "regLock", "login", "register",
        "logout", "mark", "lock", "clock", "call", "recover", "retry", "down"}
OpT == {"off", "sleep", "read", "sync", "unlock", "exited"}
SyncPos == {"off", "start", "login1", "login2", "update1", "relogout",
            "login3", "update2", "logout"}
StPos == {"off", "check", "run", "login", "register", "logout", "rerun"}

TypeOK ==
  /\ selfTest \in BOOLEAN /\ timeValid \in BOOLEAN
  /\ login \subseteq Users /\ stray \subseteq Users /\ registered \subseteq Ids
  /\ openTx \in Nat
  /\ mu \in Threads \cup {NULL}
  /\ active \in BOOLEAN /\ lastSync \in BOOLEAN
  /\ cache \subseteq Clients /\ known \in Ids \cup {NULL}
  /\ op \in [Threads -> OpW \cup OpT] /\ op[W] \in OpW /\ op[T] \in OpT
  /\ sync \in [Threads -> SyncPos] /\ st \in [Threads -> StPos]
  /\ adm \in [Threads -> BOOLEAN] /\ regOk \in [Threads -> BOOLEAN]
  /\ job \in [kind : Kinds, client : Clients]
  /\ reply \in {"none", "ok", "err"}
  /\ faults \in Nat /\ lapses \in Nat /\ failed \in BOOLEAN /\ effects \in Nat

\* The client the self-test runs with (line 818).
Candidate == IF known = NULL THEN Startup ELSE known

\* The device can pass a self-test with it, or with one registered for it.
SelfTestPossible ==
  \/ Candidate \in registered
  \/ RegisterBeforeSelfTest /\ Startup \notin registered

(***************************************************************************)
(* tse_worm_init ends with ensure_self_test_passed(false) and, if need be, *)
(* perform_time_sync, before any other thread exists and without the lock. *)
(* The device and the database are as an earlier run left them; it may     *)
(* have been killed with users logged in.                                  *)
(***************************************************************************)
Init ==
  /\ selfTest \in BOOLEAN /\ timeValid \in BOOLEAN
  /\ registered \in SUBSET Ids /\ openTx = 0
  /\ login \in SUBSET Users /\ stray = login
  /\ known \in Ids \cup {NULL}
  /\ TseSwapped \/ SelfTestPossible
  /\ mu = NULL /\ active = FALSE /\ cache = {} /\ lastSync = FALSE
  /\ op = [t \in Threads |-> IF t = W THEN "boot" ELSE "off"]
  /\ sync = [t \in Threads |-> "off"]
  /\ st = [t \in Threads |-> IF t = W THEN "check" ELSE "off"]
  /\ adm = [t \in Threads |-> FALSE] /\ regOk = [t \in Threads |-> FALSE]
  /\ job = [kind |-> "info", client |-> Startup] /\ reply = "none"
  /\ faults = 0 /\ lapses = 0 /\ failed = FALSE /\ effects = 0

(***************************************************************************)
(* The device, as the code uses it (external).                             *)
(***************************************************************************)
Fails == /\ faults < MaxFaults /\ faults' = faults + 1
         /\ failed' = TRUE /\ UNCHANGED lapses

\* A call returns the code its state calls for, or fails: with an error, or
\* with one of the codes that ask for a self-test.
Returns(code, rc) == \/ rc = code /\ UNCHANGED env
                     \/ rc \in {"needST", "error"} /\ Fails

\* A flag of the info block is seen as it is, or as the code's default where
\* the block cannot be read.
Sees(flag, default, seen) == \/ seen = flag /\ UNCHANGED env
                             \/ seen = default /\ Fails

LoginCode == IF selfTest THEN "ok" ELSE "needST"

LoginCall(user, rc) ==
  /\ Returns(LoginCode, rc)
  /\ login' = IF rc = "ok" THEN login \cup {user} ELSE login
  /\ stray' = IF rc = "ok" THEN stray \ {user} ELSE stray

\* Defect: the logout is forgotten.
LogoutCall_Forgotten(user) == UNCHANGED <<logins, env>>

\* A logout may fail like any call, and nobody looks at its result.
LogoutCall(user) ==
  \/ login' = login \ {user} /\ stray' = stray \ {user} /\ UNCHANGED env
  \/ Fails /\ stray' = stray \cup (login \cap {user}) /\ UNCHANGED login

SelfTestCode(id) == IF id \in registered THEN "ok" ELSE "error"

RegisterCode(id) ==
  IF /\ id \notin registered
     /\ IF selfTest THEN "admin" \in login ELSE RegisterBeforeSelfTest
  THEN "ok" ELSE "error"

UpdateCode == IF ~selfTest THEN "needST"
              ELSE IF "time" \in login THEN "ok" ELSE "error"

Gated(code) == IF ~selfTest THEN "needST"
               ELSE IF ~timeValid THEN "noTime" ELSE code

TxCode == Gated(CASE job.kind = "start" ->
                       IF Safe[job.client] \in registered /\ openTx < MaxTx
                       THEN "ok" ELSE "error"
                  [] job.kind = "finish" ->
                       IF openTx > 0 THEN "ok" ELSE "error"
                  [] OTHER -> "ok")

Lapse ==
  /\ faults < MaxFaults
  /\ faults' = faults + 1 /\ lapses' = lapses + 1
  /\ \/ /\ selfTest' = FALSE /\ timeValid' = FALSE             \* power
        /\ login' = {} /\ stray' = {}
     \/ /\ selfTest /\ selfTest' = FALSE /\ UNCHANGED <<timeValid, logins>>
     \/ /\ timeValid /\ timeValid' = FALSE /\ UNCHANGED <<selfTest, logins>>
  /\ UNCHANGED <<registered, openTx, mu, host, op, sync, st, locals, ask,
                 failed>>

(***************************************************************************)
(* Helpers.                                                                *)
(***************************************************************************)
\* worm_client_mark_registered drops a client that does not fit.
Marked(cs, c) ==
  IF c \in cs \/ Cardinality(cs) < CacheMax THEN cs \cup {c} ELSE cs

NeedsSelfTest(rc) == rc = "needST"

HasPin(user) == user \in Pins

\* worm_has_passed_self_test and worm_has_valid_time.
SeesSelfTest(seen) == Sees(selfTest, FALSE, seen)
SeesTime(seen)     == Sees(timeValid, TRUE, seen)

\* The Admin login around a registration.  Without a PIN there is none.
AdminLogin(t) ==
  IF HasPin("admin")
  THEN \E rc \in Codes :
         LoginCall("admin", rc) /\ adm' = [adm EXCEPT ![t] = rc = "ok"]
  ELSE adm' = [adm EXCEPT ![t] = FALSE] /\ UNCHANGED <<logins, env>>

(***************************************************************************)
(* ensure_self_test_passed(force): "check" when not forced, then "run".    *)
(***************************************************************************)
StAt(t, pos)   == st[t] = pos
StGoto(t, pos) == st' = [st EXCEPT ![t] = pos]

StCheck(t) ==
  /\ StAt(t, "check")
  /\ \E passed \in BOOLEAN :
       SeesSelfTest(passed) /\ StGoto(t, IF passed THEN "off" ELSE "run")
  /\ UNCHANGED <<dev, mu, host, op, sync, locals, ask>>

StRun(t) ==
  /\ StAt(t, "run")
  /\ \E rc \in Codes :
       /\ Returns(SelfTestCode(Candidate), rc)
       /\ IF rc = "ok"
          THEN /\ selfTest' = TRUE /\ known' = Candidate /\ StGoto(t, "off")
          ELSE StGoto(t, "login") /\ UNCHANGED <<selfTest, known>>
  /\ UNCHANGED <<timeValid, logins, registered, openTx, mu, active, cache,
                 lastSync, op, sync, locals, ask>>

StLogin(t) ==
  /\ StAt(t, "login")
  /\ AdminLogin(t)
  /\ StGoto(t, "register")
  /\ UNCHANGED <<selfTest, timeValid, registered, openTx, mu, host, op, sync,
                 regOk, ask>>

StRegister(t) ==
  /\ StAt(t, "register")
  /\ \E rc \in Codes :
       /\ Returns(RegisterCode(Startup), rc)
       /\ regOk' = [regOk EXCEPT ![t] = rc = "ok"]
       /\ registered' =
            IF rc = "ok" THEN registered \cup {Startup} ELSE registered
       /\ StGoto(t, IF adm[t] THEN "logout"
                    ELSE IF rc = "ok" THEN "rerun" ELSE "off")
  /\ UNCHANGED <<selfTest, timeValid, logins, openTx, mu, host, op, sync, adm,
                 ask>>

StLogout(t) ==
  /\ StAt(t, "logout") /\ LogoutCall("admin")
  /\ StGoto(t, IF regOk[t] THEN "rerun" ELSE "off")
  /\ UNCHANGED <<selfTest, timeValid, registered, openTx, mu, host, op, sync,
                 locals, ask>>

StRerun(t) ==
  /\ StAt(t, "rerun")
  /\ \E rc \in Codes :
       /\ Returns(SelfTestCode(Startup), rc)
       /\ IF rc = "ok"
          THEN /\ selfTest' = TRUE /\ known' = Startup
               /\ cache' = Marked(cache, Startup)
          ELSE UNCHANGED <<selfTest, known, cache>>
  /\ StGoto(t, "off")
  /\ UNCHANGED <<timeValid, logins, registered, openTx, mu, active, lastSync,
                 op, sync, locals, ask>>

StStep(t) == \/ StCheck(t) \/ StRun(t) \/ StLogin(t)
             \/ StRegister(t) \/ StLogout(t) \/ StRerun(t)

(***************************************************************************)
(* perform_time_sync.                                                      *)
(***************************************************************************)
SyncAt(t, pos)   == sync[t] = pos /\ st[t] = "off"
SyncGoto(t, pos) == sync' = [sync EXCEPT ![t] = pos]

\* Without a PIN there is nothing to do; with one, first the self-test.
SyncStart(t) ==
  /\ SyncAt(t, "start")
  /\ IF HasPin("time")
     THEN SyncGoto(t, "login1") /\ StGoto(t, "check")
     ELSE SyncGoto(t, "off") /\ UNCHANGED st
  /\ UNCHANGED <<dev, mu, host, op, locals, ask, env>>

\* TimeAdmin login; a failed one ends the routine, except that the first is
\* retried after a self-test when the device asks for one.
SyncLogin(t, pos, next) ==
  /\ SyncAt(t, pos)
  /\ \E rc \in Codes :
       /\ LoginCall("time", rc)
       /\ \/ rc = "ok" /\ SyncGoto(t, next) /\ UNCHANGED st
          \/ /\ NeedsSelfTest(rc) /\ pos = "login1"
             /\ SyncGoto(t, "login2") /\ StGoto(t, "run")
          \/ /\ rc # "ok" /\ ~(NeedsSelfTest(rc) /\ pos = "login1")
             /\ SyncGoto(t, "off") /\ UNCHANGED st
  /\ UNCHANGED <<selfTest, timeValid, registered, openTx, mu, host, op, locals,
                 ask>>

\* updateTime; the first one is retried after a logout and a self-test when
\* the device asks for one.
SyncUpdate(t, pos) ==
  /\ SyncAt(t, pos)
  /\ \E rc \in Codes :
       /\ Returns(UpdateCode, rc)
       /\ IF rc = "ok" THEN timeValid' = TRUE /\ lastSync' = TRUE
                       ELSE UNCHANGED <<timeValid, lastSync>>
       /\ SyncGoto(t, IF NeedsSelfTest(rc) /\ pos = "update1"
                      THEN "relogout" ELSE "logout")
  /\ UNCHANGED <<selfTest, logins, registered, openTx, mu, active, cache, known,
                 op, st, locals, ask>>

\* Defect: no logout before the self-test.
SyncRelogout_LoggedIn(t) ==
  /\ SyncAt(t, "relogout") /\ SyncGoto(t, "login3") /\ StGoto(t, "run")
  /\ UNCHANGED <<dev, mu, host, op, locals, ask, env>>

SyncRelogout(t) ==
  /\ SyncAt(t, "relogout") /\ LogoutCall("time")
  /\ SyncGoto(t, "login3") /\ StGoto(t, "run")
  /\ UNCHANGED <<selfTest, timeValid, registered, openTx, mu, host, op, locals,
                 ask>>

SyncLogout(t) ==
  /\ SyncAt(t, "logout") /\ LogoutCall("time")
  /\ SyncGoto(t, "off")
  /\ UNCHANGED <<selfTest, timeValid, registered, openTx, mu, host, op, st,
                 locals, ask>>

SyncStep(t) ==
  \/ SyncStart(t) \/ SyncRelogout(t) \/ SyncLogout(t)
  \/ SyncLogin(t, "login1", "update1") \/ SyncLogin(t, "login2", "update1")
  \/ SyncLogin(t, "login3", "update2")
  \/ SyncUpdate(t, "update1") \/ SyncUpdate(t, "update2")

(***************************************************************************)
(* Requests, run by W.                                                     *)
(***************************************************************************)
At(t, pos)   == op[t] = pos /\ sync[t] = "off" /\ st[t] = "off"
Goto(t, pos) == op' = [op EXCEPT ![t] = pos]

\* The end of tse_worm_init.
BootTime ==
  /\ At(W, "boot") /\ Goto(W, "bootTime")
  /\ \E valid \in BOOLEAN :
       SeesTime(valid) /\ SyncGoto(W, IF valid THEN "off" ELSE "start")
  /\ UNCHANGED <<dev, mu, host, st, locals, ask>>

\* The time-sync thread starts; if it cannot be created there is none.
BootDone ==
  /\ At(W, "bootTime")
  /\ \E pos \in {"sleep", "exited"} :
       op' = [op EXCEPT ![W] = "idle", ![T] = pos]
  /\ active' = TRUE
  /\ UNCHANGED <<dev, mu, cache, known, lastSync, sync, st, locals, ask, env>>

\* A start registers a client that is not in the cache first.
FirstStep(kind, client) ==
  CASE kind = "info" -> "info"
    [] \/ kind = "register"
       \/ kind = "start" /\ client \notin cache -> "regLock"
    [] OTHER -> "lock"

\* The device sees the client only of a registration or a start.
Begin(kind, client) ==
  /\ At(W, "idle") /\ (kind \notin {"register", "start"} => client = Startup)
  /\ job' = [kind |-> kind, client |-> client] /\ reply' = "none"
  /\ effects' = 0 /\ lapses' = 0 /\ failed' = FALSE
  /\ Goto(W, FirstStep(kind, client))
  /\ UNCHANGED <<dev, mu, host, sync, st, locals, faults>>

\* tse_worm_fill_info reads the device without the lock.
Info ==
  /\ At(W, "info")
  /\ Goto(W, "idle") /\ reply' = "ok"
  /\ UNCHANGED <<dev, mu, host, sync, st, locals, job, effects, env>>

\* Defect: a registration without the mutex.
RegLock_Free ==
  /\ At(W, "regLock") /\ Goto(W, "login")
  /\ UNCHANGED <<dev, mu, host, sync, st, locals, ask, env>>

\* tse_worm_register_client.
RegLock ==
  /\ At(W, "regLock") /\ mu = NULL /\ mu' = W
  /\ Goto(W, "login")
  /\ UNCHANGED <<dev, host, sync, st, locals, ask, env>>

RegLogin ==
  /\ At(W, "login")
  /\ AdminLogin(W)
  /\ Goto(W, "register")
  /\ UNCHANGED <<selfTest, timeValid, registered, openTx, mu, host, sync, st,
                 regOk, ask>>

Register ==
  /\ At(W, "register")
  /\ \E rc \in Codes :
       /\ Returns(RegisterCode(Safe[job.client]), rc)
       /\ regOk' = [regOk EXCEPT ![W] = rc = "ok"]
       /\ registered' = IF rc = "ok" THEN registered \cup {Safe[job.client]}
                                     ELSE registered
  /\ IF adm[W] THEN Goto(W, "logout") /\ UNCHANGED mu
               ELSE Goto(W, "mark") /\ mu' = NULL
  /\ UNCHANGED <<selfTest, timeValid, logins, openTx, host, sync, st, adm, ask>>

RegLogout ==
  /\ At(W, "logout") /\ LogoutCall("admin")
  /\ Goto(W, "mark") /\ mu' = NULL
  /\ UNCHANGED <<selfTest, timeValid, registered, openTx, host, sync, st,
                 locals, ask>>

\* Without the lock: the cache and the database record a success, and
\* ensure_client_registered then marks the client whatever the outcome.
RegMark ==
  /\ At(W, "mark")
  /\ known' = IF regOk[W] THEN Safe[job.client] ELSE known
  /\ cache' = IF regOk[W] \/ job.kind = "start"
              THEN Marked(cache, job.client) ELSE cache
  /\ IF job.kind = "start"
     THEN Goto(W, "lock") /\ UNCHANGED reply
     ELSE Goto(W, "idle") /\ reply' = IF regOk[W] THEN "ok" ELSE "err"
  /\ UNCHANGED <<dev, mu, active, lastSync, sync, st, locals, job, effects,
                 env>>

\* Start, finish and export: take the lock, then self-test and clock first.
Lock ==
  /\ At(W, "lock") /\ mu = NULL /\ mu' = W
  /\ Goto(W, "clock") /\ StGoto(W, "check")
  /\ UNCHANGED <<dev, host, sync, locals, ask, env>>

Clock ==
  /\ At(W, "clock") /\ Goto(W, "call")
  /\ \E valid \in BOOLEAN :
       SeesTime(valid) /\ SyncGoto(W, IF valid THEN "off" ELSE "start")
  /\ UNCHANGED <<dev, mu, host, st, locals, ask>>

TxDone(rc) ==
  /\ openTx' = IF rc = "ok" /\ job.kind = "start" THEN openTx + 1
               ELSE IF rc = "ok" /\ job.kind = "finish" THEN openTx - 1
               ELSE openTx
  /\ effects' = IF rc = "ok" THEN effects + 1 ELSE effects

\* Defect: an early return without unlocking.
Answer_Locked(rc) ==
  /\ reply' = IF rc = "ok" THEN "ok" ELSE "err"
  /\ Goto(W, "idle") /\ IF rc = "ok" THEN mu' = NULL ELSE UNCHANGED mu

Answer(rc) ==
  /\ reply' = IF rc = "ok" THEN "ok" ELSE "err"
  /\ Goto(W, "idle") /\ mu' = NULL

\* Defect: the operation is repeated whatever it returned.
Retryable_Always(rc) == job.kind # "export"

\* Defect: a clock that lapsed after it was checked is not recovered from.
Retryable_NoClock(rc) == job.kind # "export" /\ rc = "needST"

Retryable(rc) == job.kind # "export" /\ rc \in {"needST", "noTime"}

\* The operation itself.  recover_after_worm_error: a self-test and a time
\* sync, or only the time sync, and the operation once more.
Call ==
  /\ At(W, "call")
  /\ \E rc \in Codes :
       /\ Returns(TxCode, rc) /\ TxDone(rc)
       /\ \/ ~Retryable(rc) /\ Answer(rc) /\ UNCHANGED <<sync, st>>
          \/ /\ Retryable(rc) /\ NeedsSelfTest(rc)
             /\ Goto(W, "recover") /\ StGoto(W, "run")
             /\ UNCHANGED <<sync, mu, reply>>
          \/ /\ Retryable(rc) /\ ~NeedsSelfTest(rc)
             /\ Goto(W, "retry") /\ SyncGoto(W, "start")
             /\ UNCHANGED <<st, mu, reply>>
  /\ UNCHANGED <<selfTest, timeValid, logins, registered, host, locals, job>>

Recover ==
  /\ At(W, "recover") /\ Goto(W, "retry") /\ SyncGoto(W, "start")
  /\ UNCHANGED <<dev, mu, host, st, locals, ask, env>>

Retry ==
  /\ At(W, "retry")
  /\ \E rc \in Codes : Returns(TxCode, rc) /\ TxDone(rc) /\ Answer(rc)
  /\ UNCHANGED <<selfTest, timeValid, logins, registered, host, sync, st,
                 locals, job>>

\* tse_worm_shutdown, once main has joined the worker.
Shutdown ==
  /\ At(W, "idle") /\ mu = NULL
  /\ active' = FALSE /\ Goto(W, "down")
  /\ UNCHANGED <<dev, mu, cache, known, lastSync, sync, st, locals, ask, env>>

WStep == \/ BootTime \/ BootDone \/ Info
         \/ RegLock \/ RegLogin \/ Register \/ RegLogout \/ RegMark
         \/ Lock \/ Clock \/ Call \/ Recover \/ Retry

(***************************************************************************)
(* time_sync_thread_main.  When a renewal is due is TimeSync's subject;    *)
(* here any poll may find one due.                                         *)
(***************************************************************************)
StillActive == active

PollLock ==
  /\ At(T, "sleep") /\ mu = NULL /\ StillActive
  /\ mu' = T /\ Goto(T, "read")
  /\ UNCHANGED <<dev, host, sync, st, locals, ask, env>>

PollExit ==
  /\ At(T, "sleep") /\ ~active /\ Goto(T, "exited")
  /\ UNCHANGED <<dev, mu, host, sync, st, locals, ask, env>>

\* Defect: a clock that was set once is believed.
SyncDue_TimeIgnored(valid, scheduled, stale) == scheduled \/ ~lastSync \/ stale

SyncDue(valid, scheduled, stale) == scheduled \/ ~valid \/ ~lastSync \/ stale

PollRead(renew, scheduled, stale) ==
  /\ At(T, "read")
  /\ \E valid, passed \in BOOLEAN :
       /\ \/ valid = timeValid /\ passed = selfTest /\ UNCHANGED env
          \/ valid /\ passed /\ Fails /\ ~renew /\ ~stale
       /\ Goto(T, IF SyncDue(valid, scheduled, stale) THEN "sync" ELSE "unlock")
       /\ StGoto(T, IF ~passed \/ renew \/ scheduled THEN "run" ELSE "off")
  /\ UNCHANGED <<dev, mu, host, sync, locals, ask>>

PollSync ==
  /\ At(T, "sync") /\ Goto(T, "unlock") /\ SyncGoto(T, "start")
  /\ UNCHANGED <<dev, mu, host, st, locals, ask, env>>

PollUnlock ==
  /\ At(T, "unlock") /\ Goto(T, "sleep") /\ mu' = NULL
  /\ UNCHANGED <<dev, host, sync, st, locals, ask, env>>

TStep == \/ PollLock \/ PollExit \/ PollSync \/ PollUnlock
         \/ \E renew, scheduled, stale \in BOOLEAN :
              PollRead(renew, scheduled, stale)

Step(t) == StStep(t) \/ SyncStep(t)

Next == \/ WStep \/ TStep \/ \E t \in Threads : Step(t)
        \/ \E kind \in Kinds, c \in Clients : Begin(kind, c)
        \/ Shutdown \/ Lapse

Spec == Init /\ [][Next]_vars

\* Both threads keep running; nobody has to send a request or to shut down,
\* and nothing is assumed of the environment.  T sleeps five minutes with the
\* mutex free between two polls, so W gets a mutex it waits for; W may send
\* requests without pause, so T has no such promise.
FairSpec == /\ Spec
            /\ WF_vars(WStep \/ Step(W)) /\ WF_vars(TStep \/ Step(T))
            /\ SF_vars(RegLock \/ Lock)

(***************************************************************************)
(* Properties.                                                             *)
(***************************************************************************)
\* The thread is inside a sequence of device calls.
Busy(t) == \/ st[t] # "off" \/ sync[t] # "off"
           \/ op[t] \in {"info", "login", "register", "logout", "clock",
                         "call", "recover", "retry", "read"}

\* Once both threads run, every device call except the info read is made
\* with g_worm_mu held, through whichever of the nested routines it comes;
\* recover_after_worm_error "must be called with g_worm_mu held".
LockDiscipline ==
  \A t \in Threads : Busy(t) /\ active /\ op[t] # "info" => mu = t

\* No early return, from whichever routine, leaves a user logged in when the
\* lock is given back; only a logout that failed, which the code ignores, can.
SessionsClosed == active /\ mu = NULL => login \subseteq stray

\* Admin and TimeAdmin are not logged in together, although a time sync may
\* run a self-test that logs the Admin in, unless a logout has failed and the
\* next login was made all the same.
OneSession == Users \subseteq login => stray # {}

\* T makes no call once tse_worm_shutdown has freed the store.
StoreLive == op[W] = "down" => ~Busy(T)

\* An answered start or finish changed the device exactly once if the
\* answer is ok and not at all otherwise, retried or not.
ReplyMatchesDevice ==
  reply # "none" /\ job.kind \in {"start", "finish"}
    => effects = IF reply = "ok" THEN 1 ELSE 0

\* The device lapses at most once while a request runs, at any point of it,
\* and no call fails: then checks, recovery and retry together see a start
\* or a finish through, unless the device must refuse it.
MustRefuse == IF job.kind = "start"
              THEN Safe[job.client] \notin registered \/ openTx >= MaxTx
              ELSE openTx = 0
OneLapseTolerated ==
  [][/\ reply = "none" /\ reply' = "err" /\ job.kind \in {"start", "finish"}
     /\ lapses <= 1 /\ ~failed' /\ "time" \in Pins /\ SelfTestPossible
     => MustRefuse]_vars

\* Every request is answered, whatever the device does in the meantime.
RequestsEnd == op[W] \notin {"idle", "down"} ~> op[W] = "idle"

\* Once the requests cease, the polls alone bring a lapsed clock back, if the
\* thread that polls was created and the device can still be brought to pass a
\* self-test.
Unattended == op[W] = "idle" /\ op[T] # "exited"
ClockRecovers == <>[](Unattended /\ SelfTestPossible) => <>[]timeValid

\* "We remember the last client ID that worked in the local DB so restarts keep
\* working without operator input; if none is known yet [...] we register one and
\* retry" (tse_worm.c:803): no fault costs the clock for good.
AlwaysRecovers == <>[]Unattended => <>[]timeValid
=============================================================================
