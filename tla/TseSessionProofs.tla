-------------------------- MODULE TseSessionProofs --------------------------
(***************************************************************************)
(* TseSession for any clients, any bound on faults and any order of        *)
(* requests, polls, lapses and failed calls: g_worm_mu covers every device *)
(* call but the info read, no user stays logged in but for a failed        *)
(* logout, an answer tells what the device did, and one lapse of the       *)
(* device costs no transaction.                                            *)
(***************************************************************************)
EXTENDS TseSession, TLAPS

\* Which routine can be running inside which.
PosInv ==
  /\ sync[W] # "off" => op[W] \in {"bootTime", "call", "retry"}
  /\ st[W] # "off" => op[W] \in {"boot", "bootTime", "clock", "call",
                                "recover", "retry"}
  /\ sync[T] # "off" => op[T] = "unlock"
  /\ st[T] # "off" => op[T] \in {"sync", "unlock"}
  /\ \A t \in Threads : st[t] # "off" /\ sync[t] # "off"
                          => sync[t] \in {"login1", "login2", "login3"}

\* The positions at which a thread holds g_worm_mu.
MuInv ==
  /\ mu = W <=> op[W] \in {"login", "register", "logout", "clock", "call",
                          "recover", "retry"}
  /\ mu = T <=> op[T] \in {"read", "sync", "unlock"}

\* T exists once tse_worm_init is over, and idles once the store is freed.
ActiveInv ==
  /\ active <=> op[W] \notin {"boot", "bootTime", "down"}
  /\ op[T] = "off" <=> op[W] \in {"boot", "bootTime"}
  /\ op[W] = "down" => op[T] \in {"sleep", "exited"}

\* Who logged in, and will log out.
AdminBy(t) == /\ adm[t]
              /\ \/ st[t] \in {"register", "logout"}
                 \/ t = W /\ op[W] \in {"register", "logout"}
TimeBy(t) == sync[t] \in {"update1", "relogout", "update2", "logout"}

LoginInv ==
  /\ "admin" \in login \ stray => \E t \in Threads : AdminBy(t)
  /\ "time" \in login \ stray => \E t \in Threads : TimeBy(t)

\* A request that is being worked on has no answer and no effect yet.
ReplyInv == /\ op[W] = "info" => job.kind = "info"
            /\ op[W] \in {"regLock", "login", "register", "logout", "mark"}
                 => job.kind \in {"register", "start"}
            /\ op[W] \notin {"idle", "down"} => reply = "none"
            /\ reply = "none" => effects = 0
            /\ ReplyMatchesDevice

IInv == TypeOK /\ PosInv /\ MuInv /\ ActiveInv /\ LoginInv /\ ReplyInv

LEMMA InitIInv == Init => IInv
<1> SUFFICES ASSUME Init PROVE IInv
  OBVIOUS
<1> USE SessionAssumption DEF Init, Threads
<1>1. TypeOK
  BY DEF TypeOK, Kinds, OpW, OpT, SyncPos, StPos
<1>2. PosInv /\ MuInv /\ ActiveInv
  BY DEF PosInv, MuInv, ActiveInv
<1>3. LoginInv /\ ReplyInv
  BY DEF LoginInv, ReplyInv, ReplyMatchesDevice
<1> QED BY <1>1, <1>2, <1>3 DEF IInv

\* A device call keeps the types of the environment, failing or not.
LEMMA EnvType ==
  ASSUME TypeOK, Fails \/ UNCHANGED env
  PROVE  faults' \in Nat /\ lapses' \in Nat /\ failed' \in BOOLEAN
<1>1. faults \in Nat /\ lapses \in Nat /\ failed \in BOOLEAN
  BY DEF TypeOK
<1>2. /\ faults' = faults \/ faults' = faults + 1
      /\ lapses' = lapses
      /\ failed' = failed \/ failed' = TRUE
  BY DEF Fails, env
<1>3. failed' \in BOOLEAN
  BY <1>1, <1>2, Zenon
<1>4. faults' \in Nat /\ lapses' \in Nat
  BY <1>1, <1>2
<1> QED BY <1>3, <1>4

LEMMA ReturnsType ==
  ASSUME TypeOK, NEW code, NEW rc, Returns(code, rc)
  PROVE  faults' \in Nat /\ lapses' \in Nat /\ failed' \in BOOLEAN
<1>1. Fails \/ UNCHANGED env
  BY DEF Returns
<1> QED BY <1>1, EnvType

LEMMA SeesType ==
  ASSUME TypeOK, NEW seen, SeesSelfTest(seen) \/ SeesTime(seen)
  PROVE  faults' \in Nat /\ lapses' \in Nat /\ failed' \in BOOLEAN
<1>1. Fails \/ UNCHANGED env
  BY DEF SeesSelfTest, SeesTime, Sees
<1> QED BY <1>1, EnvType

\* With or without a PIN, the Admin is logged in only where adm says so.
LEMMA AdminLoginFacts ==
  ASSUME TypeOK, NEW t \in Threads, AdminLogin(t)
  PROVE  /\ faults' \in Nat /\ lapses' \in Nat /\ failed' \in BOOLEAN
         /\ \E b \in BOOLEAN :
              /\ adm' = [adm EXCEPT ![t] = b]
              /\ login' = IF b THEN login \cup {"admin"} ELSE login
              /\ stray' = IF b THEN stray \ {"admin"} ELSE stray
<1>1. CASE HasPin("admin")
  BY <1>1, ReturnsType DEF AdminLogin, LoginCall
<1>2. CASE ~HasPin("admin")
  BY <1>2, EnvType DEF AdminLogin, logins
<1> QED BY <1>1, <1>2

\* A login that is answered ok is the only one that adds a user.
LEMMA LoginFacts ==
  ASSUME TypeOK, NEW u \in Users, NEW rc, LoginCall(u, rc)
  PROVE  /\ faults' \in Nat /\ lapses' \in Nat /\ failed' \in BOOLEAN
         /\ login' \subseteq Users /\ stray' \subseteq Users
         /\ \A v \in login' \ stray' :
              v \in login \ stray \/ (v = u /\ rc = "ok")
<1>1. login \subseteq Users /\ stray \subseteq Users
  BY DEF TypeOK
<1>2. faults' \in Nat /\ lapses' \in Nat /\ failed' \in BOOLEAN
  BY ReturnsType DEF LoginCall
<1>3. CASE rc = "ok"
  BY <1>1, <1>2, <1>3 DEF LoginCall
<1>4. CASE rc # "ok"
  BY <1>1, <1>2, <1>4 DEF LoginCall
<1> QED BY <1>3, <1>4

\* After a logout its user is out, or astray.
LEMMA LogoutFacts ==
  ASSUME TypeOK, NEW u \in Users, LogoutCall(u)
  PROVE  /\ faults' \in Nat /\ lapses' \in Nat /\ failed' \in BOOLEAN
         /\ login' \subseteq Users /\ stray' \subseteq Users
         /\ login' \ stray' = (login \ stray) \ {u}
<1>1. login \subseteq Users /\ stray \subseteq Users
  BY DEF TypeOK
<1>2. faults' \in Nat /\ lapses' \in Nat /\ failed' \in BOOLEAN
  BY EnvType, Zenon DEF LogoutCall
<1>3. CASE login' = login \ {u} /\ stray' = stray \ {u}
  BY <1>1, <1>2, <1>3
<1>4. CASE stray' = stray \cup (login \cap {u}) /\ login' = login
  BY <1>1, <1>2, <1>4
<1> QED BY <1>3, <1>4 DEF LogoutCall

\* A step of ensure_self_test_passed or perform_time_sync moves only the
\* inner positions of its thread: the outer parts of the invariant stay.
LEMMA InnerStepKeepsOuter ==
  ASSUME IInv, NEW t \in Threads, Step(t)
  PROVE  MuInv' /\ ActiveInv' /\ ReplyInv'
<1>1. UNCHANGED <<mu, active, op, job, reply, effects>>
  BY DEF Step, StStep, SyncStep, StCheck, StRun, StLogin, StRegister, StLogout,
         StRerun, SyncStart, SyncLogin, SyncUpdate, SyncRelogout, SyncLogout,
         host, ask
<1> QED BY <1>1 DEF IInv, MuInv, ActiveInv, ReplyInv, ReplyMatchesDevice

LEMMA StStepIInv ==
  ASSUME IInv, NEW t \in Threads, StStep(t)
  PROVE  TypeOK' /\ PosInv' /\ LoginInv'
<1> USE SessionAssumption
    DEF IInv, Threads, Users, StAt, StGoto, dev, logins, host, locals, ask, env
<1>1. CASE StCheck(t)
  <2>1. TypeOK'
    BY <1>1, SeesType DEF StCheck, TypeOK, StPos
  <2>2. PosInv'
    BY <1>1 DEF StCheck, TypeOK, PosInv
  <2>3. LoginInv'
    BY <1>1 DEF StCheck, TypeOK, PosInv, MuInv, ActiveInv, LoginInv, AdminBy,
               TimeBy
  <2> QED BY <2>1, <2>2, <2>3
<1>2. CASE StRun(t)
  <2>1. TypeOK'
    <3>1. faults' \in Nat /\ lapses' \in Nat /\ failed' \in BOOLEAN
      BY <1>2, ReturnsType DEF StRun
    <3>2. /\ st' = [st EXCEPT ![t] = "off"] \/ st' = [st EXCEPT ![t] = "login"]
          /\ selfTest' = TRUE \/ selfTest' = selfTest
          /\ known' = Candidate \/ known' = known
      BY <1>2 DEF StRun
    <3>3. st' \in [Threads -> StPos] /\ known' \in Ids \cup {NULL}
      BY <3>2 DEF TypeOK, StPos, Candidate
    <3>4. selfTest' \in BOOLEAN
      BY <3>2, Zenon DEF TypeOK
    <3> QED BY <1>2, <3>1, <3>3, <3>4 DEF StRun, TypeOK
  <2>2. PosInv'
    BY <1>2 DEF StRun, TypeOK, PosInv
  <2>3. LoginInv'
    BY <1>2 DEF StRun, TypeOK, PosInv, MuInv, ActiveInv, LoginInv, AdminBy,
               TimeBy
  <2> QED BY <2>1, <2>2, <2>3
<1>3. CASE StLogin(t)
  <2>1. TypeOK'
    <3>0. PICK b \in BOOLEAN :
            /\ adm' = [adm EXCEPT ![t] = b]
            /\ login' = IF b THEN login \cup {"admin"} ELSE login
            /\ stray' = IF b THEN stray \ {"admin"} ELSE stray
      BY <1>3, AdminLoginFacts DEF StLogin
    <3>1. /\ faults' \in Nat /\ lapses' \in Nat /\ failed' \in BOOLEAN
          /\ adm' \in [Threads -> BOOLEAN] /\ login' \cup stray' \subseteq Users
      <4>1. faults' \in Nat /\ lapses' \in Nat /\ failed' \in BOOLEAN
        BY <1>3, AdminLoginFacts DEF StLogin
      <4>2. adm' \in [Threads -> BOOLEAN] /\ login' \cup stray' \subseteq Users
        BY <3>0 DEF TypeOK
      <4> QED BY <4>1, <4>2
    <3>2. st' \in [Threads -> StPos]
      BY <1>3 DEF StLogin, TypeOK, StPos
    <3> QED BY <1>3, <3>1, <3>2 DEF StLogin, TypeOK
  <2>2. PosInv'
    BY <1>3 DEF StLogin, TypeOK, PosInv
  <2>3. LoginInv'
    BY <1>3, AdminLoginFacts
    DEF StLogin, TypeOK, PosInv, MuInv, ActiveInv, LoginInv, AdminBy,
               TimeBy
  <2> QED BY <2>1, <2>2, <2>3
<1>4. CASE StRegister(t)
  <2>1. TypeOK'
    BY <1>4, ReturnsType DEF StRegister, TypeOK, StPos, Candidate, Marked
  <2>2. PosInv'
    BY <1>4 DEF StRegister, TypeOK, PosInv
  <2>3. LoginInv'
    BY <1>4 DEF StRegister, TypeOK, PosInv, MuInv, ActiveInv, LoginInv,
               AdminBy, TimeBy
  <2> QED BY <2>1, <2>2, <2>3
<1>5. CASE StLogout(t)
  <2>0. /\ faults' \in Nat /\ lapses' \in Nat /\ failed' \in BOOLEAN
        /\ login' \subseteq Users /\ stray' \subseteq Users
        /\ login' \ stray' = (login \ stray) \ {"admin"}
    BY <1>5, LogoutFacts DEF StLogout
  <2>1. TypeOK'
    BY <1>5, <2>0 DEF StLogout, TypeOK, StPos
  <2>2. PosInv'
    BY <1>5 DEF StLogout, TypeOK, PosInv
  <2>3. LoginInv'
    BY <1>5, <2>0 DEF StLogout, TypeOK, PosInv, MuInv, ActiveInv, LoginInv, AdminBy,
               TimeBy
  <2> QED BY <2>1, <2>2, <2>3
<1>6. CASE StRerun(t)
  <2>1. TypeOK'
    BY <1>6, ReturnsType DEF StRerun, TypeOK, StPos, Candidate, Marked
  <2>2. PosInv'
    BY <1>6 DEF StRerun, TypeOK, PosInv
  <2>3. LoginInv'
    BY <1>6 DEF StRerun, TypeOK, PosInv, MuInv, ActiveInv, LoginInv, AdminBy,
               TimeBy
  <2> QED BY <2>1, <2>2, <2>3
<1> QED
  BY <1>1, <1>2, <1>3, <1>4, <1>5, <1>6 DEF StStep

LEMMA SyncStepIInv ==
  ASSUME IInv, NEW t \in Threads, SyncStep(t)
  PROVE  TypeOK' /\ PosInv' /\ LoginInv'
<1> USE SessionAssumption
    DEF IInv, Threads, Users, StAt, StGoto, SyncAt, SyncGoto, dev, logins, host,
        locals, ask, env
<1>1. CASE SyncStart(t)
  <2>1. TypeOK'
    BY <1>1 DEF SyncStart, TypeOK, SyncPos, StPos
  <2>2. PosInv'
    BY <1>1 DEF SyncStart, TypeOK, PosInv
  <2>3. LoginInv'
    BY <1>1 DEF SyncStart, TypeOK, PosInv, LoginInv, AdminBy, TimeBy
  <2> QED BY <2>1, <2>2, <2>3
<1>2. ASSUME NEW pos \in {"login1", "login2", "login3"},
             NEW next \in {"update1", "update2"}, SyncLogin(t, pos, next)
      PROVE  TypeOK' /\ PosInv' /\ LoginInv'
  <2>1. /\ faults' \in Nat /\ lapses' \in Nat /\ failed' \in BOOLEAN
        /\ sync' \in [Threads -> SyncPos] /\ st' \in [Threads -> StPos]
    <3>1. sync \in [Threads -> SyncPos] /\ st \in [Threads -> StPos]
      BY DEF TypeOK
    <3> QED BY <1>2, <3>1, ReturnsType DEF SyncLogin, LoginCall, SyncPos, StPos
  <2>2. TypeOK'
    BY <1>2, <2>1, LoginFacts DEF SyncLogin, TypeOK
  <2>3. PosInv'
    BY <1>2 DEF SyncLogin, LoginCall, TypeOK, PosInv
  <2>4. LoginInv'
    <3>1. PICK rc \in Codes :
            /\ LoginCall("time", rc)
            /\ rc = "ok" => SyncGoto(t, next) /\ UNCHANGED st
      BY <1>2 DEF SyncLogin, NeedsSelfTest
    <3>2. \A v \in login' \ stray' :
            v \in login \ stray \/ (v = "time" /\ rc = "ok")
      BY <3>1, LoginFacts
    <3>3. adm' = adm /\ op' = op /\ ~AdminBy(t) /\ ~TimeBy(t)
      BY <1>2 DEF SyncLogin, TypeOK, PosInv, AdminBy, TimeBy
    <3>4. \A s \in Threads \ {t} : st'[s] = st[s] /\ sync'[s] = sync[s]
      BY <1>2 DEF SyncLogin, TypeOK
    <3>5. rc = "ok" => sync'[t] = next
      BY <3>1 DEF TypeOK
    <3>6. "admin" \in login' \ stray' => \E s \in Threads : AdminBy(s)'
      BY <3>2, <3>3, <3>4 DEF LoginInv, AdminBy
    <3>7. "time" \in login' \ stray' => \E s \in Threads : TimeBy(s)'
      BY <3>2, <3>3, <3>4, <3>5 DEF LoginInv, TimeBy
    <3> QED BY <3>6, <3>7 DEF LoginInv
  <2> QED BY <2>2, <2>3, <2>4
<1>3. ASSUME NEW pos \in {"update1", "update2"}, SyncUpdate(t, pos)
      PROVE  TypeOK' /\ PosInv' /\ LoginInv'
  <2>1. /\ faults' \in Nat /\ lapses' \in Nat /\ failed' \in BOOLEAN
        /\ sync' \in [Threads -> SyncPos] /\ st' \in [Threads -> StPos]
    <3>1. sync \in [Threads -> SyncPos] /\ st \in [Threads -> StPos]
      BY DEF TypeOK
    <3> QED BY <1>3, <3>1, ReturnsType DEF SyncUpdate, SyncPos, StPos
  <2>2. TypeOK'
    BY <1>3, <2>1 DEF SyncUpdate, TypeOK
  <2>3. PosInv'
    BY <1>3 DEF SyncUpdate, TypeOK, PosInv
  <2>4. LoginInv'
    BY <1>3 DEF SyncUpdate, TypeOK, PosInv, LoginInv, AdminBy, TimeBy
  <2> QED BY <2>2, <2>3, <2>4
<1>4. CASE SyncRelogout(t)
  <2>0. /\ faults' \in Nat /\ lapses' \in Nat /\ failed' \in BOOLEAN
        /\ login' \subseteq Users /\ stray' \subseteq Users
        /\ login' \ stray' = (login \ stray) \ {"time"}
    BY <1>4, LogoutFacts DEF SyncRelogout
  <2>1. TypeOK'
    BY <1>4, <2>0 DEF SyncRelogout, TypeOK, SyncPos, StPos
  <2>2. PosInv'
    BY <1>4 DEF SyncRelogout, TypeOK, PosInv
  <2>3. LoginInv'
    BY <1>4, <2>0 DEF SyncRelogout, TypeOK, PosInv, LoginInv, AdminBy, TimeBy
  <2> QED BY <2>1, <2>2, <2>3
<1>5. CASE SyncLogout(t)
  <2>0. /\ faults' \in Nat /\ lapses' \in Nat /\ failed' \in BOOLEAN
        /\ login' \subseteq Users /\ stray' \subseteq Users
        /\ login' \ stray' = (login \ stray) \ {"time"}
    BY <1>5, LogoutFacts DEF SyncLogout
  <2>1. TypeOK'
    BY <1>5, <2>0 DEF SyncLogout, TypeOK, SyncPos, StPos
  <2>2. PosInv'
    BY <1>5 DEF SyncLogout, TypeOK, PosInv
  <2>3. LoginInv'
    BY <1>5, <2>0 DEF SyncLogout, TypeOK, PosInv, LoginInv, AdminBy, TimeBy
  <2> QED BY <2>1, <2>2, <2>3
<1> QED
  BY <1>1, <1>2, <1>3, <1>4, <1>5 DEF SyncStep

\* The device ends only a transaction it has open.
LEMMA TxDoneType ==
  ASSUME TypeOK, NEW rc, Returns(TxCode, rc), TxDone(rc)
  PROVE  openTx' \in Nat /\ effects' \in Nat
<1>1. openTx \in Nat /\ effects \in Nat
  BY DEF TypeOK
<1>2. rc = "ok" /\ job.kind = "finish" => openTx > 0
  BY <1>1 DEF Returns, TxCode, Gated
<1>3. CASE rc = "ok" /\ job.kind = "finish"
  BY <1>1, <1>2, <1>3 DEF TxDone
<1>4. CASE ~(rc = "ok" /\ job.kind = "finish")
  <2>1. openTx' \in {openTx, openTx + 1}
    BY <1>4 DEF TxDone
  <2>2. effects' \in {effects, effects + 1}
    BY DEF TxDone
  <2> QED BY <1>1, <2>1, <2>2
<1> QED BY <1>3, <1>4

LEMMA WStepIInv ==
  ASSUME IInv, WStep PROVE IInv'
<1> USE SessionAssumption
    DEF IInv, Threads, Users, At, Goto, StGoto, SyncGoto, dev, logins, host, locals,
        ask, env
<1>1. CASE BootTime
  <2>1. TypeOK'
    BY <1>1, SeesType DEF BootTime, TypeOK, OpW, OpT, SyncPos
  <2>2. PosInv' /\ MuInv' /\ ActiveInv'
    BY <1>1 DEF BootTime, TypeOK, PosInv, MuInv, ActiveInv
  <2>3. LoginInv'
    BY <1>1 DEF BootTime, TypeOK, PosInv, MuInv, ActiveInv, LoginInv,
               AdminBy, TimeBy
  <2>4. ReplyInv'
    BY <1>1 DEF BootTime, TypeOK, ReplyInv, ReplyMatchesDevice
  <2> QED BY <2>1, <2>2, <2>3, <2>4
<1>2. CASE BootDone
  <2>1. TypeOK'
    BY <1>2 DEF BootDone, TypeOK, OpW, OpT
  <2>2. PosInv' /\ MuInv' /\ ActiveInv'
    BY <1>2 DEF BootDone, TypeOK, PosInv, MuInv, ActiveInv
  <2>3. LoginInv'
    BY <1>2 DEF BootDone, TypeOK, PosInv, MuInv, ActiveInv, LoginInv,
               AdminBy, TimeBy
  <2>4. ReplyInv'
    BY <1>2 DEF BootDone, TypeOK, ReplyInv, ReplyMatchesDevice
  <2> QED BY <2>1, <2>2, <2>3, <2>4
<1>3. CASE Info
  <2>1. TypeOK'
    BY <1>3 DEF Info, TypeOK, OpW, OpT
  <2>2. PosInv' /\ MuInv' /\ ActiveInv'
    BY <1>3 DEF Info, TypeOK, PosInv, MuInv, ActiveInv
  <2>3. LoginInv'
    BY <1>3 DEF Info, TypeOK, PosInv, MuInv, ActiveInv, LoginInv,
               AdminBy, TimeBy
  <2>4. ReplyInv'
    BY <1>3 DEF Info, TypeOK, ReplyInv, ReplyMatchesDevice
  <2> QED BY <2>1, <2>2, <2>3, <2>4
<1>4. CASE RegLock
  <2>1. TypeOK'
    BY <1>4 DEF RegLock, TypeOK, OpW, OpT
  <2>2. PosInv' /\ MuInv' /\ ActiveInv'
    BY <1>4 DEF RegLock, TypeOK, PosInv, MuInv, ActiveInv
  <2>3. LoginInv'
    BY <1>4 DEF RegLock, TypeOK, PosInv, MuInv, ActiveInv, LoginInv,
               AdminBy, TimeBy
  <2>4. ReplyInv'
    BY <1>4 DEF RegLock, TypeOK, ReplyInv, ReplyMatchesDevice
  <2> QED BY <2>1, <2>2, <2>3, <2>4
<1>5. CASE RegLogin
  <2>1. TypeOK'
    <3>1. /\ faults' \in Nat /\ lapses' \in Nat /\ failed' \in BOOLEAN
          /\ adm' \in [Threads -> BOOLEAN] /\ login' \cup stray' \subseteq Users
      BY <1>5, AdminLoginFacts DEF RegLogin, TypeOK
    <3>2. op' \in [Threads -> OpW \cup OpT] /\ op'[W] \in OpW /\ op'[T] \in OpT
      BY <1>5 DEF RegLogin, TypeOK, OpW, OpT
    <3> QED BY <1>5, <3>1, <3>2 DEF RegLogin, TypeOK
  <2>2. PosInv' /\ MuInv' /\ ActiveInv'
    BY <1>5 DEF RegLogin, TypeOK, PosInv, MuInv, ActiveInv
  <2>3. LoginInv'
    BY <1>5, AdminLoginFacts
    DEF RegLogin, TypeOK, PosInv, MuInv, ActiveInv, LoginInv,
               AdminBy, TimeBy
  <2>4. ReplyInv'
    BY <1>5 DEF RegLogin, TypeOK, ReplyInv, ReplyMatchesDevice
  <2> QED BY <2>1, <2>2, <2>3, <2>4
<1>6. CASE Register
  <2>1. TypeOK'
    BY <1>6, ReturnsType DEF Register, TypeOK, OpW, OpT
  <2>2. PosInv' /\ MuInv' /\ ActiveInv'
    BY <1>6 DEF Register, TypeOK, PosInv, MuInv, ActiveInv
  <2>3. LoginInv'
    BY <1>6 DEF Register, TypeOK, PosInv, MuInv, ActiveInv, LoginInv,
               AdminBy, TimeBy
  <2>4. ReplyInv'
    BY <1>6 DEF Register, TypeOK, ReplyInv, ReplyMatchesDevice
  <2> QED BY <2>1, <2>2, <2>3, <2>4
<1>7. CASE RegLogout
  <2>0. /\ faults' \in Nat /\ lapses' \in Nat /\ failed' \in BOOLEAN
        /\ login' \subseteq Users /\ stray' \subseteq Users
        /\ login' \ stray' = (login \ stray) \ {"admin"}
    BY <1>7, LogoutFacts DEF RegLogout
  <2>1. TypeOK'
    BY <1>7, <2>0 DEF RegLogout, TypeOK, OpW, OpT
  <2>2. PosInv' /\ MuInv' /\ ActiveInv'
    BY <1>7 DEF RegLogout, TypeOK, PosInv, MuInv, ActiveInv
  <2>3. LoginInv'
    BY <1>7, <2>0 DEF RegLogout, TypeOK, PosInv, MuInv, ActiveInv,
                LoginInv, AdminBy, TimeBy
  <2>4. ReplyInv'
    BY <1>7 DEF RegLogout, TypeOK, ReplyInv, ReplyMatchesDevice
  <2> QED BY <2>1, <2>2, <2>3, <2>4
<1>8. CASE RegMark
  <2>1. TypeOK'
    BY <1>8 DEF RegMark, TypeOK, OpW, OpT, Marked
  <2>2. PosInv' /\ MuInv' /\ ActiveInv'
    BY <1>8 DEF RegMark, TypeOK, PosInv, MuInv, ActiveInv
  <2>3. LoginInv'
    BY <1>8 DEF RegMark, TypeOK, PosInv, MuInv, ActiveInv, LoginInv,
               AdminBy, TimeBy
  <2>4. ReplyInv'
    BY <1>8 DEF RegMark, TypeOK, ReplyInv, ReplyMatchesDevice
  <2> QED BY <2>1, <2>2, <2>3, <2>4
<1>9. CASE Lock
  <2>1. TypeOK'
    BY <1>9 DEF Lock, TypeOK, OpW, OpT, StPos
  <2>2. PosInv' /\ MuInv' /\ ActiveInv'
    BY <1>9 DEF Lock, TypeOK, PosInv, MuInv, ActiveInv
  <2>3. LoginInv'
    BY <1>9 DEF Lock, TypeOK, PosInv, MuInv, ActiveInv, LoginInv,
               AdminBy, TimeBy
  <2>4. ReplyInv'
    BY <1>9 DEF Lock, TypeOK, ReplyInv, ReplyMatchesDevice
  <2> QED BY <2>1, <2>2, <2>3, <2>4
<1>10. CASE Clock
  <2>1. TypeOK'
    BY <1>10, SeesType DEF Clock, TypeOK, OpW, OpT, SyncPos
  <2>2. PosInv' /\ MuInv' /\ ActiveInv'
    BY <1>10 DEF Clock, TypeOK, PosInv, MuInv, ActiveInv
  <2>3. LoginInv'
    BY <1>10 DEF Clock, TypeOK, PosInv, MuInv, ActiveInv, LoginInv,
               AdminBy, TimeBy
  <2>4. ReplyInv'
    BY <1>10 DEF Clock, TypeOK, ReplyInv, ReplyMatchesDevice
  <2> QED BY <2>1, <2>2, <2>3, <2>4
<1>11. CASE Call
  <2>1. TypeOK'
    <3>1. /\ openTx' \in Nat /\ effects' \in Nat
          /\ faults' \in Nat /\ lapses' \in Nat /\ failed' \in BOOLEAN
      BY <1>11, ReturnsType, TxDoneType DEF Call
    <3> QED BY <1>11, <3>1 DEF Call, TypeOK, OpW, OpT, SyncPos, StPos, Answer
  <2>2. PosInv' /\ MuInv' /\ ActiveInv'
    BY <1>11 DEF Call, TypeOK, PosInv, MuInv, ActiveInv, Answer
  <2>3. LoginInv'
    BY <1>11 DEF Call, TypeOK, PosInv, MuInv, ActiveInv, LoginInv,
               AdminBy, TimeBy, Answer
  <2>4. ReplyInv'
    BY <1>11 DEF Call, TypeOK, ReplyInv, ReplyMatchesDevice, TxDone,
                 Answer, Retryable, NeedsSelfTest
  <2> QED BY <2>1, <2>2, <2>3, <2>4
<1>12. CASE Recover
  <2>1. TypeOK'
    BY <1>12 DEF Recover, TypeOK, OpW, OpT, SyncPos
  <2>2. PosInv' /\ MuInv' /\ ActiveInv'
    BY <1>12 DEF Recover, TypeOK, PosInv, MuInv, ActiveInv
  <2>3. LoginInv'
    BY <1>12 DEF Recover, TypeOK, PosInv, MuInv, ActiveInv, LoginInv,
               AdminBy, TimeBy
  <2>4. ReplyInv'
    BY <1>12 DEF Recover, TypeOK, ReplyInv, ReplyMatchesDevice
  <2> QED BY <2>1, <2>2, <2>3, <2>4
<1>13. CASE Retry
  <2>1. TypeOK'
    <3>1. /\ openTx' \in Nat /\ effects' \in Nat
          /\ faults' \in Nat /\ lapses' \in Nat /\ failed' \in BOOLEAN
      BY <1>13, ReturnsType, TxDoneType DEF Retry
    <3> QED BY <1>13, <3>1 DEF Retry, TypeOK, OpW, OpT, Answer
  <2>2. PosInv' /\ MuInv' /\ ActiveInv'
    BY <1>13 DEF Retry, TypeOK, PosInv, MuInv, ActiveInv, Answer
  <2>3. LoginInv'
    BY <1>13 DEF Retry, TypeOK, PosInv, MuInv, ActiveInv, LoginInv,
               AdminBy, TimeBy, Answer
  <2>4. ReplyInv'
    BY <1>13 DEF Retry, TypeOK, ReplyInv, ReplyMatchesDevice, TxDone, Answer
  <2> QED BY <2>1, <2>2, <2>3, <2>4
<1> QED
  BY <1>1, <1>2, <1>3, <1>4, <1>5, <1>6, <1>7, <1>8, <1>9, <1>10,
     <1>11, <1>12, <1>13 DEF WStep

LEMMA TStepIInv ==
  ASSUME IInv, TStep PROVE IInv'
<1> USE SessionAssumption
    DEF IInv, Threads, Users, At, Goto, StGoto, SyncGoto, dev, logins, host, locals,
        ask, env
<1>1. CASE PollLock
  <2>1. TypeOK'
    BY <1>1 DEF PollLock, StillActive, TypeOK, OpW, OpT
  <2>2. PosInv' /\ MuInv' /\ ActiveInv'
    BY <1>1 DEF PollLock, StillActive, TypeOK, PosInv, MuInv, ActiveInv
  <2>3. LoginInv' /\ ReplyInv'
    BY <1>1 DEF PollLock, StillActive, TypeOK, PosInv, MuInv, ActiveInv,
               LoginInv, AdminBy, TimeBy, ReplyInv, ReplyMatchesDevice
  <2> QED BY <2>1, <2>2, <2>3
<1>2. CASE PollExit
  <2>1. TypeOK'
    BY <1>2 DEF PollExit, TypeOK, OpW, OpT
  <2>2. PosInv' /\ MuInv' /\ ActiveInv'
    BY <1>2 DEF PollExit, TypeOK, PosInv, MuInv, ActiveInv
  <2>3. LoginInv' /\ ReplyInv'
    BY <1>2 DEF PollExit, TypeOK, PosInv, MuInv, ActiveInv, LoginInv,
               AdminBy, TimeBy, ReplyInv, ReplyMatchesDevice
  <2> QED BY <2>1, <2>2, <2>3
<1>3. CASE PollSync
  <2>1. TypeOK'
    BY <1>3 DEF PollSync, TypeOK, OpW, OpT, SyncPos
  <2>2. PosInv' /\ MuInv' /\ ActiveInv'
    BY <1>3 DEF PollSync, TypeOK, PosInv, MuInv, ActiveInv
  <2>3. LoginInv' /\ ReplyInv'
    BY <1>3 DEF PollSync, TypeOK, PosInv, MuInv, ActiveInv, LoginInv,
               AdminBy, TimeBy, ReplyInv, ReplyMatchesDevice
  <2> QED BY <2>1, <2>2, <2>3
<1>4. CASE PollUnlock
  <2>1. TypeOK'
    BY <1>4 DEF PollUnlock, TypeOK, OpW, OpT
  <2>2. PosInv' /\ MuInv' /\ ActiveInv'
    BY <1>4 DEF PollUnlock, TypeOK, PosInv, MuInv, ActiveInv
  <2>3. LoginInv' /\ ReplyInv'
    BY <1>4 DEF PollUnlock, TypeOK, PosInv, MuInv, ActiveInv, LoginInv,
               AdminBy, TimeBy, ReplyInv, ReplyMatchesDevice
  <2> QED BY <2>1, <2>2, <2>3
<1>5. ASSUME NEW renew \in BOOLEAN, NEW scheduled \in BOOLEAN,
             NEW stale \in BOOLEAN, PollRead(renew, scheduled, stale)
      PROVE  IInv'
  <2>1. TypeOK'
    BY <1>5, EnvType DEF PollRead, TypeOK, OpW, OpT, StPos
  <2>2. PosInv' /\ MuInv' /\ ActiveInv'
    BY <1>5 DEF PollRead, TypeOK, PosInv, MuInv, ActiveInv
  <2>3. LoginInv' /\ ReplyInv'
    BY <1>5 DEF PollRead, TypeOK, PosInv, MuInv, ActiveInv, LoginInv,
               AdminBy, TimeBy, ReplyInv, ReplyMatchesDevice
  <2> QED BY <2>1, <2>2, <2>3
<1> QED BY <1>1, <1>2, <1>3, <1>4, <1>5 DEF TStep

LEMMA NextIInv == IInv /\ [Next]_vars => IInv'
<1> SUFFICES ASSUME IInv, [Next]_vars PROVE IInv'
  OBVIOUS
<1> USE SessionAssumption
    DEF IInv, Threads, Users, At, Goto, StGoto, SyncGoto, dev, logins, host, locals,
        ask, env
<1>1. ASSUME NEW kind \in Kinds, NEW c \in Clients, Begin(kind, c)
      PROVE  IInv'
  <2>1. TypeOK'
    BY <1>1 DEF Begin, FirstStep, TypeOK, OpW, OpT
  <2>2. PosInv' /\ MuInv' /\ ActiveInv'
    BY <1>1 DEF Begin, FirstStep, TypeOK, PosInv, MuInv, ActiveInv
  <2>3. LoginInv' /\ ReplyInv'
    BY <1>1 DEF Begin, FirstStep, TypeOK, PosInv, MuInv, ActiveInv, LoginInv,
               AdminBy, TimeBy, ReplyInv, ReplyMatchesDevice
  <2> QED BY <2>1, <2>2, <2>3
<1>2. CASE Shutdown
  <2>1. TypeOK'
    BY <1>2 DEF Shutdown, TypeOK, OpW, OpT
  <2>2. PosInv' /\ MuInv' /\ ActiveInv'
    BY <1>2 DEF Shutdown, TypeOK, OpT, PosInv, MuInv, ActiveInv
  <2>3. LoginInv' /\ ReplyInv'
    BY <1>2 DEF Shutdown, TypeOK, PosInv, MuInv, ActiveInv, LoginInv,
               AdminBy, TimeBy, ReplyInv, ReplyMatchesDevice
  <2> QED BY <2>1, <2>2, <2>3
<1>3. CASE Lapse
  <2>1. TypeOK'
    <3>1. selfTest' \in BOOLEAN /\ timeValid' \in BOOLEAN
      BY <1>3, Zenon DEF Lapse, TypeOK
    <3>2. /\ faults \in Nat /\ lapses \in Nat
          /\ login \subseteq Users /\ stray \subseteq Users
      BY DEF TypeOK
    <3>3. faults' = faults + 1 /\ lapses' = lapses + 1
          /\ login' \in {login, {}} /\ stray' \in {stray, {}}
      BY <1>3 DEF Lapse
    <3>4. login' \cup stray' \subseteq Users /\ faults' \in Nat /\ lapses' \in Nat
      BY <3>2, <3>3
    <3> QED BY <1>3, <3>1, <3>4 DEF Lapse, TypeOK
  <2>2. PosInv' /\ MuInv' /\ ActiveInv'
    BY <1>3 DEF Lapse, TypeOK, PosInv, MuInv, ActiveInv
  <2>3. LoginInv' /\ ReplyInv'
    BY <1>3 DEF Lapse, TypeOK, PosInv, MuInv, ActiveInv, LoginInv,
               AdminBy, TimeBy, ReplyInv, ReplyMatchesDevice
  <2> QED BY <2>1, <2>2, <2>3
<1>4. ASSUME NEW t \in Threads, Step(t) PROVE IInv'
  BY <1>4, InnerStepKeepsOuter, StStepIInv, SyncStepIInv DEF Step
<1>5. CASE UNCHANGED vars
  BY <1>5 DEF vars, TypeOK, PosInv, MuInv, ActiveInv, LoginInv, AdminBy,
              TimeBy, ReplyInv, ReplyMatchesDevice
<1> QED
  BY <1>1, <1>2, <1>3, <1>4, <1>5, WStepIInv, TStepIInv DEF Next

LEMMA SpecIInv == Spec => []IInv
BY InitIInv, NextIInv, PTL DEF Spec

\* The variables keep their types.
THEOREM TypeCorrect == Spec => []TypeOK
<1>1. IInv => TypeOK
  BY DEF IInv
<1> QED BY <1>1, SpecIInv, PTL

\* Every device call but the info read is made with g_worm_mu held
\* (tse_worm.c:953, 1013, 1445, 1504, 1570, 1706, 1720).
THEOREM LockSafety == Spec => []LockDiscipline
<1>1. IInv => LockDiscipline
  BY SessionAssumption DEF IInv, Threads, TypeOK, PosInv, MuInv, ActiveInv,
                           LockDiscipline, Busy, OpW, OpT
<1> QED BY <1>1, SpecIInv, PTL

\* Whoever gives g_worm_mu back has logged out, or tried to: a user who stays
\* logged in is one whose logout failed (tse_worm.c:828-840, 892-945,
\* 1446-1459).
THEOREM SessionSafety == Spec => []SessionsClosed
<1>1. IInv => SessionsClosed
  BY SessionAssumption DEF IInv, Threads, Users, TypeOK, PosInv, MuInv,
                           ActiveInv, LoginInv, AdminBy, TimeBy, SessionsClosed
<1> QED BY <1>1, SpecIInv, PTL

\* Admin and TimeAdmin sessions overlap only behind a failed logout
\* (tse_worm.c:838-840, 926-928).
THEOREM SingleSession == Spec => []OneSession
<1>1. IInv => OneSession
  BY SessionAssumption DEF IInv, Threads, Users, TypeOK, PosInv, MuInv,
                           ActiveInv, LoginInv, AdminBy, TimeBy, OneSession
<1> QED BY <1>1, SpecIInv, PTL

\* No device call follows tse_worm_shutdown (tse_worm.c:1014, 1129, 1419).
THEOREM StoreSafety == Spec => []StoreLive
<1>1. IInv => StoreLive
  BY SessionAssumption DEF IInv, Threads, TypeOK, PosInv, ActiveInv, StoreLive,
                           Busy
<1> QED BY <1>1, SpecIInv, PTL

\* The retry after a recovery never doubles an effect (tse_worm.c:1524-1546,
\* 1608-1633).
THEOREM ReplySafety == Spec => []ReplyMatchesDevice
<1>1. IInv => ReplyMatchesDevice
  BY DEF IInv, ReplyInv
<1> QED BY <1>1, SpecIInv, PTL

(***************************************************************************)
(* One lapse is seen through.                                              *)
(***************************************************************************)
\* W has the lock and works on a start, a finish or an export.
Locked == op[W] \in {"clock", "call", "recover", "retry"}

\* As long as no call fails, W runs a self-test only when it is missing, and
\* then is not logged in; it registers Startup only when the other client has
\* been found unknown to the device.
SelfTestInv ==
  /\ st[W] # "logout"
  /\ st[W] \in {"run", "login", "register", "rerun"} => ~selfTest
  /\ st[W] \in {"login", "register"} => Candidate \notin registered
  /\ st[W] = "register" => ~adm[W]
  /\ st[W] = "rerun" => Startup \in registered
  /\ sync[W] = "relogout" => ~selfTest

\* The self-test can be passed with the client about to be used.
Can == SelfTestPossible \/ st[W] = "rerun"

\* A time sync that nothing disturbs.
OnCourse ==
  /\ selfTest /\ sync[W] \in {"off", "start", "login1", "update1", "logout"}
  /\ sync[W] = "update1" => "time" \in login
  /\ sync[W] \in {"off", "logout"} => timeValid

\* The checks before the call are undone only by a lapse; and what recovers
\* from it runs when it has been.
CourseInv ==
  /\ op[W] = "clock" /\ st[W] = "off" => selfTest \/ lapses = 1
  /\ op[W] = "call" /\ lapses = 0 => OnCourse
  /\ op[W] = "recover" => lapses = 1 /\ (st[W] = "off" => selfTest)
  /\ op[W] = "retry" => lapses = 1 /\ OnCourse

LapseInv ==
  Locked /\ ~failed /\ "time" \in Pins =>
    /\ SelfTestInv
    /\ Can /\ lapses <= 1 => CourseInv

\* A call that does not fail tells the truth.
LEMMA Truth ==
  ASSUME ~failed'
  PROVE  /\ \A code, rc : Returns(code, rc) => rc = code /\ UNCHANGED env
         /\ \A seen : SeesSelfTest(seen) => seen = selfTest /\ UNCHANGED env
         /\ \A seen : SeesTime(seen) => seen = timeValid /\ UNCHANGED env
         /\ \A u, rc : LoginCall(u, rc) => rc = LoginCode /\ UNCHANGED env
         /\ \A u : LogoutCall(u) => UNCHANGED env
<1>1. ~Fails
  BY Zenon DEF Fails
<1> QED
  BY <1>1, Zenon
  DEF Returns, SeesSelfTest, SeesTime, Sees, LoginCall, LogoutCall

\* Nothing that LapseInv is about changes.
LEMMA LapseSame ==
  ASSUME LapseInv,
         UNCHANGED <<op[W], st[W], sync[W], adm[W], selfTest, timeValid, login, registered,
                     known, lapses, failed>>
  PROVE  LapseInv'
BY Zenon DEF LapseInv, Locked, SelfTestInv, Can, SelfTestPossible, Candidate, CourseInv, OnCourse

\* While W has the lock, T sleeps.
LEMMA TSleeps ==
  ASSUME IInv, Locked
  PROVE  /\ mu = W /\ op[T] \in {"sleep", "exited"} /\ sync[T] = "off" /\ st[T] = "off"
         /\ active
BY SessionAssumption DEF IInv, TypeOK, PosInv, MuInv, ActiveInv, Locked, OpW, OpT, Threads

LEMMA TLapse ==
  ASSUME IInv, LapseInv, TStep \/ Step(T) PROVE LapseInv'
<1>1. op'[W] = op[W]
  BY SessionAssumption
     DEF TStep, PollLock, PollExit, PollRead, PollSync, PollUnlock, Goto, Step, StStep, SyncStep,
         StCheck, StRun, StLogin, StRegister, StLogout, StRerun, SyncStart, SyncLogin,
         SyncUpdate, SyncRelogout, SyncLogout, IInv, TypeOK, Threads
<1>2. CASE ~Locked
  BY <1>1, <1>2 DEF LapseInv, Locked
<1>3. CASE Locked
  <2>1. PollExit
    BY <1>3, TSleeps, SessionAssumption
       DEF TStep, PollLock, PollRead, PollSync, PollUnlock, At, Step, StStep, SyncStep,
           StCheck, StRun, StLogin, StRegister, StLogout, StRerun, StAt, SyncAt, SyncStart,
           SyncLogin, SyncUpdate, SyncRelogout, SyncLogout
  <2> QED BY <1>1, <2>1, LapseSame DEF PollExit, dev, logins, host, locals, env
<1> QED BY <1>2, <1>3

LEMMA LapseLapse ==
  ASSUME IInv, LapseInv, Lapse PROVE LapseInv'
<1> SUFFICES ASSUME Locked', ~failed', "time" \in Pins
             PROVE  SelfTestInv' /\ (Can' /\ lapses' <= 1 => CourseInv')
  BY DEF LapseInv
<1>1. /\ UNCHANGED <<op, sync, st, adm, known, registered, failed>>
      /\ lapses' = lapses + 1 /\ lapses \in Nat /\ (selfTest' => selfTest)
  BY DEF Lapse, host, locals, IInv, TypeOK
<1>2. SelfTestInv /\ (Can /\ lapses <= 1 => CourseInv)
  BY <1>1 DEF LapseInv, Locked
<1>3. SelfTestInv'
  BY <1>1, <1>2 DEF SelfTestInv, Candidate
<1>4. Can' => Can
  BY <1>1 DEF Can, SelfTestPossible, Candidate
<1>5. ASSUME Can', lapses' <= 1 PROVE CourseInv'
  <2>1. lapses = 0 /\ lapses' = 1 /\ CourseInv
    BY <1>1, <1>2, <1>4, <1>5
  <2> QED BY <1>1, <2>1 DEF CourseInv
<1> QED BY <1>3, <1>5

\* The device is as CourseInv and SelfTestInv say, while W works on a call.
LEMMA InLock ==
  ASSUME IInv, LapseInv, Locked, ~failed, "time" \in Pins
  PROVE  SelfTestInv /\ lapses \in Nat /\ (Can /\ lapses <= 1 => CourseInv)
BY DEF LapseInv, IInv, TypeOK

LEMMA OutLapse ==
  ASSUME ~Locked' PROVE LapseInv'
BY DEF LapseInv

LEMMA BootLapse ==
  ASSUME IInv,
         \/ BootTime \/ BootDone \/ Info \/ RegLock \/ RegLogin \/ Register
         \/ RegLogout \/ RegMark \/ Retry \/ Shutdown
         \/ \E kind \in Kinds, c \in Clients : Begin(kind, c)
  PROVE  LapseInv'
<1>1. ~Locked'
  BY SessionAssumption
     DEF IInv, TypeOK, Threads, BootTime, BootDone, Info, RegLock, RegLogin, Register,
         RegLogout, RegMark, Retry, Shutdown, Begin, FirstStep, Answer, Goto, Locked
<1> QED BY <1>1, OutLapse

LEMMA LockLapse ==
  ASSUME IInv, LapseInv, Lock PROVE LapseInv'
<1>1. op'[W] = "clock" /\ st'[W] = "check" /\ sync'[W] = "off"
  BY SessionAssumption DEF IInv, TypeOK, Threads, Lock, At, Goto, StGoto
<1> QED BY <1>1 DEF LapseInv, SelfTestInv, CourseInv

LEMMA ClockLapse ==
  ASSUME IInv, LapseInv, Clock PROVE LapseInv'
<1> SUFFICES ASSUME Locked', ~failed', "time" \in Pins
             PROVE  SelfTestInv' /\ (Can' /\ lapses' <= 1 => CourseInv')
  BY DEF LapseInv
<1>1. /\ op[W] = "clock" /\ op'[W] = "call" /\ st[W] = "off" /\ st' = st
      /\ UNCHANGED <<selfTest, timeValid, login, registered, known>>
  BY SessionAssumption DEF IInv, TypeOK, Threads, Clock, At, Goto, dev, logins, host
<1>2. /\ UNCHANGED <<lapses, failed>>
      /\ sync'[W] = IF timeValid THEN "off" ELSE "start"
  BY Truth, SessionAssumption DEF Clock, SyncGoto, env, IInv, TypeOK, Threads
<1>3. SelfTestInv /\ lapses \in Nat /\ (Can /\ lapses <= 1 => CourseInv)
  BY <1>1, <1>2, InLock DEF Locked
<1>4. Can' => Can
  BY <1>1 DEF Can, SelfTestPossible, Candidate
<1>5. SelfTestInv'
  BY <1>1, <1>2 DEF SelfTestInv
<1>6. ASSUME Can', lapses' <= 1 PROVE CourseInv'
  <2>1. selfTest \/ lapses = 1
    BY <1>1, <1>2, <1>3, <1>4, <1>6 DEF CourseInv
  <2> QED BY <1>1, <1>2, <2>1 DEF CourseInv, OnCourse
<1> QED BY <1>5, <1>6

LEMMA CallLapse ==
  ASSUME IInv, LapseInv, Call PROVE LapseInv'
<1> SUFFICES ASSUME Locked', ~failed', "time" \in Pins
             PROVE  SelfTestInv' /\ (Can' /\ lapses' <= 1 => CourseInv')
  BY DEF LapseInv
<1>1. /\ op[W] = "call" /\ st[W] = "off" /\ sync[W] = "off"
      /\ UNCHANGED <<selfTest, timeValid, login, registered, known>>
  BY SessionAssumption DEF IInv, TypeOK, Threads, Call, At, host, logins
<1>2. UNCHANGED <<lapses, failed>>
  BY Truth, Zenon DEF Call, env
<1>3. \/ /\ TxCode = "needST" /\ op'[W] = "recover" /\ st'[W] = "run" /\ sync' = sync
      \/ /\ TxCode = "noTime" /\ op'[W] = "retry" /\ st' = st /\ sync'[W] = "start"
  <2>1. PICK rc \in Codes :
          /\ Returns(TxCode, rc)
          /\ \/ ~Retryable(rc) /\ Answer(rc) /\ UNCHANGED <<sync, st>>
             \/ /\ Retryable(rc) /\ NeedsSelfTest(rc)
                /\ Goto(W, "recover") /\ StGoto(W, "run")
                /\ UNCHANGED <<sync, mu, reply>>
             \/ /\ Retryable(rc) /\ ~NeedsSelfTest(rc)
                /\ Goto(W, "retry") /\ SyncGoto(W, "start")
                /\ UNCHANGED <<st, mu, reply>>
    BY Zenon DEF Call
  <2>0. rc = TxCode
    BY <2>1, Truth, Zenon
  <2>2. ~Answer(rc)
    BY SessionAssumption DEF Answer, Goto, Locked, IInv, TypeOK, Threads
  <2> QED BY <2>0, <2>1, <2>2, SessionAssumption
          DEF Retryable, NeedsSelfTest, Goto, StGoto, SyncGoto, IInv, TypeOK, Threads
<1>4. TxCode = "needST" => ~selfTest
  BY DEF TxCode, Gated
<1>5. TxCode = "noTime" => selfTest /\ ~timeValid
  BY DEF TxCode, Gated
<1>6. SelfTestInv /\ lapses \in Nat /\ (Can /\ lapses <= 1 => CourseInv)
  BY <1>1, <1>2, InLock DEF Locked
<1>7. Can' => Can
  BY <1>1, <1>3 DEF Can, SelfTestPossible, Candidate
<1>8. SelfTestInv'
  BY <1>1, <1>3, <1>4 DEF SelfTestInv
<1>9. ASSUME Can', lapses' <= 1 PROVE CourseInv'
  <2>1. lapses = 0 => selfTest /\ timeValid
    BY <1>1, <1>2, <1>6, <1>7, <1>9 DEF CourseInv, OnCourse
  <2>2. lapses' = 1
    BY <1>2, <1>3, <1>4, <1>5, <1>6, <1>9, <2>1
  <2> QED BY <1>1, <1>3, <1>5, <2>2 DEF CourseInv, OnCourse
<1> QED BY <1>8, <1>9

LEMMA RecoverLapse ==
  ASSUME IInv, LapseInv, Recover PROVE LapseInv'
<1> SUFFICES ASSUME Locked', ~failed', "time" \in Pins
             PROVE  SelfTestInv' /\ (Can' /\ lapses' <= 1 => CourseInv')
  BY DEF LapseInv
<1>1. /\ op[W] = "recover" /\ op'[W] = "retry" /\ st[W] = "off" /\ st' = st
      /\ sync'[W] = "start"
      /\ UNCHANGED <<selfTest, timeValid, login, registered, known, lapses, failed>>
  BY SessionAssumption
     DEF IInv, TypeOK, Threads, Recover, At, Goto, SyncGoto, dev, logins, host, env
<1>2. SelfTestInv /\ (Can /\ lapses <= 1 => CourseInv)
  BY <1>1, InLock DEF Locked
<1>3. Can' => Can
  BY <1>1 DEF Can, SelfTestPossible, Candidate
<1> QED BY <1>1, <1>2, <1>3 DEF SelfTestInv, CourseInv, OnCourse

LEMMA SelfTestLapse ==
  ASSUME IInv, LapseInv, StStep(W) PROVE LapseInv'
<1> SUFFICES ASSUME Locked', ~failed', "time" \in Pins
             PROVE  SelfTestInv' /\ (Can' /\ lapses' <= 1 => CourseInv')
  BY DEF LapseInv
<1>1. /\ st[W] \in StPos \ {"off"} /\ UNCHANGED <<op, sync, timeValid>>
      /\ UNCHANGED lapses /\ ~failed /\ sync[W] # "relogout"
  <2>1. UNCHANGED <<op, sync, timeValid>> /\ st[W] # "off"
    BY DEF StStep, StCheck, StRun, StLogin, StRegister, StLogout, StRerun, StAt, dev, logins
  <2>2. UNCHANGED <<lapses, failed>>
    BY Truth, Zenon
       DEF StStep, StCheck, StRun, StLogin, StRegister, StLogout, StRerun, AdminLogin, env
  <2> QED BY <2>1, <2>2 DEF IInv, TypeOK, PosInv, Threads
<1>2. SelfTestInv /\ lapses \in Nat /\ (Can /\ lapses <= 1 => CourseInv)
  BY <1>1, InLock DEF Locked
\* What the step must do for the rest to stay.
<1> DEFINE Good == /\ SelfTestInv' /\ (Can' => Can) /\ login' = login
                   /\ selfTest => selfTest'
                   /\ st'[W] = "off" => selfTest' \/ ~Can'
<1>3. Good
  <2>1. CASE StCheck(W)
    <3>1. /\ st'[W] = IF selfTest THEN "off" ELSE "run"
          /\ UNCHANGED <<selfTest, login, registered, known>> /\ st[W] = "check"
      BY <2>1, Truth, SessionAssumption
         DEF StCheck, StAt, StGoto, dev, logins, host, IInv, TypeOK, Threads
    <3> QED BY <1>1, <1>2, <3>1 DEF SelfTestInv, Can, SelfTestPossible, Candidate
  <2>2. CASE StRun(W)
    <3>1. /\ st[W] = "run" /\ UNCHANGED <<login, registered>>
          /\ IF Candidate \in registered
             THEN selfTest' = TRUE /\ known' = Candidate /\ st'[W] = "off"
             ELSE st'[W] = "login" /\ UNCHANGED <<selfTest, known>>
      BY <2>2, Truth, SessionAssumption
         DEF StRun, SelfTestCode, StAt, StGoto, logins, IInv, TypeOK, Threads
    <3>2. CASE Candidate \in registered
      <4>1. selfTest' /\ st'[W] = "off" /\ UNCHANGED <<login, sync>>
        BY <1>1, <3>1, <3>2
      <4>2. Can
        BY <3>2 DEF Can, SelfTestPossible
      <4> QED BY <1>1, <1>2, <4>1, <4>2 DEF SelfTestInv
    <3>3. CASE Candidate \notin registered
      <4>1. /\ st'[W] = "login" /\ UNCHANGED <<selfTest, known, login, registered, sync>>
            /\ ~selfTest
        BY <1>1, <1>2, <3>1, <3>3 DEF SelfTestInv
      <4> QED BY <3>1, <3>3, <4>1 DEF SelfTestInv, Can, SelfTestPossible, Candidate
    <3> QED BY <3>2, <3>3
  <2>3. CASE StLogin(W)
    <3>1. /\ st[W] = "login" /\ st'[W] = "register"
          /\ UNCHANGED <<selfTest, registered, known>>
      BY <2>3, SessionAssumption DEF StLogin, StAt, StGoto, host, IInv, TypeOK, Threads
    <3>2. adm'[W] = FALSE /\ login' = login
      BY <1>2, <2>3, <3>1, Truth, SessionAssumption
         DEF StLogin, AdminLogin, LoginCall, LoginCode, logins, SelfTestInv,
             IInv, TypeOK, Threads
    <3> QED BY <1>1, <1>2, <3>1, <3>2 DEF SelfTestInv, Can, SelfTestPossible, Candidate
  <2>4. CASE StRegister(W)
    <3>1. /\ st[W] = "register" /\ UNCHANGED <<selfTest, login, known>>
          /\ ~selfTest /\ ~adm[W] /\ Candidate \notin registered
      BY <1>2, <2>4 DEF StRegister, StAt, host, logins, SelfTestInv
    <3>2. IF RegisterCode(Startup) = "ok"
          THEN registered' = registered \cup {Startup} /\ st'[W] = "rerun"
          ELSE registered' = registered /\ st'[W] = "off"
      BY <2>4, <3>1, Truth, SessionAssumption
         DEF StRegister, StGoto, IInv, TypeOK, Threads
    <3>3. RegisterCode(Startup) = "ok" <=> Startup \notin registered /\ RegisterBeforeSelfTest
      BY <3>1 DEF RegisterCode
    <3> QED BY <1>1, <1>2, <3>1, <3>2, <3>3 DEF SelfTestInv, Can, SelfTestPossible, Candidate
  <2>5. CASE StLogout(W)
    BY <1>2, <2>5 DEF StLogout, LogoutCall, StAt, SelfTestInv
  <2>6. CASE StRerun(W)
    <3>1. /\ st[W] = "rerun" /\ st'[W] = "off" /\ UNCHANGED <<login, registered>>
          /\ Startup \in registered
      BY <1>2, <2>6, SessionAssumption
         DEF StRerun, StAt, StGoto, logins, SelfTestInv, IInv, TypeOK, Threads
    <3>2. selfTest' = TRUE /\ known' = Startup
      <4>1. PICK rc \in Codes :
              /\ Returns(SelfTestCode(Startup), rc)
              /\ IF rc = "ok" THEN selfTest' = TRUE /\ known' = Startup
                 ELSE UNCHANGED <<selfTest, known>>
        BY <2>6 DEF StRerun
      <4>2. rc = "ok"
        BY <3>1, <4>1, Truth, Zenon DEF SelfTestCode
      <4> QED BY <4>1, <4>2
    <3>3. SelfTestInv' /\ login' = login
      BY <1>1, <1>2, <3>1, <3>2 DEF SelfTestInv
    <3> QED BY <3>1, <3>2, <3>3 DEF Can
  <2> QED BY <2>1, <2>2, <2>3, <2>4, <2>5, <2>6 DEF StStep
<1>4. ASSUME Can', lapses' <= 1 PROVE CourseInv'
  BY <1>1, <1>2, <1>3, <1>4 DEF CourseInv, OnCourse
<1> QED BY <1>3, <1>4

LEMMA SyncLapse ==
  ASSUME IInv, LapseInv, SyncStep(W) PROVE LapseInv'
<1> SUFFICES ASSUME Locked', ~failed', "time" \in Pins
             PROVE  SelfTestInv' /\ (Can' /\ lapses' <= 1 => CourseInv')
  BY DEF LapseInv
<1> DEFINE Kept == UNCHANGED <<selfTest, registered, known>>
           Good == /\ SelfTestInv' /\ Kept /\ st'[W] # "rerun"
                   /\ OnCourse => OnCourse'
<1>1. /\ st[W] = "off" /\ sync[W] # "off" /\ UNCHANGED op
      /\ UNCHANGED lapses /\ ~failed
  <2>1. UNCHANGED op /\ st[W] = "off" /\ sync[W] # "off"
    BY DEF SyncStep, SyncStart, SyncLogin, SyncUpdate, SyncRelogout, SyncLogout, SyncAt
  <2>2. UNCHANGED <<lapses, failed>>
    BY Truth, Zenon
       DEF SyncStep, SyncStart, SyncLogin, SyncUpdate, SyncRelogout, SyncLogout, env
  <2> QED BY <2>1, <2>2
<1>2. SelfTestInv /\ lapses \in Nat /\ (Can /\ lapses <= 1 => CourseInv)
  BY <1>1, InLock DEF Locked
<1>3. op[W] \in {"call", "retry"}
  BY <1>1 DEF IInv, PosInv, Locked
<1>4. Good
  <2>1. CASE SyncStart(W)
    BY <1>1, <1>2, <2>1, SessionAssumption
       DEF SyncStart, SyncAt, SyncGoto, StGoto, HasPin, dev, logins, host, SelfTestInv, OnCourse,
           IInv, TypeOK, Threads
  <2>2. ASSUME NEW pos \in {"login1", "login2", "login3"},
               NEW next \in {"update1", "update2"}, SyncLogin(W, pos, next),
               pos = "login3" <=> next = "update2"
        PROVE  Good
    <3>1. sync[W] = pos /\ Kept /\ UNCHANGED timeValid
      BY <2>2 DEF SyncLogin, LoginCall, SyncAt, host
    <3>2. IF selfTest
          THEN login' = login \cup {"time"} /\ sync'[W] = next /\ st' = st
          ELSE \/ sync'[W] = "login2" /\ st'[W] = "run"
               \/ sync'[W] = "off" /\ st' = st
      BY <2>2, Truth, SessionAssumption
         DEF SyncLogin, LoginCall, LoginCode, NeedsSelfTest, SyncGoto, StGoto, IInv, TypeOK, Threads
    <3> QED BY <1>1, <1>2, <2>2, <3>1, <3>2 DEF SelfTestInv, OnCourse
  <2>3. ASSUME NEW pos \in {"update1", "update2"}, SyncUpdate(W, pos) PROVE Good
    <3>1. sync[W] = pos /\ Kept /\ st' = st /\ login' = login
      BY <2>3 DEF SyncUpdate, SyncAt, logins
    <3>2. /\ sync'[W] = IF NeedsSelfTest(UpdateCode) /\ pos = "update1"
                        THEN "relogout" ELSE "logout"
          /\ UpdateCode = "ok" => timeValid' = TRUE
      BY <2>3, Truth, SessionAssumption
         DEF SyncUpdate, SyncGoto, IInv, TypeOK, Threads
    <3> QED BY <1>1, <1>2, <3>1, <3>2
            DEF SelfTestInv, OnCourse, UpdateCode, NeedsSelfTest
  <2>4. CASE SyncRelogout(W)
    BY <1>1, <1>2, <2>4, SessionAssumption
       DEF SyncRelogout, LogoutCall, SyncAt, SyncGoto, StGoto, host, SelfTestInv, OnCourse,
           IInv, TypeOK, Threads
  <2>5. CASE SyncLogout(W)
    BY <1>1, <1>2, <2>5, SessionAssumption
       DEF SyncLogout, LogoutCall, SyncAt, SyncGoto, host, SelfTestInv, OnCourse, IInv, TypeOK, Threads
  <2> QED BY <2>1, <2>2, <2>3, <2>4, <2>5 DEF SyncStep
<1>5. Can' => Can
  BY <1>1, <1>4 DEF Can, SelfTestPossible, Candidate, SelfTestInv
<1>6. ASSUME Can', lapses' <= 1 PROVE CourseInv'
  BY <1>1, <1>2, <1>3, <1>4, <1>5, <1>6 DEF CourseInv
<1> QED BY <1>4, <1>6

LEMMA NextLapse == IInv /\ LapseInv /\ [Next]_vars => LapseInv'
<1> SUFFICES ASSUME IInv, LapseInv, [Next]_vars PROVE LapseInv'
  OBVIOUS
<1>1. CASE Lapse
  BY <1>1, LapseLapse
<1>2. CASE TStep \/ Step(T)
  BY <1>2, TLapse
<1>3. CASE Step(W)
  BY <1>3, SelfTestLapse, SyncLapse DEF Step
<1>4. CASE WStep
  BY <1>4, BootLapse, LockLapse, ClockLapse, CallLapse, RecoverLapse DEF WStep
<1>5. CASE Shutdown \/ \E kind \in Kinds, c \in Clients : Begin(kind, c)
  BY <1>5, BootLapse
<1>6. CASE UNCHANGED vars
  BY <1>6, LapseSame DEF vars, dev, logins, host, locals, env
<1> QED BY <1>1, <1>2, <1>3, <1>4, <1>5, <1>6 DEF Next, Threads

\* A code of the device that is neither ok nor recoverable is a refusal.
LEMMA ErrorRefuses ==
  ASSUME TypeOK, job.kind \in {"start", "finish"}, TxCode = "error"
  PROVE  MustRefuse
<1> DEFINE Inner == CASE job.kind = "start" ->
                           IF Safe[job.client] \in registered /\ openTx < MaxTx
                           THEN "ok" ELSE "error"
                      [] job.kind = "finish" -> IF openTx > 0 THEN "ok" ELSE "error"
                      [] OTHER -> "ok"
<1>1. TxCode = Gated(Inner)
  BY DEF TxCode
<1>2. Inner = "error"
  <2> HIDE DEF Inner
  <2> QED BY <1>1 DEF Gated
<1>3. openTx \in Nat
  BY DEF TypeOK
<1>4. CASE job.kind = "start"
  BY <1>2, <1>4, SessionAssumption, <1>3 DEF MustRefuse
<1>5. CASE job.kind = "finish"
  BY <1>2, <1>3, <1>5 DEF MustRefuse
<1> QED BY <1>4, <1>5

\* A device that is as it must be returns no code to recover from.
LEMMA CodeOnCourse ==
  ASSUME OnCourse, sync[W] = "off" PROVE TxCode \in {"ok", "error"}
BY DEF OnCourse, TxCode, Gated

\* Only the call and its repetition answer a start or a finish.
LEMMA WhoAnswers ==
  ASSUME IInv, [Next]_vars, reply = "none", reply' = "err",
         job.kind \in {"start", "finish"}
  PROVE  Call \/ Retry
<1> USE DEF ask
<1>1. CASE WStep
  <2>1. ~RegMark
    <3>1. ASSUME RegMark PROVE FALSE
      <4>1. job.kind = "start"
        BY <3>1 DEF RegMark, At, IInv, ReplyInv
      <4> QED BY <3>1, <4>1 DEF RegMark
    <3> QED BY <3>1
  <2> QED BY <1>1, <2>1
          DEF WStep, BootTime, BootDone, Info, RegLock, RegLogin, Register, RegLogout,
              Lock, Clock, Recover
<1>2. CASE TStep
  BY <1>2 DEF TStep, PollLock, PollExit, PollRead, PollSync, PollUnlock
<1>3. ~ \E t \in Threads : Step(t)
  BY DEF Step, StStep, SyncStep, StCheck, StRun, StLogin, StRegister, StLogout, StRerun,
         SyncStart, SyncLogin, SyncUpdate, SyncRelogout, SyncLogout
<1>4. ~ \E kind \in Kinds, c \in Clients : Begin(kind, c)
  BY DEF Begin
<1>5. ~Shutdown /\ ~Lapse /\ ~UNCHANGED vars
  BY DEF Shutdown, Lapse, vars
<1> QED BY <1>1, <1>2, <1>3, <1>4, <1>5 DEF Next

\* Checks, recovery and retry together see a start or a finish through one
\* lapse of the device at any point of it (tse_worm.c:955-972, 1505-1510,
\* 1527-1537, 1579-1584, 1612-1623): it is refused only where the device must refuse it.
THEOREM LapseSeenThrough == Spec => OneLapseTolerated
<1>1. Init => LapseInv
  BY SessionAssumption DEF Init, LapseInv, Locked, Threads
<1>2. IInv /\ LapseInv /\ [Next]_vars
        => [/\ reply = "none" /\ reply' = "err" /\ job.kind \in {"start", "finish"}
            /\ lapses <= 1 /\ ~failed' /\ "time" \in Pins /\ SelfTestPossible
            => MustRefuse]_vars
  <2> SUFFICES ASSUME IInv, LapseInv, [Next]_vars, reply = "none", reply' = "err",
                      job.kind \in {"start", "finish"}, lapses <= 1, ~failed',
                      "time" \in Pins, SelfTestPossible
               PROVE  MustRefuse
    OBVIOUS
  <2>1. CASE Call
    <3>1. PICK rc \in Codes : Returns(TxCode, rc) /\ (Answer(rc) => ~Retryable(rc))
                              /\ (Answer(rc) \/ UNCHANGED reply)
      BY <2>1 DEF Call
    <3>2. rc = TxCode
      BY <3>1, Truth, Zenon
    <3>3. Answer(rc) /\ ~Retryable(rc)
      BY <3>1
    <3>4. rc = "error"
      BY <3>3 DEF Answer, Retryable, Codes
    <3> QED BY <3>2, <3>4, ErrorRefuses DEF IInv
  <2>2. CASE Retry
    <3>1. PICK rc \in Codes : Returns(TxCode, rc) /\ Answer(rc)
      BY <2>2 DEF Retry
    <3>2. rc = TxCode /\ UNCHANGED env
      BY <3>1, Truth, Zenon
    <3>3. op[W] = "retry" /\ sync[W] = "off" /\ ~failed
      BY <2>2, <3>2 DEF Retry, At, env
    <3>4. OnCourse
      BY <3>3, InLock DEF Locked, Can, CourseInv
    <3>5. TxCode = "error"
      BY <3>1, <3>2, <3>3, <3>4, CodeOnCourse DEF Answer
    <3> QED BY <3>5, ErrorRefuses DEF IInv
  <2> QED BY <2>1, <2>2, WhoAnswers
<1>3. IInv /\ LapseInv /\ [Next]_vars => LapseInv'
  BY NextLapse
<1> QED BY <1>1, <1>2, <1>3, SpecIInv, PTL DEF Spec, OneLapseTolerated
=============================================================================
