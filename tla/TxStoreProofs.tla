---------------------------- MODULE TxStoreProofs ----------------------------
(***************************************************************************)
(* Proofs about TxStore, for every number of clients, transactions,        *)
(* crashes and failed writes.  Where one signer owns the database no       *)
(* operation is acknowledged twice, and what is acknowledged is on record  *)
(* as long as no failed write was ignored.  Whichever modes the restarts   *)
(* come up in, the table is a ledger in which the TSE's rows replace the   *)
(* simulator's, and only those rows can stop the simulator from signing.   *)
(***************************************************************************)
EXTENDS TxStore, FiniteSetTheorems, TLAPS

Sim == signers = {"sim"}
Hw  == signers = {"hw"}

\* The request in progress agrees with the place its handler has reached.
AtInv ==
  /\ mode \in signers \cup {"down"} /\ (Hw \/ Sim)
  /\ mode = "down" => pc = "idle" /\ reply = "none"
  /\ Hw => pc \in {"idle", "mirror", "close"}
  /\ Sim => pc \in {"idle", "sig", "insert", "finSig", "update", "select"}
  /\ pc \in {"mirror", "sig", "insert"} => req.kind = "start"
  /\ pc \in {"close", "finSig", "update"} => req.kind = "finish"
  /\ pc # "idle" => req.num \in Numbers

\* What the request will do to its row is still possible when it gets there.
RowInv ==
  /\ pc \in {"finSig", "update"} => state[req.num] = "ACTIVE"
  /\ Hw => /\ devNum <= MaxNum /\ devOpen \subseteq Numbers
           /\ \A n \in devOpen : n <= devNum /\ state[n] # "FINISHED"
           /\ \A n \in Numbers : n > devNum => state[n] = "none"
           /\ pc = "mirror" => req.num = devNum /\ state[req.num] = "none"
           /\ pc = "close" => /\ req.num \notin devOpen /\ req.num <= devNum
                              /\ state[req.num] # "FINISHED"

\* What was acknowledged is behind the table, or behind the device.
AckInv ==
  /\ \A a \in acked : a.num \in Numbers
  /\ Sim => \A a \in acked :
              /\ a.kind = "start" => /\ state[a.num] # "none"
                                     /\ owner[a.num] = a.client
              /\ a.kind = "finish" => state[a.num] = "FINISHED"
  /\ Sim /\ pc = "select" =>
       /\ req.kind = "start" => /\ state[req.num] # "none"
                                /\ owner[req.num] = req.client
       /\ req.kind = "finish" => state[req.num] = "FINISHED"
  /\ Hw => \A a \in acked :
              /\ a.num <= devNum
              /\ a.kind = "finish" => a.num \notin devOpen
  /\ pc \in {"mirror", "close", "select"} =>
       \A a \in acked : a.kind = req.kind => a.num # req.num

\* The signature counter is ahead of every signature that was handed out.
SigInv ==
  ~lost =>
    /\ Sim => /\ \A a \in acked : a.sig <= sigc
              /\ pc \in {"insert", "update", "select"} =>
                   req.sig <= sigc /\ \A a \in acked : a.sig # req.sig
    /\ Hw => /\ \A a \in acked : a.sig <= devSig
             /\ pc \in {"mirror", "close"} =>
                  req.sig <= devSig /\ \A a \in acked : a.sig # req.sig

\* As long as no write was lost, the table keeps up with the device: what
\* was acknowledged is on record.
RecInv ==
  /\ \A n \in Numbers : owner[n] = "none" <=> state[n] = "none"
  /\ Hw => /\ pc = "mirror" => req.num \in devOpen
           /\ ~lost => AckedOnRecord

IInv == TypeOK /\ AtInv /\ RowInv /\ AckInv /\ SigInv /\ RecInv
        /\ AckedOnce /\ SignaturesDistinct

LEMMA InitTypeOK == ASSUME Init PROVE TypeOK
<1>1. hit \in BOOLEAN /\ lost \in BOOLEAN
  BY DEF Init
<1>2. req \in Requests
  BY DEF Init, Requests
<1> QED BY <1>1, <1>2, StoreAssumption DEF Init, TypeOK, Numbers

LEMMA InitIInv == ASSUME OneSigner, Init PROVE IInv
<1> USE StoreAssumption DEF Init
<1>1. TypeOK
  BY InitTypeOK
<1>2. AtInv /\ RowInv
  <2>1. Hw \/ Sim
    BY DEF OneSigner, Hw, Sim
  <2> QED BY <2>1 DEF AtInv, RowInv, Hw, Sim, Numbers
<1>3. AckInv /\ SigInv /\ AckedOnce /\ SignaturesDistinct
  BY DEF AckInv, SigInv, AckedOnce, SignaturesDistinct
<1>4. RecInv
  BY DEF RecInv, AckedOnRecord, Numbers
<1> QED BY <1>1, <1>2, <1>3, <1>4 DEF IInv

\* What a call that may fail does to the ghosts.
LEMMA FaultTypes ==
  ASSUME TypeOK, NEW f \in BOOLEAN, Fails(f) \/ FirstFails(f)
  PROVE  fails' \in Nat /\ hit' \in BOOLEAN
<1>1. fails' \in Nat
  BY DEF Fails, FirstFails, TypeOK
<1>2. hit' \in BOOLEAN
  BY Zenon DEF Fails, FirstFails, TypeOK
<1> QED BY <1>1, <1>2

LEMMA TypeStep ==
  ASSUME TypeOK, [Next]_vars
  PROVE  TypeOK'
<1> USE StoreAssumption
<1> DEFINE Data == /\ req \in Requests /\ acked \subseteq Requests
                   /\ signers \in SUBSET {"hw", "sim"}
                   /\ mode \in {"down", "hw", "sim"}
                   /\ pc \in {"idle", "mirror", "close", "sig", "insert",
                              "finSig", "update", "select"}
                   /\ reply \in {"none", "ok", "err", "junk"}
                   /\ txc \in Nat /\ sigc \in Nat
                   /\ owner \in [Numbers -> Clients \cup {"none"}]
                   /\ state \in [Numbers -> {"none", "ACTIVE", "FINISHED"}]
                   /\ by \in [Numbers -> {"none", "hw", "sim"}]
                   /\ devNum \in Nat /\ devSig \in Nat
                   /\ devOpen \subseteq Nat /\ crashes \in Nat
           Ghosts == fails \in Nat /\ hit \in BOOLEAN /\ lost \in BOOLEAN
<1> SUFFICES Data' /\ Ghosts'
  BY DEF TypeOK
<1>0. Data /\ Ghosts
  BY DEF TypeOK
<1>1. CASE Boot
  <2>1. Data'
    BY <1>0, <1>1 DEF Boot,
         Fails, FirstFails, Answer, Goto, Increment, Idle, Insertable,
         Finishable,
         run, db, rows, dev, obs, Numbers, Requests
  <2>2. Ghosts'
    BY <1>0, <1>1, FaultTypes, Zenon DEF Boot, Increment, obs, run, db, rows, dev
  <2> QED BY <2>1, <2>2
<1>2. CASE Crash
  <2>1. Data'
    BY <1>0, <1>2 DEF Crash,
         Fails, FirstFails, Answer, Goto, Increment, Idle, Insertable,
         Finishable,
         run, db, rows, dev, obs, Numbers, Requests
  <2>2. Ghosts'
    BY <1>0, <1>2, FaultTypes, Zenon DEF Crash, Increment, obs, run, db, rows, dev
  <2> QED BY <2>1, <2>2
<1>3. CASE HwMirror
  <2>1. Data'
    BY <1>0, <1>3 DEF HwMirror,
         Fails, FirstFails, Answer, Goto, Increment, Idle, Insertable,
         Finishable,
         run, db, rows, dev, obs, Numbers, Requests
  <2>2. Ghosts'
    BY <1>0, <1>3, FaultTypes, Zenon DEF HwMirror, Increment, obs, run, db, rows, dev
  <2> QED BY <2>1, <2>2
<1>4. CASE HwClose
  <2>1. Data'
    BY <1>0, <1>4 DEF HwClose,
         Fails, FirstFails, Answer, Goto, Increment, Idle, Insertable,
         Finishable,
         run, db, rows, dev, obs, Numbers, Requests
  <2>2. Ghosts'
    BY <1>0, <1>4, FaultTypes, Zenon DEF HwClose, Increment, obs, run, db, rows, dev
  <2> QED BY <2>1, <2>2
<1>5. CASE SimSig
  <2>0. /\ \E s \in {1, sigc + 1} : req' = [req EXCEPT !.sig = s]
        /\ UNCHANGED acked
    BY <1>5 DEF SimSig, Goto
  <2>3. req' \in Requests
    BY <1>0, <2>0 DEF Requests
  <2>1. Data'
    BY <1>0, <1>5, <2>0, <2>3 DEF SimSig, Fails, Goto, Increment, run, rows,
         dev
  <2>2. Ghosts'
    BY <1>0, <1>5, FaultTypes, Zenon DEF SimSig, Increment, obs, run, db, rows, dev
  <2> QED BY <2>1, <2>2
<1>6. CASE SimInsert
  <2>0. /\ req' = req /\ UNCHANGED <<signers, mode, txc, sigc, dev, crashes>>
        /\ pc' \in {"select", "idle"} /\ reply' \in {reply, "err"}
        /\ acked' = acked
        /\ \/ /\ owner' = [owner EXCEPT ![req.num] = req.client]
              /\ state' = [state EXCEPT ![req.num] = "ACTIVE"]
              /\ by' = [by EXCEPT ![req.num] = "sim"]
           \/ UNCHANGED rows /\ state' = state
    BY <1>6 DEF SimInsert, Answer, Goto, run
  <2>3. req.client \in Clients
    BY <1>0 DEF Requests
  <2>4. /\ owner' \in [Numbers -> Clients \cup {"none"}]
        /\ state' \in [Numbers -> {"none", "ACTIVE", "FINISHED"}]
        /\ by' \in [Numbers -> {"none", "hw", "sim"}]
    BY <1>0, <2>0, <2>3 DEF rows
  <2>1. Data'
    BY <1>0, <2>0, <2>4 DEF dev
  <2>2. Ghosts'
    BY <1>0, <1>6, FaultTypes, Zenon DEF SimInsert, Increment, obs, run, db, rows,
         dev
  <2> QED BY <2>1, <2>2
<1>7. CASE SimSelect
  <2>1. Data'
    BY <1>0, <1>7 DEF SimSelect,
         Fails, FirstFails, Answer, Goto, Increment, Idle, Insertable,
         Finishable,
         run, db, rows, dev, obs, Numbers, Requests
  <2>2. Ghosts'
    BY <1>0, <1>7, FaultTypes, Zenon DEF SimSelect, Increment, obs, run, db, rows,
         dev
  <2> QED BY <2>1, <2>2
<1>8. CASE SimUpdate
  <2>1. Data'
    BY <1>0, <1>8 DEF SimUpdate,
         Fails, FirstFails, Answer, Goto, Increment, Idle, Insertable,
         Finishable,
         run, db, rows, dev, obs, Numbers, Requests
  <2>2. Ghosts'
    BY <1>0, <1>8, FaultTypes, Zenon DEF SimUpdate, Increment, obs, run, db, rows,
         dev
  <2> QED BY <2>1, <2>2
<1>9. ASSUME NEW c \in Clients, HwStart(c)
      PROVE  Data' /\ Ghosts'
  <2>1. Data'
    <3>1. \/ /\ devNum' = devNum /\ devSig' = devSig /\ devOpen' = devOpen
             /\ req' = [kind |-> "start", client |-> c, num |-> 0, sig |-> 0]
             /\ pc' = "idle" /\ reply' = "err" /\ acked' = acked
          \/ /\ devNum' = devNum + 1 /\ devSig' = devSig + 1
             /\ devOpen' = devOpen \cup {devNum'}
             /\ req' = [kind |-> "start", client |-> c, num |-> devNum',
                        sig |-> devSig']
             /\ pc' = "mirror" /\ reply' = "none" /\ acked' = acked
      BY <1>9 DEF HwStart, Answer, dev
    <3>2. devNum' \in Nat /\ devSig' \in Nat
      BY <1>0, <3>1
    <3>7. devOpen' \subseteq Nat
      BY <1>0, <3>1, <3>2
    <3>8. acked' = acked
      BY <3>1
    <3>3. \E num, sig \in Nat :
            req' = [kind |-> "start", client |-> c, num |-> num, sig |-> sig]
      BY <3>1, <3>2 DEF Numbers
    <3>4. req' \in Requests
      BY <3>3 DEF Requests
    <3>5. pc' \in {"idle", "mirror", "close"} /\ reply' \in {"err", "none"}
      BY <3>1
    <3>6. UNCHANGED <<signers, mode, crashes, txc, sigc, rows, state>>
      BY <1>9 DEF HwStart, run, db, rows
    <3> QED BY <1>0, <3>2, <3>4, <3>5, <3>6, <3>7, <3>8 DEF rows
  <2>2. Ghosts'
    BY <1>0, <1>9, FaultTypes, Zenon DEF HwStart, Increment, obs, run, db, rows, dev
  <2> QED BY <2>1, <2>2
<1>10. ASSUME NEW c \in Clients, SimNumber(c)
      PROVE  Data' /\ Ghosts'
  <2>1. Data'
    BY <1>0, <1>10 DEF SimNumber,
         Fails, FirstFails, Answer, Goto, Increment, Idle, Insertable,
         Finishable,
         run, db, rows, dev, obs, Numbers, Requests
  <2>2. Ghosts'
    BY <1>0, <1>10, FaultTypes, Zenon DEF SimNumber, Increment, obs, run, db, rows,
         dev
  <2> QED BY <2>1, <2>2
<1>11. ASSUME NEW c \in Clients, NEW n \in Numbers, HwFinish(c, n)
      PROVE  Data' /\ Ghosts'
  <2>1. Data'
    <3>1. \/ /\ devNum' = devNum /\ devSig' = devSig /\ devOpen' = devOpen
             /\ req' = [kind |-> "finish", client |-> c, num |-> n, sig |-> 0]
             /\ pc' = "idle" /\ reply' = "err" /\ acked' = acked
          \/ /\ devNum' = devNum /\ devSig' = devSig + 1
             /\ devOpen' = devOpen \ {n}
             /\ req' = [kind |-> "finish", client |-> c, num |-> n,
                        sig |-> devSig']
             /\ pc' = "close" /\ reply' = "none" /\ acked' = acked
      BY <1>11 DEF HwFinish, Answer, dev
    <3>2. devNum' \in Nat /\ devSig' \in Nat
      BY <1>0, <3>1
    <3>7. devOpen' \subseteq Nat
      BY <1>0, <3>1, <3>2
    <3>8. acked' = acked
      BY <3>1
    <3>3. \E num, sig \in Nat :
            req' = [kind |-> "finish", client |-> c, num |-> num, sig |-> sig]
      BY <3>1, <3>2 DEF Numbers
    <3>4. req' \in Requests
      BY <3>3 DEF Requests
    <3>5. pc' \in {"idle", "mirror", "close"} /\ reply' \in {"err", "none"}
      BY <3>1
    <3>6. UNCHANGED <<signers, mode, crashes, txc, sigc, rows, state>>
      BY <1>11 DEF HwFinish, run, db, rows
    <3> QED BY <1>0, <3>2, <3>4, <3>5, <3>6, <3>7, <3>8 DEF rows
  <2>2. Ghosts'
    BY <1>0, <1>11, FaultTypes, Zenon DEF HwFinish, Increment, obs, run, db, rows,
         dev
  <2> QED BY <2>1, <2>2
<1>12. ASSUME NEW c \in Clients, NEW n \in Numbers, SimFinish(c, n)
      PROVE  Data' /\ Ghosts'
  <2>1. Data'
    BY <1>0, <1>12 DEF SimFinish,
         Fails, FirstFails, Answer, Goto, Increment, Idle, Insertable,
         Finishable,
         run, db, rows, dev, obs, Numbers, Requests
  <2>2. Ghosts'
    BY <1>0, <1>12, FaultTypes, Zenon DEF SimFinish, Increment, obs, run, db, rows,
         dev
  <2> QED BY <2>1, <2>2
<1>13. CASE UNCHANGED vars
  BY <1>0, <1>13 DEF vars, run, db, rows, dev, obs
<1> QED BY <1>1, <1>2, <1>3, <1>4, <1>5, <1>6, <1>7, <1>8, <1>9, <1>10, <1>11,
     <1>12, <1>13 DEF Next

LEMMA AtStep ==
  ASSUME IInv, OneSigner, [Next]_vars
  PROVE  AtInv'
<1> USE StoreAssumption DEF Fails, FirstFails, Answer, Goto, Increment, Idle,
     Insertable, Finishable, run, db, rows, dev, obs, Numbers, Requests
<1>1. CASE Boot
  BY <1>1 DEF Boot, IInv, TypeOK, AtInv, OneSigner, Sim, Hw
<1>2. CASE Crash
  BY <1>2 DEF Crash, IInv, TypeOK, AtInv, OneSigner, Sim, Hw
<1>3. CASE HwMirror
  BY <1>3 DEF HwMirror, IInv, TypeOK, AtInv, OneSigner, Sim, Hw
<1>4. CASE HwClose
  BY <1>4 DEF HwClose, IInv, TypeOK, AtInv, OneSigner, Sim, Hw
<1>5. CASE SimSig
  BY <1>5 DEF SimSig, IInv, TypeOK, AtInv, OneSigner, Sim, Hw
<1>6. CASE SimInsert
  BY <1>6 DEF SimInsert, IInv, TypeOK, AtInv, OneSigner, Sim, Hw
<1>7. CASE SimSelect
  BY <1>7 DEF SimSelect, IInv, TypeOK, AtInv, OneSigner, Sim, Hw
<1>8. CASE SimUpdate
  BY <1>8 DEF SimUpdate, IInv, TypeOK, AtInv, OneSigner, Sim, Hw
<1>9. ASSUME NEW c \in Clients, HwStart(c)
      PROVE  AtInv'
  BY <1>9 DEF HwStart, IInv, TypeOK, AtInv, OneSigner, Sim, Hw
<1>10. ASSUME NEW c \in Clients, SimNumber(c)
      PROVE  AtInv'
  BY <1>10 DEF SimNumber, IInv, TypeOK, AtInv, OneSigner, Sim, Hw
<1>11. ASSUME NEW c \in Clients, NEW n \in Numbers, HwFinish(c, n)
      PROVE  AtInv'
  BY <1>11 DEF HwFinish, IInv, TypeOK, AtInv, OneSigner, Sim, Hw
<1>12. ASSUME NEW c \in Clients, NEW n \in Numbers, SimFinish(c, n)
      PROVE  AtInv'
  BY <1>12 DEF SimFinish, IInv, TypeOK, AtInv, OneSigner, Sim, Hw
<1>13. CASE UNCHANGED vars
  BY <1>13 DEF vars, run, IInv, TypeOK, AtInv, OneSigner, Sim, Hw
<1> QED BY <1>1, <1>2, <1>3, <1>4, <1>5, <1>6, <1>7, <1>8, <1>9, <1>10, <1>11,
     <1>12, <1>13 DEF Next

LEMMA RowStep ==
  ASSUME IInv, OneSigner, [Next]_vars
  PROVE  RowInv'
<1> USE StoreAssumption DEF Fails, FirstFails, Answer, Goto, Increment, Idle,
     Insertable, Finishable, run, db, rows, dev, obs, Numbers, Requests
<1>1. CASE Boot
  BY <1>1 DEF Boot, IInv, TypeOK, AtInv, RowInv, OneSigner, Sim, Hw
<1>2. CASE Crash
  BY <1>2 DEF Crash, IInv, TypeOK, AtInv, RowInv, OneSigner, Sim, Hw
<1>3. CASE HwMirror
  BY <1>3 DEF HwMirror, IInv, TypeOK, AtInv, RowInv, OneSigner, Sim, Hw
<1>4. CASE HwClose
  BY <1>4 DEF HwClose, IInv, TypeOK, AtInv, RowInv, OneSigner, Sim, Hw
<1>5. CASE SimSig
  BY <1>5 DEF SimSig, IInv, TypeOK, AtInv, RowInv, OneSigner, Sim, Hw
<1>6. CASE SimInsert
  BY <1>6 DEF SimInsert, IInv, TypeOK, AtInv, RowInv, OneSigner, Sim, Hw
<1>7. CASE SimSelect
  BY <1>7 DEF SimSelect, IInv, TypeOK, AtInv, RowInv, OneSigner, Sim, Hw
<1>8. CASE SimUpdate
  BY <1>8 DEF SimUpdate, IInv, TypeOK, AtInv, RowInv, OneSigner, Sim, Hw
<1>9. ASSUME NEW c \in Clients, HwStart(c)
      PROVE  RowInv'
  <2>1. PICK f \in BOOLEAN :
          IF f
          THEN UNCHANGED dev /\ Answer(FALSE)
          ELSE /\ devNum' = devNum + 1 /\ devOpen' = devOpen \cup {devNum'}
               /\ req' = [kind |-> "start", client |-> c, num |-> devNum',
                          sig |-> devSig']
               /\ pc' = "mirror"
    BY <1>9 DEF HwStart
  <2>2. CASE f
    BY <1>9, <2>1, <2>2 DEF HwStart, IInv, RowInv, OneSigner, Sim, Hw
  <2>3. CASE ~(f)
    <3>1. /\ pc' = "mirror" /\ Hw
          /\ devNum' = devNum + 1 /\ devOpen' = devOpen \cup {devNum'}
          /\ req'.num = devNum'
          /\ UNCHANGED state
      BY <1>9, <2>1, <2>3 DEF HwStart, IInv, AtInv, OneSigner, Sim, Hw
    <3>2. MaxNum >= devNum' /\ devNum \in Nat
      BY <1>9, <3>1 DEF HwStart, IInv, TypeOK, RowInv
    <3> QED BY <3>1, <3>2 DEF IInv, TypeOK, AtInv, RowInv, OneSigner, Sim, Hw
  <2> QED BY <2>2, <2>3
<1>10. ASSUME NEW c \in Clients, SimNumber(c)
      PROVE  RowInv'
  BY <1>10 DEF SimNumber, IInv, TypeOK, AtInv, RowInv, OneSigner, Sim, Hw
<1>11. ASSUME NEW c \in Clients, NEW n \in Numbers, HwFinish(c, n)
      PROVE  RowInv'
  <2>1. PICK f \in BOOLEAN :
          IF f \/ n \notin devOpen
          THEN UNCHANGED dev /\ Answer(FALSE)
          ELSE /\ devOpen' = devOpen \ {n} /\ UNCHANGED devNum
               /\ req' = [kind |-> "finish", client |-> c, num |-> n,
                          sig |-> devSig']
               /\ pc' = "close"
    BY <1>11 DEF HwFinish
  <2>2. CASE f \/ n \notin devOpen
    BY <1>11, <2>1, <2>2 DEF HwFinish, IInv, RowInv, OneSigner, Sim, Hw
  <2>3. CASE ~(f \/ n \notin devOpen)
    <3>1. /\ pc' = "close" /\ Hw
          /\ devNum' = devNum /\ devOpen' = devOpen \ {n}
          /\ req'.num = n
          /\ UNCHANGED state
      BY <1>11, <2>1, <2>3 DEF HwFinish, IInv, AtInv, OneSigner, Sim, Hw
    <3>2. MaxNum >= devNum' /\ devNum \in Nat
      BY <1>11, <3>1 DEF HwFinish, IInv, TypeOK, RowInv
    <3>3. n \notin devOpen' /\ n <= devNum /\ state[n] # "FINISHED"
      BY <2>3, <3>1 DEF IInv, RowInv
    <3>4. devOpen' \subseteq devOpen
      BY <3>1
    <3> QED BY <3>1, <3>2, <3>3, <3>4 DEF IInv, RowInv
  <2> QED BY <2>2, <2>3
<1>12. ASSUME NEW c \in Clients, NEW n \in Numbers, SimFinish(c, n)
      PROVE  RowInv'
  BY <1>12 DEF SimFinish, IInv, TypeOK, AtInv, RowInv, OneSigner, Sim, Hw
<1>13. CASE UNCHANGED vars
  BY <1>13 DEF vars, run, IInv, TypeOK, AtInv, RowInv, OneSigner, Sim, Hw
<1> QED BY <1>1, <1>2, <1>3, <1>4, <1>5, <1>6, <1>7, <1>8, <1>9, <1>10, <1>11,
     <1>12, <1>13 DEF Next

LEMMA AckStep ==
  ASSUME IInv, OneSigner, [Next]_vars
  PROVE  AckInv'
<1> USE StoreAssumption DEF Fails, FirstFails, Answer, Goto, Increment, Idle,
     Insertable, Finishable, run, db, rows, dev, obs, Numbers, Requests
<1>1. CASE Boot
  BY <1>1 DEF Boot, IInv, TypeOK, AtInv, RowInv, AckInv, OneSigner, Sim, Hw
<1>2. CASE Crash
  BY <1>2 DEF Crash, IInv, TypeOK, AtInv, RowInv, AckInv, OneSigner, Sim, Hw
<1>3. CASE HwMirror
  BY <1>3 DEF HwMirror, IInv, TypeOK, AtInv, RowInv, AckInv, OneSigner, Sim, Hw
<1>4. CASE HwClose
  BY <1>4 DEF HwClose, IInv, TypeOK, AtInv, RowInv, AckInv, OneSigner, Sim, Hw
<1>5. CASE SimSig
  BY <1>5 DEF SimSig, IInv, TypeOK, AtInv, RowInv, AckInv, OneSigner, Sim, Hw
<1>6. CASE SimInsert
  BY <1>6 DEF SimInsert, IInv, TypeOK, AtInv, RowInv, AckInv, OneSigner, Sim,
       Hw
<1>7. CASE SimSelect
  BY <1>7 DEF SimSelect, IInv, TypeOK, AtInv, RowInv, AckInv, OneSigner, Sim,
       Hw
<1>8. CASE SimUpdate
  BY <1>8 DEF SimUpdate, IInv, TypeOK, AtInv, RowInv, AckInv, OneSigner, Sim,
       Hw
<1>9. ASSUME NEW c \in Clients, HwStart(c)
      PROVE  AckInv'
  BY <1>9 DEF HwStart, IInv, TypeOK, AtInv, RowInv, AckInv, OneSigner, Sim, Hw
<1>10. ASSUME NEW c \in Clients, SimNumber(c)
      PROVE  AckInv'
  BY <1>10 DEF SimNumber, IInv, TypeOK, AtInv, RowInv, AckInv, OneSigner, Sim,
       Hw
<1>11. ASSUME NEW c \in Clients, NEW n \in Numbers, HwFinish(c, n)
      PROVE  AckInv'
  BY <1>11 DEF HwFinish, IInv, TypeOK, AtInv, RowInv, AckInv, OneSigner, Sim,
       Hw
<1>12. ASSUME NEW c \in Clients, NEW n \in Numbers, SimFinish(c, n)
      PROVE  AckInv'
  BY <1>12 DEF SimFinish, IInv, TypeOK, AtInv, RowInv, AckInv, OneSigner, Sim,
       Hw
<1>13. CASE UNCHANGED vars
  BY <1>13 DEF vars, run, IInv, TypeOK, AtInv, RowInv, AckInv, OneSigner, Sim,
       Hw
<1> QED BY <1>1, <1>2, <1>3, <1>4, <1>5, <1>6, <1>7, <1>8, <1>9, <1>10, <1>11,
     <1>12, <1>13 DEF Next

LEMMA SigStep ==
  ASSUME IInv, OneSigner, [Next]_vars
  PROVE  SigInv'
<1> USE StoreAssumption DEF Fails, FirstFails, Answer, Goto, Increment, Idle,
     Insertable, Finishable, run, db, rows, dev, obs, Numbers, Requests
<1>1. CASE Boot
  BY <1>1 DEF Boot, IInv, TypeOK, AtInv, SigInv, OneSigner, Sim, Hw
<1>2. CASE Crash
  BY <1>2 DEF Crash, IInv, TypeOK, AtInv, SigInv, OneSigner, Sim, Hw
<1>3. CASE HwMirror
  BY <1>3 DEF HwMirror, IInv, TypeOK, AtInv, SigInv, OneSigner, Sim, Hw
<1>4. CASE HwClose
  BY <1>4 DEF HwClose, IInv, TypeOK, AtInv, SigInv, OneSigner, Sim, Hw
<1>5. CASE SimSig
  BY <1>5 DEF SimSig, IInv, TypeOK, AtInv, SigInv, OneSigner, Sim, Hw
<1>6. CASE SimInsert
  BY <1>6 DEF SimInsert, IInv, TypeOK, AtInv, SigInv, OneSigner, Sim, Hw
<1>7. CASE SimSelect
  BY <1>7 DEF SimSelect, IInv, TypeOK, AtInv, SigInv, OneSigner, Sim, Hw
<1>8. CASE SimUpdate
  BY <1>8 DEF SimUpdate, IInv, TypeOK, AtInv, SigInv, OneSigner, Sim, Hw
<1>9. ASSUME NEW c \in Clients, HwStart(c)
      PROVE  SigInv'
  BY <1>9 DEF HwStart, IInv, TypeOK, AtInv, SigInv, OneSigner, Sim, Hw
<1>10. ASSUME NEW c \in Clients, SimNumber(c)
      PROVE  SigInv'
  BY <1>10 DEF SimNumber, IInv, TypeOK, AtInv, SigInv, OneSigner, Sim, Hw
<1>11. ASSUME NEW c \in Clients, NEW n \in Numbers, HwFinish(c, n)
      PROVE  SigInv'
  BY <1>11 DEF HwFinish, IInv, TypeOK, AtInv, SigInv, OneSigner, Sim, Hw
<1>12. ASSUME NEW c \in Clients, NEW n \in Numbers, SimFinish(c, n)
      PROVE  SigInv'
  BY <1>12 DEF SimFinish, IInv, TypeOK, AtInv, SigInv, OneSigner, Sim, Hw
<1>13. CASE UNCHANGED vars
  BY <1>13 DEF vars, run, IInv, TypeOK, AtInv, SigInv, OneSigner, Sim, Hw
<1> QED BY <1>1, <1>2, <1>3, <1>4, <1>5, <1>6, <1>7, <1>8, <1>9, <1>10, <1>11,
     <1>12, <1>13 DEF Next

LEMMA RecStep ==
  ASSUME IInv, OneSigner, [Next]_vars
  PROVE  RecInv'
<1> USE StoreAssumption DEF Fails, FirstFails, Answer, Goto, Increment, Idle,
     Insertable, Finishable, run, db, rows, dev, obs, Numbers, Requests
<1>1. CASE Boot
  BY <1>1 DEF Boot, IInv, TypeOK, AtInv, RowInv, AckInv, RecInv,
       AckedOnRecord, OneSigner, Sim, Hw
<1>2. CASE Crash
  BY <1>2 DEF Crash, IInv, TypeOK, AtInv, RowInv, AckInv, RecInv,
       AckedOnRecord, OneSigner, Sim, Hw
<1>3. CASE HwMirror
  <2>1. /\ Hw /\ Hw' /\ pc = "mirror" /\ pc' = "idle" /\ req' = req
        /\ req \in Requests /\ req.kind = "start" /\ req.num \in Numbers
        /\ state[req.num] = "none" /\ acked' = acked \cup {req}
        /\ owner \in [Numbers -> Clients \cup {"none"}]
        /\ state \in [Numbers -> {"none", "ACTIVE", "FINISHED"}]
    BY <1>3 DEF HwMirror, IInv, TypeOK, AtInv, RowInv, OneSigner, Sim, Hw
  <2>2. CASE UNCHANGED <<owner, state>> /\ lost'
    BY <2>1, <2>2 DEF IInv, RecInv
  <2>3. CASE /\ owner' = [owner EXCEPT ![req.num] = req.client]
             /\ state' = [state EXCEPT ![req.num] = "ACTIVE"]
             /\ lost => lost'
    <3>1. \A n \in Numbers : owner'[n] = "none" <=> state'[n] = "none"
      BY <2>1, <2>3 DEF IInv, RecInv
    <3>2. ASSUME ~lost', NEW a \in acked'
          PROVE  /\ a.kind = "start" => owner'[a.num] = a.client
                 /\ a.kind = "finish" =>
                      state'[a.num] = "FINISHED" \/ owner'[a.num] = "none"
      <4>1. CASE a = req
        BY <2>1, <2>3, <4>1
      <4>2. CASE a \in acked /\ a.num # req.num
        BY <2>1, <2>3, <3>2, <4>2 DEF IInv, RecInv, AckedOnRecord, AckInv
      <4>3. CASE a \in acked /\ a.num = req.num
        \* its row is still to be written, so nothing of it was acknowledged
        <5>1. a.kind # "start"
          BY <2>1, <4>3 DEF IInv, AckInv
        <5>2. a.kind # "finish"
          BY <2>1, <4>3 DEF IInv, RecInv, AckInv
        <5> QED BY <5>1, <5>2
      <4> QED BY <2>1, <4>1, <4>2, <4>3
    <3> QED BY <2>1, <3>1, <3>2 DEF RecInv, AckedOnRecord
  <2>4. PICK f \in BOOLEAN :
          /\ lost' = (lost \/ f)
          /\ IF f THEN UNCHANGED <<owner, state>>
                  ELSE /\ owner' = [owner EXCEPT ![req.num] = req.client]
                       /\ state' = [state EXCEPT ![req.num] = "ACTIVE"]
    BY <1>3 DEF HwMirror
  <2>5. (f => lost') /\ (lost => lost')
    BY <2>4, Zenon
  <2> QED BY <2>2, <2>3, <2>4, <2>5
<1>4. CASE HwClose
  BY <1>4 DEF HwClose, IInv, TypeOK, AtInv, RowInv, AckInv, RecInv,
       AckedOnRecord, OneSigner, Sim, Hw
<1>5. CASE SimSig
  BY <1>5 DEF SimSig, IInv, TypeOK, AtInv, RowInv, AckInv, RecInv,
       AckedOnRecord, OneSigner, Sim, Hw
<1>6. CASE SimInsert
  BY <1>6 DEF SimInsert, IInv, TypeOK, AtInv, RowInv, AckInv, RecInv,
       AckedOnRecord, OneSigner, Sim, Hw
<1>7. CASE SimSelect
  BY <1>7 DEF SimSelect, IInv, TypeOK, AtInv, RowInv, AckInv, RecInv,
       AckedOnRecord, OneSigner, Sim, Hw
<1>8. CASE SimUpdate
  BY <1>8 DEF SimUpdate, IInv, TypeOK, AtInv, RowInv, AckInv, RecInv,
       AckedOnRecord, OneSigner, Sim, Hw
<1>9. ASSUME NEW c \in Clients, HwStart(c)
      PROVE  RecInv'
  BY <1>9 DEF HwStart, IInv, TypeOK, AtInv, RowInv, AckInv, RecInv,
       AckedOnRecord, OneSigner, Sim, Hw
<1>10. ASSUME NEW c \in Clients, SimNumber(c)
      PROVE  RecInv'
  BY <1>10 DEF SimNumber, IInv, TypeOK, AtInv, RowInv, AckInv, RecInv,
       AckedOnRecord, OneSigner, Sim, Hw
<1>11. ASSUME NEW c \in Clients, NEW n \in Numbers, HwFinish(c, n)
      PROVE  RecInv'
  BY <1>11 DEF HwFinish, IInv, TypeOK, AtInv, RowInv, AckInv, RecInv,
       AckedOnRecord, OneSigner, Sim, Hw
<1>12. ASSUME NEW c \in Clients, NEW n \in Numbers, SimFinish(c, n)
      PROVE  RecInv'
  BY <1>12 DEF SimFinish, IInv, TypeOK, AtInv, RowInv, AckInv, RecInv,
       AckedOnRecord, OneSigner, Sim, Hw
<1>13. CASE UNCHANGED vars
  BY <1>13 DEF vars, run, IInv, TypeOK, AtInv, RowInv, AckInv, RecInv,
       AckedOnRecord, OneSigner, Sim, Hw
<1> QED BY <1>1, <1>2, <1>3, <1>4, <1>5, <1>6, <1>7, <1>8, <1>9, <1>10, <1>11,
     <1>12, <1>13 DEF Next

\* A success is reported from three places, and for the request in progress.
LEMMA AckedStep ==
  ASSUME [Next]_vars
  PROVE  \/ acked' = acked
         \/ /\ pc \in {"mirror", "close", "select"} /\ req' = req
            /\ acked' = acked \cup {req}
<1> USE DEF Answer, Goto
<1>1. ASSUME NEW c \in Clients, HwStart(c) \/ SimNumber(c)
      PROVE  acked' = acked
  BY <1>1 DEF HwStart, SimNumber
<1>2. ASSUME NEW c \in Clients, NEW n \in Numbers,
             HwFinish(c, n) \/ SimFinish(c, n)
      PROVE  acked' = acked
  BY <1>2 DEF HwFinish, SimFinish
<1>3. CASE Boot \/ Crash \/ SimSig \/ SimInsert \/ SimUpdate \/ UNCHANGED vars
  BY <1>3 DEF Boot, Crash, SimSig, SimInsert, SimUpdate, vars
<1>4. CASE HwMirror \/ HwClose \/ SimSelect
  <2>1. pc \in {"mirror", "close", "select"} /\ req' = req
    BY <1>4 DEF HwMirror, HwClose, SimSelect
  <2>2. acked' \in {acked, acked \cup {req}}
    BY <1>4 DEF HwMirror, HwClose, SimSelect
  <2> QED BY <2>1, <2>2
<1> QED BY <1>1, <1>2, <1>3, <1>4 DEF Next

\* A lost write is never forgotten.
LEMMA LostStep == ASSUME [Next]_vars, lost PROVE lost'
<1> USE DEF Increment, obs, run
<1>1. ASSUME NEW c \in Clients, HwStart(c) \/ SimNumber(c) PROVE lost'
  BY <1>1, Zenon DEF HwStart, SimNumber
<1>2. ASSUME NEW c \in Clients, NEW n \in Numbers,
             HwFinish(c, n) \/ SimFinish(c, n)
      PROVE  lost'
  BY <1>2, Zenon DEF HwFinish, SimFinish
<1>3. CASE Boot \/ Crash \/ SimSig \/ SimInsert \/ SimUpdate \/ UNCHANGED vars
  BY <1>3, Zenon DEF Boot, Crash, SimSig, SimInsert, SimUpdate, vars
<1>4. CASE HwMirror \/ HwClose \/ SimSelect
  BY <1>4, Zenon DEF HwMirror, HwClose, SimSelect
<1> QED BY <1>1, <1>2, <1>3, <1>4, Zenon DEF Next

LEMMA OnceStep ==
  ASSUME IInv, OneSigner, [Next]_vars
  PROVE  AckedOnce' /\ SignaturesDistinct'
<1>1. CASE acked' = acked
  BY <1>1, LostStep DEF IInv, AckedOnce, SignaturesDistinct
<1>2. CASE /\ pc \in {"mirror", "close", "select"}
           /\ acked' = acked \cup {req}
  <2>1. \A a \in acked : a.kind = req.kind => a.num # req.num
    BY <1>2 DEF IInv, AckInv
  <2>2. AckedOnce'
    BY <1>2, <2>1 DEF IInv, AckedOnce
  <2>3. ~lost => \A a \in acked : a.sig # req.sig
    BY <1>2 DEF IInv, TypeOK, SigInv, AtInv, OneSigner, Sim, Hw
  <2>4. SignaturesDistinct'
    BY <1>2, <2>3, LostStep DEF IInv, SignaturesDistinct
  <2> QED BY <2>2, <2>4
<1> QED BY <1>1, <1>2, AckedStep

\* Which modes a restart may come up in is settled once.
LEMMA SignersFixed == ASSUME [Next]_vars PROVE signers' = signers
BY DEF Next, Boot, Crash, HwMirror, HwClose, SimSig, SimInsert, SimSelect,
       SimUpdate, HwStart, SimNumber, HwFinish, SimFinish, vars, run

LEMMA Invariance == Spec => [](OneSigner => IInv)
<1>1. Init => (OneSigner => IInv)
  BY InitIInv
<1>2. (OneSigner => IInv) /\ [Next]_vars => (OneSigner => IInv)'
  <2> SUFFICES ASSUME OneSigner => IInv, [Next]_vars, OneSigner' PROVE IInv'
    OBVIOUS
  <2>1. OneSigner /\ IInv
    BY SignersFixed DEF OneSigner
  <2> QED BY <2>1, TypeStep, AtStep, RowStep, AckStep, SigStep, RecStep, OnceStep
          DEF IInv
<1> QED BY <1>1, <1>2, PTL DEF Spec

\* Every variable keeps its type, whichever modes a restart may come up in:
\* no step of the handlers leaves their value spaces.
THEOREM TypeCorrect == Spec => []TypeOK
<1>1. Init => TypeOK
  BY InitTypeOK
<1>2. TypeOK /\ [Next]_vars => TypeOK'
  BY TypeStep
<1> QED BY <1>1, <1>2, PTL DEF Spec

\* With one signer, no number is acknowledged twice as started or twice as
\* finished (store_start_transaction, store_finish_transaction), whatever
\* crashes, fails to be written or cannot be read back.
THEOREM NoDoubleAcknowledgement == Spec => []AckedOnce
<1>1. (OneSigner => IInv) => AckedOnce
  BY DEF IInv, AckedOnce
<1> QED BY <1>1, Invariance, PTL

\* With one signer, two acknowledged operations never carry the same
\* signature counter, unless the code went on after a failed write
\* (db_increment_counter).
THEOREM NoSharedSignature == Spec => []SignaturesDistinct
<1>1. (OneSigner => IInv) => SignaturesDistinct
  BY DEF IInv, SignaturesDistinct
<1> QED BY <1>1, Invariance, PTL

\* With one signer, what was acknowledged is on record, in both modes, unless
\* the code went on after a failed write (record_transaction_open,
\* record_transaction_finished, db_increment_counter).
THEOREM AcknowledgedIsOnRecord == Spec => []AckedOnRecord
<1>1. (OneSigner => IInv) => AckedOnRecord
  BY DEF IInv, AtInv, AckInv, RecInv, AckedOnRecord
<1> QED BY <1>1, Invariance, PTL

(***************************************************************************)
(* Whichever modes the restarts come up in.                                *)
(***************************************************************************)
\* The handlers of one mode run in that mode, and answer at their end.
PlaceInv ==
  /\ mode = "down" => pc = "idle" /\ reply = "none"
  /\ pc # "idle" => reply = "none" /\ req.num \in Numbers
  /\ pc \in {"mirror", "close"} => mode = "hw"
  /\ pc \in {"sig", "insert", "finSig", "update", "select"} => mode = "sim"
  /\ pc \in {"mirror", "sig", "insert"} => req.kind = "start"
  /\ pc \in {"finSig", "update"} => req.kind = "finish"

\* The TSE's rows have numbers it has given out; the one about to be written
\* has none of its own yet.  A row about to be closed is still open.
OwnRowInv ==
  /\ \A n \in Numbers : by[n] = "none" <=> state[n] = "none"
  /\ \A n \in Numbers : by[n] = "hw" => n <= devNum
  /\ pc = "mirror" => req.num = devNum /\ by[req.num] # "hw"
  /\ pc \in {"finSig", "update"} => state[req.num] = "ACTIVE"

\* As long as no write was lost, the simulator's counter is ahead of its rows.
CountInv ==
  ~lost => /\ \A n \in Numbers : by[n] = "sim" => n <= txc
           /\ pc \in {"sig", "insert"} => /\ req.num <= txc
                                          /\ by[req.num] # "sim"

AnyInv == TypeOK /\ PlaceInv /\ OwnRowInv /\ CountInv /\ SimulatorSigns

LEMMA PlaceStep ==
  ASSUME AnyInv, [Next]_vars
  PROVE  PlaceInv'
<1> USE StoreAssumption
    DEF AnyInv, TypeOK, PlaceInv, Fails, FirstFails, Answer, Goto,
        Increment, Idle, Insertable, Finishable, run, db, rows, dev, obs,
        Numbers, Requests
<1>1. CASE Boot
  BY <1>1 DEF Boot
<1>2. CASE Crash
  BY <1>2 DEF Crash
<1>3. CASE HwMirror
  BY <1>3 DEF HwMirror
<1>4. CASE HwClose
  BY <1>4 DEF HwClose
<1>5. CASE SimSig
  BY <1>5 DEF SimSig
<1>6. CASE SimInsert
  BY <1>6 DEF SimInsert
<1>7. CASE SimSelect
  BY <1>7 DEF SimSelect
<1>8. CASE SimUpdate
  BY <1>8 DEF SimUpdate
<1>9. ASSUME NEW c \in Clients, HwStart(c) PROVE PlaceInv'
  BY <1>9 DEF HwStart
<1>10. ASSUME NEW c \in Clients, SimNumber(c) PROVE PlaceInv'
  BY <1>10 DEF SimNumber
<1>11. ASSUME NEW c \in Clients, NEW n \in Numbers, HwFinish(c, n)
      PROVE  PlaceInv'
  BY <1>11 DEF HwFinish
<1>12. ASSUME NEW c \in Clients, NEW n \in Numbers, SimFinish(c, n)
      PROVE  PlaceInv'
  BY <1>12 DEF SimFinish
<1>13. CASE UNCHANGED vars
  BY <1>13 DEF vars
<1> QED BY <1>1, <1>2, <1>3, <1>4, <1>5, <1>6, <1>7, <1>8, <1>9, <1>10, <1>11,
     <1>12, <1>13 DEF Next

LEMMA OwnRowStep ==
  ASSUME AnyInv, [Next]_vars
  PROVE  OwnRowInv'
<1> USE StoreAssumption
    DEF AnyInv, TypeOK, PlaceInv, OwnRowInv, Fails, FirstFails, Answer, Goto,
        Increment, Idle, Insertable, Finishable, run, db, rows, dev, obs,
        Numbers, Requests
<1>1. CASE Boot
  BY <1>1 DEF Boot
<1>2. CASE Crash
  BY <1>2 DEF Crash
<1>3. CASE HwMirror
  BY <1>3 DEF HwMirror
<1>4. CASE HwClose
  BY <1>4 DEF HwClose
<1>5. CASE SimSig
  BY <1>5 DEF SimSig
<1>6. CASE SimInsert
  <2>1. /\ UNCHANGED <<req, devNum>> /\ req.num \in Numbers
        /\ pc' \in {"select", "idle"}
    BY <1>6 DEF SimInsert
  <2>2. \/ /\ by' = [by EXCEPT ![req.num] = "sim"]
           /\ state' = [state EXCEPT ![req.num] = "ACTIVE"]
        \/ by' = by /\ state' = state
    BY <1>6 DEF SimInsert
  <2>3. CASE by' = by /\ state' = state
    BY <2>1, <2>3
  <2>4. CASE /\ by' = [by EXCEPT ![req.num] = "sim"]
             /\ state' = [state EXCEPT ![req.num] = "ACTIVE"]
    <3>1. \A n \in Numbers : by'[n] = "none" <=> state'[n] = "none"
      BY <2>1, <2>4
    <3>2. \A n \in Numbers : by'[n] = "hw" => n <= devNum
      BY <2>1, <2>4
    <3> QED BY <2>1, <3>1, <3>2
  <2> QED BY <2>2, <2>3, <2>4
<1>7. CASE SimSelect
  BY <1>7 DEF SimSelect
<1>8. CASE SimUpdate
  BY <1>8 DEF SimUpdate
<1>9. ASSUME NEW c \in Clients, HwStart(c) PROVE OwnRowInv'
  BY <1>9 DEF HwStart
<1>10. ASSUME NEW c \in Clients, SimNumber(c) PROVE OwnRowInv'
  BY <1>10 DEF SimNumber
<1>11. ASSUME NEW c \in Clients, NEW n \in Numbers, HwFinish(c, n)
      PROVE  OwnRowInv'
  BY <1>11 DEF HwFinish
<1>12. ASSUME NEW c \in Clients, NEW n \in Numbers, SimFinish(c, n)
      PROVE  OwnRowInv'
  BY <1>12 DEF SimFinish
<1>13. CASE UNCHANGED vars
  BY <1>13 DEF vars
<1> QED BY <1>1, <1>2, <1>3, <1>4, <1>5, <1>6, <1>7, <1>8, <1>9, <1>10, <1>11,
     <1>12, <1>13 DEF Next

LEMMA CountStep ==
  ASSUME AnyInv, [Next]_vars
  PROVE  CountInv' /\ SimulatorSigns'
<1> USE StoreAssumption
    DEF AnyInv, TypeOK, PlaceInv, OwnRowInv, CountInv, SimulatorSigns, Fails,
        FirstFails, Answer, Goto,
        Increment, Idle, Insertable, Finishable, run, db, rows, dev, obs,
        Numbers, Requests
<1>1. CASE Boot
  BY <1>1 DEF Boot
<1>2. CASE Crash
  BY <1>2 DEF Crash
<1>3. CASE HwMirror
  BY <1>3 DEF HwMirror
<1>4. CASE HwClose
  BY <1>4 DEF HwClose
<1>5. CASE SimSig
  BY <1>5 DEF SimSig
<1>6. CASE SimInsert
  BY <1>6 DEF SimInsert
<1>7. CASE SimSelect
  BY <1>7 DEF SimSelect
<1>8. CASE SimUpdate
  BY <1>8 DEF SimUpdate
<1>9. ASSUME NEW c \in Clients, HwStart(c) PROVE CountInv' /\ SimulatorSigns'
  BY <1>9 DEF HwStart
<1>10. ASSUME NEW c \in Clients, SimNumber(c) PROVE CountInv' /\ SimulatorSigns'
  BY <1>10 DEF SimNumber
<1>11. ASSUME NEW c \in Clients, NEW n \in Numbers, HwFinish(c, n)
      PROVE  CountInv' /\ SimulatorSigns'
  BY <1>11 DEF HwFinish
<1>12. ASSUME NEW c \in Clients, NEW n \in Numbers, SimFinish(c, n)
      PROVE  CountInv' /\ SimulatorSigns'
  BY <1>12 DEF SimFinish
<1>13. CASE UNCHANGED vars
  BY <1>13 DEF vars
<1> QED BY <1>1, <1>2, <1>3, <1>4, <1>5, <1>6, <1>7, <1>8, <1>9, <1>10, <1>11,
     <1>12, <1>13 DEF Next

LEMMA AnyInvariance == Spec => []AnyInv
<1>1. Init => AnyInv
  <2> SUFFICES ASSUME Init PROVE AnyInv
    OBVIOUS
  <2>1. TypeOK
    BY InitTypeOK
  <2> QED BY <2>1 DEF Init, AnyInv, PlaceInv, OwnRowInv, CountInv,
                      SimulatorSigns, Numbers
<1>2. AnyInv /\ [Next]_vars => AnyInv'
  <2> SUFFICES ASSUME AnyInv, [Next]_vars PROVE AnyInv'
    OBVIOUS
  <2>1. TypeOK'
    BY TypeStep DEF AnyInv
  <2> QED BY <2>1, PlaceStep, OwnRowStep, CountStep DEF AnyInv
<1> QED BY <1>1, <1>2, PTL DEF Spec

\* Whichever modes the restarts come up in, the simulator serves every start
\* that no fault strikes (store_start_transaction, store.c:312-377), unless the
\* TSE has written the row of its next number: no crash between the counter
\* and the row makes two of its own numbers collide.
THEOREM SimulatorKeepsSigning == Spec => []SimulatorSigns
<1>1. AnyInv => SimulatorSigns
  BY DEF AnyInv
<1> QED BY <1>1, AnyInvariance, PTL

\* A step of a handler writes the table only as a ledger allows.
LEMMA LedgerStep ==
  ASSUME AnyInv, [Next]_vars
  PROVE  [Ledger!Next]_(Ledger!vars)
<1> USE DEF Ledger!Next, Ledger!Enter, Ledger!Close, Ledger!vars, rows
<1>0. /\ req \in Requests /\ owner \in [Numbers -> Clients \cup {"none"}]
      /\ state \in [Numbers -> {"none", "ACTIVE", "FINISHED"}]
      /\ by \in [Numbers -> {"none", "hw", "sim"}]
      /\ pc # "idle" => req.num \in Numbers
  BY DEF AnyInv, TypeOK, PlaceInv
<1>1. CASE HwMirror
  <2>1. req.num \in Numbers /\ req.client \in Clients
    BY <1>0, <1>1 DEF HwMirror, Requests
  <2>2. by[req.num] \in {"none", "sim"}
    BY <1>0, <1>1, <2>1 DEF HwMirror, AnyInv, OwnRowInv
  <2>3. Ledger!Enter(req.num, req.client, "hw") \/ UNCHANGED <<owner, state, by>>
    BY <1>1, <2>2 DEF HwMirror
  <2> QED BY <2>1, <2>3
<1>2. CASE HwClose
  <2>1. req.num \in Numbers /\ UNCHANGED <<owner, by>>
    BY <1>0, <1>2 DEF HwClose
  <2>2. state' = state \/ state' = [state EXCEPT ![req.num] = "FINISHED"]
    BY <1>2 DEF HwClose
  <2>3. CASE state' = [state EXCEPT ![req.num] = "FINISHED"] /\ state[req.num] = "ACTIVE"
    BY <2>1, <2>3
  <2>4. CASE state' = [state EXCEPT ![req.num] = "FINISHED"] /\ state[req.num] = "FINISHED"
    <3>1. state' = state
      BY <1>0, <2>4
    <3> QED BY <2>1, <3>1
  <2>5. state[req.num] = "none" => state' = state
    BY <1>2 DEF HwClose
  <2> QED BY <1>0, <2>1, <2>2, <2>3, <2>4, <2>5
<1>3. CASE SimInsert
  <2>1. req.num \in Numbers /\ req.client \in Clients
    BY <1>0, <1>3 DEF SimInsert, Requests
  <2>2. Ledger!Enter(req.num, req.client, "sim") \/ UNCHANGED <<owner, state, by>>
    BY <1>3, <2>1 DEF SimInsert, Insertable, AnyInv, OwnRowInv
  <2> QED BY <2>1, <2>2
<1>4. CASE SimUpdate
  <2>1. req.num \in Numbers /\ state[req.num] = "ACTIVE" /\ UNCHANGED <<owner, by>>
    BY <1>0, <1>4 DEF SimUpdate, AnyInv, OwnRowInv
  <2>2. state' = state \/ state' = [state EXCEPT ![req.num] = "FINISHED"]
    BY <1>4 DEF SimUpdate
  <2> QED BY <2>1, <2>2
<1>5. CASE Boot \/ Crash \/ SimSig \/ SimSelect \/ UNCHANGED vars
  BY <1>5 DEF Boot, Crash, SimSig, SimSelect, vars, db
<1>6. ASSUME NEW c \in Clients, HwStart(c) \/ SimNumber(c)
      PROVE  UNCHANGED <<owner, state, by>>
  BY <1>6 DEF HwStart, SimNumber, db
<1>7. ASSUME NEW c \in Clients, NEW n \in Numbers,
             HwFinish(c, n) \/ SimFinish(c, n)
      PROVE  UNCHANGED <<owner, state, by>>
  BY <1>7 DEF HwFinish, SimFinish, db
<1> QED BY <1>1, <1>2, <1>3, <1>4, <1>5, <1>6, <1>7 DEF Next

\* Whichever modes the restarts come up in, the transactions table is a ledger:
\* a number is entered once, for one client, is closed at most once, and never
\* changes again, but that the TSE's rows replace the simulator's (ON CONFLICT
\* DO UPDATE, store.c:193-195).
THEOREM TableIsLedger == Spec => ImplementsLedger
<1>1. Init => Ledger!Init
  BY DEF Init, Ledger!Init
<1>2. AnyInv /\ [Next]_vars => [Ledger!Next]_(Ledger!vars)
  BY LedgerStep
<1> QED BY <1>1, <1>2, AnyInvariance, PTL DEF Spec, ImplementsLedger, Ledger!Spec

(***************************************************************************)
(* How far the table may be from the device.                               *)
(***************************************************************************)
\* The numbers on which the table and the device disagree.
Drift == (Listed \ devOpen) \cup (devOpen \ Listed)

\* Every crash costs at most one of them; the number that a handler has just
\* started or finished on the device does not count until it is mirrored.
DriftInv ==
  Hw /\ ~lost =>
    Cardinality(IF pc = "idle" THEN Drift ELSE Drift \ {req.num}) <= crashes

LEMMA NumberSets ==
  /\ \A S \in SUBSET Numbers : IsFiniteSet(S) /\ Cardinality(S) \in Nat
  /\ \A S, T \in SUBSET Numbers : S \subseteq T => Cardinality(S) <= Cardinality(T)
<1>1. IsFiniteSet(Numbers)
  BY FS_Interval, StoreAssumption DEF Numbers
<1>2. ASSUME NEW S \in SUBSET Numbers
      PROVE  IsFiniteSet(S) /\ Cardinality(S) \in Nat
  BY <1>1, FS_Subset, FS_CardinalityType
<1>3. ASSUME NEW S \in SUBSET Numbers, NEW T \in SUBSET Numbers, S \subseteq T
      PROVE  Cardinality(S) <= Cardinality(T)
  <2>1. IsFiniteSet(T) /\ S \in SUBSET T
    BY <1>2, <1>3
  <2> QED BY <2>1, FS_Subset
<1> QED BY <1>2, <1>3

\* A call starts or finishes its number on the device; the others stay.
LEMMA DriftOpens ==
  ASSUME IInv, IInv', OneSigner, DriftInv,
         \/ \E c \in Clients : HwStart(c)
         \/ \E c \in Clients, n \in Numbers : HwFinish(c, n)
  PROVE  DriftInv'
<1> SUFFICES ASSUME Hw', ~lost'
             PROVE  Cardinality(IF pc' = "idle" THEN Drift'
                                ELSE Drift' \ {req'.num}) <= crashes'
  BY DEF DriftInv
<1>1. /\ Hw /\ ~lost /\ pc = "idle" /\ crashes' = crashes /\ crashes \in Nat
      /\ UNCHANGED state
  BY DEF HwStart, HwFinish, Idle, Hw, run, db, rows, IInv, TypeOK
<1>2. /\ Drift \in SUBSET Numbers /\ Drift' \in SUBSET Numbers
  BY <1>1 DEF IInv, RowInv, Drift, Listed
<1>3. Cardinality(Drift) <= crashes
  BY <1>1 DEF DriftInv
<1>4. \/ pc' = "idle" /\ devOpen' = devOpen
      \/ /\ pc' # "idle"
         /\ devOpen' \in {devOpen \cup {req'.num}, devOpen \ {req'.num}}
  <2>1. ASSUME NEW c \in Clients, HwStart(c)
        PROVE  \/ pc' = "idle" /\ devOpen' = devOpen
               \/ pc' # "idle" /\ devOpen' = devOpen \cup {req'.num}
    BY <2>1 DEF HwStart, Answer, dev
  <2>2. ASSUME NEW c \in Clients, NEW n \in Numbers, HwFinish(c, n)
        PROVE  \/ pc' = "idle" /\ devOpen' = devOpen
               \/ pc' # "idle" /\ devOpen' = devOpen \ {req'.num}
    BY <2>2 DEF HwFinish, Answer, dev
  <2> QED BY <2>1, <2>2
<1>5. Listed' = Listed
  BY <1>1 DEF Listed
<1>6. CASE pc' = "idle" /\ devOpen' = devOpen
  BY <1>1, <1>3, <1>5, <1>6 DEF Drift
<1>7. CASE /\ pc' # "idle"
           /\ devOpen' \in {devOpen \cup {req'.num}, devOpen \ {req'.num}}
  <2>1. Drift' \ {req'.num} \subseteq Drift
    BY <1>5, <1>7 DEF Drift
  <2>2. Cardinality(Drift' \ {req'.num}) <= Cardinality(Drift)
    BY <1>2, <2>1, NumberSets
  <2>3. /\ Cardinality(Drift' \ {req'.num}) \in Nat
        /\ Cardinality(Drift) \in Nat
    BY <1>2, NumberSets
  <2> QED BY <1>1, <1>3, <1>7, <2>2, <2>3
<1> QED BY <1>4, <1>6, <1>7

\* A handler brings its number's row to where the device is.
LEMMA DriftMirrors ==
  ASSUME IInv, IInv', OneSigner, DriftInv, HwMirror \/ HwClose
  PROVE  DriftInv'
<1> SUFFICES ASSUME Hw', ~lost'
             PROVE  Cardinality(IF pc' = "idle" THEN Drift'
                                ELSE Drift' \ {req'.num}) <= crashes'
  BY DEF DriftInv
<1>1. /\ Hw /\ ~lost /\ pc # "idle" /\ pc' = "idle" /\ crashes' = crashes
      /\ UNCHANGED devOpen /\ req.num \in Numbers
      /\ state \in [Numbers -> {"none", "ACTIVE", "FINISHED"}]
  BY DEF HwMirror, HwClose, Answer, Hw, run, dev, IInv, TypeOK, AtInv
<1>2. Cardinality(Drift \ {req.num}) <= crashes
  BY <1>1 DEF DriftInv
<1>3. Drift' = Drift \ {req.num}
  <2>1. CASE HwMirror
    <3>1. req.num \in devOpen
      BY <1>1, <2>1 DEF HwMirror, IInv, RecInv
    <3>2. state' = [state EXCEPT ![req.num] = "ACTIVE"]
      BY <1>1, <2>1 DEF HwMirror
    <3>3. Listed' = Listed \cup {req.num}
      BY <1>1, <3>2 DEF Listed
    <3> QED BY <1>1, <3>1, <3>3 DEF Drift
  <2>2. CASE HwClose
    <3>1. req.num \notin devOpen
      BY <1>1, <2>2 DEF HwClose, IInv, RowInv
    <3>2. state' = IF state[req.num] = "none" THEN state
                   ELSE [state EXCEPT ![req.num] = "FINISHED"]
      BY <1>1, <2>2 DEF HwClose
    <3>3. Listed' = Listed \ {req.num}
      BY <1>1, <3>2 DEF Listed
    <3> QED BY <1>1, <3>1, <3>3 DEF Drift
  <2> QED BY <2>1, <2>2
<1> QED BY <1>1, <1>2, <1>3

\* A crash leaves the number of the request it strikes unmirrored.
LEMMA DriftCrash ==
  ASSUME IInv, OneSigner, DriftInv, Crash
  PROVE  DriftInv'
<1> SUFFICES ASSUME Hw, ~lost PROVE Cardinality(Drift) <= crashes + 1
  BY DEF DriftInv, Crash, Hw, Drift, Listed, db, rows, dev, obs
<1>1. Drift \in SUBSET Numbers /\ crashes \in Nat
  BY DEF IInv, TypeOK, RowInv, Drift, Listed
<1>2. IsFiniteSet(Drift) /\ Cardinality(Drift) \in Nat
  BY <1>1, NumberSets
<1>3. Cardinality(Drift \ {req.num}) \in {Cardinality(Drift), Cardinality(Drift) - 1}
  BY <1>2, FS_RemoveElement
<1> QED BY <1>1, <1>2, <1>3 DEF DriftInv

LEMMA DriftStep ==
  ASSUME IInv, IInv', OneSigner, DriftInv, [Next]_vars
  PROVE  DriftInv'
<1>1. ASSUME NEW c \in Clients, HwStart(c) PROVE DriftInv'
  BY <1>1, DriftOpens
<1>2. ASSUME NEW c \in Clients, NEW n \in Numbers, HwFinish(c, n) PROVE DriftInv'
  BY <1>2, DriftOpens
<1>3. CASE HwMirror \/ HwClose
  BY <1>3, DriftMirrors
<1>4. CASE Crash
  BY <1>4, DriftCrash
<1>5. CASE Boot \/ UNCHANGED vars
  <2>1. UNCHANGED <<signers, pc, req, state, devOpen, crashes, lost>>
    BY <1>5 DEF Boot, vars, run, db, rows, dev, obs
  <2> QED BY <2>1 DEF DriftInv, Hw, Drift, Listed
<1>6. CASE \/ SimSig \/ SimInsert \/ SimSelect \/ SimUpdate
           \/ \E c \in Clients : SimNumber(c)
           \/ \E c \in Clients, n \in Numbers : SimFinish(c, n)
  <2>1. /\ UNCHANGED signers
        /\ pc \in {"sig", "finSig", "insert", "select", "update"} \/ mode = "sim"
    BY <1>6 DEF SimSig, SimInsert, SimSelect, SimUpdate, SimNumber, SimFinish,
                Idle, run
  <2>2. ~Hw'
    BY <2>1 DEF IInv, AtInv, Hw
  <2> QED BY <2>2 DEF DriftInv
<1> QED BY <1>1, <1>2, <1>3, <1>4, <1>5, <1>6 DEF Next

\* "GET /transactions can report which transaction numbers are still open":
\* with one signer the rows listed as open are those open on the TSE, but for
\* one per crash (record_transaction_open, record_transaction_finished).
THEOREM DriftIsBounded == Spec => []MirrorDrift
<1>1. Init => DriftInv
  <2> SUFFICES ASSUME Init PROVE Cardinality(Drift) <= crashes
    BY DEF Init, DriftInv
  <2>1. Drift = {}
    BY DEF Init, Drift, Listed
  <2> QED BY <2>1, FS_EmptySet DEF Init
<1>2. /\ OneSigner => IInv
      /\ (OneSigner => IInv)'
      /\ DriftInv
      /\ [Next]_vars
      => DriftInv'
  <2> SUFFICES ASSUME OneSigner => IInv, OneSigner' => IInv', DriftInv,
                      [Next]_vars, Hw'
               PROVE  DriftInv'
    BY DEF DriftInv
  <2>1. OneSigner /\ OneSigner'
    BY SignersFixed DEF OneSigner, Hw
  <2> QED BY <2>1, DriftStep
<1>3. (OneSigner => IInv) /\ DriftInv => MirrorDrift
  BY DEF IInv, AtInv, DriftInv, MirrorDrift, Drift, Hw, Sim
<1> QED BY <1>1, <1>2, <1>3, Invariance, PTL DEF Spec
=============================================================================
