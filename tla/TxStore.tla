------------------------------- MODULE TxStore -------------------------------
(***************************************************************************)
(* Starting and finishing transactions (store.c, db.c).  In hardware mode  *)
(* the TSE numbers and signs, and the transactions table mirrors it; in    *)
(* simulator mode two counters in the settings table number and sign.  One *)
(* HTTP thread runs one request at a time; every SQL statement commits on  *)
(* its own and is one action, so that a crash can fall between any two and *)
(* a statement can fail.  Where a TSE is configured that cannot always be  *)
(* opened, a restart comes up now in hardware mode and now in the          *)
(* simulator, on the same tables.                                          *)
(***************************************************************************)
EXTENDS Naturals, FiniteSets

CONSTANTS
  Clients,
  MaxNum,     \* bound on transaction numbers
  MaxCrashes, \* bound on crashes
  MaxFails    \* bound on failed statements, device calls and random reads

ASSUME StoreAssumption ==
  /\ "none" \notin Clients
  /\ MaxNum \in Nat /\ MaxCrashes \in Nat /\ MaxFails \in Nat

VARIABLES
  signers,                \* what a restart may come up with; never changes
  mode,                   \* down, hw or sim
  pc, req, reply,         \* the request, and what its handler has obtained
  txc, sigc,              \* settings transaction_counter, signature_counter
  owner, state,           \* the table transactions: client_id and state
  by,                     \* ghost: the signer that wrote its row
  devNum, devSig, devOpen,\* the TSE: last number, last signature, open ones
  crashes, fails,         \* faults so far
  hit,                    \* ghost: a fault struck this request
  lost,                   \* ghost: a write failed and the code went on
  acked                   \* ghost: the operations whose success was reported,
                          \* kept where one signer owns the database

run  == <<signers, mode>>
rows == <<owner, by>>
db   == <<txc, sigc, rows, state>>
dev  == <<devNum, devSig, devOpen>>
obs  == <<fails, hit, lost>>
vars == <<run, pc, req, reply, db, dev, crashes, obs, acked>>

\* One signer owns the database: there is no TSE, or it opens at every start.
OneSigner == signers # {"hw", "sim"}

Numbers  == 1..MaxNum
Requests ==
  [kind : {"start", "finish"}, client : Clients, num : Nat, sig : Nat]

TypeOK ==
  /\ signers \in SUBSET {"hw", "sim"} /\ mode \in {"down", "hw", "sim"}
  /\ pc \in {"idle", "mirror", "close", "sig", "insert", "finSig", "update",
             "select"}
  /\ req \in Requests /\ reply \in {"none", "ok", "err", "junk"}
  /\ txc \in Nat /\ sigc \in Nat
  /\ owner \in [Numbers -> Clients \cup {"none"}]
  /\ state \in [Numbers -> {"none", "ACTIVE", "FINISHED"}]
  /\ by \in [Numbers -> {"none", "hw", "sim"}]
  /\ devNum \in Nat /\ devSig \in Nat /\ devOpen \subseteq Nat
  /\ crashes \in Nat /\ fails \in Nat /\ hit \in BOOLEAN /\ lost \in BOOLEAN
  /\ acked \subseteq Requests

Init ==
  /\ signers \in {{"hw"}, {"sim"}, {"hw", "sim"}}
  /\ mode = "down" /\ pc = "idle" /\ reply = "none"
  /\ req \in [kind : {"start"}, client : Clients, num : {0}, sig : {0}]
  /\ txc = 0 /\ sigc = 0
  /\ owner = [n \in Numbers |-> "none"]
  /\ state = [n \in Numbers |-> "none"] /\ by = owner
  /\ devNum = 0 /\ devSig = 0 /\ devOpen = {}
  /\ crashes = 0 /\ fails = 0 /\ hit = FALSE /\ lost = FALSE /\ acked = {}

(***************************************************************************)
(* Faults and answers.                                                     *)
(***************************************************************************)
\* A call that can fail does (f) or does not.
Fails(f) ==
  IF f THEN fails < MaxFails /\ fails' = fails + 1 /\ hit' = TRUE
       ELSE UNCHANGED <<fails, hit>>

\* The first one of a request.
FirstFails(f) ==
  /\ f => fails < MaxFails
  /\ fails' = IF f THEN fails + 1 ELSE fails
  /\ hit' = f

Answer(ok) ==
  /\ pc' = "idle" /\ reply' = IF ok THEN "ok" ELSE "err"
  /\ acked' = IF ok /\ OneSigner THEN acked \cup {req'} ELSE acked

Goto(pos) == pc' = pos /\ UNCHANGED <<reply, acked>>

\* store_init settles the mode for this run; a TSE that cannot be opened is
\* replaced by the simulator.
Boot ==
  /\ mode = "down" /\ mode' \in signers
  /\ UNCHANGED <<signers, pc, req, reply, db, dev, crashes, obs, acked>>

\* A crash loses the request; the database and the TSE keep what they have.
Crash ==
  /\ mode # "down" /\ crashes < MaxCrashes /\ crashes' = crashes + 1
  /\ mode' = "down" /\ pc' = "idle" /\ reply' = "none"
  /\ UNCHANGED <<signers, req, db, dev, obs, acked>>

\* Defect: the next value is returned but not stored.
Increment_NotStored(counter, next, f) ==
  next = counter + 1 /\ UNCHANGED <<counter, lost>>

\* db_increment_counter returns the next value even when writing it failed,
\* and takes a counter that it cannot read for 0.
Increment(counter, next, f) ==
  /\ lost' = (lost \/ f)
  /\ \/ next = counter + 1 /\ counter' = IF f THEN counter ELSE next
     \/ f /\ next = 1 /\ counter' = next

(***************************************************************************)
(* store_start_transaction.                                                *)
(***************************************************************************)
Idle == mode # "down" /\ pc = "idle"

\* Hardware: the device starts a transaction, or refuses.
HwStart(c) ==
  /\ Idle /\ mode = "hw" /\ devNum < MaxNum
  /\ \E f \in BOOLEAN :
       /\ FirstFails(f)
       /\ IF f
          THEN /\ UNCHANGED dev
               /\ req' = [kind |-> "start", client |-> c, num |-> 0, sig |-> 0]
               /\ Answer(FALSE)
          ELSE /\ devNum' = devNum + 1 /\ devSig' = devSig + 1
               /\ devOpen' = devOpen \cup {devNum'}
               /\ req' = [kind |-> "start", client |-> c, num |-> devNum',
                          sig |-> devSig']
               /\ pc' = "mirror" /\ reply' = "none" /\ UNCHANGED acked
  /\ UNCHANGED <<run, db, crashes, lost>>

\* record_transaction_open inserts the row or, whoever wrote it, updates the
\* one with that number.  Its failure is ignored.
HwMirror ==
  /\ pc = "mirror"
  /\ \E f \in BOOLEAN :
       /\ Fails(f) /\ lost' = (lost \/ f)
       /\ IF f THEN UNCHANGED <<rows, state>>
               ELSE /\ owner' = [owner EXCEPT ![req.num] = req.client]
                    /\ by' = [by EXCEPT ![req.num] = "hw"]
                    /\ state' = [state EXCEPT ![req.num] = "ACTIVE"]
  /\ UNCHANGED req /\ Answer(TRUE)
  /\ UNCHANGED <<run, txc, sigc, dev, crashes>>

\* Simulator: the number ...
SimNumber(c) ==
  /\ Idle /\ mode = "sim" /\ txc < MaxNum
  /\ \E f \in BOOLEAN, n \in {1, txc + 1} :
       /\ FirstFails(f) /\ Increment(txc, n, f)
       /\ req' = [kind |-> "start", client |-> c, num |-> n, sig |-> 0]
  /\ pc' = "sig" /\ reply' = "none"
  /\ UNCHANGED <<run, sigc, rows, state, dev, crashes, acked>>

\* ... the signature counter ...
SimSig ==
  /\ pc \in {"sig", "finSig"}
  /\ \E f \in BOOLEAN, s \in {1, sigc + 1} :
       /\ Fails(f) /\ Increment(sigc, s, f)
       /\ req' = [req EXCEPT !.sig = s]
  /\ Goto(IF pc = "sig" THEN "insert" ELSE "update")
  /\ UNCHANGED <<run, txc, rows, state, dev, crashes>>

\* Defect: INSERT OR REPLACE.
Insertable_Always(n) == TRUE

\* The table's primary key refuses a second row with that number.
Insertable(n) == state[n] = "none"

\* ... and the row; the random signature or the statement may fail.
SimInsert ==
  /\ pc = "insert" /\ UNCHANGED req
  /\ \E f \in BOOLEAN :
       /\ Fails(f)
       /\ IF ~f /\ Insertable(req.num)
          THEN /\ owner' = [owner EXCEPT ![req.num] = req.client]
               /\ by' = [by EXCEPT ![req.num] = "sim"]
               /\ state' = [state EXCEPT ![req.num] = "ACTIVE"]
               /\ Goto("select")
          ELSE Answer(FALSE) /\ UNCHANGED <<rows, state>>
  /\ UNCHANGED <<run, txc, sigc, dev, crashes, lost>>

\* The row is read back.  A statement that cannot be prepared fails the
\* request; one that yields no row leaves the answer's buffer as it was, and
\* the request succeeds with what happens to be there.
SimSelect ==
  /\ pc = "select" /\ UNCHANGED req
  /\ \E f \in BOOLEAN :
       /\ Fails(f)
       /\ \/ Answer(~f)
          \/ f /\ pc' = "idle" /\ reply' = "junk" /\ UNCHANGED acked
  /\ UNCHANGED <<run, db, dev, crashes, lost>>

(***************************************************************************)
(* store_finish_transaction.  The caller names the number; in simulator    *)
(* mode the client is ignored.                                             *)
(***************************************************************************)
HwFinish(c, n) ==
  /\ Idle /\ mode = "hw"
  /\ \E f \in BOOLEAN :
       /\ FirstFails(f)
       /\ IF f \/ n \notin devOpen
          THEN /\ UNCHANGED dev
               /\ req' = [kind |-> "finish", client |-> c, num |-> n,
                          sig |-> 0]
               /\ Answer(FALSE)
          ELSE /\ devSig' = devSig + 1 /\ devOpen' = devOpen \ {n}
               /\ UNCHANGED devNum
               /\ req' = [kind |-> "finish", client |-> c, num |-> n,
                          sig |-> devSig']
               /\ pc' = "close" /\ reply' = "none" /\ UNCHANGED acked
  /\ UNCHANGED <<run, db, crashes, lost>>

\* Defect: the row of a finished transaction is left as it is.
HwClose_Skipped ==
  /\ pc = "close" /\ UNCHANGED req /\ Answer(TRUE)
  /\ UNCHANGED <<run, db, dev, crashes, obs>>

\* record_transaction_finished updates the row if there is one.
HwClose ==
  /\ pc = "close"
  /\ \E f \in BOOLEAN :
       /\ Fails(f) /\ lost' = (lost \/ f)
       /\ state' = IF f \/ state[req.num] = "none" THEN state
                   ELSE [state EXCEPT ![req.num] = "FINISHED"]
  /\ UNCHANGED req /\ Answer(TRUE)
  /\ UNCHANGED <<run, txc, sigc, rows, dev, crashes>>

\* Defect: a finished transaction is finished again.
Finishable_Again(n) == state[n] # "none"

Finishable(n) == state[n] = "ACTIVE"

SimFinish(c, n) ==
  /\ Idle /\ mode = "sim"
  /\ req' = [kind |-> "finish", client |-> c, num |-> n, sig |-> 0]
  /\ \E f \in BOOLEAN :
       /\ FirstFails(f)
       /\ IF ~f /\ Finishable(n)
          THEN pc' = "finSig" /\ reply' = "none" /\ UNCHANGED acked
          ELSE Answer(FALSE)
  /\ UNCHANGED <<run, db, dev, crashes, lost>>

\* Defect: success without the UPDATE.
SimUpdate_Skipped ==
  /\ pc = "update" /\ Goto("select")
  /\ UNCHANGED <<run, req, db, dev, crashes, obs>>

SimUpdate ==
  /\ pc = "update" /\ UNCHANGED req
  /\ \E f \in BOOLEAN :
       /\ Fails(f)
       /\ IF f THEN Answer(FALSE) /\ UNCHANGED state
               ELSE /\ state' = [state EXCEPT ![req.num] = "FINISHED"]
                    /\ Goto("select")
  /\ UNCHANGED <<run, txc, sigc, rows, dev, crashes, lost>>

Next == \/ Boot \/ Crash
        \/ HwMirror \/ HwClose \/ SimSig \/ SimInsert \/ SimSelect \/ SimUpdate
        \/ \E c \in Clients : HwStart(c) \/ SimNumber(c)
        \/ \E c \in Clients, n \in Numbers : HwFinish(c, n) \/ SimFinish(c, n)

Spec == Init /\ [][Next]_vars

(***************************************************************************)
(* Properties.                                                             *)
(***************************************************************************)
\* A number is acknowledged as started at most once and as finished at most
\* once, whatever crashes and whichever writes fail.
AckedOnce ==
  OneSigner => \A a, b \in acked : a.kind = b.kind /\ a.num = b.num => a = b

\* An acknowledged start is on record for its client, and a number that was
\* acknowledged as finished is not on record as anything else, unless a write
\* whose failure the code ignores failed.
AckedOnRecord ==
  OneSigner /\ ~lost =>
    \A a \in acked : /\ a.kind = "start" => owner[a.num] = a.client
                     /\ a.kind = "finish" =>
                          state[a.num] = "FINISHED" \/ owner[a.num] = "none"

\* Acknowledged operations never share a signature counter.
SignaturesDistinct ==
  OneSigner /\ ~lost => \A a, b \in acked : a.sig = b.sig => a = b

\* No row is ever reopened or given to another client, except that the TSE's
\* rows replace the simulator's after a fallback.
Ledger == INSTANCE TxLedger
ImplementsLedger == Ledger!Spec

\* "GET /transactions can report which transaction numbers are still open"
\* (store.c:182): the rows in state ACTIVE are those open on the TSE, but for
\* at most one transaction per crash.
Listed == {n \in Numbers : state[n] = "ACTIVE"}
MirrorDrift ==
  OneSigner /\ mode = "hw" /\ pc = "idle" /\ ~lost =>
    Cardinality((Listed \ devOpen) \cup (devOpen \ Listed)) <= crashes

\* "If init fails, the server falls back to simulator signing" (README.md:74):
\* a start in the simulator that no fault strikes is served, unless an earlier
\* counter write was lost or the TSE has written the row of the number that is
\* the simulator's next: then it fails, and so do as many starts as the TSE's
\* numbers are ahead of the simulator's.
SimulatorSigns ==
  mode = "sim" /\ reply = "err" /\ req.kind = "start"
    => hit \/ lost \/ by[req.num] = "hw"
=============================================================================
