-------------------------------- MODULE Server --------------------------------
(***************************************************************************)
(* The process as a whole (main.c, with the export of handlers.c as the    *)
(* request that involves every part): main boots, serves and shuts down;   *)
(* the worker runs main's jobs, streaming an export to the client's socket *)
(* from under g_worm_mu; the time-sync thread polls under the same mutex;  *)
(* the client may stop reading and a signal may come at any moment.        *)
(*                                                                         *)
(* The job queue is the SerialExecutor that TseWorker implements; the      *)
(* device calls of a job or a poll (TseSession) are one step here, and so  *)
(* is the reading of a request (HttpConn).                                 *)
(***************************************************************************)
EXTENDS Naturals, Sequences

CONSTANTS
  Main, W, T, \* the threads
  NULL,
  Chunks      \* length of the export, in calls of the callback

ASSUME ServerAssumption ==
  /\ NULL \notin {Main, W, T} /\ Main # W /\ W # T /\ T # Main
  /\ Chunks \in Nat

VARIABLES
  running,      \* g_running
  mainPc,
  open, status, \* the executor: s_running, and where main's job is
  job,          \* what it is: prepare, tar or other
  wPc, jobRc,   \* the worker inside the job, and job.rc = 0
  mu,           \* holder of g_worm_mu, or NULL
  tPc,          \* the time-sync thread
  active,       \* g_active; the store is freed when it is cleared
  dbOpen,       \* g_db # NULL
  reading,      \* does the client take what is sent?
  chunk,        \* the chunk worm_export_tar delivers next
  write_rc,     \* of export_stream_ctx_t: a write has failed
  wire          \* ghost: what was sent of this response, as pairs of a part
                \* (0 is the header) and whether all of it was

executor == <<open, status>>
export   == <<chunk, write_rc, wire>>
vars == <<running, mainPc, executor, job, wPc, jobRc, mu, tPc, active, dbOpen,
          reading, export>>

Exec == INSTANCE SerialExecutor WITH Callers <- {Main}

Parts == 0..Chunks

TypeOK ==
  /\ running \in BOOLEAN /\ open \in BOOLEAN /\ active \in BOOLEAN
  /\ dbOpen \in BOOLEAN /\ reading \in BOOLEAN /\ jobRc \in BOOLEAN
  /\ mainPc \in {"boot", "worker", "serve", "handle", "header", "join",
                 "joinNone", "store", "storeLock", "db", "exited", "crashed",
                 "blocked"}
  /\ status \in [{Main} -> {"out", "submitted", "running", "ran"}]
  /\ job \in {"prepare", "tar", "other"}
  /\ wPc \in {"idle", "lock", "call", "chunk", "write", "blocked", "unlock",
              "end"}
  /\ mu \in {W, T, NULL} /\ (mu = T <=> tPc = "poll")
  /\ mu = W <=> wPc \in {"call", "chunk", "write", "blocked", "unlock"}
  /\ tPc \in {"off", "sleep", "poll", "exited"}
  /\ chunk \in 1..Chunks + 1 /\ write_rc \in BOOLEAN
  /\ wire \in Seq(Parts \X BOOLEAN)

Init ==
  /\ running = TRUE /\ mainPc = "boot"
  /\ Exec!Init /\ job = "other" /\ wPc = "idle" /\ jobRc = FALSE
  /\ mu = NULL /\ tPc = "off" /\ active = FALSE /\ dbOpen = TRUE
  /\ reading \in BOOLEAN
  /\ chunk = 1 /\ write_rc = FALSE /\ wire = <<>>

(***************************************************************************)
(* The environment: the client, and SIGINT or SIGTERM.                     *)
(***************************************************************************)
ClientTurns ==
  /\ reading' = ~reading
  /\ UNCHANGED <<running, mainPc, executor, job, wPc, jobRc, mu, tPc, active,
                 dbOpen, export>>

Signal ==
  /\ running' = FALSE
  /\ UNCHANGED <<mainPc, executor, job, wPc, jobRc, mu, tPc, active, dbOpen,
                 reading, export>>

(***************************************************************************)
(* http_write_all looks at the flag, waits ten seconds for room, and sends *)
(* into the socket's buffer, which may have room for all of it although    *)
(* the client does not read.  If it has not, send blocks, with no timeout. *)
(***************************************************************************)
Outcomes == {"ok", "failed", "blocked"}

\* A write that fails may have sent a part.
Wrote(before, part, out) ==
  IF out = "blocked" THEN wire' = before
  ELSE \/ wire' = Append(before, <<part, out = "ok">>)
       \/ out = "failed" /\ wire' = before

\* Defect: the wait for room has no timeout.
Write_Patient(before, part, out) ==
  /\ running => reading
  /\ out # "blocked" /\ (out = "ok" <=> running)
  /\ Wrote(before, part, out)

Write(before, part, out) ==
  /\ out = "ok" => running
  /\ out = "failed" => ~running \/ ~reading
  /\ out = "blocked" => ~reading
  /\ Wrote(before, part, out)

(***************************************************************************)
(* main.                                                                   *)
(***************************************************************************)
MainAt(pos)   == mainPc = pos
MainGoto(pos) == mainPc' = pos

\* store_init finds a TSE, or does not.  It starts the time-sync thread, and
\* goes on if there can be none.
StoreInit ==
  /\ MainAt("boot") /\ MainGoto("worker")
  /\ \/ active' = TRUE /\ tPc' \in {"off", "sleep"}
     \/ UNCHANGED <<active, tPc>>
  /\ UNCHANGED <<running, executor, job, wPc, jobRc, mu, dbOpen, reading,
                 export>>

\* tse_worker_init; then main leaves at once if it was told to.
WorkerInit ==
  /\ MainAt("worker") /\ MainGoto(IF running THEN "serve" ELSE "store")
  /\ Exec!Open \/ UNCHANGED executor
  /\ UNCHANGED <<running, job, wPc, jobRc, mu, tPc, active, dbOpen, reading,
                 export>>

Idle == UNCHANGED <<wPc, mu, tPc, active, dbOpen, reading>>

\* A request that posts a job; a refused one leaves job.rc at -1, and main
\* goes on with the next request.  The others stay in main and are left out.
Post(j) ==
  /\ job' = j /\ jobRc' = FALSE
  /\ \/ Exec!Submit(Main) /\ MainGoto("handle")
     \/ ~open /\ UNCHANGED executor /\ MainGoto("serve")

Request(j) ==
  /\ MainAt("serve") /\ running /\ active /\ Post(j)
  /\ UNCHANGED <<running, export>> /\ Idle

\* tse_worker_run returns: an export that is ready goes on with its headers.
Response ==
  /\ MainAt("handle") /\ Exec!Return(Main)
  /\ MainGoto(IF job = "prepare" /\ jobRc THEN "header" ELSE "serve")
  /\ UNCHANGED <<running, job, jobRc, export>> /\ Idle

\* http_send_response sends the header, ignores the outcome, and calls
\* export_stream_writer, which posts the second job with a new context.
Header ==
  /\ MainAt("header") /\ chunk' = 1 /\ write_rc' = FALSE
  /\ \E out \in Outcomes :
       /\ Write(<<>>, 0, out)
       /\ IF out # "blocked" THEN Post("tar")
          ELSE MainGoto("blocked") /\ UNCHANGED <<executor, job, jobRc>>
  /\ UNCHANGED running /\ Idle

\* The blocked send returns: the client reads on or goes away, or the signal
\* interrupts it.  Nobody owes this.
HeaderResumes ==
  /\ MainAt("blocked") /\ chunk' = 1 /\ write_rc' = FALSE
  /\ \E out \in {"ok", "failed"} : Wrote(<<>>, 0, out)
  /\ Post("tar")
  /\ UNCHANGED running /\ Idle

\* http_serve returns on the signal or an error of the listening socket, and
\* tse_worker_shutdown begins.
ServeReturns ==
  /\ MainAt("serve")
  /\ \/ Exec!Close /\ MainGoto("join")
     \/ ~open /\ UNCHANGED executor /\ MainGoto("joinNone")
  /\ UNCHANGED <<running, job, jobRc, export>> /\ Idle

\* The worker has nothing to do and exits.  A thread that was never created
\* is joined all the same, which is undefined.
Join ==
  /\ \/ MainAt("join") /\ status[Main] = "out" /\ MainGoto("store")
     \/ MainAt("joinNone") /\ (MainGoto("store") \/ MainGoto("crashed"))
  /\ UNCHANGED <<running, executor, job, jobRc, export>> /\ Idle

StoreShutdown ==
  /\ MainAt("store") /\ MainGoto(IF active THEN "storeLock" ELSE "db")
  /\ UNCHANGED <<running, executor, job, jobRc, export>> /\ Idle

\* Defect: the store is freed without the mutex.
MayFree_Always == TRUE

\* tse_worm_shutdown gets the mutex when nobody uses the device.
MayFree == mu = NULL

WormShutdown ==
  /\ MainAt("storeLock") /\ MayFree
  /\ active' = FALSE /\ MainGoto("db")
  /\ UNCHANGED <<running, executor, job, jobRc, wPc, mu, tPc, dbOpen, reading,
                 export>>

\* db_close, and the process ends.
DbClose ==
  /\ MainAt("db") /\ dbOpen /\ dbOpen' = FALSE
  /\ UNCHANGED <<running, mainPc, executor, job, jobRc, wPc, mu, tPc, active,
                 reading, export>>

Exit ==
  /\ MainAt("db") /\ ~dbOpen /\ MainGoto("exited")
  /\ UNCHANGED <<running, executor, job, jobRc, export>> /\ Idle

MainStep == \/ StoreInit \/ WorkerInit \/ Response \/ Header \/ Join
            \/ StoreShutdown \/ WormShutdown \/ DbClose \/ Exit
            \/ ~running /\ ServeReturns

(***************************************************************************)
(* The worker.                                                             *)
(***************************************************************************)
Alive == mainPc \notin {"exited", "crashed"}

InMain == UNCHANGED <<running, mainPc, job, active, dbOpen, reading, tPc>>

JobBegin ==
  /\ Exec!Begin(Main) /\ wPc = "idle"
  /\ wPc' = IF active THEN "lock" ELSE "end"
  /\ UNCHANGED <<jobRc, mu, export>> /\ InMain

JobLock ==
  /\ wPc = "lock" /\ mu = NULL /\ mu' = W /\ wPc' = "call"
  /\ UNCHANGED <<executor, jobRc, export>> /\ InMain

\* tse_worm_export_prepare and the requests of TseSession end here, well or
\* not; an export begins.
JobCall ==
  /\ wPc = "call"
  /\ \/ job = "tar" /\ wPc' = "chunk" /\ UNCHANGED jobRc
     \/ job # "tar" /\ wPc' = "unlock" /\ jobRc' \in BOOLEAN
  /\ UNCHANGED <<executor, mu, export>> /\ InMain

\* Defect: the callback goes on after a write that failed.
Aborted_Never == FALSE

\* export_tar_chunk_cb: nothing more is written once a write, or the memory
\* for the encoded chunk, has failed.
Aborted == write_rc

Callback ==
  /\ wPc = "chunk" /\ chunk <= Chunks /\ UNCHANGED wire
  /\ \/ Aborted /\ chunk' = chunk + 1 /\ UNCHANGED <<wPc, write_rc>>
     \/ ~Aborted /\ chunk' = chunk + 1 /\ write_rc' = TRUE /\ UNCHANGED wPc
     \/ ~Aborted /\ wPc' = "write" /\ UNCHANGED <<chunk, write_rc>>
  /\ UNCHANGED <<executor, jobRc, mu>> /\ InMain

\* Defect: a write that failed is not recorded.
CallbackEnds_Forgets(out) ==
  IF out = "blocked" THEN wPc' = "blocked" /\ UNCHANGED <<chunk, write_rc>>
  ELSE wPc' = "chunk" /\ chunk' = chunk + 1 /\ write_rc' = FALSE

CallbackEnds(out) ==
  IF out = "blocked" THEN wPc' = "blocked" /\ UNCHANGED <<chunk, write_rc>>
  ELSE wPc' = "chunk" /\ chunk' = chunk + 1 /\ write_rc' = (out = "failed")

CallbackWrites ==
  /\ wPc = "write"
  /\ \E out \in Outcomes : Write(wire, chunk, out) /\ CallbackEnds(out)
  /\ UNCHANGED <<executor, jobRc, mu>> /\ InMain

\* The worker's blocked send returns: the client reads on or goes away.  The
\* signal does not interrupt it, since main takes the signal.
CallbackResumes ==
  /\ wPc = "blocked"
  /\ \E out \in {"ok", "failed"} : Wrote(wire, chunk, out) /\ CallbackEnds(out)
  /\ UNCHANGED <<executor, jobRc, mu>> /\ InMain

\* worm_export_tar (external) may end at any call and then fails; when all is
\* delivered it may succeed.  Its code alone is the job's result, whatever
\* became of the writes.
ExportEnd ==
  /\ wPc = "chunk" /\ wPc' = "unlock"
  /\ jobRc' \in BOOLEAN /\ (jobRc' => chunk > Chunks)
  /\ UNCHANGED <<executor, mu, export>> /\ InMain

\* Defect: the mutex is kept when the job has failed.
JobUnlock_Kept ==
  /\ wPc = "unlock" /\ wPc' = "end"
  /\ IF jobRc THEN mu' = NULL ELSE UNCHANGED mu
  /\ UNCHANGED <<executor, jobRc, export>> /\ InMain

JobUnlock ==
  /\ wPc = "unlock" /\ wPc' = "end" /\ mu' = NULL
  /\ UNCHANGED <<executor, jobRc, export>> /\ InMain

JobEnd ==
  /\ wPc = "end" /\ wPc' = "idle" /\ Exec!End(Main)
  /\ UNCHANGED <<jobRc, mu, export>> /\ InMain

WorkerStep == Alive /\ (\/ JobBegin \/ JobLock \/ JobCall \/ Callback
                        \/ CallbackWrites \/ ExportEnd \/ JobUnlock \/ JobEnd)

(***************************************************************************)
(* The time-sync thread.                                                   *)
(***************************************************************************)
ElseIdle == UNCHANGED <<running, mainPc, executor, job, wPc, jobRc, active,
                        dbOpen, reading, export>>

\* It sleeps, takes the mutex and looks whether the store is still there.
PollLock ==
  /\ tPc = "sleep" /\ mu = NULL
  /\ IF active THEN tPc' = "poll" /\ mu' = T
               ELSE tPc' = "exited" /\ UNCHANGED mu
  /\ ElseIdle

PollUnlock ==
  /\ tPc = "poll" /\ mu' = NULL
  /\ tPc' = IF active THEN "sleep" ELSE "exited"
  /\ ElseIdle

TimeStep == Alive /\ (PollLock \/ PollUnlock)

SendReturns == HeaderResumes \/ (Alive /\ CallbackResumes)

Next == \/ MainStep \/ WorkerStep \/ TimeStep \/ ServeReturns \/ SendReturns
        \/ Signal \/ ClientTurns
        \/ \E j \in {"prepare", "other"} : Request(j)

Spec == Init /\ [][Next]_vars

\* The three threads run; T leaves the mutex free for minutes between two
\* polls, so main and the worker get it when they wait for it.
FairSpec == /\ Spec
            /\ WF_vars(MainStep) /\ WF_vars(WorkerStep) /\ WF_vars(TimeStep)
            /\ SF_vars(WormShutdown) /\ SF_vars(Alive /\ JobLock)

(***************************************************************************)
(* Properties.                                                             *)
(***************************************************************************)
\* When the store is freed and the database is closed, neither of the other
\* threads is inside a device call, which also uses the database: the worker
\* is joined, and the detached thread is kept out by g_worm_mu and g_active.
TornDownQuietly ==
  mainPc \in {"db", "exited"} => wPc = "idle" /\ tPc # "poll"

\* What follows the header, which comes first if it comes at all.
BodyOf(w) == IF w # <<>> /\ w[1][1] = 0 THEN Tail(w) ELSE w

\* "concatenation of decoded lines == the .tar" (handlers.c:356): whatever
\* fails, what is sent is a prefix of the chunks, the last one maybe in part.
Body == BodyOf(wire)
BodyIsPrefix ==
  \A i \in DOMAIN Body : Body[i][1] = i /\ (i < Len(Body) => Body[i][2])

\* When worm_export_tar succeeds, all chunks were sent whole, or write_rc says
\* that they were not; sent means handed to the kernel.  The log's "export
\* complete" (handlers.c:427) goes by the first alone, which is right only if
\* the library fails when its callback aborts.
ShortExportNoticed ==
  job = "tar" /\ jobRc =>
    write_rc \/ Body = [i \in 1..Chunks |-> <<i, TRUE>>]

\* No send waits for ever: the client reads what it is sent, or goes away.
SendsReturn == []<>(mainPc # "blocked" /\ wPc # "blocked")

\* A client that stops reading delays main and the mutex only for a while:
\* every job comes back, unless a send never does.
JobsEnd == SendsReturn => (MainAt("handle") ~> ~MainAt("handle"))

\* After the signal the process ends, even from the middle of an export,
\* unless a send never returns.
ProcessEnds == SendsReturn => (~running ~> ~Alive)
=============================================================================
