---------------------------- MODULE ServerProofs -----------------------------
(***************************************************************************)
(* However long the export, wherever the client stops reading and whenever *)
(* the signal comes: teardown meets no device call, and what is sent is a  *)
(* prefix of the export, all of it unless an error was noticed.            *)
(***************************************************************************)
EXTENDS Server, TLAPS

St == status[Main]

\* Main waits for its job while there is one, and the worker is inside it
\* while it runs; a header follows the first of an export's two jobs.
StatInv ==
  /\ St # "out" => mainPc = "handle"
  /\ St = "running" <=> wPc # "idle"
  /\ mainPc = "header" => job = "prepare"

\* The thread polls only while the store is there.
TimeInv ==
  /\ mainPc = "boot" => tPc = "off"
  /\ tPc = "poll" => active
  /\ mainPc \in {"db", "exited"} => ~active

\* No result is reported before the job has ended.
RcInv ==
  St = "submitted" \/ wPc \in {"lock", "call", "chunk", "write", "blocked"} => ~jobRc

\* While no write has failed, all chunks so far were sent.
SentInv ==
  /\ wPc \in {"write", "blocked"} => ~write_rc
  /\ ~write_rc => Body = [k \in 1..chunk - 1 |-> <<k, TRUE>>]

\* The parts of the type invariant that are about main and the worker, and
\* about the export.
RunTypes ==
  /\ running \in BOOLEAN /\ open \in BOOLEAN /\ active \in BOOLEAN
  /\ dbOpen \in BOOLEAN /\ reading \in BOOLEAN /\ jobRc \in BOOLEAN
PcTypes ==
  /\ mainPc \in {"boot", "worker", "serve", "handle", "header", "join",
                 "joinNone", "store", "storeLock", "db", "exited", "crashed",
                 "blocked"}
  /\ status \in [{Main} -> {"out", "submitted", "running", "ran"}]
  /\ job \in {"prepare", "tar", "other"}
  /\ wPc \in {"idle", "lock", "call", "chunk", "write", "blocked", "unlock",
              "end"}
  /\ tPc \in {"off", "sleep", "poll", "exited"}
MuTypes ==
  /\ mu \in {W, T, NULL} /\ (mu = T <=> tPc = "poll")
  /\ mu = W <=> wPc \in {"call", "chunk", "write", "blocked", "unlock"}
ExportTypes ==
  /\ chunk \in 1..Chunks + 1 /\ write_rc \in BOOLEAN
  /\ (wPc \in {"write", "blocked"} => chunk <= Chunks)
  /\ wire \in Seq(Parts \X BOOLEAN)

IInv ==
  /\ RunTypes /\ PcTypes /\ MuTypes /\ ExportTypes
  /\ StatInv /\ TimeInv /\ RcInv
  /\ SentInv /\ BodyIsPrefix /\ ShortExportNoticed

(***************************************************************************)
(* What is sent.                                                           *)
(***************************************************************************)
LEMMA BodyAppend ==
  ASSUME NEW w \in Seq(Parts \X BOOLEAN), NEW p \in Parts \ {0},
         NEW ok \in BOOLEAN
  PROVE  /\ Append(w, <<p, ok>>) \in Seq(Parts \X BOOLEAN)
         /\ BodyOf(w) \in Seq(Parts \X BOOLEAN)
         /\ BodyOf(Append(w, <<p, ok>>)) = Append(BodyOf(w), <<p, ok>>)
<1> DEFINE S == Parts \X BOOLEAN
           e == <<p, ok>>
<1>1. e \in S /\ e[1] = p /\ p # 0
  BY Zenon
<1>2. \A s \in S : s[1] \in Parts
  BY Zenon
<1> HIDE DEF S, e
<1>3. CASE w = <<>>
  BY <1>1, <1>3 DEF BodyOf, S
<1>4. CASE w # <<>>
  <2>1. Append(w, e)[1] = w[1] /\ Append(w, e) # <<>>
    BY <1>1, <1>4 DEF S
  <2>2. Tail(Append(w, e)) = Append(Tail(w), e)
    BY <1>1, <1>4 DEF S
  <2>3. Append(w, e) \in Seq(S) /\ Tail(w) \in Seq(S)
    BY <1>1, <1>4 DEF S
  <2> QED BY <2>1, <2>2, <2>3 DEF BodyOf, S, e
<1> QED BY <1>3, <1>4 DEF S, e

(***************************************************************************)
(* The steps, one by one.                                                  *)
(***************************************************************************)
LEMMA Steps ==
  ASSUME [Next]_vars
  PROVE  \/ UNCHANGED vars \/ Signal \/ ClientTurns
         \/ StoreInit \/ WorkerInit \/ Response \/ Header \/ HeaderResumes
         \/ Join \/ StoreShutdown \/ WormShutdown \/ DbClose \/ Exit \/ ServeReturns
         \/ Request("prepare") \/ Request("other")
         \/ Alive /\ (JobBegin \/ JobLock \/ JobCall \/ Callback
                      \/ CallbackWrites \/ CallbackResumes \/ ExportEnd \/ JobUnlock \/ JobEnd)
         \/ Alive /\ (PollLock \/ PollUnlock)
BY DEF Next, MainStep, WorkerStep, TimeStep, SendReturns

\* What the executor's steps do to main's job.
LEMMA Executor ==
  ASSUME PcTypes
  PROVE  /\ Exec!Submit(Main) => St = "out" /\ St' = "submitted" /\ open' = open
         /\ Exec!Begin(Main) => St = "submitted" /\ St' = "running" /\ open' = open
         /\ Exec!End(Main) => St = "running" /\ St' = "ran" /\ open' = open
         /\ Exec!Return(Main) => St = "ran" /\ St' = "out" /\ open' = open
         /\ Exec!Open \/ Exec!Close => status' = status /\ open' \in BOOLEAN
         /\ (\/ Exec!Submit(Main) \/ Exec!Begin(Main) \/ Exec!End(Main)
             \/ Exec!Return(Main) \/ Exec!Open \/ Exec!Close)
              => status' \in [{Main} -> {"out", "submitted", "running", "ran"}]
<1> USE DEF PcTypes, St
<1>1. Exec!Submit(Main) => St = "out" /\ St' = "submitted" /\ open' = open
  BY DEF Exec!Submit
<1>2. Exec!Begin(Main) => St = "submitted" /\ St' = "running" /\ open' = open
  BY DEF Exec!Begin
<1>3. Exec!End(Main) => St = "running" /\ St' = "ran" /\ open' = open
  BY DEF Exec!End
<1>4. Exec!Return(Main) => St = "ran" /\ St' = "out" /\ open' = open
  BY DEF Exec!Return
<1>5. Exec!Open \/ Exec!Close => status' = status
  BY DEF Exec!Open, Exec!Close
<1>6. Exec!Open \/ Exec!Close => open' \in BOOLEAN
  BY Zenon DEF Exec!Open, Exec!Close
<1>7. (\/ Exec!Submit(Main) \/ Exec!Begin(Main) \/ Exec!End(Main)
       \/ Exec!Return(Main) \/ Exec!Open \/ Exec!Close)
        => status' \in [{Main} -> {"out", "submitted", "running", "ran"}]
  BY DEF Exec!Submit, Exec!Begin, Exec!End, Exec!Return, Exec!Open, Exec!Close
<1> QED BY <1>1, <1>2, <1>3, <1>4, <1>5, <1>6, <1>7

\* A posted job, or a refused one.
LEMMA Posted ==
  ASSUME PcTypes, RunTypes, NEW j, Post(j)
  PROVE  /\ job' = j /\ jobRc' = FALSE /\ open' \in BOOLEAN
         /\ status' \in [{Main} -> {"out", "submitted", "running", "ran"}]
         /\ \/ St = "out" /\ St' = "submitted" /\ mainPc' = "handle"
            \/ status' = status /\ mainPc' = "serve"
<1>1. CASE Exec!Submit(Main) /\ MainGoto("handle")
  BY <1>1, Executor DEF Post, MainGoto, RunTypes
<1>2. CASE ~open /\ UNCHANGED executor /\ MainGoto("serve")
  BY <1>2 DEF Post, MainGoto, executor, RunTypes, PcTypes
<1> QED BY <1>1, <1>2 DEF Post

LEMMA RunTypesHold == ASSUME RunTypes, PcTypes, [Next]_vars PROVE RunTypes'
<1> USE DEF RunTypes
<1>1. CASE UNCHANGED vars
  BY <1>1, Zenon DEF vars, executor
<1>2. CASE Signal \/ ClientTurns
  BY <1>2, Zenon DEF Signal, ClientTurns, executor
<1>3. CASE StoreInit \/ Join \/ StoreShutdown \/ WormShutdown \/ DbClose \/ Exit
  BY <1>3, Zenon DEF StoreInit, Join, StoreShutdown, WormShutdown, DbClose, Exit,
     executor, Idle
<1>4. CASE WorkerInit
  <2>1. open' \in BOOLEAN
    BY <1>4, Executor, Zenon DEF WorkerInit, executor
  <2> QED BY <1>4, <2>1, Zenon DEF WorkerInit
<1>5. CASE Response
  <2>1. open' \in BOOLEAN
    BY <1>5, Executor, Zenon DEF Response
  <2> QED BY <1>5, <2>1, Zenon DEF Response, Idle
<1>6. CASE Header \/ HeaderResumes
  <2>1. open' \in BOOLEAN /\ jobRc' \in BOOLEAN
    <3>1. Post("tar") \/ UNCHANGED <<executor, jobRc>>
      BY <1>6, Zenon DEF Header, HeaderResumes
    <3>2. CASE UNCHANGED <<executor, jobRc>>
      BY <3>2, Zenon DEF executor
    <3> QED BY <3>1, <3>2, Posted, Zenon
  <2> QED BY <1>6, <2>1, Zenon DEF Header, HeaderResumes, Idle
<1>7. CASE ServeReturns
  <2>1. open' \in BOOLEAN
    BY <1>7, Executor, Zenon DEF ServeReturns, executor
  <2> QED BY <1>7, <2>1, Zenon DEF ServeReturns, Idle
<1>8. ASSUME NEW j, Request(j) PROVE RunTypes'
  <2>1. open' \in BOOLEAN /\ jobRc' \in BOOLEAN
    BY <1>8, Posted, Zenon DEF Request
  <2> QED BY <1>8, <2>1, Zenon DEF Request, Idle
<1>9. CASE JobBegin \/ JobEnd
  <2>1. open' \in BOOLEAN
    BY <1>9, Executor, Zenon DEF JobBegin, JobEnd
  <2> QED BY <1>9, <2>1, Zenon DEF JobBegin, JobEnd, InMain
<1>10. CASE \/ JobLock \/ JobCall \/ Callback \/ CallbackWrites \/ CallbackResumes
            \/ ExportEnd \/ JobUnlock
  <2>1. jobRc' \in BOOLEAN
    BY <1>10, Zenon DEF JobLock, JobCall, Callback, CallbackWrites, CallbackResumes,
       ExportEnd, JobUnlock
  <2> QED BY <1>10, <2>1, Zenon DEF JobLock, JobCall, Callback, CallbackWrites,
          CallbackResumes, ExportEnd, JobUnlock, InMain, executor
<1>11. CASE PollLock \/ PollUnlock
  BY <1>11, Zenon DEF PollLock, PollUnlock, ElseIdle, executor
<1> QED BY <1>1, <1>2, <1>3, <1>4, <1>5, <1>6, <1>7, <1>8, <1>9, <1>10, <1>11, Steps,
        Zenon

LEMMA PcTypesHold ==
  ASSUME RunTypes, PcTypes, StatInv, [Next]_vars
  PROVE  PcTypes' /\ StatInv'
<1> USE DEF PcTypes, StatInv
<1>1. CASE UNCHANGED vars
  BY <1>1 DEF vars, executor, St
<1>2. CASE Signal \/ ClientTurns
  BY <1>2 DEF Signal, ClientTurns, executor, St
<1>3. CASE StoreInit \/ Join \/ StoreShutdown \/ WormShutdown \/ DbClose \/ Exit
  BY <1>3 DEF StoreInit, Join, StoreShutdown, WormShutdown, DbClose, Exit,
     executor, Idle, MainAt, MainGoto, St
<1>4. CASE WorkerInit
  <2>1. status' = status
    BY <1>4, Executor DEF WorkerInit, executor
  <2> QED BY <1>4, <2>1 DEF WorkerInit, MainAt, MainGoto, St
<1>5. CASE Response
  BY <1>5, Executor DEF Response, Idle, MainAt, MainGoto
<1>6. CASE Header \/ HeaderResumes
  <2>1. St = "out" /\ UNCHANGED <<wPc, tPc>>
    BY <1>6 DEF Header, HeaderResumes, MainAt, Idle
  <2>2. Post("tar") \/ (MainGoto("blocked") /\ UNCHANGED <<executor, job>>)
    BY <1>6, Zenon DEF Header, HeaderResumes
  <2>3. CASE MainGoto("blocked") /\ UNCHANGED <<executor, job>>
    BY <2>1, <2>3 DEF MainGoto, executor, St
  <2> QED BY <2>1, <2>2, <2>3, Posted DEF St
<1>7. CASE ServeReturns
  <2>1. status' = status
    BY <1>7, Executor DEF ServeReturns, executor
  <2> QED BY <1>7, <2>1 DEF ServeReturns, Idle, MainAt, MainGoto, St
<1>8. ASSUME NEW j \in {"prepare", "other"}, Request(j) PROVE PcTypes' /\ StatInv'
  <2>1. St = "out" /\ Post(j) /\ UNCHANGED <<wPc, tPc>>
    BY <1>8 DEF Request, MainAt, Idle
  <2> QED BY <2>1, Posted DEF St
<1>9. CASE JobBegin \/ JobEnd
  BY <1>9, Executor DEF JobBegin, JobEnd, InMain
<1>10. CASE \/ JobLock \/ JobCall \/ Callback \/ CallbackWrites \/ CallbackResumes
            \/ ExportEnd \/ JobUnlock
  BY <1>10 DEF JobLock, JobCall, Callback, CallbackWrites, CallbackResumes, CallbackEnds,
     ExportEnd, JobUnlock, InMain, executor, St
<1>11. CASE PollLock \/ PollUnlock
  BY <1>11 DEF PollLock, PollUnlock, ElseIdle, executor, St
<1> QED BY <1>1, <1>2, <1>3, <1>4, <1>5, <1>6, <1>7, <1>8, <1>9, <1>10, <1>11, Steps

LEMMA MuTypesHold ==
  ASSUME PcTypes, TimeInv, MuTypes, [Next]_vars
  PROVE  MuTypes'
<1> USE ServerAssumption DEF MuTypes, PcTypes, ServerAssumption
<1>1. CASE UNCHANGED vars \/ Signal \/ ClientTurns
  BY <1>1 DEF vars, Signal, ClientTurns
<1>2. CASE \/ WorkerInit \/ Response \/ Header \/ HeaderResumes \/ Join
           \/ StoreShutdown \/ WormShutdown \/ DbClose \/ Exit \/ ServeReturns
  BY <1>2 DEF WorkerInit, Response, Header, HeaderResumes, Join, StoreShutdown, WormShutdown,
     DbClose, Exit, ServeReturns, Idle
<1>3. CASE StoreInit
  BY <1>3 DEF StoreInit, MainAt, TimeInv
<1>4. ASSUME NEW j, Request(j) PROVE MuTypes'
  BY <1>4 DEF Request, Idle
<1>5. CASE \/ JobBegin \/ JobLock \/ JobCall \/ Callback \/ CallbackWrites
           \/ CallbackResumes \/ ExportEnd \/ JobUnlock \/ JobEnd
  BY <1>5 DEF JobBegin, JobLock, JobCall, Callback, CallbackWrites, CallbackResumes,
     CallbackEnds, ExportEnd, JobUnlock, JobEnd, InMain
<1>6. CASE PollLock \/ PollUnlock
  BY <1>6 DEF PollLock, PollUnlock, ElseIdle
<1> QED BY <1>1, <1>2, <1>3, <1>4, <1>5, <1>6, Steps

LEMMA TimeInvHolds ==
  ASSUME PcTypes, MuTypes, TimeInv, [Next]_vars
  PROVE  TimeInv'
<1> USE DEF TimeInv, MainAt, MainGoto
<1>1. CASE UNCHANGED vars \/ Signal \/ ClientTurns
  <2>1. UNCHANGED <<mainPc, tPc, active>>
    BY <1>1, Zenon DEF vars, Signal, ClientTurns
  <2> QED BY <2>1
<1>2. CASE StoreInit
  <2>1. mainPc' = "worker"
    BY <1>2 DEF StoreInit
  <2>2. (active' = TRUE /\ tPc' \in {"off", "sleep"}) \/ UNCHANGED <<active, tPc>>
    BY <1>2, Zenon DEF StoreInit
  <2> QED BY <2>1, <2>2
<1>3. CASE WorkerInit \/ Response \/ Join \/ Exit \/ ServeReturns
  <2>1. UNCHANGED <<active, tPc>>
    BY <1>3, Zenon DEF WorkerInit, Response, Join, Exit, ServeReturns, Idle
  <2>2. /\ mainPc' # "boot" /\ (mainPc' \in {"db", "exited"} => mainPc = "db")
    BY <1>3 DEF WorkerInit, Response, Join, Exit, ServeReturns
  <2> QED BY <2>1, <2>2
<1>4. CASE StoreShutdown
  <2>1. UNCHANGED <<active, tPc>>
    BY <1>4, Zenon DEF StoreShutdown, Idle
  <2>2. mainPc' = IF active THEN "storeLock" ELSE "db"
    BY <1>4 DEF StoreShutdown
  <2> QED BY <2>1, <2>2
<1>5. CASE WormShutdown
  <2>1. tPc # "poll" /\ tPc' = tPc /\ mainPc' = "db"
    BY <1>5, ServerAssumption
       DEF WormShutdown, MayFree, MuTypes, ServerAssumption
  <2>2. ~active'
    BY <1>5, Zenon DEF WormShutdown
  <2> QED BY <2>1, <2>2
<1>6. CASE DbClose
  BY <1>6, Zenon DEF DbClose
<1>7. CASE Header \/ HeaderResumes
  <2>1. UNCHANGED <<active, tPc>> /\ (Post("tar") \/ mainPc' = "blocked")
    BY <1>7, Zenon DEF Header, HeaderResumes, MainGoto, Idle
  <2>2. mainPc' \in {"handle", "serve", "blocked"}
    BY <2>1 DEF Post
  <2> QED BY <2>1, <2>2
<1>8. ASSUME NEW j, Request(j) PROVE TimeInv'
  <2>1. UNCHANGED <<active, tPc>> /\ Post(j)
    BY <1>8, Zenon DEF Request, Idle
  <2>2. mainPc' \in {"handle", "serve"}
    BY <2>1 DEF Post
  <2> QED BY <2>1, <2>2
<1>9. CASE \/ JobBegin \/ JobLock \/ JobCall \/ Callback \/ CallbackWrites
           \/ CallbackResumes \/ ExportEnd \/ JobUnlock \/ JobEnd
  <2>1. UNCHANGED <<mainPc, tPc, active>>
    BY <1>9, Zenon DEF JobBegin, JobLock, JobCall, Callback, CallbackWrites,
       CallbackResumes, ExportEnd, JobUnlock, JobEnd, InMain
  <2> QED BY <2>1
<1>10. CASE PollLock \/ PollUnlock
  <2>1. UNCHANGED <<active, mainPc>>
    BY <1>10, Zenon DEF PollLock, PollUnlock, ElseIdle
  <2>2. tPc # "off" /\ (tPc' = "poll" => active)
    BY <1>10 DEF PollLock, PollUnlock
  <2> QED BY <2>1, <2>2
<1> QED BY <1>1, <1>2, <1>3, <1>4, <1>5, <1>6, <1>7, <1>8, <1>9, <1>10, Steps, Zenon

LEMMA RcInvHolds ==
  ASSUME RunTypes, PcTypes, StatInv, RcInv, [Next]_vars
  PROVE  RcInv'
<1> USE DEF RcInv
<1>1. CASE \/ UNCHANGED vars \/ Signal \/ ClientTurns \/ StoreInit \/ Join
           \/ StoreShutdown \/ WormShutdown \/ DbClose \/ Exit \/ PollLock \/ PollUnlock
  <2>1. UNCHANGED <<status, wPc, jobRc>>
    BY <1>1, Zenon DEF vars, Signal, ClientTurns, StoreInit, Join, StoreShutdown,
       WormShutdown, DbClose, Exit, PollLock, PollUnlock, ElseIdle, Idle, executor
  <2> QED BY <2>1, Zenon DEF St
<1>2. CASE WorkerInit \/ ServeReturns
  <2>1. status' = status
    BY <1>2, Executor DEF WorkerInit, ServeReturns, executor
  <2>2. UNCHANGED <<wPc, jobRc>>
    BY <1>2, Zenon DEF WorkerInit, ServeReturns, Idle
  <2> QED BY <2>1, <2>2, Zenon DEF St
<1>3. CASE Response
  <2>1. UNCHANGED <<wPc, jobRc>>
    BY <1>3, Zenon DEF Response, Idle
  <2>2. St' = "out"
    BY <1>3, Executor DEF Response
  <2> QED BY <2>1, <2>2
<1>4. ASSUME NEW j, Post(j) PROVE RcInv'
  BY <1>4, Posted
<1>5. CASE JobBegin \/ JobLock
  <2>1. UNCHANGED jobRc /\ ~jobRc
    BY <1>5, Executor DEF JobBegin, JobLock
  <2> QED BY <2>1, Zenon
<1>6. CASE JobCall
  <2>1. status' = status /\ St # "submitted"
    BY <1>6 DEF JobCall, executor, StatInv, St
  <2>2. CASE wPc' = "chunk" /\ UNCHANGED jobRc
    <3>1. ~jobRc
      BY <1>6 DEF JobCall
    <3> QED BY <2>2, <3>1, Zenon
  <2>3. CASE wPc' = "unlock"
    BY <2>1, <2>3 DEF St
  <2> QED BY <1>6, <2>2, <2>3 DEF JobCall
<1>7. CASE Callback \/ CallbackWrites \/ CallbackResumes
  <2>1. UNCHANGED jobRc /\ ~jobRc
    BY <1>7 DEF Callback, CallbackWrites, CallbackResumes
  <2> QED BY <2>1, Zenon
<1>8. CASE ExportEnd
  <2>1. status' = status /\ St # "submitted" /\ wPc' = "unlock"
    BY <1>8 DEF ExportEnd, executor, StatInv, St
  <2> QED BY <2>1 DEF St
<1>9. CASE JobUnlock \/ JobEnd
  <2>1. St' # "submitted" /\ wPc' \in {"end", "idle"}
    BY <1>9, Executor DEF JobUnlock, JobEnd, executor, StatInv, St
  <2> QED BY <2>1
<1>10. CASE Header \/ HeaderResumes
  <2>1. CASE Post("tar")
    BY <1>4, <2>1
  <2>2. CASE mainPc = "header" /\ UNCHANGED <<executor, jobRc, wPc>>
    BY <2>2, Zenon DEF executor, St
  <2> QED BY <1>10, <2>1, <2>2, Zenon DEF Header, HeaderResumes, MainAt, Idle
<1>11. \A j : Request(j) => Post(j)
  BY DEF Request
<1> QED BY <1>1, <1>2, <1>3, <1>4, <1>5, <1>6, <1>7, <1>8, <1>9, <1>10, <1>11, Steps,
        Zenon

Writing == wPc \in {"write", "blocked"}

\* Most steps leave the export alone, and none but Callback begins a write.
LEMMA ExportAlone ==
  ASSUME [Next]_vars, ~Header, ~HeaderResumes,
         ~Callback, ~CallbackWrites, ~CallbackResumes
  PROVE  UNCHANGED <<chunk, write_rc, wire>> /\ (Writing' => Writing)
<1>1. UNCHANGED <<chunk, write_rc, wire>>
  BY Steps, Zenon DEF vars, export, Signal, ClientTurns, StoreInit, WorkerInit,
     Response, Join, StoreShutdown, WormShutdown, DbClose, Exit, ServeReturns,
     Request, JobBegin, JobLock, JobCall, ExportEnd, JobUnlock, JobEnd, PollLock,
     PollUnlock, ElseIdle
<1>2. Writing' => Writing
  BY Steps DEF Writing, vars, Signal, ClientTurns, StoreInit, WorkerInit, Response, Join,
     StoreShutdown, WormShutdown, DbClose, Exit, ServeReturns, Request, JobBegin,
     JobLock, JobCall, ExportEnd, JobUnlock, JobEnd, PollLock, PollUnlock, ElseIdle,
     Idle
<1> QED BY <1>1, <1>2

\* What a write adds to what was sent before.
LEMMA Sent ==
  ASSUME NEW before, NEW part, NEW out, Wrote(before, part, out)
  PROVE  \/ out # "ok" /\ wire' = before
         \/ out # "blocked" /\ wire' = Append(before, <<part, out = "ok">>)
BY DEF Wrote

\* A header starts an export anew; the worker has no job then.
LEMMA HeaderSent ==
  ASSUME PcTypes, StatInv, Header \/ HeaderResumes
  PROVE  /\ chunk' = 1 /\ ~write_rc' /\ ~Writing'
         /\ \E ok \in BOOLEAN : wire' = <<>> \/ wire' = <<<<0, ok>>>>
<1>1. ~Writing'
  BY DEF Header, HeaderResumes, MainAt, Idle, StatInv, PcTypes, Writing
<1>2. ~write_rc'
  BY Zenon DEF Header, HeaderResumes
<1>3. chunk' = 1
  BY DEF Header, HeaderResumes
<1>4. PICK out : Wrote(<<>>, 0, out)
  BY Zenon DEF Header, HeaderResumes, Write
<1>5. \E ok \in BOOLEAN : wire' = <<>> \/ wire' = Append(<<>>, <<0, ok>>)
  <2>1. (out = "ok") \in BOOLEAN
    OBVIOUS
  <2> QED BY <1>4, <2>1, Sent, Zenon
<1>6. \A e : Append(<<>>, e) = <<e>>
  OBVIOUS
<1> QED BY <1>1, <1>2, <1>3, <1>5, <1>6, Zenon

\* What the callback's write leaves behind, whether it was blocked or not.
LEMMA ChunkSent ==
  ASSUME CallbackWrites \/ CallbackResumes
  PROVE  /\ Writing
         /\ \/ Writing' /\ UNCHANGED <<chunk, write_rc, wire>>
            \/ /\ wPc' = "chunk" /\ chunk' = chunk + 1
               /\ \E ok \in BOOLEAN :
                    /\ write_rc' = ~ok
                    /\ wire' = Append(wire, <<chunk, ok>>) \/ (~ok /\ wire' = wire)
<1>1. Writing
  BY DEF CallbackWrites, CallbackResumes, Writing
<1>2. PICK out \in Outcomes : Wrote(wire, chunk, out) /\ CallbackEnds(out)
  <2>1. {"ok", "failed"} \subseteq Outcomes
    BY DEF Outcomes
  <2> QED BY <2>1, Zenon DEF CallbackWrites, CallbackResumes, Write
<1>3. CASE out = "blocked"
  BY <1>1, <1>2, <1>3 DEF CallbackEnds, Wrote, Writing
<1>4. CASE out \in {"ok", "failed"}
  <2>1. wPc' = "chunk" /\ chunk' = chunk + 1
    BY <1>2, <1>4 DEF CallbackEnds
  <2> DEFINE Left(ok) == /\ write_rc' = ~ok
                         /\ wire' = Append(wire, <<chunk, ok>>) \/ (~ok /\ wire' = wire)
  <2>2. write_rc' = (out = "failed")
    BY <1>2, <1>4 DEF CallbackEnds
  <2>3. out = "ok" => Left(TRUE)
    BY <1>2, <2>2 DEF Wrote
  <2>4. out = "failed" => Left(FALSE)
    BY <1>2, <2>2 DEF Wrote
  <2> HIDE DEF Left
  <2>5. \E ok \in BOOLEAN : Left(ok)
    BY <1>4, <2>3, <2>4
  <2> USE DEF Left
  <2> QED BY <1>1, <2>1, <2>5, Zenon
<1> QED BY <1>3, <1>4 DEF Outcomes

LEMMA ExportTypesHold ==
  ASSUME PcTypes, StatInv, ExportTypes, [Next]_vars
  PROVE  ExportTypes'
<1> USE ServerAssumption DEF ExportTypes, ServerAssumption
<1>1. CASE ~Header /\ ~HeaderResumes /\ ~Callback /\ ~CallbackWrites /\ ~CallbackResumes
  BY <1>1, ExportAlone, Zenon DEF Writing
<1>2. CASE Header \/ HeaderResumes
  <2>1. PICK ok \in BOOLEAN : wire' = <<>> \/ wire' = <<<<0, ok>>>>
    BY <1>2, HeaderSent, Zenon
  <2>2. <<0, ok>> \in Parts \X BOOLEAN
    <3>1. 0 \in Parts
      BY DEF Parts
    <3> QED BY <3>1, Zenon
  <2>3. wire' \in Seq(Parts \X BOOLEAN)
    <3> DEFINE e == <<0, ok>>
               S == Parts \X BOOLEAN
    <3>1. e \in S /\ (wire' = <<>> \/ wire' = <<e>>)
      BY <2>1, <2>2
    <3> HIDE DEF e, S
    <3>2. <<e>> \in Seq(S) /\ <<>> \in Seq(S)
      BY <3>1
    <3>3. wire' \in Seq(S)
      BY <3>1, <3>2, Zenon
    <3> QED BY <3>3 DEF S
  <2>4. chunk' = 1 /\ ~Writing'
    BY <1>2, HeaderSent
  <2>5. write_rc' \in BOOLEAN
    BY <1>2, Zenon DEF Header, HeaderResumes
  <2>6. chunk' \in 1..Chunks + 1
    BY <2>4
  <2> QED BY <2>3, <2>4, <2>5, <2>6, Zenon DEF Writing
<1>3. CASE Callback
  <2>1. wire' = wire /\ chunk <= Chunks
    BY <1>3 DEF Callback
  <2>2. write_rc' \in BOOLEAN
    BY <1>3, Zenon DEF Callback
  <2>3. /\ chunk' \in {chunk, chunk + 1}
        /\ Writing' => chunk' = chunk
    BY <1>3 DEF Callback, Writing
  <2>4. chunk' \in 1..Chunks + 1 /\ (Writing' => chunk' <= Chunks)
    BY <2>1, <2>3
  <2> QED BY <2>1, <2>2, <2>4, Zenon DEF Writing
<1>4. CASE CallbackWrites \/ CallbackResumes
  <2>1. Writing /\ chunk \in 1..Chunks
    BY <1>4, ChunkSent DEF Writing
  <2>2. CASE Writing' /\ UNCHANGED <<chunk, write_rc, wire>>
    <3>1. chunk' <= Chunks /\ chunk' \in 1..Chunks + 1
      BY <2>1, <2>2
    <3>2. write_rc' \in BOOLEAN
      BY <2>2, Zenon
    <3>3. wire' \in Seq(Parts \X BOOLEAN)
      BY <2>2, Zenon
    <3> QED BY <3>1, <3>2, <3>3
  <2>3. ASSUME wPc' = "chunk", chunk' = chunk + 1, NEW ok \in BOOLEAN, write_rc' = ~ok,
               wire' = Append(wire, <<chunk, ok>>) \/ (~ok /\ wire' = wire)
        PROVE  ExportTypes'
    <3>1. chunk \in Parts \ {0} /\ chunk' \in 1..Chunks + 1
      BY <2>1, <2>3 DEF Parts
    <3>2. wire' \in Seq(Parts \X BOOLEAN)
      BY <2>3, <3>1, BodyAppend, Zenon
    <3>3. write_rc' \in BOOLEAN
      BY <2>3, Zenon
    <3> QED BY <2>3, <3>1, <3>2, <3>3
  <2> QED BY <1>4, <2>2, <2>3, ChunkSent, Zenon
<1> QED BY <1>1, <1>2, <1>3, <1>4

(***************************************************************************)
(* The export.                                                             *)
(***************************************************************************)
Full(n)   == [k \in 1..n |-> <<k, TRUE>>]
Prefix(b) == \A k \in DOMAIN b : b[k][1] = k /\ (k < Len(b) => b[k][2])

LEMMA Pair == \A a, b : <<a, b>>[1] = a /\ <<a, b>>[2] = b
BY Zenon

LEMMA FullGrows ==
  ASSUME NEW n \in Nat, NEW ok \in BOOLEAN
  PROVE  /\ Append(Full(n), <<n + 1, TRUE>>) = Full(n + 1)
         /\ Prefix(Full(n)) /\ Prefix(Append(Full(n), <<n + 1, ok>>))
<1> DEFINE s(e) == Append(Full(n), e)
<1>1. Full(n) \in Seq(Nat \X BOOLEAN) /\ Len(Full(n)) = n /\ DOMAIN Full(n) = 1..n
  <2>1. \A k \in 1..n : <<k, TRUE>> \in Nat \X BOOLEAN
    <3>1. \A k \in 1..n : k \in Nat
      OBVIOUS
    <3> QED BY <3>1, Zenon
  <2> DEFINE S == Nat \X BOOLEAN
             f(k) == <<k, TRUE>>
  <2>2. Full(n) = [k \in 1..n |-> f(k)] /\ \A k \in 1..n : f(k) \in S
    BY <2>1 DEF Full
  <2> HIDE DEF S, f
  <2>3. Full(n) \in Seq(S) /\ Len(Full(n)) = n /\ DOMAIN Full(n) = 1..n
    BY <2>2
  <2> QED BY <2>3 DEF S
<1>2. \A k \in 1..n : Full(n)[k] = <<k, TRUE>>
  BY Zenon DEF Full
<1>3. ASSUME NEW e
      PROVE  /\ DOMAIN s(e) = 1..n + 1 /\ Len(s(e)) = n + 1 /\ s(e)[n + 1] = e
             /\ \A k \in 1..n : s(e)[k] = <<k, TRUE>>
  <2> HIDE DEF Full
  <2>1. /\ DOMAIN s(e) = 1..n + 1 /\ Len(s(e)) = n + 1 /\ s(e)[n + 1] = e
        /\ \A k \in 1..n : s(e)[k] = Full(n)[k]
    BY <1>1
  <2> QED BY <2>1, <1>2
<1> HIDE DEF s
<1>4. s(<<n + 1, TRUE>>) = Full(n + 1)
  <2> DEFINE t == s(<<n + 1, TRUE>>)
  <2>1. \A k \in 1..n + 1 : t[k] = <<k, TRUE>>
    <3>1. \A k \in 1..n + 1 : k \in 1..n \/ k = n + 1
      OBVIOUS
    <3> QED BY <3>1, <1>3, Zenon
  <2>2. t = [k \in 1..n + 1 |-> t[k]]
    <3>1. t \in Seq(Nat \X BOOLEAN)
      <4>1. n + 1 \in Nat
        OBVIOUS
      <4>2. <<n + 1, TRUE>> \in Nat \X BOOLEAN
        BY <4>1, Zenon
      <4> DEFINE S == Nat \X BOOLEAN
                 e == <<n + 1, TRUE>>
      <4>3. e \in S /\ Full(n) \in Seq(S) /\ t = Append(Full(n), e)
        BY <4>2, <1>1 DEF s
      <4> HIDE DEF S, e, t
      <4>4. t \in Seq(S)
        BY <4>3
      <4> QED BY <4>4 DEF S
    <3>2. DOMAIN t = 1..n + 1
      BY <1>3, Zenon
    <3> DEFINE S == Nat \X BOOLEAN
    <3> HIDE DEF S, t
    <3>3. t \in Seq(S) => t = [k \in DOMAIN t |-> t[k]]
      OBVIOUS
    <3> QED BY <3>1, <3>2, <3>3 DEF S
  <2> HIDE DEF t
  <2>3. t = [k \in 1..n + 1 |-> <<k, TRUE>>]
    BY <2>1, <2>2, Zenon
  <2> QED BY <2>3 DEF t, Full
<1>5. Prefix(Full(n))
  <2>1. ASSUME NEW k \in 1..n PROVE Full(n)[k][1] = k /\ Full(n)[k][2]
    <3>1. Full(n)[k] = <<k, TRUE>>
      BY <1>2
    <3>2. <<k, TRUE>>[1] = k /\ <<k, TRUE>>[2] = TRUE
      BY Pair, Zenon
    <3>3. Full(n)[k][1] = k /\ Full(n)[k][2] = TRUE
      BY <3>1, <3>2, Zenon
    <3> QED BY <3>3, Zenon
  <2> QED BY <1>1, <2>1, Zenon DEF Prefix
<1>6. Prefix(s(<<n + 1, ok>>))
  <2> DEFINE t == s(<<n + 1, ok>>)
  <2>1. ASSUME NEW k \in DOMAIN t PROVE t[k][1] = k /\ (k < Len(t) => t[k][2])
    <3>1. k \in 1..n + 1 /\ Len(t) = n + 1
      BY <2>1, <1>3, Zenon
    <3>2. CASE k \in 1..n
      <4>1. t[k] = <<k, TRUE>>
        BY <3>2, <1>3, Zenon
      <4> QED BY <4>1, Pair, Zenon
    <3>3. CASE k = n + 1
      <4>1. t[k] = <<k, ok>>
        BY <3>3, <1>3, Zenon
      <4>2. t[k][1] = k
        BY <4>1, Pair, Zenon
      <4>3. ~(k < Len(t))
        BY <3>1, <3>3
      <4> QED BY <4>2, <4>3, Zenon
    <3>4. k \in 1..n \/ k = n + 1
      BY <3>1
    <3> QED BY <3>2, <3>3, <3>4, Zenon
  <2> QED BY <2>1, Zenon DEF Prefix
<1> QED BY <1>4, <1>5, <1>6 DEF s

LEMMA SentHolds ==
  ASSUME PcTypes, StatInv, ExportTypes, SentInv, BodyIsPrefix, [Next]_vars
  PROVE  SentInv' /\ BodyIsPrefix'
<1> USE ServerAssumption DEF ExportTypes, ServerAssumption
<1> SUFFICES /\ Writing' => ~write_rc'
             /\ ~write_rc' => Body' = Full(chunk' - 1)
             /\ Prefix(Body')
  BY Zenon DEF SentInv, BodyIsPrefix, Full, Prefix, Writing
<1>0. /\ Writing => ~write_rc
      /\ ~write_rc => Body = Full(chunk - 1)
      /\ Prefix(Body)
  BY Zenon DEF SentInv, BodyIsPrefix, Full, Prefix, Writing
<1>1. CASE ~Header /\ ~HeaderResumes /\ ~Callback /\ ~CallbackWrites /\ ~CallbackResumes
  <2>1. UNCHANGED <<chunk, write_rc, wire>> /\ (Writing' => Writing)
    BY <1>1, ExportAlone
  <2>2. Body' = Body
    BY <2>1, Zenon DEF Body, BodyOf
  <2> QED BY <1>0, <2>1, <2>2, Zenon
<1>2. CASE Header \/ HeaderResumes
  <2>1. chunk' = 1 /\ ~Writing'
    BY <1>2, HeaderSent
  <2>2. PICK ok \in BOOLEAN : wire' = <<>> \/ wire' = <<<<0, ok>>>>
    BY <1>2, HeaderSent, Zenon
  <2>3. Body' = <<>>
    <3>1. CASE wire' = <<>>
      BY <3>1 DEF Body, BodyOf
    <3>2. CASE wire' = <<<<0, ok>>>>
      <4> DEFINE e == <<0, ok>>
      <4>1. e[1] = 0
        BY Pair, Zenon
      <4> HIDE DEF e
      <4>2. wire' = <<e>>
        BY <3>2 DEF e
      <4> QED BY <4>1, <4>2 DEF Body, BodyOf
    <3> QED BY <2>2, <3>1, <3>2
  <2>4. Full(0) = <<>>
    <3> DEFINE f(k) == <<k, TRUE>>
    <3>1. Full(0) = [k \in 1..0 |-> f(k)]
      BY DEF Full
    <3> HIDE DEF f
    <3> QED BY <3>1
  <2>5. Prefix(Full(0))
    BY FullGrows
  <2>6. chunk' - 1 = 0
    BY <2>1
  <2> QED BY <2>1, <2>3, <2>4, <2>5, <2>6, Zenon
<1>3. CASE Callback
  <2>1. Body' = Body
    BY <1>3, Zenon DEF Callback, Body, BodyOf
  <2>2. Writing' => ~write_rc'
    <3>1. wPc = "chunk" /\ (Writing' => wPc' # wPc)
      BY <1>3 DEF Callback, Writing
    <3>2. wPc' # wPc => ~write_rc'
      BY <1>3, Zenon DEF Callback, Aborted
    <3> QED BY <3>1, <3>2
  <2>3. ~write_rc' => ~write_rc /\ chunk' = chunk
    <3>1. CASE Aborted /\ chunk' = chunk + 1 /\ UNCHANGED <<wPc, write_rc>>
      <4>1. write_rc = TRUE
        BY <3>1, Zenon DEF Aborted
      <4>2. write_rc' = TRUE
        BY <3>1, <4>1
      <4> QED BY <4>2, Zenon
    <3>2. CASE ~Aborted /\ chunk' = chunk + 1 /\ write_rc' = TRUE /\ UNCHANGED wPc
      BY <3>2, Zenon
    <3>3. CASE ~Aborted /\ wPc' = "write" /\ UNCHANGED <<chunk, write_rc>>
      BY <3>3, Zenon DEF Aborted
    <3>4. \/ Aborted /\ chunk' = chunk + 1 /\ UNCHANGED <<wPc, write_rc>>
          \/ ~Aborted /\ chunk' = chunk + 1 /\ write_rc' = TRUE /\ UNCHANGED wPc
          \/ ~Aborted /\ wPc' = "write" /\ UNCHANGED <<chunk, write_rc>>
      BY <1>3 DEF Callback
    <3> QED BY <3>1, <3>2, <3>3, <3>4
  <2> QED BY <1>0, <2>1, <2>2, <2>3, Zenon
<1>4. CASE CallbackWrites \/ CallbackResumes
  <2>1. Writing
    BY <1>4, ChunkSent
  <2>2. CASE Writing' /\ UNCHANGED <<chunk, write_rc, wire>>
    <3>1. Body' = Body
      BY <2>2, Zenon DEF Body, BodyOf
    <3> QED BY <1>0, <2>1, <2>2, <3>1, Zenon
  <2>3. ASSUME wPc' = "chunk", chunk' = chunk + 1, NEW ok \in BOOLEAN, write_rc' = ~ok,
               wire' = Append(wire, <<chunk, ok>>) \/ (~ok /\ wire' = wire)
        PROVE  /\ Writing' => ~write_rc'
               /\ ~write_rc' => Body' = Full(chunk' - 1)
               /\ Prefix(Body')
    <3>1. ~Writing'
      BY <2>3 DEF Writing
    <3>2. Body = Full(chunk - 1)
      BY <1>0, <2>1
    <3>3. chunk \in Parts \ {0} /\ chunk - 1 \in Nat /\ (chunk - 1) + 1 = chunk
          /\ chunk' - 1 = chunk
      BY <2>1, <2>3 DEF Parts, Writing
    <3>4. /\ Append(Full(chunk - 1), <<chunk, TRUE>>) = Full(chunk)
          /\ Prefix(Full(chunk - 1)) /\ Prefix(Append(Full(chunk - 1), <<chunk, ok>>))
      BY <3>3, FullGrows, Zenon
    <3>5. CASE wire' = Append(wire, <<chunk, ok>>)
      <4>1. BodyOf(Append(wire, <<chunk, ok>>)) = Append(BodyOf(wire), <<chunk, ok>>)
        BY <3>3, BodyAppend, Zenon
      <4>2. Body' = Append(Full(chunk - 1), <<chunk, ok>>)
        BY <3>2, <3>5, <4>1, Zenon DEF Body, BodyOf
      <4>3. ok = TRUE => Body' = Full(chunk)
        BY <3>4, <4>2, Zenon
      <4>4. ~write_rc' => ok = TRUE
        BY <2>3, Zenon
      <4> QED BY <3>1, <3>3, <3>4, <4>2, <4>3, <4>4, Zenon
    <3>6. CASE ~ok /\ wire' = wire
      <4>1. write_rc'
        BY <2>3, <3>6, Zenon
      <4>2. Body' = Body
        BY <3>6, Zenon DEF Body, BodyOf
      <4> QED BY <1>0, <3>1, <4>1, <4>2, Zenon
    <3> QED BY <2>3, <3>5, <3>6, Zenon
  <2> QED BY <1>4, <2>2, <2>3, ChunkSent, Zenon
<1> QED BY <1>1, <1>2, <1>3, <1>4

\* The library succeeds only after the last chunk, and nothing is sent after
\* that.
LEMMA ShortHolds ==
  ASSUME RunTypes, PcTypes, ExportTypes, StatInv, RcInv, SentInv, ShortExportNoticed,
         [Next]_vars
  PROVE  ShortExportNoticed'
<1> USE DEF ShortExportNoticed
<1>1. CASE \/ UNCHANGED vars \/ Signal \/ ClientTurns \/ StoreInit \/ WorkerInit
           \/ Response \/ Join \/ StoreShutdown \/ WormShutdown \/ DbClose \/ Exit
           \/ ServeReturns \/ JobBegin \/ JobLock \/ Callback \/ JobUnlock \/ JobEnd
           \/ PollLock \/ PollUnlock
  <2>1. /\ UNCHANGED <<job, jobRc, wire>>
        /\ UNCHANGED write_rc \/ (Callback /\ (write_rc => write_rc'))
    BY <1>1, Zenon DEF vars, Signal, ClientTurns, StoreInit, WorkerInit, Response, Join,
       StoreShutdown, WormShutdown, DbClose, Exit, ServeReturns, JobBegin, JobLock,
       Callback, Aborted, JobUnlock, JobEnd, PollLock, PollUnlock, ElseIdle, InMain, export
  <2> QED BY <2>1, Zenon DEF Body, BodyOf
<1>2. ASSUME NEW j, Post(j) PROVE ShortExportNoticed'
  <2>1. ~jobRc'
    BY <1>2, Zenon DEF Post
  <2> QED BY <2>1, Zenon
<1>3. CASE JobCall
  <2>1. CASE job = "tar"
    <3>1. ~jobRc /\ jobRc' = jobRc
      BY <1>3, <2>1, Zenon DEF JobCall, RcInv
    <3> QED BY <3>1, Zenon
  <2>2. CASE job # "tar"
    BY <1>3, <2>2, Zenon DEF JobCall, InMain
  <2> QED BY <2>1, <2>2
<1>4. CASE CallbackWrites \/ CallbackResumes
  <2>1. ~jobRc /\ jobRc' = jobRc
    <3>1. wPc \in {"write", "blocked"}
      BY <1>4 DEF CallbackWrites, CallbackResumes
    <3> QED BY <1>4, <3>1, Zenon DEF CallbackWrites, CallbackResumes, RcInv
  <2> QED BY <2>1, Zenon
<1>5. CASE ExportEnd
  <2>1. jobRc' => chunk > Chunks
    BY <1>5, Zenon DEF ExportEnd
  <2>2. Body' = Body /\ (write_rc' <=> write_rc)
    BY <1>5, Zenon DEF ExportEnd, export, Body, BodyOf
  <2>3. chunk > Chunks => chunk - 1 = Chunks
    BY ServerAssumption DEF ServerAssumption, ExportTypes
  <2> QED BY <2>1, <2>2, <2>3, Zenon DEF SentInv
<1>6. CASE Header \/ HeaderResumes
  <2>1. CASE Post("tar")
    BY <1>2, <2>1
  <2>2. CASE UNCHANGED <<executor, job, jobRc>>
    <3>1. CASE MainAt("header")
      <4>1. job # "tar"
        BY <3>1 DEF MainAt, StatInv
      <4> QED BY <2>2, <4>1, Zenon
    <3>2. CASE ~MainAt("header")
      <4>1. Post("tar")
        BY <1>6, <3>2, Zenon DEF Header, HeaderResumes
      <4> QED BY <1>2, <4>1
    <3> QED BY <3>1, <3>2
  <2> QED BY <1>6, <2>1, <2>2, Zenon DEF Header, HeaderResumes
<1>7. \A j : Request(j) => Post(j)
  BY DEF Request
<1> QED BY <1>1, <1>2, <1>3, <1>4, <1>5, <1>6, <1>7, Steps, Zenon

(***************************************************************************)
(* The theorems.                                                           *)
(***************************************************************************)
LEMMA IInvAtStart == Init => IInv
<1> SUFFICES ASSUME Init PROVE IInv
  OBVIOUS
<1> USE ServerAssumption DEF ServerAssumption, Init
<1>1. status = [c \in {Main} |-> "out"] /\ open = FALSE /\ St = "out"
  BY DEF Exec!Init, St
<1>2. RunTypes
  BY <1>1, Zenon DEF RunTypes
<1>3. PcTypes /\ StatInv
  BY <1>1 DEF PcTypes, StatInv
<1>4. MuTypes
  BY DEF MuTypes
<1>5. ExportTypes
  <2>1. write_rc \in BOOLEAN
    BY Zenon
  <2>2. wire \in Seq(Parts \X BOOLEAN)
    <3> DEFINE S == Parts \X BOOLEAN
    <3> HIDE DEF S
    <3>1. wire \in Seq(S)
      OBVIOUS
    <3> QED BY <3>1 DEF S
  <2>3. chunk \in 1..Chunks + 1 /\ wPc # "write"
    OBVIOUS
  <2> QED BY <2>1, <2>2, <2>3 DEF ExportTypes
<1>6. TimeInv
  <2>1. mainPc = "boot" /\ tPc = "off"
    OBVIOUS
  <2> QED BY <2>1 DEF TimeInv
<1>7. ~jobRc /\ Body = <<>> /\ wPc = "idle" /\ chunk = 1
  BY DEF Body, BodyOf
<1>8. RcInv /\ ShortExportNoticed
  BY <1>7, Zenon DEF RcInv, ShortExportNoticed
<1>9. BodyIsPrefix
  BY <1>7 DEF BodyIsPrefix
<1>10. Body = [k \in 1..chunk - 1 |-> <<k, TRUE>>]
  <2> DEFINE f(k) == <<k, TRUE>>
  <2> HIDE DEF f
  <2>1. Body = [k \in 1..chunk - 1 |-> f(k)]
    BY <1>7
  <2> QED BY <2>1 DEF f
<1>11. SentInv
  BY <1>7, <1>10 DEF SentInv
<1> QED BY <1>2, <1>3, <1>4, <1>5, <1>6, <1>8, <1>9, <1>11 DEF IInv

LEMMA IInvAlways == Spec => []IInv
<1>1. IInv /\ [Next]_vars => IInv'
  BY RunTypesHold, PcTypesHold, MuTypesHold, ExportTypesHold, TimeInvHolds,
     RcInvHolds, SentHolds, ShortHolds, Zenon DEF IInv
<1> QED BY <1>1, IInvAtStart, PTL DEF Spec

\* Every variable keeps its type, whatever the signal and the client do.
THEOREM ServerTypes == Spec => []TypeOK
<1>1. IInv => TypeOK
  BY Zenon DEF IInv, RunTypes, PcTypes, MuTypes, ExportTypes, TypeOK
<1> QED BY <1>1, IInvAlways, PTL

\* When tse_worm_shutdown has freed the store and db_close has closed the
\* database, the worker is idle and the detached thread outside its poll.
THEOREM TeardownIsQuiet == Spec => []TornDownQuietly
<1>1. IInv => TornDownQuietly
  <2> SUFFICES ASSUME IInv, mainPc \in {"db", "exited"}
               PROVE  wPc = "idle" /\ tPc # "poll"
    BY DEF TornDownQuietly
  <2>1. St # "running"
    BY DEF IInv, StatInv
  <2>2. wPc = "idle"
    BY <2>1, Zenon DEF IInv, StatInv
  <2>3. tPc # "poll"
    BY Zenon DEF IInv, TimeInv
  <2> QED BY <2>2, <2>3
<1> QED BY <1>1, IInvAlways, PTL

\* What is sent is a prefix of the export (export_tar_chunk_cb), ...
THEOREM ExportIsPrefix == Spec => []BodyIsPrefix
<1>1. IInv => BodyIsPrefix
  BY DEF IInv
<1> QED BY <1>1, IInvAlways, PTL

\* ... and if worm_export_tar succeeds all of it was sent, or write_rc says
\* that it was not.
THEOREM ShortExports == Spec => []ShortExportNoticed
<1>1. IInv => ShortExportNoticed
  BY DEF IInv
<1> QED BY <1>1, IInvAlways, PTL
=============================================================================
