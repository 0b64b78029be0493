# cloudtse: a verification project in TLA+

cloudtse is an HTTP server in C in front of a TSE (the security module that
German law requires behind a cash register).  Clients start and finish
transactions; the TSE numbers and signs them; a local SQLite database mirrors
what is open; a background thread keeps the TSE's clock and self-test valid.
Without a TSE the server signs by simulation.

The modules in this directory model the parts of that program in which order,
failure and timing decide whether it is correct.  Every definition was written
from the C source (paths below are relative to the repository's root); TLC
checks small instances and TLAPS proves the main results for all values of the
constants.  `PROJECT.json` lists the runs, the theorems, the hazards and, for
every definition, the lines it models.

    tlc -workers 2 -config Store.cfg MCTxStore.tla     # a run
    tlapm TxStoreProofs.tla                            # the proofs of a module

## 1. Inventory

| Component | Source (c/src) | State it keeps | Operations | Model |
|---|---|---|---|---|
| Device worker | tse_worker.c | a job slot, s_running, one shared condition variable; per call a job on the caller's stack | init, run, shutdown, the worker loop | SerialExecutor, TseWorker |
| TSE session | tse_worm.c | g_worm_mu, g_active, cache of registered clients, last sync, the remembered client | self-test, time sync, register, start, finish, export, info, poll, shutdown | TseSession |
| Renewal schedule | tse_worm.c (time_sync_thread_main) | last sync, last scheduled day | one round of the thread | TimeSync |
| Provisioning | tse_worm.c, db.c, config.c | credentials in the configuration, the settings table and the device | ensure_tse_provisioned, load_or_generate_credential | Provision |
| Transaction store | store.c, db.c | table transactions, two counters, the TSE's own numbers | start and finish in hardware and simulator mode | TxLedger, TxStore |
| HTTP server | http.c | one connection, its buffer, keep-alive | accept, fill, frame, parse, answer, drain, close | HttpConn, Text, Requests |
| Handlers | handlers.c, db.c, store.c | tables oauth_tokens and clients, the request at hand | route, POST /oauth/token, the bearer check, start, finish, the lists | Requests |
| Process and export | main.c, handlers.c | g_running, the order of start and shutdown, an export in flight | boot, serve, GET /export/transactions, shutdown | Server |
| Configuration | config.c | environment variables, read at each start | load, client allowlist | Requests (allowlist, code), Provision (credentials) |
| JSON and encoding | json.c, util.c, parts of http.c and config.c | none | strings, Base64, paths, chunks, the allowlist | Text |
| Block device | tse_block.c, tse_worm.c (ensure_block_open) | g_block, a file descriptor | search, probe, open, close | Discovery |
| Responses, library glue | response.c, tse_worm_director.c | none | formatting; sectors and callbacks passed through | not modelled |
| Network discovery, logging, scripts | network.c, log.c, start.sh, Makefile | none | output, build | not modelled |

How they interact.  `main` is the only HTTP thread: it accepts a connection,
serves all its requests and only then accepts the next.  A request that needs
the TSE is a job that `tse_worker_run` hands to the worker thread and waits
for; the job runs a `tse_worm_*` routine, which takes g_worm_mu.  The time-sync
thread is detached, does not go through the worker, and takes the same mutex.
An export calls back from under the mutex into code that writes to the client's
socket.  A signal clears one flag, which every waiting loop looks at.  A token
is a row in the database, looked up once when a request is let in and perhaps
again for the client's name.  At the start, the disks under /sys/block are
searched for the TSE, which hands the library one open descriptor.

What is hard about it:

* **Concurrency**: a stack-allocated job shared with the worker; one condition
  variable for two kinds of waiters; sequences of device calls (login, work,
  logout) that two threads must not interleave; a detached thread that outlives
  the store; code that reads without the mutex.
* **Failure**: any device call may fail, a logout too; the TSE may lose power, its
  clock or its self-test between two calls; the code recovers and retries; many
  early returns must each log out.  SQL statements fail and some results are
  ignored.  A client may stop reading what it is sent.
* **Crashes**: statements commit one by one; TSE and database are two records
  of one fact; credentials are burnt into the device for good.
* **Staleness**: a token expires between two looks at it, and outlives the
  configuration it was granted under; a disk is exchanged between the probe
  that recognised it and the open that keeps it.
* **Text**: the end of a body, a client's name and a number are found by
  searching in what a client sent, through buffers that cut.
* **Ordering**: pipelined requests share one buffer; a client sends in any
  pieces, ends its stream or falls silent anywhere.
* **Time**: three deadlines (clock, self-test, slot of the day) seen through
  one poll every few minutes and a wall clock that may be set back.

What makes each part correct:

* worker: calls run one at a time, each exactly once, and every call returns;
* session: the mutex covers every sequence, nobody stays logged in (but after a
  logout that fails), the answer tells what the device did, one lapse during a
  request does not refuse it;
* schedule: clock and self-test are renewed before they lapse, the slot is met;
* provisioning: a credential that is burnt is never lost;
* store: no number and no signature counter is given out twice, what was
  acknowledged is on record, the table is a ledger, and a fallback goes on
  signing;
* HTTP: each request is executed once, whole and in order; no client keeps the
  thread by what it sends; a signal ends the server;
* handlers: nobody is let in who was not entitled, nobody refused without a
  reason, and a request is carried out for the client and with the data meant;
* search: no fixed disk is opened, the device kept is the TSE that was probed, a
  TSE that is there is found, and no descriptor is lost of a device whose offset
  table was read;
* process: nothing is torn down under a device call; an export that did not go
  out as a whole is noticed.

For several of these the code does less than one would wish.  The properties
then say how far it goes, with the exception in the formula, and section 5 tells
where the exception comes from.

## 2. Modules

    SerialExecutor <=refines= TseWorker <-proofs- TseWorkerProofs
          ^ INSTANCE
        Server  <-proofs- ServerProofs
                              (main + worker + time-sync thread + export)
    TseSession  <-proofs- TseSessionProofs
    TxLedger <=refines= TxStore <-proofs- TxStoreProofs
    TimeSync, Provision  <-proofs- UpkeepProofs
    Text  <-extends- Requests  <-proofs- RequestsProofs
    Discovery   <-proofs- DiscoveryProofs
    HttpConn    <-proofs- HttpConnProofs

The MC modules add model values and small sets to the module they extend.
`TimeSync` and `Server` are run directly.  Definitions whose name has the form
`Name_Something` and whose comment begins with "Defect:" are faulty variants of
`Name`.  No specification uses them: each shows, put in place of `Name`, that
some property notices the fault.

**SerialExecutor** is what callers of the queue rely on: calls are submitted
while it is open, one runs at a time, each runs once and returns.

**TseWorker** has one action per critical section of s_mu; a
`pthread_cond_wait` ends one and its caller joins the wait set, from which a
signal, a broadcast or a spurious wakeup removes it.  The job's own mutex is
held between actions, because the worker's last touch of the caller's stack
frame is the unlock *after* `done` is set.  The caller's status in
SerialExecutor is a function of where it waits and how often its function ran.

**TseSession** makes every device call an action and keeps each thread's
position on three levels, like its call stack: the request or poll (`op`),
perform_time_sync (`sync`) and ensure_self_test_passed (`st`).  The device is
external: `LoginCode`, `SelfTestCode`, `RegisterCode`, `UpdateCode` and `TxCode`
say which code a call returns in which state.  `Lapse` may strike between any
two calls and any call may fail instead, both within MaxFaults.  A logout whose
result the code ignores (lines 839, 926, 944, 1457) may fail as well; `stray`
has the users whose last logout did, or whom a killed process left logged in.
The time-sync thread may not come into being.  RegisterBeforeSelfTest says
whether the device registers a client before the self-test has passed, which
the comment at tse_worm.c:801 says it does.

**TimeSync** steps over rounds of the background thread: `Round` is what it does
when it wakes; `Tick` and `StepBack` move time and the wall clock.  A poll is at
most `Poll + Slack` late, Slack standing for requests that hold g_worm_mu.

**Provision** follows the three credentials from environment or settings table
(or generation) to the device, with a kill possible at each step, a setup that
may take effect although it reports an error, and an operator who may change
the environment between starts.

**TxStore** has one action per SQL statement or device call, so that a crash can
fall between any two and each can fail.  `signers` says what a start of the
server may come up with: the TSE, the simulator, or now the one and now the
other (store.c:133), on one database.  `by` remembers who wrote a row, `lost`
that a write failed and the code went on.  **TxLedger** is what the table is for.

**HttpConn** sees the client's stream as units and the buffer as a window on it
(`start`, `total`).  A message is given by the lengths of its header and body,
where the bytes that end a chunked body first occur, whether it asks for
keep-alive, and whether its answer is a stream.  Sending an answer may block
(`Send`), because http_write_all calls send on a blocking socket.

**Server** composes the worker, as the SerialExecutor it implements, with main's
boot, service and shutdown, the time-sync thread and an export whose callback
writes to a client that may stop reading.  A write has three outcomes: it is
handed to the kernel, it fails, or it blocks until the client reads on or goes
away (`SendReturns`, for which no fairness is assumed).

**Text** holds the functions that read and write text, as operators on sequences
of symbols: find_key and json_get_string, json_escape, the allowlist, paths and
transaction numbers, chunked bodies (the framing's test for the end, and the
decoder), Base64 in both directions.  They are not run by themselves: Requests
sends what was meant through the client's encoder and the server's reader and
compares.

**Requests** is handlers.c behind the framing: routing, POST /oauth/token with the
clients and oauth_tokens tables, validate_bearer, resolve_client_id, and the
handlers in steps between which the clock goes on, a statement fails or the
process is killed and comes back with another configuration.  The `issued`
ghost remembers for each token to whom it was due on the day it was given;
`acked` which starts were acknowledged.  A request carries what its sender
meant beside what was sent, so that the properties can compare; `Sent` and
`Plain` are the sender's side, `Arrived` and `Parsed` the code's.  Buffers cut:
the body, the fields, the credentials and what they decode to, the allowlist and
the code, each with a size of its own.  Storing a start or finish is only an
outcome here; it is TxStore's subject, as the device is TseSession's.

**Discovery** is ensure_block_open and what is around it: listing the removable
disks, the probe of each name and its variant, the second open, the library's
answer in either of its interfaces (`legacy`; the newer one tries the configured
path and the device's name before the open descriptor), and shutdown.  A disk
may be exchanged or pulled at any step and a read may fail.  `leaked` has the
descriptors that nobody can close any more.

## 3. Runs

| Run | Instance | Shows | States |
|---|---|---|---|
| WorkerQueue | main and 3 other callers | FrameAlive, NoLostWakeup, ImplementsSerial; PostedReturns and ShutdownEnds under fairness | 6,667 |
| Session | 2 clients, 1 fault (a lapse or a failed call) | LockDiscipline, SessionsClosed, OneSession, ReplyMatchesDevice, OneLapseTolerated; RequestsEnd and ClockRecovers under fairness | 792,752 |
| Store | 2 clients, 2 numbers, 2 crashes, 2 failures, the TSE, the simulator or both | AckedOnce, AckedOnRecord, SignaturesDistinct, MirrorDrift, SimulatorSigns, ImplementsLedger | 2.7 M |
| HttpConnections | 1 client, scripts of 1 or 2 of 9 kinds of messages | Framing; AllServed, ConnectionEnds, ServeReturns under fairness | 76,243 |
| TimeRounds | 30 units of time, 3 days | ClockCovered, SelfTestCovered, DailySelfTest | 458,017 |
| ProvisionCrash | 2 values, 3 starts, 1 fault | Recoverable, Permanent | 1.8 M |
| ServerExport | export of 3 chunks | TornDownQuietly, BodyIsPrefix, ShortExportNoticed; JobsEnd and ProcessEnds under fairness | 30,676 |
| Requests | 2 tokens, 3 configurations, 6 bodies, 4 credentials and 3 cuts of the header, 8 URLs, 1 failure, 1 crash | Entitled, ExecutedAsSent, RefusedForAReason, OpenListed | 1.6 M |
| Discovery | 4 disks, 1 partition, 1 exchange, 1 failed read | NeverFixed, BoundIsTse, FoundIfPresent, NothingLost | 970,486 |
| HttpHang, ProvisionRestart, SelfTestStuck | | violations, section 5 | |

The type invariants are theorems (section 4); HttpConn's and Discovery's are
stated only.  `CHECK_DEADLOCK
FALSE` is set throughout because every one of these systems may rightly stop:
the server has shut down, no client sends, or a bound is reached.

Why the bounds are enough:

* *WorkerQueue*: telling a broadcast from a signal needs one caller in the slot,
  two behind it and one whose job runs.  ShutdownWhileQueued = FALSE says that
  nobody waits for the slot when shutdown begins, as holds today because main is
  the only caller and also shuts down; the safety theorems hold without it.
* *Session*: one client that must be registered and the startup client that the
  self-test uses; the one fault strikes any call or the space between two, so
  that every early return and every recovery is taken.  The theorems about the
  session hold for any number of faults.
* *Store*: two numbers suffice for a collision, an overtaking and a gap; two
  faults suffice for a lost counter and a second use of it; two crashes for a
  restart of a restart, or a fallback and the return from it.  The theorems drop
  these bounds for everything here.  What the four properties about
  acknowledgements and the mirror say is confined to one signer per database
  (OneSigner, in the formulas): after a fallback there are two counters, and the
  numbers do repeat.
* *HttpConnections*: a second message is needed to see leftovers and pipelining;
  a buffer of six units for requests of four holds a whole message and part of
  the next, one that is too long for req_raw, and can be full.
* *TimeRounds*: Gap is 3, the windows are exactly wide enough (SyncRoom and
  TestRoom hold with equality), and the horizon spans three slots and several
  renewals.  The theorems hold for any values.
* *ProvisionCrash*: two values tell a changed credential; three starts reach a
  third attempt.  Values are interchangeable, hence the symmetry.
* *ServerExport*: three chunks give a first, a middle and a last one.
* *Requests*: a token lasts one unit of three, so that it can expire before the
  bearer check, between the check and the second look, or not at all; two
  tokens tell one client's second token from its first.  The configurations
  are open to all, to two clients with a code, and one whose list and code are
  cut.  Credentials, names and data come in lengths that fit, that are cut, and
  that are refused; the list has room for one of two open transactions.  Two of
  the bodies are plain: one with a value that reads like a key, blanks and data
  that is cut, and a chunked one with quotes, backslashes, a null and a chunk
  size that ends in the digit 0.  The others are what the readers are not made
  for: a form, an escaped line feed, a chunked body with an end inside, and one
  longer than its buffer.  The tokens are interchangeable, hence the symmetry.
  Assumed: the host's clock is not set back (TimeSync sets it back, for the
  schedule), and 24 random bytes do not repeat.
* *Discovery*: two places for candidates and up to three candidates; one exchange
  and one failed read each strike any step.  One disk's name is the one derived
  from another's, and one name is too long.

Fairness.  Only threads of the process are fair (weakly: a runnable thread
runs); clients, signals, lapses, failures and spurious wakeups owe nothing.
Strong fairness is used for taking g_worm_mu by the worker and by main: the
background thread sleeps for minutes between polls and leaves the mutex free
for so long that a waiting thread gets it.  The background thread has no such
promise, since requests may follow each other without a pause; ClockRecovers is
therefore stated for the time when requests have ceased.  In HttpConn a read
that finds nothing may time out (select has a 30 s limit), so waiting for a
client is a step that ends.  Waiting in send is not: no fairness is assumed for
its return, and AllServed, ConnectionEnds, ServeReturns, JobsEnd and ProcessEnds
say what holds if no send blocks for ever (SendsReturn, a premise in each of
them; without it they fail, see http.c:62 in section 5).

## 4. Proofs

Type correctness is proved for TseWorker, TseSession, TxStore, HttpConn,
TimeSync, Provision and Server, and:

| Module | Theorem | For every |
|---|---|---|
| TseWorkerProofs | FrameSafety, RunsOnce, WakeupSafety, Refinement | number of callers, and with a shutdown at any moment |
| TseSessionProofs | LockSafety, SessionSafety, SingleSession, StoreSafety, ReplySafety, LapseSeenThrough | set of clients and ids, number of faults and order of calls |
| TxStoreProofs | NoDoubleAcknowledgement, NoSharedSignature, AcknowledgedIsOnRecord, SimulatorKeepsSigning, DriftIsBounded, TableIsLedger | number of clients, transactions, crashes and failures; SimulatorKeepsSigning and TableIsLedger also with fallbacks, the others if one signer owns the database (OneSigner) |
| HttpConnProofs | FramingIsRight | set of clients and messages, length of scripts, size of buf and of req_raw, and every way to cut the stream into reads |
| UpkeepProofs (of TimeSync) | ClockNeverLapses, SelfTestNeverLapses, DailyTests | interval, lateness, window, margin, number of failures and set-back clock; the last with DayRoom: a poll fits between slot and midnight, and the clock goes back by no more than an interval |
| UpkeepProofs (of Provision) | NothingLost, NothingChanges | set of PINs, number of starts, kills and faults |
| RequestsProofs | NoEntryWithoutRight, NoRefusalWithoutReason, OpenOnesListed | set of clients, allowlists, credentials, tokens, requests and bodies, number of failures, crashes and transactions, length of the list |
| RequestsProofs | CarriedOutAsSent | the same, and every url with a number; what it says of the fields, for every plain body that is not chunked |
| RequestsProofs (of Text) | AllowedIsNamed, RoundTrip, LoginRead, NumbersRead, FieldRead | allowlist and client id; sequence of bytes; id, code and cut of a header; url; JSON text, key and size of the buffer |
| DiscoveryProofs | FixedDisksStayShut, OpensTheTse, DescriptorsAreClosed, SearchIsComplete | set of disks, number of places, exchanges and failed reads |
| ServerProofs | TeardownIsQuiet, ExportIsPrefix, ShortExports | number of chunks, with a signal and a stalling client at any moment |

Each proof has one inductive invariant, one lemma or step per action, and a
short final step.  They assume only the named ASSUME of the module, which the
runs evaluate too.  Why the invariants
are stronger than the properties:

* *TseWorker*: FrameAlive needs to know that the job in the slot is fresh and not
  the one in the worker's hands (SlotInv), NoLostWakeup that a waiting caller
  implies a full slot (WaitInv).  Refinement then maps each action to a step of
  SerialExecutor or to a stutter.
* *TseSession*: MuInv lists the positions at which a thread holds the mutex,
  PosInv which routine runs inside which; LoginInv says who has logged in and
  will log out, or whose logout has failed.  SessionsClosed follows because those
  positions hold the mutex.
  LapseSeenThrough needs LapseInv on top, for a request during which no call has
  failed.  Its part SelfTestInv says where ensure_self_test_passed can be: it runs
  a self-test only when one is missing, so the Admin login before a registration is
  refused, and it comes to the second self-test only with the startup client
  registered.  CourseInv says what the checks before a call leave behind: a device
  in order (OnCourse) unless the one lapse has come since, and from there to the
  repetition a self-test and a clock that nothing can undo any more.
* *TxStore*: AtInv ties the request to the place its handler has reached, RowInv
  says that what the handler is about to do to the row is still possible,
  AckInv and SigInv put counters and device ahead of everything acknowledged,
  RecInv and CountInv keep the table in step with the device and the counter
  while no write was lost.  DriftInv counts: the rows listed as open and the
  transactions open on the TSE differ by at most one per crash so far, not
  counting the one that the handler has in hand.
* *HttpConn*: CutOK says that `start` is where the next message begins, as long as
  the ones executed were regular, unless the connection is about to close; and
  TakeOK that a message is taken only when all of it has arrived.  NextOne then
  shows that the header found is the next message's, since no later one ends
  earlier, and that MsgLen is its length; for a chunked one because it is the
  last in flight.
* *TimeSync*: SyncInv relates the two clocks (`wall + stepped + validUntil = now +
  MaxDelay + lastSync`) and bounds the age of the sync at the last poll by the
  threshold, the set-back clock and one gap per failure.  DayInv says what the
  last poll saw: the days whose slot was over by then have had their self-test;
  the arithmetic of days (Multiples, Days, DayIs) shows that only today's slot
  can have come since.
* *Provision*: every credential chosen so far is stored or given by the operator,
  whichever step the kill falls on.
* *Requests*: every row of oauth_tokens is that of a token handed out (TokensOK),
  and every token handed out was due then and is still in the table if it was
  saved (IssuedOK); RegisterOK carries the entitlement over the steps between
  the check in handle_oauth and the token, and KnownToken that over the bearer
  check.  For the list, OpenOK says that what was acknowledged is an ACTIVE row,
  and LowestOnes that of the ACTIVE rows the ones with fewer than k below them
  are all of them, or exactly k and the lowest.
* *Discovery*: Sound says of each candidate that it was removable when listed or
  has been exchanged since; a node that is opened is on the candidate's disk or
  has the name derived from the candidate's.  Bound says what is known of g_block and the forgotten
  descriptors at each place; Listed and Tried, for a search that nothing
  disturbed, that every removable disk not yet read is still to come and that
  no name behind which the search already is was a TSE.
* *Server*: StatInv and TimeInv say where the worker and the background thread can
  be once main has passed each step of the shutdown; RcInv and SentInv tie what
  the client has to the chunks counted and to the callback's return code.

*Induction.*  The library's induction theorems take an operator as a parameter,
which the installed provers cannot instantiate.  NatSets states induction about a
set instead (a set that has 0 and, with n, n + 1 has every number) and follows
from the pigeonhole principle for finite sets, which the library states without
such a parameter.  With it OffIs shows that Off satisfies the equation it is
defined by, OffGrows that it is monotonic, LeastNat and MostIs that minima and
maxima are what they should be, LowestOnes counts, and Recursion, that there is a
function whose every value is made from the one before, gives the recursive
functions of Text their values.

*Texts.*  What an instance's texts mean is stated at the end of Requests without
the code's readers: the clients of a list are what is between its commas without
the blanks around (Items), credentials are letters of which the first colon ends
the id (LoginsAssumption), and a number in a url is one whose last figure is its
remainder by ten and whose figures before read like its tenth (ReadsLike,
UrlsAssumption).  That the readers agree is proved for every text: AllowedIsNamed
goes through the list from its end, item by item; RoundTrip through the decoder's
states, group by group of four digits (GroupRead, EncodeIs), and LoginRead adds
the characters, a header that is cut after any digit, and the buffers for what
it decodes to and for id and code; FinishPath shows that what match_tx_finish
leaves is the part behind "/transaction/", and ReadBack that the digits' value
is the number written.  A body is plain (Plain) if it is short JSON in which the
first member of each name is the text that was meant, with a backslash before
quotes and backslashes and no other escape (Says).  FieldRead proves that
json_get_string then returns that text, up to the size of its buffer: SymbolRead
follows the reader symbol by symbol, and StringRead the string to its end.  TLC
evaluates the four ASSUMEs for the instance.  For chunked bodies, plain or not,
what is decoded is only model-checked.

Every safety property of a passing run is proved, ExecutedAsSent but for chunked
bodies.  Only model-checked is, besides these, liveness
under fairness (PostedReturns, ShutdownEnds, RequestsEnd, ClockRecovers,
AllServed, ConnectionEnds, ServeReturns, JobsEnd, ProcessEnds), which is outside
what the prover handles.

## 5. Where code and documentation disagree

Three disagreements are runs that TLC answers with a counterexample:

* **HttpHang** (http.c:188): fill_buffer reports success at the end of the stream
  as long as anything is buffered, so a client that ends its stream inside a
  message keeps the only thread in a loop.
* **ProvisionRestart** (tse_worm.c:709): generated PINs are stored so that
  restarts can use them, but a provisioned TSE returns before they are loaded.
* **SelfTestStuck** (tse_worm.c:838): the client that the database remembers may be
  unknown to the TSE, after it was exchanged or reset.  The startup client is
  then registered and the self-test repeated with it.  If that repetition fails,
  for whatever reason and only once, every later attempt begins with the
  remembered client again, fails, finds that the startup client cannot be
  registered twice, and gives up: the self-test is not passed any more, and the
  clock lapses for good.  ClockRecovers is about the states in which a self-test
  is possible (SelfTestPossible), and so is OneLapseTolerated.

Others were seen while modelling.  Where a property would fail because of one, it
says so in its formula:

* http.c:62: http_write_all waits at most ten seconds for room, but then calls
  send on a blocking socket, which has no timeout and does not look at the
  flag.  A client that asks for much and reads nothing holds the only thread,
  and during an export the worker, with g_worm_mu held; the signal goes to main
  and does not reach the worker.  SendsReturn excludes it.
* tse_worm.c:839, 926, 944, 1457: the result of a logout is ignored.  After one
  that failed a user stays logged in while the mutex is free, and the next login
  is made all the same, so that Admin and TimeAdmin can be logged in together.
  SessionsClosed and OneSession except users whose logout failed (stray).
* store.c:133, 299: README.md:74 says that the server falls back to simulator
  signing.  The simulator counts from its own counter into the table that
  mirrored the TSE, and its starts are refused on the numbers the TSE has used;
  SimulatorSigns excepts these.
* store.c:193: once the TSE is back, it reopens and overwrites the rows that the
  simulator wrote in its absence.  TxLedger allows that, and nothing else.
* http.c:569: after a streamed response, announced with "Connection: close"
  (http.h:44; handlers.c:421 says that the connection will close), the server
  goes on reading requests.  StreamCloses in HttpConn says it does not, and
  fails for the run's messages.  AllServed promises nothing for what follows a
  stream.
* handlers.c:427: "export complete" goes by the library's result alone
  (tse_worm.c:1734).  Whether the library fails when its callback does is not
  known from the source; ShortExportNoticed says that the callback knows.
  That the kernel has taken a chunk does not mean that the client has it.
* tse_worm.c:461: "Fixed system disks are never opened" (line 431), but for a
  card mmcblk10 the other name tried is mmcblk1, whatever that is; sysfs is not
  asked.  NeverFixed excepts derived names, and disks exchanged after they were
  listed.
* tse_worm.c:1355: on the newer interface the library opens the device once more by
  its name, or a configured path before that.  BoundIsTse is about g_block and
  the open by name; what a path leads to is the operator's word.
* config.c:127-128: README.md:91-92 documents CLOUDTSE_WORM_PATH and
  CLOUDTSE_TSE_DEVICE, but both settings are emptied at every start and the
  variables are not read.  Discovery keeps the configured path as an outcome
  (Library), as tse_worm.c is written for it; on the legacy interface a mount is
  also found without it.
* tse_block.c:63: a device whose offset table cannot be read stays open; the
  probe of every disk that is no TSE loses a descriptor that way, and that of a
  TSE if the read fails.  NothingLost says that it is no worse.
* handlers.c:204: a token is handed out although saving it failed, and later
  refused; handlers.c:227: a token that expires between two looks makes a
  request run for "default".  RefusedForAReason and ExecutedAsSent except them.
* json.c:39: a backslash stands for the symbol behind it, so \n and \uXXXX, which
  json_escape and other encoders write, are read as n and uXXXX.
* http.c:393: the fields of a form are dropped; the body becomes "{".
* http.c:123: a chunked body that contains 0 CR LF CR LF, for instance a chunk
  whose size ends in 0 and whose data begins with a line end, is handled
  before it has come in whole.
* http.c:293, 357: bodies of HTTP_MAX_BODY and more are cut, in chunks at a
  chunk's end.  Of these four ExecutedAsSent says only that they are carried out
  on the number that was meant.
* config.c:99-101: an allowlist of 1024 characters and more, or a code of 128, is
  cut without a word, so that its last name is another one; http.c:419-422 and
  util.c:181: credentials are cut at 255 characters and refused beyond 511.
  Entitled and RefusedForAReason except configurations that are cut (ConfFits),
  and judge a cut id as the one that was seen.
* response.c:100: a list of open transactions that does not fit is cut, and sent
  with status 200 since the result is ignored (handlers.c:340).
* tse_worker.h:29 says the queue is safe to call from any thread.  With
  ShutdownWhileQueued = TRUE a caller woken after shutdown posts to a worker that
  has exited, and PostedReturns fails (tse_worker.c:109).
* tse_worm.c:1488 marks a client as registered whatever the registration
  returned; the model does the same, and no property says the cache is right.
* tse_worm.c:1656 reads the info block without g_worm_mu while the background
  thread may use the device; LockDiscipline excepts that read.
* tse_worm.c:1136: a background thread that cannot be created is not missed;
  ClockRecovers excepts that case (Unattended).
* store.c:268: a crash between the TSE's answer and the mirroring statement is
  never reconciled.  MirrorDrift counts one transaction per crash.
* tse_worm.c:1072: with a slot in the last polling gap of the day no poll need
  fall between slot and midnight, and the day goes without its self-test
  (Slot = 8 in TimeRounds makes DailySelfTest fail).
* http.c:471: the result of sending the header is ignored and the body follows.

## 6. What is left out

* *Formatting* (responses, the QR text, logs): no state depends on it.
* *The split of a header into fields*: a request has its credential, whole or cut,
  and keep-alive is given.
* *The vendor's library, sectors and the C++ glue*: bytes passed through.  The device
  model assumes that a call that fails has no effect, except for
  worm_tse_setup, which may have taken effect.  What a SIG_ERROR has done to the
  device, and that it is retried (tse_worm.c:39), is not known from the source.
* *Transactions of the simulator in Requests*: which number a start gets and when
  it is refused is TxStore's, with the TSE TseSession's.
* *Torn reads* of the cache outside the mutex: the cache is a set.
* *A failed pthread_create*, after which shutdown joins a handle that was never set,
  is a step of its own in TseWorker (JoinOfNoThread); what it does is undefined.
* *A client that never stops sending* while the connection is drained: scripts are
  finite.
* *The names in /sys/block of exactly 26 characters*: no other name is derived from
  them (tse_worm.c:467), unless they end in a digit; in the model a name that
  has room has a derived one.
* *A device that takes effect and reports an error*, except in Provision: a start
  or finish repeated after such an answer would take effect twice, and
  ReplyMatchesDevice would not see it.
* *Reads of the info block that only log*, and a second read of a flag just read.
* *network.c, log.c, the scripts*: output, a vendored logger, and set-up; nothing in
  the service depends on what they do.

## 7. State of the work

Done, in this order: TseWorker with SerialExecutor, TseSession, TxStore with
TxLedger, HttpConn, TimeSync, Provision, Server, Text with Requests, Discovery,
and proofs about each of them.

Worth adding:

1. *Proofs*: that decode_chunked_body gives back what was sent in chunks, by NatSets
   and Recursion; it is what CarriedOutAsSent lacks.
2. *Composition*: Requests over TxStore instead of its outcomes, and HttpConn's
   messages as the requests that reach the handlers.
3. *Responses*: what the buffers of response.c cut, and what a client then reads.
