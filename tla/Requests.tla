------------------------------ MODULE Requests ------------------------------
(***************************************************************************)
(* The handlers (handlers.c): routing, tokens, the fields of a request,    *)
(* and what is done for whom.  A token is a row of the database; it is     *)
(* looked up when the request is let in and again, for the client's name,  *)
(* when its body names none.  The allowlist and the EAS code are read from *)
(* the environment at a start, so that a restart may change them while     *)
(* tokens live on.  The HTTP thread handles one request at a time; the     *)
(* clock goes on, SQL statements fail and the process is killed between    *)
(* any two steps.  Transactions are those of the simulator; how a start or *)
(* a finish is stored, and the TSE's part in it, is TxStore's and          *)
(* TseSession's matter.                                                    *)
(***************************************************************************)
EXTENDS Text, FiniteSets

CONSTANTS
  Methods, Urls,  \* what a client may ask for: [text, num], num = 0 for no number
  Ids, Codes,     \* what Basic credentials may consist of: texts
  Rooms,          \* how many digits of them the first 1023 bytes may hold
  Bodies,         \* [client, data, json, form, chunked, parts]: what is meant,
                  \* as JSON, and how it is sent
  Confs,          \* [names, list, eas]: the allowlist's clients, its text
  Tokens, NoToken,
  Life,           \* seconds a token is valid, 86400
  ClientSize, DataSize, NumSize, ListMax, \* the handlers' buffers
  LoginSize, DecodedSize, \* http_parse_basic_auth's: client_id[256], decoded[512]
  BodySize,       \* HTTP_MAX_BODY
  ListSize, EasSize, \* g_config's: allowed_client_serial[1024], eas_code[128]
  MaxTime, MaxNum, MaxFails, MaxCrashes   \* bounds

ASSUME RequestsAssumption ==
  /\ NoToken \notin Tokens /\ Confs # {}
  /\ Life \in Nat /\ MaxTime \in Nat /\ MaxNum \in Nat
  /\ ClientSize \in Nat \ {0} /\ DataSize \in Nat \ {0}
  /\ ListMax \in Nat /\ MaxFails \in Nat /\ MaxCrashes \in Nat
  /\ LoginSize \in Nat \ {0} /\ DecodedSize \in Nat /\ BodySize \in Nat
  /\ ListSize \in Nat \ {0} /\ EasSize \in Nat \ {0}

Unknown == <<"unknown">>
Default == <<"default">>

VARIABLES
  conf,            \* what the environment said at the start
  tokens,          \* table oauth_tokens: [token, client, exp]
  clients,         \* table clients
  entered, open,   \* table transactions: its rows, and the ACTIVE ones
  now,             \* the wall clock
  pc, req, args,   \* the request and what the handler has made of it
  reply,           \* [status, list]
  fails, crashes,  \* faults so far
  issued,          \* ghost: the tokens handed out
  acked,           \* ghost: started for a client, and no finish carried out
  faulty           \* ghost: a fault struck this request

tables == <<tokens, clients, entered, open>>
ghosts == <<issued, acked>>
vars   == <<conf, tables, now, pc, req, args, reply, fails, crashes, ghosts,
            faulty>>

NoBody  == [client |-> <<>>, data |-> <<>>, text |-> <<>>,
            plain |-> FALSE, chunked |-> FALSE]
NoReq   == [kind |-> "none", token |-> NoToken, id |-> <<>>, code |-> <<>>,
            whole |-> TRUE, at |-> 0, num |-> 0, body |-> NoBody]
NoArgs  == [client |-> <<>>, data |-> <<>>, num |-> 0]
NoReply == [status |-> 0, list |-> {}]

Init ==
  /\ conf \in Confs
  /\ tokens = {} /\ clients = {} /\ entered = {} /\ open = {} /\ now = 0
  /\ pc = "idle" /\ req = NoReq /\ args = NoArgs /\ reply = NoReply
  /\ fails = 0 /\ crashes = 0 /\ issued = {} /\ acked = {}
  /\ faulty = FALSE

(***************************************************************************)
(* What the request says.                                                  *)
(***************************************************************************)
Page(w) == <<"/", w>>

\* handlers_route.
Route(method, url) ==
  LET path == NormalizePath(url.text)
  IN  CASE method = "OPTIONS" -> "options"
        [] method \in {"GET", "HEAD"} /\ path \in {Page("tssdetails"), Page("info")} ->
             "info"
        [] method \in {"GET", "HEAD"} /\ path = Page("transactions") -> "list"
        [] method \in {"GET", "HEAD"}
             /\ path = <<"/", "export", "/", "transactions">> -> "export"
        [] method \in {"GET", "HEAD"} /\ path \in {<<"/">>, Page("health")} ->
             "health"
        [] method = "POST" /\ path = <<"/", "oauth", "/", "token">> -> "oauth"
        [] method = "POST" /\ path = Page("transaction") -> "start"
        [] method \in {"PUT", "PATCH"} /\ MatchTxFinish(path, NumSize) -> "finish"
        [] OTHER -> "none"

Asked    == {[kind |-> Route(m, u), url |-> u] : m \in Methods, u \in Urls}
Kinds    == {a.kind : a \in Asked}
Free     == {"options", "health", "none"}
HasBody  == {"start", "finish"}

\* http_parse_basic_auth: the digits that are there, decoded, up to the first
\* colon and behind it, each cut to its buffer.  They are refused if decoded
\* they are too long.  whole: nothing was cut off.
Basic(id, code, room) ==
  LET sent  == Base64Encode(Ascii(id \o <<":">> \o code))
      text  == Chars(Base64Decode(Copied(sent, room + 1)))
      colon == UntilFrom(text, 1, {":"})
  IN  [id |-> id, code |-> code,
       whole |-> /\ room >= Len(sent) /\ Len(id) + 1 + Len(code) < DecodedSize
                 /\ Len(id) < LoginSize /\ Len(code) < LoginSize,
       gone  |-> room = 0 \/ Len(text) >= DecodedSize,
       seenId   |-> Copied(SubSeq(text, 1, colon - 1), LoginSize),
       seenCode |-> Copied(SubSeq(text, colon + 1, Len(text)), LoginSize)]

Logins == {Basic(id, code, room) : id \in Ids, code \in Codes, room \in Rooms}

\* Where a member's value begins: behind a key in quotes, blanks, a colon, blanks.
Values(json, key) ==
  LET pattern  == <<Quote>> \o key \o <<Quote>>
      Colon(i) == SkipFrom(json, i + Len(pattern), Space)
  IN  {[at |-> i, value |-> SkipFrom(json, Colon(i) + 1, Space)] :
         i \in {k \in 1..Len(json) : /\ At(json, k, pattern)
                                     /\ At(json, Colon(k), <<":">>)}}

\* From i on there is s, with a backslash before quotes and backslashes and no
\* other escapes, and then a quote.
Spells(json, i, s) ==
  LET escaped(k) == s[k] \in {Quote, Backslash}
      behind[k \in 0..Len(s)] ==
        IF k = 0 THEN i ELSE behind[k - 1] + IF escaped(k) THEN 2 ELSE 1
  IN  /\ \A k \in 1..Len(s) :
            At(json, behind[k - 1], IF escaped(k) THEN <<Backslash, s[k]>> ELSE <<s[k]>>)
      /\ At(json, behind[Len(s)], <<Quote>>)

\* The first member of that name is the string s; it is "" or null, or there is
\* none, if s is empty.
Says(json, key, s) ==
  \/ s = <<>> /\ Values(json, key) = {}
  \/ \E v \in Values(json, key) :
       /\ \A w \in Values(json, key) : v.at <= w.at
       /\ \/ At(json, v.value, <<Quote>>) /\ Spells(json, v.value + 1, s)
          \/ s = <<>> /\ At(json, v.value, <<"null">>)

\* A body as it is sent: as it is, or part by part, each behind its size, which
\* is one hexadecimal figure or two.
Sent(b) ==
  LET Size(n) == IF n < 16 THEN <<Figures[n + 1]>>
                 ELSE <<Figures[(n \div 16) + 1], Figures[(n % 16) + 1]>>
      chunks[k \in 0..Len(b.parts)] ==
        IF k = 0 THEN <<>>
        ELSE chunks[k - 1] \o Size(Len(b.parts[k])) \o <<CR, LF>> \o b.parts[k] \o <<CR, LF>>
  IN  IF b.chunked THEN chunks[Len(b.parts)] \o LastChunk ELSE b.json

\* The bodies these readers are made for: short JSON without escapes such as \n
\* and \u0041, whose only end in chunks is the real one.
Plain(b) ==
  /\ ~b.form /\ Len(b.json) < BodySize
  /\ b.chunked => \A i \in 1..Len(Sent(b)) : At(Sent(b), i, LastChunk)
                                              => i + 4 = Len(Sent(b))
  /\ Says(b.json, <<"clientId">>, b.client)
  /\ Says(b.json, <<"processData">>, b.data)

\* http_parse_body: a form's body is replaced.
Parsed(form, text) == IF form /\ text # <<>> THEN <<"{">> ELSE text

\* What the handler gets of a body: http_parse_request is called when the
\* framing finds the request complete, which for a chunked body may be more than
\* one position.
Arrived(b) ==
  LET raw     == Sent(b)
      text(n) == IF b.chunked THEN DecodeChunked(SubSeq(raw, 1, n), BodySize)
                 ELSE Copied(raw, BodySize)
      ends    == {n \in 0..Len(raw) : IF b.chunked THEN ChunkedComplete(SubSeq(raw, 1, n))
                                      ELSE n = Len(raw)}
  IN  {[client |-> b.client, data |-> b.data, text |-> Parsed(b.form, text(n)),
        plain |-> Plain(b), chunked |-> b.chunked] : n \in ends}

Requested == UNION {Arrived(b) : b \in Bodies}

(***************************************************************************)
(* Steps of a handler.                                                     *)
(***************************************************************************)
\* A statement or a random read that can fail does (f) or does not.
Fails(f) == /\ f => fails < MaxFails
            /\ fails' = IF f THEN fails + 1 ELSE fails
            /\ faulty' = (faulty \/ f)

\* The first one of a request.
FirstFails(f) == /\ f => fails < MaxFails
                 /\ fails' = IF f THEN fails + 1 ELSE fails
                 /\ faulty' = f

Answer(status, list) ==
  pc' = "idle" /\ reply' = [status |-> status, list |-> list]

Goto(step) == pc' = step /\ reply' = NoReply

\* A request that needs no token; store_info only reads.
Unguarded(kind) ==
  /\ pc = "idle" /\ req' = [NoReq EXCEPT !.kind = kind]
  /\ Answer(CASE kind = "options" -> 204 [] kind = "health" -> 200 [] OTHER -> 404, {})
  /\ args' = NoArgs /\ faulty' = FALSE
  /\ UNCHANGED <<conf, tables, now, fails, crashes, ghosts>>

(***************************************************************************)
(* POST /oauth/token.                                                      *)
(***************************************************************************)
ClientSerial(id) == IF id = <<>> THEN Unknown ELSE id

\* What config_load made of the environment's texts, and whether all of them.
List     == Copied(conf.list, ListSize)
Eas      == Copied(conf.eas, EasSize)
ConfFits == Len(conf.list) < ListSize /\ Len(conf.eas) < EasSize

MayRegister(c, code) == (Eas = <<"*">> \/ code = Eas) /\ Allowed(List, c)

OAuth(login) ==
  /\ pc = "idle"
  /\ req' = [NoReq EXCEPT !.kind = "oauth", !.id = login.id, !.whole = login.whole,
                          !.code = IF login.whole THEN login.code ELSE login.seenCode]
  /\ args' = [NoArgs EXCEPT !.client = ClientSerial(login.seenId)]
  /\ IF ~login.gone /\ MayRegister(args'.client, login.seenCode)
     THEN Goto("register") ELSE Answer(401, {})
  /\ faulty' = FALSE
  /\ UNCHANGED <<conf, tables, now, fails, crashes, ghosts>>

\* store_register_client, whose result is ignored.
Register ==
  /\ pc = "register" /\ Goto("token")
  /\ \E f \in BOOLEAN :
       /\ Fails(f)
       /\ clients' = IF f \/ args.client = Unknown THEN clients
                     ELSE clients \cup {args.client}
  /\ UNCHANGED <<conf, tokens, entered, open, now, req, args, crashes, ghosts>>

Row(t) == [token |-> t, client |-> args.client, exp |-> now + Life]

\* Defect: a client has one token only.
Save_OnePerClient(t) == {r \in tokens : r.client # args.client} \cup {Row(t)}

\* db_save_oauth_token.
Save(t) == {r \in tokens : r.token # t} \cup {Row(t)}

\* What the operator means by the configuration.
EntitledTo(c, code) == /\ conf.eas = <<"*">> \/ code = conf.eas
                       /\ conf.list = <<>> \/ c \in conf.names

\* The token: 24 random bytes, taken to be new.  Whether it was saved is not
\* looked at.
Grant ==
  /\ pc = "token"
  /\ \/ Fails(TRUE) /\ Answer(500, {}) /\ UNCHANGED <<tokens, issued>>
     \/ \E t \in Tokens \ {i.token : i \in issued}, f \in BOOLEAN :
          /\ Fails(f) /\ Answer(200, {})
          /\ tokens' = IF f THEN tokens ELSE Save(t)
          /\ issued' = issued \cup
               {[token |-> t, client |-> args.client, at |-> now, saved |-> ~f,
                 sender |-> IF req.whole THEN ClientSerial(req.id) ELSE args.client,
                 entitled |-> EntitledTo(args.client, req.code), cut |-> ~ConfFits]}
  /\ UNCHANGED <<conf, clients, entered, open, now, req, args, crashes, acked>>

(***************************************************************************)
(* The requests that need a token.                                         *)
(***************************************************************************)
\* Defect: a token never expires.
Lookup_Forever(t) == {r \in tokens : r.token = t}

\* db_load_oauth_token.
Lookup(t) == {r \in tokens : r.token = t /\ ~(r.exp < now)}

\* validate_bearer.
LetIn(kind, t, whole) ==
  /\ pc = "idle"
  /\ req' = [NoReq EXCEPT !.kind = kind, !.token = t, !.whole = whole, !.at = now]
  /\ args' = NoArgs
  /\ \E f \in BOOLEAN :
       /\ FirstFails(f)
       /\ IF ~f /\ whole /\ Lookup(t) # {}
          THEN Goto(IF kind \in HasBody THEN "resolve" ELSE "work")
          ELSE Answer(401, {})
  /\ UNCHANGED <<conf, tables, now, crashes, ghosts>>

\* resolve_client_id and the other fields, of whatever url and body the request
\* has: the client is the body's, else the token's, which is looked up again,
\* else "default".
Resolve(url, b) ==
  /\ pc = "resolve"
  /\ req' = [req EXCEPT !.body = b, !.num = IF req.kind = "finish" THEN url.num ELSE 0]
  /\ \E f \in BOOLEAN :
       LET named == Field(b.text, <<"clientId">>, ClientSize)
           owner == IF f THEN {} ELSE Lookup(req.token)
       IN  /\ f => named = <<>>
           /\ Fails(f)
           /\ args' =
                [client |-> IF named # <<>> THEN Trim(named)
                            ELSE IF owner = {} THEN Default
                            ELSE Trim((CHOOSE r \in owner : TRUE).client),
                 data   |-> Field(b.text, <<"processData">>, DataSize),
                 num    |-> IF req.kind = "finish"
                            THEN TxNumber(NormalizePath(url.text)) ELSE 0]
  /\ Goto("work")
  /\ UNCHANGED <<conf, tables, now, crashes, ghosts>>

\* The handler is done with the request.
Done(status) == Answer(status, {}) /\ req' = NoReq /\ args' = NoArgs

\* store_start_transaction: a row with a number that is in no row yet, or none;
\* a row whose reading back fails is not reported.  Which number it is, and when
\* it is refused, is TxStore's matter.
Start ==
  /\ pc = "work" /\ req.kind = "start"
  /\ \E f \in BOOLEAN, new \in SUBSET ((1..MaxNum) \ entered) :
       /\ Fails(f) /\ Cardinality(new) <= 1
       /\ entered' = entered \cup new /\ open' = open \cup new
       /\ acked' = IF f THEN acked ELSE acked \cup new
       /\ Done(IF f \/ new = {} THEN 500 ELSE 200)
  /\ UNCHANGED <<conf, tokens, clients, now, crashes, issued>>

\* store_finish_transaction: a failure may come before or behind the update.
Finish ==
  /\ pc = "work" /\ req.kind = "finish"
  /\ \E f, closed \in BOOLEAN :
       /\ Fails(f)
       /\ closed => args.num \in open
       /\ ~f => closed = (args.num \in open)
       /\ open' = IF closed THEN open \ {args.num} ELSE open
       /\ acked' = IF closed THEN acked \ {args.num} ELSE acked
       /\ Done(IF closed /\ ~f THEN 200 ELSE 400)
  /\ UNCHANGED <<conf, tokens, clients, entered, now, crashes, issued>>

\* Defect: the newest ones.
Listed_Newest(max) == {n \in open : Cardinality({m \in open : m > n}) < max}

\* store_list_open_transactions: ORDER BY transaction_number, up to max.
Listed(max) == {n \in open : Cardinality({m \in open : m < n}) < max}

\* A statement that cannot be prepared is an error; a row that cannot be read
\* ends the list.
ListOpen ==
  /\ pc = "work" /\ req.kind = "list"
  /\ \E f \in BOOLEAN :
       /\ Fails(f)
       /\ IF f THEN Answer(500, {}) \/ \E max \in 0..(ListMax - 1) : Answer(200, Listed(max))
               ELSE Answer(200, Listed(ListMax))
  /\ UNCHANGED <<conf, tables, now, req, args, crashes, ghosts>>

\* GET /tssdetails and /info read; without a TSE there is no export.
Read ==
  /\ pc = "work" /\ req.kind \in {"info", "export"}
  /\ Answer(IF req.kind = "export" THEN 503 ELSE 200, {})
  /\ UNCHANGED <<conf, tables, now, req, args, fails, crashes, ghosts, faulty>>

(***************************************************************************)
(* The environment.                                                        *)
(***************************************************************************)
Tick == /\ now < MaxTime /\ now' = now + 1
        /\ UNCHANGED <<conf, tables, pc, req, args, reply, fails, crashes, ghosts,
                       faulty>>

\* A kill loses the request; the database stays.
Crash ==
  /\ pc # "down" /\ crashes < MaxCrashes /\ crashes' = crashes + 1
  /\ pc' = "down" /\ req' = NoReq /\ args' = NoArgs /\ reply' = NoReply
  /\ faulty' = FALSE
  /\ UNCHANGED <<conf, tables, now, fails, ghosts>>

\* config_load, with what the environment says now; List and Eas are its copies.
Restart ==
  /\ pc = "down" /\ pc' = "idle" /\ conf' \in Confs
  /\ UNCHANGED <<tables, now, req, args, reply, fails, crashes, ghosts, faulty>>

Next ==
  \/ \E kind \in Kinds \cap Free : Unguarded(kind)
  \/ \E login \in Logins : OAuth(login)
  \/ \E kind \in Kinds \ (Free \cup {"oauth"}), whole \in BOOLEAN,
        t \in {i.token : i \in issued} \cup {NoToken} : LetIn(kind, t, whole)
  \/ \E a \in Asked, b \in Requested : a.kind = req.kind /\ Resolve(a.url, b)
  \/ Register \/ Grant \/ Start \/ Finish \/ ListOpen \/ Read
  \/ Tick \/ Crash \/ Restart

Spec == Init /\ [][Next]_vars

(***************************************************************************)
(* What an instance's texts mean: the lists of clients, the credentials,   *)
(* the bodies and the numbers in paths.                                    *)
(***************************************************************************)
Texts == Seq(STRING)

\* The clients of a list: what is between its commas, without the blanks around.
Items(list) ==
  LET starts == {1} \cup {i + 1 : i \in {k \in 1..Len(list) : list[k] = ","}}
  IN  {Trim(SubSeq(list, i, UntilFrom(list, i, {","}) - 1)) : i \in starts} \ {<<>>}

ASSUME ConfsAssumption ==
  \A c \in Confs : c.list \in Texts /\ c.eas \in Texts /\ c.names = Items(c.list)

\* Credentials are of the letters of Text; the colon ends the id.
Symbols == {Letters[l] : l \in 1..Len(Letters)}

ASSUME LoginsAssumption ==
  /\ \A id \in Ids : id \in Seq(Symbols \ {":"})
  /\ \A code \in Codes : code \in Seq(Symbols)
  /\ Rooms \subseteq Nat

\* What a number reads like: its last figure is what ten leaves of it, the ones
\* before it read like its tenth, and zeros in front do not count.
ReadsLike(text, n) ==
  LET L == Len(text)
      rest[k \in 0..L] == IF k = 0 THEN n ELSE rest[k - 1] \div 10
  IN  /\ rest[L] = 0
      /\ \A k \in 0..L - 1 : text[L - k] = Figures[(rest[k] % 10) + 1]

\* What is behind "/transaction/", up to another slash or a query.
TxPart(text) == SubSeq(text, 4, UntilFrom(text, 4, {"/", "?"}) - 1)

ASSUME UrlsAssumption ==
  \A u \in Urls :
    /\ u.text \in Texts /\ u.num \in Nat
    /\ At(u.text, 1, <<"/", "transaction", "/">>) =>
         LET part == TxPart(u.text)
         IN  (\A i \in 1..Len(part) : part[i] \in DOMAIN Digits) => ReadsLike(part, u.num)

ASSUME BodiesAssumption ==
  \A b \in Bodies :
    /\ b.client \in Texts /\ b.data \in Texts /\ b.json \in Texts
    /\ b.chunked =>
         LET joined[k \in 0..Len(b.parts)] ==
               IF k = 0 THEN <<>> ELSE joined[k - 1] \o b.parts[k]
         IN  /\ b.json = joined[Len(b.parts)]
             /\ \A k \in 1..Len(b.parts) :
                  LET n == Len(b.parts[k]) IN n > 0 /\ n % 16 < 10 /\ n \div 16 < 10

(***************************************************************************)
(* Properties.                                                             *)
(***************************************************************************)
\* validate_bearer: a request is let in only with a token that was handed out
\* to a client whom the configuration of that day entitled to it, no more than
\* Life before, whatever was configured since.  The client is the one that was
\* seen, and a configuration too long for g_config (config.c:99) entitles
\* others than it says: its last name is cut.
Entitled ==
  pc \in {"resolve", "work"} =>
    \E i \in issued :
      i.token = req.token /\ (i.entitled \/ i.cut) /\ req.at <= i.at + Life

\* resolve_client_id, json_get_string, decode_chunked_body: a start or finish
\* is carried out on the number that the sender meant and, if the body is
\* plain, with the data and for the client that were meant.  Without a client
\* in the body it is the token's, who is the one who asked for the token; it is
\* "default" only if the token expired while the request was handled, or a
\* statement failed.  Bodies that are not plain are misread: \n as n
\* (json.c:39), a form as {} (http.c:393), and others are cut.
ExecutedAsSent ==
  pc = "work" /\ req.kind \in HasBody =>
    /\ args.num = req.num
    /\ req.body.plain =>
         /\ args.data = Copied(req.body.data, DataSize)
         /\ IF req.body.client # <<>>
            THEN Len(req.body.client) < ClientSize => args.client = Trim(req.body.client)
            ELSE \E i \in issued :
                   /\ i.token = req.token
                   /\ \/ args.client = i.client /\ i.client = i.sender
                      \/ args.client = Default /\ (faulty \/ now > i.at + Life)

\* handle_oauth, util_base64_decode, db_save_oauth_token: nobody is turned away
\* without a reason.  A token is refused to those who are not entitled, and is
\* good for Life from when it was saved, through restarts and new
\* configurations; else the header, the credentials or the configuration did
\* not fit, or a statement failed.
RefusedForAReason ==
  reply.status = 401 =>
    \/ faulty \/ ~req.whole
    \/ req.kind = "oauth"
         /\ (~ConfFits \/ ~EntitledTo(ClientSerial(req.id), req.code))
    \/ req.kind # "oauth" /\ \A i \in issued :
         i.token = req.token => ~i.saved \/ req.at > i.at + Life

\* GET /transactions: a transaction whose start was acknowledged, and which
\* nobody finished, is in the list, or the list is full of older ones, unless
\* reading the table failed.
OpenListed ==
  reply.status = 200 /\ req.kind = "list" /\ ~faulty =>
    \A n \in acked :
      n \in reply.list
        \/ /\ Cardinality(reply.list) = ListMax
           /\ \A m \in reply.list : m < n
=============================================================================
