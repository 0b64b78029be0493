------------------------------- MODULE HttpConn -------------------------------
(***************************************************************************)
(* The HTTP server (http.c): one thread accepts a connection, serves all   *)
(* requests on it and only then accepts the next.  A client sends a script *)
(* of messages as a stream of units, in pieces and without having to wait  *)
(* for answers; the server's buffer is a window on that stream, so it is   *)
(* given by two numbers: how much was consumed and how much is buffered.   *)
(*                                                                         *)
(* A message has hdr units, the last of which ends with the blank line,    *)
(* and body units.  Content-Length frames it, unless it is chunked: then   *)
(* the five bytes that end a chunked body first occur at unit term of it.  *)
(***************************************************************************)
EXTENDS Naturals, Sequences, FiniteSetsExt

CONSTANTS
  Clients, NULL,
  Messages,     \* what a client may send
  MaxMsgs,      \* bound on the length of a script
  BufMax,       \* sizeof(buf) - 1, in units
  ReqMax,       \* sizeof(req_raw) - 1
  EofInMessage, \* may a client end its stream inside a message?
  AcceptFails   \* may accept return a pending error of the connection?

ASSUME HttpAssumption ==
  /\ NULL \notin Clients /\ MaxMsgs \in Nat /\ ReqMax \in Nat \ {0}
  /\ BufMax \in Nat /\ ReqMax <= BufMax
  /\ Messages \subseteq [hdr : Nat \ {0}, body : Nat, term : Nat,
                         keep : BOOLEAN, stream : BOOLEAN]
  /\ \A m \in Messages : m.term <= m.body
  /\ EofInMessage \in BOOLEAN /\ AcceptFails \in BOOLEAN

VARIABLES
  script, status, sent, eof, \* the clients: what each will send, whether it
                             \* is queued or served, units sent, stream ended
  running,                   \* *s_running
  pc, conn,                  \* the server thread and the client it serves
  start, total,              \* units consumed, and units in buf after them
  keep,                      \* keep_alive
  stream,                    \* the answer being sent is a stream
  handled,                   \* ghost: the requests routed on this connection
  streamed                   \* ghost: a stream was sent on this connection

clients == <<script, status, sent, eof>>
buffer  == <<start, total>>
ghosts  == <<handled, streamed>>
vars    == <<clients, running, pc, conn, buffer, keep, stream, ghosts>>

Scripts == UNION {[1..k -> Messages] : k \in 1..MaxMsgs}

\* Off(s)[i]: where message i of the script begins in the stream.
Off(s) ==
  LET off[i \in 1..Len(s) + 1] ==
        IF i = 1 THEN 0 ELSE off[i - 1] + s[i - 1].hdr + s[i - 1].body
  IN  off

Length(s)  == Off(s)[Len(s) + 1]
HdrEnd(s, i) == Off(s)[i] + s[i].hdr

TypeOK ==
  /\ script \in [Clients -> Scripts]
  /\ status \in [Clients -> {"new", "queued", "served", "gone"}]
  /\ sent \in [Clients -> Nat]
  /\ \A c \in Clients : sent[c] <= Length(script[c])
  /\ eof \in [Clients -> BOOLEAN] /\ running \in BOOLEAN
  /\ pc \in {"accept", "check", "fill", "read", "take", "send", "blocked",
             "close", "returned"}
  /\ conn \in Clients \cup {NULL}
  /\ conn = NULL <=> pc \in {"accept", "returned"}
  /\ total \in 0..BufMax /\ keep \in BOOLEAN /\ stream \in BOOLEAN
  /\ start \in Nat /\ (conn # NULL => start + total <= sent[conn])
  /\ handled \in Seq([msg : 0..MaxMsgs, whole : BOOLEAN])
  /\ streamed \in BOOLEAN

Init ==
  /\ script \in [Clients -> Scripts]
  /\ status = [c \in Clients |-> "new"]
  /\ sent = [c \in Clients |-> 0] /\ eof = [c \in Clients |-> FALSE]
  /\ running = TRUE /\ pc = "accept" /\ conn = NULL
  /\ start = 0 /\ total = 0 /\ keep = TRUE /\ stream = FALSE
  /\ handled = <<>> /\ streamed = FALSE

(***************************************************************************)
(* Clients and the signal.                                                 *)
(***************************************************************************)
ClientConnect(c) ==
  /\ status[c] = "new" /\ status' = [status EXCEPT ![c] = "queued"]
  /\ UNCHANGED <<script, sent, eof, running, pc, conn, buffer, keep, stream,
                 ghosts>>

ClientSend(c) ==
  /\ status[c] \in {"queued", "served"} /\ ~eof[c]
  /\ sent[c] < Length(script[c])
  /\ sent' = [sent EXCEPT ![c] = @ + 1]
  /\ UNCHANGED <<script, status, eof, running, pc, conn, buffer, keep, stream,
                 ghosts>>

ClientEof(c) ==
  /\ status[c] \in {"queued", "served"} /\ ~eof[c]
  /\ \/ EofInMessage
     \/ \E i \in DOMAIN Off(script[c]) : sent[c] = Off(script[c])[i]
  /\ eof' = [eof EXCEPT ![c] = TRUE]
  /\ UNCHANGED <<script, status, sent, running, pc, conn, buffer, keep, stream,
                 ghosts>>

\* on_signal clears the flag.
Signal ==
  /\ running /\ running' = FALSE
  /\ UNCHANGED <<clients, pc, conn, buffer, keep, stream, ghosts>>

(***************************************************************************)
(* http_serve.                                                             *)
(***************************************************************************)
Accept(c) ==
  /\ pc = "accept" /\ running /\ status[c] = "queued"
  /\ status' = [status EXCEPT ![c] = "served"]
  /\ conn' = c /\ pc' = "check" /\ start' = 0 /\ total' = 0 /\ keep' = TRUE
  /\ handled' = <<>> /\ streamed' = FALSE
  /\ UNCHANGED <<script, sent, eof, running, stream>>

\* Defect: the loop does not look at the flag.
ServeEnd_Deaf ==
  /\ pc = "accept" /\ AcceptFails
  /\ \E c \in Clients : status[c] = "queued"
  /\ pc' = "returned"
  /\ UNCHANGED <<clients, running, conn, buffer, keep, stream, ghosts>>

\* The loop ends on the signal, and on an error of accept.
ServeEnd ==
  /\ pc = "accept"
  /\ ~running \/ (AcceptFails /\ \E c \in Clients : status[c] = "queued")
  /\ pc' = "returned"
  /\ UNCHANGED <<clients, running, conn, buffer, keep, stream, ghosts>>

(***************************************************************************)
(* handle_client.                                                          *)
(***************************************************************************)
Wire == script[conn]

\* find_header_end: the messages whose header ends inside the buffer.
Headers == {i \in DOMAIN Wire : /\ start < HdrEnd(Wire, i)
                                /\ HdrEnd(Wire, i) <= start + total}
First == Min(Headers)

\* chunked_body_complete looks for the end of a body anywhere behind the
\* header, in this message or in a later one.
ChunksComplete ==
  \E i \in DOMAIN Wire : /\ i >= First /\ Wire[i].term > 0
                         /\ HdrEnd(Wire, i) + Wire[i].term <= start + total

\* request_complete, and the msg_len it computes.
Chunked == Wire[First].term > 0

MsgLen == IF Chunked THEN total
          ELSE HdrEnd(Wire, First) - start + Wire[First].body

Complete == Headers # {} /\ IF Chunked THEN ChunksComplete ELSE total >= MsgLen

Check ==
  /\ pc = "check"
  /\ pc' = IF Complete THEN "take"
           ELSE IF total >= BufMax THEN "close" ELSE "fill"
  /\ UNCHANGED <<clients, running, conn, buffer, keep, stream, ghosts>>

\* fill_buffer first looks at the flag ...
Fill ==
  /\ pc = "fill" /\ pc' = IF running THEN "read" ELSE "close"
  /\ UNCHANGED <<clients, running, conn, buffer, keep, stream, ghosts>>

Unread == sent[conn] - (start + total)

\* buf keeps one byte for the terminating NUL.
Room == BufMax - total

\* Defect: the end of the stream is never an error.
AtEof_Again == "check"

\* What fill_buffer makes of the end of the stream.
AtEof == IF total > 0 THEN "check" ELSE "close"

\* ... then waits for input.  At the end of the stream it succeeds as long as
\* anything is buffered; a client silent for HTTP_CLIENT_TIMEOUT_SEC, an
\* error or a signal during select make it fail.
Read ==
  /\ pc = "read"
  /\ \/ \E n \in 1..Room :
          n <= Unread /\ total' = total + n /\ pc' = "check"
     \/ Unread = 0 /\ eof[conn] /\ pc' = AtEof /\ UNCHANGED total
     \/ (Unread = 0 /\ ~eof[conn]) /\ pc' = "close" /\ UNCHANGED total
  /\ UNCHANGED <<clients, running, conn, start, keep, stream, ghosts>>

\* Defect: all that is buffered is taken for the message.
Taken_All == IF total > ReqMax THEN ReqMax ELSE total

Taken == IF MsgLen > ReqMax THEN ReqMax ELSE MsgLen

\* The message is cut out of the buffer, parsed, and routed: the operation is
\* executed here.  Leftovers of an earlier message in front of the header are
\* the request line; that is no valid request, or one nobody serves.
Take ==
  /\ pc = "take"
  /\ start' = start + Taken /\ total' = total - Taken
  /\ IF Off(Wire)[First] = start /\ Taken >= Wire[First].hdr
     THEN /\ handled' =
               Append(handled,
                      [msg |-> First,
                       whole |-> Off(Wire)[First + 1] <= start + Taken])
          /\ keep' = Wire[First].keep /\ stream' = Wire[First].stream
     ELSE \/ /\ keep' = FALSE /\ stream' = FALSE /\ UNCHANGED handled
          \/ /\ Taken >= HdrEnd(Wire, First) - start
             /\ handled' = Append(handled, [msg |-> 0, whole |-> FALSE])
             /\ keep' \in BOOLEAN /\ stream' = FALSE
  /\ pc' = "send"
  /\ UNCHANGED <<clients, running, conn, streamed>>

\* Defect: the connection goes on only for a request that is in the buffer.
GoesOn_Pipelined == keep /\ total > 0

\* Whether keep_alive lets the connection go on after an answer.
GoesOn == keep

\* The answer, or the stream, is written as far as it will be.  A write that
\* fails, because of the select's timeout or the signal, changes nothing: its
\* result is ignored.
Answered ==
  /\ pc' = IF GoesOn THEN "check" ELSE "close"
  /\ streamed' = (streamed \/ stream)

\* http_send_response.  http_write_all waits for room with a timeout, but then
\* calls send on a blocking socket without one: for a client that does not
\* read enough, that call does not return.
Send ==
  /\ pc = "send"
  /\ Answered \/ (pc' = "blocked" /\ UNCHANGED streamed)
  /\ UNCHANGED <<clients, running, conn, buffer, keep, stream, handled>>

\* The client reads on or goes away, or the signal interrupts the call (a
\* stream's runs on another thread).  Nobody owes this.
Resume ==
  /\ pc = "blocked" /\ Answered
  /\ UNCHANGED <<clients, running, conn, buffer, keep, stream, handled>>

\* close_client drains what the client still sends before it closes.
Close ==
  /\ pc = "close" /\ Unread = 0
  /\ status' = [status EXCEPT ![conn] = "gone"]
  /\ pc' = "accept" /\ conn' = NULL /\ start' = 0 /\ total' = 0
  /\ keep' = TRUE /\ stream' = FALSE /\ handled' = <<>> /\ streamed' = FALSE
  /\ UNCHANGED <<script, sent, eof, running>>

Drain ==
  /\ pc = "close" /\ Unread > 0
  /\ \E n \in 1..Unread : start' = start + n
  /\ UNCHANGED <<clients, running, pc, conn, total, keep, stream, ghosts>>

Server == \/ ServeEnd \/ Check \/ Fill \/ Read
          \/ Take \/ Send \/ Drain \/ Close
          \/ \E c \in Clients : Accept(c)

Next == \/ Server \/ Resume \/ Signal
        \/ \E c \in Clients :
             ClientConnect(c) \/ ClientSend(c) \/ ClientEof(c)

Spec == Init /\ [][Next]_vars

\* The server thread runs; clients and the signal owe nothing.
FairSpec == Spec /\ WF_vars(Server)

(***************************************************************************)
(* Properties.                                                             *)
(***************************************************************************)
\* The messages the framing is made for: one that fits req_raw and, if it is
\* chunked, ends where it seems to and is the last one in flight.
Regular(s, j) ==
  /\ s[j].hdr + s[j].body <= ReqMax
  /\ s[j].term > 0 => s[j].term = s[j].body /\ j = Len(s)

AllRegular(s) == \A j \in DOMAIN s : Regular(s, j)

\* However the stream is cut into reads, and whatever is already buffered of
\* the next message, the k-th request executed is the k-th message, whole;
\* as long as all messages up to that one are regular.
Framing ==
  conn # NULL =>
    \A k \in DOMAIN handled :
      (\A j \in 1..k : j \in DOMAIN Wire => Regular(Wire, j))
        => handled[k] = [msg |-> k, whole |-> TRUE]

\* The scripts whose every message is to be answered: those that keep the
\* connection.  A stream's answer says Connection: close (http.h:44), so
\* nothing is promised to what follows one, though the code would serve it.
Answerable(s) ==
  AllRegular(s) /\ \A j \in DOMAIN s : s[j].keep /\ (s[j].stream => j = Len(s))

\* No send waits for ever: the clients read what they are sent, or go away.
SendsReturn == []<>(pc # "blocked")

\* A client that has sent everything while it was being served, and reads the
\* answers, gets every request executed, unless the server is told to stop.
AllServed ==
  SendsReturn =>
    \A c \in Clients :
      /\ conn = c /\ pc # "close" /\ sent[c] = Length(script[c])
      /\ Answerable(script[c])
      ~> ~running \/ (conn = c /\ Len(handled) = Len(script[c]))

\* No client can hold on to the only thread by what it sends:
\* HTTP_CLIENT_TIMEOUT_SEC (line 23) and the end of its stream see to it that
\* its connection ends, as long as it means to send regular messages.  It can
\* by not reading: nothing bounds the send of http_write_all.
ConnectionEnds ==
  SendsReturn =>
    \A c \in Clients : conn = c /\ AllRegular(script[c]) ~> conn # c

\* Once the flag is cleared http_serve returns, whoever is being served and
\* whatever was received of the request; unless a send never returns.
ServeReturns == SendsReturn => (~running ~> pc = "returned")

\* "The response is sent with Connection: close" (http.h:44) and "the
\* connection will close on return" (handlers.c:421): after a stream the
\* server reads no further request.  It does not hold, and no run checks it:
\* handle_client goes by the request's keep_alive alone (http.c:569).
StreamCloses == streamed => pc = "close"
=============================================================================
