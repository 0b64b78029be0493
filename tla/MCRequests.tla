----------------------------- MODULE MCRequests -----------------------------
(***************************************************************************)
(* Instances of Requests: a client with a name and one without, two tokens,*)
(* three configurations, and what the clients' software sends.             *)
(***************************************************************************)
EXTENDS Requests, TLC

CONSTANTS t1, t2
Symmetry == Permutations(Tokens)

A  == <<"A">>
AB == <<"A", "B">>
X  == <<"x">>

MCIds   == {A, <<>>}
MCCodes == {X, <<"y", "y">>}
MCRooms == {0, 2, 99}

\* Open to everybody, to one client of two with a code, and a list and a code
\* that are cut.
MCConfs ==
  { [names |-> {}, list |-> <<>>, eas |-> <<"*">>],
    [names |-> {A, <<"B">>}, list |-> <<"B", " ", ",", " ", "A">>, eas |-> X],
    [names |-> {AB, <<"B">>}, list |-> <<" ", "B", ",", " ", " ", "A", "B">>,
     eas |-> <<"x", "y">>] }

MCMethods == {"OPTIONS", "GET", "POST", "PUT"}

Tx(rest) == <<"/", "transaction", "/">> \o rest
MCUrls ==
  [text : { <<"/">>, <<"/", "transactions">>, <<"/", "export", "/", "transactions">>,
            <<"/", "transaction", "/">>, Tx(<<"1", "x">>) },
   num : {0}]
  \cup { [text |-> Tx(<<"1", "2", "3">>), num |-> 123],
         [text |-> Tx(<<"1", "/", "?", "x">>), num |-> 1], [text |-> Tx(<<"2">>), num |-> 2] }

(***************************************************************************)
(* Bodies: a flat JSON object, whole, in chunks or called a form.          *)
(***************************************************************************)
Str(s)         == <<Quote>> \o Escape(s) \o <<Quote>>
Member(key, v) == Str(<<key>>) \o <<" ", ":">> \o v
Json(first, client, data) ==
  <<"{">> \o Member("externalTransactionId", first) \o <<",">>
          \o Member("clientId", client) \o <<",">>
          \o Member("processData", data) \o <<"}">>

\* In chunks of 16, of up to 9, and of the rest.
Parts(text) == <<SubSeq(text, 1, 16), SubSeq(text, 17, 25), SubSeq(text, 26, Len(text))>>

Body(client, data, json, chunked) ==
  [client |-> client, data |-> data, json |-> json, form |-> FALSE, chunked |-> chunked,
   parts |-> IF chunked THEN Parts(json) ELSE <<>>]

Digit1 == <<"1">>

\* A client with blanks around it next to a value that reads like a key, and
\* data that is cut; none and data with quotes, in chunks; and what is not
\* plain: a form, an escaped line feed, an end in the middle, and too long.
MCBodies ==
  { Body(<<" ", "A", " ">>, <<"1", "2", "3", "4">>,
         Json(Str(<<"clientId">>), Str(<<" ", "A", " ">>), Str(<<"1", "2", "3", "4">>)),
         FALSE),
    Body(<<>>, <<Quote, ",", Backslash>>,
         Json(Str(X), <<"null">>, Str(<<Quote, ",", Backslash>>)), TRUE),
    [Body(A, Digit1, Json(Str(X), Str(A), Str(Digit1)), FALSE) EXCEPT !.form = TRUE],
    Body(A, <<LF>>, Json(Str(X), Str(A), Str(<<LF>>)), FALSE),
    Body(A, Digit1, Json(<<"0", CR, LF, CR, LF>>, Str(A), Str(Digit1)), TRUE),
    Body(A, Digit1, Json(Str([i \in 1..15 |-> "x"]), Str(A), Str(Digit1)), FALSE) }
=============================================================================
