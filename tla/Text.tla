-------------------------------- MODULE Text --------------------------------
(***************************************************************************)
(* The functions that read and write text: JSON (json.c), the allowlist    *)
(* (config.c), Base64 (util.c), paths and chunked bodies (http.c).  A text *)
(* is a sequence of symbols, most of them one character; a C string's end  *)
(* is the end of the sequence.  Two symbols are words: "null" in a JSON    *)
(* text and a name between the slashes of a path.                          *)
(***************************************************************************)
EXTENDS Naturals, Sequences

Quote     == "\""
Backslash == "\\"
CR        == "CR"
LF        == "LF"
Space     == {" ", CR, LF} \* what isspace() accepts

Least(S) == CHOOSE i \in S : \A j \in S : i <= j

\* The first position from i on whose symbol is not in S, or is; one past the
\* end if there is none.
SkipFrom(s, i, S)  == Least({j \in i..Len(s) : s[j] \notin S} \cup {Len(s) + 1})
UntilFrom(s, i, S) == Least({j \in i..Len(s) : s[j] \in S} \cup {Len(s) + 1})

At(s, i, p) == i + Len(p) - 1 <= Len(s) /\ SubSeq(s, i, i + Len(p) - 1) = p

\* strncpy into a buffer of the given size, with the final NUL.
Copied(s, size) == SubSeq(s, 1, IF Len(s) < size THEN Len(s) ELSE size - 1)

\* util_trim.
Trim(s) ==
  LET last == {i \in 1..Len(s) : s[i] \notin Space}
  IN  IF last = {} THEN <<>>
      ELSE SubSeq(s, SkipFrom(s, 1, Space),
                  CHOOSE i \in last : \A j \in last : j <= i)

(***************************************************************************)
(* JSON.                                                                   *)
(***************************************************************************)
\* Defect: the first occurrence of the key counts, colon or not.
FindKey_NoColon(json, key) ==
  LET pattern == <<Quote>> \o key \o <<Quote>>
      hits    == {i \in 1..Len(json) : At(json, i, pattern)}
  IN  IF hits = {} THEN 0 ELSE Least(hits) + Len(pattern) + 1

\* find_key: behind the colon that follows the first "key" that a colon
\* follows; 0 if there is none.
FindKey(json, key) ==
  LET pattern  == <<Quote>> \o key \o <<Quote>>
      Colon(i) == SkipFrom(json, i + Len(pattern), Space)
      hits     == {i \in 1..Len(json) :
                     /\ At(json, i, pattern)
                     /\ Colon(i) <= Len(json) /\ json[Colon(i)] = ":"}
  IN  IF hits = {} THEN 0 ELSE Colon(Least(hits)) + 1

\* One symbol of a string: a backslash stands for the symbol behind it, whatever
\* that is; a quote or the text's end ends it.
OneSymbol(json, s) ==
  IF s.at > Len(json) \/ json[s.at] = Quote THEN s
  ELSE IF json[s.at] = Backslash /\ s.at < Len(json)
       THEN [at |-> s.at + 2, out |-> Append(s.out, json[s.at + 1])]
       ELSE [at |-> s.at + 1, out |-> Append(s.out, json[s.at])]

\* The string whose opening quote is before position i.
Unescaped(json, i) ==
  LET read[k \in 0..Len(json)] == IF k = 0 THEN [at |-> i, out |-> <<>>]
                                  ELSE OneSymbol(json, read[k - 1])
  IN  read[Len(json)].out

\* json_get_string and pick_body_field: the field's text, cut to the buffer;
\* empty if it is missing, null or empty.
Field(json, key, size) ==
  LET p == FindKey(json, key)
      v == SkipFrom(json, p, Space)
  IN  IF p = 0 \/ At(json, v, <<"null">>) THEN <<>>
      ELSE IF At(json, v, <<Quote>>) THEN Copied(Unescaped(json, v + 1), size)
      ELSE Copied(SubSeq(json, v, UntilFrom(json, v, {",", "}", "]"} \cup Space) - 1), size)

\* json_escape.  Its callers' buffers are twice as long as their texts, so it
\* does not fail.
Escape(s) ==
  LET e[i \in 1..(Len(s) + 1)] ==
        IF i > Len(s) THEN <<>>
        ELSE (CASE s[i] \in {Quote, Backslash} -> <<Backslash, s[i]>>
                [] s[i] = LF -> <<Backslash, "n">>
                [] s[i] = CR -> <<Backslash, "r">>
                [] OTHER -> <<s[i]>>) \o e[i + 1]
  IN  e[1]

(***************************************************************************)
(* The allowlist: client ids, separated by commas, with blanks around them *)
(* that do not count.  An empty list allows everybody.                     *)
(***************************************************************************)
\* config_is_client_allowed.
Allowed(list, id) ==
  LET from[p \in 1..(Len(list) + 1)] ==
        LET a == SkipFrom(list, p, Space)
            z == UntilFrom(list, a, {","})
        IN  /\ p <= Len(list)
            /\ \/ Trim(SubSeq(list, a, z - 1)) = id
               \/ z <= Len(list) /\ from[z + 1]
  IN  list = <<>> \/ (id # <<>> /\ from[1])

(***************************************************************************)
(* Paths.                                                                  *)
(***************************************************************************)
\* http_normalize_path: without the query and without slashes at the end.
NormalizePath(url) ==
  LET path == SubSeq(url, 1, UntilFrom(url, 1, {"?"}) - 1)
      kept == {i \in 2..Len(path) : path[i] # "/"} \cup {1}
  IN  IF path = <<>> THEN <<"/">>
      ELSE SubSeq(path, 1, CHOOSE i \in kept : \A j \in kept : j <= i)

Figures == <<"0", "1", "2", "3", "4", "5", "6", "7", "8", "9">>
Digits  == [d \in {Figures[k] : k \in 1..10} |-> CHOOSE n \in 0..9 : d = Figures[n + 1]]

\* atoll and strtoul: the number that the digits at the front make.
Number(s, base) ==
  LET end == SkipFrom(s, 1, DOMAIN Digits)
      value[i \in 0..(end - 1)] ==
        IF i = 0 THEN 0 ELSE base * value[i - 1] + Digits[s[i]]
  IN  value[end - 1]

\* match_tx_finish: /transaction/ and nothing but digits, fewer than size.
MatchTxFinish(path, size) ==
  /\ Len(path) > 3 /\ SubSeq(path, 1, 3) = <<"/", "transaction", "/">>
  /\ \A i \in 4..Len(path) : path[i] \in DOMAIN Digits
  /\ Len(path) - 3 < size

\* atoll of the path's last part.  Numbers beyond 63 bits are of no
\* transaction, whatever it makes of them.
TxNumber(path) == Number(SubSeq(path, 4, Len(path)), 10)

(***************************************************************************)
(* Chunked bodies.  Sizes are one hexadecimal digit or several.            *)
(***************************************************************************)
LastChunk == <<"0", CR, LF, CR, LF>>

\* chunked_body_complete: the framing's test.
ChunkedComplete(body) == \E i \in 1..Len(body) : At(body, i, LastChunk)

\* strtoul to base 16, of the digits the models use.
ChunkSize(line) == Number(line, 16)

LineEnd(s, i) == {j \in i..Len(s) : At(s, j, <<CR, LF>>)}

\* decode_chunked_body, into a buffer of the given size, from position p on and
\* behind the o symbols it has: it stops at what it cannot read or hold.
DecodeChunked(raw, size) ==
  LET from[p \in 1..(Len(raw) + 1), o \in 0..Len(raw)] ==
        LET ends == LineEnd(raw, p)
            e    == Least(ends)
            n    == ChunkSize(SubSeq(raw, p, e - 1))
            d    == e + 2
        IN  IF \/ ends = {} \/ e = p \/ e - p >= 16 \/ n = 0
               \/ d + n - 1 > Len(raw) \/ o + n >= size
            THEN <<>>
            ELSE SubSeq(raw, d, d + n - 1)
                 \o from[IF At(raw, d + n, <<CR, LF>>) THEN d + n + 2 ELSE d + n, o + n]
  IN  from[1, 0]

(***************************************************************************)
(* Base64: a digit is its value, 0..63; Pad stands for the "=" that fills  *)
(* the last group.                                                         *)
(***************************************************************************)
Pad == 64

\* The bytes of the characters that occur in credentials, and back.
Letters == <<"A", "B", "C", "x", "y", ":">>
Byte    == <<65, 66, 67, 120, 121, 58>>

Ascii(text) == [i \in 1..Len(text) |->
                  Byte[CHOOSE l \in 1..Len(Letters) : Letters[l] = text[i]]]

Chars(bytes) == [i \in 1..Len(bytes) |->
                   IF \E l \in 1..Len(Byte) : Byte[l] = bytes[i]
                   THEN Letters[CHOOSE l \in 1..Len(Byte) : Byte[l] = bytes[i]]
                   ELSE "?"]

\* util_base64_encode.
Base64Encode(in) ==
  LET B(i) == IF i <= Len(in) THEN in[i] ELSE 0
      groups == (Len(in) + 2) \div 3
      Group(g) ==
        LET i == 3 * g + 1
            n == 65536 * B(i) + 256 * B(i + 1) + B(i + 2)
        IN  << n \div 262144, (n \div 4096) % 64,
               IF i + 1 <= Len(in) THEN (n \div 64) % 64 ELSE Pad,
               IF i + 2 <= Len(in) THEN n % 64 ELSE Pad >>
  IN  [k \in 1..(4 * groups) |-> Group((k - 1) \div 4)[((k - 1) % 4) + 1]]

\* 1 << n for 0 to 4 bits n.
Shift == <<1, 2, 4, 8, 16>>

\* util_base64_decode, one character: what is no digit is passed over, "=" among
\* it.  Of buf's 32 bits the lowest 16 are kept; no more are ever put out.
Digit64(s, d) ==
  LET buf  == (s.buf % 1024) * 64 + d
      bits == s.bits + 6
  IN  IF d \notin 0..63 THEN s
      ELSE IF bits >= 8
           THEN [buf |-> buf, bits |-> bits - 8,
                 out |-> Append(s.out, (buf \div Shift[bits - 7]) % 256)]
           ELSE [buf |-> buf, bits |-> bits, out |-> s.out]

\* All of them.
Base64Decode(in) ==
  LET at[i \in 0..Len(in)] == IF i = 0 THEN [buf |-> 0, bits |-> 0, out |-> <<>>]
                              ELSE Digit64(at[i - 1], in[i])
  IN  at[Len(in)].out
=============================================================================
