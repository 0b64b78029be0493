--------------------------- MODULE HttpConnProofs ---------------------------
(***************************************************************************)
(* For every set of clients and messages, every length of a script and     *)
(* every size of the two buffers: each request is cut out of the stream as *)
(* it was sent, however the stream is cut into reads.                      *)
(***************************************************************************)
EXTENDS HttpConn, Integers, FiniteSetTheorems, SequenceTheorems, TLAPS

(***************************************************************************)
(* Induction: a set of numbers that has 0 and, with n, n + 1 has them all. *)
(* It follows from the pigeonhole principle: up to a number that it lacks, *)
(* adding 1 would map the set into itself without 0.                       *)
(***************************************************************************)
LEMMA NatSets ==
  ASSUME NEW T, 0 \in T, \A n \in Nat : n \in T => n + 1 \in T
  PROVE  \A n \in Nat : n \in T
<1> SUFFICES ASSUME NEW m \in Nat, m \notin T PROVE FALSE
  OBVIOUS
<1> DEFINE S == T \cap (0..m)
<1>1. IsFiniteSet(S) /\ Cardinality(S) \in Nat
  <2>1. IsFiniteSet(0..m)
    BY FS_Interval
  <2>2. S \in SUBSET (0..m)
    OBVIOUS
  <2> QED BY <2>1, <2>2, FS_Subset, FS_CardinalityType
<1>2. 0 \in S
  OBVIOUS
<1>3. IsFiniteSet(S \ {0}) /\ Cardinality(S \ {0}) < Cardinality(S)
  <2>1. IsFiniteSet(S \ {0}) /\ Cardinality(S \ {0}) = Cardinality(S) - 1
    BY <1>1, <1>2, FS_RemoveElement
  <2> QED BY <2>1, <1>1
<1>4. \A x \in S : x \in Nat /\ x + 1 \in S \ {0}
  OBVIOUS
<1> DEFINE next == [x \in S |-> x + 1]
<1> HIDE DEF S
<1>5. next \in [S -> S \ {0}] /\ \A x \in S : next[x] = x + 1
  BY <1>4
<1> HIDE DEF next
<1>6. \E x, y \in S : x # y /\ next[x] = next[y]
  BY <1>1, <1>3, <1>5, FS_PigeonHole
<1> QED BY <1>4, <1>5, <1>6

(***************************************************************************)
(* Scripts, and where their messages begin.                                *)
(***************************************************************************)
LEMMA ScriptIs ==
  ASSUME NEW s \in Scripts
  PROVE  /\ s \in Seq(Messages) /\ Len(s) \in 1..MaxMsgs /\ DOMAIN s = 1..Len(s)
         /\ \A i \in 1..Len(s) :
              /\ s[i].hdr \in Nat \ {0} /\ s[i].body \in Nat
              /\ s[i].term \in Nat /\ s[i].term <= s[i].body
              /\ s[i].keep \in BOOLEAN /\ s[i].stream \in BOOLEAN
<1>1. PICK k \in 1..MaxMsgs : s \in [1..k -> Messages]
  BY DEF Scripts
<1>2. k \in Nat
  BY HttpAssumption
<1>3. s \in Seq(Messages) /\ Len(s) = k
  BY <1>1, <1>2
<1>4. \A m \in Messages :
        /\ m.hdr \in Nat \ {0} /\ m.body \in Nat /\ m.term \in Nat /\ m.term <= m.body
        /\ m.keep \in BOOLEAN /\ m.stream \in BOOLEAN
  BY HttpAssumption
<1> QED BY <1>1, <1>3, <1>4

LEMMA OffIs ==
  ASSUME NEW s, Len(s) \in Nat
  PROVE  Off(s) = [i \in 1..Len(s) + 1 |->
                     IF i = 1 THEN 0 ELSE Off(s)[i - 1] + s[i - 1].hdr + s[i - 1].body]
<1> DEFINE Val(g, i) == IF i = 1 THEN 0 ELSE g[i - 1] + s[i - 1].hdr + s[i - 1].body
           Upto(n)   == \E g : g = [i \in 1..n |-> Val(g, i)]
           T         == {n \in Nat : Upto(n)}
<1>1. 0 \in T
  <2> DEFINE g == [i \in 1..0 |-> 0]
  <2>1. g = [i \in 1..0 |-> Val(g, i)]
    OBVIOUS
  <2> QED BY <2>1
<1>2. ASSUME NEW n \in Nat, n \in T PROVE n + 1 \in T
  <2>1. PICK g : g = [i \in 1..n |-> Val(g, i)]
    BY <1>2
  <2> DEFINE h == [i \in 1..n + 1 |-> IF i = n + 1 THEN Val(g, i) ELSE g[i]]
  <2>2. ASSUME NEW i \in 1..n + 1 PROVE h[i] = Val(h, i)
    <3>1. i # 1 => i - 1 \in 1..n + 1 /\ i - 1 # n + 1
      OBVIOUS
    <3>2. i # 1 => h[i - 1] = g[i - 1]
      BY <3>1
    <3>3. i # n + 1 => g[i] = Val(g, i)
      <4>1. i # n + 1 => i \in 1..n
        OBVIOUS
      <4> QED BY <2>1, <4>1
    <3> QED BY <3>2, <3>3
  <2>3. h = [i \in 1..n + 1 |-> Val(h, i)]
    BY <2>2
  <2> HIDE DEF h
  <2> QED BY <2>3
<1>3. Len(s) + 1 \in T
  <2> HIDE DEF T
  <2> QED BY <1>1, <1>2, NatSets
<1> DEFINE P(g) == g = [i \in 1..Len(s) + 1 |-> Val(g, i)]
<1>4. \E g : P(g)
  BY <1>3
<1>5. Off(s) = CHOOSE g : P(g)
  BY DEF Off
<1> HIDE DEF P
<1>6. P(Off(s))
  BY <1>4, <1>5
<1> QED BY <1>6 DEF P

\* One message begins where the one before it ends.
LEMMA OffStep ==
  ASSUME NEW s \in Scripts
  PROVE  /\ DOMAIN Off(s) = 1..Len(s) + 1
         /\ Off(s)[1] = 0
         /\ \A i \in 1..Len(s) : Off(s)[i + 1] = Off(s)[i] + s[i].hdr + s[i].body
         /\ \A i \in 1..Len(s) + 1 : Off(s)[i] \in Nat
<1>1. Len(s) \in Nat
  BY ScriptIs
<1> DEFINE F(i) == IF i = 1 THEN 0 ELSE Off(s)[i - 1] + s[i - 1].hdr + s[i - 1].body
<1>2. Off(s) = [i \in 1..Len(s) + 1 |-> F(i)]
  BY <1>1, OffIs
<1>3. DOMAIN Off(s) = 1..Len(s) + 1 /\ \A i \in 1..Len(s) + 1 : Off(s)[i] = F(i)
  <2> HIDE DEF F
  <2> QED BY <1>2, Zenon
<1>4. Off(s)[1] = 0
  BY <1>1, <1>3
<1>5. ASSUME NEW i \in 1..Len(s) PROVE Off(s)[i + 1] = Off(s)[i] + s[i].hdr + s[i].body
  <2>1. i + 1 \in 1..Len(s) + 1 /\ i + 1 # 1 /\ (i + 1) - 1 = i
    BY <1>1
  <2> QED BY <1>3, <2>1
<1> DEFINE T == {n \in Nat : n <= Len(s) => Off(s)[n + 1] \in Nat}
<1>6. 0 \in T
  BY <1>4
<1>7. ASSUME NEW n \in Nat, n \in T PROVE n + 1 \in T
  <2> SUFFICES ASSUME n + 1 <= Len(s) PROVE Off(s)[(n + 1) + 1] \in Nat
    OBVIOUS
  <2>1. n + 1 \in 1..Len(s) /\ Off(s)[n + 1] \in Nat
    BY <1>1, <1>7
  <2>2. s[n + 1].hdr \in Nat /\ s[n + 1].body \in Nat
    BY <2>1, ScriptIs
  <2> QED BY <1>5, <2>1, <2>2
<1>8. \A n \in Nat : n \in T
  <2> HIDE DEF T
  <2> QED BY <1>6, <1>7, NatSets
<1>9. ASSUME NEW i \in 1..Len(s) + 1 PROVE Off(s)[i] \in Nat
  <2>1. i - 1 \in Nat /\ i - 1 <= Len(s) /\ (i - 1) + 1 = i
    BY <1>1
  <2> QED BY <1>8, <2>1
<1> QED BY <1>3, <1>4, <1>5, <1>9

\* A later message begins no earlier than where an earlier one ends.
LEMMA OffGrows ==
  ASSUME NEW s \in Scripts, NEW i \in 1..Len(s) + 1, NEW j \in 1..Len(s) + 1, i <= j
  PROVE  Off(s)[i] <= Off(s)[j]
<1>1. Len(s) \in Nat
  BY ScriptIs
<1> DEFINE T == {d \in Nat : i + d <= Len(s) + 1 => Off(s)[i] <= Off(s)[i + d]}
<1>2. 0 \in T
  BY OffStep
<1>3. ASSUME NEW d \in Nat, d \in T PROVE d + 1 \in T
  <2> SUFFICES ASSUME i + (d + 1) <= Len(s) + 1 PROVE Off(s)[i] <= Off(s)[i + (d + 1)]
    OBVIOUS
  <2>1. i + d \in 1..Len(s) /\ i + d \in 1..Len(s) + 1 /\ i + (d + 1) = (i + d) + 1
    BY <1>1
  <2>2. s[i + d].hdr \in Nat /\ s[i + d].body \in Nat
    BY <2>1, ScriptIs
  <2>3. Off(s)[(i + d) + 1] = Off(s)[i + d] + s[i + d].hdr + s[i + d].body
    BY <2>1, OffStep
  <2>4. Off(s)[i] \in Nat /\ Off(s)[i + d] \in Nat
    BY <2>1, OffStep
  <2>5. Off(s)[i] <= Off(s)[i + d]
    BY <1>1, <1>3, <2>1
  <2> QED BY <2>1, <2>2, <2>3, <2>4, <2>5
<1>4. j - i \in T
  <2>1. j - i \in Nat
    BY <1>1
  <2> HIDE DEF T
  <2> QED BY <1>2, <1>3, <2>1, NatSets
<1> QED BY <1>1, <1>4

(***************************************************************************)
(* The inductive invariant.                                                *)
(***************************************************************************)
\* The first k messages of the connection are such as the framing is made for.
RegularUpTo(k) == \A j \in 1..k : j \in DOMAIN Wire => Regular(Wire, j)

\* What was executed is what was sent, and the buffer begins where the next
\* message does; or the connection will not go on.
CutOK ==
  conn # NULL =>
    /\ \A k \in DOMAIN handled : RegularUpTo(k) => handled[k] = [msg |-> k, whole |-> TRUE]
    /\ RegularUpTo(Len(handled)) =>
         /\ Len(handled) <= Len(Wire)
         /\ \/ start = Off(Wire)[Len(handled) + 1]
            \/ pc = "close" \/ (pc \in {"send", "blocked"} /\ ~keep)

\* A message is taken only when all of it has arrived.
TakeOK == pc = "take" => Complete

IInv == TypeOK /\ TakeOK /\ CutOK

LEMMA WireIs == ASSUME TypeOK, conn # NULL PROVE Wire \in Scripts
BY DEF TypeOK, Wire

LEMMA LeastNat ==
  ASSUME NEW S \in SUBSET Nat, S # {}
  PROVE  \E m \in S : \A n \in S : m <= n
<1> DEFINE T == {k \in Nat : \A n \in S : k <= n}
<1>1. 0 \in T
  OBVIOUS
<1>2. PICK k \in Nat : k \in T /\ k + 1 \notin T
  <2> SUFFICES ASSUME \A k \in Nat : k \in T => k + 1 \in T PROVE FALSE
    OBVIOUS
  <2>1. PICK n \in S : TRUE
    OBVIOUS
  <2>2. n + 1 \in T
    <3> HIDE DEF T
    <3> QED BY <1>1, NatSets
  <2> QED BY <2>2
<1>3. PICK n \in S : ~(k + 1 <= n)
  BY <1>2
<1>4. n = k
  BY <1>2, <1>3
<1> QED BY <1>2, <1>4

LEMMA FirstIs ==
  ASSUME TypeOK, conn # NULL, Headers # {}
  PROVE  First \in Headers /\ \A i \in Headers : First <= i
<1>1. Headers \in SUBSET Nat
  BY WireIs, ScriptIs DEF Headers
<1>2. \E m \in Headers : \A n \in Headers : m <= n
  BY <1>1, LeastNat
<1> QED BY <1>2 DEF First, Min

\* Where the header found ends, and that what is taken is in the buffer.
LEMMA TakenIs ==
  ASSUME TypeOK, TakeOK, pc = "take"
  PROVE  /\ First \in 1..Len(Wire) /\ First \in Headers
         /\ start < HdrEnd(Wire, First) /\ HdrEnd(Wire, First) <= start + total
         /\ MsgLen \in Nat \ {0} /\ MsgLen <= total
         /\ Taken \in Nat /\ Taken <= total /\ Taken <= MsgLen
<1>1. conn # NULL /\ Wire \in Scripts /\ Complete
  BY WireIs DEF TypeOK, TakeOK
<1>2. Headers # {} /\ First \in Headers
  BY <1>1, FirstIs DEF Complete
<1>3. First \in DOMAIN Wire /\ start < HdrEnd(Wire, First) /\ HdrEnd(Wire, First) <= start + total
  BY <1>2 DEF Headers
<1>4. DOMAIN Wire = 1..Len(Wire) /\ Len(Wire) \in Nat
  BY <1>1, ScriptIs
<1>5. Wire[First].hdr \in Nat /\ Wire[First].body \in Nat
  BY <1>1, <1>3, <1>4, ScriptIs
<1>6. Off(Wire)[First] \in Nat
  BY <1>1, <1>3, <1>4, OffStep
<1>7. start \in Nat /\ total \in Nat
  BY HttpAssumption DEF TypeOK
<1>8. HdrEnd(Wire, First) \in Nat
  BY <1>5, <1>6 DEF HdrEnd
<1>9. MsgLen \in Nat \ {0} /\ MsgLen <= total
  BY <1>1, <1>3, <1>5, <1>7, <1>8 DEF MsgLen, Complete
<1>10. Taken \in Nat /\ Taken <= total /\ Taken <= MsgLen
  BY <1>7, <1>9, HttpAssumption DEF Taken
<1> QED BY <1>2, <1>3, <1>4, <1>9, <1>10

\* As long as the buffer begins with a message, that one is taken, and no more
\* nor less than it if it is regular.
LEMMA NextOne ==
  ASSUME TypeOK, TakeOK, pc = "take", NEW n \in 1..Len(Wire) + 1, start = Off(Wire)[n]
  PROVE  /\ n \in 1..Len(Wire) /\ First = n
         /\ Regular(Wire, n) => Taken = Wire[n].hdr + Wire[n].body
<1> DEFINE s == Wire
<1>1. conn # NULL /\ s \in Scripts /\ Complete
  BY WireIs DEF TypeOK, TakeOK
<1>2. Len(s) \in Nat /\ DOMAIN s = 1..Len(s)
  BY <1>1, ScriptIs
<1> HIDE DEF s
<1>3. \A i \in 1..Len(s) : s[i].hdr \in Nat \ {0} /\ s[i].body \in Nat /\ s[i].term \in Nat
  BY <1>1, ScriptIs
<1>4. \A i \in 1..Len(s) + 1 : Off(s)[i] \in Nat
  BY <1>1, OffStep
<1>5. First \in 1..Len(s) /\ First \in Headers
  BY TakenIs DEF s
<1>6. n <= First
  <2> SUFFICES ASSUME First < n PROVE FALSE
    BY <1>2, <1>5
  <2>1. First + 1 \in 1..Len(s) + 1 /\ First + 1 <= n /\ n \in 1..Len(s) + 1
    BY <1>2, <1>5 DEF s
  <2>2. Off(s)[First + 1] <= Off(s)[n]
    BY <1>1, <2>1, OffGrows
  <2>3. Off(s)[First + 1] = Off(s)[First] + s[First].hdr + s[First].body
    BY <1>1, <1>5, OffStep
  <2>4. start < Off(s)[First] + s[First].hdr
    BY TakenIs DEF HdrEnd, s
  <2>5. Off(s)[First] \in Nat /\ s[First].hdr \in Nat /\ s[First].body \in Nat
    BY <1>2, <1>3, <1>4, <1>5
  <2> QED BY <2>1, <2>2, <2>3, <2>4, <2>5, <1>4 DEF s
<1>7. n \in 1..Len(s)
  BY <1>2, <1>5, <1>6 DEF s
<1>8. n \in Headers
  <2>1. start < HdrEnd(s, n)
    BY <1>3, <1>4, <1>7 DEF HdrEnd, s
  <2>2. HdrEnd(s, n) <= HdrEnd(s, First)
    <3>1. CASE n = First
      BY <3>1, <1>3, <1>4, <1>5 DEF HdrEnd
    <3>2. CASE n # First
      <4>1. n + 1 \in 1..Len(s) + 1 /\ First \in 1..Len(s) + 1 /\ n + 1 <= First
        BY <1>2, <1>5, <1>6, <1>7, <3>2
      <4>2. Off(s)[n + 1] <= Off(s)[First]
        BY <1>1, <4>1, OffGrows
      <4>3. Off(s)[n + 1] = Off(s)[n] + s[n].hdr + s[n].body
        BY <1>1, <1>7, OffStep
      <4>4. /\ Off(s)[n] \in Nat /\ Off(s)[First] \in Nat
            /\ s[n].hdr \in Nat /\ s[n].body \in Nat /\ s[First].hdr \in Nat
        BY <1>3, <1>4, <1>5, <1>7, <4>1
      <4> QED BY <4>2, <4>3, <4>4 DEF HdrEnd
    <3> QED BY <3>1, <3>2
  <2>3. HdrEnd(s, First) <= start + total
    BY TakenIs DEF s
  <2>4. start + total \in Nat /\ HdrEnd(s, First) \in Nat /\ HdrEnd(s, n) \in Nat
    <3>1. start + total \in Nat
      BY HttpAssumption DEF TypeOK
    <3>2. n \in 1..Len(s) + 1 /\ First \in 1..Len(s) + 1
      BY <1>2, <1>5, <1>7
    <3>3. Off(s)[n] \in Nat /\ Off(s)[First] \in Nat
      BY <1>4, <3>2
    <3>4. s[n].hdr \in Nat /\ s[First].hdr \in Nat
      BY <1>3, <1>5, <1>7
    <3> QED BY <3>1, <3>3, <3>4 DEF HdrEnd
  <2>5. HdrEnd(s, n) <= start + total
    BY <2>2, <2>3, <2>4
  <2> QED BY <1>2, <1>7, <2>1, <2>5 DEF Headers, s
<1>9. First = n
  <2>1. First <= n
    BY <1>1, <1>8, FirstIs
  <2> QED BY <1>2, <1>5, <1>6, <1>7, <2>1
<1>10. ASSUME Regular(s, n) PROVE Taken = s[n].hdr + s[n].body
  <2>1. s[n].hdr \in Nat /\ s[n].body \in Nat /\ s[n].term \in Nat /\ Off(s)[n] \in Nat
    BY <1>3, <1>4, <1>7
  <2>2. s[n].hdr + s[n].body <= ReqMax
    BY <1>10 DEF Regular
  <2>3. CASE s[n].term = 0
    <3>1. MsgLen = s[n].hdr + s[n].body
      BY <1>9, <2>1, <2>3 DEF MsgLen, Chunked, HdrEnd, s
    <3> QED BY <2>1, <2>2, <3>1, HttpAssumption DEF Taken
  <2>4. CASE s[n].term # 0
    <3>1. s[n].term = s[n].body /\ n = Len(s) /\ s[n].term > 0
      BY <1>10, <2>1, <2>4 DEF Regular
    <3>2. MsgLen = total /\ ChunksComplete
      BY <1>1, <1>9, <3>1 DEF MsgLen, Complete, Chunked, s
    <3>3. HdrEnd(s, n) + s[n].body <= start + total
      <4>1. PICK i \in DOMAIN s : /\ i >= First
                                  /\ HdrEnd(s, i) + s[i].term <= start + total
        BY <3>2 DEF ChunksComplete, s
      <4>2. i = n
        BY <1>2, <1>9, <3>1, <4>1
      <4> QED BY <3>1, <4>1, <4>2
    <3>4. start + total <= Off(s)[n + 1]
      <4>1. start + total <= sent[conn] /\ sent[conn] \in Nat /\ sent[conn] <= Length(s)
        BY <1>1 DEF TypeOK, s, Wire
      <4>2. Length(s) \in Nat /\ Length(s) = Off(s)[n + 1]
        BY <1>2, <1>4, <3>1 DEF Length
      <4>3. start + total \in Nat
        BY HttpAssumption DEF TypeOK
      <4> QED BY <4>1, <4>2, <4>3
    <3>5. Off(s)[n + 1] = start + s[n].hdr + s[n].body
      BY <1>1, <1>7, OffStep DEF s
    <3>6. total = s[n].hdr + s[n].body
      <4>1. start \in Nat /\ total \in Nat /\ start = Off(s)[n]
        BY HttpAssumption DEF TypeOK, s
      <4>2. start + s[n].hdr + s[n].body <= start + total
        BY <3>3, <4>1 DEF HdrEnd
      <4>3. start + total <= start + s[n].hdr + s[n].body
        BY <3>4, <3>5
      <4> QED BY <2>1, <4>1, <4>2, <4>3
    <3> QED BY <2>1, <2>2, <3>2, <3>6, HttpAssumption DEF Taken
  <2> QED BY <2>3, <2>4
<1> QED BY <1>7, <1>9, <1>10 DEF s

(***************************************************************************)
(* Types, and that the message to be taken stays complete.                 *)
(***************************************************************************)
LEMMA SizesAre == \A z \in Scripts : Length(z) \in Nat
<1> SUFFICES ASSUME NEW z \in Scripts PROVE Length(z) \in Nat
  OBVIOUS
<1>1. Len(z) + 1 \in 1..Len(z) + 1
  BY ScriptIs
<1> QED BY <1>1, OffStep DEF Length

LEMMA InitTypes == Init => TypeOK /\ TakeOK
<1> SUFFICES ASSUME Init PROVE TypeOK /\ TakeOK
  OBVIOUS
<1>1. /\ sent \in [Clients -> Nat]
      /\ \A c \in Clients : script[c] \in Scripts /\ sent[c] = 0 /\ Length(script[c]) \in Nat
  BY SizesAre DEF Init
<1>2. handled \in Seq([msg : 0..MaxMsgs, whole : BOOLEAN])
  BY DEF Init
<1>3. running \in BOOLEAN /\ keep \in BOOLEAN /\ stream \in BOOLEAN /\ streamed \in BOOLEAN
  BY DEF Init
<1> QED BY <1>1, <1>2, <1>3, HttpAssumption DEF Init, TypeOK, TakeOK

\* The connection, its script and the buffer stay as they are.
Steady == UNCHANGED <<script, conn, buffer>>

LEMMA SteadyWire ==
  ASSUME Steady
  PROVE  Wire' = Wire /\ start' = start /\ total' = total /\ Headers' = Headers
         /\ (Complete => Complete')
<1>1. Wire' = Wire /\ start' = start /\ total' = total
  BY DEF Steady, buffer, Wire
<1>2. Headers' = Headers
  BY <1>1 DEF Headers
<1>3. First' = First
  BY <1>2 DEF First
<1>4. Chunked' <=> Chunked
  BY <1>1, <1>3 DEF Chunked
<1>5. MsgLen' = MsgLen
  BY <1>1, <1>3, <1>4 DEF MsgLen
<1>6. ChunksComplete => ChunksComplete'
  BY <1>1, <1>3 DEF ChunksComplete
<1> QED BY <1>1, <1>2, <1>4, <1>5, <1>6 DEF Complete

LEMMA ClientTypes ==
  ASSUME TypeOK, TakeOK, NEW c \in Clients,
         ClientConnect(c) \/ ClientSend(c) \/ ClientEof(c)
  PROVE  TypeOK' /\ TakeOK'
<1>1. /\ Steady
      /\ UNCHANGED <<pc, keep, stream, handled, streamed>>
  BY DEF ClientConnect, ClientSend, ClientEof, Steady, ghosts, buffer, clients
<1>2. TakeOK'
  BY <1>1, SteadyWire DEF TakeOK
<1>3. eof' \in [Clients -> BOOLEAN] /\ running' \in BOOLEAN
  BY DEF TypeOK, ClientConnect, ClientSend, ClientEof, clients
<1>4. status' \in [Clients -> {"new", "queued", "served", "gone"}]
  BY DEF TypeOK, ClientConnect, ClientSend, ClientEof, clients
<1>5. /\ sent' \in [Clients -> Nat]
      /\ \A d \in Clients : sent'[d] <= Length(script'[d]) /\ sent[d] <= sent'[d]
  <2>1. /\ sent \in [Clients -> Nat]
        /\ \A d \in Clients : sent[d] <= Length(script[d]) /\ Length(script[d]) \in Nat
    BY SizesAre DEF TypeOK
  <2>2. sent' = sent \/ (sent' = [sent EXCEPT ![c] = @ + 1] /\ sent[c] < Length(script[c]))
    BY DEF ClientConnect, ClientSend, ClientEof, clients
  <2>3. script' = script
    BY <1>1 DEF Steady
  <2> QED BY <2>1, <2>2, <2>3
<1> QED BY <1>1, <1>2, <1>3, <1>4, <1>5 DEF TypeOK, Steady, buffer

LEMMA AcceptTypes ==
  ASSUME TypeOK, TakeOK, (\E c \in Clients : Accept(c)) \/ ServeEnd PROVE TypeOK' /\ TakeOK'
<1>1. CASE ServeEnd
  <2>1. conn = NULL
    BY <1>1 DEF ServeEnd, TypeOK
  <2> QED BY <1>1, <2>1 DEF ServeEnd, TypeOK, TakeOK, clients, buffer, ghosts
<1>2. ASSUME NEW c \in Clients, Accept(c) PROVE TypeOK' /\ TakeOK'
  <2>1. handled' \in Seq([msg : 0..MaxMsgs, whole : BOOLEAN])
    BY <1>2 DEF Accept
  <2>2. status' \in [Clients -> {"new", "queued", "served", "gone"}]
    BY <1>2 DEF Accept, TypeOK
  <2>3. start' + total' <= sent'[conn'] /\ total' \in 0..BufMax /\ start' \in Nat
    BY <1>2, HttpAssumption DEF Accept, TypeOK
  <2>4. conn' \in Clients /\ conn' # NULL /\ pc' = "check"
    BY <1>2, HttpAssumption DEF Accept
  <2>5. running' \in BOOLEAN /\ stream' \in BOOLEAN /\ keep' \in BOOLEAN /\ streamed' \in BOOLEAN
    BY <1>2, Zenon DEF Accept, TypeOK
  <2> QED BY <1>2, <2>1, <2>2, <2>3, <2>4, <2>5 DEF Accept, TypeOK, TakeOK
<1> QED BY <1>1, <1>2

LEMMA QuietTypes ==
  ASSUME TypeOK, TakeOK, Check \/ Fill \/ Send \/ Resume PROVE TypeOK' /\ TakeOK'
<1>1. UNCHANGED <<clients, running, conn, buffer, keep, stream, handled>> /\ Steady
  BY DEF Check, Fill, Send, Resume, ghosts, Steady, clients
<1>2. /\ pc \notin {"accept", "returned"}
      /\ pc' \in {"check", "fill", "read", "take", "blocked", "close"}
  BY DEF Check, Fill, Send, Resume, Answered
<1>3. streamed' \in BOOLEAN
  <2>1. CASE UNCHANGED streamed
    BY <2>1, Zenon DEF TypeOK
  <2>2. CASE streamed' = (streamed \/ stream)
    BY <2>2, Zenon
  <2> QED BY <2>1, <2>2 DEF Check, Fill, Send, Resume, Answered, ghosts
<1>4. TakeOK'
  <2>1. CASE Check
    <3>1. pc' = "take" => Complete
      BY <2>1 DEF Check
    <3> QED BY <1>1, <3>1, SteadyWire DEF TakeOK
  <2>2. CASE Fill \/ Send \/ Resume
    BY <2>2 DEF Fill, Send, Resume, Answered, TakeOK
  <2> QED BY <2>1, <2>2
<1> QED BY <1>1, <1>2, <1>3, <1>4 DEF TypeOK, clients, buffer

LEMMA ReadTypes == ASSUME TypeOK, TakeOK, Read PROVE TypeOK' /\ TakeOK'
<1>1. /\ pc = "read" /\ pc' \in {"check", "close"}
      /\ UNCHANGED <<clients, running, conn, start, keep, stream, ghosts>>
  BY DEF Read, AtEof
<1>2. conn \in Clients /\ conn # NULL
  BY <1>1 DEF TypeOK
<1>3. total' \in 0..BufMax /\ start + total' <= sent[conn]
  <2>1. /\ start \in Nat /\ total \in 0..BufMax /\ BufMax \in Nat
        /\ sent[conn] \in Nat /\ start + total <= sent[conn]
    BY <1>2, HttpAssumption DEF TypeOK
  <2>2. CASE UNCHANGED total
    BY <2>1, <2>2
  <2>3. CASE \E n \in 1..Room : n <= Unread /\ total' = total + n
    BY <2>1, <2>3 DEF Room, Unread
  <2> QED BY <2>2, <2>3 DEF Read
<1> QED BY <1>1, <1>2, <1>3 DEF TypeOK, TakeOK, clients, ghosts

LEMMA TakeTypes == ASSUME TypeOK, TakeOK, Take PROVE TypeOK' /\ TakeOK'
<1>1. /\ pc = "take" /\ pc' = "send" /\ UNCHANGED <<clients, running, conn, streamed>>
      /\ start' = start + Taken /\ total' = total - Taken
  BY DEF Take
<1>2. conn \in Clients /\ conn # NULL /\ Wire \in Scripts
  BY <1>1, WireIs DEF TypeOK
<1>3. First \in 1..Len(Wire) /\ Taken \in Nat /\ Taken <= total
  BY <1>1, TakenIs
<1>4. total' \in 0..BufMax /\ start' \in Nat /\ start' + total' <= sent[conn]
  <2>1. /\ start \in Nat /\ total \in 0..BufMax /\ BufMax \in Nat
        /\ sent[conn] \in Nat /\ start + total <= sent[conn]
    BY <1>2, HttpAssumption DEF TypeOK
  <2> QED BY <1>1, <1>3, <2>1
<1>5. Wire[First].keep \in BOOLEAN /\ Wire[First].stream \in BOOLEAN /\ First \in 0..MaxMsgs
  BY <1>2, <1>3, ScriptIs, HttpAssumption
<1>6. keep' \in BOOLEAN /\ stream' \in BOOLEAN
  BY <1>5 DEF Take
<1>7. handled' \in Seq([msg : 0..MaxMsgs, whole : BOOLEAN])
  <2> DEFINE R == [msg : 0..MaxMsgs, whole : BOOLEAN]
  <2>1. handled \in Seq(R)
    BY DEF TypeOK
  <2>2. \E r \in R : handled' = handled \/ handled' = Append(handled, r)
    <3>1. \A w \in BOOLEAN : [msg |-> First, whole |-> w] \in R
      BY <1>5
    <3>2. [msg |-> 0, whole |-> FALSE] \in R
      BY HttpAssumption
    <3> HIDE DEF R
    <3>3. (Off(Wire)[First + 1] <= start + Taken) \in BOOLEAN
      OBVIOUS
    <3> QED BY <3>1, <3>2, <3>3 DEF Take
  <2> HIDE DEF R
  <2>3. handled' \in Seq(R)
    BY <2>1, <2>2
  <2> QED BY <2>3 DEF R
<1> QED BY <1>1, <1>2, <1>4, <1>6, <1>7 DEF TypeOK, TakeOK, clients

LEMMA CloseTypes == ASSUME TypeOK, TakeOK, Drain \/ Close PROVE TypeOK' /\ TakeOK'
<1>1. pc = "close" /\ conn \in Clients /\ conn # NULL
  BY DEF Drain, Close, TypeOK
<1>2. CASE Drain
  <2>1. start' \in Nat /\ start' + total <= sent[conn]
    <3>1. /\ start \in Nat /\ total \in Nat
          /\ sent[conn] \in Nat /\ start + total <= sent[conn]
      BY <1>1, HttpAssumption DEF TypeOK
    <3>2. PICK n \in 1..Unread : start' = start + n
      BY <1>2 DEF Drain
    <3> QED BY <3>1, <3>2 DEF Unread
  <2> QED BY <1>1, <1>2, <2>1 DEF Drain, TypeOK, TakeOK, clients, ghosts
<1>3. CASE Close
  <2>1. /\ start' = 0 /\ total' = 0 /\ total' \in 0..BufMax
        /\ handled' \in Seq([msg : 0..MaxMsgs, whole : BOOLEAN])
    BY <1>3, HttpAssumption DEF Close
  <2>2. status' \in [Clients -> {"new", "queued", "served", "gone"}]
    BY <1>3 DEF Close, TypeOK
  <2>3. running' \in BOOLEAN /\ stream' \in BOOLEAN /\ keep' \in BOOLEAN /\ streamed' \in BOOLEAN
    BY <1>3, Zenon DEF Close, TypeOK
  <2> QED BY <1>3, <2>1, <2>2, <2>3 DEF Close, TypeOK, TakeOK
<1> QED BY <1>2, <1>3

LEMMA TypesKept == ASSUME TypeOK, TakeOK, [Next]_vars PROVE TypeOK' /\ TakeOK'
<1>1. CASE UNCHANGED vars
  <2>1. Steady /\ UNCHANGED pc
    BY <1>1 DEF vars, Steady, clients
  <2>2. TakeOK'
    BY <2>1, SteadyWire DEF TakeOK
  <2> QED BY <1>1, <2>2 DEF vars, TypeOK, clients, buffer, ghosts
<1>2. ASSUME NEW c \in Clients, ClientConnect(c) \/ ClientSend(c) \/ ClientEof(c)
      PROVE  TypeOK' /\ TakeOK'
  BY <1>2, ClientTypes
<1>3. CASE Signal
  <2>1. /\ Steady /\ running' \in BOOLEAN
        /\ UNCHANGED <<clients, pc, conn, buffer, keep, stream, ghosts>>
    BY <1>3 DEF Signal, Steady, clients
  <2>2. TakeOK'
    BY <2>1, SteadyWire DEF TakeOK
  <2> QED BY <2>1, <2>2 DEF TypeOK, clients, buffer, ghosts
<1>4. CASE (\E c \in Clients : Accept(c)) \/ ServeEnd
  BY <1>4, AcceptTypes
<1>5. CASE Check \/ Fill \/ Send \/ Resume
  BY <1>5, QuietTypes
<1>6. CASE Read
  BY <1>6, ReadTypes
<1>7. CASE Take
  BY <1>7, TakeTypes
<1>8. CASE Drain \/ Close
  BY <1>8, CloseTypes
<1> QED BY <1>1, <1>2, <1>3, <1>4, <1>5, <1>6, <1>7, <1>8 DEF Next, Server

(***************************************************************************)
(* The cut.                                                                *)
(***************************************************************************)
\* Nothing that CutOK is about changes, but for where the thread is.
LEMMA SteadyCut ==
  ASSUME CutOK, Steady, UNCHANGED <<handled, keep>>,
         pc = "close" => pc' = "close",
         pc \in {"send", "blocked"} => pc' \in {"send", "blocked"} \/ (~keep => pc' = "close")
  PROVE  CutOK'
<1>1. /\ Wire' = Wire /\ start' = start /\ handled' = handled /\ conn' = conn
      /\ (~keep => ~keep')
  BY SteadyWire DEF Steady
<1>2. \A k : RegularUpTo(k)' <=> RegularUpTo(k)
  BY <1>1 DEF RegularUpTo
<1> QED BY <1>1, <1>2 DEF CutOK

LEMMA AcceptCut == ASSUME TypeOK, NEW c \in Clients, Accept(c) PROVE CutOK'
<1>1. Wire' \in Scripts
  BY DEF Accept, Wire, TypeOK
<1>2. Off(Wire')[1] = 0 /\ Len(Wire') \in Nat
  BY <1>1, OffStep, ScriptIs
<1>3. handled' = <<>> /\ start' = 0 /\ DOMAIN handled' = {} /\ Len(handled') = 0
  BY DEF Accept
<1> QED BY <1>2, <1>3 DEF CutOK

LEMMA TakeCut == ASSUME IInv, Take PROVE CutOK'
<1>1. /\ pc = "take" /\ pc' = "send" /\ conn # NULL /\ Wire' = Wire
      /\ start' = start + Taken
  BY DEF Take, IInv, TypeOK, Wire, clients
<1>2. Wire \in Scripts /\ Len(Wire) \in Nat /\ DOMAIN Wire = 1..Len(Wire)
  BY <1>1, WireIs, ScriptIs DEF IInv
<1>3. \A k : RegularUpTo(k)' <=> RegularUpTo(k)
  BY <1>1 DEF RegularUpTo
<1> DEFINE n == Len(handled)
<1>4. /\ n \in Nat /\ DOMAIN handled = 1..n
      /\ handled \in Seq([msg : 0..MaxMsgs, whole : BOOLEAN])
  BY DEF IInv, TypeOK
<1>5. \A j \in 0..n + 1 : RegularUpTo(n + 1) => RegularUpTo(j)
  BY <1>4 DEF RegularUpTo
<1>6. CASE ~RegularUpTo(n)
  <2>1. ~RegularUpTo(n + 1)
    BY <1>4, <1>5, <1>6
  <2>2. \/ handled' = handled
        \/ \E r : handled' = Append(handled, r)
    BY DEF Take
  <2>3. \/ handled' = handled
        \/ /\ Len(handled') = n + 1 /\ DOMAIN handled' = 1..n + 1
           /\ \A k \in 1..n : handled'[k] = handled[k]
    BY <1>4, <2>2
  <2>4. \A k \in DOMAIN handled' :
          RegularUpTo(k) => k \in DOMAIN handled /\ handled'[k] = handled[k]
    BY <1>4, <2>1, <2>3
  <2>5. ~RegularUpTo(Len(handled'))
    BY <1>6, <2>1, <2>3
  <2> QED BY <1>1, <1>3, <2>4, <2>5 DEF CutOK, IInv
<1>7. CASE RegularUpTo(n)
  <2>1. n + 1 \in 1..Len(Wire) + 1 /\ start = Off(Wire)[n + 1]
    BY <1>1, <1>2, <1>4, <1>7 DEF CutOK, IInv
  <2>2. /\ n + 1 \in 1..Len(Wire) /\ First = n + 1
        /\ Regular(Wire, n + 1) => Taken = Wire[n + 1].hdr + Wire[n + 1].body
    BY <1>1, <2>1, NextOne DEF IInv
  <2>3. /\ Wire[n + 1].hdr \in Nat \ {0} /\ Wire[n + 1].body \in Nat
        /\ Off(Wire)[n + 1] \in Nat
    BY <1>2, <2>1, <2>2, ScriptIs, OffStep
  <2>4. HdrEnd(Wire, First) - start = Wire[n + 1].hdr
    BY <2>1, <2>2, <2>3 DEF HdrEnd
  <2>5. Off(Wire)[First] = start
    BY <2>1, <2>2
  <2>6. CASE Taken >= Wire[n + 1].hdr
    <3>1. handled' = Append(handled, [msg |-> n + 1,
                                      whole |-> Off(Wire)[n + 2] <= start + Taken])
      BY <2>2, <2>5, <2>6, <1>4 DEF Take
    <3>2. /\ Len(handled') = n + 1 /\ DOMAIN handled' = 1..n + 1
          /\ handled'[n + 1] = [msg |-> n + 1, whole |-> Off(Wire)[n + 2] <= start + Taken]
          /\ \A k \in 1..n : handled'[k] = handled[k]
      BY <3>1, <1>4
    <3>3. RegularUpTo(n + 1) => Regular(Wire, n + 1)
      BY <1>2, <1>4, <2>2 DEF RegularUpTo
    <3>4. Off(Wire)[n + 2] = Off(Wire)[n + 1] + Wire[n + 1].hdr + Wire[n + 1].body
      <4>1. Off(Wire)[(n + 1) + 1] = Off(Wire)[n + 1] + Wire[n + 1].hdr + Wire[n + 1].body
        BY <1>2, <2>2, OffStep
      <4>2. (n + 1) + 1 = n + 2
        BY <1>4
      <4> QED BY <4>1, <4>2
    <3>5. Regular(Wire, n + 1) => Off(Wire)[n + 2] = start + Taken
      BY <2>1, <2>2, <2>3, <3>4
    <3>6. Off(Wire)[n + 2] \in Nat
      BY <2>3, <3>4
    <3>7. RegularUpTo(n + 1) => handled'[n + 1] = [msg |-> n + 1, whole |-> TRUE]
      <4>1. Off(Wire)[n + 2] <= Off(Wire)[n + 2]
        BY <3>6
      <4> QED BY <3>2, <3>3, <3>5, <4>1
    <3>8. \A k \in DOMAIN handled' :
            RegularUpTo(k) => handled'[k] = [msg |-> k, whole |-> TRUE]
      <4>1. \A k \in 1..n : RegularUpTo(k) => handled'[k] = [msg |-> k, whole |-> TRUE]
        BY <1>1, <1>4, <3>2 DEF CutOK, IInv
      <4>2. \A k \in 1..n + 1 : k \in 1..n \/ k = n + 1
        BY <1>4
      <4> QED BY <3>2, <3>7, <4>1, <4>2
    <3>9. RegularUpTo(Len(handled')) =>
            Len(handled') <= Len(Wire) /\ start' = Off(Wire)[Len(handled') + 1]
      <4>1. (n + 1) + 1 = n + 2 /\ n + 1 <= Len(Wire)
        BY <1>2, <1>4, <2>2
      <4> QED BY <1>1, <3>2, <3>3, <3>5, <4>1
    <3> QED BY <1>1, <1>3, <3>8, <3>9 DEF CutOK
  <2>7. CASE ~(Taken >= Wire[n + 1].hdr)
    <3>1. handled' = handled /\ keep' = FALSE
      BY <2>2, <2>4, <2>7 DEF Take
    <3>2. n <= Len(Wire)
      BY <1>2, <1>4, <2>2
    <3> QED BY <1>1, <1>3, <3>1, <3>2 DEF CutOK, IInv
  <2> QED BY <2>6, <2>7
<1> QED BY <1>6, <1>7

LEMMA CutKept == ASSUME IInv, [Next]_vars PROVE CutOK'
<1> USE DEF IInv
<1>1. CASE UNCHANGED vars
  BY <1>1, SteadyCut DEF vars, Steady, clients, ghosts
<1>2. ASSUME NEW c \in Clients, ClientConnect(c) \/ ClientSend(c) \/ ClientEof(c)
      PROVE  CutOK'
  BY <1>2, SteadyCut DEF ClientConnect, ClientSend, ClientEof, Steady, ghosts
<1>3. CASE Signal
  BY <1>3, SteadyCut DEF Signal, Steady, clients, ghosts
<1>4. CASE \E c \in Clients : Accept(c)
  BY <1>4, AcceptCut
<1>5. CASE ServeEnd
  <2>1. conn' = NULL
    BY <1>5 DEF ServeEnd, TypeOK
  <2> QED BY <2>1 DEF CutOK
<1>6. CASE Check
  BY <1>6, SteadyCut DEF Check, Steady, clients, ghosts
<1>7. CASE Fill
  BY <1>7, SteadyCut DEF Fill, Steady, clients, ghosts
<1>8. CASE Read
  <2>1. /\ pc = "read" /\ Wire' = Wire /\ start' = start /\ handled' = handled /\ conn' = conn
    BY <1>8 DEF Read, clients, ghosts, Wire
  <2>2. \A k : RegularUpTo(k)' <=> RegularUpTo(k)
    BY <2>1 DEF RegularUpTo
  <2> QED BY <2>1, <2>2 DEF CutOK
<1>9. CASE Take
  BY <1>9, TakeCut
<1>10. CASE Send \/ Resume
  <2>1. /\ Steady /\ UNCHANGED <<handled, keep>> /\ pc \in {"send", "blocked"}
        /\ pc' = "blocked" \/ (~keep => pc' = "close")
    BY <1>10 DEF Send, Resume, Answered, GoesOn, Steady, clients
  <2> QED BY <2>1, SteadyCut
<1>11. CASE Drain
  <2>1. /\ Wire' = Wire /\ handled' = handled /\ conn' = conn /\ pc' = "close" /\ pc = "close"
    BY <1>11 DEF Drain, clients, ghosts, Wire
  <2>2. \A k : RegularUpTo(k)' <=> RegularUpTo(k)
    BY <2>1 DEF RegularUpTo
  <2> QED BY <2>1, <2>2 DEF CutOK
<1>12. CASE Close
  BY <1>12 DEF Close, CutOK
<1> QED BY <1>1, <1>2, <1>3, <1>4, <1>5, <1>6, <1>7, <1>8, <1>9, <1>10, <1>11, <1>12
        DEF Next, Server

LEMMA Inductive == Spec => []IInv
<1>1. Init => IInv
  BY InitTypes DEF Init, IInv, CutOK
<1>2. IInv /\ [Next]_vars => IInv'
  BY TypesKept, CutKept DEF IInv
<1> QED BY <1>1, <1>2, PTL DEF Spec

\* handle_client: every variable keeps its type; no more is ever taken out of
\* buf than is in it, and no more is put into it than it holds.
THEOREM TypeCorrect == Spec => []TypeOK
<1>1. IInv => TypeOK
  BY DEF IInv
<1> QED BY <1>1, Inductive, PTL

\* request_complete, handle_client: the k-th request executed is the k-th
\* message, whole.
THEOREM FramingIsRight == Spec => []Framing
<1>1. IInv => Framing
  BY DEF IInv, CutOK, Framing, RegularUpTo
<1> QED BY <1>1, Inductive, PTL
=============================================================================
