----------------------------- MODULE LinkProofs -----------------------------
(***************************************************************************)
(* Theorems about Link, for every way TCP may cut the stream, every set of *)
(* calls and every size of the buffers: the types, and that both ends stay *)
(* inside the buffers they receive into.                                   *)
(***************************************************************************)
EXTENDS Link, FiniteSetTheorems, SequenceTheorems, WellFoundedInduction, TLAPS

(***************************************************************************)
(* Places in sequences.                                                    *)
(***************************************************************************)
\* A set of naturals has a least element: the ground on which a search that
\* stops at the first match is known to stop somewhere.
LEMMA Least ==
  ASSUME NEW T \in SUBSET Nat, T # {}
  PROVE  \E x \in T : \A y \in T : x <= y
<1> DEFINE R == OpToRel(<, Nat)
<1>1. IsWellFoundedOn(R, Nat)
  BY NatLessThanWellFounded
<1>2. PICK x \in T : \A y \in T : ~ (<<y, x>> \in R)
  <2> HIDE DEF R
  <2> QED BY <1>1, WFMin
<1>3. \A y \in T : <<y, x>> \in R <=> y < x
  BY DEF OpToRel
<1>4. \A y \in T : ~ (y < x)
  <2> HIDE DEF R
  <2> QED BY <1>2, <1>3
<1> QED BY <1>4, x \in Nat, \A y \in T : y \in Nat

\* First finds the first place, or the one beyond the end.
LEMMA FirstPlace ==
  ASSUME NEW S, NEW s \in Seq(Byte), NEW i \in Nat \ {0}, i <= Len(s) + 1
  PROVE  /\ First(s, i, S) \in i .. Len(s) + 1
         /\ First(s, i, S) <= Len(s) => s[First(s, i, S)] \in S
         /\ \A k \in i .. First(s, i, S) - 1 : s[k] \notin S
<1> DEFINE T == {j \in i .. Len(s) + 1 : j <= Len(s) => s[j] \in S}
<1>1. T \subseteq Nat /\ Len(s) + 1 \in T
  OBVIOUS
<1>2. PICK x \in T : \A y \in T : x <= y
  <2> HIDE DEF T
  <2> QED BY <1>1, Least
<1>3. \A k \in i .. x - 1 : s[k] \notin S
  BY <1>2
<1>4. \E j \in i .. Len(s) + 1 :
        /\ j <= Len(s) => s[j] \in S
        /\ \A k \in i .. j - 1 : s[k] \notin S
  BY <1>2, <1>3
<1> QED BY <1>4 DEF First

\* Wherever a word begins in front of a zero, it ends there at the latest.
LEMMA WordEnds ==
  ASSUME NEW b \in Seq(Byte), NEW z \in 1 .. Len(b), b[z] = NUL, NEW i \in 1 .. z
  PROVE  WordEnd(b, i) \in i .. z
<1> DEFINE e == First(b, i, Blank \cup {NUL})
<1>1. e \in i .. Len(b) + 1 /\ \A k \in i .. e - 1 : b[k] \notin Blank \cup {NUL}
  BY FirstPlace
<1>2. e <= z
  <2> SUFFICES ASSUME e > z PROVE FALSE
    BY <1>1
  <2>1. z \in i .. e - 1
    BY <1>1
  <2> QED BY <1>1, <2>1
<1> QED BY <1>1, <1>2 DEF WordEnd

\* So does the search for the next word.
LEMMA NextWord ==
  ASSUME NEW b \in Seq(Byte), NEW z \in 1 .. Len(b), b[z] = NUL, NEW i \in 1 .. z
  PROVE  LET j == put_null_terminator_unknown_size(b, i) IN
         /\ j \in i .. z /\ WordEnd(b, i) <= j
         /\ b[j] \notin Blank /\ \A k \in WordEnd(b, i) .. j - 1 : b[k] \in Blank
<1> DEFINE e == WordEnd(b, i)
           T == {j \in e .. z : b[j] \notin Blank}
<1>1. e \in i .. z
  BY WordEnds
<1>2. T \subseteq Nat /\ z \in T
  BY <1>1 DEF Blank, Newline, NUL, SP, CR, LF
<1>3. PICK x \in T : \A y \in T : x <= y
  <2> HIDE DEF T
  <2> QED BY <1>2, Least
<1>4. x \in e .. Len(b) /\ b[x] \notin Blank /\ \A k \in e .. x - 1 : b[k] \in Blank
  BY <1>1, <1>3
<1> DEFINE j == put_null_terminator_unknown_size(b, i)
<1>5. j \in e .. Len(b) /\ b[j] \notin Blank /\ \A k \in e .. j - 1 : b[k] \in Blank
  <2> HIDE DEF e
  <2>1. j = CHOOSE p \in e .. Len(b) : b[p] \notin Blank /\ \A k \in e .. p - 1 : b[k] \in Blank
    BY DEF put_null_terminator_unknown_size, e
  <2> HIDE DEF j
  <2> QED BY <1>4, <2>1
<1>6. j <= z
  <2> SUFFICES ASSUME j > z PROVE FALSE
    BY <1>1, <1>5
  <2>1. z \in e .. j - 1
    BY <1>1, <1>5
  <2> QED BY <1>2, <1>5, <2>1
<1> QED BY <1>1, <1>5, <1>6

\* The arguments of a command line, and where its payload is looked for.
LEMMA LineFields ==
  ASSUME NEW b \in Seq(Byte), NUL \in Range(b)
  PROVE  /\ Line(b).key \in Seq(Byte) /\ Line(b).arg1 \in Seq(Byte) /\ Line(b).arg2 \in Seq(Byte)
         /\ Line(b).rest \in 1 .. Len(b)
<1>1. PICK z \in 1 .. Len(b) : b[z] = NUL
  BY DEF Range
<1> DEFINE after == [i \in DOMAIN b |-> put_null_terminator_unknown_size(b, i)]
           word  == [i \in DOMAIN b |-> WordAt(b, i)]
<1>2. \A i \in 1 .. z : after[i] \in 1 .. z
  BY <1>1, NextWord
<1>3. \A i \in 1 .. z : word[i] \in Seq(Byte)
  <2> TAKE i \in 1 .. z
  <2>1. WordEnd(b, i) \in i .. z
    BY <1>1, WordEnds
  <2>2. SubSeq(b, i, WordEnd(b, i) - 1) \in Seq(Byte)
    BY <2>1
  <2> QED BY <2>2 DEF WordAt
<1>4. /\ Line(b).key = word[after[1]]
      /\ Line(b).arg1 = word[after[after[1]]]
      /\ Line(b).arg2 = word[after[after[after[1]]]]
      /\ Line(b).rest = after[after[after[after[1]]]]
  BY DEF Line
<1> HIDE DEF after, word
<1> QED BY <1>2, <1>3, <1>4
-----------------------------------------------------------------------------
(***************************************************************************)
(* Bytes.                                                                  *)
(***************************************************************************)
LEMMA NumberIsDigit == \A w : Number(w) \in 0 .. 9
BY DEF Number, IsDigit, Digit

\* What recv returns, and what it leaves.
LEMMA ReceivedIs ==
  ASSUME NEW s \in Seq(Byte), NEW most \in Int, NEW chunk \in Received(s, most)
  PROVE  /\ chunk \in Seq(Byte) /\ Len(chunk) \in 1 .. most /\ Len(chunk) <= Len(s)
         /\ Rest(s, Len(chunk)) \in Seq(Byte)
<1>1. PICK n \in (1 .. most) \cap (1 .. Len(s)) : chunk = SubSeq(s, 1, n)
  BY DEF Received
<1>2. chunk \in Seq(Byte) /\ Len(chunk) = n
  BY <1>1
<1>3. SubSeq(s, n + 1, Len(s)) \in Seq(Byte)
  BY <1>1
<1> QED BY <1>1, <1>2, <1>3 DEF Rest

LEMMA Joined ==
  ASSUME NEW s \in Seq(Byte), NEW t \in Seq(Byte)
  PROVE  s \o t \in Seq(Byte) /\ Len(s \o t) = Len(s) + Len(t)
OBVIOUS

\* memcpy inside its target.
LEMMA CopyIs ==
  ASSUME NEW s \in Seq(Byte), NEW t \in Seq(Byte), NEW at \in Nat, at + Len(t) <= Len(s)
  PROVE  Copy(s, at, t) \in Seq(Byte) /\ Len(Copy(s, at, t)) = Len(s)
<1> DEFINE head == SubSeq(s, 1, at)
           tail == SubSeq(s, at + Len(t) + 1, Len(s))
<1>1. head \in Seq(Byte) /\ Len(head) = at
  OBVIOUS
<1>2. tail \in Seq(Byte) /\ Len(tail) = Len(s) - (at + Len(t))
  OBVIOUS
<1>3. Copy(s, at, t) = (head \o t) \o tail
  BY DEF Copy, Rest
<1> HIDE DEF head, tail
<1>4. head \o t \in Seq(Byte) /\ Len(head \o t) = at + Len(t)
  BY <1>1
<1> DEFINE front == head \o t
<1> HIDE DEF front
<1>5. front \o tail \in Seq(Byte) /\ Len(front \o tail) = Len(front) + Len(tail)
  BY <1>2, <1>4, Joined DEF front
<1>6. Len(s) \in Nat /\ Len(t) \in Nat
  OBVIOUS
<1> QED BY <1>2, <1>3, <1>4, <1>5, <1>6 DEF front

LEMMA ZerosIs ==
  ASSUME NEW n \in Nat
  PROVE  Zeros(n) \in Seq(Byte) /\ Len(Zeros(n)) = n
BY DEF Zeros, NUL, Byte

\* Every reply is written as bytes.
LEMMA ReplyBytes ==
  ASSUME NEW reply \in Replies
  PROVE  RESPONSE_WRITE(reply) \in Seq(Byte)
<1>1. reply.code \in Nat /\ reply.body \in Seq(Byte) /\ Len(reply.body) \in Nat
  BY DEF Replies, Codes
<1>2. reply.type # NoType => reply.type \in Nat
  BY DEF Replies
<1> DEFINE type == IF reply.type = NoType THEN <<>> ELSE <<SP, Digit(reply.type)>>
<1>3. Header(reply) \in Seq(Byte)
  <2>1. <<reply.code, SP, TEXT>> \in Seq(Byte) /\ <<Digit(Len(reply.body))>> \in Seq(Byte)
    BY <1>1 DEF Digit, SP, TEXT, Byte
  <2>2. type \in Seq(Byte) /\ CRLF \in Seq(Byte)
    BY <1>2 DEF Digit, CRLF, CR, LF, SP, Byte
  <2>3. Header(reply) = <<reply.code, SP, TEXT>> \o CRLF \o <<Digit(Len(reply.body))>> \o type \o CRLF
    BY DEF Header
  <2> HIDE DEF type
  <2> DEFINE line == <<reply.code, SP, TEXT>>
             length == <<Digit(Len(reply.body))>>
  <2> HIDE DEF line, length
  <2>4. line \o CRLF \in Seq(Byte)
    BY <2>1, <2>2 DEF line
  <2>5. (line \o CRLF) \o length \in Seq(Byte)
    BY <2>1, <2>4 DEF length
  <2>6. ((line \o CRLF) \o length) \o type \in Seq(Byte)
    BY <2>2, <2>5
  <2>7. (((line \o CRLF) \o length) \o type) \o CRLF \in Seq(Byte)
    BY <2>2, <2>6
  <2> QED BY <2>3, <2>7 DEF line, length
<1> QED BY <1>1, <1>3 DEF RESPONSE_WRITE, NUL, CRLF, CR, LF, Byte

\* A sequence over a set is one over every larger set.
LEMMA WiderSeq ==
  ASSUME NEW S, NEW T, S \subseteq T, NEW s \in Seq(S)
  PROVE  s \in Seq(T)
<1> DEFINE n == Len(s)
<1>1. s \in [1 .. n -> S] /\ n \in Nat
  OBVIOUS
<1>2. s \in [1 .. n -> T]
  <2> HIDE DEF n
  <2> QED BY <1>1
<1> HIDE DEF n
<1> QED BY <1>1, <1>2

\* What a call is made of.
LEMMA CallIs ==
  ASSUME NEW c \in Calls
  PROVE  /\ c.cmd \in {SET, ADD, GET, DEL, INC, DEC, STT, VER, BYE} /\ c.cmd \in Nat
         /\ c.key \in Seq(Byte) /\ \A i \in 1 .. Len(c.key) : c.key[i] # NUL
         /\ c.type \in 0 .. 2 /\ c.data \in Seq(Byte) /\ Len(c.data) \in Nat /\ Len(c.data) <= 9
<1>1. /\ c.cmd \in {SET, ADD, GET, DEL, INC, DEC, STT, VER, BYE}
      /\ c.key \in Seq(Byte \ {NUL})
      /\ c.type \in 0 .. 2 /\ c.data \in Seq(Byte) /\ Len(c.data) <= 9
  BY CallsAssumption
<1>2. c.cmd \in Nat
  BY <1>1 DEF SET, ADD, GET, DEL, INC, DEC, STT, VER, BYE
<1>3. c.key \in Seq(Byte)
  BY <1>1, Byte \ {NUL} \subseteq Byte, WiderSeq
<1>4. \A i \in 1 .. Len(c.key) : c.key[i] # NUL
  BY <1>1
<1>5. Len(c.data) \in Nat
  BY <1>1
<1> QED BY <1>1, <1>2, <1>3, <1>4, <1>5

\* The numbers of a request are digits.
LEMMA ArgumentsAre ==
  ASSUME NEW c \in Calls, NEW args \in Arguments(c, ArgLists)
  PROVE  /\ args \in Seq(0 .. 9) /\ args \in Seq(Nat)
         /\ Len(args) >= 1 => args[1] \in 0 .. 9
         /\ Len(args) >= 2 => args[2] \in 0 .. 9
<1>1. args \in Seq(0 .. 9)
  BY CallsAssumption DEF Arguments
<1>2. args \in Seq(Nat)
  BY <1>1, 0 .. 9 \subseteq Nat, WiderSeq
<1>3. Len(args) \in Nat /\ \A i \in 1 .. Len(args) : args[i] \in 0 .. 9
  BY <1>1
<1> QED BY <1>1, <1>2, <1>3

\* And so is every request.
LEMMA RequestBytes ==
  ASSUME NEW c \in Calls, NEW args \in Arguments(c, ArgLists)
  PROVE  Request(c, args) \in Seq(Byte)
<1>1. /\ c.cmd \in Nat /\ c.key \in Seq(Byte) /\ c.type \in Nat
      /\ c.data \in Seq(Byte) /\ Len(c.data) \in Nat
  BY CallIs
<1>2. args \in Seq(Nat)
  BY ArgumentsAre
<1>3. Numerals(args) \in Seq(Byte)
  <2>1. CASE args = <<>>
    BY <2>1 DEF Numerals
  <2>2. CASE args # <<>> /\ Len(args) = 1
    BY <1>2, <2>2 DEF Numerals, Digit, SP, Byte
  <2>3. CASE args # <<>> /\ Len(args) # 1
    <3>1. Len(args) \in Nat /\ Len(args) # 0
      BY <1>2, <2>3
    <3> DEFINE n == Len(args)
    <3>2. 1 \in 1 .. n /\ 2 \in 1 .. n
      <4>1. n \in Nat /\ n # 0 /\ n # 1
        BY <2>3, <3>1
      <4> HIDE DEF n
      <4> QED BY <4>1
    <3>3. args[1] \in Nat /\ args[2] \in Nat
      BY <1>2, <3>2, ElementOfSeq
    <3>4. /\ <<SP, Digit(args[1])>> \in Seq(Byte)
          /\ <<SP, Digit(args[2])>> \in Seq(Byte)
      BY <3>3 DEF Digit, SP, Byte
    <3> QED BY <2>3, <3>4, Joined DEF Numerals
  <2> QED BY <2>1, <2>2, <2>3
<1>4. /\ <<c.cmd, SP>> \in Seq(Byte) /\ <<c.cmd>> \in Seq(Byte) /\ CRLF \in Seq(Byte)
      /\ <<SP, Digit(c.type), SP, Digit(Len(c.data))>> \in Seq(Byte)
  BY <1>1 DEF Digit, SP, CRLF, CR, LF, Byte
<1> QED BY <1>1, <1>3, <1>4 DEF Request
-----------------------------------------------------------------------------
(***************************************************************************)
(* The inductive invariant: what TypeOK, ChunksFit and ReplyFits say of    *)
(* each end, and what keeps them true.                                     *)
(***************************************************************************)
Odds == {"refused", "welcome", "key", "realloc", "split", "va_arg", "bye", "late", "stopped"}

WireOK ==
  /\ inbox \in Seq(Byte) /\ outbox \in Seq(Byte) /\ closed \in BOOLEAN
  /\ odd \subseteq Odds

\* A chunk is never longer than the buffer, so doubling always makes room.
CommandOK(c) ==
  /\ c \in [text : Seq(Byte), len : Nat, free : Int, chunk : Nat]
  /\ Len(c.text) = c.len
  /\ 0 < c.free /\ c.free <= c.len
  /\ RecvLength <= c.len

PutOK(p) ==
  p \in [add : BOOLEAN, key : Seq(Byte), type : Int, payload : Seq(Byte), left : Nat]

\* STT counts the keys: there are finitely many.
StoreOK(s) == s \in [DOMAIN s -> Values] /\ IsFiniteSet(DOMAIN s)

SessionOK ==
  /\ session \in {"recv", "handle", "payload", "ended"}
  /\ CommandOK(command)
  /\ PutOK(put)
  /\ session = "payload" => put.left <= Len(put.payload) /\ Len(put.payload) >= 2
  /\ StoreOK(store)
  /\ answered \in Replies \cup {NULL}

Parses ==
  [got : Seq(Byte), line : 0 .. 2, start : Nat, stale : BOOLEAN, payload : Nat,
   code : {0} \cup Codes, body : Nat, size : Nat, type : Nat]

\* The parser is at most one byte beyond what was received, and the payload
\* begins behind a line.
ParseOK(r) ==
  /\ r \in Parses
  /\ r.start \in 1 .. Len(r.got) + 1
  /\ r.line = 2 => r.body >= 1 /\ r.body + r.payload = Len(r.got) + 1

Outcomes == [ok : BOOLEAN, type : Nat, body : Seq(Byte)]

LibraryOK ==
  /\ lib \in {"connect", "lost", "idle", "call", "gone"}
  /\ call \in Calls \cup {NoCall}
  /\ lib = "call" => call \in Calls
  /\ ParseOK(rx)
  /\ buffer_size \in Nat /\ room \in Nat
  /\ Len(rx.got) < buffer_size
  /\ "realloc" \notin odd => room = buffer_size
  /\ result \in Outcomes

IInv == WireOK /\ SessionOK /\ LibraryOK /\ torn \in BOOLEAN

LEMMA SessionKept ==
  ASSUME SessionOK, UNCHANGED state
  PROVE  SessionOK'
BY DEF SessionOK, state

LEMMA LibraryKept ==
  ASSUME LibraryOK, UNCHANGED client, odd \subseteq odd'
  PROVE  LibraryOK'
BY DEF LibraryOK, client
-----------------------------------------------------------------------------
(***************************************************************************)
(* The session's buffers and handlers.                                     *)
(***************************************************************************)
LEMMA FreshIs == CommandOK(Fresh) /\ PutOK(NoPut)
<1>1. Zeros(RecvLength) \in Seq(Byte) /\ Len(Zeros(RecvLength)) = RecvLength
  BY ZerosIs, RecvLengthAssumption
<1>2. CommandOK(Fresh)
  BY <1>1, RecvLengthAssumption DEF CommandOK, Fresh
<1>3. PutOK(NoPut)
  BY DEF PutOK, NoPut, NUL
<1> QED BY <1>2, <1>3

\* What realloc leaves in the new half.
LEMMA RoomIs ==
  ASSUME NEW t \in Seq(Byte), NEW n \in Nat, NEW fresh \in Nat
  PROVE  /\ t \o [i \in 1 .. n |-> fresh] \in Seq(Byte)
         /\ Len(t \o [i \in 1 .. n |-> fresh]) = Len(t) + n
<1> DEFINE half == [i \in 1 .. n |-> fresh]
<1>1. half \in Seq(Byte) /\ Len(half) = n
  BY DEF Byte
<1> HIDE DEF half
<1>2. t \o half \in Seq(Byte) /\ Len(t \o half) = Len(t) + Len(half)
  BY <1>1, Joined
<1> QED BY <1>1, <1>2 DEF half

\* Doubling once is enough, as a chunk is no longer than the buffer.
LEMMA Doubling ==
  ASSUME NEW len \in Nat, NEW free \in Int, NEW n \in Nat,
         n >= 1, n <= len, 0 < free, free <= len
  PROVE  /\ len + len = 2 * len
         /\ free - n <= 0 =>
              /\ 0 < free - n + len /\ free - n + len <= 2 * len
              /\ 2 * len - (free - n + len) - n \in Nat
              /\ 2 * len - (free - n + len) - n + n <= 2 * len
         /\ free - n > 0 =>
              /\ free - n <= len /\ len - (free - n) - n \in Nat
              /\ len - (free - n) - n + n <= len
OBVIOUS

\* A chunk lands behind the last one, and a byte is left over.
LEMMA AppendedFits ==
  ASSUME NEW c, CommandOK(c), NEW chunk \in Seq(Byte), Len(chunk) \in 1 .. RecvLength,
         NEW fresh \in Nat
  PROVE  CommandOK(Appended(c, chunk, fresh))
<1>1. PICK text \in Seq(Byte), len \in Nat, free \in Int, extra \in Nat :
        c = [text |-> text, len |-> len, free |-> free, chunk |-> extra]
  BY DEF CommandOK
<1>2. Len(text) = len /\ 0 < free /\ free <= len /\ RecvLength <= len
  BY <1>1 DEF CommandOK
<1>3. PICK n \in Nat : n = Len(chunk) /\ 1 <= n /\ n <= RecvLength
  BY RecvLengthAssumption
<1>4. n <= len
  BY <1>2, <1>3, RecvLengthAssumption
<1>5. /\ len + len = 2 * len
      /\ free - n <= 0 =>
           /\ 0 < free - n + len /\ free - n + len <= 2 * len
           /\ 2 * len - (free - n + len) - n \in Nat
           /\ 2 * len - (free - n + len) - n + n <= 2 * len
      /\ free - n > 0 =>
           /\ free - n <= len /\ len - (free - n) - n \in Nat
           /\ len - (free - n) - n + n <= len
  BY <1>2, <1>3, <1>4, Doubling
<1>6. CASE free - n <= 0
  <2> DEFINE grown == text \o [i \in 1 .. len |-> fresh]
             size  == 2 * len
             left  == free - n + len
             more  == Copy(grown, size - left - n, chunk)
  <2>1. Appended(c, chunk, fresh) = [text |-> more, len |-> size, free |-> left, chunk |-> extra]
    <3>1. c.text = text /\ c.len = len /\ c.free = free /\ Grows(c, n)
      BY <1>1, <1>6 DEF Grows
    <3>2. Appended(c, chunk, fresh) = [c EXCEPT !.text = more, !.len = size, !.free = left]
      <4> HIDE <1>1
      <4> QED BY <1>3, <3>1 DEF Appended
    <3> HIDE DEF more, size, left
    <3> QED BY <1>1, <3>2
  <2>2. grown \in Seq(Byte) /\ Len(grown) = size
    <3>1. /\ text \o [i \in 1 .. len |-> fresh] \in Seq(Byte)
          /\ Len(text \o [i \in 1 .. len |-> fresh]) = Len(text) + len
      BY RoomIs
    <3> HIDE DEF grown, size
    <3>2. grown \in Seq(Byte) /\ Len(grown) = Len(text) + len
      BY <3>1 DEF grown
    <3>3. size = len + len
      BY <1>5 DEF size
    <3> QED BY <1>2, <3>2, <3>3
  <2>3. /\ size \in Nat /\ RecvLength <= size /\ left \in Int
        /\ 0 < left /\ left <= size /\ size - left - n \in Nat /\ size - left - n + n <= size
    BY <1>2, <1>5, <1>6, RecvLengthAssumption
  <2> HIDE DEF grown, size, left
  <2>4. more \in Seq(Byte) /\ Len(more) = size
    BY <1>3, <2>2, <2>3, CopyIs
  <2> HIDE DEF more
  <2> QED BY <2>1, <2>3, <2>4 DEF CommandOK
<1>7. CASE free - n > 0
  <2> DEFINE left == free - n
             more == Copy(text, len - left - n, chunk)
  <2>1. Appended(c, chunk, fresh) = [text |-> more, len |-> len, free |-> left, chunk |-> extra]
    <3>1. c.text = text /\ c.len = len /\ c.free = free /\ ~ Grows(c, n) /\ free - n + 0 = left
      BY <1>1, <1>7 DEF Grows
    <3>2. Appended(c, chunk, fresh) = [c EXCEPT !.text = more, !.len = len, !.free = left]
      <4> HIDE <1>1
      <4> QED BY <1>3, <3>1 DEF Appended
    <3> HIDE DEF more, left
    <3> QED BY <1>1, <3>2
  <2>2. left \in Int /\ 0 < left /\ left <= len /\ len - left - n \in Nat /\ len - left - n + n <= len
    BY <1>5, <1>7
  <2> HIDE DEF left
  <2>3. more \in Seq(Byte) /\ Len(more) = len
    BY <1>2, <1>3, <2>2, CopyIs
  <2> HIDE DEF more
  <2> QED BY <1>2, <2>1, <2>2, <2>3 DEF CommandOK
<1> QED BY <1>6, <1>7

\* Trimming clears bytes, and moves none.
LEMMA TrimmedFits ==
  ASSUME NEW c, CommandOK(c)
  PROVE  CommandOK(Trimmed(c))
<1> DEFINE received == c.len - c.free
           text == [i \in DOMAIN c.text |->
                     IF i <= received /\ \A j \in i .. received : c.text[j] \in Newline
                       THEN NUL ELSE c.text[i]]
<1>1. text \in Seq(Byte) /\ Len(text) = Len(c.text)
  <2> DEFINE n == Len(c.text)
  <2>1. c.text \in [1 .. n -> Nat] /\ n \in Nat /\ DOMAIN c.text = 1 .. n
    BY DEF CommandOK, Byte
  <2>2. text \in [1 .. n -> Nat]
    <3> HIDE DEF n
    <3> QED BY <2>1 DEF NUL
  <2> HIDE DEF text, n
  <2>3. text \in Seq(Nat) /\ Len(text) = n
    BY <2>1, <2>2
  <2> QED BY <2>3 DEF n, Byte
<1>2. Trimmed(c) = [c EXCEPT !.text = text]
  BY DEF Trimmed
<1> HIDE DEF text
<1> QED BY <1>1, <1>2 DEF CommandOK

LEMMA ChunkIs ==
  ASSUME NEW chunk \in Seq(Byte), LF \in Range(chunk)
  PROVE  ChunkOf(chunk) \in Nat
<1>1. PICK z \in 1 .. Len(chunk) : chunk[z] = LF
  BY DEF Range
<1>2. /\ First(chunk, 1, {LF}) \in 1 .. Len(chunk) + 1
      /\ \A k \in 1 .. First(chunk, 1, {LF}) - 1 : chunk[k] \notin {LF}
  BY FirstPlace
<1> DEFINE end == First(chunk, 1, {LF})
<1>3. end <= Len(chunk)
  <2> HIDE DEF end
  <2> SUFFICES ASSUME end > Len(chunk) PROVE FALSE
    BY <1>2 DEF end
  <2>1. z \in 1 .. end - 1
    BY <1>1, <1>2 DEF end
  <2> QED BY <1>1, <1>2, <2>1 DEF end
<1> QED BY <1>2, <1>3 DEF ChunkOf

LEMMA OkIs ==
  ASSUME NEW type \in {NoType} \cup Nat, NEW body \in Seq(Byte)
  PROVE  Ok(type, body) \in Replies
BY DEF Ok, Replies, Codes

LEMMA RepliesAre ==
  /\ Done \in Replies /\ BadRequest \in Replies /\ NotFound \in Replies
  /\ KeyExists \in Replies /\ ServerError \in Replies /\ Ok(NoType, <<TEXT>>) \in Replies
<1>1. <<TEXT>> \in Seq(Byte) /\ <<>> \in Seq(Byte)
  BY DEF TEXT, Byte
<1> QED BY <1>1 DEF Done, Ok, BadRequest, NotFound, KeyExists, ServerError, Replies, Codes

LEMMA GetIs ==
  ASSUME NEW s, StoreOK(s), NEW key
  PROVE  memuncached_get(s, key) \in Replies
<1>1. CASE key \in DOMAIN s
  <2>1. s[key].type \in Nat /\ s[key].body \in Seq(Byte)
    BY <1>1 DEF StoreOK, Values
  <2>2. Ok(s[key].type, s[key].body) \in Replies
    BY <2>1, OkIs
  <2> QED BY <1>1, <2>2 DEF memuncached_get
<1>2. CASE key \notin DOMAIN s
  BY <1>2, RepliesAre DEF memuncached_get
<1> QED BY <1>1, <1>2

LEMMA WithIs ==
  ASSUME NEW s, StoreOK(s), NEW key, NEW value \in Values
  PROVE  StoreOK(With(s, key, value)) /\ StoreOK(Without(s, key))
<1>1. IsFiniteSet(DOMAIN s \cup {key}) /\ IsFiniteSet(DOMAIN s \ {key})
  BY FS_AddElement, FS_RemoveElement DEF StoreOK
<1>2. DOMAIN With(s, key, value) = DOMAIN s \cup {key} /\ DOMAIN Without(s, key) = DOMAIN s \ {key}
  BY DEF With, Without
<1>3. With(s, key, value) \in [DOMAIN s \cup {key} -> Values]
  BY DEF With, StoreOK
<1>4. Without(s, key) \in [DOMAIN s \ {key} -> Values]
  BY DEF Without, StoreOK
<1> QED BY <1>1, <1>2, <1>3, <1>4 DEF StoreOK

LEMMA IncIs ==
  ASSUME NEW s, StoreOK(s), NEW key, NEW by \in Int, NEW initial \in Nat
  PROVE  StoreOK(memuncached_inc(s, key, by, initial))
<1>1. CASE key \in DOMAIN s /\ s[key].type # 2
  <2> DEFINE digit == Digit((Number(s[key].body) + by) % 10)
             value == [s[key] EXCEPT !.body = <<digit>>]
  <2>1. digit \in Byte
    BY NumberIsDigit DEF Digit, Byte
  <2> HIDE DEF digit
  <2>2. value \in Values
    <3>1. s[key] \in [type : Nat, body : Seq(Byte)] /\ <<digit>> \in Seq(Byte)
      BY <1>1, <2>1 DEF StoreOK, Values
    <3> QED BY <3>1 DEF Values
  <2>3. memuncached_inc(s, key, by, initial) = With(s, key, value)
    BY <1>1 DEF memuncached_inc, digit
  <2> HIDE DEF value
  <2> QED BY <2>2, <2>3, WithIs
<1>2. CASE ~ (key \in DOMAIN s /\ s[key].type # 2)
  <2> DEFINE value == [type |-> 0, body |-> <<Digit(initial)>>]
  <2>1. value \in Values
    BY DEF Values, Digit, Byte
  <2>2. memuncached_inc(s, key, by, initial) = With(s, key, value)
    BY <1>2 DEF memuncached_inc
  <2> HIDE DEF value
  <2> QED BY <2>1, <2>2, WithIs
<1> QED BY <1>1, <1>2

LEMMA SttIs ==
  ASSUME NEW s, StoreOK(s)
  PROVE  memuncached_stt(s) \in Replies
<1> DEFINE keys == Cardinality(DOMAIN s)
           body == <<Digit(1), LF, Digit(keys)>>
<1>1. keys \in Nat
  BY FS_CardinalityType DEF StoreOK
<1> HIDE DEF keys
<1>2. body \in Seq(Byte)
  BY <1>1 DEF Digit, LF, Byte
<1>3. memuncached_stt(s) = Ok(NoType, body)
  BY DEF memuncached_stt, keys
<1> HIDE DEF body
<1> QED BY <1>2, <1>3, OkIs

LEMMA HandledIs ==
  ASSUME NEW line, NEW s, StoreOK(s)
  PROVE  Handled(line, s).reply \in Replies /\ StoreOK(Handled(line, s).store)
<1> DEFINE offset  == IF line.arg1 = <<>> THEN 1 ELSE Number(line.arg1)
           initial == IF line.arg2 = <<>> THEN 1 ELSE Number(line.arg2)
           counted == memuncached_inc(s, line.key, IF line.cmd = INC THEN offset ELSE -offset, initial)
<1>1. StoreOK(counted)
  <2>1. offset \in Nat /\ initial \in Nat
    BY NumberIsDigit
  <2> HIDE DEF offset, initial
  <2>2. (IF line.cmd = INC THEN offset ELSE -offset) \in Int
    BY <2>1
  <2> QED BY <2>1, <2>2, IncIs
<1>2. StoreOK(Without(s, line.key))
  <2>1. [type |-> 0, body |-> <<>>] \in Values
    BY DEF Values
  <2> QED BY <2>1, WithIs
<1>3. CASE line.cmd = GET
  <2>1. Handled(line, s) = [store |-> s, reply |-> memuncached_get(s, line.key)]
    BY <1>3 DEF Handled, GET, DEL, INC, DEC, STT
  <2> QED BY <2>1, GetIs
<1>4. CASE line.cmd = DEL
  <2>1. Handled(line, s) = [store |-> Without(s, line.key), reply |-> memuncached_get(s, line.key)]
    BY <1>4 DEF Handled, GET, DEL, INC, DEC, STT
  <2> QED BY <1>2, <2>1, GetIs
<1>5. CASE line.cmd \in {INC, DEC}
  <2>1. Handled(line, s) = [store |-> counted, reply |-> memuncached_get(counted, line.key)]
    BY <1>5 DEF Handled, GET, DEL, INC, DEC, STT
  <2> HIDE DEF counted
  <2> QED BY <1>1, <2>1, GetIs
<1>6. CASE line.cmd = STT
  BY <1>6, SttIs DEF Handled, GET, DEL, INC, DEC, STT
<1>7. CASE line.cmd \notin {GET, DEL, INC, DEC, STT}
  BY <1>7, RepliesAre DEF Handled
<1> QED BY <1>3, <1>4, <1>5, <1>6, <1>7
-----------------------------------------------------------------------------
(***************************************************************************)
(* The session's steps.                                                    *)
(***************************************************************************)
BothOK == WireOK /\ SessionOK

LEMMA Written ==
  ASSUME BothOK, NEW reply \in Replies, Write(reply)
  PROVE  outbox' \in Seq(Byte) /\ answered' \in Replies
<1>1. RESPONSE_WRITE(reply) \in Seq(Byte)
  BY ReplyBytes
<1>2. outbox \o RESPONSE_WRITE(reply) \in Seq(Byte)
  BY <1>1, Joined DEF BothOK, WireOK
<1> QED BY <1>2 DEF Write, BothOK, WireOK

\* The end of a turn: whatever was answered, the session starts afresh.
LEMMA TurnEnds ==
  ASSUME BothOK, Continue, UNCHANGED <<inbox, closed>>,
         odd' \subseteq Odds, odd \subseteq odd', outbox' \in Seq(Byte),
         StoreOK(store'), answered' \in Replies \cup {NULL}
  PROVE  BothOK' /\ odd \subseteq odd'
<1>1. CommandOK(command') /\ PutOK(put')
  BY FreshIs DEF Continue
<1>2. WireOK'
  BY DEF BothOK, WireOK
<1>3. SessionOK'
  BY <1>1 DEF SessionOK, Continue
<1> QED BY <1>2, <1>3 DEF BothOK

LEMMA Stops ==
  ASSUME BothOK, NEW what, Stop(what)
  PROVE  BothOK' /\ odd \subseteq odd'
<1>1. WireOK'
  BY DEF BothOK, WireOK, Stop
<1>2. SessionOK'
  BY SessionKept DEF BothOK, Stop
<1> QED BY <1>1, <1>2 DEF BothOK, Stop

LEMMA RecvKeeps ==
  ASSUME BothOK, Recv
  PROVE  BothOK' /\ odd \subseteq odd'
<1>0. PICK chunk \in Received(inbox, RecvLength) :
        \E fresh \in Unwritten(command, Len(chunk)) :
        /\ inbox' = Rest(inbox, Len(chunk))
        /\ \/ /\ LF \notin Range(chunk) /\ session' = "recv"
              /\ command' = Appended(command, chunk, fresh)
           \/ /\ LF \in Range(chunk) /\ session' = "handle"
              /\ command' = [Trimmed(Appended(command, chunk, fresh)) EXCEPT !.chunk = ChunkOf(chunk)]
  BY DEF Recv
<1>1. PICK fresh \in Unwritten(command, Len(chunk)) :
        /\ inbox' = Rest(inbox, Len(chunk))
        /\ \/ /\ LF \notin Range(chunk) /\ session' = "recv"
              /\ command' = Appended(command, chunk, fresh)
           \/ /\ LF \in Range(chunk) /\ session' = "handle"
              /\ command' = [Trimmed(Appended(command, chunk, fresh)) EXCEPT !.chunk = ChunkOf(chunk)]
  BY <1>0
<1>2. /\ chunk \in Seq(Byte) /\ Len(chunk) \in 1 .. RecvLength
      /\ Rest(inbox, Len(chunk)) \in Seq(Byte)
  BY ReceivedIs, RecvLengthAssumption DEF BothOK, WireOK
<1>3. fresh \in Nat
  BY DEF Unwritten, NUL, JUNK
<1> DEFINE more == Appended(command, chunk, fresh)
<1>4. CommandOK(more)
  BY <1>2, <1>3, AppendedFits DEF BothOK, SessionOK
<1> HIDE DEF more
<1>5. LF \in Range(chunk) => CommandOK([Trimmed(more) EXCEPT !.chunk = ChunkOf(chunk)])
  <2> SUFFICES ASSUME LF \in Range(chunk)
               PROVE  CommandOK([Trimmed(more) EXCEPT !.chunk = ChunkOf(chunk)])
    OBVIOUS
  <2>1. ChunkOf(chunk) \in Nat
    BY <1>2, ChunkIs
  <2>2. CommandOK(Trimmed(more))
    BY <1>4, TrimmedFits
  <2> QED BY <2>1, <2>2 DEF CommandOK
<1>6. CommandOK(command') /\ session' \in {"recv", "handle"}
  BY <1>1, <1>4, <1>5 DEF more
<1>7. WireOK'
  BY <1>1, <1>2 DEF BothOK, WireOK, Recv
<1>8. SessionOK'
  BY <1>6 DEF BothOK, SessionOK, Recv
<1> QED BY <1>7, <1>8 DEF BothOK, Recv

LEMMA ReallocFailsKeeps ==
  ASSUME BothOK, ReallocFails
  PROVE  BothOK' /\ odd \subseteq odd'
<1>1. PICK chunk \in Received(inbox, RecvLength) : inbox' = Rest(inbox, Len(chunk))
  BY DEF ReallocFails
<1>2. inbox' \in Seq(Byte)
  BY <1>1, ReceivedIs, RecvLengthAssumption DEF BothOK, WireOK
<1>3. outbox' \in Seq(Byte) /\ answered' \in Replies
  BY RepliesAre, Written DEF ReallocFails
<1>4. CommandOK(command') /\ PutOK(put')
  BY FreshIs DEF ReallocFails, Continue
<1>5. WireOK'
  BY <1>2, <1>3 DEF BothOK, WireOK, ReallocFails, Odds
<1>6. SessionOK'
  BY <1>3, <1>4 DEF BothOK, SessionOK, ReallocFails, Continue
<1> QED BY <1>5, <1>6 DEF BothOK, ReallocFails

LEMMA DropKeeps ==
  ASSUME BothOK, Drop
  PROVE  BothOK' /\ odd \subseteq odd'
BY TurnEnds DEF Drop, wire, BothOK, WireOK, SessionOK

\* SET and ADD begin: what came with the line is inside the command buffer and
\* fits the payload buffer, or the model stops.
LEMMA StartPutKeeps ==
  ASSUME BothOK, session = "handle", NUL \in Range(command.text),
         NEW line, line = Line(command.text), Acceptable(line), line.cmd \in {SET, ADD},
         StartPut(line)
  PROVE  BothOK' /\ odd \subseteq odd'
<1> DEFINE length == Number(line.arg2)
           chunk  == command.chunk
           last   == line.rest + chunk - 1
           over   == last > command.len \/ chunk > length + 2
<1>1. CASE over
  BY <1>1, Stops DEF StartPut
<1>2. CASE ~ over
  <2>1. /\ command.text \in Seq(Byte) /\ Len(command.text) = command.len
        /\ chunk \in Nat /\ command.len \in Nat
    BY DEF BothOK, SessionOK, CommandOK
  <2>2. /\ line.key \in Seq(Byte) /\ line.arg1 \in Seq(Byte)
        /\ line.rest \in 1 .. Len(command.text)
    BY <2>1, LineFields
  <2>3. length \in Nat
    BY NumberIsDigit
  <2> DEFINE begun == SubSeq(command.text, line.rest, last)
             bytes == Copy(Zeros(length + 2), 0, begun)
             type  == line.arg1[1] - Digit(0)
  <2> HIDE DEF length, chunk
  <2>4. last <= command.len /\ chunk <= length + 2
    BY <1>2, <2>1, <2>2, <2>3
  <2>5. begun \in Seq(Byte) /\ Len(begun) = chunk
    <3>1. PICK i \in Nat, text \in Seq(Byte) : i = line.rest /\ text = command.text /\ 1 <= i
      BY <2>1, <2>2
    <3>2. PICK j \in Int : j = i + chunk - 1 /\ j <= Len(text) /\ Len(text) \in Nat
      BY <2>1, <2>4, <3>1
    <3>3. SubSeq(text, i, j) \in Seq(Byte) /\ Len(SubSeq(text, i, j)) = chunk
      <4>1. \A k \in i .. j : text[k] \in Byte
        BY <3>1, <3>2
      <4>2. /\ SubSeq(text, i, j) \in Seq(Byte)
            /\ Len(SubSeq(text, i, j)) = IF i <= j THEN j - i + 1 ELSE 0
        BY <3>1, <4>1, SubSeqProperties
      <4>3. (IF i <= j THEN j - i + 1 ELSE 0) = chunk
        BY <2>1, <3>1, <3>2
      <4> QED BY <4>2, <4>3
    <3>4. last = j
      BY <3>1, <3>2
    <3> QED BY <3>1, <3>3, <3>4
  <2>6. Zeros(length + 2) \in Seq(Byte) /\ Len(Zeros(length + 2)) = length + 2
    BY <2>3, ZerosIs
  <2> HIDE DEF begun
  <2>7. bytes \in Seq(Byte) /\ Len(bytes) = length + 2
    BY <2>4, <2>5, <2>6, CopyIs
  <2>8. type \in Int
    <3>1. line.arg1 # <<>>
      BY DEF Acceptable, SET, ADD, INC, DEC, GET, DEL, BYE, STT, VER
    <3>2. line.arg1[1] \in Byte
      BY <2>2, <3>1
    <3> QED BY <3>2 DEF Digit, Byte
  <2>9. /\ put' = [add |-> line.cmd = ADD, key |-> line.key, type |-> type,
                   payload |-> bytes, left |-> length + 2 - chunk]
        /\ session' = "payload"
        /\ UNCHANGED <<wire, command, store, answered>>
    BY <1>2 DEF StartPut, length, chunk, begun
  <2> HIDE DEF bytes, type
  <2>10. length + 2 - chunk \in Nat /\ length + 2 - chunk <= length + 2 /\ length + 2 >= 2
    BY <2>1, <2>3, <2>4
  <2>11. PutOK(put') /\ put'.left <= Len(put'.payload) /\ Len(put'.payload) >= 2
    BY <2>2, <2>7, <2>8, <2>9, <2>10 DEF PutOK
  <2>12. WireOK'
    BY <2>9 DEF BothOK, WireOK, wire
  <2>13. SessionOK'
    BY <2>9, <2>11 DEF BothOK, SessionOK
  <2> QED BY <2>9, <2>12, <2>13 DEF BothOK, wire
<1> QED BY <1>1, <1>2

LEMMA RefuseKeeps ==
  ASSUME BothOK, NEW line, Refuse(line)
  PROVE  BothOK' /\ odd \subseteq odd'
<1>1. outbox' \in Seq(Byte) /\ answered' \in Replies
  BY RepliesAre, Written DEF Refuse
<1>2. odd' \subseteq Odds /\ odd \subseteq odd'
  BY DEF Refuse, Odds, BothOK, WireOK
<1>3. StoreOK(store')
  BY DEF Refuse, BothOK, SessionOK
<1> QED BY <1>1, <1>2, <1>3, TurnEnds DEF Refuse

LEMMA ServeKeeps ==
  ASSUME BothOK, NEW line, Serve(line)
  PROVE  BothOK' /\ odd \subseteq odd'
<1>1. Handled(line, store).reply \in Replies /\ StoreOK(Handled(line, store).store)
  BY HandledIs DEF BothOK, SessionOK
<1>2. outbox' \in Seq(Byte) /\ answered' \in Replies
  BY <1>1, Written DEF Serve
<1>3. StoreOK(store')
  BY <1>1 DEF Serve
<1>4. odd' \subseteq Odds /\ odd \subseteq odd'
  BY DEF Serve, BothOK, WireOK
<1> QED BY <1>2, <1>3, <1>4, TurnEnds DEF Serve

LEMMA ByeKeeps ==
  ASSUME BothOK, memuncached_bye
  PROVE  BothOK' /\ odd \subseteq odd'
<1>1. outbox' \in Seq(Byte) /\ answered' \in Replies
  BY RepliesAre, Written DEF memuncached_bye
<1>2. WireOK'
  BY <1>1 DEF BothOK, WireOK, memuncached_bye
<1>3. SessionOK'
  BY <1>1 DEF BothOK, SessionOK, memuncached_bye
<1> QED BY <1>2, <1>3 DEF BothOK, memuncached_bye

LEMMA CommandKeeps ==
  ASSUME BothOK, handle_command
  PROVE  BothOK' /\ odd \subseteq odd'
<1> DEFINE b == command.text
           line == Line(b)
<1>1. CASE NUL \notin Range(b) /\ Stop("unterminated")
  BY <1>1, Stops
<1>2. CASE b[1] = NUL /\ EmptyLine
  <2>1. CASE Stop("underread")
    BY <2>1, Stops
  <2>2. CASE Continue /\ UNCHANGED <<wire, store, answered>>
    BY <2>2, TurnEnds DEF wire, BothOK, WireOK, SessionOK
  <2> QED BY <1>2, <2>1, <2>2 DEF EmptyLine
<1>3. CASE /\ NUL \in Range(b) /\ session = "handle"
           /\ \/ ~ Acceptable(line) /\ Refuse(line)
              \/ /\ Acceptable(line)
                 /\ \/ line.cmd \in {SET, ADD} /\ StartPut(line)
                    \/ line.cmd = BYE /\ memuncached_bye
                    \/ line.cmd \notin {SET, ADD, BYE} /\ Serve(line)
  <2> HIDE DEF line
  <2>1. CASE Refuse(line)
    BY <2>1, RefuseKeeps
  <2>2. CASE Acceptable(line) /\ line.cmd \in {SET, ADD} /\ StartPut(line)
    BY <1>3, <2>2, StartPutKeeps DEF line
  <2>3. CASE memuncached_bye
    BY <2>3, ByeKeeps
  <2>4. CASE Serve(line)
    BY <2>4, ServeKeeps
  <2> QED BY <1>3, <2>1, <2>2, <2>3, <2>4
<1> QED BY <1>1, <1>2, <1>3 DEF handle_command

\* A payload's chunks land inside its buffer.
LEMMA RecvPayloadKeeps ==
  ASSUME BothOK, RecvPayload
  PROVE  BothOK' /\ odd \subseteq odd'
<1>1. PICK chunk \in Received(inbox, put.left) :
        /\ inbox' = Rest(inbox, Len(chunk))
        /\ put' = [put EXCEPT !.left = @ - Len(chunk),
                              !.payload = Copy(@, Len(@) - put.left, chunk)]
  BY DEF RecvPayload
<1>2. PICK add \in BOOLEAN, key \in Seq(Byte), type \in Int, payload \in Seq(Byte), left \in Nat :
        put = [add |-> add, key |-> key, type |-> type, payload |-> payload, left |-> left]
  BY DEF BothOK, SessionOK, PutOK
<1>3. left <= Len(payload) /\ Len(payload) >= 2
  BY <1>2 DEF BothOK, SessionOK, RecvPayload
<1>4. /\ chunk \in Seq(Byte) /\ Len(chunk) \in 1 .. left
      /\ inbox' \in Seq(Byte)
  BY <1>1, <1>2, ReceivedIs DEF BothOK, WireOK
<1> DEFINE more == Copy(payload, Len(payload) - left, chunk)
<1>5. more \in Seq(Byte) /\ Len(more) = Len(payload)
  <2>1. Len(payload) - left \in Nat /\ Len(payload) - left + Len(chunk) <= Len(payload)
    BY <1>3, <1>4
  <2> QED BY <1>4, <2>1, CopyIs
<1>6. put' = [add |-> add, key |-> key, type |-> type, payload |-> more, left |-> left - Len(chunk)]
  BY <1>1, <1>2
<1> HIDE DEF more
<1>7. left - Len(chunk) \in Nat /\ left - Len(chunk) <= left /\ Len(payload) \in Nat
  BY <1>4
<1>8. PutOK(put') /\ put'.left <= Len(put'.payload) /\ Len(put'.payload) >= 2
  BY <1>3, <1>5, <1>6, <1>7 DEF PutOK
<1>9. WireOK'
  BY <1>4 DEF BothOK, WireOK, RecvPayload
<1>10. SessionOK'
  BY <1>8 DEF BothOK, SessionOK, RecvPayload
<1> QED BY <1>9, <1>10 DEF BothOK, RecvPayload

LEMMA PayloadFailsKeeps ==
  ASSUME BothOK, PayloadFails
  PROVE  BothOK' /\ odd \subseteq odd'
<1>1. outbox' \in Seq(Byte) /\ answered' \in Replies
  BY RepliesAre, Written DEF PayloadFails
<1> QED BY <1>1, TurnEnds DEF PayloadFails, BothOK, WireOK, SessionOK

LEMMA SetKeeps ==
  ASSUME BothOK, memuncached_set
  PROVE  BothOK' /\ odd \subseteq odd'
<1>1. outbox' \in Seq(Byte) /\ answered' \in Replies
  BY RepliesAre, Written DEF memuncached_set
<1>2. Data \in Seq(Byte)
  <2>1. put.payload \in Seq(Byte) /\ Len(put.payload) >= 2
    BY DEF memuncached_set, BothOK, SessionOK, PutOK
  <2>2. Len(put.payload) - 2 \in 0 .. Len(put.payload)
    BY <2>1
  <2> QED BY <2>1, <2>2 DEF Data
<1>3. put.type \in 0 .. 2 => Value \in Values
  <2>1. <<Digit(Number(Data))>> \in Seq(Byte)
    BY NumberIsDigit DEF Digit, Byte
  <2> QED BY <1>2, <2>1 DEF Value, Values
<1>4. StoreOK(store')
  <2>1. CASE UNCHANGED store
    BY <2>1 DEF BothOK, SessionOK
  <2>2. CASE put.type \in 0 .. 2 /\ store' = With(store, put.key, Value)
    BY <1>3, <2>2, WithIs DEF BothOK, SessionOK
  <2>3. CASE store' = Without(store, put.key)
    <3>1. [type |-> 0, body |-> <<>>] \in Values
      BY DEF Values
    <3> QED BY <2>3, <3>1, WithIs DEF BothOK, SessionOK
  <2> QED BY <2>1, <2>2, <2>3 DEF memuncached_set
<1> QED BY <1>1, <1>4, TurnEnds DEF memuncached_set, BothOK, WireOK

\* Whatever the session does, it keeps to its buffers.
LEMMA SessionSteps ==
  ASSUME BothOK, handle_connection \/ ReallocFails \/ PayloadFails
  PROVE  BothOK' /\ odd \subseteq odd'
BY RecvKeeps, DropKeeps, CommandKeeps, RecvPayloadKeeps, SetKeeps, ReallocFailsKeeps,
   PayloadFailsKeeps DEF handle_connection
-----------------------------------------------------------------------------
(***************************************************************************)
(* The reply's parser.                                                     *)
(***************************************************************************)
\* What a parse is made of, for the provers.
LEMMA ParseParts ==
  ASSUME NEW r, ParseOK(r)
  PROVE  \E got \in Seq(Byte), line \in 0 .. 2, start \in Nat, stale \in BOOLEAN, payload \in Nat,
            code \in {0} \cup Codes, body \in Nat, size \in Nat, type \in Nat :
           /\ r = [got |-> got, line |-> line, start |-> start, stale |-> stale, payload |-> payload,
                   code |-> code, body |-> body, size |-> size, type |-> type]
           /\ start \in 1 .. Len(got) + 1
           /\ line = 2 => body >= 1 /\ body + payload = Len(got) + 1
BY DEF ParseOK, Parses

LEMMA NoReplyIs == ParseOK(NoReply) /\ Len(NoReply.got) = 0
BY DEF ParseOK, Parses, NoReply

LEMMA MoreIs ==
  ASSUME NEW r, ParseOK(r), NEW chunk \in Seq(Byte)
  PROVE  ParseOK(More(r, chunk)) /\ Len(More(r, chunk).got) = Len(r.got) + Len(chunk)
<1>1. PICK got \in Seq(Byte), line \in 0 .. 2, start \in Nat, stale \in BOOLEAN, payload \in Nat,
           code \in {0} \cup Codes, body \in Nat, size \in Nat, type \in Nat :
        /\ r = [got |-> got, line |-> line, start |-> start, stale |-> stale, payload |-> payload,
                code |-> code, body |-> body, size |-> size, type |-> type]
        /\ start \in 1 .. Len(got) + 1
        /\ line = 2 => body >= 1 /\ body + payload = Len(got) + 1
  BY ParseParts
<1> DEFINE all == got \o chunk
<1>2. all \in Seq(Byte) /\ Len(all) = Len(got) + Len(chunk)
  BY Joined
<1>3. Len(got) \in Nat /\ Len(chunk) \in Nat
  OBVIOUS
<1>4. r.got = got /\ r.line = line /\ r.payload = payload
  BY <1>1
<1>5. CASE line = 2
  <2>1. PICK counted \in Nat : counted = payload + Len(chunk)
    BY <1>3
  <2>2. More(r, chunk) = [r EXCEPT !.got = all, !.payload = counted]
    BY <1>4, <1>5, <2>1 DEF More
  <2> HIDE DEF all
  <2>3. More(r, chunk) =
          [got |-> all, line |-> line, start |-> start, stale |-> stale,
           payload |-> counted, code |-> code, body |-> body, size |-> size, type |-> type]
    BY <1>1, <2>2
  <2>4. PICK n \in Nat : n = Len(all) /\ n = Len(got) + Len(chunk)
    BY <1>2, <1>3
  <2>5. start \in 1 .. n + 1 /\ body >= 1 /\ body + counted = n + 1
    <3>1. start \in 1 .. Len(got) + 1 /\ body >= 1 /\ body + payload = Len(got) + 1
      BY <1>1, <1>5
    <3>2. PICK g \in Nat, k \in Nat : g = Len(got) /\ k = Len(chunk)
      BY <1>3
    <3>3. start \in 1 .. g + 1 /\ body + payload = g + 1 /\ counted = payload + k /\ n = g + k
      BY <2>1, <2>4, <3>1, <3>2
    <3> QED BY <3>1, <3>3
  <2> DEFINE m == More(r, chunk)
  <2> HIDE DEF m
  <2>6. ParseOK(m)
    <3>1. m \in Parses
      BY <1>2, <2>3 DEF m, Parses
    <3>2. m.got = all /\ m.start = start /\ m.body = body /\ m.payload = counted
      BY <2>3 DEF m
    <3> QED BY <2>4, <2>5, <3>1, <3>2 DEF ParseOK
  <2> QED BY <1>2, <1>4, <2>3, <2>6 DEF m
<1>6. CASE line # 2
  <2>1. More(r, chunk) = [r EXCEPT !.got = all, !.payload = payload]
    BY <1>4, <1>6 DEF More
  <2> HIDE DEF all
  <2>2. More(r, chunk) =
          [got |-> all, line |-> line, start |-> start, stale |-> stale,
           payload |-> payload, code |-> code, body |-> body, size |-> size, type |-> type]
    BY <1>1, <2>1
  <2>3. start \in 1 .. Len(all) + 1
    <3>1. PICK g \in Nat, k \in Nat : g = Len(got) /\ k = Len(chunk)
      BY <1>3
    <3>2. start \in 1 .. g + 1 /\ Len(all) = g + k
      BY <1>1, <1>2, <3>1
    <3> QED BY <3>2
  <2> DEFINE m == More(r, chunk)
  <2> HIDE DEF m
  <2>4. ParseOK(m)
    <3>1. m \in Parses
      BY <1>2, <2>2 DEF m, Parses
    <3>2. m.got = all /\ m.start = start /\ m.line = line
      BY <2>2 DEF m
    <3> QED BY <1>6, <2>3, <3>1, <3>2 DEF ParseOK
  <2> QED BY <1>2, <1>4, <2>2, <2>4 DEF m
<1> QED BY <1>5, <1>6

\* Writing a zero moves no byte, and neither does a second one.
LEMMA ZeroIs ==
  ASSUME NEW got \in Seq(Byte), NEW i
  PROVE  [got EXCEPT ![i] = NUL] \in Seq(Byte) /\ Len([got EXCEPT ![i] = NUL]) = Len(got)
<1> DEFINE n == Len(got)
           one == [got EXCEPT ![i] = NUL]
<1>1. got \in [1 .. n -> Nat] /\ n \in Nat
  BY DEF Byte
<1>2. one \in [1 .. n -> Nat]
  <2> HIDE DEF n
  <2> QED BY <1>1 DEF NUL
<1> HIDE DEF one
<1>3. one \in Seq(Nat) /\ Len(one) = n
  <2> HIDE DEF n
  <2> QED BY <1>1, <1>2 DEF n
<1> QED BY <1>3 DEF one, Byte

LEMMA ZeroedIs ==
  ASSUME NEW got \in Seq(Byte), NEW i, NEW j
  PROVE  /\ [got EXCEPT ![i] = NUL, ![j] = NUL] \in Seq(Byte)
         /\ Len([got EXCEPT ![i] = NUL, ![j] = NUL]) = Len(got)
<1> DEFINE one == [got EXCEPT ![i] = NUL]
<1>1. one \in Seq(Byte) /\ Len(one) = Len(got)
  BY ZeroIs
<1> HIDE DEF one
<1>2. [one EXCEPT ![j] = NUL] \in Seq(Byte) /\ Len([one EXCEPT ![j] = NUL]) = Len(one)
  BY <1>1, ZeroIs
<1> QED BY <1>1, <1>2 DEF one

LEMMA StatusLineIs ==
  ASSUME NEW r, ParseOK(r)
  PROVE  ParseOK(StatusLine(r)) /\ Len(StatusLine(r).got) = Len(r.got)
<1>1. PICK got \in Seq(Byte), line \in 0 .. 2, start \in Nat, stale \in BOOLEAN, payload \in Nat,
           code \in {0} \cup Codes, body \in Nat, size \in Nat, type \in Nat :
        /\ r = [got |-> got, line |-> line, start |-> start, stale |-> stale, payload |-> payload,
                code |-> code, body |-> body, size |-> size, type |-> type]
        /\ start \in 1 .. Len(got) + 1
        /\ line = 2 => body >= 1 /\ body + payload = Len(got) + 1
  BY ParseParts
<1> DEFINE i    == End(r)
           cut  == [r.got EXCEPT ![i - 1] = NUL, ![r.start + 1] = NUL]
           code1 == IF cut[r.start] \in Codes THEN cut[r.start] ELSE 0
<1>2. CASE r.line # 0 \/ i > Len(r.got)
  <2>1. StatusLine(r) = r
    BY <1>2 DEF StatusLine
  <2> QED BY <2>1
<1>3. CASE ~ (r.line # 0 \/ i > Len(r.got))
  <2>1. StatusLine(r) = [r EXCEPT !.line = 1, !.got = cut, !.start = i + 1, !.code = code1]
    BY <1>3 DEF StatusLine
  <2>2. r.got = got /\ r.start = start /\ r.line = line
    BY <1>1
  <2>3. i \in start .. Len(got) + 1 /\ i <= Len(got)
    BY <1>1, <1>3, <2>2, FirstPlace DEF End
  <2>4. cut \in Seq(Byte) /\ Len(cut) = Len(got)
    BY <2>2, ZeroedIs
  <2>5. code1 \in {0} \cup Codes
    OBVIOUS
  <2> HIDE DEF i, cut, code1
  <2>6. i + 1 \in Nat /\ i + 1 \in 1 .. Len(cut) + 1
    BY <1>1, <2>3, <2>4
  <2>7. StatusLine(r) =
          [got |-> cut, line |-> 1, start |-> i + 1, stale |-> stale,
           payload |-> payload, code |-> code1, body |-> body, size |-> size, type |-> type]
    BY <1>1, <2>1
  <2>8. ParseOK(StatusLine(r))
    BY <2>4, <2>5, <2>6, <2>7 DEF ParseOK, Parses
  <2> QED BY <2>2, <2>4, <2>7, <2>8
<1> QED BY <1>2, <1>3

LEMMA LengthLineIs ==
  ASSUME NEW r, ParseOK(r)
  PROVE  ParseOK(LengthLine(r)) /\ Len(LengthLine(r).got) = Len(r.got)
<1>1. PICK got \in Seq(Byte), line \in 0 .. 2, start \in Nat, stale \in BOOLEAN, payload \in Nat,
           code \in {0} \cup Codes, body \in Nat, size \in Nat, type \in Nat :
        /\ r = [got |-> got, line |-> line, start |-> start, stale |-> stale, payload |-> payload,
                code |-> code, body |-> body, size |-> size, type |-> type]
        /\ start \in 1 .. Len(got) + 1
        /\ line = 2 => body >= 1 /\ body + payload = Len(got) + 1
  BY ParseParts
<1> DEFINE i     == End(r)
           blank == Max({j \in r.start .. i - 1 : r.got[j] = SP} \cup {0})
           cut   == [r.got EXCEPT ![i - 1] = NUL, ![blank] = NUL]
           type1 == IF blank = 0 THEN 0 ELSE Number(Rest(cut, blank))
           size1 == Number(Rest(cut, r.start - 1))
<1>2. CASE r.line # 1 \/ i > Len(r.got)
  <2>1. LengthLine(r) = r
    BY <1>2 DEF LengthLine
  <2> QED BY <2>1
<1>3. CASE ~ (r.line # 1 \/ i > Len(r.got))
  <2>1. LengthLine(r) = [r EXCEPT !.line = 2, !.got = cut, !.start = i + 1, !.body = i + 1,
                           !.type = type1, !.size = size1, !.payload = Len(cut) - i]
    BY <1>3 DEF LengthLine
  <2>2. r.got = got /\ r.start = start /\ r.line = line
    BY <1>1
  <2>3. i \in start .. Len(got) + 1 /\ i <= Len(got)
    BY <1>1, <1>3, <2>2, FirstPlace DEF End
  <2> HIDE DEF blank
  <2>4. cut \in Seq(Byte) /\ Len(cut) = Len(got)
    BY <2>2, ZeroedIs
  <2>5. type1 \in Nat /\ size1 \in Nat
    BY NumberIsDigit
  <2> HIDE DEF i, cut, type1, size1
  <2>6. i + 1 \in Nat /\ i + 1 >= 1 /\ i + 1 \in 1 .. Len(cut) + 1
    BY <1>1, <2>3, <2>4
  <2>7. Len(cut) - i \in Nat /\ i + 1 + (Len(cut) - i) = Len(cut) + 1
    BY <1>1, <2>3, <2>4
  <2>8. LengthLine(r) =
          [got |-> cut, line |-> 2, start |-> i + 1, stale |-> stale,
           payload |-> Len(cut) - i, code |-> code, body |-> i + 1, size |-> size1, type |-> type1]
    BY <1>1, <2>1
  <2>9. ParseOK(LengthLine(r))
    BY <2>4, <2>5, <2>6, <2>7, <2>8 DEF ParseOK, Parses
  <2> QED BY <2>2, <2>4, <2>8, <2>9
<1> QED BY <1>2, <1>3

LEMMA OutcomeIs ==
  ASSUME NEW cmd, NEW code, NEW type \in Nat, NEW body \in Seq(Byte)
  PROVE  Outcome(cmd, code, type, body) \in Outcomes
BY DEF Outcome, Outcomes, Failed

\* The body a call returns lies inside what was received.
LEMMA ParsedIs ==
  ASSUME NEW r, ParseOK(r), Enough(r)
  PROVE  Parsed(r) \in Outcomes
<1>1. PICK got \in Seq(Byte), line \in 0 .. 2, start \in Nat, stale \in BOOLEAN, payload \in Nat,
           code \in {0} \cup Codes, body \in Nat, size \in Nat, type \in Nat :
        /\ r = [got |-> got, line |-> line, start |-> start, stale |-> stale, payload |-> payload,
                code |-> code, body |-> body, size |-> size, type |-> type]
        /\ start \in 1 .. Len(got) + 1
        /\ line = 2 => body >= 1 /\ body + payload = Len(got) + 1
  BY ParseParts
<1>2. line = 2 /\ payload >= size + 3
  BY <1>1 DEF Enough
<1>3. body >= 1 /\ body + size - 1 <= Len(got) /\ Len(got) \in Nat
  BY <1>1, <1>2
<1>4. SubSeq(got, body, body + size - 1) \in Seq(Byte)
  BY <1>3
<1>5. Parsed(r) = Outcome(call.cmd, code, type, SubSeq(got, body, body + size - 1))
  BY <1>1 DEF Parsed
<1> QED BY <1>4, <1>5, OutcomeIs
-----------------------------------------------------------------------------
(***************************************************************************)
(* The library's steps.                                                    *)
(***************************************************************************)
ClientOK == WireOK /\ LibraryOK

LEMMA ConnectKeeps ==
  ASSUME ClientOK, Connect
  PROVE  ClientOK'
<1>1. PICK greeting \in Received(outbox, WelcomeRoom) :
        /\ outbox' = Rest(outbox, Len(greeting))
        /\ lib' = IF Len(greeting) < 2 THEN "lost" ELSE "idle"
        /\ odd' = IF outbox' = <<>> THEN odd ELSE odd \cup {"welcome"}
  BY DEF Connect
<1>2. outbox' \in Seq(Byte)
  BY <1>1, ReceivedIs, ClientAssumption DEF ClientOK, WireOK
<1>3. WireOK'
  BY <1>1, <1>2 DEF ClientOK, WireOK, Connect, Odds
<1>4. LibraryOK'
  BY <1>1 DEF ClientOK, LibraryOK, Connect
<1> QED BY <1>3, <1>4 DEF ClientOK

LEMMA BeginKeeps ==
  ASSUME ClientOK, NEW c \in Calls, NEW args \in Arguments(c, ArgLists), Begin(c, args),
         odd' \subseteq Odds, "realloc" \in odd => "realloc" \in odd'
  PROVE  ClientOK'
<1>1. inbox' \in Seq(Byte)
  <2>1. Request(c, args) \in Seq(Byte)
    BY RequestBytes
  <2> DEFINE request == Request(c, args)
  <2> HIDE DEF request
  <2>2. inbox \o request \in Seq(Byte)
    BY <2>1, Joined DEF ClientOK, WireOK, request
  <2> QED BY <2>2 DEF Begin, request
<1>2. WireOK'
  BY <1>1 DEF ClientOK, WireOK, Begin
<1>3. buffer_size \in Nat /\ 0 < buffer_size
  BY DEF ClientOK, LibraryOK, ParseOK, Parses
<1>4. Failed \in Outcomes
  BY DEF Failed, Outcomes
<1>5. LibraryOK'
  BY <1>3, <1>4, NoReplyIs DEF ClientOK, LibraryOK, Begin
<1> QED BY <1>2, <1>5 DEF ClientOK

\* A call that returns gives its buffer back empty.
LEMMA ReturnKeeps ==
  ASSUME ClientOK, NEW outcome \in Outcomes, Return(outcome), rx' = NoReply,
         outbox' \in Seq(Byte), odd' \subseteq Odds, odd \subseteq odd',
         buffer_size' \in Nat, buffer_size' > 0, room' \in Nat,
         "realloc" \notin odd' => room' = buffer_size', UNCHANGED <<inbox, call>>
  PROVE  ClientOK'
<1>1. WireOK'
  BY DEF ClientOK, WireOK, Return
<1>2. LibraryOK'
  BY NoReplyIs DEF ClientOK, LibraryOK, Return
<1> QED BY <1>1, <1>2 DEF ClientOK

\* A chunk of a reply: the buffer is never full when the next is asked for.
LEMMA ReceiveKeeps ==
  ASSUME ClientOK, memuncached_recv
  PROVE  ClientOK'
<1>1. PICK chunk \in Received(outbox, buffer_size - Len(rx.got)) :
        LET r == LengthLine(StatusLine(More(rx, chunk))) IN
        \/ \E what : Crash(what)
        \/ /\ outbox' = Rest(outbox, Len(chunk))
           /\ \/ /\ Enough(r) /\ Return(Parsed(r)) /\ rx' = NoReply
                 /\ UNCHANGED <<odd, buffer_size, room>>
              \/ ~ Enough(r) /\ Full(r) /\ Grow(r)
              \/ /\ ~ Enough(r) /\ ~ Full(r) /\ rx' = r
                 /\ UNCHANGED <<closed, odd, lib, buffer_size, room, result>>
           /\ UNCHANGED <<inbox, fault, call>>
  BY DEF memuncached_recv
<1> DEFINE r == LengthLine(StatusLine(More(rx, chunk)))
<1>2. /\ ParseOK(rx) /\ Len(rx.got) \in Nat /\ buffer_size \in Nat /\ room \in Nat
      /\ Len(rx.got) < buffer_size /\ outbox \in Seq(Byte)
      /\ "realloc" \notin odd => room = buffer_size
  BY DEF ClientOK, WireOK, LibraryOK, ParseOK, Parses
<1>3. /\ chunk \in Seq(Byte) /\ Len(chunk) \in 1 .. buffer_size - Len(rx.got)
      /\ Rest(outbox, Len(chunk)) \in Seq(Byte)
  BY <1>2, ReceivedIs
<1>4. ParseOK(r) /\ Len(r.got) = Len(rx.got) + Len(chunk)
  <2>1. ParseOK(More(rx, chunk)) /\ Len(More(rx, chunk).got) = Len(rx.got) + Len(chunk)
    BY <1>2, <1>3, MoreIs
  <2> QED BY <2>1, StatusLineIs, LengthLineIs
<1> HIDE DEF r
<1>5. Len(r.got) <= buffer_size /\ Len(r.got) \in Nat /\ buffer_size > 0
  BY <1>2, <1>3, <1>4
<1>6. CASE \E what : Crash(what)
  <2>1. WireOK'
    BY <1>6 DEF ClientOK, WireOK, Crash
  <2>2. LibraryOK'
    BY <1>6, LibraryKept DEF ClientOK, Crash
  <2> QED BY <2>1, <2>2 DEF ClientOK
<1>7. CASE /\ outbox' = Rest(outbox, Len(chunk)) /\ Enough(r) /\ Return(Parsed(r)) /\ rx' = NoReply
           /\ UNCHANGED <<odd, buffer_size, room>> /\ UNCHANGED <<inbox, fault, call>>
  <2>1. Parsed(r) \in Outcomes
    BY <1>4, <1>7, ParsedIs
  <2>2. odd' \subseteq Odds /\ odd \subseteq odd'
    BY <1>7 DEF ClientOK, WireOK
  <2> QED BY <1>2, <1>3, <1>5, <1>7, <2>1, <2>2, ReturnKeeps
<1>8. CASE /\ outbox' = Rest(outbox, Len(chunk)) /\ Full(r) /\ Grow(r)
           /\ UNCHANGED <<inbox, fault, call>>
  <2>1. buffer_size' = 2 * buffer_size
    BY <1>8 DEF Grow
  <2>2. buffer_size' \in Nat /\ buffer_size' > 0 /\ Len(r.got) < buffer_size'
    BY <1>5, <1>2, <2>1
  <2>3. CASE \E moved \in BOOLEAN :
               /\ rx' = [r EXCEPT !.stale = @ \/ moved]
               /\ room' = buffer_size'
               /\ UNCHANGED <<closed, odd, lib, result>>
    <3>1. ParseOK(rx') /\ rx'.got = r.got
      <4>1. PICK moved \in BOOLEAN : rx' = [r EXCEPT !.stale = @ \/ moved]
        BY <2>3
      <4>2. (r.stale \/ moved) \in BOOLEAN
        OBVIOUS
      <4> QED BY <1>4, <4>1, <4>2 DEF ParseOK, Parses
    <3>2. WireOK'
      BY <1>3, <1>8, <2>3 DEF ClientOK, WireOK
    <3>3. LibraryOK'
      BY <1>8, <2>2, <2>3, <3>1 DEF ClientOK, LibraryOK
    <3> QED BY <3>2, <3>3 DEF ClientOK
  <2>4. CASE /\ Return(Failed) /\ rx' = NoReply /\ odd' = odd \cup {"realloc"}
             /\ UNCHANGED room
    <3>1. odd' \subseteq Odds /\ odd \subseteq odd' /\ "realloc" \in odd'
      BY <2>4 DEF ClientOK, WireOK, Odds
    <3>2. Failed \in Outcomes
      BY DEF Failed, Outcomes
    <3> QED BY <1>2, <1>3, <1>8, <2>2, <2>4, <3>1, <3>2, ReturnKeeps
  <2> QED BY <1>8, <2>3, <2>4 DEF Grow
<1>9. CASE /\ outbox' = Rest(outbox, Len(chunk)) /\ ~ Full(r) /\ rx' = r
           /\ UNCHANGED <<closed, odd, lib, buffer_size, room, result>>
           /\ UNCHANGED <<inbox, fault, call>>
  <2>1. Len(r.got) < buffer_size
    BY <1>2, <1>5, <1>9 DEF Full
  <2>2. WireOK'
    BY <1>3, <1>9 DEF ClientOK, WireOK
  <2>3. LibraryOK'
    BY <1>4, <1>9, <2>1 DEF ClientOK, LibraryOK
  <2> QED BY <2>2, <2>3 DEF ClientOK
<1> QED BY <1>1, <1>6, <1>7, <1>8, <1>9 DEF r

LEMMA DisconnectedKeeps ==
  ASSUME ClientOK, NEW ended, Disconnected(ended)
  PROVE  ClientOK'
<1>1. Failed \in Outcomes
  BY DEF Failed, Outcomes
<1>2. buffer_size \in Nat /\ buffer_size > 0
  BY DEF ClientOK, LibraryOK, ParseOK, Parses
<1> QED BY <1>1, <1>2, ReturnKeeps DEF Disconnected, ClientOK, WireOK, LibraryOK
-----------------------------------------------------------------------------
(***************************************************************************)
(* The composition.                                                        *)
(***************************************************************************)
LEMMA InitIInv == Init => IInv
<1> SUFFICES ASSUME Init PROVE IInv
  OBVIOUS
<1>1. Welcome \in Seq(Byte)
  BY DEF Welcome, TEXT, LF, NUL, Byte
<1>2. WireOK
  BY <1>1, EmptySeq DEF Init, WireOK
<1>3. SessionOK
  <2>1. IsFiniteSet({})
    BY FS_EmptySet
  <2>2. StoreOK(<<>>)
    BY <2>1 DEF StoreOK
  <2> QED BY <2>2, FreshIs DEF Init, NewSession, SessionOK
<1>4. LibraryOK
  BY NoReplyIs, ClientAssumption DEF Init, NewClient, LibraryOK, Failed, Outcomes
<1> QED BY <1>2, <1>3, <1>4 DEF Init, IInv

LEMMA AskKeeps ==
  ASSUME IInv, NEW c \in Calls, Ask(c)
  PROVE  IInv'
<1>1. PICK args \in Arguments(c, ArgLists) :
        /\ Begin(c, args)
        /\ odd' = (odd \ {"va_arg"})
                    \cup (IF args = c.args THEN {} ELSE {"va_arg"})
                    \cup (IF PlainKey(c.key) THEN {} ELSE {"key"})
                    \cup (IF c.cmd = BYE THEN {"bye"} ELSE {})
                    \cup (IF Skewed THEN {"late"} ELSE {})
  BY DEF Ask
<1>2. odd' \subseteq Odds /\ ("realloc" \in odd => "realloc" \in odd')
  BY <1>1 DEF IInv, WireOK, Odds
<1>3. ClientOK'
  BY <1>1, <1>2, BeginKeeps DEF IInv, ClientOK
<1>4. SessionOK'
  BY DEF Ask, IInv, SessionOK
<1> QED BY <1>3, <1>4 DEF IInv, ClientOK, Ask

LEMMA HangUpKeeps ==
  ASSUME IInv, HangUp
  PROVE  IInv'
<1>1. inbox' \in Seq(Byte) /\ torn' \in BOOLEAN
  <2>1. PICK n \in 0 .. Len(inbox) : inbox' = SubSeq(inbox, 1, n) /\ torn' = (n < Len(inbox))
    BY DEF HangUp
  <2>2. inbox \in Seq(Byte)
    BY DEF IInv, WireOK
  <2> QED BY <2>1, <2>2
<1>2. WireOK'
  BY <1>1 DEF HangUp, IInv, WireOK
<1>3. SessionOK'
  BY SessionKept DEF HangUp, IInv
<1>4. LibraryOK'
  BY NoReplyIs, ClientAssumption DEF HangUp, IInv, LibraryOK
<1> QED BY <1>1, <1>2, <1>3, <1>4 DEF IInv

LEMMA ServerStopsKeeps ==
  ASSUME IInv, ServerStops
  PROVE  IInv'
<1>1. WireOK'
  <2>1. outbox' \in Seq(Byte)
    BY EmptySeq DEF ServerStops, IInv, WireOK
  <2> QED BY <2>1 DEF ServerStops, IInv, WireOK, Odds
<1>2. SessionOK'
  BY DEF ServerStops, IInv, SessionOK
<1>3. LibraryOK'
  BY LibraryKept DEF ServerStops, IInv
<1> QED BY <1>1, <1>2, <1>3 DEF IInv, ServerStops

LEMMA NextIInv == IInv /\ [Next]_vars => IInv'
<1> SUFFICES ASSUME IInv, [Next]_vars PROVE IInv'
  OBVIOUS
<1>1. CASE Server \/ Shortage \/ Reset
  <2>1. BothOK' /\ odd \subseteq odd'
    BY <1>1, SessionSteps DEF Server, Shortage, Reset, IInv, BothOK
  <2>2. LibraryOK'
    BY <1>1, <2>1, LibraryKept DEF Server, Shortage, Reset, IInv
  <2> QED BY <1>1, <2>1, <2>2 DEF IInv, BothOK, Server, Shortage, Reset
<1>2. CASE Reply \/ Eof \/ (Connect /\ UNCHANGED <<state, torn>>)
  <2>1. ClientOK'
    BY <1>2, ReceiveKeeps, DisconnectedKeeps, ConnectKeeps DEF Reply, Eof, IInv, ClientOK
  <2>2. SessionOK'
    BY <1>2, SessionKept DEF Reply, Eof, IInv
  <2> QED BY <1>2, <2>1, <2>2 DEF IInv, ClientOK, Reply, Eof
<1>3. CASE HangUp
  BY <1>3, HangUpKeeps
<1>4. CASE ServerStops
  BY <1>4, ServerStopsKeeps
<1>5. CASE \E c \in Calls : Ask(c)
  BY <1>5, AskKeeps
<1>6. CASE UNCHANGED vars
  <2>1. WireOK'
    BY <1>6 DEF vars, wire, IInv, WireOK
  <2>2. SessionOK'
    BY <1>6, SessionKept DEF vars, IInv
  <2>3. LibraryOK'
    BY <1>6, LibraryKept DEF vars, wire, IInv
  <2> QED BY <1>6, <2>1, <2>2, <2>3 DEF vars, IInv
<1> QED BY <1>1, <1>2, <1>3, <1>4, <1>5, <1>6 DEF Next

LEMMA Invariance == Spec => []IInv
BY InitIInv, NextIInv, PTL DEF Spec

\* Every variable has its type: of the store, that a value's TYPE and bytes
\* are what handlers may put there; of the parser, that what recv may return
\* never leads it outside what was received.
THEOREM LinkTypeOK == Spec => []TypeOK
<1>1. IInv => TypeOK
  BY DEF IInv, WireOK, SessionOK, CommandOK, PutOK, StoreOK, LibraryOK, ParseOK, Parses, Outcomes,
         Odds, TypeOK
<1> QED BY <1>1, Invariance, PTL

\* The session's buffers (connection.c 48-62 and 436-446): however TCP cuts the
\* stream and whatever realloc does, a chunk lands behind the last one and
\* inside its buffer, and the command buffer keeps a byte free.
THEOREM LinkChunksFit == Spec => []ChunksFit
<1>1. IInv => ChunksFit
  BY DEF IInv, SessionOK, CommandOK, ChunksFit
<1> QED BY <1>1, Invariance, PTL

\* The reply buffer (libmemuncached.c 25-38 and 110-151): recv is never asked
\* for no bytes, the buffer has the size the client believes until a realloc
\* fails, and payload bytes are counted from the first.
THEOREM LinkReplyFits == Spec => []ReplyFits
<1>1. IInv => ReplyFits
  BY DEF IInv, LibraryOK, ParseOK, Parses, ReplyFits
<1> QED BY <1>1, Invariance, PTL
=============================================================================
