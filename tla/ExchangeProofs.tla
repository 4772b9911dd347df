--------------------------- MODULE ExchangeProofs ----------------------------
(***************************************************************************)
(* Theorems about Link: a request and its reply.  While nothing has put    *)
(* the two ends out of step, the bytes on the wire, those already taken    *)
(* and what both parsers made of them are always one request, or one       *)
(* reply, whatever TCP does and whatever the sizes of the buffers.         *)
(***************************************************************************)
EXTENDS LinkProofs

(***************************************************************************)
(* Places in what is written.                                              *)
(***************************************************************************)
\* A sequence of n bytes, and one written behind another: named, so that the
\* provers reason about places and not about the operators of Sequences.
Bytes(s, n) == s \in Seq(Byte) /\ Len(s) = n
Joint(q, s, t) == q = s \o t

LEMMA Joins ==
  ASSUME NEW m \in Nat, NEW n \in Nat, NEW s, NEW t, Bytes(s, m), Bytes(t, n),
         NEW q, Joint(q, s, t)
  PROVE  /\ Bytes(q, m + n)
         /\ \A j \in 1 .. m : q[j] = s[j]
         /\ \A j \in 1 .. n : q[m + j] = t[j]
<1>1. /\ s \o t \in Seq(Byte) /\ Len(s \o t) = m + n
      /\ \A j \in 1 .. m : (s \o t)[j] = s[j]
      /\ \A j \in 1 .. n : (s \o t)[m + j] = t[j]
  BY DEF Bytes
<1>2. q = s \o t
  BY DEF Joint
<1> QED BY ONLY <1>1, <1>2 DEF Bytes

\* The words of a request are followed by a blank or a line end.
LEMMA Pieces ==
  /\ Bytes(CRLF, 2) /\ CRLF[1] = CR /\ CRLF[2] = LF
  /\ \A a \in Byte : /\ Bytes(<<a>>, 1) /\ <<a>>[1] = a
                     /\ Bytes(<<SP, a>>, 2) /\ <<SP, a>>[1] = SP /\ <<SP, a>>[2] = a
                     /\ Bytes(<<a, SP>>, 2) /\ <<a, SP>>[1] = a /\ <<a, SP>>[2] = SP
  /\ \A a, b \in Byte :
       /\ Bytes(<<SP, a, SP, b>>, 4)
       /\ <<SP, a, SP, b>>[1] = SP /\ <<SP, a, SP, b>>[2] = a
       /\ <<SP, a, SP, b>>[3] = SP /\ <<SP, a, SP, b>>[4] = b
<1>1. SP \in Byte /\ CR \in Byte /\ LF \in Byte
  BY DEF SP, CR, LF, Byte
<1>2. CRLF = <<CR, LF>>
  BY DEF CRLF
<1> QED BY <1>1, <1>2 DEF Bytes

\* SET and ADD: a line of nine bytes, the value, and a line end.
PutForm(r, c, d) ==
  /\ Bytes(r, 11 + d)
  /\ r[1] = c.cmd /\ r[2] = SP /\ r[3] = c.key[1] /\ r[4] = SP
  /\ r[5] = Digit(c.type) /\ r[6] = SP /\ r[7] = Digit(d) /\ r[8] = CR /\ r[9] = LF
  /\ \A j \in 1 .. d : r[9 + j] = c.data[j]
  /\ r[10 + d] = CR /\ r[11 + d] = LF

LEMMA PutRequest ==
  ASSUME NEW c \in Calls, PlainKey(c.key), c.cmd \in {SET, ADD}, NEW args,
         NEW d \in Nat, d = Len(c.data)
  PROVE  PutForm(Request(c, args), c, d)
<1>1. /\ c.cmd \in Byte /\ Bytes(c.key, 1) /\ Bytes(c.data, d)
      /\ Digit(c.type) \in Byte /\ Digit(d) \in Byte
  BY CallIs DEF PlainKey, Digit, Byte, Bytes
<1> DEFINE s1 == <<c.cmd, SP>>
           s2 == <<SP, Digit(c.type), SP, Digit(d)>>
           p1 == s1 \o c.key
           p2 == p1 \o s2
           p3 == p2 \o CRLF
           p4 == p3 \o c.data
           r  == p4 \o CRLF
<1>2. Request(c, args) = r
  <2>1. Request(c, args) =
          <<c.cmd, SP>> \o c.key \o <<SP, Digit(c.type), SP, Digit(Len(c.data))>> \o CRLF
            \o c.data \o CRLF
    <3>1. c.cmd \notin {GET, DEL} /\ c.cmd \notin {INC, DEC}
      BY DEF SET, ADD, GET, DEL, INC, DEC
    <3> QED BY <3>1, Zenon DEF Request
  <2> QED BY ONLY <2>1, d = Len(c.data)
<1>3. Bytes(s1, 2) /\ s1[1] = c.cmd /\ s1[2] = SP
  BY <1>1, Pieces
<1>4. Bytes(s2, 4) /\ s2[1] = SP /\ s2[2] = Digit(c.type) /\ s2[3] = SP /\ s2[4] = Digit(d)
  BY <1>1, Pieces
<1> HIDE DEF s1, s2
<1>5. Joint(p1, s1, c.key) /\ Joint(p2, p1, s2) /\ Joint(p3, p2, CRLF)
  BY DEF Joint
<1>6. Joint(p4, p3, c.data) /\ Joint(r, p4, CRLF)
  BY DEF Joint
<1> HIDE DEF p1, p2, p3, p4, r
<1>7. Bytes(p1, 3) /\ p1[1] = c.cmd /\ p1[2] = SP /\ p1[3] = c.key[1]
  BY <1>1, <1>3, <1>5, Joins
<1>8. /\ Bytes(p2, 7) /\ p2[1] = c.cmd /\ p2[2] = SP /\ p2[3] = c.key[1]
      /\ p2[4] = SP /\ p2[5] = Digit(c.type) /\ p2[6] = SP /\ p2[7] = Digit(d)
  BY <1>4, <1>5, <1>7, Joins
<1>9. /\ Bytes(p3, 9) /\ p3[1] = c.cmd /\ p3[2] = SP /\ p3[3] = c.key[1]
      /\ p3[4] = SP /\ p3[5] = Digit(c.type) /\ p3[6] = SP /\ p3[7] = Digit(d)
      /\ p3[8] = CR /\ p3[9] = LF
  <2>1. Bytes(p2, 7) /\ Bytes(CRLF, 2) /\ Joint(p3, p2, CRLF)
    BY <1>5, <1>8, Pieces
  <2>2. Bytes(p3, 7 + 2) /\ (\A j \in 1 .. 7 : p3[j] = p2[j]) /\ \A j \in 1 .. 2 : p3[7 + j] = CRLF[j]
    BY ONLY <2>1, Joins, 7 \in Nat, 2 \in Nat
  <2>3. p3[8] = CRLF[1] /\ p3[9] = CRLF[2]
    BY ONLY <2>2
  <2> QED BY <1>8, <2>2, <2>3, Pieces
<1>10. /\ Bytes(p4, 9 + d) /\ \A j \in 1 .. 9 : p4[j] = p3[j]
       /\ \A j \in 1 .. d : p4[9 + j] = c.data[j]
  BY <1>1, <1>6, <1>9, Joins
<1>11. /\ Bytes(r, 11 + d) /\ \A j \in 1 .. 9 + d : r[j] = p4[j]
       /\ r[10 + d] = CR /\ r[11 + d] = LF
  <2>1. PICK e \in Nat : e = 9 + d
    OBVIOUS
  <2>2. /\ Bytes(r, e + 2) /\ \A j \in 1 .. e : r[j] = p4[j]
        /\ \A j \in 1 .. 2 : r[e + j] = CRLF[j]
    BY <1>6, <1>10, <2>1, Pieces, Joins
  <2>3. r[e + 1] = CR /\ r[e + 2] = LF
    BY <2>2, Pieces
  <2> QED BY <2>1, <2>2, <2>3
<1>12. \A j \in 1 .. 9 : r[j] = p3[j]
  BY <1>10, <1>11
<1>13. \A j \in 1 .. d : r[9 + j] = c.data[j]
  <2> TAKE j \in 1 .. d
  <2>1. 9 + j \in 1 .. 9 + d
    OBVIOUS
  <2> QED BY <1>10, <1>11, <2>1
<1> QED BY <1>2, <1>9, <1>11, <1>12, <1>13 DEF PutForm

\* GET and DEL, INC and DEC: a line with up to two numbers.
CountForm(r, c, args, n) ==
  /\ Bytes(r, 5 + 2 * n)
  /\ r[1] = c.cmd /\ r[2] = SP /\ r[3] = c.key[1]
  /\ n >= 1 => r[4] = SP /\ r[5] = Digit(args[1])
  /\ n >= 2 => r[6] = SP /\ r[7] = Digit(args[2])
  /\ r[4 + 2 * n] = CR /\ r[5 + 2 * n] = LF

\* How many numbers a request carries.
Given(c, args) ==
  IF c.cmd \in {GET, DEL} \/ args = <<>> THEN 0 ELSE IF Len(args) = 1 THEN 1 ELSE 2

LEMMA CountRequest ==
  ASSUME NEW c \in Calls, PlainKey(c.key), c.cmd \in {GET, DEL, INC, DEC},
         NEW args \in Arguments(c, ArgLists)
  PROVE  CountForm(Request(c, args), c, args, Given(c, args))
<1>1. c.cmd \in Byte /\ Bytes(c.key, 1)
  BY CallIs DEF PlainKey, Byte, Bytes
<1> DEFINE s1 == <<c.cmd, SP>>
           p1 == s1 \o c.key
<1>2. Bytes(s1, 2) /\ s1[1] = c.cmd /\ s1[2] = SP
  BY <1>1, Pieces
<1> HIDE DEF s1
<1>3. Joint(p1, s1, c.key)
  BY DEF Joint
<1> HIDE DEF p1
<1>4. Bytes(p1, 3) /\ p1[1] = c.cmd /\ p1[2] = SP /\ p1[3] = c.key[1]
  BY <1>1, <1>2, <1>3, Joins
<1>5. CASE Given(c, args) = 0
  <2> DEFINE r == p1 \o CRLF
  <2>1. Request(c, args) = r
    <3>1. CASE c.cmd \in {GET, DEL}
      <4>1. c.cmd \notin {SET, ADD} /\ c.cmd \notin {INC, DEC}
        BY <3>1 DEF SET, ADD, GET, DEL, INC, DEC
      <4>2. Request(c, args) = <<c.cmd, SP>> \o c.key \o CRLF
        BY <3>1, <4>1, Zenon DEF Request
      <4> QED BY ONLY <4>2 DEF p1, s1
    <3>2. CASE c.cmd \in {INC, DEC}
      <4>1. c.cmd \notin {SET, ADD} /\ c.cmd \notin {GET, DEL}
        BY <3>2 DEF SET, ADD, GET, DEL, INC, DEC
      <4>2. Request(c, args) = <<c.cmd, SP>> \o c.key \o Numerals(args) \o CRLF
        BY <3>2, <4>1, Zenon DEF Request
      <4>3. args = <<>>
        BY <1>5, <4>1 DEF Given
      <4>4. Numerals(args) = <<>>
        BY <4>3 DEF Numerals
      <4>5. p1 \o <<>> = p1
        BY <1>4, ConcatEmptySeq DEF Bytes
      <4>6. Request(c, args) = p1 \o <<>> \o CRLF
        BY ONLY <4>2, <4>4 DEF p1, s1
      <4> QED BY ONLY <4>5, <4>6
    <3> QED BY <3>1, <3>2
  <2>2. Joint(r, p1, CRLF)
    BY DEF Joint
  <2> HIDE DEF r
  <2>3. /\ Bytes(r, 5) /\ r[1] = c.cmd /\ r[2] = SP /\ r[3] = c.key[1]
        /\ r[4] = CR /\ r[5] = LF
    BY <1>4, <2>2, Pieces, Joins
  <2> QED BY <1>5, <2>1, <2>3 DEF CountForm
<1>6. CASE Given(c, args) # 0
  <2>1. c.cmd \notin {GET, DEL} /\ c.cmd \in {INC, DEC} /\ args # <<>>
    BY <1>6 DEF Given
  <2>2. c.cmd \notin {SET, ADD}
    BY <2>1 DEF SET, ADD, INC, DEC
  <2>3. Request(c, args) = <<c.cmd, SP>> \o c.key \o Numerals(args) \o CRLF
    BY <2>1, <2>2, Zenon DEF Request
  <2>4. args \in Seq(Nat) /\ Len(args) \in Nat /\ Len(args) # 0
    BY <2>1, ArgumentsAre
  <2> DEFINE n1 == <<SP, Digit(args[1])>>
             n2 == <<SP, Digit(args[2])>>
             q1 == p1 \o n1
  <2>5. Digit(args[1]) \in Byte
    <3>1. args[1] \in Nat
      BY <2>4
    <3> QED BY <3>1 DEF Digit, Byte
  <2>6. Bytes(n1, 2) /\ n1[1] = SP /\ n1[2] = Digit(args[1])
    BY <2>5, Pieces
  <2>7. Joint(q1, p1, n1)
    BY DEF Joint
  <2> HIDE DEF n1, q1
  <2>8. /\ Bytes(q1, 5) /\ q1[1] = c.cmd /\ q1[2] = SP /\ q1[3] = c.key[1]
        /\ q1[4] = SP /\ q1[5] = Digit(args[1])
    BY <1>4, <2>6, <2>7, Joins
  <2>9. CASE Len(args) = 1
    <3> DEFINE r == q1 \o CRLF
    <3>1. n1 \o <<>> = n1
      BY <2>6, ConcatEmptySeq DEF Bytes
    <3>2. Numerals(args) = n1 \o <<>>
      BY <2>1, <2>9, Zenon DEF Numerals, n1
    <3>3. Request(c, args) = r
      BY ONLY <2>3, <3>1, <3>2 DEF p1, s1, q1
    <3>4. Joint(r, q1, CRLF)
      BY DEF Joint
    <3> HIDE DEF r
    <3>5. /\ Bytes(r, 7) /\ r[1] = c.cmd /\ r[2] = SP /\ r[3] = c.key[1]
          /\ r[4] = SP /\ r[5] = Digit(args[1]) /\ r[6] = CR /\ r[7] = LF
      BY <2>8, <3>4, Pieces, Joins
    <3>6. Given(c, args) = 1
      BY <2>1, <2>9 DEF Given
    <3> QED BY <3>3, <3>5, <3>6 DEF CountForm
  <2>10. CASE Len(args) # 1
    <3>1. Digit(args[2]) \in Byte
      <4>1. PICK l \in Nat : l = Len(args)
        BY <2>4
      <4>2. l >= 2
        BY <2>4, <2>10, <4>1
      <4>3. args[2] \in Nat
        BY <2>4, <4>1, <4>2
      <4> QED BY <4>3 DEF Digit, Byte
    <3>2. Bytes(n2, 2) /\ n2[1] = SP /\ n2[2] = Digit(args[2])
      BY <3>1, Pieces
    <3> DEFINE q2 == q1 \o n2
               r  == q2 \o CRLF
    <3>3. Request(c, args) = r
      <4>1. Numerals(args) = n1 \o n2
        BY <2>1, <2>10, Zenon DEF Numerals, n1
      <4>2. p1 \o (n1 \o n2) = (p1 \o n1) \o n2
        BY <1>4, <2>6, <3>2, ConcatAssociative DEF Bytes
      <4> HIDE DEF n2
      <4> QED BY ONLY <2>3, <4>1, <4>2 DEF p1, s1, q1
    <3> HIDE DEF n2
    <3>4. Joint(q2, q1, n2) /\ Joint(r, q2, CRLF)
      BY DEF Joint
    <3> HIDE DEF q2, r
    <3>5. /\ Bytes(q2, 7) /\ q2[1] = c.cmd /\ q2[2] = SP /\ q2[3] = c.key[1]
          /\ q2[4] = SP /\ q2[5] = Digit(args[1]) /\ q2[6] = SP /\ q2[7] = Digit(args[2])
      BY <2>8, <3>2, <3>4, Joins
    <3>6. /\ Bytes(r, 9) /\ r[1] = c.cmd /\ r[2] = SP /\ r[3] = c.key[1]
          /\ r[4] = SP /\ r[5] = Digit(args[1]) /\ r[6] = SP /\ r[7] = Digit(args[2])
          /\ r[8] = CR /\ r[9] = LF
      <4>1. Bytes(q2, 7) /\ Bytes(CRLF, 2) /\ Joint(r, q2, CRLF)
        BY <3>4, <3>5, Pieces
      <4>2. /\ Bytes(r, 7 + 2) /\ \A j \in 1 .. 7 : r[j] = q2[j]
            /\ \A j \in 1 .. 2 : r[7 + j] = CRLF[j]
        BY ONLY <4>1, Joins, 7 \in Nat, 2 \in Nat
      <4>3. r[8] = CRLF[1] /\ r[9] = CRLF[2]
        BY ONLY <4>2
      <4> QED BY <3>5, <4>2, <4>3, Pieces
    <3>7. Given(c, args) = 2
      BY <2>1, <2>10 DEF Given
    <3> QED BY <3>3, <3>6, <3>7 DEF CountForm
  <2> QED BY <2>9, <2>10
<1> QED BY <1>5, <1>6

\* STT, VER and BYE: a line of one word.
BareForm(r, c) == Bytes(r, 3) /\ r[1] = c.cmd /\ r[2] = CR /\ r[3] = LF

LEMMA BareRequest ==
  ASSUME NEW c \in Calls, c.cmd \notin {SET, ADD, GET, DEL, INC, DEC}, NEW args
  PROVE  BareForm(Request(c, args), c)
<1> DEFINE s == <<c.cmd>>
           r == s \o CRLF
<1>1. Request(c, args) = r
  BY Zenon DEF Request
<1>2. Bytes(s, 1) /\ s[1] = c.cmd
  BY CallIs, Pieces DEF Byte
<1>3. Joint(r, s, CRLF)
  BY DEF Joint
<1> HIDE DEF s, r
<1>4. Bytes(r, 3) /\ r[1] = c.cmd /\ r[2] = CR /\ r[3] = LF
  BY <1>2, <1>3, Pieces, Joins
<1> QED BY <1>1, <1>4 DEF BareForm

\* Where the line of a request ends: nothing before it looks like its end.
LineEnd(r) == First(r, 1, {LF})

LEMMA FirstAt ==
  ASSUME NEW r \in Seq(Byte), NEW S, NEW i \in Nat, NEW e \in Nat, 1 <= i, i <= e, e <= Len(r),
         r[e] \in S, \A k \in i .. e - 1 : r[k] \notin S
  PROVE  First(r, i, S) = e
<1> DEFINE f == First(r, i, S)
<1>1. PICK n \in Nat : n = Len(r)
  OBVIOUS
<1>2. /\ f \in i .. n + 1
      /\ f <= n => r[f] \in S
      /\ \A k \in i .. f - 1 : r[k] \notin S
  <2>1. i \in Nat \ {0} /\ i <= Len(r) + 1
    BY <1>1
  <2> QED BY <1>1, <2>1, FirstPlace
<1> HIDE DEF f
<1>3. ~ (f > e)
  <2> SUFFICES ASSUME f > e PROVE FALSE
    OBVIOUS
  <2>1. e \in i .. f - 1
    BY <1>2
  <2> QED BY <1>2, <2>1
<1>4. ~ (f < e)
  <2> SUFFICES ASSUME f < e PROVE FALSE
    OBVIOUS
  <2>1. f \in i .. e - 1 /\ f <= n
    BY <1>1, <1>2
  <2> QED BY <1>2, <2>1
<1>5. f = e
  BY <1>2, <1>3, <1>4
<1> QED BY <1>5 DEF f

LEMMA FirstIs ==
  ASSUME NEW r \in Seq(Byte), NEW e \in Nat, 1 <= e, e <= Len(r), r[e] = LF,
         \A i \in 1 .. e - 1 : r[i] # LF
  PROVE  LineEnd(r) = e
BY FirstAt DEF LineEnd

\* The line of a request, of e bytes: a command, a blank or the end, and no
\* line feed but the last.
LineForm(r, c, e) ==
  /\ r \in Seq(Byte) /\ 3 <= e /\ e <= Len(r)
  /\ r[1] = c.cmd /\ r[2] \in {SP, CR}
  /\ r[e - 1] = CR /\ r[e] = LF
  /\ \A i \in 1 .. e - 1 : r[i] # LF
  /\ c.cmd \in {SET, ADD} => e = 9 /\ Len(r) = 11 + Len(c.data)
  /\ c.cmd \notin {SET, ADD} => Len(r) = e

LEMMA CommandBytes ==
  ASSUME NEW c \in Calls
  PROVE  c.cmd # LF /\ c.cmd # NUL /\ c.cmd \notin Blank
BY CallIs DEF SET, ADD, GET, DEL, INC, DEC, STT, VER, BYE, LF, CR, SP, NUL, Blank, Newline

LEMMA DigitBytes ==
  \A n \in 0 .. 9 : /\ Digit(n) \notin {LF, CR, SP, NUL, PLUS, MINUS, DOT}
                     /\ IsDigit(Digit(n)) /\ Digit(n) - Digit(0) = n
BY DEF Digit, LF, CR, SP, NUL, PLUS, MINUS, DOT, IsDigit

LEMMA RequestLine ==
  ASSUME NEW c \in Calls, PlainKey(c.key), NEW args \in Arguments(c, ArgLists)
  PROVE  \E e \in Nat : LineForm(Request(c, args), c, e) /\ LineEnd(Request(c, args)) = e
<1> DEFINE r == Request(c, args)
<1>1. PICK d \in Nat : d = Len(c.data)
  BY CallIs
<1>2. /\ c.cmd # LF /\ c.key[1] # LF /\ SP # LF /\ CR # LF
      /\ \A n \in 0 .. 9 : Digit(n) # LF
  BY CommandBytes DEF PlainKey, Blank, Newline, Digit, LF, CR, SP
<1>3. CASE c.cmd \in {SET, ADD}
  <2>1. PutForm(r, c, d)
    BY <1>1, <1>3, PutRequest
  <2> HIDE DEF r
  <2>2. r \in Seq(Byte) /\ Len(r) = 11 + d
    BY <2>1 DEF PutForm, Bytes
  <2>3. Digit(c.type) # LF /\ Digit(d) # LF
    BY <1>1, <1>2, CallIs
  <2>4. \A i \in 1 .. 8 : r[i] # LF
    BY <1>2, <2>1, <2>3 DEF PutForm
  <2>5. LineForm(r, c, 9)
    <3>1. /\ r[1] = c.cmd /\ r[2] \in {SP, CR} /\ r[8] = CR /\ r[9] = LF
      BY <2>1 DEF PutForm
    <3>2. 9 - 1 = 8 /\ 3 <= 9 /\ 9 <= Len(r) /\ Len(r) = 11 + Len(c.data)
      BY <1>1, <2>2
    <3> QED BY <1>3, <2>2, <2>4, <3>1, <3>2 DEF LineForm
  <2>6. PICK e \in Nat : LineForm(r, c, e)
    BY <2>5
  <2> QED BY <2>6, FirstIs DEF LineForm, r
<1>4. CASE c.cmd \in {GET, DEL, INC, DEC}
  <2>1. CountForm(r, c, args, Given(c, args))
    BY <1>4, CountRequest
  <2>2. c.cmd \notin {SET, ADD}
    BY <1>4 DEF SET, ADD, GET, DEL, INC, DEC
  <2>3. /\ Given(c, args) >= 1 => args[1] \in 0 .. 9
        /\ Given(c, args) >= 2 => args[2] \in 0 .. 9
        /\ Given(c, args) \in {0, 1, 2}
    <3>1. PICK l \in Nat : l = Len(args)
      BY ArgumentsAre
    <3>2. args # <<>> => l # 0
      BY <3>1, ArgumentsAre
    <3> QED BY <3>1, <3>2, ArgumentsAre DEF Given
  <2> HIDE DEF r
  <2>4. CASE Given(c, args) = 0
    <3>1. Bytes(r, 5) /\ r[1] = c.cmd /\ r[2] = SP /\ r[3] = c.key[1] /\ r[4] = CR /\ r[5] = LF
      BY <2>1, <2>4 DEF CountForm
    <3>2. PICK e \in Nat : e = 5 /\ Bytes(r, e)
      BY <3>1
    <3>3. LineForm(r, c, e)
      <4>1. \A i \in 1 .. 4 : r[i] # LF
        BY <1>2, <3>1
      <4> QED BY <2>2, <3>1, <3>2, <4>1 DEF LineForm, Bytes
    <3> QED BY <3>3, FirstIs DEF LineForm, r
  <2>5. CASE Given(c, args) = 1
    <3>1. /\ Bytes(r, 7) /\ r[1] = c.cmd /\ r[2] = SP /\ r[3] = c.key[1]
          /\ r[4] = SP /\ r[5] = Digit(args[1]) /\ r[6] = CR /\ r[7] = LF
      BY <2>1, <2>5 DEF CountForm
    <3>2. PICK e \in Nat : e = 7 /\ Bytes(r, e)
      BY <3>1
    <3>3. LineForm(r, c, e)
      <4>1. \A i \in 1 .. 6 : r[i] # LF
        BY <1>2, <2>3, <2>5, <3>1
      <4> QED BY <2>2, <3>1, <3>2, <4>1 DEF LineForm, Bytes
    <3> QED BY <3>3, FirstIs DEF LineForm, r
  <2>6. CASE Given(c, args) = 2
    <3>1. /\ Bytes(r, 9) /\ r[1] = c.cmd /\ r[2] = SP /\ r[3] = c.key[1]
          /\ r[4] = SP /\ r[5] = Digit(args[1]) /\ r[6] = SP /\ r[7] = Digit(args[2])
          /\ r[8] = CR /\ r[9] = LF
      BY <2>1, <2>6 DEF CountForm
    <3>2. PICK e \in Nat : e = 9 /\ Bytes(r, e)
      BY <3>1
    <3>3. LineForm(r, c, e)
      <4>1. \A i \in 1 .. 8 : r[i] # LF
        BY <1>2, <2>3, <2>6, <3>1
      <4> QED BY <2>2, <3>1, <3>2, <4>1 DEF LineForm, Bytes
    <3> QED BY <3>3, FirstIs DEF LineForm, r
  <2> QED BY <2>3, <2>4, <2>5, <2>6
<1>5. CASE c.cmd \notin {SET, ADD, GET, DEL, INC, DEC}
  <2>1. Bytes(r, 3) /\ r[1] = c.cmd /\ r[2] = CR /\ r[3] = LF
    BY <1>5, BareRequest DEF BareForm
  <2> HIDE DEF r
  <2>2. PICK e \in Nat : e = 3 /\ Bytes(r, e)
    BY <2>1
  <2>3. LineForm(r, c, e)
    <3>1. \A i \in 1 .. 2 : r[i] # LF
      BY <1>2, <2>1
    <3> QED BY <1>5, <2>1, <2>2, <3>1 DEF LineForm, Bytes
  <2> QED BY <2>3, FirstIs DEF LineForm, r
<1> QED BY <1>3, <1>4, <1>5

-----------------------------------------------------------------------------
(***************************************************************************)
(* Places in what is received.                                             *)
(***************************************************************************)
LEMMA Segment ==
  ASSUME NEW s \in Seq(Byte), NEW i \in Nat, NEW j \in Nat, 1 <= i, i <= j + 1, j <= Len(s)
  PROVE  /\ Bytes(SubSeq(s, i, j), j - i + 1)
         /\ \A k \in 1 .. j - i + 1 : SubSeq(s, i, j)[k] = s[i - 1 + k]
<1>1. PICK n \in Nat : n = Len(s)
  OBVIOUS
<1>2. \A k \in i .. j : s[k] \in Byte
  BY <1>1
<1>3. /\ SubSeq(s, i, j) \in Seq(Byte)
      /\ Len(SubSeq(s, i, j)) = IF i <= j THEN j - i + 1 ELSE 0
      /\ \A k \in 1 .. j - i + 1 : SubSeq(s, i, j)[k] = s[i + k - 1]
  BY <1>2, SubSeqProperties
<1>4. \A k \in 1 .. j - i + 1 : i + k - 1 = i - 1 + k
  OBVIOUS
<1> QED BY <1>3, <1>4 DEF Bytes

\* What recv returns and leaves are the bytes there were.
LEMMA ReceivedAt ==
  ASSUME NEW s \in Seq(Byte), NEW most \in Int, NEW chunk \in Received(s, most),
         NEW n \in Nat, n = Len(s)
  PROVE  \E k \in Nat :
           /\ 1 <= k /\ k <= most /\ k <= n /\ k = Len(chunk)
           /\ Bytes(chunk, k) /\ Bytes(Rest(s, k), n - k)
           /\ \A j \in 1 .. k : chunk[j] = s[j]
           /\ \A j \in 1 .. n - k : Rest(s, k)[j] = s[k + j]
<1>1. PICK k \in Nat : 1 <= k /\ k <= most /\ k <= n /\ chunk = SubSeq(s, 1, k)
  BY DEF Received
<1>2. Bytes(chunk, k) /\ \A j \in 1 .. k : chunk[j] = s[j]
  <2>1. /\ Bytes(SubSeq(s, 1, k), k - 1 + 1)
        /\ \A j \in 1 .. k - 1 + 1 : SubSeq(s, 1, k)[j] = s[1 - 1 + j]
    BY <1>1, Segment
  <2>2. k - 1 + 1 = k /\ \A j \in 1 .. k : 1 - 1 + j = j
    OBVIOUS
  <2> HIDE <1>1
  <2>3. chunk = SubSeq(s, 1, k)
    BY <1>1
  <2> DEFINE q == SubSeq(s, 1, k)
  <2> HIDE DEF q
  <2>4. Bytes(q, k) /\ \A j \in 1 .. k : q[j] = s[j]
    BY <2>1, <2>2 DEF q
  <2> QED BY <2>3, <2>4 DEF q
<1>3. Bytes(Rest(s, k), n - k) /\ \A j \in 1 .. n - k : Rest(s, k)[j] = s[k + j]
  <2>1. /\ Bytes(SubSeq(s, k + 1, n), n - (k + 1) + 1)
        /\ \A j \in 1 .. n - (k + 1) + 1 : SubSeq(s, k + 1, n)[j] = s[k + 1 - 1 + j]
    BY <1>1, k + 1 \in Nat, Segment
  <2>2. n - (k + 1) + 1 = n - k /\ \A j \in 1 .. n - k : k + 1 - 1 + j = k + j
    BY <1>1
  <2>3. Rest(s, k) = SubSeq(s, k + 1, n)
    BY DEF Rest
  <2> DEFINE q == SubSeq(s, k + 1, n)
  <2> HIDE DEF q
  <2>4. Bytes(q, n - k) /\ \A j \in 1 .. n - k : q[j] = s[k + j]
    BY <2>1, <2>2 DEF q
  <2> QED BY <2>3, <2>4 DEF q
<1>4. k = Len(chunk)
  BY <1>2 DEF Bytes
<1> QED BY <1>1, <1>2, <1>3, <1>4

\* memcpy changes the places it copies to, and no other.
LEMMA CopyAt ==
  ASSUME NEW n \in Nat, NEW k \in Nat, NEW at \in Nat, NEW s, NEW t, Bytes(s, n), Bytes(t, k),
         at + k <= n
  PROVE  /\ Bytes(Copy(s, at, t), n)
         /\ \A i \in 1 .. at : Copy(s, at, t)[i] = s[i]
         /\ \A j \in 1 .. k : Copy(s, at, t)[at + j] = t[j]
         /\ \A i \in at + k + 1 .. n : Copy(s, at, t)[i] = s[i]
<1>1. s \in Seq(Byte) /\ Len(s) = n /\ Len(t) = k
  BY DEF Bytes
<1> DEFINE head == SubSeq(s, 1, at)
           tail == SubSeq(s, at + k + 1, n)
           front == head \o t
           all == front \o tail
<1>2. Copy(s, at, t) = all
  BY <1>1 DEF Copy, Rest
<1>3. Bytes(head, at) /\ \A i \in 1 .. at : head[i] = s[i]
  <2>1. /\ Bytes(head, at - 1 + 1)
        /\ \A i \in 1 .. at - 1 + 1 : head[i] = s[1 - 1 + i]
    BY <1>1, Segment
  <2>2. at - 1 + 1 = at /\ \A j \in 1 .. at : 1 - 1 + j = j
    OBVIOUS
  <2> HIDE DEF head
  <2> QED BY <2>1, <2>2
<1>4. Bytes(tail, n - (at + k)) /\ \A i \in 1 .. n - (at + k) : tail[i] = s[at + k + i]
  <2>1. /\ Bytes(tail, n - (at + k + 1) + 1)
        /\ \A i \in 1 .. n - (at + k + 1) + 1 : tail[i] = s[at + k + 1 - 1 + i]
    BY <1>1, at + k + 1 \in Nat, Segment
  <2>2. n - (at + k + 1) + 1 = n - (at + k) /\ \A i \in Nat : at + k + 1 - 1 + i = at + k + i
    OBVIOUS
  <2> HIDE DEF tail
  <2> QED BY <2>1, <2>2
<1>5. Joint(front, head, t) /\ Joint(all, front, tail)
  BY DEF Joint
<1> HIDE DEF head, tail, front, all
<1>6. /\ Bytes(front, at + k) /\ \A i \in 1 .. at : front[i] = head[i]
      /\ \A j \in 1 .. k : front[at + j] = t[j]
  BY <1>3, <1>5, Joins
<1>7. PICK m \in Nat : m = at + k
  OBVIOUS
<1>8. /\ Bytes(all, m + (n - m)) /\ \A i \in 1 .. m : all[i] = front[i]
      /\ \A j \in 1 .. n - m : all[m + j] = tail[j]
  BY <1>4, <1>5, <1>6, <1>7, n - m \in Nat, Joins
<1>9. \A i \in m + 1 .. n : all[i] = s[i]
  <2> TAKE i \in m + 1 .. n
  <2>1. PICK j \in 1 .. n - m : i = m + j
    <3>1. i - m \in 1 .. n - m /\ i = m + (i - m)
      BY <1>7
    <3> QED BY <3>1
  <2> QED BY <1>4, <1>7, <1>8, <2>1
<1>10. \A j \in 1 .. k : all[at + j] = t[j]
  <2> TAKE j \in 1 .. k
  <2>1. at + j \in 1 .. m
    BY <1>7
  <2> QED BY <1>6, <1>8, <2>1
<1>11. m + (n - m) = n
  BY <1>7
<1> QED BY <1>2, <1>3, <1>6, <1>7, <1>8, <1>9, <1>10, <1>11

\* The command buffer: what has been received of the line, and whether there is
\* a zero behind it.
Taken(c) == c.len - c.free
ZeroBeyond(c) ==
  c.len = RecvLength => \A i \in 1 .. c.len : i > Taken(c) => c.text[i] = NUL

\* m is c with k bytes more behind its n.
Longer(m, c, n, chunk, k) ==
  /\ Taken(m) = n + k
  /\ \A i \in 1 .. n : m.text[i] = c.text[i]
  /\ \A j \in 1 .. k : m.text[n + j] = chunk[j]

LEMMA AppendedAt ==
  ASSUME NEW c, CommandOK(c), NEW k \in Nat, NEW chunk, Bytes(chunk, k), 1 <= k, k <= RecvLength,
         NEW fresh \in Nat, NEW n \in Nat, n = Taken(c), NEW m, m = Appended(c, chunk, fresh)
  PROVE  /\ CommandOK(m) /\ Longer(m, c, n, chunk, k)
         /\ ZeroBeyond(c) => ZeroBeyond(m)
<1>1. PICK text \in Seq(Byte), len \in Nat, free \in Int, extra \in Nat :
        c = [text |-> text, len |-> len, free |-> free, chunk |-> extra]
  BY DEF CommandOK
<1>2. Len(text) = len /\ 0 < free /\ free <= len /\ RecvLength <= len /\ RecvLength \in Nat
  BY <1>1, RecvLengthAssumption DEF CommandOK
<1>3. n = len - free /\ c.text = text /\ c.len = len /\ c.free = free
  BY <1>1 DEF Taken
<1>4. chunk \in Seq(Byte) /\ Len(chunk) = k
  BY DEF Bytes
<1>5. CommandOK(m)
  BY <1>2, <1>4, AppendedFits
<1>6. Bytes(text, len)
  BY <1>2 DEF Bytes
<1>7. CASE free - k <= 0
  <2> DEFINE half  == [i \in 1 .. len |-> fresh]
             grown == text \o half
             size  == 2 * len
             left  == free - k + len
             more  == Copy(grown, size - left - k, chunk)
  <2>1. m = [text |-> more, len |-> size, free |-> left, chunk |-> extra]
    <3>1. Grows(c, k)
      BY <1>3, <1>7 DEF Grows
    <3>2. m = [c EXCEPT !.text = more, !.len = size, !.free = left]
      <4> HIDE <1>1
      <4> QED BY <1>3, <1>4, <3>1 DEF Appended
    <3> HIDE DEF more, size, left
    <3> QED BY <1>1, <3>2
  <2>2. m.text = more /\ m.len = size /\ m.free = left
    <3> HIDE DEF more, size, left
    <3> QED BY <2>1
  <2>3. size - left - k = n /\ size - left = n + k /\ n + k <= size /\ size = len + len
    BY <1>2, <1>3, <1>7
  <2>4. size # RecvLength
    BY <1>2, RecvLengthAssumption
  <2>5. Bytes(half, len)
    BY DEF Bytes, Byte
  <2>6. Joint(grown, text, half)
    BY DEF Joint
  <2> HIDE DEF half, grown
  <2>7. PICK l \in Nat : /\ l = len + len /\ Bytes(grown, l)
                        /\ \A i \in 1 .. len : grown[i] = text[i]
    <3>1. PICK e \in Nat : e = len
      OBVIOUS
    <3>2. Bytes(text, len) /\ Bytes(half, e) /\ Joint(grown, text, half)
      BY <1>6, <2>5, <2>6, <3>1
    <3>3. Bytes(grown, len + e) /\ \A i \in 1 .. len : grown[i] = text[i]
      BY <3>2, Joins
    <3> QED BY <3>1, <3>3
  <2>8. more = Copy(grown, n, chunk)
    BY <2>3
  <2> HIDE DEF more
  <2>9. n + k <= l
    BY <2>3, <2>7
  <2>10. /\ \A i \in 1 .. n : more[i] = grown[i]
         /\ \A j \in 1 .. k : more[n + j] = chunk[j]
    BY <2>7, <2>8, <2>9, CopyAt
  <2>11. \A i \in 1 .. n : i \in 1 .. len
    BY <1>2, <1>3
  <2>12. ZeroBeyond(m)
    BY <2>2, <2>4 DEF ZeroBeyond
  <2>13. Taken(m) = n + k
    BY <2>2, <2>3 DEF Taken
  <2> HIDE DEF size, left
  <2> QED BY <1>3, <1>5, <2>2, <2>7, <2>10, <2>11, <2>12, <2>13 DEF Longer
<1>8. CASE free - k > 0
  <2> DEFINE left == free - k
             more == Copy(text, len - left - k, chunk)
  <2>1. m = [text |-> more, len |-> len, free |-> left, chunk |-> extra]
    <3>1. ~ Grows(c, k) /\ free - k + 0 = left
      BY <1>3, <1>8 DEF Grows
    <3>2. m = [c EXCEPT !.text = more, !.len = len, !.free = left]
      <4> HIDE <1>1
      <4> QED BY <1>3, <1>4, <3>1 DEF Appended
    <3> HIDE DEF more, left
    <3> QED BY <1>1, <3>2
  <2>2. m.text = more /\ m.len = len /\ m.free = left
    <3> HIDE DEF more, left
    <3> QED BY <2>1
  <2>3. len - left - k = n /\ len - left = n + k /\ n + k <= len
    BY <1>2, <1>3, <1>8
  <2>4. more = Copy(text, n, chunk)
    BY <2>3
  <2> HIDE DEF more
  <2>5. /\ \A i \in 1 .. n : more[i] = text[i]
        /\ \A j \in 1 .. k : more[n + j] = chunk[j]
        /\ \A i \in n + k + 1 .. len : more[i] = text[i]
    BY <1>6, <2>3, <2>4, CopyAt
  <2>6. Taken(m) = n + k
    BY <2>2, <2>3 DEF Taken
  <2>7. ZeroBeyond(c) => ZeroBeyond(m)
    <3> SUFFICES ASSUME ZeroBeyond(c), len = RecvLength, NEW i \in 1 .. len, i > n + k
                 PROVE  more[i] = NUL
      BY <2>2, <2>6 DEF ZeroBeyond
    <3>1. i \in n + k + 1 .. len /\ i > n
      OBVIOUS
    <3>2. text[i] = NUL
      BY <1>3, <3>1 DEF ZeroBeyond
    <3> QED BY <2>5, <3>1, <3>2
  <2> HIDE DEF left
  <2> QED BY <1>3, <1>5, <2>2, <2>5, <2>6, <2>7 DEF Longer
<1> QED BY <1>2, <1>7, <1>8

\* From place i on, to place n, there are line ends only.
Ends(s, i, n) == \A j \in i .. n : s[j] \in Newline

Cleared(m, c, n) ==
  /\ Taken(m) = n
  /\ \A i \in 1 .. n : m.text[i] = IF Ends(c.text, i, n) THEN NUL ELSE c.text[i]

LEMMA TrimmedAt ==
  ASSUME NEW c, CommandOK(c), NEW n \in Nat, n = Taken(c), NEW m, m = Trimmed(c)
  PROVE  /\ CommandOK(m) /\ Cleared(m, c, n)
         /\ ZeroBeyond(c) => ZeroBeyond(m)
<1>1. CommandOK(m)
  BY TrimmedFits
<1> DEFINE text == [i \in DOMAIN c.text |->
                     IF i <= n /\ \A j \in i .. n : c.text[j] \in Newline
                       THEN NUL ELSE c.text[i]]
<1>2. m = [c EXCEPT !.text = text]
  BY DEF Trimmed, Taken
<1> HIDE DEF text
<1>3. m.text = text /\ m.len = c.len /\ m.free = c.free
  BY <1>2 DEF CommandOK
<1>4. /\ c.text \in Seq(Byte) /\ c.len \in Nat /\ DOMAIN c.text = 1 .. c.len /\ n <= c.len
  <2>1. c.text \in Seq(Byte) /\ c.len \in Nat /\ Len(c.text) = c.len /\ c.free \in Int /\ 0 < c.free
    BY DEF CommandOK
  <2> QED BY <2>1 DEF Taken
<1>5. \A i \in 1 .. c.len :
        text[i] = IF i <= n /\ \A j \in i .. n : c.text[j] \in Newline THEN NUL ELSE c.text[i]
  BY <1>4 DEF text
<1>6. \A i \in 1 .. n : i \in 1 .. c.len /\ i <= n
  BY <1>4
<1>7. Taken(m) = n
  BY <1>3 DEF Taken
<1>8. ZeroBeyond(c) => ZeroBeyond(m)
  <2> SUFFICES ASSUME ZeroBeyond(c), c.len = RecvLength, NEW i \in 1 .. c.len, i > n
               PROVE  text[i] = NUL
    BY <1>3, <1>7 DEF ZeroBeyond
  <2> QED BY <1>5 DEF ZeroBeyond
<1> QED BY <1>1, <1>3, <1>5, <1>6, <1>7, <1>8 DEF Ends, Cleared

-----------------------------------------------------------------------------
(***************************************************************************)
(* A request on its way: of the bytes r, the session has taken the first   *)
(* n, and the rest is on the wire, as far as it was not lost with the      *)
(* program.                                                                *)
(***************************************************************************)
OnTheWay(r, n) ==
  /\ n + Len(inbox) <= Len(r)
  /\ torn <=> n + Len(inbox) < Len(r)
  /\ \A j \in 1 .. Len(inbox) : inbox[j] = r[n + j]

\* The command buffer holds the beginning of the line, ...
Gathering(r, n) ==
  /\ session = "recv" /\ n < LineEnd(r)
  /\ Taken(command) = n
  /\ \A i \in 1 .. n : command.text[i] = r[i]
  /\ ZeroBeyond(command)

\* ... then all of it and a part of the payload, with the line ends at the end
\* of all this cleared.
Gathered(r, n) ==
  /\ session = "handle" /\ LineEnd(r) + command.chunk = n
  /\ Taken(command) = n
  /\ \A i \in 1 .. n : command.text[i] = IF Ends(r, i, n) THEN NUL ELSE r[i]
  /\ ZeroBeyond(command)

\* Taking k more bytes from the wire.
LEMMA WireMoves ==
  ASSUME inbox \in Seq(Byte), NEW r \in Seq(Byte), NEW n \in Nat, OnTheWay(r, n),
         NEW most \in Int, NEW chunk \in Received(inbox, most),
         inbox' = Rest(inbox, Len(chunk)), UNCHANGED torn
  PROVE  \E k \in Nat : /\ 1 <= k /\ k <= most /\ k = Len(chunk) /\ Bytes(chunk, k)
                        /\ n + k <= Len(r)
                        /\ \A j \in 1 .. k : chunk[j] = r[n + j]
                        /\ OnTheWay(r, n + k)'
<1>1. PICK l \in Nat, w \in Nat : l = Len(inbox) /\ w = Len(r)
  OBVIOUS
<1>2. /\ n + l <= w /\ (torn <=> n + l < w) /\ \A j \in 1 .. l : inbox[j] = r[n + j]
  BY <1>1 DEF OnTheWay
<1>3. PICK k \in Nat :
        /\ 1 <= k /\ k <= most /\ k <= l /\ k = Len(chunk)
        /\ Bytes(chunk, k) /\ Bytes(Rest(inbox, k), l - k)
        /\ \A j \in 1 .. k : chunk[j] = inbox[j]
        /\ \A j \in 1 .. l - k : Rest(inbox, k)[j] = inbox[k + j]
  BY <1>1, ReceivedAt
<1>4. inbox' = Rest(inbox, k)
  BY <1>3
<1>5. Len(inbox') = l - k
  BY <1>3, <1>4 DEF Bytes
<1>6. \A j \in 1 .. k : chunk[j] = r[n + j]
  BY <1>2, <1>3
<1>7. \A j \in 1 .. l - k : inbox'[j] = r[n + k + j]
  <2> TAKE j \in 1 .. l - k
  <2>1. k + j \in 1 .. l /\ n + (k + j) = n + k + j
    <3>1. k <= l
      BY <1>3
    <3> QED BY <3>1
  <2> QED BY <1>2, <1>3, <1>4, <2>1
<1>8. n + k + (l - k) = n + l /\ n + k <= w
  BY <1>2, <1>3
<1>9. OnTheWay(r, n + k)'
  BY <1>1, <1>2, <1>5, <1>7, <1>8 DEF OnTheWay
<1> QED BY <1>1, <1>3, <1>6, <1>8, <1>9

\* A chunk of the line: the session sees its end exactly when it is there.
LEMMA LineComes ==
  ASSUME BothOK, NEW r \in Seq(Byte), NEW e \in Nat, LineEnd(r) = e, 1 <= e, e <= Len(r), r[e] = LF,
         \A i \in 1 .. e - 1 : r[i] # LF,
         NEW n \in Nat, OnTheWay(r, n), Gathering(r, n), Recv, UNCHANGED torn
  PROVE  \E m \in Nat : OnTheWay(r, m)' /\ m <= Len(r) /\ (Gathering(r, m)' \/ Gathered(r, m)')
<1>1. PICK chunk \in Received(inbox, RecvLength) :
        \E fresh \in Unwritten(command, Len(chunk)) :
        /\ inbox' = Rest(inbox, Len(chunk))
        /\ \/ /\ LF \notin Range(chunk) /\ session' = "recv"
              /\ command' = Appended(command, chunk, fresh)
           \/ /\ LF \in Range(chunk) /\ session' = "handle"
              /\ command' = [Trimmed(Appended(command, chunk, fresh)) EXCEPT !.chunk = ChunkOf(chunk)]
  BY DEF Recv
<1>2. PICK fresh \in Unwritten(command, Len(chunk)) :
        /\ inbox' = Rest(inbox, Len(chunk))
        /\ \/ /\ LF \notin Range(chunk) /\ session' = "recv"
              /\ command' = Appended(command, chunk, fresh)
           \/ /\ LF \in Range(chunk) /\ session' = "handle"
              /\ command' = [Trimmed(Appended(command, chunk, fresh)) EXCEPT !.chunk = ChunkOf(chunk)]
  BY <1>1
<1>3. fresh \in Nat
  BY DEF Unwritten, NUL, JUNK
<1>4. inbox \in Seq(Byte) /\ CommandOK(command) /\ RecvLength \in Int
  BY RecvLengthAssumption DEF BothOK, WireOK, SessionOK
<1>5. PICK k \in Nat : /\ 1 <= k /\ k <= RecvLength /\ k = Len(chunk) /\ Bytes(chunk, k)
                       /\ n + k <= Len(r)
                       /\ \A j \in 1 .. k : chunk[j] = r[n + j]
                       /\ OnTheWay(r, n + k)'
  BY <1>2, <1>4, WireMoves
<1>6. /\ n < e /\ Taken(command) = n /\ ZeroBeyond(command)
      /\ \A i \in 1 .. n : command.text[i] = r[i]
  BY DEF Gathering
<1> DEFINE more == Appended(command, chunk, fresh)
<1>7. /\ CommandOK(more) /\ Taken(more) = n + k /\ ZeroBeyond(more)
      /\ \A i \in 1 .. n : more.text[i] = command.text[i]
      /\ \A j \in 1 .. k : more.text[n + j] = chunk[j]
  <2>1. more = Appended(command, chunk, fresh)
    OBVIOUS
  <2> HIDE DEF more
  <2>2. n = Taken(command) /\ Bytes(chunk, k) /\ 1 <= k /\ k <= RecvLength
    BY <1>5, <1>6
  <2>3. CommandOK(more) /\ Longer(more, command, n, chunk, k) /\ (ZeroBeyond(command) => ZeroBeyond(more))
    BY <1>3, <1>4, <2>1, <2>2, AppendedAt
  <2> QED BY <1>6, <2>3 DEF Longer
<1> HIDE DEF more
<1>8. PICK m \in Nat : m = n + k
  OBVIOUS
<1>9. \A i \in 1 .. m : more.text[i] = r[i]
  <2> TAKE i \in 1 .. m
  <2>1. CASE i <= n
    BY <1>6, <1>7, <2>1
  <2>2. CASE i > n
    <3>1. PICK j \in 1 .. k : i = n + j
      <4>1. i - n \in 1 .. k /\ i = n + (i - n)
        BY <1>8, <2>2
      <4> QED BY <4>1
    <3> QED BY <1>5, <1>7, <3>1
  <2> QED BY <2>1, <2>2
<1>10. chunk \in Seq(Byte) /\ DOMAIN chunk = 1 .. k
  BY <1>5 DEF Bytes
<1>11. LF \in Range(chunk) <=> e <= m
  <2>1. ASSUME LF \in Range(chunk) PROVE e <= m
    <3>1. PICK z \in 1 .. k : chunk[z] = LF
      BY <1>10, <2>1 DEF Range
    <3>2. r[n + z] = LF /\ n + z \in Nat /\ 1 <= n + z
      BY <1>5, <3>1
    <3>3. ~ (n + z < e)
      BY <3>2
    <3> QED BY <1>8, <3>2, <3>3
  <2>2. ASSUME e <= m PROVE LF \in Range(chunk)
    <3>1. PICK j \in 1 .. k : e = n + j
      <4>1. e - n \in 1 .. k /\ e = n + (e - n)
        BY <1>6, <1>8, <2>2
      <4> QED BY <4>1
    <3>2. chunk[j] = LF
      BY <1>5, <3>1
    <3> QED BY <1>10, <3>1, <3>2 DEF Range
  <2> QED BY <2>1, <2>2
<1>12. CASE LF \notin Range(chunk)
  <2>1. session' = "recv" /\ command' = more
    BY <1>2, <1>12 DEF more
  <2>2. m < e
    BY <1>11, <1>12
  <2>3. Gathering(r, m)'
    BY <1>7, <1>8, <1>9, <2>1, <2>2 DEF Gathering
  <2> QED BY <1>5, <1>8, <2>3
<1>13. CASE LF \in Range(chunk)
  <2>1. session' = "handle" /\ command' = [Trimmed(more) EXCEPT !.chunk = ChunkOf(chunk)]
    BY <1>2, <1>13 DEF more
  <2>2. PICK j \in Nat : j = e - n /\ 1 <= j /\ j <= k
    <3>1. e - n \in Nat /\ 1 <= e - n /\ e - n <= k
      BY <1>6, <1>8, <1>11, <1>13
    <3> QED BY <3>1
  <2>3. chunk[j] = LF /\ \A i \in 1 .. j - 1 : chunk[i] # LF
    <3>1. n + j = e
      BY <2>2
    <3>2. \A i \in 1 .. j - 1 : i \in 1 .. k /\ n + i \in 1 .. e - 1
      BY <2>2
    <3>3. j \in 1 .. k /\ chunk[j] = r[n + j]
      BY <1>5, <2>2
    <3>4. \A i \in 1 .. j - 1 : chunk[i] = r[n + i] /\ r[n + i] # LF
      BY <1>5, <3>2
    <3> QED BY <3>1, <3>3, <3>4
  <2>4. LineEnd(chunk) = j
    BY <1>5, <1>10, <2>2, <2>3, FirstIs
  <2>5. ChunkOf(chunk) = k - j
    BY <1>5, <2>4 DEF ChunkOf, LineEnd
  <2>6. PICK cut : cut = Trimmed(more)
    OBVIOUS
  <2>7. /\ CommandOK(cut) /\ Taken(cut) = m /\ ZeroBeyond(cut)
        /\ \A i \in 1 .. m : cut.text[i] = IF Ends(more.text, i, m) THEN NUL ELSE more.text[i]
    <3>1. CommandOK(cut) /\ Cleared(cut, more, m) /\ (ZeroBeyond(more) => ZeroBeyond(cut))
      BY <1>7, <1>8, <2>6, TrimmedAt
    <3> QED BY <1>7, <3>1 DEF Cleared
  <2>8. \A i \in 1 .. m : Ends(more.text, i, m) <=> Ends(r, i, m)
    <3> TAKE i \in 1 .. m
    <3>1. \A x \in i .. m : x \in 1 .. m
      OBVIOUS
    <3> QED BY <1>9, <3>1 DEF Ends
  <2>9. /\ command'.text = cut.text /\ command'.len = cut.len /\ command'.free = cut.free
        /\ command'.chunk = k - j
    <3>1. cut \in [text : Seq(Byte), len : Nat, free : Int, chunk : Nat]
      BY <2>7 DEF CommandOK
    <3>2. command' = [cut EXCEPT !.chunk = k - j]
      BY <2>1, <2>5, <2>6
    <3> QED BY <3>1, <3>2
  <2>10. Taken(command)' = m /\ ZeroBeyond(command)'
    BY <2>7, <2>9 DEF Taken, ZeroBeyond
  <2>11. e + (k - j) = m
    BY <1>8, <2>2
  <2>12. \A i \in 1 .. m : command'.text[i] = IF Ends(r, i, m) THEN NUL ELSE r[i]
    BY <1>9, <2>7, <2>8, <2>9
  <2>13. Gathered(r, m)'
    BY <2>1, <2>9, <2>10, <2>11, <2>12 DEF Gathered
  <2> QED BY <1>5, <1>8, <2>13
<1> QED BY <1>12, <1>13

-----------------------------------------------------------------------------
(***************************************************************************)
(* The words of a line.                                                    *)
(***************************************************************************)
Stopper == Blank \cup {NUL}

\* A word of one byte.
LEMMA WordIs ==
  ASSUME NEW b \in Seq(Byte), NEW p \in Nat, 1 <= p, p + 1 <= Len(b),
         b[p] \notin Stopper, b[p + 1] \in Stopper
  PROVE  WordEnd(b, p) = p + 1 /\ WordAt(b, p) = <<b[p]>>
<1>1. \A k \in p .. (p + 1) - 1 : k = p
  OBVIOUS
<1>2. First(b, p, Stopper) = p + 1
  BY <1>1, p + 1 \in Nat, p <= p + 1, FirstAt
<1>3. WordEnd(b, p) = p + 1
  BY <1>2 DEF WordEnd, Stopper
<1>4. PICK n \in Nat : n = Len(b)
  OBVIOUS
<1>5. /\ Bytes(SubSeq(b, p, p), p - p + 1)
      /\ \A k \in 1 .. p - p + 1 : SubSeq(b, p, p)[k] = b[p - 1 + k]
  BY <1>4, p <= n, Segment
<1>6. SubSeq(b, p, p) = <<b[p]>>
  <2> DEFINE q == SubSeq(b, p, p)
  <2>1. p - p + 1 = 1 /\ p - 1 + 1 = p
    OBVIOUS
  <2>2. PICK w \in Nat : w = p - p + 1
    BY <2>1
  <2>3. Bytes(q, w) /\ \A k \in 1 .. w : q[k] = b[p - 1 + k]
    BY <1>5, <2>2
  <2> HIDE DEF q
  <2>4. w = 1
    BY <2>1, <2>2
  <2>5. q[1] = b[p]
    BY <2>1, <2>3, <2>4
  <2>6. q = <<q[1]>>
    BY <2>3, <2>4 DEF Bytes
  <2> QED BY <2>5, <2>6 DEF q
<1>7. p + 1 - 1 = p
  OBVIOUS
<1> QED BY <1>3, <1>6, <1>7 DEF WordAt

\* Where the next one begins.
LEMMA NextIs ==
  ASSUME NEW b \in Seq(Byte), NEW p \in Nat, NEW w \in Nat, WordEnd(b, p) = w,
         NEW q \in Nat, w <= q, q <= Len(b), b[q] \notin Blank,
         \A k \in w .. q - 1 : b[k] \in Blank
  PROVE  put_null_terminator_unknown_size(b, p) = q
<1>1. PICK n \in Nat : n = Len(b)
  OBVIOUS
<1> DEFINE P(j) == b[j] \notin Blank /\ \A k \in w .. j - 1 : b[k] \in Blank
<1>2. put_null_terminator_unknown_size(b, p) = CHOOSE j \in w .. n : P(j)
  BY <1>1 DEF put_null_terminator_unknown_size
<1>3. q \in w .. n /\ P(q)
  BY <1>1
<1>4. \A j \in w .. n : P(j) => j = q
  <2> SUFFICES ASSUME NEW j \in w .. n, P(j) PROVE j = q
    OBVIOUS
  <2>1. ~ (j < q)
    <3> SUFFICES ASSUME j < q PROVE FALSE
      OBVIOUS
    <3>1. j \in w .. q - 1
      OBVIOUS
    <3> QED BY <3>1
  <2>2. ~ (q < j)
    <3> SUFFICES ASSUME q < j PROVE FALSE
      OBVIOUS
    <3>1. q \in w .. j - 1
      OBVIOUS
    <3> QED BY <3>1
  <2> QED BY <2>1, <2>2
<1> HIDE DEF P
<1> QED BY <1>2, <1>3, <1>4

\* The words, by their places.
LEMMA LineIs ==
  ASSUME NEW b \in Seq(Byte), NEW p \in 1 .. Len(b), NEW q \in 1 .. Len(b), NEW s \in 1 .. Len(b),
         1 <= Len(b),
         put_null_terminator_unknown_size(b, 1) = p,
         put_null_terminator_unknown_size(b, p) = q,
         put_null_terminator_unknown_size(b, q) = s
  PROVE  Line(b) = [cmd  |-> IF WordEnd(b, 1) = 2 THEN b[1] ELSE TEXT,
                    key  |-> WordAt(b, p), arg1 |-> WordAt(b, q), arg2 |-> WordAt(b, s),
                    rest |-> put_null_terminator_unknown_size(b, s)]
<1> DEFINE word  == [i \in DOMAIN b |-> WordAt(b, i)]
           after == [i \in DOMAIN b |-> put_null_terminator_unknown_size(b, i)]
<1>1. Line(b) = [cmd  |-> IF WordEnd(b, 1) = 2 THEN b[1] ELSE TEXT,
                 key  |-> word[after[1]],
                 arg1 |-> word[after[after[1]]],
                 arg2 |-> word[after[after[after[1]]]],
                 rest |-> after[after[after[after[1]]]]]
  BY DEF Line
<1>2. DOMAIN b = 1 .. Len(b) /\ 1 \in 1 .. Len(b)
  OBVIOUS
<1>3. after[1] = p /\ after[p] = q /\ after[q] = s /\ after[s] = put_null_terminator_unknown_size(b, s)
  BY <1>2
<1>4. word[p] = WordAt(b, p) /\ word[q] = WordAt(b, q) /\ word[s] = WordAt(b, s)
  BY <1>2
<1> HIDE DEF word, after
<1> QED BY <1>1, <1>3, <1>4

-----------------------------------------------------------------------------
(***************************************************************************)
(* The line of a request, as handle_command finds it: its first e bytes,   *)
(* and of a SET or ADD what came of the payload.                           *)
(***************************************************************************)
\* The first n bytes of r, with the line ends at the end of them cleared.
LineText(b, r, n) ==
  /\ b \in Seq(Byte) /\ n <= Len(b)
  /\ \A i \in 1 .. n : b[i] = IF Ends(r, i, n) THEN NUL ELSE r[i]

LEMMA KeptIs ==
  ASSUME NEW b, NEW r, NEW n \in Nat, LineText(b, r, n), NEW i \in 1 .. n, NEW j \in i .. n,
         r[j] \notin Newline
  PROVE  b[i] = r[i]
<1>1. ~ Ends(r, i, n)
  BY DEF Ends
<1> QED BY <1>1 DEF LineText

\* A command is a letter, and a blank or the line's end follows it.
LEMMA CommandIs ==
  ASSUME NEW c \in Calls, NEW r, NEW e \in Nat, LineForm(r, c, e),
         NEW n \in Nat, e <= n, NEW b, LineText(b, r, n)
  PROVE  b[1] = c.cmd /\ b[1] # NUL /\ Line(b).cmd = c.cmd
<1>1. c.cmd \notin Newline /\ c.cmd # NUL /\ c.cmd \notin Stopper
  BY CommandBytes DEF Blank, Stopper
<1>2. r[1] = c.cmd /\ r[2] \in {SP, CR} /\ 3 <= n /\ b \in Seq(Byte) /\ n <= Len(b)
  BY DEF LineForm, LineText
<1>3. b[1] = c.cmd
  BY <1>1, <1>2, KeptIs
<1>4. b[2] \in Stopper
  BY <1>2 DEF LineText, Stopper, Blank, Newline
<1>5. WordEnd(b, 1) = 2
  <2>1. PICK p \in Nat : p = 1
    OBVIOUS
  <2>2. WordEnd(b, p) = p + 1
    <3>1. 1 <= p /\ p + 1 <= Len(b) /\ b[p] \notin Stopper /\ b[p + 1] \in Stopper
      BY <1>1, <1>2, <1>3, <1>4, <2>1
    <3> QED BY <1>2, <3>1, WordIs
  <2> QED BY <2>1, <2>2
<1>6. Line(b).cmd = IF WordEnd(b, 1) = 2 THEN b[1] ELSE TEXT
  BY DEF Line
<1> QED BY <1>1, <1>3, <1>5, <1>6

\* From a one-byte word to the next: a blank is between them.
LEMMA WordThenNext ==
  ASSUME NEW b \in Seq(Byte), NEW p \in Nat, 1 <= p, p + 2 <= Len(b),
         b[p] \notin Stopper, b[p + 1] \in Blank, b[p + 2] \notin Blank
  PROVE  /\ WordAt(b, p) = <<b[p]>> /\ WordEnd(b, p) = p + 1
         /\ put_null_terminator_unknown_size(b, p) = p + 2
<1>1. p + 1 <= Len(b) /\ b[p + 1] \in Stopper
  BY DEF Stopper
<1>2. WordEnd(b, p) = p + 1 /\ WordAt(b, p) = <<b[p]>>
  BY <1>1, WordIs
<1>3. PICK w \in Nat, q \in Nat : w = p + 1 /\ q = p + 2
  OBVIOUS
<1>4. \A k \in w .. q - 1 : b[k] \in Blank
  <2>1. \A k \in w .. q - 1 : k = p + 1
    BY <1>3
  <2> QED BY <2>1
<1>5. put_null_terminator_unknown_size(b, p) = q
  BY <1>2, <1>3, <1>4, NextIs
<1> QED BY <1>2, <1>3, <1>5

\* The words of a SET or ADD: the key, TYPE and LENGTH.
LEMMA PutWords ==
  ASSUME NEW c \in Calls, PlainKey(c.key), NEW d \in 0 .. 9, NEW r, PutForm(r, c, d),
         NEW n \in Nat, 9 <= n, NEW b, LineText(b, r, n)
  PROVE  /\ Line(b).key = c.key
         /\ Line(b).arg1 = <<Digit(c.type)>> /\ Line(b).arg2 = <<Digit(d)>>
         /\ Line(b).rest = put_null_terminator_unknown_size(b, 7)
         /\ WordEnd(b, 7) = 8 /\ \A i \in 1 .. 7 : b[i] # NUL
<1>1. /\ c.cmd \notin Stopper /\ c.key[1] \notin Stopper /\ c.key = <<c.key[1]>>
      /\ Digit(c.type) \notin Stopper /\ Digit(d) \notin Stopper
  <2>1. c.key[1] \notin Blank /\ c.key[1] # NUL /\ c.key = <<c.key[1]>>
    BY CallIs DEF PlainKey
  <2>2. c.cmd \notin Stopper
    BY CommandBytes DEF Stopper
  <2>3. c.type \in 0 .. 9 /\ d \in 0 .. 9
    BY CallIs
  <2>4. Digit(c.type) \notin Stopper /\ Digit(d) \notin Stopper
    BY <2>3, DigitBytes DEF Stopper, Blank, Newline
  <2> QED BY <2>1, <2>2, <2>4 DEF Stopper
<1>2. b \in Seq(Byte) /\ 9 <= Len(b)
  BY DEF LineText
<1>3. /\ r[1] = c.cmd /\ r[2] = SP /\ r[3] = c.key[1] /\ r[4] = SP
      /\ r[5] = Digit(c.type) /\ r[6] = SP /\ r[7] = Digit(d) /\ r[8] = CR
  BY DEF PutForm
<1>4. \A i \in 1 .. 7 : b[i] = r[i]
  <2>1. r[7] \notin Newline
    BY <1>1, <1>3 DEF Stopper, Blank
  <2> QED BY <2>1, KeptIs
<1>5. /\ b[1] = c.cmd /\ b[2] = SP /\ b[3] = c.key[1] /\ b[4] = SP
      /\ b[5] = Digit(c.type) /\ b[6] = SP /\ b[7] = Digit(d)
  BY <1>3, <1>4
<1>6. b[8] \in Stopper /\ SP \in Blank /\ SP # NUL
  BY <1>3 DEF LineText, Stopper, Blank, Newline, SP, NUL
<1>7. \A i \in 1 .. 7 : b[i] # NUL
  BY <1>1, <1>5, <1>6 DEF Stopper
<1>8. PICK p1 \in Nat, p3 \in Nat, p5 \in Nat, p7 \in Nat, p8 \in Nat :
        p1 = 1 /\ p3 = 3 /\ p5 = 5 /\ p7 = 7 /\ p8 = 8
  OBVIOUS
<1>9. p3 = p1 + 2 /\ p5 = p3 + 2 /\ p7 = p5 + 2 /\ p8 = p7 + 1
  BY <1>8
<1>10. /\ b[p1] \notin Stopper /\ b[p1 + 1] \in Blank /\ b[p3] \notin Stopper /\ b[p3 + 1] \in Blank
       /\ b[p5] \notin Stopper /\ b[p5 + 1] \in Blank /\ b[p7] \notin Stopper /\ b[p7 + 1] \in Stopper
  BY <1>1, <1>5, <1>6, <1>8
<1>11. 1 <= p1 /\ 1 <= p3 /\ 1 <= p5 /\ 1 <= p7 /\ p7 + 1 <= Len(b) /\ p5 + 2 <= Len(b)
       /\ p3 + 2 <= Len(b) /\ p1 + 2 <= Len(b)
  BY <1>2, <1>8
<1>12. put_null_terminator_unknown_size(b, p1) = p3
  BY <1>2, <1>9, <1>10, <1>11, WordThenNext DEF Stopper
<1>13. put_null_terminator_unknown_size(b, p3) = p5 /\ WordAt(b, p3) = <<b[p3]>>
  BY <1>2, <1>9, <1>10, <1>11, WordThenNext DEF Stopper
<1>14. put_null_terminator_unknown_size(b, p5) = p7 /\ WordAt(b, p5) = <<b[p5]>>
  BY <1>2, <1>9, <1>10, <1>11, WordThenNext DEF Stopper
<1>15. WordEnd(b, p7) = p8 /\ WordAt(b, p7) = <<b[p7]>>
  BY <1>2, <1>9, <1>10, <1>11, WordIs
<1>16. /\ Line(b).key = WordAt(b, p3) /\ Line(b).arg1 = WordAt(b, p5) /\ Line(b).arg2 = WordAt(b, p7)
       /\ Line(b).rest = put_null_terminator_unknown_size(b, p7)
  <2>1. put_null_terminator_unknown_size(b, 1) = p3
    BY <1>8, <1>12
  <2>2. p3 \in 1 .. Len(b) /\ p5 \in 1 .. Len(b) /\ p7 \in 1 .. Len(b) /\ 1 <= Len(b)
    BY <1>2, <1>8
  <2> HIDE <1>8
  <2>3. Line(b) = [cmd  |-> IF WordEnd(b, 1) = 2 THEN b[1] ELSE TEXT,
                   key  |-> WordAt(b, p3), arg1 |-> WordAt(b, p5), arg2 |-> WordAt(b, p7),
                   rest |-> put_null_terminator_unknown_size(b, p7)]
    BY <1>2, <1>13, <1>14, <2>1, <2>2, LineIs
  <2> QED BY <2>3
<1>17. <<b[p3]>> = c.key /\ <<b[p5]>> = <<Digit(c.type)>> /\ <<b[p7]>> = <<Digit(d)>>
  BY <1>1, <1>5, <1>8
<1> QED BY <1>7, <1>8, <1>13, <1>14, <1>15, <1>16, <1>17

\* Where the search for a next argument stops: at the end of the line, when no
\* payload but line ends came with it, or at the payload's first byte that is
\* no blank.
LEMMA RestIs ==
  ASSUME NEW c \in Calls, PlainKey(c.key), NEW d \in 0 .. 9, NEW r, PutForm(r, c, d),
         NEW n \in Nat, 9 <= n, NEW b, LineText(b, r, n), NUL \in Range(b),
         NEW p, p = Line(b).rest
  PROVE  /\ p \in Nat /\ p <= Len(b)
         /\ Ends(r, 8, n) => p = 8
         /\ ~ Ends(r, 8, n) => /\ n >= 10 /\ p >= 10 /\ b[p] \notin Blank
                               /\ \A k \in 10 .. p - 1 : b[k] \in Blank
<1>1. /\ p = put_null_terminator_unknown_size(b, 7) /\ WordEnd(b, 7) = 8
      /\ \A i \in 1 .. 7 : b[i] # NUL
  BY PutWords
<1>2. b \in Seq(Byte) /\ 9 <= Len(b)
  BY DEF LineText
<1>3. PICK z \in 1 .. Len(b) : b[z] = NUL
  BY <1>2 DEF Range
<1>4. PICK p7 \in 1 .. z : p7 = 7
  <2>1. ~ (z \in 1 .. 7)
    BY <1>1, <1>3
  <2>2. 7 \in 1 .. z
    BY <2>1
  <2> QED BY <2>2
<1>5. /\ p \in p7 .. z /\ WordEnd(b, p7) <= p
      /\ b[p] \notin Blank /\ \A k \in WordEnd(b, p7) .. p - 1 : b[k] \in Blank
  <2>1. p = put_null_terminator_unknown_size(b, p7)
    BY <1>1, <1>4
  <2> HIDE <1>4
  <2> QED BY <1>2, <1>3, <2>1, NextWord
<1>6. p \in Nat /\ p <= Len(b) /\ 8 <= p /\ b[p] \notin Blank /\ \A k \in 8 .. p - 1 : b[k] \in Blank
  BY <1>1, <1>3, <1>4, <1>5
<1>7. ASSUME Ends(r, 8, n) PROVE p = 8
  <2>1. b[8] = NUL
    BY <1>7 DEF LineText
  <2>2. ~ (8 \in 8 .. p - 1)
    BY <1>6, <2>1 DEF Blank, Newline, NUL, SP, CR, LF
  <2> QED BY <1>6, <2>2
<1>8. ASSUME ~ Ends(r, 8, n) PROVE n >= 10 /\ p >= 10
  <2>1. r[8] = CR /\ r[9] = LF
    BY DEF PutForm
  <2>2. PICK j \in 8 .. n : r[j] \notin Newline
    BY <1>8 DEF Ends
  <2>3. j # 8 /\ j # 9
    BY <2>1, <2>2 DEF Newline
  <2>4. b[8] = CR /\ b[9] = LF
    <3>1. j \in 8 .. n /\ j \in 9 .. n
      BY <2>3
    <3> QED BY <2>1, <2>2, <3>1, KeptIs
  <2>5. p # 8 /\ p # 9
    BY <1>6, <2>4 DEF Blank, Newline
  <2> QED BY <1>6, <2>3, <2>5
<1> QED BY <1>6, <1>7, <1>8

\* Three cases: of the payload nothing but line ends came with the line; or it
\* begins as it should; or it begins with a blank.
LEMMA CameWith ==
  ASSUME NEW c \in Calls, PlainKey(c.key), NEW d \in 0 .. 9, NEW r, PutForm(r, c, d),
         NEW n \in Nat, 9 <= n, NEW b, LineText(b, r, n), NUL \in Range(b),
         NEW p, p = Line(b).rest
  PROVE  /\ p \in Nat /\ p <= Len(b)
         /\ \/ Ends(r, 8, n) /\ p = 8
            \/ /\ n >= 10 /\ ~ Ends(r, 10, n) /\ b[10] = r[10]
               /\ (r[10] \notin Blank /\ p = 10) \/ (r[10] \in Blank /\ p > 10 /\ b[p] \notin Blank)
<1>1. /\ p \in Nat /\ p <= Len(b)
      /\ Ends(r, 8, n) => p = 8
      /\ ~ Ends(r, 8, n) => /\ n >= 10 /\ p >= 10 /\ b[p] \notin Blank
                            /\ \A k \in 10 .. p - 1 : b[k] \in Blank
  BY RestIs
<1>2. ASSUME ~ Ends(r, 8, n) PROVE ~ Ends(r, 10, n)
  <2>1. r[8] \in Newline /\ r[9] \in Newline
    BY DEF PutForm, Newline
  <2>2. PICK j \in 8 .. n : r[j] \notin Newline
    BY <1>2 DEF Ends
  <2>3. j # 8 /\ j # 9
    BY <2>1, <2>2
  <2>4. j \in 10 .. n
    BY <2>3
  <2> QED BY <2>2, <2>4 DEF Ends
<1>3. ASSUME ~ Ends(r, 8, n)
      PROVE  /\ b[10] = r[10]
             /\ (r[10] \notin Blank /\ p = 10) \/ (r[10] \in Blank /\ p > 10 /\ b[p] \notin Blank)
  <2>1. b[10] = r[10]
    BY <1>1, <1>2, <1>3 DEF LineText
  <2>2. CASE p = 10
    BY <1>1, <1>3, <2>1, <2>2
  <2>3. CASE p # 10
    <3>1. p > 10 /\ 10 \in 10 .. p - 1
      BY <1>1, <1>3, <2>3
    <3> QED BY <1>1, <1>3, <2>1, <3>1
  <2> QED BY <2>2, <2>3
<1> QED BY <1>1, <1>2, <1>3

\* The payload's first bytes that came with the line, w of them, are lost in
\* part: what Eaten says.
Bitten(data, w) == w > 0 /\ (data[1] \in Blank \/ data[w] \in Newline)

\* Behind the value there are line ends only.
LEMMA BehindIs ==
  ASSUME NEW c \in Calls, NEW d \in 0 .. 9, NEW r, PutForm(r, c, d), NEW n \in Nat, n <= 11 + d
  PROVE  Ends(r, 10 + d, n)
<1>1. \A j \in 10 + d .. n : j = 10 + d \/ j = 11 + d
  OBVIOUS
<1>2. r[10 + d] \in Newline /\ r[11 + d] \in Newline
  BY DEF PutForm, Newline
<1> QED BY <1>1, <1>2 DEF Ends

LEMMA PrefixIs ==
  ASSUME NEW c \in Calls, PlainKey(c.key), NEW d \in 0 .. 9, NEW r, PutForm(r, c, d),
         NEW n \in Nat, 9 <= n, n <= 11 + d, NEW b, LineText(b, r, n), NUL \in Range(b),
         NEW p, p = Line(b).rest, NEW x \in Nat, n = 9 + x,
         NEW w \in Nat, w <= x, w <= d, w = x \/ w = d
  PROVE  /\ p - 1 + x > Len(b) => Bitten(c.data, w)
         /\ \A q : (\A j \in 1 .. x : q[j] = b[p - 1 + j])
                     => (~ Bitten(c.data, w) <=> \A j \in 1 .. w : q[j] = c.data[j])
<1>1. /\ p \in Nat /\ p <= Len(b)
      /\ \/ Ends(r, 8, n) /\ p = 8
         \/ /\ n >= 10 /\ ~ Ends(r, 10, n) /\ b[10] = r[10]
            /\ (r[10] \notin Blank /\ p = 10) \/ (r[10] \in Blank /\ p > 10 /\ b[p] \notin Blank)
  BY CameWith
<1>2. /\ \A j \in 1 .. d : r[9 + j] = c.data[j]
      /\ r[10 + d] \in Newline /\ r[11 + d] \in Newline
  BY DEF PutForm, Newline
<1>3. /\ b \in Seq(Byte) /\ n <= Len(b) /\ Len(b) \in Nat
      /\ \A i \in 1 .. n : b[i] = IF Ends(r, i, n) THEN NUL ELSE r[i]
  BY DEF LineText
<1>4. NUL \notin Newline
  BY DEF NUL, Newline, CR, LF
<1>5. CASE Ends(r, 8, n) /\ p = 8
  <2>1. ~ (p - 1 + x > Len(b))
    BY <1>3, <1>5
  <2>2. w > 0 => c.data[1] \in Newline /\ c.data[w] \in Newline
    <3> SUFFICES ASSUME w > 0 PROVE c.data[1] \in Newline /\ c.data[w] \in Newline
      OBVIOUS
    <3>1. 9 + 1 \in 8 .. n /\ 9 + w \in 8 .. n /\ 1 \in 1 .. d /\ w \in 1 .. d
      OBVIOUS
    <3> QED BY <1>2, <1>5, <3>1 DEF Ends
  <2>3. ASSUME NEW q, \A j \in 1 .. x : q[j] = b[p - 1 + j], w > 0 PROVE q[1] # c.data[1]
    <3>1. 1 \in 1 .. x /\ p - 1 + 1 = 8 /\ 8 \in 1 .. n
      BY <1>5, <2>3
    <3>2. q[1] = NUL
      BY <1>3, <1>5, <2>3, <3>1
    <3> QED BY <1>4, <2>2, <2>3, <3>2
  <2>4. w > 0 => Bitten(c.data, w) /\ 1 \in 1 .. w
    BY <2>2 DEF Bitten
  <2>5. w = 0 => ~ Bitten(c.data, w) /\ \A j \in 1 .. w : FALSE
    BY DEF Bitten
  <2> QED BY <2>1, <2>3, <2>4, <2>5
<1>6. CASE n >= 10 /\ ~ Ends(r, 10, n) /\ r[10] \notin Blank /\ p = 10
  <2>1. ~ (p - 1 + x > Len(b))
    BY <1>3, <1>6
  <2>2. w > 0 => c.data[1] \notin Blank
    <3> SUFFICES ASSUME w > 0 PROVE c.data[1] \notin Blank
      OBVIOUS
    <3>1. 1 \in 1 .. d /\ 9 + 1 = 10
      OBVIOUS
    <3> QED BY <1>2, <1>6, <3>1
  <2>3. ASSUME NEW q, \A j \in 1 .. x : q[j] = b[p - 1 + j], w > 0, c.data[w] \in Newline
        PROVE  q[w] # c.data[w]
    <3>1. w \in 1 .. d /\ w \in 1 .. x /\ p - 1 + w = 9 + w /\ 9 + w \in 1 .. n
      BY <1>6, <2>3
    <3>2. r[9 + w] \in Newline
      BY <1>2, <2>3, <3>1
    <3>3. Ends(r, 9 + w, n)
      <4>1. ASSUME NEW j \in 9 + w .. n PROVE r[j] \in Newline
        <5>1. CASE j = 9 + w
          BY <3>2, <5>1
        <5>2. CASE j # 9 + w
          <6>1. w = d /\ j \in 10 + d .. n
            BY <5>2
          <6> QED BY <6>1, BehindIs DEF Ends
        <5> QED BY <5>1, <5>2
      <4> QED BY <4>1 DEF Ends
    <3>4. q[w] = NUL
      BY <1>3, <2>3, <3>1, <3>3
    <3> QED BY <1>4, <2>3, <3>4
  <2>4. ASSUME NEW q, \A j \in 1 .. x : q[j] = b[p - 1 + j], c.data[w] \notin Newline, NEW j \in 1 .. w
        PROVE  q[j] = c.data[j]
    <3>1. j \in 1 .. x /\ j \in 1 .. d /\ w \in 1 .. d /\ p - 1 + j = 9 + j
          /\ 9 + j \in 1 .. n /\ 9 + w \in 9 + j .. n
      BY <1>6
    <3>2. r[9 + w] \notin Newline
      BY <1>2, <2>4, <3>1
    <3>3. ~ Ends(r, 9 + j, n)
      BY <3>1, <3>2 DEF Ends
    <3> QED BY <1>2, <1>3, <2>4, <3>1, <3>3
  <2>5. w = 0 => ~ Bitten(c.data, w) /\ \A j \in 1 .. w : FALSE
    BY DEF Bitten
  <2>6. w > 0 => (Bitten(c.data, w) <=> c.data[w] \in Newline) /\ w \in 1 .. w
    BY <2>2 DEF Bitten
  <2>7. w = 0 \/ w > 0
    OBVIOUS
  <2> QED BY <2>1, <2>3, <2>4, <2>5, <2>6, <2>7
<1>7. CASE n >= 10 /\ ~ Ends(r, 10, n) /\ b[10] = r[10] /\ r[10] \in Blank /\ p > 10 /\ b[p] \notin Blank
  <2>1. d > 0
    <3> SUFFICES ASSUME d = 0 PROVE FALSE
      OBVIOUS
    <3>1. Ends(r, 10 + d, n)
      BY BehindIs
    <3>2. 10 + d = 10
      OBVIOUS
    <3> QED BY <1>7, <3>1, <3>2
  <2>2. w > 0 /\ 1 \in 1 .. w /\ 1 \in 1 .. d /\ 1 \in 1 .. x /\ 9 + 1 = 10
    BY <1>7, <2>1
  <2>3. c.data[1] = r[10]
    BY <1>2, <2>2
  <2>4. Bitten(c.data, w)
    BY <1>7, <2>2, <2>3 DEF Bitten
  <2>5. ASSUME NEW q, \A j \in 1 .. x : q[j] = b[p - 1 + j] PROVE q[1] # c.data[1]
    <3>1. p - 1 + 1 = p
      BY <1>1
    <3>2. q[1] = b[p]
      BY <2>2, <2>5, <3>1
    <3> QED BY <1>7, <2>3, <3>2
  <2> QED BY <2>2, <2>4, <2>5
<1> QED BY <1>1, <1>5, <1>6, <1>7

-----------------------------------------------------------------------------
(***************************************************************************)
(* A payload being read.                                                   *)
(***************************************************************************)
LEMMA LesserIs ==
  ASSUME NEW a \in Nat, NEW b \in Nat
  PROVE  /\ Min({a, b}) \in Nat /\ Min({a, b}) <= a /\ Min({a, b}) <= b
         /\ Min({a, b}) = a \/ Min({a, b}) = b
<1>1. \E x \in {a, b} : \A y \in {a, b} : x <= y
  <2>1. CASE a <= b
    BY <2>1
  <2>2. CASE b <= a
    BY <2>2
  <2> QED BY <2>1, <2>2
<1> QED BY <1>1 DEF Min

LEMMA EatenIs ==
  ASSUME NEW x \in Nat, command.chunk = x, NEW d \in Nat, Len(call.data) = d
  PROVE  \E w \in Nat : /\ w = Min({x, d}) /\ w <= x /\ w <= d /\ (w = x \/ w = d)
                        /\ Eaten <=> Bitten(call.data, w)
<1>1. PICK w \in Nat : w = Min({x, d}) /\ w <= x /\ w <= d /\ (w = x \/ w = d)
  BY LesserIs
<1>2. Eaten <=> Bitten(call.data, w)
  BY <1>1 DEF Eaten, Bitten
<1> QED BY <1>1, <1>2

\* Of the payload, what came behind the line is as it was sent; what came with
\* it is so, if it is not eaten.
Putting(r, n) ==
  /\ session = "payload" /\ call.cmd \in {SET, ADD}
  /\ put.add = (call.cmd = ADD) /\ put.key = call.key /\ put.type = call.type
  /\ Len(put.payload) = Len(call.data) + 2
  /\ put.left <= Len(put.payload) /\ n + put.left = Len(r)
  /\ command.chunk <= Len(put.payload) - put.left
  /\ \A j \in command.chunk + 1 .. Len(put.payload) - put.left : put.payload[j] = r[9 + j]
  /\ ~ Eaten <=> \A j \in 1 .. Min({command.chunk, Len(call.data)}) : put.payload[j] = call.data[j]

\* What a session that has a line knows of it.
LEMMA GatheredIs ==
  ASSUME BothOK, NEW r \in Seq(Byte), NEW c \in Calls, NEW e \in Nat, LineForm(r, c, e), LineEnd(r) = e,
         NEW n \in Nat, n <= Len(r), Gathered(r, n)
  PROVE  /\ e <= n /\ n = e + command.chunk /\ LineText(command.text, r, n)
         /\ Line(command.text).cmd = c.cmd /\ command.text[1] # NUL
         /\ c.cmd \notin {SET, ADD} => n = Len(r) /\ command.chunk = 0
<1>1. /\ n = e + command.chunk /\ Taken(command) = n
      /\ \A i \in 1 .. n : command.text[i] = IF Ends(r, i, n) THEN NUL ELSE r[i]
  BY DEF Gathered
<1>2. PICK text \in Seq(Byte), len \in Nat, free \in Int, x \in Nat :
        command = [text |-> text, len |-> len, free |-> free, chunk |-> x]
  BY DEF BothOK, SessionOK, CommandOK
<1>3. Len(text) = len /\ 0 < free
  BY <1>2 DEF BothOK, SessionOK, CommandOK
<1>4. command.text = text /\ command.len = len /\ command.free = free /\ command.chunk = x
  BY <1>2
<1> HIDE <1>2
<1>5. n <= len /\ e <= n
  BY <1>1, <1>3, <1>4 DEF Taken
<1>6. LineText(command.text, r, n)
  BY <1>1, <1>3, <1>4, <1>5 DEF LineText
<1>7. c.cmd \notin {SET, ADD} => n = Len(r) /\ command.chunk = 0
  BY <1>1, <1>4, <1>5 DEF LineForm
<1> QED BY <1>1, <1>5, <1>6, <1>7, CommandIs

LEMMA PutStarts ==
  ASSUME BothOK, call \in Calls, PlainKey(call.key), call.cmd \in {SET, ADD},
         NEW args \in Arguments(call, ArgLists), NEW r, r = Request(call, args),
         NEW n \in Nat, n <= Len(r), Gathered(r, n), NUL \in Range(command.text),
         StartPut(Line(command.text)), UNCHANGED call
  PROVE  \/ fault' = "overread" /\ Eaten' /\ UNCHANGED <<inbox, outbox, closed, odd, state>>
         \/ Putting(r, n)' /\ UNCHANGED <<wire, command, store, answered>>
<1> DEFINE b == command.text
           line == Line(b)
<1>1. PICK d \in 0 .. 9 : d = Len(call.data)
  <2>1. PICK l \in Nat : l = Len(call.data) /\ l <= 9
    BY CallIs
  <2>2. \A k \in Nat : k <= 9 => k \in 0 .. 9
    OBVIOUS
  <2>3. l \in 0 .. 9
    BY <2>1, <2>2
  <2> QED BY <2>1, <2>3
<1>2. PICK e \in Nat : LineForm(r, call, e) /\ LineEnd(r) = e
  BY RequestLine
<1>3. PutForm(r, call, d) /\ e = 9 /\ r \in Seq(Byte) /\ Len(r) = 11 + d
  BY <1>1, <1>2, PutRequest DEF LineForm
<1>4. PICK x \in Nat : x = command.chunk
  BY DEF BothOK, SessionOK, CommandOK
<1>5. n = 9 + x /\ LineText(b, r, n) /\ line.cmd = call.cmd /\ 9 <= n /\ n <= 11 + d
  BY <1>2, <1>3, <1>4, GatheredIs
<1>6. /\ b \in Seq(Byte) /\ Len(b) = command.len
  BY DEF BothOK, SessionOK, CommandOK
<1>7. /\ line.key = call.key /\ line.arg1 = <<Digit(call.type)>> /\ line.arg2 = <<Digit(d)>>
  <2> HIDE DEF b
  <2> QED BY <1>3, <1>5, PutWords
<1>8. Number(line.arg2) = d /\ line.arg1[1] - Digit(0) = call.type /\ call.type \in 0 .. 2
  <2>1. call.type \in 0 .. 9 /\ call.type \in 0 .. 2
    BY CallIs
  <2>2. Number(<<Digit(d)>>) = d
    BY <2>1, DigitBytes DEF Number
  <2> QED BY <1>7, <2>1, <2>2, DigitBytes
<1> DEFINE p == line.rest
           last == p + x - 1
<1>9. p \in Nat /\ 8 <= p /\ p <= Len(b)
  <2> HIDE DEF b
  <2> DEFINE q == line.rest
  <2>2. /\ q \in Nat /\ q <= Len(b)
        /\ \/ Ends(r, 8, n) /\ q = 8
           \/ /\ n >= 10 /\ ~ Ends(r, 10, n) /\ b[10] = r[10]
              /\ (r[10] \notin Blank /\ q = 10) \/ (r[10] \in Blank /\ q > 10 /\ b[q] \notin Blank)
    BY <1>3, <1>5, CameWith DEF b
  <2> QED BY <2>2
<1>0. d \in Nat
  OBVIOUS
<1>10. PICK w \in Nat : /\ w = Min({x, d}) /\ w <= x /\ w <= d /\ (w = x \/ w = d)
                        /\ Eaten <=> Bitten(call.data, w)
  BY <1>0, <1>1, <1>4, EatenIs
<1>11. /\ p - 1 + x > Len(b) => Bitten(call.data, w)
       /\ \A q : (\A j \in 1 .. x : q[j] = b[p - 1 + j])
                   => (~ Bitten(call.data, w) <=> \A j \in 1 .. w : q[j] = call.data[j])
  <2>1. NUL \in Range(b) /\ p = Line(b).rest
    OBVIOUS
  <2>2. PutForm(r, call, d) /\ 9 <= n /\ n <= 11 + d /\ LineText(b, r, n) /\ n = 9 + x
    BY <1>3, <1>5
  <2>3. w <= x /\ w <= d /\ (w = x \/ w = d)
    BY <1>10
  <2> HIDE DEF b, p, line
  <2>4. /\ call \in Calls /\ PlainKey(call.key) /\ d \in 0 .. 9 /\ n \in Nat
        /\ x \in Nat /\ w \in Nat
    OBVIOUS
  <2> QED BY ONLY <2>1, <2>2, <2>3, <2>4, PrefixIs
<1>12. ~ (x > d + 2) /\ last \in Int /\ last = p - 1 + x
  BY <1>5, <1>9
<1>13. /\ last > command.len => Stop("overread")
       /\ ~ (last > command.len) =>
            /\ put' = [add     |-> line.cmd = ADD,
                       key     |-> line.key,
                       type    |-> line.arg1[1] - Digit(0),
                       payload |-> Copy(Zeros(d + 2), 0, SubSeq(b, p, last)),
                       left    |-> d + 2 - x]
            /\ session' = "payload"
            /\ UNCHANGED <<wire, command, store, answered>>
  <2>1. StartPut(line)
    OBVIOUS
  <2>2. /\ line.rest + command.chunk - 1 = last /\ Number(line.arg2) = d
        /\ line.rest = p /\ command.chunk = x /\ command.text = b
    BY <1>4, <1>8
  <2> HIDE DEF b, last, line, p
  <2>3. IF \/ line.rest + command.chunk - 1 > command.len
           \/ command.chunk > Number(line.arg2) + 2
          THEN Stop(IF line.rest + command.chunk - 1 > command.len THEN "overread" ELSE "overflow")
          ELSE
           /\ put' = [add     |-> line.cmd = ADD,
                      key     |-> line.key,
                      type    |-> line.arg1[1] - Digit(0),
                      payload |-> Copy(Zeros(Number(line.arg2) + 2), 0,
                                       SubSeq(command.text, line.rest, line.rest + command.chunk - 1)),
                      left    |-> Number(line.arg2) + 2 - command.chunk]
           /\ session' = "payload"
           /\ UNCHANGED <<wire, command, store, answered>>
    BY <2>1, Zenon DEF StartPut
  <2>4. IF last > command.len \/ x > d + 2
          THEN Stop(IF last > command.len THEN "overread" ELSE "overflow")
          ELSE
           /\ put' = [add     |-> line.cmd = ADD,
                      key     |-> line.key,
                      type    |-> line.arg1[1] - Digit(0),
                      payload |-> Copy(Zeros(d + 2), 0, SubSeq(b, p, last)),
                      left    |-> d + 2 - x]
           /\ session' = "payload"
           /\ UNCHANGED <<wire, command, store, answered>>
    BY <2>2, <2>3, Zenon
  <2> QED BY <1>12, <2>4, Zenon
<1> HIDE DEF line, p, last, b
<1>14. CASE last > command.len
  <2>1. Eaten
    BY <1>6, <1>10, <1>11, <1>12, <1>14
  <2>2. Stop("overread")
    BY <1>13, <1>14
  <2>3. command' = command
    BY <2>2 DEF Stop, state
  <2>4. Eaten'
    BY <2>1, <2>3 DEF Eaten
  <2> QED BY <2>2, <2>4 DEF Stop
<1>15. CASE ~ (last > command.len)
  <2> DEFINE part == SubSeq(b, p, last)
             all == Copy(Zeros(d + 2), 0, part)
  <2>1. Bytes(part, x) /\ \A j \in 1 .. x : part[j] = b[p - 1 + j]
    <3>1. PICK l \in Nat : l = last
      BY <1>9, <1>12
    <3>2. /\ Bytes(SubSeq(b, p, l), l - p + 1)
          /\ \A j \in 1 .. l - p + 1 : SubSeq(b, p, l)[j] = b[p - 1 + j]
      <4>1. 1 <= p /\ p <= l + 1 /\ l <= Len(b)
        BY <1>6, <1>9, <1>12, <1>15, <3>1
      <4> QED BY <1>6, <1>9, <4>1, Segment
    <3>3. l - p + 1 = x
      BY <1>9, <1>12, <3>1
    <3>4. SubSeq(b, p, l) = part
      BY <3>1
    <3> HIDE DEF part
    <3> QED BY <3>2, <3>3, <3>4
  <2> HIDE DEF part
  <2>2. PICK m \in Nat : m = d + 2
    OBVIOUS
  <2>3. Bytes(Zeros(m), m)
    BY ZerosIs DEF Bytes
  <2>4. /\ Bytes(Copy(Zeros(m), 0, part), m)
        /\ \A j \in 1 .. x : Copy(Zeros(m), 0, part)[0 + j] = part[j]
    <3>1. PICK at \in Nat : at = 0
      OBVIOUS
    <3>2. at + x <= m
      BY <1>12, <2>2, <3>1
    <3>3. /\ Bytes(Copy(Zeros(m), at, part), m)
          /\ \A j \in 1 .. x : Copy(Zeros(m), at, part)[at + j] = part[j]
      BY <2>1, <2>3, <3>2, CopyAt
    <3> QED BY <3>1, <3>3
  <2>5. all = Copy(Zeros(m), 0, part)
    BY <2>2
  <2> HIDE DEF all
  <2>6. Bytes(all, m) /\ \A j \in 1 .. x : all[j] = b[p - 1 + j]
    <3>1. \A j \in 1 .. x : 0 + j = j
      OBVIOUS
    <3> QED BY <2>1, <2>4, <2>5, <3>1
  <2>7. ~ Eaten <=> \A j \in 1 .. w : all[j] = call.data[j]
    BY <1>10, <1>11, <2>6
  <2>8. put' = [add |-> call.cmd = ADD, key |-> call.key, type |-> call.type,
                payload |-> all, left |-> d + 2 - x]
    BY <1>5, <1>7, <1>8, <1>13, <1>15 DEF all, part, line, b
  <2>9. /\ put'.add = (call.cmd = ADD) /\ put'.key = call.key /\ put'.type = call.type
        /\ put'.payload = all /\ put'.left = d + 2 - x
    BY <2>8
  <2> HIDE <2>8
  <2>10. session' = "payload" /\ UNCHANGED <<wire, command, store, answered>>
    BY <1>13, <1>15
  <2>11. Len(put'.payload) = m
    BY <2>6, <2>9 DEF Bytes
  <2>12. d + 2 - x <= d + 2 /\ n + (d + 2 - x) = 11 + d /\ x <= d + 2 - (d + 2 - x)
         /\ d + 2 - (d + 2 - x) = x
    BY <1>5
  <2>13. Eaten' <=> Eaten
    BY <2>10 DEF Eaten
  <2>14. \A j \in x + 1 .. x : all[j] = r[9 + j]
    OBVIOUS
  <2>15. /\ Len(put'.payload) = d + 2 /\ Len(put'.payload) - put'.left = x
         /\ command'.chunk = x /\ Len(call'.data) = d
    <3>1. m - put'.left = x
      BY <1>0, <2>2, <2>9, <2>12
    <3>2. command'.chunk = x
      BY <1>4, <2>10
    <3> QED BY ONLY <1>1, <2>2, <2>11, <3>1, <3>2, UNCHANGED call
  <2>16. Putting(r, n)'
    BY <1>1, <1>3, <1>10, <2>7, <2>9, <2>10, <2>12, <2>13, <2>14, <2>15 DEF Putting
  <2> QED BY <2>10, <2>16
<1> QED BY <1>14, <1>15

LEMMA PutContinues ==
  ASSUME BothOK, call \in Calls, PlainKey(call.key),
         NEW args \in Arguments(call, ArgLists), NEW r, r = Request(call, args),
         NEW n \in Nat, OnTheWay(r, n), Putting(r, n), RecvPayload, UNCHANGED <<call, torn>>
  PROVE  \E m \in Nat : m <= Len(r) /\ OnTheWay(r, m)' /\ Putting(r, m)'
<1>1. PICK d \in Nat : d = Len(call.data)
  BY CallIs
<1>2. PICK add \in BOOLEAN, key \in Seq(Byte), type \in Int, payload \in Seq(Byte), left \in Nat :
        put = [add |-> add, key |-> key, type |-> type, payload |-> payload, left |-> left]
  BY DEF BothOK, SessionOK, PutOK
<1>3. /\ put.add = add /\ put.key = key /\ put.type = type /\ put.payload = payload /\ put.left = left
  BY <1>2
<1>4. PICK x \in Nat, l \in Nat, size \in Nat : x = command.chunk /\ l = Len(payload) /\ size = Len(r)
  <2>1. r \in Seq(Byte)
    BY RequestBytes
  <2> QED BY <2>1 DEF BothOK, SessionOK, CommandOK
<1>5. PICK chunk \in Received(inbox, left) :
        /\ inbox' = Rest(inbox, Len(chunk))
        /\ put' = [put EXCEPT !.left = @ - Len(chunk),
                              !.payload = Copy(@, Len(@) - put.left, chunk)]
  BY <1>3 DEF RecvPayload
<1>6. PICK k \in Nat : /\ 1 <= k /\ k <= left /\ k = Len(chunk) /\ Bytes(chunk, k)
                       /\ n + k <= Len(r)
                       /\ \A j \in 1 .. k : chunk[j] = r[n + j]
                       /\ OnTheWay(r, n + k)'
  <2>1. inbox \in Seq(Byte) /\ r \in Seq(Byte) /\ left \in Int
    BY RequestBytes DEF BothOK, WireOK
  <2> QED BY <1>5, <2>1, WireMoves
<1>7. /\ l = d + 2 /\ left <= l /\ n + left = size /\ x <= l - left
      /\ \A j \in x + 1 .. l - left : payload[j] = r[9 + j]
  BY <1>1, <1>3, <1>4 DEF Putting
<1>8. size = 11 + d
  <2>1. PutForm(r, call, d)
    BY <1>1, PutRequest DEF Putting
  <2> QED BY <1>4, <2>1 DEF PutForm, Bytes
<1>9. PICK at \in Nat : at = l - left
  BY <1>7
<1>10. n = 9 + at /\ at + k <= l
  BY <1>6, <1>7, <1>8, <1>9
<1> DEFINE more == Copy(payload, at, chunk)
<1>11. put' = [add |-> add, key |-> key, type |-> type, payload |-> more, left |-> left - k]
  <2>1. Copy(payload, Len(payload) - put.left, chunk) = more
    BY <1>3, <1>4, <1>9
  <2> HIDE DEF more
  <2>2. Copy(put.payload, Len(put.payload) - put.left, chunk) = more
    BY <1>3, <2>1
  <2>3. put' = [put EXCEPT !.left = left - k, !.payload = more]
    BY <1>3, <1>5, <1>6, <2>2
  <2> QED BY <1>2, <2>3
<1>12. /\ Bytes(more, l) /\ \A i \in 1 .. at : more[i] = payload[i]
       /\ \A j \in 1 .. k : more[at + j] = chunk[j]
  <2>1. Bytes(payload, l)
    BY <1>4 DEF Bytes
  <2> QED BY <1>6, <1>10, <2>1, CopyAt
<1> HIDE DEF more
<1>13. /\ put'.add = add /\ put'.key = key /\ put'.type = type /\ put'.payload = more
       /\ put'.left = left - k
  BY <1>11
<1>14. \A j \in x + 1 .. at + k : more[j] = r[9 + j]
  <2> TAKE j \in x + 1 .. at + k
  <2>1. CASE j <= at
    <3>1. j \in x + 1 .. l - left /\ j \in 1 .. at
      BY <1>9, <2>1
    <3> QED BY <1>7, <1>12, <3>1
  <2>2. CASE j > at
    <3>1. PICK i \in 1 .. k : j = at + i
      <4>1. j - at \in 1 .. k /\ j = at + (j - at)
        BY <2>2
      <4> QED BY <4>1
    <3>2. n + i = 9 + j
      BY <1>10, <3>1
    <3> QED BY <1>6, <1>12, <3>1, <3>2
  <2> QED BY <2>1, <2>2
<1>15. PICK w \in Nat : w = Min({x, d}) /\ w <= x /\ (Eaten <=> Bitten(call.data, w))
  BY <1>1, <1>4, EatenIs
<1>16. ~ Eaten <=> \A j \in 1 .. w : more[j] = call.data[j]
  <2>1. ~ Eaten <=> \A j \in 1 .. w : payload[j] = call.data[j]
    BY <1>1, <1>3, <1>4, <1>15 DEF Putting
  <2>2. \A j \in 1 .. w : more[j] = payload[j]
    BY <1>7, <1>9, <1>12, <1>15
  <2> QED BY <2>1, <2>2
<1>17. UNCHANGED <<session, command, call>>
  BY DEF RecvPayload
<1>18. Eaten' <=> Eaten
  BY <1>17 DEF Eaten
<1>19. PICK m \in Nat : m = n + k
  OBVIOUS
<1>20. Len(put'.payload) = l
  BY <1>12, <1>13 DEF Bytes
<1>21. /\ left - k <= l /\ m + (left - k) = size /\ x <= l - (left - k) /\ l - (left - k) = at + k
  <2>1. k <= left /\ left <= l /\ n + left = size /\ x <= l - left
    BY <1>6, <1>7
  <2>2. /\ k \in Nat /\ left \in Nat /\ l \in Nat /\ n \in Nat /\ size \in Nat /\ x \in Nat
        /\ at \in Nat /\ m \in Nat
    OBVIOUS
  <2> QED BY ONLY <1>9, <1>19, <2>1, <2>2
<1>22. Putting(r, m)'
  <2>1. /\ session' = "payload" /\ call'.cmd \in {SET, ADD}
        /\ put'.add = (call'.cmd = ADD) /\ put'.key = call'.key /\ put'.type = call'.type
    BY <1>3, <1>13, <1>17 DEF Putting
  <2>2. Len(put'.payload) = Len(call'.data) + 2
    BY <1>1, <1>7, <1>17, <1>20
  <2>3. /\ put'.left <= Len(put'.payload) /\ m + put'.left = Len(r)
        /\ command'.chunk <= Len(put'.payload) - put'.left
    BY <1>4, <1>13, <1>17, <1>20, <1>21
  <2>4. \A j \in command'.chunk + 1 .. Len(put'.payload) - put'.left : put'.payload[j] = r[9 + j]
    BY <1>4, <1>13, <1>14, <1>17, <1>20, <1>21
  <2>5. ~ Eaten' <=> \A j \in 1 .. Min({command'.chunk, Len(call'.data)}) : put'.payload[j] = call'.data[j]
    BY <1>1, <1>4, <1>13, <1>15, <1>16, <1>17, <1>18
  <2> QED BY <2>1, <2>2, <2>3, <2>4, <2>5 DEF Putting
<1> QED BY <1>6, <1>19, <1>22

-----------------------------------------------------------------------------
(***************************************************************************)
(* The handlers' replies: LENGTH and TYPE are single digits, as long as    *)
(* the values in the store are short; and they stay short.                 *)
(***************************************************************************)
Brief(s) == s \in Seq(Byte) /\ Len(s) <= 9
Short(reply) == reply \in Replies /\ reply.type \in {NoType} \cup 0 .. 2 /\ Brief(reply.body)
ShortIn(s) == \A k \in DOMAIN s : s[k].type \in 0 .. 2 /\ Brief(s[k].body)

LEMMA BriefIs ==
  /\ Brief(<<>>)
  /\ \A a \in Byte : Brief(<<a>>)
  /\ \A a, b, c \in Byte : Brief(<<a, b, c>>)
BY DEF Brief

LEMMA ShortReplies ==
  /\ Short(Done) /\ Short(BadRequest) /\ Short(NotFound) /\ Short(KeyExists)
  /\ Short(ServerError) /\ Short(Ok(NoType, <<TEXT>>))
<1>1. TEXT \in Byte
  BY DEF TEXT, Byte
<1>2. Brief(<<>>) /\ Brief(<<TEXT>>)
  BY <1>1, BriefIs
<1> QED BY <1>2, RepliesAre DEF Short, Done, Ok, BadRequest, NotFound, KeyExists, ServerError

LEMMA GetShort ==
  ASSUME NEW s, StoreOK(s), ShortIn(s), NEW key
  PROVE  Short(memuncached_get(s, key))
<1>1. CASE key \in DOMAIN s
  <2>1. memuncached_get(s, key) = Ok(s[key].type, s[key].body)
    BY <1>1 DEF memuncached_get
  <2>2. s[key].type \in 0 .. 2 /\ Brief(s[key].body)
    BY <1>1 DEF ShortIn
  <2> QED BY <2>1, <2>2, GetIs DEF Short, Ok
<1>2. CASE key \notin DOMAIN s
  BY <1>2, ShortReplies DEF memuncached_get
<1> QED BY <1>1, <1>2

LEMMA WithShort ==
  ASSUME NEW s, ShortIn(s), NEW key, NEW value, value.type \in 0 .. 2, Brief(value.body)
  PROVE  ShortIn(With(s, key, value)) /\ ShortIn(Without(s, key))
BY DEF ShortIn, With, Without

LEMMA IncShort ==
  ASSUME NEW s, StoreOK(s), ShortIn(s), NEW key, NEW by \in Int, NEW initial \in Nat
  PROVE  ShortIn(memuncached_inc(s, key, by, initial))
<1>1. CASE key \in DOMAIN s /\ s[key].type # 2
  <2> DEFINE digit == Digit((Number(s[key].body) + by) % 10)
             value == [s[key] EXCEPT !.body = <<digit>>]
  <2>1. digit \in Byte
    BY NumberIsDigit DEF Digit, Byte
  <2> HIDE DEF digit
  <2>2. Brief(<<digit>>) /\ s[key] \in Values /\ s[key].type \in 0 .. 2
    BY <1>1, <2>1, BriefIs DEF StoreOK, ShortIn
  <2>3. value.type \in 0 .. 2 /\ value.body = <<digit>>
    BY <2>2 DEF Values
  <2>4. memuncached_inc(s, key, by, initial) = With(s, key, value)
    BY <1>1 DEF memuncached_inc, digit
  <2> HIDE DEF value
  <2> QED BY <2>2, <2>3, <2>4, WithShort
<1>2. CASE ~ (key \in DOMAIN s /\ s[key].type # 2)
  <2> DEFINE value == [type |-> 0, body |-> <<Digit(initial)>>]
  <2>1. Brief(<<Digit(initial)>>)
    BY BriefIs DEF Digit, Byte
  <2>2. value.type \in 0 .. 2 /\ Brief(value.body)
    BY <2>1
  <2>3. memuncached_inc(s, key, by, initial) = With(s, key, value)
    BY <1>2 DEF memuncached_inc
  <2> HIDE DEF value
  <2> QED BY <2>2, <2>3, WithShort
<1> QED BY <1>1, <1>2

LEMMA SttShort ==
  ASSUME NEW s, StoreOK(s)
  PROVE  Short(memuncached_stt(s))
<1> DEFINE keys == Cardinality(DOMAIN s)
           body == <<Digit(1), LF, Digit(keys)>>
<1>1. keys \in Nat
  BY FS_CardinalityType DEF StoreOK
<1> HIDE DEF keys
<1>2. Digit(1) \in Byte /\ LF \in Byte /\ Digit(keys) \in Byte
  BY <1>1 DEF Digit, LF, Byte
<1>3. Brief(body)
  BY <1>2, BriefIs
<1>4. memuncached_stt(s) = Ok(NoType, body)
  BY DEF memuncached_stt, keys
<1> HIDE DEF body
<1> QED BY <1>3, <1>4, SttIs DEF Short, Ok

LEMMA HandledShort ==
  ASSUME NEW line, NEW s, StoreOK(s), ShortIn(s)
  PROVE  Short(Handled(line, s).reply) /\ ShortIn(Handled(line, s).store)
<1> DEFINE offset  == IF line.arg1 = <<>> THEN 1 ELSE Number(line.arg1)
           initial == IF line.arg2 = <<>> THEN 1 ELSE Number(line.arg2)
           counted == memuncached_inc(s, line.key, IF line.cmd = INC THEN offset ELSE -offset, initial)
<1>1. StoreOK(counted) /\ ShortIn(counted)
  <2>1. offset \in Nat /\ initial \in Nat
    BY NumberIsDigit
  <2> HIDE DEF offset, initial
  <2>2. (IF line.cmd = INC THEN offset ELSE -offset) \in Int
    BY <2>1
  <2> QED BY <2>1, <2>2, IncIs, IncShort
<1>2. ShortIn(Without(s, line.key))
  BY DEF ShortIn, Without
<1>3. CASE line.cmd = GET
  <2>1. Handled(line, s) = [store |-> s, reply |-> memuncached_get(s, line.key)]
    BY <1>3 DEF Handled, GET, DEL, INC, DEC, STT
  <2> QED BY <2>1, GetShort
<1>4. CASE line.cmd = DEL
  <2>1. Handled(line, s) = [store |-> Without(s, line.key), reply |-> memuncached_get(s, line.key)]
    BY <1>4 DEF Handled, GET, DEL, INC, DEC, STT
  <2> QED BY <1>2, <2>1, GetShort
<1>5. CASE line.cmd \in {INC, DEC}
  <2>1. Handled(line, s) = [store |-> counted, reply |-> memuncached_get(counted, line.key)]
    BY <1>5 DEF Handled, GET, DEL, INC, DEC, STT
  <2> HIDE DEF counted
  <2> QED BY <1>1, <2>1, GetShort
<1>6. CASE line.cmd = STT
  <2>1. Handled(line, s) = [store |-> s, reply |-> memuncached_stt(s)]
    BY <1>6 DEF Handled, GET, DEL, INC, DEC, STT
  <2> QED BY <2>1, SttShort
<1>7. CASE line.cmd \notin {GET, DEL, INC, DEC, STT}
  <2>1. Handled(line, s) = [store |-> s, reply |-> Ok(NoType, <<TEXT>>)]
    BY <1>7 DEF Handled
  <2> QED BY <2>1, ShortReplies
<1> QED BY <1>3, <1>4, <1>5, <1>6, <1>7

-----------------------------------------------------------------------------
(***************************************************************************)
(* What the session does with a request.                                   *)
(***************************************************************************)
\* A turn that ends in a reply: the request has been taken to its last byte.
Answers ==
  /\ inbox = <<>> /\ ~ torn
  /\ ShortIn(store')
  /\ \E reply : Short(reply) /\ Write(reply)
  /\ Continue \/ (session' = "ended" /\ call.cmd = BYE)
  /\ UNCHANGED <<inbox, closed, odd, fault>>

\* Nothing of a request is left.
LEMMA AllTaken ==
  ASSUME inbox \in Seq(Byte), NEW r \in Seq(Byte), NEW n \in Nat, OnTheWay(r, n), n = Len(r)
  PROVE  inbox = <<>> /\ ~ torn
<1>1. PICK l \in Nat, size \in Nat : l = Len(inbox) /\ size = Len(r)
  OBVIOUS
<1>2. n + l <= size /\ (torn <=> n + l < size)
  BY <1>1 DEF OnTheWay
<1>3. l = 0 /\ ~ torn
  BY <1>1, <1>2
<1>4. inbox \in Seq(Byte) /\ Len(inbox) = 0
  BY <1>1, <1>3
<1>5. inbox = <<>>
  BY ONLY <1>4
<1> QED BY <1>3, <1>5

LEMMA SetAnswers ==
  ASSUME BothOK, ShortIn(store), call \in Calls, PlainKey(call.key),
         NEW args \in Arguments(call, ArgLists), NEW r, r = Request(call, args),
         NEW n \in Nat, OnTheWay(r, n), Putting(r, n), memuncached_set
  PROVE  Answers
<1>1. inbox = <<>> /\ ~ torn /\ put.left = 0
  <2>1. put.left \in Nat /\ put.left <= 0
    BY DEF memuncached_set, BothOK, SessionOK, PutOK
  <2>2. n + put.left = Len(r)
    BY DEF Putting
  <2>3. put.left = 0
    BY <2>1
  <2>4. n = Len(r)
    BY <2>2, <2>3
  <2>5. inbox \in Seq(Byte) /\ r \in Seq(Byte)
    BY RequestBytes DEF BothOK, WireOK
  <2> QED BY <2>3, <2>4, <2>5, AllTaken
<1>2. PICK d \in Nat : d = Len(call.data) /\ d <= 9
  BY CallIs
<1>3. put.type \in 0 .. 2
  BY CallIs DEF Putting
<1>4. Brief(Data)
  <2>1. PICK m \in Nat : m = Len(put.payload) /\ put.payload \in Seq(Byte)
    BY DEF BothOK, SessionOK, PutOK
  <2>2. m = d + 2
    BY <1>2, <2>1 DEF Putting
  <2>3. Data = SubSeq(put.payload, 1, d)
    <3>1. Len(put.payload) - 2 = d
      BY <2>1, <2>2
    <3> QED BY <3>1 DEF Data
  <2>4. Bytes(SubSeq(put.payload, 1, d), d - 1 + 1)
    <3>1. 1 <= d + 1 /\ d <= Len(put.payload) /\ 1 \in Nat
      BY <2>1, <2>2
    <3> QED BY <2>1, <3>1, Segment
  <2>5. d - 1 + 1 <= 9
    BY <1>2
  <2> QED BY <2>3, <2>4, <2>5 DEF Bytes, Brief
<1>5. Value.type \in 0 .. 2 /\ Brief(Value.body)
  <2>1. Brief(<<Digit(Number(Data))>>)
    <3>1. Digit(Number(Data)) \in Byte
      BY NumberIsDigit DEF Digit, Byte
    <3> QED BY <3>1, BriefIs
  <2> QED BY <1>3, <1>4, <2>1 DEF Value
<1>6. /\ ShortIn(store')
      /\ \E reply : Short(reply) /\ Write(reply)
  <2>1. CASE Write(KeyExists) /\ UNCHANGED store
    BY <2>1, ShortReplies
  <2>2. CASE Write(Done) /\ store' = With(store, put.key, Value)
    BY <1>5, <2>2, ShortReplies, WithShort
  <2> QED BY <1>3, <2>1, <2>2 DEF memuncached_set
<1> QED BY <1>1, <1>6 DEF memuncached_set, Answers

\* A line that is too long for the buffer, and has no zero behind it.
LEMMA Unterminated ==
  ASSUME BothOK, call \in Calls, PlainKey(call.key),
         NEW args \in Arguments(call, ArgLists), NEW r, r = Request(call, args),
         NEW n \in Nat, n <= Len(r), Gathered(r, n), NUL \notin Range(command.text)
  PROVE  command.len > RecvLength /\ command.chunk \in 1 .. Len(call.data)
<1>1. PICK e \in Nat : LineForm(r, call, e) /\ LineEnd(r) = e
  BY RequestLine
<1>2. r \in Seq(Byte)
  BY RequestBytes
<1>3. /\ e <= n /\ n = e + command.chunk /\ LineText(command.text, r, n)
      /\ call.cmd \notin {SET, ADD} => n = Len(r) /\ command.chunk = 0
  BY <1>1, <1>2, GatheredIs
<1>4. PICK text \in Seq(Byte), len \in Nat, free \in Int, x \in Nat :
        command = [text |-> text, len |-> len, free |-> free, chunk |-> x]
  BY DEF BothOK, SessionOK, CommandOK
<1>5. Len(text) = len /\ 0 < free /\ RecvLength <= len
  BY <1>4 DEF BothOK, SessionOK, CommandOK
<1>6. command.text = text /\ command.len = len /\ command.free = free /\ command.chunk = x
  BY <1>4
<1> HIDE <1>4
<1>7. \A i \in 1 .. len : text[i] # NUL
  <2>1. DOMAIN text = 1 .. len
    BY <1>5
  <2> QED BY <1>6, <2>1 DEF Range
<1>8. len # RecvLength
  <2> SUFFICES ASSUME len = RecvLength PROVE FALSE
    OBVIOUS
  <2>1. n = len - free
    BY <1>6 DEF Gathered, Taken
  <2>2. \A i \in 1 .. len : i > n => text[i] = NUL
    BY <1>6, <2>1 DEF Gathered, ZeroBeyond, Taken
  <2>3. len \in 1 .. len /\ len > n
    BY <1>5, <2>1, RecvLengthAssumption
  <2> QED BY <1>7, <2>2, <2>3
<1>9. r[n] \notin Newline
  <2> SUFFICES ASSUME r[n] \in Newline PROVE FALSE
    OBVIOUS
  <2>1. n \in 1 .. n /\ n \in 1 .. len
    <3>1. 1 <= n
      BY <1>1, <1>3 DEF LineForm
    <3>2. n <= len
      BY <1>3, <1>5, <1>6 DEF LineText
    <3> QED BY <3>1, <3>2
  <2>2. Ends(r, n, n)
    <3>1. \A j \in n .. n : j = n
      OBVIOUS
    <3> QED BY <3>1 DEF Ends
  <2>3. text[n] = NUL
    BY <1>3, <1>6, <2>1, <2>2 DEF LineText
  <2> QED BY <1>7, <2>1, <2>3
<1>10. x # 0
  <2> SUFFICES ASSUME x = 0 PROVE FALSE
    OBVIOUS
  <2>1. n = e /\ r[e] = LF
    BY <1>1, <1>3, <1>6 DEF LineForm
  <2> QED BY <1>9, <2>1 DEF Newline
<1>11. call.cmd \in {SET, ADD}
  BY <1>3, <1>6, <1>10
<1>12. PICK d \in Nat : d = Len(call.data)
  BY CallIs
<1>13. PutForm(r, call, d) /\ e = 9
  BY <1>1, <1>11, <1>12, PutRequest DEF LineForm
<1>14. /\ n <= 11 + d /\ n # 10 + d /\ n # 11 + d
  <2>1. n <= 11 + d
    BY <1>13 DEF PutForm, Bytes
  <2>2. r[10 + d] \in Newline /\ r[11 + d] \in Newline
    BY <1>13 DEF PutForm, Newline
  <2> QED BY <1>9, <2>1, <2>2
<1>15. x <= d /\ 1 <= x
  BY <1>3, <1>6, <1>10, <1>13, <1>14
<1>16. x \in 1 .. d
  BY <1>15
<1>17. len > RecvLength
  BY <1>5, <1>8, RecvLengthAssumption
<1> QED BY <1>6, <1>12, <1>16, <1>17

\* What undefined behaviour it can come to.
Cause ==
  \/ fault = "unterminated" /\ command.len > RecvLength /\ command.chunk \in 1 .. Len(call.data)
  \/ fault = "overread" /\ Eaten

LEMMA CommandAnswers ==
  ASSUME BothOK, ShortIn(store), call \in Calls, PlainKey(call.key),
         NEW args \in Arguments(call, ArgLists), NEW r, r = Request(call, args),
         NEW n \in Nat, n <= Len(r), OnTheWay(r, n), Gathered(r, n), handle_command, UNCHANGED call
  PROVE  \/ "refused" \in odd'
         \/ Cause' /\ UNCHANGED <<inbox, outbox, closed, odd, state>>
         \/ Putting(r, n)' /\ UNCHANGED <<wire, command, store, answered>>
         \/ Answers
<1>1. PICK e \in Nat : LineForm(r, call, e) /\ LineEnd(r) = e
  BY RequestLine
<1>2. r \in Seq(Byte) /\ inbox \in Seq(Byte)
  BY RequestBytes DEF BothOK, WireOK
<1> DEFINE line == Line(command.text)
<1>3. /\ line.cmd = call.cmd /\ command.text[1] # NUL
      /\ call.cmd \notin {SET, ADD} => n = Len(r)
  BY <1>1, <1>2, GatheredIs
<1>4. call.cmd \notin {SET, ADD} => inbox = <<>> /\ ~ torn
  BY <1>2, <1>3, AllTaken
<1>5. \/ NUL \notin Range(command.text) /\ Stop("unterminated")
      \/ /\ NUL \in Range(command.text)
         /\ \/ Refuse(line)
            \/ line.cmd \in {SET, ADD} /\ StartPut(line)
            \/ line.cmd = BYE /\ memuncached_bye
            \/ line.cmd \notin {SET, ADD, BYE} /\ Serve(line)
  <2>1. \/ NUL \notin Range(command.text) /\ Stop("unterminated")
        \/ /\ NUL \in Range(command.text) /\ command.text[1] # NUL
           /\ \/ ~ Acceptable(line) /\ Refuse(line)
              \/ /\ Acceptable(line)
                 /\ \/ line.cmd \in {SET, ADD} /\ StartPut(line)
                    \/ line.cmd = BYE /\ memuncached_bye
                    \/ line.cmd \notin {SET, ADD, BYE} /\ Serve(line)
    BY <1>3 DEF handle_command
  <2> HIDE DEF line
  <2> QED BY <2>1
<1>6. CASE NUL \notin Range(command.text) /\ Stop("unterminated")
  <2>1. command.len > RecvLength /\ command.chunk \in 1 .. Len(call.data)
    BY <1>6, Unterminated
  <2>2. Cause'
    BY <1>6, <2>1 DEF Stop, Cause, state
  <2> QED BY <1>6, <2>2 DEF Stop
<1>7. CASE Refuse(line)
  <2>1. CASE call.cmd \in {SET, ADD}
    BY <1>3, <1>7, <2>1 DEF Refuse
  <2>2. CASE call.cmd \notin {SET, ADD}
    BY <1>3, <1>4, <1>7, <2>2, ShortReplies DEF Refuse, Answers
  <2> QED BY <2>1, <2>2
<1>8. CASE NUL \in Range(command.text) /\ line.cmd \in {SET, ADD} /\ StartPut(line)
  BY <1>3, <1>8, PutStarts DEF Cause
<1>9. CASE line.cmd = BYE /\ memuncached_bye
  <2>1. call.cmd \notin {SET, ADD}
    BY <1>3, <1>9 DEF BYE, SET, ADD
  <2> QED BY <1>3, <1>4, <1>9, <2>1, ShortReplies DEF memuncached_bye, Answers
<1>10. CASE line.cmd \notin {SET, ADD, BYE} /\ Serve(line)
  <2>1. Short(Handled(line, store).reply) /\ ShortIn(Handled(line, store).store)
    BY HandledShort DEF BothOK, SessionOK
  <2> HIDE DEF line
  <2> QED BY <1>3, <1>4, <1>10, <2>1 DEF Serve, Answers
<1> QED BY <1>5, <1>6, <1>7, <1>8, <1>9, <1>10

-----------------------------------------------------------------------------
(***************************************************************************)
(* A reply as it is written, and as memuncached_recv reads it.             *)
(***************************************************************************)
HeaderEnd(a) == IF a.type = NoType THEN 8 ELSE 10

\* b bytes between a header of h and a zero and a line end.
ReplyForm(w, a, h, b) ==
  /\ Bytes(w, h + b + 3)
  /\ w[1] = a.code /\ w[2] = SP /\ w[3] = TEXT /\ w[4] = CR /\ w[5] = LF /\ w[6] = Digit(b)
  /\ a.type = NoType => h = 8
  /\ a.type # NoType => h = 10 /\ w[7] = SP /\ w[8] = Digit(a.type)
  /\ w[h - 1] = CR /\ w[h] = LF
  /\ \A j \in 1 .. b : w[h + j] = a.body[j]

LEMMA HeaderIs ==
  ASSUME NEW a, Short(a), NEW b \in Nat, b = Len(a.body), NEW h \in Nat, h = HeaderEnd(a)
  PROVE  LET w == Header(a) IN
         /\ Bytes(w, h)
         /\ w[1] = a.code /\ w[2] = SP /\ w[3] = TEXT /\ w[4] = CR /\ w[5] = LF /\ w[6] = Digit(b)
         /\ a.type # NoType => w[7] = SP /\ w[8] = Digit(a.type)
         /\ w[h - 1] = CR /\ w[h] = LF
<1>1. a.code \in Byte /\ SP \in Byte /\ TEXT \in Byte /\ Digit(b) \in Byte
  BY DEF Short, Replies, Codes, SP, TEXT, Digit, Byte
<1> DEFINE s1 == <<a.code, SP, TEXT>>
           s2 == <<Digit(b)>>
           s3 == <<SP, Digit(a.type)>>
           p1 == s1 \o CRLF
           p2 == p1 \o s2
<1>2. Bytes(s1, 3) /\ s1[1] = a.code /\ s1[2] = SP /\ s1[3] = TEXT
  BY <1>1 DEF Bytes
<1>3. Bytes(s2, 1) /\ s2[1] = Digit(b)
  BY <1>1, Pieces
<1>4. Header(a) = p2 \o (IF a.type = NoType THEN <<>> ELSE s3) \o CRLF
  BY b = Len(a.body) DEF Header
<1> HIDE DEF s1, s2
<1>5. Joint(p1, s1, CRLF) /\ Joint(p2, p1, s2)
  BY DEF Joint
<1> HIDE DEF p1, p2
<1>6. Bytes(p1, 5) /\ p1[1] = a.code /\ p1[2] = SP /\ p1[3] = TEXT /\ p1[4] = CR /\ p1[5] = LF
  BY <1>2, <1>5, Pieces, Joins
<1>7. /\ Bytes(p2, 6) /\ p2[1] = a.code /\ p2[2] = SP /\ p2[3] = TEXT /\ p2[4] = CR /\ p2[5] = LF
      /\ p2[6] = Digit(b)
  <2>1. /\ Bytes(p2, 5 + 1) /\ (\A j \in 1 .. 5 : p2[j] = p1[j]) /\ \A j \in 1 .. 1 : p2[5 + j] = s2[j]
    <3>1. Bytes(p1, 5) /\ Bytes(s2, 1) /\ Joint(p2, p1, s2)
      BY <1>3, <1>5, <1>6
    <3> QED BY ONLY <3>1, Joins, 5 \in Nat, 1 \in Nat
  <2>2. p2[6] = s2[1] /\ Bytes(p2, 6)
    BY ONLY <2>1
  <2> QED BY <1>3, <1>6, <2>1, <2>2
<1>8. CASE a.type = NoType
  <2> DEFINE w == p2 \o CRLF
  <2>1. p2 \o <<>> = p2
    BY <1>7, ConcatEmptySeq DEF Bytes
  <2>2. Header(a) = w
    BY <1>4, <1>8, <2>1
  <2>3. Joint(w, p2, CRLF)
    BY DEF Joint
  <2> HIDE DEF w
  <2>4. /\ Bytes(w, 8) /\ w[1] = a.code /\ w[2] = SP /\ w[3] = TEXT /\ w[4] = CR /\ w[5] = LF
        /\ w[6] = Digit(b) /\ w[7] = CR /\ w[8] = LF
    BY <1>7, <2>3, Pieces, Joins
  <2>5. h = 8 /\ h - 1 = 7
    BY <1>8 DEF HeaderEnd
  <2> QED BY <1>8, <2>2, <2>4, <2>5
<1>9. CASE a.type # NoType
  <2>1. Digit(a.type) \in Byte
    <3>1. a.type \in 0 .. 2
      BY <1>9 DEF Short
    <3> QED BY <3>1 DEF Digit, Byte
  <2>2. Bytes(s3, 2) /\ s3[1] = SP /\ s3[2] = Digit(a.type)
    BY <2>1, Pieces
  <2> DEFINE p3 == p2 \o s3
             w == p3 \o CRLF
  <2>3. Header(a) = w
    BY <1>4, <1>9
  <2> HIDE DEF s3
  <2>4. Joint(p3, p2, s3) /\ Joint(w, p3, CRLF)
    BY DEF Joint
  <2> HIDE DEF p3, w
  <2>5. /\ Bytes(p3, 8) /\ p3[1] = a.code /\ p3[2] = SP /\ p3[3] = TEXT /\ p3[4] = CR /\ p3[5] = LF
        /\ p3[6] = Digit(b) /\ p3[7] = SP /\ p3[8] = Digit(a.type)
    BY <1>7, <2>2, <2>4, Joins
  <2>6. /\ Bytes(w, 8 + 2) /\ (\A j \in 1 .. 8 : w[j] = p3[j]) /\ \A j \in 1 .. 2 : w[8 + j] = CRLF[j]
    <3>1. Bytes(p3, 8) /\ Bytes(CRLF, 2) /\ Joint(w, p3, CRLF)
      BY <2>4, <2>5, Pieces
    <3> QED BY ONLY <3>1, Joins, 8 \in Nat, 2 \in Nat
  <2>7. w[9] = CRLF[1] /\ w[10] = CRLF[2]
    BY ONLY <2>6
  <2>8. w[9] = CR /\ w[10] = LF
    BY <2>7, Pieces
  <2>9. h = 10 /\ h - 1 = 9 /\ h = 8 + 2
    BY <1>9 DEF HeaderEnd
  <2> QED BY <1>9, <2>3, <2>5, <2>6, <2>8, <2>9
<1> QED BY <1>8, <1>9

LEMMA ReplyIs ==
  ASSUME NEW a, Short(a), NEW b \in Nat, b = Len(a.body), NEW h \in Nat, h = HeaderEnd(a)
  PROVE  ReplyForm(RESPONSE_WRITE(a), a, h, b)
<1> DEFINE head == Header(a)
           q1 == head \o a.body
           q2 == q1 \o <<NUL>>
           w  == q2 \o CRLF
<1>1. RESPONSE_WRITE(a) = w
  BY DEF RESPONSE_WRITE
<1>2. /\ Bytes(head, h)
      /\ head[1] = a.code /\ head[2] = SP /\ head[3] = TEXT /\ head[4] = CR /\ head[5] = LF
      /\ head[6] = Digit(b)
      /\ a.type # NoType => head[7] = SP /\ head[8] = Digit(a.type)
      /\ head[h - 1] = CR /\ head[h] = LF
  BY HeaderIs
<1> HIDE DEF head
<1>3. Bytes(a.body, b) /\ Bytes(<<NUL>>, 1)
  BY Pieces DEF Short, Brief, Bytes, NUL, Byte
<1>4. Joint(q1, head, a.body) /\ Joint(q2, q1, <<NUL>>) /\ Joint(w, q2, CRLF)
  BY DEF Joint
<1> HIDE DEF q1, q2, w
<1>5. PICK m \in Nat, m1 \in Nat : m = h + b /\ m1 = m + 1
  OBVIOUS
<1>6. /\ Bytes(q1, h + b) /\ (\A j \in 1 .. h : q1[j] = head[j]) /\ \A j \in 1 .. b : q1[h + j] = a.body[j]
  <2>1. Bytes(head, h) /\ Bytes(a.body, b) /\ Joint(q1, head, a.body) /\ h \in Nat /\ b \in Nat
    BY <1>2, <1>3, <1>4
  <2> QED BY ONLY <2>1, Joins
<1>7. Bytes(q2, m + 1) /\ \A j \in 1 .. m : q2[j] = q1[j]
  BY <1>3, <1>4, <1>5, <1>6, Joins
<1>8. Bytes(w, m1 + 2) /\ \A j \in 1 .. m1 : w[j] = q2[j]
  <2>1. Bytes(q2, m1) /\ Bytes(CRLF, 2) /\ Joint(w, q2, CRLF) /\ m1 \in Nat /\ 2 \in Nat
    BY <1>4, <1>5, <1>7, Pieces
  <2> QED BY ONLY <2>1, Joins
<1>9. m1 + 2 = h + b + 3
  BY <1>5
<1>10. \A j \in 1 .. h : w[j] = head[j]
  <2> TAKE j \in 1 .. h
  <2>1. j \in 1 .. m /\ j \in 1 .. m1
    BY <1>5
  <2> QED BY <1>6, <1>7, <1>8, <2>1
<1>11. \A j \in 1 .. b : w[h + j] = a.body[j]
  <2> TAKE j \in 1 .. b
  <2>1. h + j \in 1 .. m /\ h + j \in 1 .. m1
    BY <1>5
  <2> QED BY <1>6, <1>7, <1>8, <2>1
<1>12. (a.type = NoType => h = 8) /\ (a.type # NoType => h = 10) /\ 8 <= h
  BY DEF HeaderEnd
<1>13. 1 \in 1 .. h /\ 2 \in 1 .. h /\ 3 \in 1 .. h /\ 4 \in 1 .. h /\ 5 \in 1 .. h /\ 6 \in 1 .. h
       /\ 7 \in 1 .. h /\ 8 \in 1 .. h /\ h - 1 \in 1 .. h /\ h \in 1 .. h
  BY <1>12
<1> QED BY <1>1, <1>2, <1>8, <1>9, <1>10, <1>11, <1>12, <1>13 DEF ReplyForm

\* A reply with a header of h bytes and a body of b.
ReplyHas(a, h, b) ==
  /\ Short(a) /\ h = HeaderEnd(a) /\ b \in 0 .. 9 /\ b = Len(a.body)
  /\ ReplyForm(RESPONSE_WRITE(a), a, h, b)

LEMMA GreaterIs ==
  /\ Max({NoType, 0}) = 0
  /\ \A n \in Nat : Max({n, 0}) = n
<1>1. NoType \in Int /\ NoType < 0
  BY DEF NoType
<1>2. \A x \in {NoType, 0} : (\A y \in {NoType, 0} : x >= y) <=> x = 0
  BY <1>1
<1>3. Max({NoType, 0}) = 0
  BY <1>2 DEF Max
<1>4. ASSUME NEW n \in Nat PROVE Max({n, 0}) = n
  <2>1. \A x \in {n, 0} : (\A y \in {n, 0} : x >= y) <=> x = n
    OBVIOUS
  <2> QED BY <2>1 DEF Max
<1> QED BY <1>3, <1>4

\* Of a reply, g bytes are in the buffer: those in front of the line that is
\* being read have been made strings; the others are as they were written.
Seen(r, a, g) ==
  /\ ParseOK(r) /\ Len(r.got) = g
  /\ g >= 1 => r.got[1] = a.code
  /\ \A j \in r.start .. g : r.got[j] = RESPONSE_WRITE(a)[j]
  /\ r.line = 0 => r.start = 1
  /\ r.line = 1 => r.start = 6 /\ 5 <= g
  /\ r.line = 2 => /\ r.start = HeaderEnd(a) + 1 /\ HeaderEnd(a) <= g
                   /\ r.body = HeaderEnd(a) + 1 /\ r.size = Len(a.body)
                   /\ r.type = Max({a.type, 0})
  /\ r.line >= 1 => r.code = a.code

\* No line that is complete is left unread.
Reading(r, a, g) ==
  /\ Seen(r, a, g)
  /\ r.line = 0 => g < 5
  /\ r.line = 1 => g < HeaderEnd(a)

LEMMA NothingRead == \A a : Reading(NoReply, a, 0) /\ NoReply.stale = FALSE /\ Len(NoReply.got) = 0
BY NoReplyIs DEF Reading, Seen, NoReply

Strings(g) == {s \in Seq(Byte) : Len(s) = g}

LEMMA SeenParts ==
  ASSUME NEW a, NEW g \in Nat, NEW r, Seen(r, a, g)
  PROVE  \E got \in Strings(g), line \in 0 .. 2, start \in Nat, stale \in BOOLEAN, payload \in Nat,
            code \in {0} \cup Codes, body \in Nat, size \in Nat, type \in Nat :
         /\ r = [got |-> got, line |-> line, start |-> start, stale |-> stale, payload |-> payload,
                 code |-> code, body |-> body, size |-> size, type |-> type]
         /\ Bytes(got, g) /\ start \in 1 .. g + 1
         /\ line = 2 => body >= 1 /\ body + payload = g + 1
<1>1. PICK got \in Seq(Byte), line \in 0 .. 2, start \in Nat, stale \in BOOLEAN, payload \in Nat,
           code \in {0} \cup Codes, body \in Nat, size \in Nat, type \in Nat :
        /\ r = [got |-> got, line |-> line, start |-> start, stale |-> stale, payload |-> payload,
                code |-> code, body |-> body, size |-> size, type |-> type]
        /\ start \in 1 .. Len(got) + 1
        /\ line = 2 => body >= 1 /\ body + payload = Len(got) + 1
  BY ParseParts DEF Seen
<1>2. Len(got) = g /\ got \in Strings(g)
  <2>1. r.got = got
    BY <1>1
  <2> QED BY <2>1 DEF Seen, Strings
<1>3. Bytes(got, g)
  BY <1>2 DEF Bytes
<1>4. start \in 1 .. g + 1 /\ (line = 2 => body >= 1 /\ body + payload = g + 1)
  BY <1>1, <1>2
<1>5. r = [got |-> got, line |-> line, start |-> start, stale |-> stale, payload |-> payload,
           code |-> code, body |-> body, size |-> size, type |-> type]
  BY <1>1
<1> QED BY ONLY <1>2, <1>3, <1>4, <1>5, Zenon

\* From place i to place n the two agree; k bytes are those of w behind place g.
Alike(s, w, i, n) == \A j \in i .. n : s[j] = w[j]
Behind(s, w, g, k) == \A j \in 1 .. k : s[j] = w[g + j]

\* A buffer with a chunk more.
LEMMA BufferIs ==
  ASSUME NEW g \in Nat, NEW k \in Nat, 1 <= k, NEW got, Bytes(got, g), NEW chunk, Bytes(chunk, k),
         NEW all, Joint(all, got, chunk), NEW w, NEW start \in Nat, 1 <= start,
         Alike(got, w, start, g), Behind(chunk, w, g, k),
         g >= 1 => got[1] = w[1], NEW n \in Nat, n = g + k
  PROVE  Bytes(all, n) /\ Alike(all, w, start, n) /\ all[1] = w[1]
<1>1. /\ Bytes(all, g + k) /\ (\A j \in 1 .. g : all[j] = got[j]) /\ \A j \in 1 .. k : all[g + j] = chunk[j]
  BY ONLY g \in Nat, k \in Nat, Bytes(got, g), Bytes(chunk, k), Joint(all, got, chunk), Joins
<1> USE DEF Alike, Behind
<1>2. \A j \in start .. n : all[j] = w[j]
  <2> TAKE j \in start .. n
  <2>1. CASE j <= g
    <3>1. j \in 1 .. g /\ j \in start .. g
      BY <2>1
    <3> QED BY <1>1, <3>1
  <2>2. CASE j > g
    <3>1. PICK i \in 1 .. k : j = g + i
      <4>1. j - g \in 1 .. k /\ j = g + (j - g)
        BY <2>2
      <4> QED BY <4>1
    <3> QED BY <1>1, <3>1
  <2> QED BY <2>1, <2>2
<1>3. all[1] = w[1]
  <2>1. CASE g >= 1
    <3>1. 1 \in 1 .. g
      BY <2>1
    <3> QED BY <1>1, <2>1, <3>1
  <2>2. CASE g = 0
    <3>1. 1 \in 1 .. k /\ g + 1 = 1
      BY <2>2
    <3> QED BY <1>1, <3>1
  <2> QED BY <2>1, <2>2
<1> QED BY <1>1, <1>2, <1>3

LEMMA MoreSeen ==
  ASSUME NEW a, NEW h \in Nat, h = HeaderEnd(a), NEW b \in Nat, ReplyForm(RESPONSE_WRITE(a), a, h, b),
         NEW g \in Nat, NEW r, Seen(r, a, g),
         NEW k \in Nat, 1 <= k, NEW chunk, Bytes(chunk, k),
         \A j \in 1 .. k : chunk[j] = RESPONSE_WRITE(a)[g + j],
         NEW m, m = More(r, chunk)
  PROVE  Seen(m, a, g + k) /\ m.line = r.line /\ m.stale = r.stale
<1>1. PICK got \in Strings(g), line \in 0 .. 2, start \in Nat, stale \in BOOLEAN, payload \in Nat,
           code \in {0} \cup Codes, body \in Nat, size \in Nat, type \in Nat :
        /\ r = [got |-> got, line |-> line, start |-> start, stale |-> stale, payload |-> payload,
                code |-> code, body |-> body, size |-> size, type |-> type]
        /\ Bytes(got, g) /\ start \in 1 .. g + 1
        /\ line = 2 => body >= 1 /\ body + payload = g + 1
  BY ONLY Seen(r, a, g), g \in Nat, SeenParts
<1>2. /\ r.got = got /\ r.line = line /\ r.start = start /\ r.stale = stale /\ r.payload = payload
      /\ r.code = code /\ r.body = body /\ r.size = size /\ r.type = type
  BY <1>1
<1> DEFINE all == got \o chunk
<1>3. chunk \in Seq(Byte) /\ Len(chunk) = k
  BY DEF Bytes
<1>4. Joint(all, got, chunk)
  BY DEF Joint
<1> HIDE DEF all
<1>5. /\ m.got = all /\ m.line = line /\ m.start = start /\ m.stale = stale
      /\ m.code = code /\ m.body = body /\ m.size = size /\ m.type = type
  <2>1. m = [r EXCEPT !.got = @ \o chunk, !.payload = IF r.line = 2 THEN @ + Len(chunk) ELSE @]
    BY DEF More
  <2> DEFINE count == IF line = 2 THEN payload + Len(chunk) ELSE payload
  <2>2. m = [r EXCEPT !.got = all, !.payload = count]
    BY <1>2, <2>1 DEF all
  <2> HIDE DEF count
  <2> QED BY <1>1, <2>2
<1>6. Bytes(got, g)
  BY <1>1
<1>7. 1 <= start
  BY <1>1
<1> DEFINE w == RESPONSE_WRITE(a)
<1>8. PICK n \in Nat : n = g + k
  OBVIOUS
<1>9. Alike(got, w, start, g)
  BY <1>2 DEF Seen, Alike
<1>10. w[1] = a.code /\ (g >= 1 => got[1] = w[1])
  BY <1>2 DEF Seen, ReplyForm
<1>11. Behind(chunk, w, g, k)
  BY DEF Behind
<1> HIDE DEF w
<1>12. Bytes(all, n) /\ Alike(all, w, start, n) /\ all[1] = a.code
  <2>1. g \in Nat /\ k \in Nat /\ n \in Nat /\ start \in Nat /\ 1 <= k /\ Bytes(chunk, k) /\ (g >= 1 => got[1] = w[1])
    BY <1>10
  <2>2. Bytes(all, n) /\ Alike(all, w, start, n) /\ all[1] = w[1]
    BY ONLY <2>1, <1>4, <1>6, <1>7, <1>8, <1>9, <1>11, BufferIs
  <2> QED BY <1>10, <2>2
<1>13. ParseOK(m)
  BY <1>3, MoreIs DEF Seen
<1>14. /\ line = 0 => start = 1
       /\ line = 1 => start = 6 /\ 5 <= g
       /\ line = 2 => /\ start = h + 1 /\ h <= g
                      /\ body = h + 1 /\ size = Len(a.body)
                      /\ type = Max({a.type, 0})
       /\ line >= 1 => code = a.code
  BY <1>2 DEF Seen
<1>15. Seen(m, a, n)
  <2>1. Len(m.got) = n
    BY <1>5, <1>12 DEF Bytes
  <2>2. g <= n
    BY <1>8
  <2>3. /\ line = 1 => 5 <= n
        /\ line = 2 => h <= n
    BY <1>14, <2>2
  <2> QED BY <1>5, <1>12, <1>13, <1>14, <2>1, <2>3 DEF Seen, Alike, w
<1> QED BY <1>2, <1>5, <1>8, <1>15

\* A line that has no line feed yet.
LEMMA NoLineFeed ==
  ASSUME NEW r \in Seq(Byte), NEW i \in Nat, 1 <= i, i <= Len(r) + 1,
         \A k \in i .. Len(r) : r[k] # LF
  PROVE  First(r, i, {LF}) > Len(r)
<1> DEFINE f == First(r, i, {LF})
<1>1. PICK n \in Nat : n = Len(r)
  OBVIOUS
<1>2. /\ f \in i .. n + 1
      /\ f <= n => r[f] \in {LF}
  <2>1. i \in Nat \ {0} /\ i <= Len(r) + 1
    BY <1>1
  <2> QED BY <1>1, <2>1, FirstPlace
<1>3. \A k \in i .. n : r[k] # LF
  BY <1>1
<1> HIDE DEF f
<1>4. f > n
  BY ONLY <1>2, <1>3
<1> QED BY <1>1, <1>4 DEF f

\* Where a line ends whose first line feed is at place e, when that is there.
LEMMA LineFeedAt ==
  ASSUME NEW g \in Nat, NEW got, Bytes(got, g), NEW start \in Nat, 1 <= start, start <= g + 1,
         NEW e \in Nat, start <= e, \A k \in start .. e - 1 : k <= g => got[k] # LF
  PROVE  /\ g < e => First(got, start, {LF}) > g
         /\ e <= g /\ got[e] = LF => First(got, start, {LF}) = e
<1>0. got \in Seq(Byte) /\ g = Len(got)
  BY DEF Bytes
<1>1. CASE g < e
  <2>1. \A k \in start .. g : got[k] # LF
    BY <1>1
  <2>2. \A k \in start .. Len(got) : got[k] # LF
    BY ONLY <2>1, <1>0, Zenon
  <2>3. start <= Len(got) + 1
    BY ONLY <1>0, start <= g + 1, Zenon
  <2>4. First(got, start, {LF}) > Len(got)
    BY ONLY <1>0, <2>2, <2>3, 1 <= start, start \in Nat, NoLineFeed, Zenon
  <2> QED BY ONLY <1>0, <1>1, <2>4
<1>2. CASE e <= g /\ got[e] = LF
  <2>1. \A k \in start .. e - 1 : got[k] \notin {LF}
    BY <1>2
  <2>2. e <= Len(got)
    BY ONLY <1>0, <1>2, Zenon
  <2>3. got[e] \in {LF}
    BY <1>2
  <2>4. First(got, start, {LF}) = e
    BY ONLY <1>0, <2>1, <2>2, <2>3, 1 <= start, start <= e, start \in Nat, e \in Nat, FirstAt, Zenon
  <2> QED BY <1>2, <2>4
<1> QED BY <1>1, <1>2

\* Two zeros are written, and nothing else.
Cut(cut, got, i, j) == cut = [got EXCEPT ![i] = NUL, ![j] = NUL]

LEMMA ZeroedAt ==
  ASSUME NEW g \in Nat, NEW got, Bytes(got, g), NEW i, NEW j, NEW cut, Cut(cut, got, i, j)
  PROVE  Bytes(cut, g) /\ \A k \in 1 .. g : k # i /\ k # j => cut[k] = got[k]
<1>1. Bytes(cut, g)
  BY ZeroedIs DEF Bytes, Cut
<1>2. DOMAIN got = 1 .. g
  BY DEF Bytes
<1> QED BY <1>1, <1>2 DEF Cut

\* The status line is complete once its five bytes are there.
LEMMA StatusSeen ==
  ASSUME NEW a, Short(a), NEW h \in Nat, NEW b \in Nat, ReplyForm(RESPONSE_WRITE(a), a, h, b),
         NEW g \in Nat, NEW r, Seen(r, a, g), NEW m, m = StatusLine(r)
  PROVE  Seen(m, a, g) /\ (m.line = 0 => g < 5) /\ m.stale = r.stale /\ r.line <= m.line
<1>1. PICK got \in Strings(g), line \in 0 .. 2, start \in Nat, stale \in BOOLEAN, payload \in Nat,
           code \in {0} \cup Codes, body \in Nat, size \in Nat, type \in Nat :
        /\ r = [got |-> got, line |-> line, start |-> start, stale |-> stale, payload |-> payload,
                code |-> code, body |-> body, size |-> size, type |-> type]
        /\ Bytes(got, g) /\ start \in 1 .. g + 1
        /\ line = 2 => body >= 1 /\ body + payload = g + 1
  BY ONLY Seen(r, a, g), g \in Nat, SeenParts
<1>2. r.got = got /\ r.line = line /\ r.start = start /\ r.stale = stale
  BY <1>1
<1> DEFINE w == RESPONSE_WRITE(a)
<1>3. /\ w[1] = a.code /\ w[2] = SP /\ w[3] = TEXT /\ w[4] = CR /\ w[5] = LF
      /\ a.code \in Codes
  BY DEF ReplyForm, Short, Replies
<1> HIDE DEF w
<1>4. Bytes(got, g)
  BY <1>1
<1>5. CASE line # 0
  <2>1. m = r
    BY <1>2, <1>5 DEF StatusLine
  <2> QED BY <1>2, <1>5, <2>1
<1>6. CASE line = 0
  <2>1. start = 1 /\ \A j \in 1 .. g : got[j] = w[j]
    BY <1>2, <1>6 DEF Seen, w
  <2>2. \A j \in 1 .. 4 : w[j] # LF
    BY <1>3 DEF Codes, SP, TEXT, CR, LF
  <2>3. CASE g < 5
    <3>1. End(r) > g
      <4>1. \A j \in 1 .. 5 - 1 : j <= g => got[j] # LF
        BY <2>1, <2>2
      <4>2. First(got, 1, {LF}) > g
        BY <1>4, <2>3, <4>1, LineFeedAt
      <4> QED BY <1>2, <2>1, <4>2 DEF End
    <3>2. m = r
      <4>1. End(r) > Len(r.got)
        BY <1>2, <1>4, <3>1 DEF Bytes
      <4> QED BY <4>1 DEF StatusLine
    <3> QED BY <1>2, <1>6, <2>3, <3>2
  <2>4. CASE g >= 5
    <3>1. End(r) = 5
      <4>1. \A j \in 1 .. 5 - 1 : j <= g => got[j] # LF
        BY <2>1, <2>2
      <4>2. got[5] = LF
        BY <1>3, <2>1, <2>4
      <4>3. 1 <= 1 /\ 1 <= g + 1 /\ 1 <= 5 /\ 5 <= g
        BY <2>4
      <4>4. First(got, 1, {LF}) = 5
        BY ONLY <1>4, <4>1, <4>2, <4>3, 1 \in Nat, 5 \in Nat, g \in Nat, LineFeedAt, Zenon
      <4> QED BY <1>2, <2>1, <4>4 DEF End
    <3> DEFINE cut == [got EXCEPT ![4] = NUL, ![2] = NUL]
               code1 == IF cut[1] \in Codes THEN cut[1] ELSE 0
    <3>2. Bytes(cut, g) /\ \A k \in 1 .. g : k # 4 /\ k # 2 => cut[k] = got[k]
      <4>1. Cut(cut, got, 4, 2)
        BY DEF Cut
      <4> HIDE DEF cut
      <4> QED BY ONLY <1>4, <4>1, g \in Nat, ZeroedAt
    <3>3. m = [r EXCEPT !.line = 1, !.got = cut, !.start = 6, !.code = code1]
      <4>1. r.line = 0 /\ ~ (5 > Len(r.got))
        BY <1>2, <1>4, <1>6, <2>4 DEF Bytes
      <4>2. r.start = 1 /\ r.got = got
        BY <1>2, <2>1
      <4>3. m = LET i == 5
                    cut1 == [r.got EXCEPT ![i - 1] = NUL, ![r.start + 1] = NUL]
                IN [r EXCEPT !.line = 1, !.got = cut1, !.start = i + 1,
                     !.code = IF cut1[r.start] \in Codes THEN cut1[r.start] ELSE 0]
        BY <3>1, <4>1 DEF StatusLine
      <4>4. 5 - 1 = 4 /\ 1 + 1 = 2 /\ 5 + 1 = 6
        OBVIOUS
      <4> QED BY ONLY <4>2, <4>3, <4>4
    <3>4. code1 = a.code
      <4>1. 1 \in 1 .. g
        BY <2>4
      <4> HIDE DEF cut
      <4>2. cut[1] = a.code
        <5>1. cut[1] = got[1]
          BY <3>2, <4>1
        <5> QED BY <1>3, <2>1, <4>1, <5>1
      <4> QED BY <1>3, <4>2
    <3> HIDE DEF cut, code1
    <3>5. m.got = cut /\ m.line = 1 /\ m.start = 6 /\ m.stale = stale /\ m.code = code1
      BY <1>1, <3>3
    <3>6. ParseOK(m)
      BY StatusLineIs DEF Seen
    <3>7. \A j \in 6 .. g : cut[j] = w[j]
      <4> TAKE j \in 6 .. g
      <4>1. j \in 1 .. g /\ j # 4 /\ j # 2
        OBVIOUS
      <4> QED BY <2>1, <3>2, <4>1
    <3>8. cut[1] = a.code
      <4>1. 1 \in 1 .. g
        BY <2>4
      <4> QED BY <1>3, <2>1, <3>2, <4>1
    <3>9. Len(m.got) = g
      BY <3>2, <3>5 DEF Bytes
    <3>10. Seen(m, a, g)
      BY <2>4, <3>4, <3>5, <3>6, <3>7, <3>8, <3>9 DEF Seen, w
    <3> QED BY <1>2, <1>6, <3>5, <3>10
  <2> QED BY <2>3, <2>4
<1> QED BY <1>5, <1>6

LEMMA NumberAt ==
  ASSUME NEW g \in Nat, NEW s, Bytes(s, g), NEW n \in Nat, n + 1 <= g,
         NEW d \in 0 .. 9, s[n + 1] = Digit(d)
  PROVE  Number(Rest(s, n)) = d
<1> DEFINE t == Rest(s, n)
<1>1. t = SubSeq(s, n + 1, g)
  BY DEF Rest, Bytes
<1>2. t # <<>> /\ t[1] = s[n + 1]
  BY <1>1 DEF Bytes
<1> HIDE DEF t
<1>3. IsDigit(Digit(d)) /\ Digit(d) - Digit(0) = d
  BY DigitBytes
<1>4. Number(t) = d
  BY <1>2, <1>3 DEF Number
<1> QED BY <1>4 DEF t

\* LENGTH and TYPE: no line feed, and a blank only in front of TYPE.
LEMMA LengthBytes ==
  ASSUME NEW a, Short(a), NEW h \in Nat, NEW b \in 0 .. 9, NEW w, ReplyForm(w, a, h, b)
  PROVE  /\ \A j \in 6 .. h - 1 : w[j] # LF
         /\ a.type = NoType => \A j \in 6 .. h - 1 : w[j] # SP
         /\ a.type # NoType => \A j \in 6 .. h - 1 : w[j] = SP <=> j = 7
<1>1. \A d \in 0 .. 9 : Digit(d) # LF /\ Digit(d) # SP
  BY DigitBytes
<1>2. CR # LF /\ SP # LF /\ CR # SP
  BY DEF CR, LF, SP
<1>3. w[6] = Digit(b) /\ w[h - 1] = CR
  BY DEF ReplyForm
<1>4. CASE a.type = NoType
  <2>1. h = 8 /\ w[7] = CR
    BY <1>3, <1>4 DEF ReplyForm
  <2>2. \A j \in 6 .. h - 1 : j = 6 \/ j = 7
    BY <2>1
  <2> QED BY <1>1, <1>2, <1>3, <1>4, <2>1, <2>2
<1>5. CASE a.type # NoType
  <2>1. h = 10 /\ w[7] = SP /\ w[8] = Digit(a.type) /\ w[9] = CR
    BY <1>3, <1>5 DEF ReplyForm
  <2>2. a.type \in 0 .. 9
    <3>1. a.type \in 0 .. 2
      BY <1>5 DEF Short
    <3> QED BY <3>1
  <2>3. \A j \in 6 .. h - 1 : j = 6 \/ j = 7 \/ j = 8 \/ j = 9
    BY <2>1
  <2> QED BY <1>1, <1>2, <1>3, <1>5, <2>1, <2>2, <2>3
<1> QED BY <1>4, <1>5

\* The place of that blank.
LEMMA BlankAt ==
  ASSUME NEW a, Short(a), NEW h \in Nat, NEW b \in 0 .. 9, NEW w, ReplyForm(w, a, h, b),
         NEW g \in Nat, h <= g, NEW got, Alike(got, w, 6, g)
  PROVE  /\ a.type = NoType => Max({j \in 6 .. h - 1 : got[j] = SP} \cup {0}) = 0
         /\ a.type # NoType => Max({j \in 6 .. h - 1 : got[j] = SP} \cup {0}) = 7
<1>1. \A j \in 6 .. h - 1 : got[j] = w[j]
  BY DEF Alike
<1> DEFINE S == {j \in 6 .. h - 1 : got[j] = SP}
<1>2. CASE a.type = NoType
  <2>1. S \cup {0} = {0, 0}
    BY <1>1, <1>2, LengthBytes
  <2>2. Max({0, 0}) = 0
    BY GreaterIs
  <2> QED BY <1>2, <2>1, <2>2
<1>3. CASE a.type # NoType
  <2>1. h = 10
    BY <1>3 DEF ReplyForm
  <2>2. S = {7}
    BY <1>1, <1>3, <2>1, LengthBytes
  <2>3. S \cup {0} = {7, 0}
    BY <2>2
  <2>4. Max({7, 0}) = 7
    BY GreaterIs
  <2> QED BY <1>3, <2>3, <2>4
<1> QED BY <1>2, <1>3

\* The second line is complete once the header is there.
LEMMA LengthSeen ==
  ASSUME NEW a, NEW h \in Nat, NEW b \in 0 .. 9, ReplyHas(a, h, b),
         NEW g \in Nat, NEW r, Seen(r, a, g), r.line = 0 => g < 5, NEW m, m = LengthLine(r)
  PROVE  Reading(m, a, g) /\ m.stale = r.stale /\ r.line <= m.line
<1>1. PICK got \in Strings(g), line \in 0 .. 2, start \in Nat, stale \in BOOLEAN, payload \in Nat,
           code \in {0} \cup Codes, body \in Nat, size \in Nat, type \in Nat :
        /\ r = [got |-> got, line |-> line, start |-> start, stale |-> stale, payload |-> payload,
                code |-> code, body |-> body, size |-> size, type |-> type]
        /\ Bytes(got, g) /\ start \in 1 .. g + 1
        /\ line = 2 => body >= 1 /\ body + payload = g + 1
  BY ONLY Seen(r, a, g), g \in Nat, SeenParts
<1>2. r.got = got /\ r.line = line /\ r.start = start /\ r.stale = stale /\ r.code = code
  BY <1>1
<1> DEFINE w == RESPONSE_WRITE(a)
<1> HIDE DEF w
<1>3. ReplyForm(w, a, h, b)
  BY DEF w, ReplyHas
<1>0. Short(a)
  BY DEF ReplyHas
<1>6. h = HeaderEnd(a) /\ b = Len(a.body)
  BY DEF ReplyHas
<1>4. CASE line # 1
  <2>1. m = r
    BY <1>2, <1>4 DEF LengthLine
  <2> QED BY <1>2, <1>4, <2>1 DEF Reading
<1>5. CASE line = 1
  <2>1. start = 6 /\ 5 <= g /\ Alike(got, w, 6, g) /\ code = a.code
    BY <1>2, <1>5 DEF Seen, w, Alike
  <2>2. \A j \in 6 .. h - 1 : j <= g => got[j] # LF
    <3>1. \A j \in 6 .. h - 1 : w[j] # LF
      BY ONLY <1>0, <1>3, h \in Nat, b \in 0 .. 9, LengthBytes
    <3> QED BY <2>1, <3>1 DEF Alike
  <2>3. h \in 8 .. 10
    BY <1>3 DEF ReplyForm
  <2>4. 1 <= 6 /\ 6 <= g + 1 /\ 6 <= h
    BY <2>1, <2>3
  <2>5. /\ g < h => First(got, 6, {LF}) > g
        /\ h <= g /\ got[h] = LF => First(got, 6, {LF}) = h
    BY ONLY <1>1, <2>2, <2>4, 6 \in Nat, h \in Nat, g \in Nat, LineFeedAt
  <2>6. End(r) = First(got, 6, {LF})
    BY <1>2, <2>1 DEF End
  <2>7. CASE g < h
    <3>1. Len(r.got) = g
      BY <1>1, <1>2 DEF Bytes
    <3>2. End(r) > Len(r.got)
      BY <2>5, <2>6, <2>7, <3>1
    <3>3. m = r
      BY <3>2 DEF LengthLine
    <3> QED BY <1>2, <1>5, <1>6, <2>7, <3>3 DEF Reading
  <2>8. CASE h <= g
    <3>1. got[h] = LF
      BY <1>3, <2>1, <2>3, <2>8 DEF ReplyForm, Alike
    <3>2. End(r) = h
      BY <2>5, <2>6, <2>8, <3>1
    <3> DEFINE blank == Max({j \in 6 .. h - 1 : got[j] = SP} \cup {0})
               cut   == [got EXCEPT ![h - 1] = NUL, ![blank] = NUL]
               type1 == IF blank = 0 THEN 0 ELSE Number(Rest(cut, blank))
               size1 == Number(Rest(cut, 5))
               left  == Len(cut) - h
    <3>3. m = [r EXCEPT !.line = 2, !.got = cut, !.start = h + 1, !.body = h + 1,
                 !.type = type1, !.size = size1, !.payload = left]
      <4>1. r.line = 1 /\ ~ (h > Len(r.got))
        BY <1>1, <1>2, <1>5, <2>8 DEF Bytes
      <4>2. m = LET i1     == h
                    blank1 == Max({j \in r.start .. i1 - 1 : r.got[j] = SP} \cup {0})
                    cut1   == [r.got EXCEPT ![i1 - 1] = NUL, ![blank1] = NUL]
                IN [r EXCEPT !.line = 2, !.got = cut1, !.start = i1 + 1, !.body = i1 + 1,
                     !.type = IF blank1 = 0 THEN 0 ELSE Number(Rest(cut1, blank1)),
                     !.size = Number(Rest(cut1, r.start - 1)),
                     !.payload = Len(cut1) - i1]
        BY <3>2, <4>1 DEF LengthLine
      <4>3. 6 - 1 = 5 /\ r.start = 6 /\ r.got = got
        BY <1>2, <2>1
      <4> QED BY ONLY <4>2, <4>3
    <3>4. (a.type = NoType => blank = 0) /\ (a.type # NoType => blank = 7)
      <4>1. Alike(got, w, 6, g)
        BY <2>1
      <4> QED BY ONLY <1>0, <1>3, <2>8, <4>1, h \in Nat, b \in 0 .. 9, g \in Nat, BlankAt
    <3>5. Cut(cut, got, h - 1, blank)
      BY DEF Cut
    <3> HIDE DEF blank, cut
    <3>6. Bytes(cut, g) /\ \A k \in 1 .. g : k # h - 1 /\ k # blank => cut[k] = got[k]
      BY ONLY <1>1, <3>5, g \in Nat, ZeroedAt
    <3>7. size1 = b
      <4>1. cut[5 + 1] = Digit(b) /\ 5 + 1 <= g
        <5>1. 6 \in 1 .. g /\ 6 # h - 1 /\ 6 # blank /\ 6 \in 6 .. g
          BY <2>3, <2>8, <3>4
        <5>2. cut[6] = got[6] /\ got[6] = w[6]
          BY <2>1, <3>6, <5>1 DEF Alike
        <5> QED BY <1>3, <5>1, <5>2 DEF ReplyForm
      <4>2. g \in Nat /\ 5 \in Nat /\ b \in 0 .. 9
        OBVIOUS
      <4>3. Number(Rest(cut, 5)) = b
        BY ONLY <3>6, <4>1, <4>2, NumberAt
      <4> QED BY <4>3
    <3>8. type1 = Max({a.type, 0})
      <4>1. CASE a.type = NoType
        <5>1. type1 = 0
          BY <3>4, <4>1
        <5> QED BY <4>1, <5>1, GreaterIs
      <4>2. CASE a.type # NoType
        <5>1. PICK t \in 0 .. 9 : t = a.type
          <6>1. a.type \in 0 .. 2
            BY <1>0, <4>2 DEF Short
          <6> QED BY <6>1
        <5>2. h = 10 /\ w[8] = Digit(t)
          BY <1>3, <4>2, <5>1 DEF ReplyForm
        <5>3. cut[7 + 1] = Digit(t) /\ 7 + 1 <= g
          <6>1. 8 \in 1 .. g /\ 8 # h - 1 /\ 8 # blank /\ 8 \in 6 .. g
            BY <2>8, <3>4, <4>2, <5>2
          <6>2. cut[8] = got[8] /\ got[8] = w[8]
            BY <2>1, <3>6, <6>1 DEF Alike
          <6> QED BY <5>2, <6>1, <6>2
        <5>4. g \in Nat /\ 7 \in Nat /\ t \in 0 .. 9
          OBVIOUS
        <5>5. Number(Rest(cut, 7)) = t
          BY ONLY <3>6, <5>3, <5>4, NumberAt
        <5>6. type1 = t
          BY <3>4, <4>2, <5>5
        <5> QED BY <5>1, <5>6, GreaterIs
      <4> QED BY <4>1, <4>2
    <3> HIDE DEF type1, size1, left
    <3>9. /\ m.got = cut /\ m.line = 2 /\ m.start = h + 1 /\ m.stale = stale /\ m.code = code
          /\ m.body = h + 1 /\ m.type = type1 /\ m.size = size1
      BY <1>1, <3>3
    <3>10. ParseOK(m)
      BY LengthLineIs DEF Seen
    <3>11. \A j \in h + 1 .. g : cut[j] = w[j]
      <4> TAKE j \in h + 1 .. g
      <4>1. j \in 1 .. g /\ j # h - 1 /\ j # blank /\ j \in 6 .. g
        BY <2>3, <3>4
      <4> QED BY <2>1, <3>6, <4>1 DEF Alike
    <3>12. cut[1] = a.code
      <4>1. 1 \in 1 .. g /\ 1 # h - 1 /\ 1 # blank
        BY <2>1, <2>3, <3>4
      <4>2. got[1] = a.code
        BY <1>2, <2>1 DEF Seen
      <4> QED BY <3>6, <4>1, <4>2
    <3>13. Len(m.got) = g
      BY <3>6, <3>9 DEF Bytes
    <3>14. Seen(m, a, g)
      BY <1>6, <2>1, <2>8, <3>7, <3>8, <3>9, <3>10, <3>11, <3>12, <3>13 DEF Seen, w
    <3> QED BY <1>2, <1>5, <3>9, <3>14 DEF Reading
  <2> QED BY <2>7, <2>8
<1> QED BY <1>4, <1>5

\* What stands behind a place is what stands there.
LEMMA CutOut ==
  ASSUME NEW n \in Nat, NEW h \in Nat, NEW b \in Nat, h + b <= n,
         NEW s, Bytes(s, n), NEW t, Bytes(t, b), Behind(t, s, h, b)
  PROVE  SubSeq(s, h + 1, h + b) = t
<1> DEFINE c == SubSeq(s, h + 1, h + b)
<1>1. c \in Seq(Byte) /\ Len(c) = b /\ \A j \in 1 .. b : c[j] = s[h + j]
  BY DEF Bytes
<1> HIDE DEF c
<1>2. t \in Seq(Byte) /\ Len(t) = b
  BY DEF Bytes
<1>3. \A j \in 1 .. b : c[j] = t[j]
  BY <1>1 DEF Behind
<1>4. Len(c) = Len(t) /\ \A j \in 1 .. Len(c) : c[j] = t[j]
  BY ONLY <1>1, <1>2, <1>3
<1>5. c = t
  BY ONLY <1>1, <1>2, <1>4, SeqEqual
<1> QED BY <1>5 DEF c

\* A chunk is read, and the lines it completes.
LEMMA ChunkSeen ==
  ASSUME NEW a, NEW h \in Nat, NEW b \in 0 .. 9, ReplyHas(a, h, b),
         NEW g \in Nat, NEW r, Reading(r, a, g),
         NEW k \in Nat, 1 <= k, NEW chunk, Bytes(chunk, k), Behind(chunk, RESPONSE_WRITE(a), g, k),
         NEW m, m = LengthLine(StatusLine(More(r, chunk)))
  PROVE  Reading(m, a, g + k) /\ m.stale = r.stale /\ r.line <= m.line
<1>1. PICK n \in Nat : n = g + k
  OBVIOUS
<1>2. PICK r1 : r1 = More(r, chunk)
  OBVIOUS
<1>3. PICK r2 : r2 = StatusLine(r1)
  OBVIOUS
<1>4. Seen(r, a, g) /\ b \in Nat
  BY DEF Reading
<1>5. Seen(r1, a, n) /\ r1.line = r.line /\ r1.stale = r.stale
  <2>1. \A j \in 1 .. k : chunk[j] = RESPONSE_WRITE(a)[g + j]
    BY DEF Behind
  <2>2. g \in Nat /\ k \in Nat /\ h \in Nat /\ h = HeaderEnd(a) /\ ReplyForm(RESPONSE_WRITE(a), a, h, b)
        /\ 1 <= k /\ Bytes(chunk, k)
    BY DEF ReplyHas
  <2>3. Seen(r1, a, g + k) /\ r1.line = r.line /\ r1.stale = r.stale
    BY ONLY <1>2, <1>4, <2>1, <2>2, MoreSeen
  <2> QED BY <1>1, <2>3
<1>6. Seen(r2, a, n) /\ (r2.line = 0 => n < 5) /\ r2.stale = r1.stale /\ r1.line <= r2.line
  <2>1. Short(a) /\ h \in Nat /\ b \in Nat /\ ReplyForm(RESPONSE_WRITE(a), a, h, b) /\ n \in Nat
    BY <1>4 DEF ReplyHas
  <2> QED BY ONLY <1>3, <1>5, <2>1, StatusSeen
<1>7. Reading(m, a, n) /\ m.stale = r2.stale /\ r2.line <= m.line
  <2>1. m = LengthLine(r2)
    BY <1>2, <1>3
  <2>2. ReplyHas(a, h, b) /\ h \in Nat /\ b \in 0 .. 9 /\ n \in Nat
    OBVIOUS
  <2>3. Seen(r2, a, n) /\ (r2.line = 0 => n < 5)
    BY <1>6
  <2> QED BY ONLY <2>1, <2>2, <2>3, LengthSeen
<1>8. r.line \in 0 .. 2 /\ r2.line \in 0 .. 2 /\ m.line \in 0 .. 2
  BY <1>4, <1>6, <1>7 DEF Reading, Seen, ParseOK, Parses
<1> QED BY <1>1, <1>5, <1>6, <1>7, <1>8

\* The reply is known to be complete exactly when all of it is there, and then
\* it is read for what was written.
ReadOf(m, a, n, size) ==
  /\ Enough(m) <=> n = size
  /\ ~ Underrun(m)
  /\ Len(m.got) = n
  /\ m.line < 2 => n < MaxHeader
  /\ Enough(m) => Parsed(m) = Outcome(call.cmd, a.code, Max({a.type, 0}), a.body)

LEMMA ReplyRead ==
  ASSUME NEW a, NEW h \in Nat, NEW b \in 0 .. 9, ReplyHas(a, h, b),
         NEW total \in Nat, total = h + b + 3,
         NEW n \in Nat, 1 <= n, n <= total, NEW m, Reading(m, a, n)
  PROVE  ReadOf(m, a, n, total)
<1>11. PICK w : w = RESPONSE_WRITE(a)
  OBVIOUS
<1>1. PICK got \in Strings(n), line \in 0 .. 2, start \in Nat, stale \in BOOLEAN, payload \in Nat,
           code \in {0} \cup Codes, body \in Nat, size \in Nat, type \in Nat :
        /\ m = [got |-> got, line |-> line, start |-> start, stale |-> stale, payload |-> payload,
                code |-> code, body |-> body, size |-> size, type |-> type]
        /\ Bytes(got, n) /\ start \in 1 .. n + 1
        /\ line = 2 => body >= 1 /\ body + payload = n + 1
  <2>1. Seen(m, a, n)
    BY DEF Reading
  <2> QED BY ONLY <2>1, n \in Nat, SeenParts
<1>2. /\ m.got = got /\ m.line = line /\ m.start = start /\ m.payload = payload /\ m.code = code
      /\ m.body = body /\ m.size = size /\ m.type = type
  BY <1>1
<1>0. Short(a) /\ ReplyForm(w, a, h, b)
  BY <1>11 DEF ReplyHas
<1>3. h \in 8 .. 10
  BY <1>0 DEF ReplyForm
<1>4. /\ line = 0 => n < 5
      /\ line = 1 => n < h
      /\ line = 2 => /\ start = h + 1 /\ body = h + 1 /\ size = b /\ type = Max({a.type, 0})
                     /\ code = a.code /\ h <= n
      /\ got[1] = a.code
      /\ Alike(got, w, start, n)
  BY <1>2, <1>11 DEF Reading, Seen, Alike, ReplyHas
<1>5. Enough(m) <=> n = h + b + 3
  <2>1. Enough(m) <=> line = 2 /\ payload >= size + 3
    BY <1>2 DEF Enough
  <2>2. line = 2 => payload = n - h
    <3>1. line = 2 => body + payload = n + 1 /\ body = h + 1
      BY <1>1, <1>4
    <3> QED BY ONLY <3>1, h \in Nat, n \in Nat, payload \in Nat, body \in Nat
  <2>3. n = h + b + 3 => line = 2
    <3>1. line \in 0 .. 2 /\ (line = 0 => n < 5) /\ (line = 1 => n < h)
      BY <1>4
    <3> QED BY ONLY <1>3, <3>1, b \in 0 .. 9, n \in Nat
  <2>4. line = 2 => size = b
    BY <1>4
  <2>5. n <= h + b + 3 /\ payload \in Nat /\ size \in Nat /\ line \in 0 .. 2
    OBVIOUS
  <2> QED BY ONLY <2>1, <2>2, <2>3, <2>4, <2>5, h \in Nat, n \in Nat, b \in 0 .. 9
<1>6. ~ Underrun(m)
  <2>1. a.code # LF
    BY <1>0 DEF Short, Replies, Codes, LF
  <2> QED BY <1>2, <1>4, <2>1 DEF Underrun
<1>7. Len(m.got) = n
  BY <1>1, <1>2 DEF Bytes
<1>8. m.line < 2 => n < MaxHeader
  BY <1>2, <1>3, <1>4 DEF MaxHeader
<1>9. ASSUME Enough(m) PROVE Parsed(m) = Outcome(call.cmd, a.code, Max({a.type, 0}), a.body)
  <2>1. n = h + b + 3 /\ line = 2
    BY <1>2, <1>5, <1>9 DEF Enough
  <2>2. SubSeq(got, h + 1, h + b) = a.body
    <3>1. Bytes(a.body, b)
      BY DEF ReplyHas, Short, Brief, Bytes
    <3>2. Behind(a.body, got, h, b)
      <4> SUFFICES \A j \in 1 .. b : a.body[j] = got[h + j]
        BY DEF Behind
      <4> TAKE j \in 1 .. b
      <4>1. h + j \in h + 1 .. n
        BY <2>1
      <4>2. got[h + j] = w[h + j]
        BY <1>4, <2>1, <4>1 DEF Alike
      <4> QED BY <1>0, <4>2 DEF ReplyForm
    <3>3. h + b <= n
      BY <2>1
    <3>4. b \in Nat /\ Bytes(got, n)
      BY <1>1
    <3> QED BY ONLY <3>1, <3>2, <3>3, <3>4, h \in Nat, n \in Nat, CutOut
  <2>3. m.body + m.size - 1 = h + b /\ m.body = h + 1
    <3>1. m.body = h + 1 /\ m.size = b
      BY <1>2, <1>4, <2>1
    <3> QED BY ONLY <3>1, h \in Nat, b \in 0 .. 9
  <2>4. m.code = a.code /\ m.type = Max({a.type, 0})
    BY <1>2, <1>4, <2>1
  <2>5. SubSeq(m.got, m.body, m.body + m.size - 1) = a.body
    BY <1>2, <2>2, <2>3
  <2> QED BY ONLY <2>4, <2>5 DEF Parsed
<1>12. Enough(m) <=> n = total
  BY <1>5
<1> QED BY ONLY <1>6, <1>7, <1>8, <1>9, <1>12 DEF ReadOf

-----------------------------------------------------------------------------
(***************************************************************************)
(* memuncached_recv with a reply on its way.                               *)
(***************************************************************************)
\* The first g bytes of what was written have been received.
Coming(out, w, g) == g + Len(out) = Len(w) /\ \A j \in 1 .. Len(out) : out[j] = w[g + j]

\* While a line may be read at a stale place, the buffer is small.
Awaiting(a, g) ==
  /\ outbox # <<>>
  /\ Coming(outbox, RESPONSE_WRITE(a), g)
  /\ Reading(rx, a, g)
  /\ rx.stale /\ rx.line < 2 => buffer_size <= 2 * MaxHeader

\* What the call returns, then.
Returned(a) ==
  /\ lib' = IF call.cmd = BYE THEN "gone" ELSE "idle"
  /\ closed' = (call.cmd = BYE)
  /\ result' = Outcome(call.cmd, a.code, Max({a.type, 0}), a.body)

\* Taking k more bytes of the reply.
LEMMA ReplyMoves ==
  ASSUME outbox \in Seq(Byte), NEW size \in Nat, NEW w, Bytes(w, size), NEW g \in Nat, Coming(outbox, w, g),
         NEW most \in Int, NEW chunk \in Received(outbox, most), NEW left, left = Rest(outbox, Len(chunk))
  PROVE  \E k \in Nat : /\ 1 <= k /\ k <= most /\ Len(chunk) = k /\ Bytes(chunk, k)
                        /\ g + k <= size /\ Behind(chunk, w, g, k)
                        /\ Coming(left, w, g + k)
                        /\ left = <<>> <=> g + k = size
<1>1. PICK l \in Nat : l = Len(outbox)
  OBVIOUS
<1>2. g + l = size /\ \A j \in 1 .. l : outbox[j] = w[g + j]
  BY <1>1 DEF Coming, Bytes
<1>3. PICK k \in Nat :
        /\ 1 <= k /\ k <= most /\ k <= l /\ k = Len(chunk)
        /\ Bytes(chunk, k) /\ Bytes(Rest(outbox, k), l - k)
        /\ \A j \in 1 .. k : chunk[j] = outbox[j]
        /\ \A j \in 1 .. l - k : Rest(outbox, k)[j] = outbox[k + j]
  BY <1>1, ReceivedAt
<1>4. left = Rest(outbox, k)
  BY <1>3
<1>5. Len(left) = l - k /\ left \in Seq(Byte)
  BY <1>3, <1>4 DEF Bytes
<1>6. Behind(chunk, w, g, k)
  BY <1>2, <1>3 DEF Behind
<1>7. \A j \in 1 .. l - k : left[j] = w[g + k + j]
  <2> TAKE j \in 1 .. l - k
  <2>1. k + j \in 1 .. l /\ g + (k + j) = g + k + j
    <3>1. k <= l
      BY <1>3
    <3> QED BY <3>1
  <2> QED BY <1>2, <1>3, <1>4, <2>1
<1>8. g + k + (l - k) = size /\ g + k <= size /\ (l - k = 0 <=> g + k = size)
  <2>1. g + l = size /\ k <= l
    BY <1>2, <1>3
  <2> QED BY ONLY <2>1, g \in Nat, k \in Nat, l \in Nat, size \in Nat
<1>9. Coming(left, w, g + k)
  <2>1. Len(w) = size
    BY DEF Bytes
  <2> QED BY <1>5, <1>7, <1>8, <2>1 DEF Coming
<1>10. left = <<>> <=> l - k = 0
  BY <1>5, EmptySeq
<1>11. 1 <= k /\ k <= most /\ Len(chunk) = k /\ Bytes(chunk, k)
  BY <1>3
<1>12. g + k <= size /\ (left = <<>> <=> g + k = size)
  BY <1>8, <1>10
<1> QED BY ONLY <1>6, <1>9, <1>11, <1>12, k \in Nat

\* Where realloc leaves the rest is no matter of what is read.
LEMMA Moved ==
  ASSUME NEW a, NEW g \in Nat, NEW r, Reading(r, a, g), NEW moved \in BOOLEAN,
         NEW m, m = [r EXCEPT !.stale = @ \/ moved]
  PROVE  Reading(m, a, g) /\ m.line = r.line
<1>1. PICK got \in Strings(g), line \in 0 .. 2, start \in Nat, stale \in BOOLEAN, payload \in Nat,
           code \in {0} \cup Codes, body \in Nat, size \in Nat, type \in Nat :
        /\ r = [got |-> got, line |-> line, start |-> start, stale |-> stale, payload |-> payload,
                code |-> code, body |-> body, size |-> size, type |-> type]
        /\ Bytes(got, g) /\ start \in 1 .. g + 1
        /\ line = 2 => body >= 1 /\ body + payload = g + 1
  <2>1. Seen(r, a, g)
    BY DEF Reading
  <2> QED BY ONLY <2>1, g \in Nat, SeenParts
<1>2. r.stale = stale
  BY <1>1
<1>3. PICK stale1 \in BOOLEAN : stale1 = (stale \/ moved)
  OBVIOUS
<1>4. m = [got |-> got, line |-> line, start |-> start, stale |-> stale1, payload |-> payload,
           code |-> code, body |-> body, size |-> size, type |-> type]
  BY <1>1, <1>2, <1>3
<1>5. got \in Seq(Byte) /\ Len(got) = g
  BY <1>1 DEF Bytes
<1>6. ParseOK(m)
  BY <1>1, <1>4, <1>5 DEF ParseOK, Parses
<1>7. /\ m.got = r.got /\ m.line = r.line /\ m.start = r.start /\ m.code = r.code /\ m.body = r.body
      /\ m.size = r.size /\ m.type = r.type
  BY <1>1, <1>4
<1> QED BY <1>6, <1>7 DEF Reading, Seen

LEMMA ReplySteps ==
  ASSUME ClientOK, lib = "call", "realloc" \notin odd, NEW a, Short(a), NEW g \in Nat, Awaiting(a, g),
         memuncached_recv
  PROVE  \/ /\ fault' = "stale" /\ buffer_size' <= 2 * MaxHeader
            /\ UNCHANGED <<inbox, outbox, closed, odd, client>>
         \/ outbox' = <<>> /\ Returned(a) /\ UNCHANGED <<inbox, odd, fault, call>>
         \/ "realloc" \in odd' /\ UNCHANGED <<inbox, fault, call>>
         \/ /\ \E n \in Nat : Awaiting(a, n)'
            /\ UNCHANGED <<inbox, closed, odd, fault, lib, call, result>>
<1>1. PICK chunk \in Received(outbox, buffer_size - Len(rx.got)) :
        LET r == LengthLine(StatusLine(More(rx, chunk))) IN
        \/ Len(r.got) > room /\ Crash("overflow")
        \/ rx.stale /\ rx.line < 2 /\ Crash("stale")
        \/ Underrun(r) /\ Crash("underrun")
        \/ /\ outbox' = Rest(outbox, Len(chunk))
           /\ \/ /\ Enough(r)
                 /\ Return(Parsed(r))
                 /\ rx' = NoReply
                 /\ UNCHANGED <<odd, buffer_size, room>>
              \/ /\ ~ Enough(r) /\ Full(r)
                 /\ Grow(r)
              \/ /\ ~ Enough(r) /\ ~ Full(r)
                 /\ rx' = r
                 /\ UNCHANGED <<closed, odd, lib, buffer_size, room, result>>
           /\ UNCHANGED <<inbox, fault, call>>
  BY Zenon DEF memuncached_recv
<1> DEFINE r == LengthLine(StatusLine(More(rx, chunk)))
<1> HIDE DEF r
<1>2. \/ Len(r.got) > room /\ Crash("overflow")
      \/ rx.stale /\ rx.line < 2 /\ Crash("stale")
      \/ Underrun(r) /\ Crash("underrun")
      \/ /\ outbox' = Rest(outbox, Len(chunk))
         /\ \/ /\ Enough(r)
               /\ Return(Parsed(r))
               /\ rx' = NoReply
               /\ UNCHANGED <<odd, buffer_size, room>>
            \/ /\ ~ Enough(r) /\ Full(r)
               /\ Grow(r)
            \/ /\ ~ Enough(r) /\ ~ Full(r)
               /\ rx' = r
               /\ UNCHANGED <<closed, odd, lib, buffer_size, room, result>>
         /\ UNCHANGED <<inbox, fault, call>>
  BY ONLY <1>1 DEF r
<1> HIDE <1>1
<1>3. PICK h \in Nat, b \in 0 .. 9 : ReplyHas(a, h, b)
  <2>1. PICK l \in 0 .. 9 : l = Len(a.body)
    <3>1. PICK l \in Nat : l = Len(a.body) /\ l <= 9
      BY DEF Short, Brief
    <3>2. \A k \in Nat : k <= 9 => k \in 0 .. 9
      OBVIOUS
    <3>3. l \in 0 .. 9
      BY <3>1, <3>2
    <3> QED BY <3>1, <3>3
  <2>2. PICK k \in Nat : k = HeaderEnd(a)
    BY DEF HeaderEnd
  <2>3. l \in Nat
    OBVIOUS
  <2>4. ReplyForm(RESPONSE_WRITE(a), a, k, l)
    BY ONLY <2>1, <2>2, <2>3, Short(a), ReplyIs
  <2> QED BY <2>1, <2>2, <2>4 DEF ReplyHas
<1>14. PICK w : w = RESPONSE_WRITE(a)
  OBVIOUS
<1>4. PICK size \in Nat : size = h + b + 3 /\ Bytes(w, size)
  BY <1>3, <1>14 DEF ReplyHas, ReplyForm
<1>5. /\ outbox \in Seq(Byte) /\ buffer_size \in Nat /\ room = buffer_size
      /\ Coming(outbox, w, g) /\ Reading(rx, a, g) /\ Len(rx.got) = g
      /\ rx.stale /\ rx.line < 2 => buffer_size <= 2 * MaxHeader
  BY <1>14 DEF ClientOK, WireOK, LibraryOK, Awaiting, Reading, Seen
<1>16. PICK left : left = Rest(outbox, Len(chunk))
  OBVIOUS
<1>6. PICK k \in Nat : /\ 1 <= k /\ k <= buffer_size - g /\ Len(chunk) = k /\ Bytes(chunk, k)
                       /\ g + k <= size /\ Behind(chunk, w, g, k)
                       /\ Coming(left, w, g + k)
                       /\ left = <<>> <=> g + k = size
  <2>1. buffer_size - g \in Int /\ chunk \in Received(outbox, buffer_size - g)
    BY <1>5
  <2> QED BY ONLY <1>4, <1>5, <1>16, <2>1, g \in Nat, ReplyMoves
<1>7. PICK n \in Nat : n = g + k /\ 1 <= n /\ n <= buffer_size /\ n <= size
  BY <1>5, <1>6
<1>8. Reading(r, a, n) /\ r.stale = rx.stale /\ rx.line <= r.line
  <2>1. Behind(chunk, RESPONSE_WRITE(a), g, k)
    BY <1>6, <1>14
  <2> QED BY ONLY <1>3, <1>5, <1>6, <1>7, <2>1, g \in Nat, h \in Nat, ChunkSeen DEF r
<1>9. /\ Enough(r) <=> n = size
      /\ ~ Underrun(r)
      /\ Len(r.got) = n
      /\ r.line < 2 => n < MaxHeader
      /\ Enough(r) => Parsed(r) = Outcome(call.cmd, a.code, Max({a.type, 0}), a.body)
  <2>1. ReadOf(r, a, n, size)
    BY ONLY <1>3, <1>4, <1>7, <1>8, h \in Nat, n \in Nat, size \in Nat, ReplyRead
  <2> QED BY ONLY <2>1 DEF ReadOf
<1>10. CASE rx.stale /\ rx.line < 2 /\ Crash("stale")
  BY <1>5, <1>10 DEF Crash, client
<1>11. CASE /\ outbox' = Rest(outbox, Len(chunk)) /\ Enough(r) /\ Return(Parsed(r))
            /\ UNCHANGED <<odd, inbox, fault, call>>
  <2>1. outbox' = <<>>
    BY <1>6, <1>7, <1>9, <1>11, <1>16
  <2>2. Returned(a)
    BY <1>9, <1>11 DEF Return, Returned
  <2> QED BY <1>11, <2>1, <2>2
<1>12. CASE /\ outbox' = Rest(outbox, Len(chunk)) /\ ~ Enough(r) /\ Full(r) /\ Grow(r)
            /\ UNCHANGED <<inbox, fault, call>>
  <2>1. CASE "realloc" \in odd'
    BY <1>12, <2>1
  <2>2. CASE "realloc" \notin odd'
    <3>1. PICK moved \in BOOLEAN : /\ rx' = [r EXCEPT !.stale = @ \/ moved]
                                   /\ UNCHANGED <<closed, odd, lib, result>>
      BY <1>12, <2>2 DEF Grow
    <3>2. Reading(rx', a, n) /\ rx'.line = r.line
      BY <1>8, <3>1, Moved
    <3>3. outbox' # <<>> /\ Coming(outbox', w, n)
      BY <1>6, <1>7, <1>9, <1>12, <1>16
    <3>4. buffer_size' = 2 * buffer_size /\ buffer_size <= n
      <4>1. buffer_size - (n + 1) < 0
        BY <1>9, <1>12 DEF Full
      <4> QED BY <1>5, <1>12, <4>1 DEF Grow
    <3>5. rx'.line < 2 => buffer_size' <= 2 * MaxHeader
      <4>1. r.line < 2 => n < 10
        BY <1>9 DEF MaxHeader
      <4>2. n < 10 => buffer_size' <= 20
        BY ONLY <1>5, <3>4, n \in Nat
      <4> QED BY <3>2, <4>1, <4>2 DEF MaxHeader
    <3>6. Awaiting(a, n)'
      BY <1>14, <3>2, <3>3, <3>5 DEF Awaiting
    <3> QED BY <1>12, <3>1, <3>6
  <2> QED BY <2>1, <2>2
<1>13. CASE /\ outbox' = Rest(outbox, Len(chunk)) /\ ~ Enough(r) /\ rx' = r
            /\ UNCHANGED <<closed, odd, lib, buffer_size, room, result>>
            /\ UNCHANGED <<inbox, fault, call>>
  <2>1. outbox' # <<>> /\ Coming(outbox', w, n)
    BY <1>6, <1>7, <1>9, <1>13, <1>16
  <2>2. rx'.stale /\ rx'.line < 2 => buffer_size' <= 2 * MaxHeader
    <3>1. rx.line \in 0 .. 2 /\ r.line \in 0 .. 2
      BY <1>5, <1>8 DEF Reading, Seen, ParseOK, Parses
    <3>2. r.line < 2 => rx.line < 2
      BY <1>8, <3>1
    <3> QED BY <1>5, <1>8, <1>13, <3>2
  <2>3. Awaiting(a, n)'
    BY <1>8, <1>13, <1>14, <2>1, <2>2 DEF Awaiting
  <2> QED BY <1>13, <2>3
<1>15. ~ (Len(r.got) > room)
  BY <1>5, <1>7, <1>9
<1> QED BY <1>2, <1>9, <1>10, <1>11, <1>12, <1>13, <1>15

-----------------------------------------------------------------------------
(***************************************************************************)
(* The exchange: where a call, its request and its reply can be while      *)
(* requests and replies are in step.                                       *)
(***************************************************************************)
InFlight(r, n) == Gathering(r, n) \/ Gathered(r, n) \/ Putting(r, n)

\* The session has taken n bytes of the call's request.
AskedFor(r, n) == n <= Len(r) /\ OnTheWay(r, n) /\ InFlight(r, n)

Asked ==
  /\ call \in Calls /\ PlainKey(call.key)
  /\ \E args \in Arguments(call, ArgLists), n \in Nat : AskedFor(Request(call, args), n)

Rested == inbox = <<>> /\ session = "recv" /\ command = Fresh

\* The session has answered, and the reply is on its way.
Replied ==
  /\ inbox = <<>> /\ Short(answered)
  /\ (session = "recv" /\ command = Fresh) \/ (session = "ended" /\ call.cmd = BYE)

Heard ==
  answered # NULL /\ result = Outcome(call.cmd, answered.code, Max({answered.type, 0}), answered.body)

Greeting == lib \in {"connect", "lost"} /\ Rested /\ call = NoCall
Resting == lib = "idle" /\ Rested /\ outbox = <<>> /\ (call # NoCall => Heard)
Asking == lib = "call" /\ outbox = <<>> /\ rx = NoReply /\ Asked
Replying == lib = "call" /\ Replied /\ \E g \in Nat : Awaiting(answered, g)
Leaving ==
  /\ lib = "gone" /\ outbox = <<>>
  /\ \/ Asked
     \/ inbox = <<>> /\ session \in {"recv", "ended"} /\ (session = "recv" => command = Fresh)

Flow ==
  /\ closed <=> lib = "gone"
  /\ torn => lib = "gone"
  /\ Greeting \/ Resting \/ Asking \/ Replying \/ Leaving

\* The strengthening of InStep, SameReply, PayloadIntact and FaultHasCause.
StepInv ==
  /\ IInv
  /\ ~ Skewed => Flow /\ ShortIn(store)
  /\ FaultHasCause

\* The incidents stay known, but for that of the last call's arguments.
LEMMA OddStays ==
  ASSUME IInv, [Next]_vars
  PROVE  odd \ {"va_arg"} \subseteq odd'
<1>1. CASE Server \/ Shortage \/ Reset
  BY <1>1, SessionSteps DEF Server, Shortage, Reset, IInv, BothOK
<1>2. CASE Reply
  <2>1. \/ \E what : Crash(what)
        \/ UNCHANGED odd
        \/ odd' = odd \cup {"realloc"}
    BY <1>2, Zenon DEF Reply, memuncached_recv, Grow
  <2> QED BY <2>1 DEF Crash
<1>3. CASE Eof \/ HangUp \/ ServerStops
  BY <1>3 DEF Eof, Disconnected, HangUp, ServerStops
<1>4. CASE Connect
  BY <1>4 DEF Connect
<1>5. CASE \E c \in Calls : Ask(c)
  BY <1>5 DEF Ask
<1>6. CASE UNCHANGED vars
  BY <1>6 DEF vars, wire
<1> QED BY <1>1, <1>2, <1>3, <1>4, <1>5, <1>6 DEF Next

LEMMA InStepBefore ==
  ASSUME odd \ {"va_arg"} \subseteq odd', ~ Skewed'
  PROVE  ~ Skewed
BY DEF Skewed

LEMMA AskedKept ==
  ASSUME Asked, UNCHANGED <<inbox, state, torn, call>>
  PROVE  Asked'
<1>1. PICK args \in Arguments(call, ArgLists), n \in Nat : AskedFor(Request(call, args), n)
  BY DEF Asked
<1>2. PICK r : r = Request(call, args)
  OBVIOUS
<1>3. AskedFor(r, n)'
  BY <1>1, <1>2 DEF AskedFor, OnTheWay, InFlight, Gathering, Gathered, Putting, Eaten, state
<1>4. r = Request(call', args) /\ args \in Arguments(call', ArgLists)
  BY <1>2
<1> QED BY <1>3, <1>4 DEF Asked

LEMMA FlowKept ==
  ASSUME Flow, UNCHANGED <<inbox, outbox, closed, state, client, torn>>
  PROVE  Flow'
<1>1. Asked => Asked'
  BY AskedKept DEF client
<1>2. /\ Rested => Rested'
      /\ Replied => Replied'
      /\ Heard => Heard'
  BY DEF state, client, Rested, Replied, Heard
<1>3. \A g : Awaiting(answered, g) => Awaiting(answered, g)'
  BY DEF state, client, Awaiting
<1>4. /\ Greeting => Greeting'
      /\ Resting => Resting'
      /\ Asking => Asking'
      /\ Leaving => Leaving'
  BY <1>1, <1>2 DEF state, client, Greeting, Resting, Asking, Leaving
<1>5. Replying => Replying'
  BY <1>2, <1>3 DEF state, client, Replying
<1> QED BY <1>4, <1>5 DEF Flow, client

LEMMA AskFlows ==
  ASSUME IInv, Flow, NEW c \in Calls, Ask(c), ~ Skewed'
  PROVE  Flow'
<1>1. PICK args \in Arguments(c, ArgLists) :
        /\ lib = "idle"
        /\ inbox' = inbox \o Request(c, args)
        /\ lib' = "call" /\ call' = c /\ rx' = NoReply
        /\ UNCHANGED <<outbox, closed, fault, buffer_size, room>>
        /\ odd' = (odd \ {"va_arg"})
                   \cup (IF args = c.args THEN {} ELSE {"va_arg"})
                   \cup (IF PlainKey(c.key) THEN {} ELSE {"key"})
                   \cup (IF c.cmd = BYE THEN {"bye"} ELSE {})
                   \cup (IF Skewed THEN {"late"} ELSE {})
        /\ UNCHANGED <<session, command, put, store, torn>>
  BY DEF Ask, Begin
<1>2. PlainKey(c.key)
  BY <1>1 DEF Skewed
<1>3. PICK r : r = Request(c, args)
  OBVIOUS
<1>4. r \in Seq(Byte)
  BY <1>3, RequestBytes
<1>5. Resting /\ ~ torn /\ ~ closed
  BY <1>1 DEF Flow, Greeting, Asking, Replying, Leaving
<1>6. inbox' = r
  BY <1>1, <1>3, <1>4, <1>5, ConcatEmptySeq DEF Resting, Rested
<1>7. PICK e \in Nat : 1 <= e /\ LineEnd(r) = e
  <2>1. PICK e \in Nat : LineForm(r, c, e) /\ LineEnd(r) = e
    BY <1>2, <1>3, RequestLine
  <2> QED BY <2>1 DEF LineForm
<1>8. OnTheWay(r, 0)'
  BY <1>1, <1>4, <1>5, <1>6 DEF OnTheWay
<1>9. Gathering(r, 0)'
  <2>1. session' = "recv" /\ command' = Fresh
    BY <1>1, <1>5 DEF Resting, Rested
  <2>2. Taken(Fresh) = 0 /\ ZeroBeyond(Fresh)
    BY RecvLengthAssumption DEF Taken, ZeroBeyond, Fresh, Zeros
  <2>3. 0 < LineEnd(r)
    BY <1>7
  <2> QED BY <2>1, <2>2, <2>3 DEF Gathering
<1>10. AskedFor(r, 0)'
  BY <1>4, <1>8, <1>9 DEF AskedFor, InFlight
<1>11. Asked'
  BY <1>1, <1>2, <1>3, <1>10 DEF Asked
<1>12. Asking'
  BY <1>1, <1>5, <1>11 DEF Asking, Resting
<1> QED BY <1>1, <1>5, <1>12 DEF Flow

\* A program that dies: of its request, or of nothing, a part arrives.
LEMMA HangUpFlows ==
  ASSUME IInv, Flow, HangUp
  PROVE  Flow'
<1>1. PICK n \in 0 .. Len(inbox) : inbox' = SubSeq(inbox, 1, n) /\ torn' = (n < Len(inbox))
  BY DEF HangUp
<1>2. PICK l \in Nat : l = Len(inbox) /\ n <= l /\ n \in Nat
  BY DEF IInv, WireOK
<1>3. Len(inbox') = n /\ \A j \in 1 .. n : inbox'[j] = inbox[j]
  BY <1>1, <1>2 DEF IInv, WireOK
<1>4. ~ torn /\ (Resting \/ Asking \/ Replying)
  BY DEF HangUp, Flow, Greeting, Leaving
<1>5. lib' = "gone" /\ outbox' = <<>> /\ closed' /\ UNCHANGED <<session, command, put, store, answered, call>>
  BY DEF HangUp, state
<1>6. CASE inbox = <<>> /\ (Resting \/ Replying)
  <2>1. inbox' = <<>>
    BY <1>1, <1>6
  <2>2. session' \in {"recv", "ended"} /\ (session' = "recv" => command' = Fresh)
    BY <1>5, <1>6 DEF Resting, Replying, Rested, Replied
  <2>3. Leaving'
    BY <1>5, <2>1, <2>2 DEF Leaving
  <2> QED BY <1>5, <2>3 DEF Flow
<1>7. CASE Asking
  <2>1. PICK args \in Arguments(call, ArgLists), m \in Nat : AskedFor(Request(call, args), m)
    BY <1>7 DEF Asking, Asked
  <2>2. PICK r : r = Request(call, args)
    OBVIOUS
  <2>3. r \in Seq(Byte) /\ call \in Calls /\ PlainKey(call.key)
    BY <1>7, <2>2, RequestBytes DEF Asking, Asked
  <2>4. PICK w \in Nat : w = Len(r)
    BY <2>3
  <2>5. m <= w /\ m + l = w /\ \A j \in 1 .. l : inbox[j] = r[m + j]
    BY <1>2, <1>4, <2>1, <2>2, <2>4 DEF AskedFor, OnTheWay
  <2>6. OnTheWay(r, m)'
    <3>1. m + n <= w /\ (n < l <=> m + n < w)
      BY ONLY <1>2, <2>5, m \in Nat, w \in Nat
    <3>2. \A j \in 1 .. n : inbox'[j] = r[m + j]
      BY <1>2, <1>3, <2>5
    <3>3. torn' <=> m + n < w
      BY <1>1, <1>2, <3>1
    <3> QED BY <1>3, <2>4, <3>1, <3>2, <3>3 DEF OnTheWay
  <2>7. InFlight(r, m)'
    <3>1. InFlight(r, m)
      BY <2>1, <2>2 DEF AskedFor
    <3> QED BY <1>5, <3>1 DEF InFlight, Gathering, Gathered, Putting, Eaten
  <2>8. AskedFor(r, m)'
    BY <2>1, <2>2, <2>6, <2>7 DEF AskedFor
  <2>9. call' = call /\ args \in Arguments(call', ArgLists) /\ r = Request(call', args)
    BY <1>5, <2>2
  <2>10. Leaving'
    BY <1>5, <2>3, <2>8, <2>9 DEF Leaving, Asked
  <2> QED BY <1>5, <2>10 DEF Flow
<1> QED BY <1>4, <1>6, <1>7 DEF Resting, Replying, Rested, Replied

LEMMA ConnectFlows ==
  ASSUME Flow, Connect, UNCHANGED <<state, torn>>, ~ Skewed'
  PROVE  Flow'
<1>1. outbox' = <<>> /\ lib' \in {"lost", "idle"} /\ UNCHANGED <<inbox, closed, call>> /\ lib = "connect"
  <2>1. "welcome" \notin odd'
    BY DEF Skewed
  <2> QED BY <2>1 DEF Connect
<1>2. Greeting /\ ~ torn /\ ~ closed
  BY <1>1 DEF Flow, Resting, Asking, Replying, Leaving
<1>3. Rested' /\ call' = NoCall
  BY <1>1, <1>2 DEF Greeting, Rested, state
<1>4. Greeting' \/ Resting'
  BY <1>1, <1>3 DEF Greeting, Resting
<1> QED BY <1>1, <1>2, <1>4 DEF Flow

\* The server is gone only once its last reply has been read.
LEMMA EofFlows ==
  ASSUME IInv, Flow, Eof
  PROVE  FALSE
<1>1. lib = "call" /\ ((session = "ended" /\ outbox = <<>>) \/ Len(rx.got) = buffer_size)
  BY DEF Eof, Disconnected
<1>2. Len(rx.got) # buffer_size
  BY DEF IInv, LibraryOK, ParseOK, Parses
<1>3. Asking \/ Replying
  BY <1>1 DEF Flow, Greeting, Resting, Leaving
<1>4. outbox = <<>> => Asking
  BY <1>3 DEF Replying, Awaiting
<1>5. Asked => session # "ended"
  BY DEF Asked, AskedFor, InFlight, Gathering, Gathered, Putting
<1> QED BY <1>1, <1>2, <1>4, <1>5 DEF Asking

\* Reading the reply.
LEMMA ReplyFlows ==
  ASSUME IInv, Flow, ~ Skewed, Reply, ~ Skewed'
  PROVE  Flow' /\ (fault' = fault \/ (fault' = "stale" /\ buffer_size' <= 2 * MaxHeader))
<1>1. lib = "call" /\ memuncached_recv /\ UNCHANGED <<state, torn>>
  BY DEF Reply, memuncached_recv
<1>2. Asking \/ Replying
  BY <1>1 DEF Flow, Greeting, Resting, Leaving
<1>3. outbox # <<>>
  <2>1. PICK most : Received(outbox, most) # {}
    BY <1>1, Zenon DEF memuncached_recv
  <2>2. Received(<<>>, most) = {}
    BY EmptySeq DEF Received
  <2> QED BY <2>1, <2>2
<1>4. PICK g \in Nat : Replied /\ Awaiting(answered, g)
  BY <1>2, <1>3 DEF Asking, Replying
<1>5. /\ ClientOK /\ "realloc" \notin odd /\ "realloc" \notin odd' /\ Short(answered)
      /\ ~ torn /\ ~ closed
  BY <1>1, <1>4 DEF IInv, ClientOK, Skewed, Replied, Flow
<1>6. PICK a : a = answered
  OBVIOUS
<1>7. a = answered' /\ Short(a) /\ Awaiting(a, g)
  BY <1>1, <1>4, <1>5, <1>6 DEF state
<1>8. \/ /\ fault' = "stale" /\ buffer_size' <= 2 * MaxHeader
         /\ UNCHANGED <<inbox, outbox, closed, odd, client>>
      \/ outbox' = <<>> /\ Returned(a) /\ UNCHANGED <<inbox, odd, fault, call>>
      \/ /\ \E n \in Nat : Awaiting(a, n)'
         /\ UNCHANGED <<inbox, closed, odd, fault, lib, call, result>>
  BY <1>1, <1>5, <1>7, ReplySteps
<1>9. UNCHANGED <<inbox, call>> => Replied'
  BY <1>1, <1>4 DEF Replied, state
<1>10. CASE /\ fault' = "stale" /\ buffer_size' <= 2 * MaxHeader
            /\ UNCHANGED <<inbox, outbox, closed, odd, client>>
  BY <1>1, <1>10, FlowKept
<1>11. CASE outbox' = <<>> /\ Returned(a) /\ UNCHANGED <<inbox, odd, fault, call>>
  <2>1. Replied' /\ UNCHANGED <<state, torn>>
    BY <1>1, <1>9, <1>11
  <2>2. CASE call.cmd = BYE
    <3>1. lib' = "gone" /\ closed' = TRUE
      BY <1>11, <2>2 DEF Returned
    <3>2. Leaving'
      BY <1>11, <2>1, <3>1 DEF Leaving, Replied
    <3> QED BY <1>11, <3>1, <3>2 DEF Flow
  <2>3. CASE call.cmd # BYE
    <3>1. lib' = "idle" /\ closed' = FALSE
      BY <1>11, <2>3 DEF Returned
    <3>2. Rested'
      BY <1>11, <2>1, <2>3 DEF Replied, Rested
    <3>3. Heard'
      <4>1. a # NULL
        BY <1>7, NoneAssumption DEF Short
      <4> QED BY <1>7, <1>11, <4>1 DEF Heard, Returned
    <3>4. Resting'
      BY <1>11, <3>1, <3>2, <3>3 DEF Resting
    <3> QED BY <1>5, <1>11, <2>1, <3>1, <3>4 DEF Flow
  <2> QED BY <2>2, <2>3
<1>12. CASE /\ \E n \in Nat : Awaiting(a, n)'
            /\ UNCHANGED <<inbox, closed, odd, fault, lib, call, result>>
  <2>1. Replied' /\ lib' = "call"
    BY <1>1, <1>9, <1>12
  <2>2. Replying'
    BY <1>7, <1>12, <2>1 DEF Replying
  <2> QED BY <1>1, <1>5, <1>12, <2>1, <2>2 DEF Flow
<1> QED BY <1>8, <1>10, <1>11, <1>12

\* A line that will never be complete, or a payload, is given up.
GivesUp ==
  /\ closed /\ inbox = <<>>
  /\ session' = "recv" /\ command' = Fresh
  /\ UNCHANGED <<inbox, outbox, closed, fault, store>>

\* The session with a request on its way, or in its hands.
LEMMA AskedServes ==
  ASSUME BothOK, ShortIn(store), Asked, ~ Skewed, ~ Skewed', Server \/ Shortage \/ Reset
  PROVE  \/ Asked' /\ UNCHANGED <<outbox, closed, store, fault>>
         \/ Cause' /\ UNCHANGED <<inbox, outbox, closed, odd, state>>
         \/ Answers
         \/ GivesUp
<1>1. PICK args \in Arguments(call, ArgLists), n \in Nat : AskedFor(Request(call, args), n)
  BY DEF Asked
<1>2. PICK r : r = Request(call, args)
  OBVIOUS
<1>3. /\ call \in Calls /\ PlainKey(call.key) /\ r \in Seq(Byte) /\ n <= Len(r) /\ OnTheWay(r, n)
      /\ Gathering(r, n) \/ Gathered(r, n) \/ Putting(r, n)
  BY <1>1, <1>2, RequestBytes DEF Asked, AskedFor, InFlight
<1>4. UNCHANGED <<client, torn>> /\ call' = call
  BY DEF Server, Shortage, Reset, client
<1>5. ASSUME NEW m \in Nat, m <= Len(r), OnTheWay(r, m)', InFlight(r, m)'
      PROVE  Asked'
  <2>1. AskedFor(r, m)'
    BY <1>5 DEF AskedFor
  <2>2. r = Request(call', args) /\ args \in Arguments(call', ArgLists)
    BY <1>2, <1>4
  <2> QED BY <1>3, <1>4, <2>1, <2>2 DEF Asked
<1>6. CASE Recv
  <2>1. Gathering(r, n)
    BY <1>3, <1>6 DEF Recv, Gathered, Putting
  <2>2. PICK e \in Nat : LineForm(r, call, e) /\ LineEnd(r) = e
    BY <1>2, <1>3, RequestLine
  <2>3. 1 <= e /\ e <= Len(r) /\ r[e] = LF /\ \A i \in 1 .. e - 1 : r[i] # LF
    BY <2>2 DEF LineForm
  <2>4. \E m \in Nat : OnTheWay(r, m)' /\ m <= Len(r) /\ (Gathering(r, m)' \/ Gathered(r, m)')
    BY <1>3, <1>4, <1>6, <2>1, <2>2, <2>3, LineComes
  <2>5. Asked'
    BY <1>5, <2>4 DEF InFlight
  <2> QED BY <1>6, <2>5 DEF Recv
<1>7. CASE Drop \/ Reset
  <2>1. /\ closed /\ inbox = <<>> /\ Continue
        /\ UNCHANGED <<inbox, outbox, closed, fault, store>>
    BY <1>7 DEF Drop, Reset, PayloadFails, Write, wire
  <2> QED BY <2>1 DEF GivesUp, Continue
<1>8. CASE handle_command
  <2>1. Gathered(r, n)
    BY <1>3, <1>8 DEF handle_command, Gathering, Putting
  <2>2. "refused" \notin odd'
    BY DEF Skewed
  <2>3. \/ Cause' /\ UNCHANGED <<inbox, outbox, closed, odd, state>>
        \/ Putting(r, n)' /\ UNCHANGED <<wire, command, store, answered>>
        \/ Answers
    BY <1>2, <1>3, <1>4, <1>8, <2>1, <2>2, CommandAnswers
  <2>4. CASE Putting(r, n)' /\ UNCHANGED <<wire, command, store, answered>>
    <3>1. OnTheWay(r, n)'
      BY <1>3, <1>4, <2>4 DEF OnTheWay, wire
    <3>2. Asked'
      BY <1>3, <1>5, <2>4, <3>1 DEF InFlight
    <3> QED BY <2>4, <3>2 DEF wire
  <2> QED BY <2>3, <2>4
<1>9. CASE RecvPayload
  <2>1. Putting(r, n)
    BY <1>3, <1>9 DEF RecvPayload, Gathering, Gathered
  <2>2. \E m \in Nat : m <= Len(r) /\ OnTheWay(r, m)' /\ Putting(r, m)'
    BY <1>2, <1>3, <1>4, <1>9, <2>1, PutContinues
  <2>3. Asked'
    BY <1>5, <2>2 DEF InFlight
  <2> QED BY <1>9, <2>3 DEF RecvPayload
<1>10. CASE memuncached_set
  <2>1. Putting(r, n)
    BY <1>3, <1>10 DEF memuncached_set, Gathering, Gathered
  <2> QED BY <1>2, <1>3, <1>10, <2>1, SetAnswers
<1>11. ~ Shortage
  BY DEF Shortage, ReallocFails, Skewed
<1> QED BY <1>6, <1>7, <1>8, <1>9, <1>10, <1>11 DEF Server, handle_connection

\* And with nothing to do.
LEMMA RestedServes ==
  ASSUME inbox = <<>>, session \in {"recv", "ended"}, Server \/ Shortage \/ Reset
  PROVE  GivesUp
<1>1. \A most : Received(inbox, most) = {}
  BY EmptySeq DEF Received
<1>2. ~ Recv /\ ~ ReallocFails
  BY <1>1 DEF Recv, ReallocFails
<1>3. Drop
  BY <1>2 DEF Server, Shortage, Reset, handle_connection, handle_command, RecvPayload,
              memuncached_set, PayloadFails
<1> QED BY <1>3 DEF Drop, Continue, GivesUp, wire

LEMMA ServerFlows ==
  ASSUME IInv, Flow, ShortIn(store), ~ Skewed, Server \/ Shortage \/ Reset, ~ Skewed'
  PROVE  Flow' /\ ShortIn(store)' /\ (fault' = fault \/ Cause') /\ (torn => UNCHANGED store)
<1>1. UNCHANGED <<client, torn>> /\ UNCHANGED <<lib, call, rx, result>>
  BY DEF Server, Shortage, Reset, client
<1>2. BothOK
  BY DEF IInv, BothOK
<1>3. CASE Asked /\ (Asking \/ Leaving)
  <2>1. \/ Asked' /\ UNCHANGED <<outbox, closed, store, fault>>
        \/ Cause' /\ UNCHANGED <<inbox, outbox, closed, odd, state>>
        \/ Answers
        \/ GivesUp
    BY <1>2, <1>3, AskedServes
  <2>2. CASE Asked' /\ UNCHANGED <<outbox, closed, store, fault>>
    <3>1. Asking' \/ Leaving'
      BY <1>1, <1>3, <2>2 DEF Asking, Leaving
    <3> QED BY <1>1, <2>2, <3>1 DEF Flow
  <2>3. CASE Cause' /\ UNCHANGED <<inbox, outbox, closed, odd, state>>
    BY <1>1, <2>3, FlowKept DEF state
  <2>4. CASE Answers
    <3>1. PICK reply : Short(reply) /\ Write(reply)
      BY <2>4 DEF Answers
    <3>2. /\ inbox' = <<>> /\ ~ torn /\ ShortIn(store)' /\ UNCHANGED <<closed, fault>>
          /\ (session' = "recv" /\ command' = Fresh) \/ (session' = "ended" /\ call.cmd = BYE)
          /\ answered' = reply
      BY <2>4, <3>1 DEF Answers, Continue, Write
    <3>3. CASE Asking
      <4>1. ~ closed /\ outbox = <<>>
        BY <3>3 DEF Asking, Flow
      <4>2. PICK w : w = RESPONSE_WRITE(reply)
        OBVIOUS
      <4>3. w \in Seq(Byte) /\ w # <<>>
        <5>1. reply \in Replies
          BY <3>1 DEF Short
        <5>2. PICK b \in Nat, h \in Nat : b = Len(reply.body) /\ h = HeaderEnd(reply)
          BY <3>1 DEF Short, Brief, HeaderEnd
        <5>3. ReplyForm(w, reply, h, b)
          BY ONLY <3>1, <4>2, <5>2, ReplyIs
        <5> QED BY <5>3 DEF ReplyForm, Bytes
      <4>4. outbox' = w
        BY <3>1, <4>1, <4>2, <4>3, ConcatEmptySeq DEF Write
      <4>5. Coming(outbox', w, 0)
        BY <4>3, <4>4 DEF Coming
      <4>6. rx' = NoReply /\ Reading(NoReply, reply, 0) /\ NoReply.stale = FALSE
        BY <1>1, <3>3, NothingRead DEF Asking
      <4>7. Awaiting(reply, 0)'
        BY <4>2, <4>3, <4>4, <4>5, <4>6 DEF Awaiting
      <4>8. Replied'
        BY <1>1, <3>1, <3>2 DEF Replied
      <4>9. Replying'
        BY <1>1, <3>2, <3>3, <4>7, <4>8 DEF Replying, Asking
      <4> QED BY <1>1, <3>2, <4>9 DEF Flow
    <3>4. CASE Leaving
      <4>1. outbox' = <<>>
        BY <3>1, <3>4 DEF Write, Leaving, Flow
      <4>2. Leaving'
        BY <1>1, <3>2, <3>4, <4>1 DEF Leaving
      <4> QED BY <1>1, <3>2, <4>2 DEF Flow
    <3> QED BY <1>3, <3>3, <3>4
  <2>5. CASE GivesUp
    <3>1. Leaving
      BY <1>3, <2>5 DEF GivesUp, Asking, Flow
    <3>2. Leaving'
      BY <1>1, <2>5, <3>1 DEF GivesUp, Leaving
    <3> QED BY <1>1, <2>5, <3>2 DEF GivesUp, Flow
  <2> QED BY <2>1, <2>2, <2>3, <2>4, <2>5
<1>4. CASE inbox = <<>> /\ session \in {"recv", "ended"}
  <2>1. GivesUp
    BY <1>4, RestedServes
  <2>2. Leaving
    BY <1>4, <2>1 DEF GivesUp, Flow, Greeting, Resting, Asking, Replying, Leaving
  <2>3. Leaving'
    BY <1>1, <2>1, <2>2 DEF GivesUp, Leaving
  <2> QED BY <1>1, <2>1, <2>3 DEF GivesUp, Flow
<1> QED BY <1>3, <1>4 DEF Flow, Greeting, Resting, Asking, Replying, Leaving, Rested, Replied

\* One step while in step.
LEMMA FlowSteps ==
  ASSUME IInv, Flow, ShortIn(store), ~ Skewed, Next, ~ Skewed'
  PROVE  /\ Flow' /\ ShortIn(store)'
         /\ fault' = fault \/ Cause' \/ (fault' = "stale" /\ buffer_size' <= 2 * MaxHeader)
         /\ torn => UNCHANGED store
<1>1. CASE Server \/ Shortage \/ Reset
  <2>1. Flow' /\ ShortIn(store)' /\ (fault' = fault \/ Cause') /\ (torn => UNCHANGED store)
    BY <1>1, ServerFlows
  <2> QED BY ONLY <2>1
<1>2. CASE Reply
  <2>1. Flow' /\ (fault' = fault \/ (fault' = "stale" /\ buffer_size' <= 2 * MaxHeader))
    BY <1>2, ReplyFlows
  <2>2. UNCHANGED store
    BY <1>2 DEF Reply, state
  <2> QED BY <2>1, <2>2
<1>3. CASE Eof
  BY <1>3, EofFlows
<1>4. CASE HangUp
  <2>1. UNCHANGED <<fault, store>>
    BY <1>4 DEF HangUp, state
  <2> QED BY <1>4, <2>1, HangUpFlows
<1>5. CASE ServerStops
  BY <1>5 DEF ServerStops, Skewed
<1>6. CASE Connect /\ UNCHANGED <<state, torn>>
  <2>1. UNCHANGED <<fault, store>>
    BY <1>6 DEF Connect, state
  <2> QED BY <1>6, <2>1, ConnectFlows
<1>7. CASE \E c \in Calls : Ask(c)
  <2>1. PICK c \in Calls : Ask(c)
    BY <1>7
  <2>2. UNCHANGED <<fault, store>>
    BY <2>1 DEF Ask, Begin
  <2> QED BY <2>1, <2>2, AskFlows
<1> QED BY <1>1, <1>2, <1>3, <1>4, <1>5, <1>6, <1>7 DEF Next

\* A step that changes the store is no incident.
LEMMA StoreOrOdd ==
  ASSUME Next
  PROVE  UNCHANGED store \/ UNCHANGED odd
<1>1. CASE Server
  <2>1. CASE handle_command
    <3>1. \E line \in {Line(command.text)} : Refuse(line) \/ StartPut(line) \/ memuncached_bye \/ Serve(line)
          \/ (\E what : Stop(what)) \/ UNCHANGED <<wire, store, answered>>
      BY <2>1, Zenon DEF handle_command, EmptyLine
    <3> QED BY <3>1 DEF Refuse, StartPut, memuncached_bye, Serve, Stop, wire, state
  <2>2. CASE Recv \/ Drop \/ RecvPayload \/ memuncached_set
    BY <2>2 DEF Recv, Drop, RecvPayload, memuncached_set, wire
  <2> QED BY <1>1, <2>1, <2>2 DEF Server, handle_connection
<1>2. CASE Shortage \/ Reset
  BY <1>2 DEF Shortage, Reset, ReallocFails, PayloadFails
<1>3. CASE Reply \/ Eof \/ HangUp \/ ServerStops \/ (Connect /\ UNCHANGED <<state, torn>>)
  BY <1>3 DEF Reply, Eof, HangUp, ServerStops, state
<1>4. CASE \E c \in Calls : Ask(c)
  BY <1>4 DEF Ask
<1> QED BY <1>1, <1>2, <1>3, <1>4 DEF Next

LEMMA InitStepInv == Init => StepInv
<1> SUFFICES ASSUME Init PROVE StepInv
  OBVIOUS
<1>1. Greeting /\ ~ torn /\ ~ closed /\ fault = "none"
  BY DEF Init, NewSession, NewClient, Greeting, Rested
<1>2. lib # "gone"
  BY <1>1 DEF Greeting
<1>3. Flow
  BY <1>1, <1>2 DEF Flow
<1>4. DOMAIN store = {}
  BY DEF Init
<1>5. ShortIn(store)
  BY <1>4 DEF ShortIn
<1> QED BY <1>1, <1>3, <1>5, InitIInv DEF StepInv, FaultHasCause

LEMMA NextStepInv == StepInv /\ [Next]_vars => StepInv'
<1> SUFFICES ASSUME StepInv, [Next]_vars PROVE StepInv'
  OBVIOUS
<1>1. IInv /\ IInv' /\ FaultHasCause
  BY NextIInv DEF StepInv
<1>2. odd \ {"va_arg"} \subseteq odd'
  BY <1>1, OddStays
<1>3. CASE Skewed'
  BY <1>1, <1>3 DEF StepInv, FaultHasCause
<1>4. CASE ~ Skewed'
  <2>1. ~ Skewed /\ Flow /\ ShortIn(store)
    BY <1>2, <1>4, InStepBefore DEF StepInv
  <2>2. CASE Next
    <3>1. /\ Flow' /\ ShortIn(store)'
          /\ fault' = fault \/ Cause' \/ (fault' = "stale" /\ buffer_size' <= 2 * MaxHeader)
      BY <1>1, <1>4, <2>1, <2>2, FlowSteps
    <3>2. fault = "none"
      BY <2>2 DEF Next, Running
    <3>3. FaultHasCause'
      BY <3>1, <3>2 DEF FaultHasCause, Cause
    <3> QED BY <1>1, <3>1, <3>3 DEF StepInv
  <2>3. CASE UNCHANGED vars
    <3>1. Flow'
      BY <2>1, <2>3, FlowKept DEF vars, wire
    <3>2. ShortIn(store)' /\ FaultHasCause'
      BY <1>1, <2>1, <2>3 DEF vars, wire, state, client, FaultHasCause, Skewed, Eaten
    <3> QED BY <1>1, <3>1, <3>2 DEF StepInv
  <2> QED BY <2>2, <2>3
<1> QED BY <1>3, <1>4

LEMMA StepInvariance == Spec => []StepInv
BY InitStepInv, NextStepInv, PTL DEF Spec

\* Between calls (libmemuncached.c 110-169, connection.c 32-75): whatever TCP
\* does to requests and replies, a call that returns has taken every byte of
\* its reply and left none of its request, so that the next call's reply is
\* its own.
THEOREM LinkInStep == Spec => []InStep
<1>1. StepInv => InStep
  BY DEF StepInv, Flow, Greeting, Resting, Asking, Replying, Leaving, Rested, InStep
<1> QED BY <1>1, StepInvariance, PTL

\* What a call returns (libmemuncached.c 110-165): the lines and the payload
\* that the parser cuts out of its chunks are the code, TYPE and body of the
\* reply that was written to this very call, wherever the chunks end.
THEOREM LinkSameReply == Spec => []SameReply
<1>1. StepInv => SameReply
  BY DEF StepInv, Flow, Greeting, Resting, Asking, Replying, Leaving, Heard, SameReply
<1> QED BY <1>1, StepInvariance, PTL

\* The first of the value's bytes came with the line, the others were read
\* into place.
LEMMA PayloadIs ==
  ASSUME BothOK, call \in Calls, PlainKey(call.key),
         NEW args \in Arguments(call, ArgLists), NEW r, r = Request(call, args),
         NEW n \in Nat, Putting(r, n), put.left = 0
  PROVE  Data = call.data <=> ~ Eaten
<1>1. PICK d \in Nat : d = Len(call.data)
  BY CallIs
<1>2. call.data \in Seq(Byte) /\ put.payload \in Seq(Byte) /\ Len(put.payload) = d + 2
  BY <1>1, CallIs DEF Putting, BothOK, SessionOK, PutOK
<1>3. \A j \in 1 .. d : r[9 + j] = call.data[j]
  <2>1. PutForm(r, call, d)
    BY <1>1, PutRequest DEF Putting
  <2> QED BY <2>1 DEF PutForm
<1>4. PICK x \in Nat, w \in Nat : x = command.chunk /\ w = Min({x, d}) /\ w <= d /\ (w = x \/ w = d)
  <2>1. PICK x \in Nat : x = command.chunk
    BY DEF BothOK, SessionOK, CommandOK
  <2>2. Min({x, d}) \in Nat /\ Min({x, d}) <= d /\ (Min({x, d}) = x \/ Min({x, d}) = d)
    BY LesserIs
  <2> QED BY <2>1, <2>2
<1>5. /\ \A j \in x + 1 .. d + 2 : put.payload[j] = r[9 + j]
      /\ ~ Eaten <=> \A j \in 1 .. w : put.payload[j] = call.data[j]
  <2>1. /\ \A j \in command.chunk + 1 .. Len(put.payload) - put.left : put.payload[j] = r[9 + j]
        /\ ~ Eaten <=> \A j \in 1 .. Min({command.chunk, Len(call.data)}) : put.payload[j] = call.data[j]
    BY Zenon DEF Putting
  <2>2. Len(put.payload) - put.left = d + 2
    BY <1>2
  <2>3. Min({command.chunk, Len(call.data)}) = w /\ command.chunk = x
    BY ONLY <1>1, <1>4, Zenon
  <2> QED BY ONLY <2>1, <2>2, <2>3, Zenon
<1>6. \A j \in 1 .. d : j > w => put.payload[j] = call.data[j]
  <2> SUFFICES ASSUME NEW j \in 1 .. d, j > w PROVE put.payload[j] = call.data[j]
    OBVIOUS
  <2>1. j \in x + 1 .. d + 2
    BY <1>4
  <2> QED BY <1>3, <1>5, <2>1
<1>7. ~ Eaten <=> \A j \in 1 .. d : put.payload[j] = call.data[j]
  BY <1>4, <1>5, <1>6
<1>8. Data \in Seq(Byte) /\ Len(Data) = d /\ \A j \in 1 .. d : Data[j] = put.payload[j]
  BY <1>2 DEF Data
<1>9. Data = call.data <=> \A j \in 1 .. d : Data[j] = call.data[j]
  <2> PICK s, t : s = Data /\ t = call.data
    OBVIOUS
  <2>1. s \in Seq(Byte) /\ t \in Seq(Byte) /\ Len(s) = Len(t) /\ d = Len(s)
    BY <1>1, <1>2, <1>8
  <2>2. s = t <=> \A j \in 1 .. Len(s) : s[j] = t[j]
    BY ONLY <2>1, SeqEqual
  <2> QED BY <2>1, <2>2
<1> QED BY <1>7, <1>8, <1>9

\* The value that is stored (connection.c 418-456): of the payload, the part
\* that came with the line is taken from where the search for arguments
\* stopped, and the rest is read behind it; together they are what was sent
\* exactly when that search and the trimming of the line ate nothing of it.
THEOREM LinkPayloadIntact == Spec => []PayloadIntact
<1>1. StepInv => PayloadIntact
  <2> SUFFICES ASSUME StepInv, session = "payload", put.left = 0, ~ Skewed, ~ torn
               PROVE  Data = call.data <=> ~ Eaten
    BY DEF PayloadIntact
  <2>1. Asked /\ BothOK
    BY DEF StepInv, IInv, BothOK, Flow, Greeting, Resting, Asking, Replying, Leaving, Rested, Replied
  <2>2. PICK args \in Arguments(call, ArgLists), n \in Nat : AskedFor(Request(call, args), n)
    BY <2>1 DEF Asked
  <2>3. Putting(Request(call, args), n) /\ call \in Calls /\ PlainKey(call.key)
    BY <2>1, <2>2 DEF Asked, AskedFor, InFlight, Gathering, Gathered
  <2> QED BY <2>1, <2>3, PayloadIs
<1> QED BY <1>1, StepInvariance, PTL

\* Undefined behaviour (libmemuncached.c 116-151, connection.c 60-99 and
\* 418-446): in step, only a line in a reply buffer that grew before the line
\* was read, a command buffer without its zero, or payload bytes that were
\* taken for blanks lead to it.
THEOREM LinkFaultHasCause == Spec => []FaultHasCause
<1>1. StepInv => FaultHasCause
  BY DEF StepInv
<1> QED BY <1>1, StepInvariance, PTL

\* A request that arrived in part (connection.c 43-57 and 436-446): the
\* session of a client that died does nothing to the store.
THEOREM LinkTornDoesNothing == Spec => TornDoesNothing
<1>1. StepInv /\ StepInv' /\ [Next]_vars => [torn /\ ~ Skewed => UNCHANGED store]_vars
  <2> SUFFICES ASSUME StepInv, Next, torn, ~ Skewed PROVE UNCHANGED store
    OBVIOUS
  <2>1. CASE UNCHANGED odd
    <3>1. ~ Skewed'
      BY <2>1 DEF Skewed
    <3> QED BY <3>1, FlowSteps DEF StepInv
  <2> QED BY <2>1, StoreOrOdd
<1> QED BY <1>1, StepInvariance, PTL DEF Spec, TornDoesNothing

=============================================================================
