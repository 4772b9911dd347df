-------------------------------- MODULE Wire --------------------------------
(***************************************************************************)
(* One connection as bytes: what a client and its session have in common.  *)
(*                                                                         *)
(* A byte is a natural number.  Every word of the protocol (a command, a   *)
(* key, a number, a reply's code and its description) is ONE byte long     *)
(* where the program is right; what the code tells apart is kept: blanks,  *)
(* line ends, the zero that ends a C string, signs, digits, memory that    *)
(* was never written.  Commands are written in one case.                   *)
(***************************************************************************)
EXTENDS Integers, Sequences, FiniteSetsExt

VARIABLES
  inbox,    (* what the client has written and the server not received     *)
  outbox,   (* what the server has written and the client not received     *)
  closed,   (* has the client's side of the connection gone?               *)
  odd,      (* history: the incidents after which less is promised         *)
  fault     (* the undefined thing that was done, or "none"                *)

wire == <<inbox, outbox, closed, odd, fault>>

NUL == 0
LF == 10
CR == 13
SP == 32
PLUS == 43
MINUS == 45
DOT == 46
Digit(n) == 48 + n
TEXT == 84                     \* a word whose wording does not matter
JUNK == 255                    \* a byte of fresh memory

Byte == Nat
Newline == {CR, LF}
Blank == {SP} \cup Newline
CRLF == <<CR, LF>>
Zeros(n) == [i \in 1 .. n |-> NUL]

\* The commands, each by a letter.
ADD == 65
BYE == 66
DEC == 68
INC == 73
GET == 71
DEL == 76
STT == 77
SET == 83
VER == 86

\* Reply codes, and replies.  Some replies name no TYPE.
Codes == {200, 400, 404, 409, 500}
NoType == -1
Ok(type, body) == [code |-> 200, type |-> type, body |-> body]
Done == Ok(NoType, <<>>)
BadRequest == [code |-> 400, type |-> NoType, body |-> <<TEXT>>]
NotFound == [code |-> 404, type |-> NoType, body |-> <<>>]
KeyExists == [code |-> 409, type |-> NoType, body |-> <<>>]
ServerError == [code |-> 500, type |-> NoType, body |-> <<TEXT>>]

\* A reply as it is written: CODE DESCRIPTION, LENGTH [TYPE], PAYLOAD and a
\* zero, each on a line.
Header(reply) ==
  <<reply.code, SP, TEXT>> \o CRLF \o <<Digit(Len(reply.body))>>
    \o (IF reply.type = NoType THEN <<>> ELSE <<SP, Digit(reply.type)>>) \o CRLF
RESPONSE_WRITE(reply) == Header(reply) \o reply.body \o <<NUL>> \o CRLF

MaxHeader == 10                \* the longest Header

\* The place of the first byte of s, from i on, that is in S; or one beyond.
First(s, i, S) ==
  CHOOSE j \in i .. Len(s) + 1 :
    /\ j <= Len(s) => s[j] \in S
    /\ \A k \in i .. j - 1 : s[k] \notin S

Rest(s, n) == SubSeq(s, n + 1, Len(s))

\* What recv may return of the bytes s, asked for at most so many.
Received(s, most) == {SubSeq(s, 1, n) : n \in (1 .. most) \cap (1 .. Len(s))}

\* memcpy(s + at, t, Len(t))
Copy(s, at, t) == SubSeq(s, 1, at) \o t \o Rest(s, at + Len(t))

(***************************************************************************)
(* utils.h, on one word.                                                   *)
(***************************************************************************)
IsDigit(b) == b \in Digit(0) .. Digit(9)

Unsigned(w) == IF w[1] \in {PLUS, MINUS} THEN Tail(w) ELSE w

is_decimal_string(w) ==
  w # <<>> /\ \A i \in DOMAIN Unsigned(w) : IsDigit(Unsigned(w)[i])

is_real_string(w) ==
  /\ w # <<>> /\ w[1] # DOT
  /\ \A i \in DOMAIN Unsigned(w) : IsDigit(Unsigned(w)[i]) \/ Unsigned(w)[i] = DOT
  /\ \A i, j \in DOMAIN w : w[i] = DOT /\ w[j] = DOT => i = j

\* atoi and its kin, on numbers of one digit; a word that is none reads as zero.
Number(w) == IF w # <<>> /\ IsDigit(w[1]) THEN w[1] - Digit(0) ELSE 0
=============================================================================
