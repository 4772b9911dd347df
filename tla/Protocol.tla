------------------------------ MODULE Protocol ------------------------------
(***************************************************************************)
(* Values, requests and replies of the memuncached protocol, shared by     *)
(* every module about the cache.  There are no variables here.             *)
(*                                                                         *)
(* Numbers are counted in halves: the integer n stands for the number n/2. *)
(* One fractional digit is all the properties need, since what matters is  *)
(* where the code truncates.  Machine overflow is outside this module.     *)
(***************************************************************************)
EXTENDS Integers

CONSTANTS
  Keys,      (* the keys clients use                                       *)
  Word,      (* a payload that is not the text of a number                 *)
  NULL,      (* the C null pointer: no value, no request, no reply         *)
  NoArg,     (* an argument that is missing from the command line          *)
  Bad        (* an argument that is there and fails its syntax check       *)

ASSUME MarkersAssumption ==
  /\ Word \notin Int
  /\ NoArg \notin Keys \cup Int
  /\ Bad \notin Int
  /\ NULL \notin Int \cup Keys
  /\ NoArg # NULL

(***************************************************************************)
(* Values.                                                                 *)
(***************************************************************************)
CACHE_VALUE_DECIMAL == 0
CACHE_VALUE_REAL    == 1
CACHE_VALUE_STRING  == 2

Types == {CACHE_VALUE_DECIMAL, CACHE_VALUE_REAL, CACHE_VALUE_STRING}

Unit == 2                                  \* the number one, in halves
Texts == Int \cup {Word}                   \* a payload: a number's text, or not

\* Conversion to int64_t drops the fraction, towards zero.
Trunc(n) == IF n >= 0 THEN Unit * (n \div Unit) ELSE -(Unit * ((-n) \div Unit))

\* strtol/strtod of the C library: text that is no number reads as zero.
atoll(text) == IF text = Word THEN 0 ELSE Trunc(text)
atof(text)  == IF text = Word THEN 0 ELSE text

Value == [type : {CACHE_VALUE_DECIMAL, CACHE_VALUE_REAL}, val : Int]
           \cup [type : {CACHE_VALUE_STRING}, val : Texts]

ASSUME NullAssumption == NULL \notin Value

\* Mutant of StoredValue: the payload is kept as it came.
StoredValueUnconverted(type, payload) == [type |-> type, val |-> payload]

\* The value memuncached_set makes of a payload.
StoredValue(type, payload) ==
  [type |-> type,
   val  |-> CASE type = CACHE_VALUE_DECIMAL -> atoll(payload)
              [] type = CACHE_VALUE_REAL    -> atof(payload)
              [] OTHER                      -> payload]

IsNumber(v) == v.type # CACHE_VALUE_STRING

\* Mutant of Shifted: the sum is kept in the type of OFFSET.
ShiftedUntruncated(v, by) == [v EXCEPT !.val = @ + by]

\* *val = *val + offset, in the type of *val.
Shifted(v, by) ==
  [v EXCEPT !.val = IF v.type = CACHE_VALUE_DECIMAL THEN Trunc(@ + by) ELSE @ + by]

\* The text of a number: its value, and the place of its decimal point
\* (0 when it has none).  INITIAL is a real exactly when its second
\* character is the point.
Numeral == [num : Int, point : Nat]

\* Mutant of InitialValue: INITIAL has no default.
InitialValueNoDefault(initial) == [type |-> CACHE_VALUE_DECIMAL, val |-> initial]

InitialValue(initial) ==
  IF initial = NoArg
    THEN [type |-> CACHE_VALUE_DECIMAL, val |-> Unit]
    ELSE IF initial.point # 2
           THEN [type |-> CACHE_VALUE_DECIMAL, val |-> atoll(initial.num)]
           ELSE [type |-> CACHE_VALUE_REAL, val |-> atof(initial.num)]

(***************************************************************************)
(* Requests: a command line and, for SET and ADD, the payload after it.    *)
(* Arguments are positional, so one that is missing leaves those after it  *)
(* missing too.  TYPE stands for its first character, the only one looked  *)
(* at: a digit from 3 up, or a sign, names no type.  "???" is any word     *)
(* that is no command.                                                     *)
(***************************************************************************)
Request ==
  [cmd : {"SET", "ADD"}, key : Keys \cup {NoArg}, type : Nat \cup {NoArg, Bad},
   length : Nat \cup {NoArg, Bad}, payload : Texts]
  \cup [cmd : {"INC", "DEC"}, key : Keys \cup {NoArg},
        offset : Nat \cup {NoArg, Bad}, initial : Numeral \cup {NoArg, Bad}]
  \cup [cmd : {"GET", "DEL"}, key : Keys \cup {NoArg}]
  \cup [cmd : {"STT", "VER"}, extra : BOOLEAN]
  \cup [cmd : {"???"}]

\* The argument checks of handle_command.
Accepted(r) ==
  \/ /\ r.cmd \in {"SET", "ADD"}
     /\ r.key # NoArg
     /\ r.type \notin {NoArg, Bad}
     /\ r.length \notin {NoArg, Bad}
  \/ /\ r.cmd \in {"INC", "DEC"}
     /\ r.key # NoArg
     /\ r.offset # Bad
     /\ r.initial # Bad
  \/ /\ r.cmd \in {"GET", "DEL"}
     /\ r.key # NoArg
  \/ /\ r.cmd \in {"STT", "VER"}
     /\ ~ r.extra

\* What INC adds and DEC takes away.
Offset(r) == IF r.offset = NoArg THEN Unit ELSE r.offset
Change(r) == IF r.cmd = "INC" THEN Offset(r) ELSE -Offset(r)

(***************************************************************************)
(* Replies: a code and a body.                                             *)
(***************************************************************************)
Reply == [code : {200, 400, 404, 409, 500},
          body : Value \cup [keys : Int] \cup {NULL}]

Ok(body)   == [code |-> 200, body |-> body]
BadRequest == [code |-> 400, body |-> NULL]
NotFound   == [code |-> 404, body |-> NULL]
KeyExists  == [code |-> 409, body |-> NULL]
ServerError == [code |-> 500, body |-> NULL]
=============================================================================
