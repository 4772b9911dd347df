------------------------------ MODULE MCCache -------------------------------
(***************************************************************************)
(* Instances of Cache for TLC: "a" and "b" share a slot, "c" has its own.  *)
(***************************************************************************)
EXTENDS Cache, TLC

MCKeys  == {"a", "b", "c"}
MCSlots == {0, 1}
MCHash  == "a" :> 0 @@ "b" :> 0 @@ "c" :> 1

Put(cmd, key, type, payload) ==
  [cmd |-> cmd, key |-> key, type |-> type, length |-> 3, payload |-> payload]
Shift(cmd, key, offset, initial) ==
  [cmd |-> cmd, key |-> key, offset |-> offset, initial |-> initial]
Ask(cmd, key) == [cmd |-> cmd, key |-> key]

HalfText == [num |-> 1, point |-> 2]           \* "0.5"
TenHalf == [num |-> 21, point |-> 3]           \* "10.5"
MinusOneHalf == [num |-> -3, point |-> 3]      \* "-1.5"

\* Every kind of accepted request, with payloads 1.5 and a word; TYPE 3 is a
\* digit that names no type.
Accepting ==
  {Put("SET", "a", type, 3) : type \in 0..3}
  \cup {Put("ADD", "a", type, 3) : type \in {CACHE_VALUE_REAL, 3}}
  \cup {Put("SET", "c", CACHE_VALUE_DECIMAL, Word)}
  \cup {Shift("INC", "a", 1, HalfText), Shift("DEC", "a", 3, MinusOneHalf),
        Shift("INC", "a", NoArg, NoArg)}
  \cup {Ask("GET", "b"), Ask("DEL", "b"), Ask("DEL", "c")}
  \cup {[cmd |-> cmd, extra |-> FALSE] : cmd \in {"STT", "VER"}}

\* Some ways to fail the argument checks.
Refused ==
  {[Put("SET", "a", Bad, 3) EXCEPT !.length = NoArg],
   Shift("DEC", "a", 1, Bad), [cmd |-> "???"]}

Everything == Accepting \cup Refused

\* The requests of the runs that refute a sentence of the documentation.
Counting ==
  {Put("SET", "a", CACHE_VALUE_DECIMAL, 3), Ask("GET", "b"),
   Shift("INC", "a", NoArg, NoArg), Shift("DEC", "c", NoArg, TenHalf), Ask("DEL", "c")}
=============================================================================
