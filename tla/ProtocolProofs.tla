--------------------------- MODULE ProtocolProofs ---------------------------
(***************************************************************************)
(* What the conversions of Protocol produce, for the proofs of every       *)
(* module about the cache.                                                 *)
(***************************************************************************)
EXTENDS Protocol, TLAPS

Whole(v) == v.type = CACHE_VALUE_DECIMAL => v.val % Unit = 0

\* Dropping the fraction of a number leaves a whole number.
LEMMA TruncIsWhole ==
  ASSUME NEW n \in Int
  PROVE  Trunc(n) \in Int /\ Trunc(n) % Unit = 0
BY DEF Trunc, Unit

\* Whatever the payload, the conversion SET asks for yields a value of TYPE.
LEMMA StoredValueIsWhole ==
  ASSUME NEW type \in Types, NEW payload \in Texts
  PROVE  StoredValue(type, payload) \in Value /\ Whole(StoredValue(type, payload))
<1>1. ASSUME payload # Word PROVE payload \in Int
  BY <1>1 DEF Texts
<1>2. atoll(payload) \in Int /\ atoll(payload) % Unit = 0
  BY <1>1, TruncIsWhole DEF atoll, Unit
<1>3. atof(payload) \in Int
  BY <1>1 DEF atof
<1>4. CASE type = CACHE_VALUE_DECIMAL
  BY <1>2, <1>4 DEF StoredValue, Value, Whole, CACHE_VALUE_DECIMAL, CACHE_VALUE_REAL
<1>5. CASE type = CACHE_VALUE_REAL
  BY <1>3, <1>5 DEF StoredValue, Value, Whole, CACHE_VALUE_DECIMAL, CACHE_VALUE_REAL
<1>6. CASE type = CACHE_VALUE_STRING
  BY <1>6 DEF StoredValue, Value, Whole, CACHE_VALUE_DECIMAL, CACHE_VALUE_REAL,
              CACHE_VALUE_STRING
<1> QED BY <1>4, <1>5, <1>6 DEF Types

\* INITIAL becomes a number, and a whole one if it becomes a DECIMAL.
LEMMA InitialValueIsWhole ==
  ASSUME NEW initial \in Numeral \cup {NoArg}
  PROVE  InitialValue(initial) \in Value /\ Whole(InitialValue(initial))
<1>1. CASE initial = NoArg
  BY <1>1 DEF InitialValue, Value, Whole, Unit
<1>2. CASE initial # NoArg
  <2>1. initial.num \in Int
    BY <1>2 DEF Numeral
  <2>2. initial.num # Word
    BY <2>1, MarkersAssumption
  <2>3. atoll(initial.num) \in Int /\ atoll(initial.num) % Unit = 0
    BY <2>1, <2>2, TruncIsWhole DEF atoll
  <2>4. atof(initial.num) \in Int
    BY <2>1, <2>2 DEF atof
  <2> QED BY <1>2, <2>3, <2>4
    DEF InitialValue, Value, Whole, CACHE_VALUE_DECIMAL, CACHE_VALUE_REAL
<1> QED BY <1>1, <1>2

\* Counting keeps a number a number of its type, whole if it was a DECIMAL.
LEMMA ShiftedIsWhole ==
  ASSUME NEW v \in Value, IsNumber(v), NEW by \in Int
  PROVE  /\ Shifted(v, by) \in Value
         /\ IsNumber(Shifted(v, by))
         /\ Whole(Shifted(v, by))
<1>1. v \in [type : {CACHE_VALUE_DECIMAL, CACHE_VALUE_REAL}, val : Int]
  BY DEF Value, IsNumber
<1>2. v.val + by \in Int
  BY <1>1
<1>3. Trunc(v.val + by) \in Int /\ Trunc(v.val + by) % Unit = 0
  BY <1>2, TruncIsWhole
<1>4. CASE v.type = CACHE_VALUE_DECIMAL
  BY <1>1, <1>3, <1>4 DEF Shifted, Value, Whole, IsNumber
<1>5. CASE v.type = CACHE_VALUE_REAL
  BY <1>1, <1>2, <1>5
    DEF Shifted, Value, Whole, IsNumber, CACHE_VALUE_DECIMAL, CACHE_VALUE_REAL
<1> QED BY <1>1, <1>4, <1>5
=============================================================================
