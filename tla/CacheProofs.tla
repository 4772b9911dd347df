----------------------------- MODULE CacheProofs -----------------------------
(***************************************************************************)
(* Theorems about Cache, for every hash function, table size and set of    *)
(* requests.                                                               *)
(***************************************************************************)
EXTENDS Cache, ProtocolProofs, FiniteSetTheorems, TLAPS

(***************************************************************************)
(* hash_table.c: what each operation does to a good table.                 *)
(***************************************************************************)
Table == [slot : [Slots -> Cell \cup {NULL}], count : Int]
Full(t) == {s \in Slots : t.slot[s] # NULL}

Good(t) ==
  /\ t \in Table
  /\ t.count = Cardinality(Full(t))
  /\ \A s \in Full(t) : Whole(t.slot[s].content)

\* A cell holds a key and a value.
LEMMA CellFields ==
  ASSUME NEW t \in Table, NEW s \in Full(t)
  PROVE  t.slot[s] \in Cell /\ t.slot[s].content \in Value
BY DEF Table, Full, Cell

\* hash_table_create makes a good table.
LEMMA CreateGood == Good(hash_table_create)
<1>1. Full(hash_table_create) = {}
  BY DEF Full, hash_table_create
<1>2. hash_table_create \in Table
  BY DEF hash_table_create, Table
<1> QED BY <1>1, <1>2, FS_EmptySet DEF Good, hash_table_create

\* hash_table_set adds one to the count exactly when it fills an empty slot.
LEMMA SetGood ==
  ASSUME NEW t, Good(t), NEW key \in Keys, NEW v \in Value, Whole(v)
  PROVE  Good(hash_table_set(t, key, v))
<1> DEFINE new == hash_table_set(t, key, v)
           s == Hash[key]
           c == [key |-> key, content |-> v]
<1>1. s \in Slots /\ c \in Cell /\ c # NULL
  BY HashAssumption, CellAssumption DEF Cell
<1>2. t \in Table /\ t.slot \in [Slots -> Cell \cup {NULL}] /\ t.count \in Int
  BY DEF Good, Table
<1>3. /\ new.slot = [t.slot EXCEPT ![s] = c]
      /\ new.count = IF t.slot[s] = NULL THEN t.count + 1 ELSE t.count
      /\ new = [slot |-> new.slot, count |-> new.count]
  BY DEF hash_table_set
<1>4. new \in Table
  BY <1>1, <1>2, <1>3 DEF Table
<1>5. Full(new) = Full(t) \cup {s}
  BY <1>1, <1>2, <1>3 DEF Full
<1>6. IsFiniteSet(Full(t))
  BY HashAssumption, FS_Subset DEF Full
<1>7. new.count = Cardinality(Full(new))
  <2>1. s \in Full(t) <=> t.slot[s] # NULL
    BY <1>1 DEF Full
  <2>2. Cardinality(Full(t) \cup {s})
         = IF s \in Full(t) THEN Cardinality(Full(t)) ELSE Cardinality(Full(t)) + 1
    BY <1>6, FS_AddElement
  <2> QED BY <1>2, <1>3, <1>5, <2>1, <2>2 DEF Good
<1>8. ASSUME NEW i \in Full(new) PROVE Whole(new.slot[i].content)
  <2>1. CASE i = s
    BY <1>1, <1>2, <1>3, <2>1
  <2>2. CASE i # s
    BY <1>1, <1>2, <1>3, <1>5, <2>2 DEF Good, Full
  <2> QED BY <2>1, <2>2
<1> QED BY <1>4, <1>7, <1>8 DEF Good

\* hash_table_del takes one from the count exactly when it empties a slot.
LEMMA DelGood ==
  ASSUME NEW t, Good(t), NEW key \in Keys
  PROVE  Good(hash_table_del(t, key))
<1> DEFINE new == hash_table_del(t, key)
           s == Hash[key]
<1>1. s \in Slots
  BY HashAssumption
<1>2. t \in Table /\ t.slot \in [Slots -> Cell \cup {NULL}] /\ t.count \in Int
  BY DEF Good, Table
<1>3. /\ new.slot = [t.slot EXCEPT ![s] = NULL]
      /\ new.count = IF t.slot[s] = NULL THEN t.count ELSE t.count - 1
      /\ new = [slot |-> new.slot, count |-> new.count]
  BY DEF hash_table_del
<1>4. new \in Table
  BY <1>1, <1>2, <1>3 DEF Table
<1>5. Full(new) = Full(t) \ {s}
  BY <1>1, <1>2, <1>3 DEF Full
<1>6. IsFiniteSet(Full(t))
  BY HashAssumption, FS_Subset DEF Full
<1>7. new.count = Cardinality(Full(new))
  <2>1. s \in Full(t) <=> t.slot[s] # NULL
    BY <1>1 DEF Full
  <2>2. Cardinality(Full(t) \ {s})
         = IF s \in Full(t) THEN Cardinality(Full(t)) - 1 ELSE Cardinality(Full(t))
    BY <1>6, FS_RemoveElement
  <2> QED BY <1>2, <1>3, <1>5, <2>1, <2>2 DEF Good
<1>8. ASSUME NEW i \in Full(new) PROVE Whole(new.slot[i].content)
  BY <1>1, <1>2, <1>3, <1>5 DEF Good, Full
<1> QED BY <1>4, <1>7, <1>8 DEF Good

\* hash_table_inc and hash_table_dec change a number in place.
LEMMA ShiftGood ==
  ASSUME NEW t, Good(t), NEW key \in Keys, HasNumber(t, key), NEW by \in Int
  PROVE  Good(hash_table_shift(t, key, by))
<1> DEFINE new == hash_table_shift(t, key, by)
           s == Hash[key]
           v == t.slot[s].content
           c == [t.slot[s] EXCEPT !.content = Shifted(v, by)]
<1>1. s \in Full(t) /\ s \in Slots /\ IsNumber(v)
  BY HashAssumption DEF HasNumber, hash_table_get, Full
<1>2. t \in Table /\ t.slot \in [Slots -> Cell \cup {NULL}]
  BY DEF Good, Table
<1>3. Shifted(v, by) \in Value /\ Whole(Shifted(v, by))
  BY <1>1, <1>2, CellFields, ShiftedIsWhole
<1>4. c \in Cell /\ c # NULL /\ c.content = Shifted(v, by)
  <2>1. t.slot[s] \in Cell
    BY <1>1, <1>2, CellFields
  <2> QED BY <2>1, <1>3, CellAssumption DEF Cell
<1>5. new = [t EXCEPT !.slot = [t.slot EXCEPT ![s] = c]]
  BY <1>2 DEF hash_table_shift, Table
<1>6. new.slot = [t.slot EXCEPT ![s] = c] /\ new.count = t.count
  BY <1>2, <1>5 DEF Table
<1>7. new \in Table
  BY <1>1, <1>2, <1>4, <1>5 DEF Table
<1>8. Full(new) = Full(t)
  BY <1>1, <1>2, <1>4, <1>6 DEF Full
<1>9. ASSUME NEW i \in Full(new) PROVE Whole(new.slot[i].content)
  <2>1. CASE i = s
    BY <1>1, <1>2, <1>3, <1>4, <1>6, <2>1
  <2>2. CASE i # s
    BY <1>1, <1>2, <1>6, <1>8, <2>2 DEF Good, Full
  <2> QED BY <2>1, <2>2
<1> QED BY <1>6, <1>7, <1>8, <1>9 DEF Good

(***************************************************************************)
(* The command handlers: a good table and a well-formed reply.             *)
(***************************************************************************)
GoodResult(result) == Good(result.table) /\ result.reply \in Reply

\* Replies are well formed.
LEMMA Replies ==
  /\ BadRequest \in Reply /\ NotFound \in Reply /\ KeyExists \in Reply
  /\ ServerError \in Reply /\ Ok(NULL) \in Reply
  /\ \A v \in Value : Ok(v) \in Reply
  /\ \A n \in Int : Ok([keys |-> n]) \in Reply
BY DEF BadRequest, NotFound, KeyExists, ServerError, Ok, Reply

\* The arguments of an accepted SET or ADD.
LEMMA PutArguments ==
  ASSUME NEW r \in Request, Accepted(r), r.cmd \in {"SET", "ADD"}
  PROVE  r.key \in Keys /\ r.payload \in Texts
BY DEF Request, Accepted

\* The arguments of an accepted INC or DEC.
LEMMA CountArguments ==
  ASSUME NEW r \in Request, Accepted(r), r.cmd \in {"INC", "DEC"}
  PROVE  r.key \in Keys /\ Change(r) \in Int /\ r.initial \in Numeral \cup {NoArg}
<1>1. /\ r.key \in Keys
      /\ r.offset \in Nat \cup {NoArg}
      /\ r.initial \in Numeral \cup {NoArg}
  BY DEF Request, Accepted
<1>2. Offset(r) \in Int
  BY <1>1 DEF Offset, Unit
<1> QED BY <1>1, <1>2 DEF Change

\* GET replies with the content of a cell, which is a value.
LEMMA GetResult ==
  ASSUME NEW t, Good(t), NEW r, r.key \in Keys
  PROVE  GoodResult(memuncached_get(t, r))
<1>1. CASE hash_table_get(t, r.key) = NULL
  BY <1>1, Replies DEF memuncached_get, GoodResult
<1>2. CASE hash_table_get(t, r.key) # NULL
  <2>1. Hash[r.key] \in Full(t)
    BY <1>2, HashAssumption DEF hash_table_get, Full
  <2>2. hash_table_get(t, r.key).content \in Value
    BY <2>1, CellFields DEF hash_table_get, Good
  <2> QED BY <1>2, <2>2, Replies DEF memuncached_get, GoodResult
<1> QED BY <1>1, <1>2

\* DEL replies as GET does and empties the slot.
LEMMA DelResult ==
  ASSUME NEW t, Good(t), NEW r, r.key \in Keys
  PROVE  GoodResult(memuncached_del(t, r))
BY GetResult, DelGood DEF memuncached_del, GoodResult

\* INC and DEC change the number or plant INITIAL, then reply as GET does.
LEMMA ShiftResult ==
  ASSUME NEW t, Good(t), NEW r \in Request, Accepted(r), r.cmd \in {"INC", "DEC"}
  PROVE  GoodResult(memuncached_shift(t, r))
<1>1. r.key \in Keys /\ Change(r) \in Int /\ r.initial \in Numeral \cup {NoArg}
  BY CountArguments
<1>2. CASE HasNumber(t, r.key)
  <2>1. Good(hash_table_shift(t, r.key, Change(r)))
    BY <1>1, <1>2, ShiftGood
  <2> QED BY <1>1, <1>2, <2>1, GetResult DEF memuncached_shift
<1>3. CASE ~ HasNumber(t, r.key)
  <2>1. Good(hash_table_set(t, r.key, InitialValue(r.initial)))
    BY <1>1, InitialValueIsWhole, SetGood
  <2> QED BY <1>1, <1>3, <2>1, GetResult DEF memuncached_shift
<1> QED BY <1>2, <1>3

\* SET clears the slot, then fills it unless TYPE names no type.
LEMMA SetResult ==
  ASSUME NEW t, Good(t), NEW r \in Request, Accepted(r), r.cmd \in {"SET", "ADD"}
  PROVE  GoodResult(memuncached_set(t, r))
<1> DEFINE cleared == hash_table_del(t, r.key)
<1>1. r.key \in Keys /\ r.payload \in Texts
  BY PutArguments
<1>2. Good(cleared)
  BY <1>1, DelGood
<1>3. CASE r.type \in Types
  <2>1. Good(hash_table_set(cleared, r.key, StoredValue(r.type, r.payload)))
    BY <1>1, <1>2, <1>3, StoredValueIsWhole, SetGood
  <2> QED BY <1>3, <2>1, Replies DEF memuncached_set, GoodResult
<1>4. CASE r.type \notin Types
  BY <1>2, <1>4, Replies DEF memuncached_set, GoodResult
<1> QED BY <1>3, <1>4

\* ADD is SET behind a test.
LEMMA AddResult ==
  ASSUME NEW t, Good(t), NEW r \in Request, Accepted(r), r.cmd \in {"SET", "ADD"}
  PROVE  GoodResult(memuncached_add(t, r))
<1>1. CASE hash_table_get(t, r.key) # NULL
  BY <1>1, Replies DEF memuncached_add, GoodResult
<1>2. CASE hash_table_get(t, r.key) = NULL
  BY <1>2, SetResult DEF memuncached_add
<1> QED BY <1>1, <1>2

(***************************************************************************)
(* The invariant.                                                          *)
(***************************************************************************)
IInv == TypeOK /\ Good(table)

\* IInv is all three invariants of Cache at once: they need each other, since
\* the count stays exact only if occupied slots hold cells, and a number stays
\* whole only if it was one.
LEMMA IInvIsTheInvariants == IInv <=> TypeOK /\ CountIsOccupancy /\ DecimalsAreWhole
<1>1. Full(table) = Occupied
  BY DEF Full, Occupied
<1>2. ASSUME NEW s \in Occupied
      PROVE  Whole(table.slot[s].content)
               <=> (table.slot[s].content.type = CACHE_VALUE_DECIMAL
                      => table.slot[s].content.val % Unit = 0)
  BY DEF Whole
<1>3. TypeOK => table \in Table
  BY DEF TypeOK, Table
<1> QED BY <1>1, <1>2, <1>3 DEF IInv, Good, CountIsOccupancy, DecimalsAreWhole

\* The empty table is good.
LEMMA InitIInv == Init => IInv
<1> SUFFICES ASSUME Init PROVE IInv
  OBVIOUS
<1>1. Good(table)
  BY CreateGood DEF Init
<1>2. TypeOK
  BY <1>1 DEF Init, TypeOK, Good, Table
<1> QED BY <1>1, <1>2 DEF IInv

\* A handler with a good result keeps IInv.
LEMMA FinishIInv ==
  ASSUME IInv, NEW c \in Clients, NEW result, GoodResult(result), Finish(c, result)
  PROVE  IInv'
<1>1. Good(table')
  BY DEF Finish, GoodResult
<1>2. table' \in Table
  BY <1>1 DEF Good
<1>3. pending' \in [Clients -> Requests \cup {NULL}]
  BY DEF IInv, TypeOK, Finish
<1>4. answer' \in [Clients -> Reply \cup {NULL}]
  BY DEF IInv, TypeOK, Finish, GoodResult
<1>5. TypeOK'
  BY <1>2, <1>3, <1>4 DEF TypeOK, Table
<1>6. Good(table)'
  BY <1>1 DEF Good, Full, Table
<1> QED BY <1>5, <1>6 DEF IInv

\* Every step keeps IInv.
LEMMA NextIInv == IInv /\ [Next]_vars => IInv'
<1> SUFFICES ASSUME IInv, [Next]_vars PROVE IInv'
  OBVIOUS
<1>1. ASSUME NEW c \in Clients, NEW r \in Requests, Send(c, r) PROVE IInv'
  BY <1>1 DEF Send, IInv, TypeOK, Good, Full, Table
<1>2. ASSUME NEW c \in Clients, handle_command(c) PROVE IInv'
  <2> DEFINE r == pending[c]
  <2>1. Good(table)
    BY DEF IInv
  <2>2. CASE BadCommand(c)
    <3>1. GoodResult([table |-> table, reply |-> BadRequest])
      BY <2>1, Replies DEF GoodResult
    <3> QED BY <2>2, <3>1, FinishIInv DEF BadCommand
  <2>3. ASSUME r # NULL PROVE r \in Request
    BY <2>3, RequestsAssumption DEF IInv, TypeOK
  <2>4. CASE Get(c)
    <3>1. r.key \in Keys
      BY <2>3, <2>4 DEF Get, Dispatched, Request, Accepted
    <3> QED BY <2>1, <2>4, <3>1, GetResult, FinishIInv DEF Get
  <2>5. CASE Del(c)
    <3>1. r.key \in Keys
      BY <2>3, <2>5 DEF Del, Dispatched, Request, Accepted
    <3> QED BY <2>1, <2>5, <3>1, DelResult, FinishIInv DEF Del
  <2>6. CASE Set(c)
    BY <2>1, <2>3, <2>6, SetResult, FinishIInv DEF Set, Dispatched
  <2>7. CASE Add(c)
    BY <2>1, <2>3, <2>7, AddResult, FinishIInv DEF Add, Dispatched
  <2>8. CASE IncDec(c)
    BY <2>1, <2>3, <2>8, ShiftResult, FinishIInv DEF IncDec, Dispatched
  <2>9. CASE Stt(c)
    <3>1. GoodResult(memuncached_stt(table))
      BY <2>1, Replies DEF memuncached_stt, GoodResult, Good, Table
    <3> QED BY <2>9, <3>1, FinishIInv DEF Stt
  <2>10. CASE Ver(c)
    <3>1. GoodResult([table |-> table, reply |-> Ok(NULL)])
      BY <2>1, Replies DEF GoodResult
    <3> QED BY <2>10, <3>1, FinishIInv DEF Ver
  <2>11. CASE ReadFailed(c)
    <3>1. GoodResult([table |-> table, reply |-> ServerError])
      BY <2>1, Replies DEF GoodResult
    <3> QED BY <2>11, <3>1, FinishIInv DEF ReadFailed
  <2> QED BY <1>2, <2>2, <2>4, <2>5, <2>6, <2>7, <2>8, <2>9, <2>10, <2>11
      DEF handle_command
<1>3. CASE UNCHANGED vars
  BY <1>3 DEF vars, IInv, TypeOK, Good, Full, Table
<1> QED BY <1>1, <1>2, <1>3 DEF Next

\* IInv holds in every reachable state.
LEMMA SpecIInv == Spec => []IInv
BY InitIInv, NextIInv, PTL DEF Spec

\* Variables keep their types, for every hash and every set of requests.
THEOREM CacheTypeOK == Spec => []TypeOK
<1>1. IInv => TypeOK
  BY DEF IInv
<1> QED BY <1>1, SpecIInv, PTL

\* table->count, which STT reports, is the number of occupied slots.
THEOREM CacheCountIsOccupancy == Spec => []CountIsOccupancy
<1>1. IInv => CountIsOccupancy
  BY IInvIsTheInvariants
<1> QED BY <1>1, SpecIInv, PTL

\* DECIMAL cells hold whole numbers, whatever payloads, INITIALs and OFFSETs
\* clients send.
THEOREM CacheDecimalsAreWhole == Spec => []DecimalsAreWhole
<1>1. IInv => DecimalsAreWhole
  BY IInvIsTheInvariants
<1> QED BY <1>1, SpecIInv, PTL

(***************************************************************************)
(* What a refused or failed command leaves behind.                         *)
(***************************************************************************)
\* A deletion that finds nothing changes nothing.
LEMMA DelNothing ==
  ASSUME NEW t \in Table, NEW key \in Keys, hash_table_get(t, key) = NULL
  PROVE  hash_table_del(t, key) = t
<1>1. [t.slot EXCEPT ![Hash[key]] = NULL] = t.slot
  BY HashAssumption DEF Table, hash_table_get
<1>2. t = [slot |-> t.slot, count |-> t.count]
  BY DEF Table
<1> QED BY <1>1, <1>2 DEF hash_table_del, hash_table_get

\* INC and DEC always answer 200.
LEMMA ShiftSucceeds ==
  ASSUME NEW t, Good(t), NEW r \in Request, Accepted(r), r.cmd \in {"INC", "DEC"}
  PROVE  memuncached_shift(t, r).reply.code = 200
<1>1. r.key \in Keys /\ Change(r) \in Int /\ Hash[r.key] \in Slots
  BY CountArguments, HashAssumption
<1>2. t \in Table
  BY DEF Good
<1>3. CASE HasNumber(t, r.key)
  <2>1. t.slot[Hash[r.key]] \in Cell
    BY <1>1, <1>2, <1>3, CellFields DEF HasNumber, hash_table_get, Full
  <2>2. hash_table_get(hash_table_shift(t, r.key, Change(r)), r.key)
          = [t.slot[Hash[r.key]] EXCEPT !.content = Shifted(@, Change(r))]
    BY <1>1, <1>2 DEF hash_table_get, hash_table_shift, Table
  <2>3. Shifted(t.slot[Hash[r.key]].content, Change(r)) \in Value
    BY <1>1, <1>3, <2>1, ShiftedIsWhole DEF HasNumber, hash_table_get, Cell
  <2>4. hash_table_get(hash_table_shift(t, r.key, Change(r)), r.key) # NULL
    BY <2>1, <2>2, <2>3, CellAssumption DEF Cell
  <2> QED BY <1>3, <2>4 DEF memuncached_shift, memuncached_get, Ok
<1>4. CASE ~ HasNumber(t, r.key)
  <2> DEFINE c == [key |-> r.key, content |-> InitialValue(r.initial)]
  <2>1. c \in Cell /\ c # NULL
    BY <1>1, CountArguments, InitialValueIsWhole, CellAssumption DEF Cell
  <2>2. hash_table_get(hash_table_set(t, r.key, InitialValue(r.initial)), r.key) = c
    BY <1>1, <1>2 DEF hash_table_get, hash_table_set, Table
  <2> QED BY <1>4, <2>1, <2>2 DEF memuncached_shift, memuncached_get, Ok
<1> QED BY <1>3, <1>4

\* A command answered with anything but 200 leaves the table alone, except
\* that a SET whose TYPE names no type empties its slot.
THEOREM CacheFailureLeavesTable == Spec => FailureLeavesTable
<1>1. ASSUME IInv, NEW c \in Clients, NEW d \in Clients, NEW r \in Requests, Send(d, r)
      PROVE  LeavesTable(c)
  BY <1>1 DEF Send, IInv, TypeOK, LeavesTable
<1>2. ASSUME IInv, NEW c \in Clients, NEW d \in Clients, handle_command(d)
      PROVE  LeavesTable(c)
  <2> DEFINE r == pending[d]
  <2>1. table \in Table /\ Good(table)
    BY <1>2 DEF IInv, Good
  <2>2. ASSUME r # NULL PROVE r \in Request
    BY <1>2, <2>2, RequestsAssumption DEF IInv, TypeOK
  <2>3. ASSUME NEW result, Finish(d, result),
               \/ result.table = table
               \/ result.reply.code = 200
               \/ /\ r.cmd = "SET"
                  /\ r.type \notin Types
                  /\ result.table.slot = [table.slot EXCEPT ![Hash[r.key]] = NULL]
        PROVE  LeavesTable(c)
    <3>1. c # d => pending'[c] = pending[c]
      BY <1>2, <2>3 DEF Finish, IInv, TypeOK
    <3>2. answer'[d] = result.reply /\ table' = result.table
      BY <1>2, <2>3 DEF Finish, IInv, TypeOK
    <3> QED BY <2>3, <3>1, <3>2 DEF LeavesTable
  <2>4. CASE BadCommand(d)
    BY <2>3, <2>4 DEF BadCommand
  <2>5. CASE Get(d)
    BY <2>3, <2>5 DEF Get, memuncached_get
  <2>6. CASE Del(d)
    <3>1. r.key \in Keys
      BY <2>2, <2>6 DEF Del, Dispatched, Request, Accepted
    <3>2. CASE hash_table_get(table, r.key) = NULL
      BY <2>1, <2>3, <2>6, <3>1, <3>2, DelNothing DEF Del, memuncached_del
    <3>3. CASE hash_table_get(table, r.key) # NULL
      BY <2>3, <2>6, <3>3 DEF Del, memuncached_del, memuncached_get, Ok
    <3> QED BY <3>2, <3>3
  <2>7. CASE Set(d)
    <3>1. Finish(d, memuncached_set(table, r)) /\ r.cmd = "SET"
      BY <2>7 DEF Set, Dispatched
    <3>2. CASE r.type \in Types
      BY <2>3, <3>1, <3>2 DEF memuncached_set, Ok
    <3>3. CASE r.type \notin Types
      BY <2>3, <3>1, <3>3 DEF memuncached_set, hash_table_del
    <3> QED BY <3>2, <3>3
  <2>8. CASE Add(d)
    <3>1. Finish(d, memuncached_add(table, r)) /\ r.key \in Keys
      BY <2>2, <2>8, PutArguments DEF Add, Dispatched
    <3>2. CASE hash_table_get(table, r.key) # NULL
      BY <2>3, <3>1, <3>2 DEF memuncached_add
    <3>3. CASE hash_table_get(table, r.key) = NULL /\ r.type \in Types
      BY <2>3, <3>1, <3>3 DEF memuncached_add, memuncached_set, Ok
    <3>4. CASE hash_table_get(table, r.key) = NULL /\ r.type \notin Types
      BY <2>1, <2>3, <3>1, <3>4, DelNothing DEF memuncached_add, memuncached_set
    <3> QED BY <3>2, <3>3, <3>4
  <2>9. CASE IncDec(d)
    <3>1. Finish(d, memuncached_shift(table, r)) /\ memuncached_shift(table, r).reply.code = 200
      BY <2>1, <2>2, <2>9, ShiftSucceeds DEF IncDec, Dispatched
    <3> QED BY <2>3, <3>1
  <2>10. CASE Stt(d)
    BY <2>3, <2>10 DEF Stt, memuncached_stt
  <2>11. CASE Ver(d)
    BY <2>3, <2>11 DEF Ver
  <2>12. CASE ReadFailed(d)
    BY <2>3, <2>12 DEF ReadFailed
  <2> QED BY <1>2, <2>4, <2>5, <2>6, <2>7, <2>8, <2>9, <2>10, <2>11, <2>12
      DEF handle_command
<1>3. IInv /\ [Next]_vars => [\A c \in Clients : LeavesTable(c)]_vars
  BY <1>1, <1>2 DEF Next
<1> QED BY <1>3, SpecIInv, PTL DEF Spec, FailureLeavesTable
-----------------------------------------------------------------------------
(***************************************************************************)
(* Cache implements KeyValueStore with slots for keys, for every hash:     *)
(* each handler is one step of the store.                                  *)
(***************************************************************************)
(***************************************************************************)
(* The store's operators on values do not depend on what its keys are.     *)
(***************************************************************************)
\* Conversions, counting and types are the same for keys and for slots.
LEMMA SameValues ==
  /\ \A type, payload : SlotStore!StoredValue(type, payload) = StoredValue(type, payload)
  /\ \A v : SlotStore!IsNumber(v) = IsNumber(v)
  /\ \A v, by : SlotStore!Shifted(v, by) = Shifted(v, by)
  /\ \A initial : SlotStore!InitialValue(initial) = InitialValue(initial)
  /\ SlotStore!Types = Types
<1>1. \A n : SlotStore!Trunc(n) = Trunc(n)
  BY DEF SlotStore!Trunc, Trunc, SlotStore!Unit, Unit
<1>2. \A t : SlotStore!atoll(t) = atoll(t) /\ SlotStore!atof(t) = atof(t)
  BY <1>1 DEF SlotStore!atoll, atoll, SlotStore!atof, atof
<1>3. /\ SlotStore!CACHE_VALUE_DECIMAL = CACHE_VALUE_DECIMAL
      /\ SlotStore!CACHE_VALUE_REAL = CACHE_VALUE_REAL
      /\ SlotStore!CACHE_VALUE_STRING = CACHE_VALUE_STRING
  BY DEF SlotStore!CACHE_VALUE_DECIMAL, CACHE_VALUE_DECIMAL, SlotStore!CACHE_VALUE_REAL,
         CACHE_VALUE_REAL, SlotStore!CACHE_VALUE_STRING, CACHE_VALUE_STRING
<1>4. \A type, payload : SlotStore!StoredValue(type, payload) = StoredValue(type, payload)
  BY <1>2, <1>3 DEF SlotStore!StoredValue, StoredValue
<1>5. \A v : SlotStore!IsNumber(v) = IsNumber(v)
  BY <1>3 DEF SlotStore!IsNumber, IsNumber
<1>6. \A v, by : SlotStore!Shifted(v, by) = Shifted(v, by)
  BY <1>1, <1>3 DEF SlotStore!Shifted, Shifted
<1>7. \A initial : SlotStore!InitialValue(initial) = InitialValue(initial)
  BY <1>2, <1>3 DEF SlotStore!InitialValue, InitialValue, SlotStore!Unit, Unit
<1> QED BY <1>3, <1>4, <1>5, <1>6, <1>7 DEF SlotStore!Types, Types

\* Nor do its replies.
LEMMA SameReplies ==
  /\ SlotStore!BadRequest = BadRequest
  /\ SlotStore!NotFound = NotFound
  /\ SlotStore!KeyExists = KeyExists
  /\ SlotStore!ServerError = ServerError
  /\ \A body : SlotStore!Ok(body) = Ok(body)
BY DEF SlotStore!BadRequest, BadRequest, SlotStore!NotFound, NotFound,
       SlotStore!KeyExists, KeyExists, SlotStore!ServerError, ServerError,
       SlotStore!Ok, Ok

(***************************************************************************)
(* A request, and the request of its slot.                                 *)
(***************************************************************************)
\* Naming a slot instead of a key leaves the rest of a request alone, and the
\* argument checks with it.
LEMMA ToSlotFields ==
  ASSUME NEW r \in Request
  PROVE  /\ ToSlot(r).cmd = r.cmd
         /\ SlotStore!Accepted(ToSlot(r)) <=> Accepted(r)
         /\ r.cmd \in {"SET", "ADD"} =>
              /\ ToSlot(r).type = r.type
              /\ ToSlot(r).payload = r.payload
         /\ r.cmd \in {"INC", "DEC"} =>
              /\ ToSlot(r).offset = r.offset
              /\ ToSlot(r).initial = r.initial
<1>1. CASE r \in [cmd : {"SET", "ADD"}, key : Keys \cup {NoArg},
                  type : Nat \cup {NoArg, Bad}, length : Nat \cup {NoArg, Bad},
                  payload : Texts]
  <2>1. CASE r.key = NoArg
    BY <1>1, <2>1 DEF ToSlot, Accepted, SlotStore!Accepted
  <2>2. CASE r.key # NoArg
    <3>1. Hash[r.key] # NoArg
      BY <1>1, <2>2, HashAssumption, SlotsAssumption
    <3>2. ToSlot(r) = [r EXCEPT !.key = Hash[r.key]]
      BY <1>1, <2>2 DEF ToSlot
    <3> QED BY <1>1, <2>2, <3>1, <3>2 DEF Accepted, SlotStore!Accepted
  <2> QED BY <2>1, <2>2
<1>2. CASE r \in [cmd : {"INC", "DEC"}, key : Keys \cup {NoArg},
                  offset : Nat \cup {NoArg, Bad}, initial : Numeral \cup {NoArg, Bad}]
  <2>1. CASE r.key = NoArg
    BY <1>2, <2>1 DEF ToSlot, Accepted, SlotStore!Accepted
  <2>2. CASE r.key # NoArg
    <3>1. Hash[r.key] # NoArg
      BY <1>2, <2>2, HashAssumption, SlotsAssumption
    <3>2. ToSlot(r) = [r EXCEPT !.key = Hash[r.key]]
      BY <1>2, <2>2 DEF ToSlot
    <3> QED BY <1>2, <2>2, <3>1, <3>2 DEF Accepted, SlotStore!Accepted
  <2> QED BY <2>1, <2>2
<1>3. CASE r \in [cmd : {"GET", "DEL"}, key : Keys \cup {NoArg}]
  <2>1. CASE r.key = NoArg
    BY <1>3, <2>1 DEF ToSlot, Accepted, SlotStore!Accepted
  <2>2. CASE r.key # NoArg
    <3>1. Hash[r.key] # NoArg
      BY <1>3, <2>2, HashAssumption, SlotsAssumption
    <3>2. ToSlot(r) = [r EXCEPT !.key = Hash[r.key]]
      BY <1>3, <2>2 DEF ToSlot
    <3> QED BY <1>3, <2>2, <3>1, <3>2 DEF Accepted, SlotStore!Accepted
  <2> QED BY <2>1, <2>2
<1>4. CASE r \in [cmd : {"STT", "VER"}, extra : BOOLEAN] \cup [cmd : {"???"}]
  BY <1>4 DEF ToSlot, Accepted, SlotStore!Accepted
<1> QED BY <1>1, <1>2, <1>3, <1>4 DEF Request

\* An accepted request for a key is one for the key's slot.
LEMMA ToSlotKey ==
  ASSUME NEW r \in Request, Accepted(r),
         r.cmd \in {"SET", "ADD", "INC", "DEC", "GET", "DEL"}
  PROVE  r.key \in Keys /\ Hash[r.key] \in Slots /\ ToSlot(r).key = Hash[r.key]
<1>1. r.key \in Keys /\ r.key # NoArg
  BY MarkersAssumption DEF Request, Accepted
<1>2. ToSlot(r) = [r EXCEPT !.key = Hash[r.key]]
  BY <1>1 DEF ToSlot
<1>3. [r EXCEPT !.key = Hash[r.key]].key = Hash[r.key]
  BY DEF Request, Accepted
<1> QED BY <1>1, <1>2, <1>3, HashAssumption

(***************************************************************************)
(* The table, and the store of its slots.                                  *)
(***************************************************************************)
ContentIn(t, s) == IF t.slot[s] = NULL THEN NULL ELSE t.slot[s].content
StoreOf(t) == [s \in Slots |-> ContentIn(t, s)]

\* A slot is empty in the store exactly when it is in the table.
LEMMA EmptyIsNull ==
  ASSUME NEW t \in Table, NEW s \in Slots
  PROVE  StoreOf(t)[s] = NULL <=> t.slot[s] = NULL
<1>1. ASSUME t.slot[s] # NULL PROVE t.slot[s].content # NULL
  BY <1>1, CellFields, NullAssumption DEF Full
<1> QED BY <1>1 DEF StoreOf, ContentIn

\* hash_table_set writes one slot of the store.
LEMMA SetWrites ==
  ASSUME NEW t \in Table, NEW key \in Keys, NEW v \in Value
  PROVE  StoreOf(hash_table_set(t, key, v)) = [StoreOf(t) EXCEPT ![Hash[key]] = v]
<1> DEFINE c == [key |-> key, content |-> v]
<1>1. c # NULL /\ c.content = v
  BY CellAssumption DEF Cell
<1>2. hash_table_set(t, key, v).slot = [t.slot EXCEPT ![Hash[key]] = c]
  BY DEF hash_table_set
<1> QED BY <1>1, <1>2, HashAssumption DEF StoreOf, ContentIn, Table

\* hash_table_del empties one slot of the store.
LEMMA DelWrites ==
  ASSUME NEW t \in Table, NEW key \in Keys
  PROVE  StoreOf(hash_table_del(t, key)) = [StoreOf(t) EXCEPT ![Hash[key]] = NULL]
<1>1. hash_table_del(t, key).slot = [t.slot EXCEPT ![Hash[key]] = NULL]
  BY DEF hash_table_del
<1> QED BY <1>1, HashAssumption DEF StoreOf, ContentIn, Table

\* hash_table_inc and hash_table_dec write the number they computed.
LEMMA ShiftWrites ==
  ASSUME NEW t \in Table, NEW key \in Keys, HasNumber(t, key), NEW by \in Int
  PROVE  StoreOf(hash_table_shift(t, key, by))
           = [StoreOf(t) EXCEPT ![Hash[key]] = Shifted(@, by)]
<1> DEFINE s == Hash[key]
           c == [t.slot[s] EXCEPT !.content = Shifted(t.slot[s].content, by)]
<1>1. s \in Slots /\ s \in Full(t) /\ IsNumber(t.slot[s].content)
  BY HashAssumption DEF HasNumber, hash_table_get, Full
<1>2. t.slot[s] \in Cell /\ t.slot[s].content \in Value
  BY <1>1, CellFields
<1>3. Shifted(t.slot[s].content, by) \in Value
  BY <1>1, <1>2, ShiftedIsWhole
<1>4. c \in Cell /\ c # NULL /\ c.content = Shifted(t.slot[s].content, by)
  BY <1>2, <1>3, CellAssumption DEF Cell
<1>5. hash_table_shift(t, key, by).slot = [t.slot EXCEPT ![s] = c]
  BY <1>1 DEF hash_table_shift, Table
<1>6. StoreOf(t)[s] = t.slot[s].content
  BY <1>1 DEF StoreOf, ContentIn, Full
<1> QED BY <1>1, <1>4, <1>5, <1>6 DEF StoreOf, ContentIn, Table

\* What GET answers is in the store.
LEMMA GetReads ==
  ASSUME NEW t \in Table, NEW r, r.key \in Keys
  PROVE  memuncached_get(t, r).reply
           = IF StoreOf(t)[Hash[r.key]] = NULL THEN NotFound ELSE Ok(StoreOf(t)[Hash[r.key]])
<1>1. Hash[r.key] \in Slots
  BY HashAssumption
<1>2. t.slot[Hash[r.key]] # NULL => StoreOf(t)[Hash[r.key]] = t.slot[Hash[r.key]].content
  BY <1>1 DEF StoreOf, ContentIn
<1> QED BY <1>1, <1>2, EmptyIsNull DEF memuncached_get, hash_table_get

\* The effect and the answer of INC and DEC, in terms of the store.
LEMMA ShiftEffect ==
  ASSUME NEW t, Good(t), NEW r \in Request, Accepted(r), r.cmd \in {"INC", "DEC"}
  PROVE  LET s   == Hash[r.key]
             old == StoreOf(t)[s]
             new == IF old # NULL /\ IsNumber(old)
                      THEN Shifted(old, Change(r)) ELSE InitialValue(r.initial)
         IN  /\ StoreOf(memuncached_shift(t, r).table) = [StoreOf(t) EXCEPT ![s] = new]
             /\ memuncached_shift(t, r).reply = Ok(new)
<1> DEFINE s   == Hash[r.key]
           old == StoreOf(t)[s]
           new == IF old # NULL /\ IsNumber(old)
                    THEN Shifted(old, Change(r)) ELSE InitialValue(r.initial)
           u   == IF HasNumber(t, r.key)
                    THEN hash_table_shift(t, r.key, Change(r))
                    ELSE hash_table_set(t, r.key, InitialValue(r.initial))
<1>1. /\ r.key \in Keys /\ Change(r) \in Int /\ s \in Slots
      /\ r.initial \in Numeral \cup {NoArg}
  BY CountArguments, HashAssumption
<1>2. t \in Table
  BY DEF Good
<1>3. HasNumber(t, r.key) <=> old # NULL /\ IsNumber(old)
  BY <1>1, <1>2, EmptyIsNull DEF HasNumber, hash_table_get, StoreOf, ContentIn
<1>4. u \in Table
  BY <1>1, ShiftGood, SetGood, InitialValueIsWhole DEF Good
<1>5. StoreOf(u) = [StoreOf(t) EXCEPT ![s] = new]
  BY <1>1, <1>2, <1>3, ShiftWrites, SetWrites, InitialValueIsWhole
<1>6. new \in Value /\ new # NULL
  <2>1. CASE HasNumber(t, r.key)
    <3>1. s \in Full(t) /\ old = t.slot[s].content
      BY <1>1, <2>1 DEF HasNumber, hash_table_get, Full, StoreOf, ContentIn
    <3> QED BY <1>1, <1>2, <1>3, <2>1, <3>1, CellFields, ShiftedIsWhole, NullAssumption
  <2>2. CASE ~ HasNumber(t, r.key)
    BY <1>1, <1>3, <2>2, InitialValueIsWhole, NullAssumption
  <2> QED BY <2>1, <2>2
<1>7. StoreOf(u)[s] = new
  BY <1>1, <1>5 DEF StoreOf
<1>8. memuncached_shift(t, r) = memuncached_get(u, r)
  BY DEF memuncached_shift
<1>9. memuncached_get(u, r).table = u
  BY DEF memuncached_get
<1> HIDE DEF u, new
<1>10. memuncached_get(u, r).reply = Ok(new)
  BY <1>1, <1>4, <1>6, <1>7, GetReads
<1> QED BY <1>5, <1>8, <1>9, <1>10 DEF new

(***************************************************************************)
(* The simulation, one lemma for each kind of step.                        *)
(***************************************************************************)
\* The refinement mapping of the table.
LEMMA ContentsAreStore == Contents = StoreOf(table) /\ Contents' = StoreOf(table')
BY DEF Contents, ContentAt, StoreOf, ContentIn

\* A pending request is the store's pending request for its slot.
LEMMA AskedAlike ==
  ASSUME IInv, NEW c \in Clients, pending[c] # NULL
  PROVE  /\ pending[c] \in Request
         /\ Asks[c] = ToSlot(pending[c])
         /\ Asks[c] # NULL
<1>1. pending[c] \in Requests
  BY DEF IInv, TypeOK
<1> QED BY <1>1, RequestsAssumption, SlotsAssumption DEF Asks

\* The store serves a request when handle_command dispatches it.
LEMMA DispatchedAlike ==
  ASSUME IInv, NEW c \in Clients, NEW cmds, Dispatched(c, cmds)
  PROVE  SlotStore!Asked(c, cmds)
<1>1. pending[c] # NULL
  BY DEF Dispatched
<1> QED BY <1>1, AskedAlike, ToSlotFields DEF Dispatched, SlotStore!Asked

\* A handler that finishes responds.
LEMMA FinishResponds ==
  ASSUME IInv, NEW c \in Clients, NEW result, Finish(c, result)
  PROVE  /\ SlotStore!Respond(c, result.reply)
         /\ Contents' = StoreOf(result.table)
<1>1. Asks' = [Asks EXCEPT ![c] = NULL]
  BY DEF Finish, Asks, IInv, TypeOK
<1> QED BY <1>1, ContentsAreStore DEF Finish, SlotStore!Respond

\* A request that arrives is invoked.
LEMMA SendSimulates ==
  ASSUME IInv, NEW c \in Clients, NEW r \in Requests, Send(c, r)
  PROVE  SlotStore!Next
<1>1. Asks' = [Asks EXCEPT ![c] = ToSlot(r)]
  BY RequestsAssumption DEF Send, Asks, IInv, TypeOK
<1>2. Asks[c] = NULL
  BY DEF Send, Asks
<1>3. Contents' = Contents
  BY ContentsAreStore DEF Send
<1>4. SlotStore!Invoke(c, ToSlot(r))
  BY <1>1, <1>2, <1>3 DEF Send, SlotStore!Invoke
<1> QED BY <1>4 DEF SlotStore!Next

\* GET reads the store.
LEMMA GetSimulates ==
  ASSUME IInv, NEW c \in Clients, Get(c)
  PROVE  SlotStore!Get(c)
<1> DEFINE r == pending[c]
           v == Contents[Asks[c].key]
<1>1. table \in Table
  BY DEF IInv, Good
<1>2. /\ SlotStore!Asked(c, {"GET"})
      /\ Asks[c].key = Hash[r.key] /\ r.key \in Keys
  BY DispatchedAlike, AskedAlike, ToSlotKey DEF Get, Dispatched
<1>3. /\ SlotStore!Respond(c, memuncached_get(table, r).reply)
      /\ Contents' = StoreOf(memuncached_get(table, r).table)
  BY FinishResponds DEF Get
<1>4. Contents' = Contents
  BY <1>3, ContentsAreStore DEF memuncached_get
<1>5. memuncached_get(table, r).reply = IF v = NULL THEN NotFound ELSE Ok(v)
  BY <1>1, <1>2, GetReads, ContentsAreStore
<1>6. SlotStore!Respond(c, IF v = NULL THEN NotFound ELSE Ok(v))
  BY <1>3, <1>5
<1> QED BY <1>2, <1>4, <1>6, SameReplies
    DEF SlotStore!Get

\* SET, and ADD of an empty slot: the store writes what memuncached_set stored,
\* or NULL when TYPE named no type.
LEMMA PutSimulates ==
  ASSUME IInv, NEW c \in Clients,
         \/ Set(c)
         \/ Add(c) /\ hash_table_get(table, pending[c].key) = NULL
  PROVE  SlotStore!Put(c)
<1> DEFINE r == pending[c]
           s == Hash[r.key]
           v == StoredValue(r.type, r.payload)
           cleared == hash_table_del(table, r.key)
<1>1. table \in Table /\ Good(table)
  BY DEF IInv, Good
<1>2. Dispatched(c, {"SET", "ADD"}) /\ Finish(c, memuncached_set(table, r))
  BY DEF Set, Add, Dispatched, memuncached_add
<1>3. /\ SlotStore!Asked(c, {"SET", "ADD"})
      /\ r \in Request /\ Accepted(r) /\ r.cmd \in {"SET", "ADD"}
  BY <1>2, DispatchedAlike, AskedAlike DEF Dispatched
<1>4. /\ Asks[c].cmd = r.cmd /\ Asks[c].key = s
      /\ Asks[c].type = r.type /\ Asks[c].payload = r.payload
  BY <1>2, <1>3, AskedAlike, ToSlotFields, ToSlotKey DEF Dispatched
<1>5. r.key \in Keys /\ r.payload \in Texts /\ s \in Slots
  BY <1>3, PutArguments, HashAssumption
<1>6. /\ SlotStore!Respond(c, memuncached_set(table, r).reply)
      /\ Contents' = StoreOf(memuncached_set(table, r).table)
  BY <1>2, FinishResponds
<1>7. cleared \in Table /\ StoreOf(cleared) = [Contents EXCEPT ![s] = NULL]
  BY <1>1, <1>5, DelGood, DelWrites, ContentsAreStore DEF Good
<1>8. Asks[c].cmd = "ADD" => Contents[Asks[c].key] = NULL
  <2>1. r.cmd = "ADD" => hash_table_get(table, r.key) = NULL
    BY DEF Set, Add, Dispatched
  <2> QED BY <1>1, <1>4, <1>5, <2>1, EmptyIsNull, ContentsAreStore DEF hash_table_get
<1>9. CASE r.type \in Types
  <2>1. v \in Value
    BY <1>5, <1>9, StoredValueIsWhole
  <2> HIDE DEF v, cleared
  <2>2. StoreOf(hash_table_set(cleared, r.key, v)) = [StoreOf(cleared) EXCEPT ![s] = v]
    <3>1. r.key \in Keys /\ cleared \in Table
      BY <1>5, <1>7
    <3> HIDE DEF r
    <3> QED BY <2>1, <3>1, SetWrites
  <2>3. [[Contents EXCEPT ![s] = NULL] EXCEPT ![s] = v] = [Contents EXCEPT ![s] = v]
    BY <1>5 DEF Contents
  <2> USE DEF v, cleared
  <2>4. Contents' = [Contents EXCEPT ![s] = v] /\ SlotStore!Respond(c, Ok(NULL))
    BY <1>6, <1>7, <1>9, <2>2, <2>3 DEF memuncached_set
  <2>5. SlotStore!Write(s, v)
    BY <2>4 DEF SlotStore!Write
  <2> QED BY <1>3, <1>4, <1>8, <1>9, <2>4, <2>5, SameValues, SameReplies
      DEF SlotStore!Put
<1>10. CASE r.type \notin Types
  <2>1. Contents' = [Contents EXCEPT ![s] = NULL] /\ SlotStore!Respond(c, BadRequest)
    BY <1>6, <1>7, <1>10 DEF memuncached_set
  <2>2. SlotStore!Write(s, NULL)
    BY <2>1 DEF SlotStore!Write
  <2> QED BY <1>3, <1>4, <1>8, <1>10, <2>1, <2>2, SameValues, SameReplies
      DEF SlotStore!Put
<1> QED BY <1>9, <1>10

\* ADD of an occupied slot changes nothing.
LEMMA AddTakenSimulates ==
  ASSUME IInv, NEW c \in Clients, Add(c), hash_table_get(table, pending[c].key) # NULL
  PROVE  SlotStore!AddTaken(c)
<1> DEFINE r == pending[c]
<1>1. table \in Table
  BY DEF IInv, Good
<1>2. /\ SlotStore!Asked(c, {"ADD"}) /\ Asks[c].key = Hash[r.key]
      /\ r.key \in Keys /\ Hash[r.key] \in Slots
  BY DispatchedAlike, AskedAlike, ToSlotKey DEF Add, Dispatched
<1>3. SlotStore!Respond(c, KeyExists) /\ Contents' = Contents
  <2>1. memuncached_add(table, r) = [table |-> table, reply |-> KeyExists]
    BY DEF memuncached_add
  <2>2. Finish(c, [table |-> table, reply |-> KeyExists])
    BY <2>1 DEF Add
  <2> QED BY <2>2, FinishResponds, ContentsAreStore
<1>4. Contents[Asks[c].key] # NULL
  BY <1>1, <1>2, EmptyIsNull, ContentsAreStore DEF hash_table_get
<1> QED BY <1>2, <1>3, <1>4, SameReplies DEF SlotStore!AddTaken

\* INC and DEC count in the store, or plant INITIAL there.
LEMMA IncDecSimulates ==
  ASSUME IInv, NEW c \in Clients, IncDec(c)
  PROVE  SlotStore!Count(c)
<1> DEFINE r == pending[c]
           old == Contents[Hash[r.key]]
           new == IF old # NULL /\ IsNumber(old)
                    THEN Shifted(old, Change(r)) ELSE InitialValue(r.initial)
<1>1. Good(table)
  BY DEF IInv
<1>2. /\ SlotStore!Asked(c, {"INC", "DEC"})
      /\ r \in Request /\ Accepted(r) /\ r.cmd \in {"INC", "DEC"}
  BY DispatchedAlike, AskedAlike DEF IncDec, Dispatched
<1>3. /\ Asks[c].cmd = r.cmd /\ Asks[c].key = Hash[r.key]
      /\ Asks[c].offset = r.offset /\ Asks[c].initial = r.initial
  BY <1>2, AskedAlike, ToSlotFields, ToSlotKey DEF IncDec, Dispatched
<1>4. SlotStore!Change(Asks[c]) = Change(r)
  BY <1>3 DEF SlotStore!Change, Change, SlotStore!Offset, Offset, SlotStore!Unit, Unit
<1>5. /\ SlotStore!Respond(c, memuncached_shift(table, r).reply)
      /\ Contents' = StoreOf(memuncached_shift(table, r).table)
  BY FinishResponds DEF IncDec
<1>6. /\ StoreOf(memuncached_shift(table, r).table) = [Contents EXCEPT ![Hash[r.key]] = new]
      /\ memuncached_shift(table, r).reply = Ok(new)
  BY <1>1, <1>2, ShiftEffect, ContentsAreStore
<1> HIDE DEF new
<1>7. SlotStore!Respond(c, Ok(new)) /\ SlotStore!Write(Hash[r.key], new)
  BY <1>5, <1>6 DEF SlotStore!Write
<1> USE DEF new
<1>8. new = IF old # NULL /\ SlotStore!IsNumber(old)
              THEN SlotStore!Shifted(old, SlotStore!Change(Asks[c]))
              ELSE SlotStore!InitialValue(Asks[c].initial)
  BY <1>3, <1>4, SameValues
<1> HIDE DEF new
<1> QED BY <1>2, <1>3, <1>7, <1>8, SameReplies DEF SlotStore!Count

\* DEL answers what the store held and empties the slot.
LEMMA DelSimulates ==
  ASSUME IInv, NEW c \in Clients, Del(c)
  PROVE  SlotStore!Delete(c)
<1> DEFINE r == pending[c]
           v == Contents[Asks[c].key]
<1>1. table \in Table
  BY DEF IInv, Good
<1>2. /\ SlotStore!Asked(c, {"DEL"})
      /\ Asks[c].key = Hash[r.key] /\ r.key \in Keys
  BY DispatchedAlike, AskedAlike, ToSlotKey DEF Del, Dispatched
<1>3. /\ SlotStore!Respond(c, memuncached_get(table, r).reply)
      /\ Contents' = StoreOf(hash_table_del(table, r.key))
  <2>1. /\ memuncached_del(table, r).reply = memuncached_get(table, r).reply
        /\ memuncached_del(table, r).table = hash_table_del(table, r.key)
    BY DEF memuncached_del
  <2> QED BY <2>1, FinishResponds DEF Del
<1>4. SlotStore!Write(Asks[c].key, NULL)
  BY <1>1, <1>2, <1>3, DelWrites, ContentsAreStore DEF SlotStore!Write
<1>5. memuncached_get(table, r).reply = IF v = NULL THEN NotFound ELSE Ok(v)
  BY <1>1, <1>2, GetReads, ContentsAreStore
<1>6. SlotStore!Respond(c, IF v = NULL THEN NotFound ELSE Ok(v))
  BY <1>3, <1>5
<1> QED BY <1>2, <1>4, <1>6, SameReplies DEF SlotStore!Delete

\* Key-Count is right because the counter is (CountIsOccupancy).
LEMMA SttSimulates ==
  ASSUME IInv, NEW c \in Clients, Stt(c)
  PROVE  SlotStore!Stats(c)
<1>1. table \in Table /\ table.count = Cardinality(Full(table))
  BY DEF IInv, Good
<1>2. SlotStore!Present = Full(table)
  BY <1>1, EmptyIsNull, ContentsAreStore DEF SlotStore!Present, Full
<1>3. SlotStore!Asked(c, {"STT"})
  BY DispatchedAlike DEF Stt
<1>4. SlotStore!Respond(c, Ok([keys |-> table.count])) /\ Contents' = Contents
  BY FinishResponds, ContentsAreStore DEF Stt, memuncached_stt
<1>5. SlotStore!Cardinality(SlotStore!Present) = Cardinality(SlotStore!Present)
  BY DEF SlotStore!Cardinality, Cardinality
<1>6. SlotStore!Ok([keys |-> table.count]) = Ok([keys |-> table.count])
  BY SameReplies
<1>7. SlotStore!Respond(c, SlotStore!Ok([keys |-> SlotStore!Cardinality(SlotStore!Present)]))
  BY <1>1, <1>2, <1>4, <1>5, <1>6
<1> QED BY <1>3, <1>4, <1>7 DEF SlotStore!Stats

\* Every handler is one step of the store.
LEMMA HandlerSimulates ==
  ASSUME IInv, NEW c \in Clients, handle_command(c)
  PROVE  SlotStore!Serve(c)
<1>1. CASE BadCommand(c)
  <2>1. Asks[c] # NULL /\ ~ SlotStore!Accepted(Asks[c])
    BY <1>1, AskedAlike, ToSlotFields DEF BadCommand
  <2>2. SlotStore!Respond(c, BadRequest) /\ Contents' = Contents
    BY <1>1, FinishResponds, ContentsAreStore DEF BadCommand
  <2>3. SlotStore!Refuse(c)
    BY <2>1, <2>2, SameReplies DEF SlotStore!Refuse
  <2> QED BY <2>3 DEF SlotStore!Serve
<1>2. CASE Ver(c)
  <2>1. SlotStore!Asked(c, {"VER"})
    BY <1>2, DispatchedAlike DEF Ver
  <2>2. SlotStore!Respond(c, Ok(NULL)) /\ Contents' = Contents
    BY <1>2, FinishResponds, ContentsAreStore DEF Ver
  <2>3. SlotStore!Version(c)
    BY <2>1, <2>2, SameReplies DEF SlotStore!Version
  <2> QED BY <2>3 DEF SlotStore!Serve
<1>3. CASE ReadFailed(c)
  <2>1. SlotStore!Asked(c, {"SET", "ADD"})
    BY <1>3, DispatchedAlike DEF ReadFailed
  <2>2. SlotStore!Respond(c, ServerError) /\ Contents' = Contents
    BY <1>3, FinishResponds, ContentsAreStore DEF ReadFailed
  <2>3. SlotStore!Fail(c)
    BY <2>1, <2>2, SameReplies DEF SlotStore!Fail
  <2> QED BY <2>3 DEF SlotStore!Serve
<1> QED BY <1>1, <1>2, <1>3, GetSimulates, PutSimulates, AddTakenSimulates, IncDecSimulates,
           DelSimulates, SttSimulates DEF handle_command, SlotStore!Serve

\* Every command takes effect for its slot alone, at one moment, and its reply
\* tells what that moment saw, whatever the hash function and the table size.
THEOREM CacheImplementsSlotStore == Spec => ImplementsSlotStore
<1>1. Init => SlotStore!Init
  <2> SUFFICES ASSUME Init PROVE SlotStore!Init
    OBVIOUS
  <2>1. Contents = [s \in Slots |-> NULL]
    BY DEF Init, Contents, ContentAt, hash_table_create
  <2>2. Asks = [c \in Clients |-> NULL]
    BY DEF Init, Asks
  <2> QED BY <2>1, <2>2 DEF Init, SlotStore!Init
<1>2. IInv /\ [Next]_vars => [SlotStore!Next]_(SlotStore!vars)
  <2> SUFFICES ASSUME IInv, [Next]_vars PROVE [SlotStore!Next]_(SlotStore!vars)
    OBVIOUS
  <2>1. CASE UNCHANGED vars
    BY <2>1 DEF vars, SlotStore!vars, Contents, ContentAt, Asks
  <2>2. ASSUME NEW c \in Clients, handle_command(c) PROVE SlotStore!Next
    BY <2>2, HandlerSimulates DEF SlotStore!Next
  <2> QED BY <2>1, <2>2, SendSimulates DEF Next
<1> QED BY <1>1, <1>2, SpecIInv, PTL DEF Spec, ImplementsSlotStore, SlotStore!SafeSpec
-----------------------------------------------------------------------------
(***************************************************************************)
(* And with keys for keys, when no two of them share a slot.               *)
(***************************************************************************)
(***************************************************************************)
(* A cell is in the slot of the key it was written under, whatever the     *)
(* hash.                                                                   *)
(***************************************************************************)
InPlace(t) == \A s \in Full(t) : Hash[t.slot[s].key] = s

\* hash_table_set puts the cell where its key is looked for.
LEMMA SetInPlace ==
  ASSUME NEW t \in Table, InPlace(t), NEW key \in Keys, NEW v
  PROVE  InPlace(hash_table_set(t, key, v))
<1> DEFINE c == [key |-> key, content |-> v]
<1>1. hash_table_set(t, key, v).slot = [t.slot EXCEPT ![Hash[key]] = c]
  BY DEF hash_table_set
<1> QED BY <1>1, HashAssumption DEF InPlace, Full, Table

\* hash_table_del moves no cell.
LEMMA DelInPlace ==
  ASSUME NEW t \in Table, InPlace(t), NEW key \in Keys
  PROVE  InPlace(hash_table_del(t, key))
<1>1. hash_table_del(t, key).slot = [t.slot EXCEPT ![Hash[key]] = NULL]
  BY DEF hash_table_del
<1> QED BY <1>1, HashAssumption DEF InPlace, Full, Table

\* hash_table_inc and hash_table_dec leave a cell its key.
LEMMA ShiftInPlace ==
  ASSUME NEW t \in Table, InPlace(t), NEW key \in Keys, HasNumber(t, key), NEW by
  PROVE  InPlace(hash_table_shift(t, key, by))
<1> DEFINE s == Hash[key]
           c == [t.slot[s] EXCEPT !.content = Shifted(t.slot[s].content, by)]
<1>1. s \in Slots /\ s \in Full(t)
  BY HashAssumption DEF HasNumber, hash_table_get, Full
<1>2. c.key = t.slot[s].key
  BY <1>1, CellFields DEF Cell
<1> HIDE DEF c
<1>3. hash_table_shift(t, key, by).slot = [t.slot EXCEPT ![s] = c]
  BY <1>1 DEF hash_table_shift, Table, c
<1> QED BY <1>1, <1>2, <1>3 DEF InPlace, Full, Table

\* Nor does memuncached_set move one.
LEMMA PutInPlace ==
  ASSUME NEW t, Good(t), InPlace(t), NEW r, r.key \in Keys
  PROVE  InPlace(memuncached_set(t, r).table)
<1> DEFINE cleared == hash_table_del(t, r.key)
<1>1. cleared \in Table /\ InPlace(cleared)
  BY DelGood, DelInPlace DEF Good
<1> HIDE DEF cleared
<1>2. InPlace(hash_table_set(cleared, r.key, StoredValue(r.type, r.payload)))
  BY <1>1, SetInPlace
<1>3. \/ memuncached_set(t, r).table = cleared
      \/ memuncached_set(t, r).table
           = hash_table_set(cleared, r.key, StoredValue(r.type, r.payload))
  BY DEF memuncached_set, cleared
<1> QED BY <1>1, <1>2, <1>3

\* Nor does any command.
LEMMA HandlerInPlace ==
  ASSUME IInv, InPlace(table), NEW c \in Clients, handle_command(c)
  PROVE  InPlace(table')
<1> DEFINE r == pending[c]
<1>1. Good(table) /\ table \in Table
  BY DEF IInv, Good
<1>2. ASSUME Accepted(r), r # NULL, r.cmd \in {"SET", "ADD", "INC", "DEC", "GET", "DEL"}
      PROVE  r \in Request /\ r.key \in Keys
  BY <1>2, ToSlotKey, RequestsAssumption DEF IInv, TypeOK
<1>3. CASE Set(c) \/ Add(c)
  <2>1. r.key \in Keys
    BY <1>2, <1>3 DEF Set, Add, Dispatched
  <2>2. table' = table \/ table' = memuncached_set(table, r).table
    BY <1>3 DEF Set, Add, Finish, memuncached_add
  <2> QED BY <1>1, <2>1, <2>2, PutInPlace
<1>4. CASE Del(c)
  <2>1. r.key \in Keys
    BY <1>2, <1>4 DEF Del, Dispatched
  <2>2. table' = hash_table_del(table, r.key)
    BY <1>4 DEF Del, Finish, memuncached_del
  <2> QED BY <1>1, <2>1, <2>2, DelInPlace
<1>5. CASE IncDec(c)
  <2>1. r.key \in Keys
    BY <1>2, <1>5 DEF IncDec, Dispatched
  <2>2. table' = IF HasNumber(table, r.key)
                   THEN hash_table_shift(table, r.key, Change(r))
                   ELSE hash_table_set(table, r.key, InitialValue(r.initial))
    BY <1>5 DEF IncDec, Finish, memuncached_shift, memuncached_get
  <2> QED BY <1>1, <2>1, <2>2, ShiftInPlace, SetInPlace
<1>6. CASE BadCommand(c) \/ ReadFailed(c) \/ Get(c) \/ Stt(c) \/ Ver(c)
  <2>1. table' = table
    BY <1>6 DEF BadCommand, ReadFailed, Get, Stt, Ver, Finish, memuncached_get, memuncached_stt
  <2> QED BY <2>1
<1> QED BY <1>3, <1>4, <1>5, <1>6 DEF handle_command

PlacedInv == IInv /\ InPlace(table)

\* Cells are in place in every reachable state.
LEMMA PlacedInvariance == Spec => []PlacedInv
<1>1. Init => PlacedInv
  <2> SUFFICES ASSUME Init PROVE InPlace(table)
    BY InitIInv DEF PlacedInv
  <2> QED BY DEF Init, InPlace, Full, hash_table_create
<1>2. PlacedInv /\ [Next]_vars => PlacedInv'
  <2> SUFFICES ASSUME PlacedInv, [Next]_vars PROVE InPlace(table')
    BY NextIInv DEF PlacedInv, InPlace, Full
  <2>1. CASE table' = table
    BY <2>1 DEF PlacedInv
  <2>2. ASSUME NEW c \in Clients, handle_command(c) PROVE InPlace(table')
    BY <2>2, HandlerInPlace DEF PlacedInv
  <2>3. UNCHANGED vars \/ (\E c \in Clients : \E r \in Requests : Send(c, r)) => table' = table
    BY DEF vars, Send
  <2> QED BY <2>1, <2>2, <2>3 DEF Next
<1> QED BY <1>1, <1>2, PTL DEF Spec

\* The store of keys has the same values and replies as that of slots.
LEMMA SameByKey ==
  /\ \A type, payload : KeyStore!StoredValue(type, payload) = SlotStore!StoredValue(type, payload)
  /\ \A v : KeyStore!IsNumber(v) = SlotStore!IsNumber(v)
  /\ \A v, by : KeyStore!Shifted(v, by) = SlotStore!Shifted(v, by)
  /\ \A initial : KeyStore!InitialValue(initial) = SlotStore!InitialValue(initial)
  /\ KeyStore!Types = SlotStore!Types
  /\ KeyStore!BadRequest = SlotStore!BadRequest
  /\ KeyStore!NotFound = SlotStore!NotFound
  /\ KeyStore!KeyExists = SlotStore!KeyExists
  /\ KeyStore!ServerError = SlotStore!ServerError
  /\ \A body : KeyStore!Ok(body) = SlotStore!Ok(body)
<1>1. \A n : KeyStore!Trunc(n) = SlotStore!Trunc(n)
  BY DEF SlotStore!Trunc, KeyStore!Trunc, SlotStore!Unit, KeyStore!Unit
<1>2. \A t : KeyStore!atoll(t) = SlotStore!atoll(t) /\ KeyStore!atof(t) = SlotStore!atof(t)
  BY <1>1 DEF SlotStore!atoll, KeyStore!atoll, SlotStore!atof, KeyStore!atof
<1>3. /\ KeyStore!CACHE_VALUE_DECIMAL = SlotStore!CACHE_VALUE_DECIMAL
      /\ KeyStore!CACHE_VALUE_REAL = SlotStore!CACHE_VALUE_REAL
      /\ KeyStore!CACHE_VALUE_STRING = SlotStore!CACHE_VALUE_STRING
  BY DEF SlotStore!CACHE_VALUE_DECIMAL, KeyStore!CACHE_VALUE_DECIMAL, SlotStore!CACHE_VALUE_REAL,
         KeyStore!CACHE_VALUE_REAL, SlotStore!CACHE_VALUE_STRING, KeyStore!CACHE_VALUE_STRING
<1>4. \A type, payload : KeyStore!StoredValue(type, payload) = SlotStore!StoredValue(type, payload)
  BY <1>2, <1>3 DEF SlotStore!StoredValue, KeyStore!StoredValue
<1>5. \A v : KeyStore!IsNumber(v) = SlotStore!IsNumber(v)
  BY <1>3 DEF SlotStore!IsNumber, KeyStore!IsNumber
<1>6. \A v, by : KeyStore!Shifted(v, by) = SlotStore!Shifted(v, by)
  BY <1>1, <1>3 DEF SlotStore!Shifted, KeyStore!Shifted
<1>7. \A initial : KeyStore!InitialValue(initial) = SlotStore!InitialValue(initial)
  BY <1>2, <1>3 DEF SlotStore!InitialValue, KeyStore!InitialValue, SlotStore!Unit, KeyStore!Unit
<1>8. /\ KeyStore!BadRequest = SlotStore!BadRequest
      /\ KeyStore!NotFound = SlotStore!NotFound
      /\ KeyStore!KeyExists = SlotStore!KeyExists
      /\ KeyStore!ServerError = SlotStore!ServerError
      /\ \A body : KeyStore!Ok(body) = SlotStore!Ok(body)
  BY DEF SlotStore!BadRequest, KeyStore!BadRequest, SlotStore!NotFound, KeyStore!NotFound,
         SlotStore!KeyExists, KeyStore!KeyExists, SlotStore!ServerError, KeyStore!ServerError,
         SlotStore!Ok, KeyStore!Ok
<1> QED BY <1>3, <1>4, <1>5, <1>6, <1>7, <1>8 DEF SlotStore!Types, KeyStore!Types

\* A handler that responds for a slot responds.
LEMMA KeyResponds ==
  ASSUME IInv, NEW c \in Clients, handle_command(c), NEW reply, SlotStore!Respond(c, reply)
  PROVE  KeyStore!Respond(c, reply)
<1>1. pending' = [pending EXCEPT ![c] = NULL]
  BY DEF handle_command, BadCommand, ReadFailed, Get, Set, Add, Del, IncDec, Stt, Ver, Finish
<1> QED BY <1>1 DEF SlotStore!Respond, KeyStore!Respond

\* What is asked for a slot is asked for its key.
LEMMA KeyAsked ==
  ASSUME IInv, NEW c \in Clients, NEW cmds, SlotStore!Asked(c, cmds)
  PROVE  /\ KeyStore!Asked(c, cmds)
         /\ Asks[c] = ToSlot(pending[c]) /\ pending[c] \in Request
         /\ Accepted(pending[c]) /\ Asks[c].cmd = pending[c].cmd /\ Asks[c].cmd \in cmds
<1>1. pending[c] # NULL
  BY DEF SlotStore!Asked, Asks
<1>2. /\ pending[c] \in Request /\ Asks[c] = ToSlot(pending[c])
  BY <1>1, AskedAlike
<1>3. Accepted(pending[c]) /\ pending[c].cmd \in cmds /\ Asks[c].cmd = pending[c].cmd
  BY <1>2, ToSlotFields DEF SlotStore!Asked
<1>4. KeyStore!Accepted(pending[c])
  BY <1>3 DEF Accepted, KeyStore!Accepted
<1> QED BY <1>1, <1>2, <1>3, <1>4 DEF KeyStore!Asked, SlotStore!Asked

\* A key has what its slot has.
LEMMA KeyReads ==
  ASSUME NEW k \in Keys
  PROVE  KeyContents[k] = Contents[Hash[k]] /\ KeyContents[k]' = Contents[Hash[k]]'
BY HashAssumption DEF KeyContents, Contents

\* A write to a slot is one to its key, and to no other.
LEMMA KeyWrites ==
  ASSUME OneKeyPerSlot, NEW k \in Keys, NEW v, SlotStore!Write(Hash[k], v)
  PROVE  KeyStore!Write(k, v)
<1>1. Contents' = [Contents EXCEPT ![Hash[k]] = v] /\ DOMAIN Contents = Slots
  BY DEF SlotStore!Write, Contents
<1>2. ASSUME NEW l \in Keys PROVE KeyContents[l]' = [KeyContents EXCEPT ![k] = v][l]
  <2>1. KeyContents[l]' = [Contents EXCEPT ![Hash[k]] = v][Hash[l]]
    BY <1>1, KeyReads
  <2>2. Hash[l] \in Slots /\ (Hash[l] = Hash[k] <=> l = k)
    BY HashAssumption DEF OneKeyPerSlot
  <2>3. DOMAIN KeyContents = Keys
    BY DEF KeyContents
  <2> QED BY <1>1, <2>1, <2>2, <2>3, KeyReads
<1>3. KeyContents' = [KeyContents EXCEPT ![k] = v]
  BY <1>2 DEF KeyContents
<1> QED BY <1>3 DEF KeyStore!Write

\* Nothing is written.
LEMMA KeyStays ==
  ASSUME Contents' = Contents
  PROVE  KeyContents' = KeyContents
BY KeyReads DEF KeyContents

\* As many keys are present as there are cells.
LEMMA KeysAreCells ==
  ASSUME OneKeyPerSlot, PlacedInv
  PROVE  Cardinality(KeyStore!Present) = Cardinality(SlotStore!Present)
<1> DEFINE P == KeyStore!Present
           f == [k \in P |-> Hash[k]]
<1>1. table \in Table /\ InPlace(table)
  BY DEF PlacedInv, IInv, Good
<1>2. SlotStore!Present = Full(table) /\ Full(table) \subseteq Slots
  BY <1>1, EmptyIsNull, ContentsAreStore DEF SlotStore!Present, Full
<1>3. \A k \in Keys : k \in P <=> Hash[k] \in Full(table)
  BY <1>2, KeyReads, HashAssumption DEF KeyStore!Present, SlotStore!Present
<1>4. P \subseteq Keys
  BY DEF KeyStore!Present
<1>5. f \in Injection(P, Full(table))
  BY <1>3, <1>4 DEF OneKeyPerSlot, Injection, IsInjective
<1>6. ASSUME NEW s \in Full(table) PROVE \E k \in P : f[k] = s
  <2>1. table.slot[s].key \in Keys /\ Hash[table.slot[s].key] = s
    BY <1>1, <1>6, CellFields DEF InPlace, Cell
  <2> QED BY <1>3, <2>1
<1>7. f \in Surjection(P, Full(table))
  BY <1>5, <1>6 DEF Surjection, Injection
<1>8. IsFiniteSet(Full(table))
  BY <1>2, HashAssumption, FS_Subset
<1> QED BY <1>2, <1>5, <1>7, <1>8, FS_Injection

\* A step of the store of slots, taken by a handler, is one of the store of
\* keys.
LEMMA HandlerServesKey ==
  ASSUME OneKeyPerSlot, PlacedInv, NEW c \in Clients, handle_command(c)
  PROVE  KeyStore!Serve(c)
<1> DEFINE r == pending[c]
           s == Asks[c]
<1>1. IInv
  BY DEF PlacedInv
<1>2. SlotStore!Serve(c)
  BY <1>1, HandlerSimulates
<1>3. ASSUME NEW cmds, SlotStore!Asked(c, cmds),
             cmds \subseteq {"SET", "ADD", "INC", "DEC", "GET", "DEL"}
      PROVE  /\ r.key \in Keys /\ s.key = Hash[r.key]
             /\ KeyContents[r.key] = Contents[s.key]
  <2>1. /\ s = ToSlot(r) /\ r \in Request /\ Accepted(r)
        /\ r.cmd \in {"SET", "ADD", "INC", "DEC", "GET", "DEL"}
    BY <1>1, <1>3, KeyAsked
  <2>2. r.key \in Keys /\ s.key = Hash[r.key]
    BY <2>1, ToSlotKey
  <2> QED BY <2>2, KeyReads
<1>4. CASE SlotStore!Refuse(c)
  <2>1. r # NULL /\ ~ KeyStore!Accepted(r)
    <3>1. r # NULL
      BY <1>4 DEF SlotStore!Refuse, Asks
    <3>2. ~ Accepted(r)
      BY <1>1, <1>4, <3>1, AskedAlike, ToSlotFields DEF SlotStore!Refuse
    <3> QED BY <3>1, <3>2 DEF Accepted, KeyStore!Accepted
  <2>2. KeyStore!Respond(c, KeyStore!BadRequest) /\ KeyContents' = KeyContents
    BY <1>1, <1>4, KeyResponds, KeyStays, SameByKey DEF SlotStore!Refuse
  <2> QED BY <2>1, <2>2 DEF KeyStore!Refuse, KeyStore!Serve
<1>5. CASE SlotStore!Get(c)
  <2> DEFINE v == Contents[s.key]
  <2>1. SlotStore!Asked(c, {"GET"})
    BY <1>5 DEF SlotStore!Get
  <2>2. KeyStore!Asked(c, {"GET"}) /\ KeyContents[r.key] = v
    BY <1>1, <1>3, <2>1, KeyAsked
  <2>3. SlotStore!Respond(c, IF v = NULL THEN SlotStore!NotFound ELSE SlotStore!Ok(v))
    BY <1>5 DEF SlotStore!Get
  <2>4. KeyStore!Respond(c, IF v = NULL THEN KeyStore!NotFound ELSE KeyStore!Ok(v))
    BY <1>1, <2>3, KeyResponds, SameByKey
  <2>5. KeyContents' = KeyContents
    BY <1>5, KeyStays DEF SlotStore!Get
  <2> QED BY <2>2, <2>4, <2>5 DEF KeyStore!Get, KeyStore!Serve
<1>6. CASE SlotStore!Put(c)
  <2>1. SlotStore!Asked(c, {"SET", "ADD"})
    BY <1>6 DEF SlotStore!Put
  <2>2. /\ KeyStore!Asked(c, {"SET", "ADD"}) /\ KeyContents[r.key] = Contents[s.key]
        /\ r.key \in Keys /\ s.key = Hash[r.key]
        /\ s.cmd = r.cmd /\ s.type = r.type /\ s.payload = r.payload
    BY <1>1, <1>3, <2>1, KeyAsked, ToSlotFields
  <2>3. r.cmd = "ADD" => KeyContents[r.key] = NULL
    BY <1>6, <2>2 DEF SlotStore!Put
  <2>4. CASE /\ s.type \in SlotStore!Types
             /\ SlotStore!Write(s.key, SlotStore!StoredValue(s.type, s.payload))
             /\ SlotStore!Respond(c, SlotStore!Ok(NULL))
    <3>1. KeyStore!Write(r.key, KeyStore!StoredValue(r.type, r.payload))
      BY <2>2, <2>4, KeyWrites, SameByKey
    <3>2. KeyStore!Respond(c, KeyStore!Ok(NULL)) /\ r.type \in KeyStore!Types
      BY <1>1, <2>2, <2>4, KeyResponds, SameByKey
    <3> QED BY <2>2, <2>3, <3>1, <3>2 DEF KeyStore!Put, KeyStore!Serve
  <2>5. CASE /\ s.type \notin SlotStore!Types
             /\ SlotStore!Write(s.key, NULL)
             /\ SlotStore!Respond(c, SlotStore!BadRequest)
    <3>1. KeyStore!Write(r.key, NULL)
      BY <2>2, <2>5, KeyWrites
    <3>2. KeyStore!Respond(c, KeyStore!BadRequest) /\ r.type \notin KeyStore!Types
      BY <1>1, <2>2, <2>5, KeyResponds, SameByKey
    <3> QED BY <2>2, <2>3, <3>1, <3>2 DEF KeyStore!Put, KeyStore!Serve
  <2> QED BY <1>6, <2>4, <2>5 DEF SlotStore!Put
<1>7. CASE SlotStore!Fail(c)
  <2>1. KeyStore!Asked(c, {"SET", "ADD"})
    BY <1>1, <1>7, KeyAsked DEF SlotStore!Fail
  <2>2. KeyStore!Respond(c, KeyStore!ServerError) /\ KeyContents' = KeyContents
    BY <1>1, <1>7, KeyResponds, KeyStays, SameByKey DEF SlotStore!Fail
  <2> QED BY <2>1, <2>2 DEF KeyStore!Fail, KeyStore!Serve
<1>8. CASE SlotStore!AddTaken(c)
  <2>1. SlotStore!Asked(c, {"ADD"})
    BY <1>8 DEF SlotStore!AddTaken
  <2>2. KeyStore!Asked(c, {"ADD"}) /\ KeyContents[r.key] # NULL
    BY <1>1, <1>3, <1>8, <2>1, KeyAsked DEF SlotStore!AddTaken
  <2>3. KeyStore!Respond(c, KeyStore!KeyExists) /\ KeyContents' = KeyContents
    BY <1>1, <1>8, KeyResponds, KeyStays, SameByKey DEF SlotStore!AddTaken
  <2> QED BY <2>2, <2>3 DEF KeyStore!AddTaken, KeyStore!Serve
<1>9. CASE SlotStore!Count(c)
  <2> DEFINE old == Contents[s.key]
             new == IF old # NULL /\ SlotStore!IsNumber(old)
                      THEN SlotStore!Shifted(old, SlotStore!Change(s))
                      ELSE SlotStore!InitialValue(s.initial)
  <2>1. SlotStore!Asked(c, {"INC", "DEC"})
    BY <1>9 DEF SlotStore!Count
  <2>2. /\ KeyStore!Asked(c, {"INC", "DEC"}) /\ KeyContents[r.key] = old
        /\ r.key \in Keys /\ s.key = Hash[r.key]
        /\ s.cmd = r.cmd /\ s.offset = r.offset /\ s.initial = r.initial
    BY <1>1, <1>3, <2>1, KeyAsked, ToSlotFields
  <2>3. SlotStore!Write(s.key, new) /\ SlotStore!Respond(c, SlotStore!Ok(new))
    BY <1>9 DEF SlotStore!Count
  <2>4. new = IF KeyContents[r.key] # NULL /\ KeyStore!IsNumber(KeyContents[r.key])
                THEN KeyStore!Shifted(KeyContents[r.key], KeyStore!Change(r))
                ELSE KeyStore!InitialValue(r.initial)
    <3>1. KeyStore!Change(r) = SlotStore!Change(s)
      BY <2>2 DEF SlotStore!Change, KeyStore!Change, SlotStore!Offset, KeyStore!Offset,
                  SlotStore!Unit, KeyStore!Unit
    <3> QED BY <2>2, <3>1, SameByKey
  <2> HIDE DEF new
  <2>5. KeyStore!Write(r.key, new) /\ KeyStore!Respond(c, KeyStore!Ok(new))
    BY <1>1, <2>2, <2>3, KeyWrites, KeyResponds, SameByKey
  <2> QED BY <2>2, <2>4, <2>5 DEF KeyStore!Count, KeyStore!Serve
<1>10. CASE SlotStore!Delete(c)
  <2> DEFINE v == Contents[s.key]
  <2>1. SlotStore!Asked(c, {"DEL"})
    BY <1>10 DEF SlotStore!Delete
  <2>2. /\ KeyStore!Asked(c, {"DEL"}) /\ KeyContents[r.key] = v
        /\ r.key \in Keys /\ s.key = Hash[r.key]
    BY <1>1, <1>3, <2>1, KeyAsked
  <2>3. /\ SlotStore!Write(s.key, NULL)
        /\ SlotStore!Respond(c, IF v = NULL THEN SlotStore!NotFound ELSE SlotStore!Ok(v))
    BY <1>10 DEF SlotStore!Delete
  <2>4. /\ KeyStore!Write(r.key, NULL)
        /\ KeyStore!Respond(c, IF v = NULL THEN KeyStore!NotFound ELSE KeyStore!Ok(v))
    BY <1>1, <2>2, <2>3, KeyWrites, KeyResponds, SameByKey
  <2> QED BY <2>2, <2>4 DEF KeyStore!Delete, KeyStore!Serve
<1>11. CASE SlotStore!Stats(c)
  <2>1. KeyStore!Asked(c, {"STT"})
    BY <1>1, <1>11, KeyAsked DEF SlotStore!Stats
  <2>2. SlotStore!Cardinality(SlotStore!Present) = KeyStore!Cardinality(KeyStore!Present)
    BY KeysAreCells DEF SlotStore!Cardinality, KeyStore!Cardinality, Cardinality
  <2>3. SlotStore!Respond(c, SlotStore!Ok([keys |-> SlotStore!Cardinality(SlotStore!Present)]))
    BY <1>11 DEF SlotStore!Stats
  <2>4. /\ KeyStore!Respond(c, KeyStore!Ok([keys |-> KeyStore!Cardinality(KeyStore!Present)]))
        /\ KeyContents' = KeyContents
    BY <1>1, <1>11, <2>2, <2>3, KeyResponds, KeyStays, SameByKey DEF SlotStore!Stats
  <2> QED BY <2>1, <2>4 DEF KeyStore!Stats, KeyStore!Serve
<1>12. CASE SlotStore!Version(c)
  <2>1. KeyStore!Asked(c, {"VER"})
    BY <1>1, <1>12, KeyAsked DEF SlotStore!Version
  <2>2. KeyStore!Respond(c, KeyStore!Ok(NULL)) /\ KeyContents' = KeyContents
    BY <1>1, <1>12, KeyResponds, KeyStays, SameByKey DEF SlotStore!Version
  <2> QED BY <2>1, <2>2 DEF KeyStore!Version, KeyStore!Serve
<1> QED BY <1>2, <1>4, <1>5, <1>6, <1>7, <1>8, <1>9, <1>10, <1>11, <1>12 DEF SlotStore!Serve

\* The README's store (hash_table.c has no chains and compares no keys): when
\* no two keys share one of the table's slots, every command takes effect for
\* its key alone, and Key-Count is the number of keys.
THEOREM CacheImplementsKeyStore == OneKeyPerSlot => (Spec => ImplementsKeyStore)
<1> SUFFICES ASSUME OneKeyPerSlot PROVE Spec => ImplementsKeyStore
  OBVIOUS
<1>1. Init => KeyStore!Init
  <2> SUFFICES ASSUME Init PROVE KeyStore!Init
    OBVIOUS
  <2>1. KeyContents = [k \in Keys |-> NULL]
    BY HashAssumption DEF Init, KeyContents, ContentAt, hash_table_create
  <2> QED BY <2>1 DEF Init, KeyStore!Init
<1>2. PlacedInv /\ [Next]_vars => [KeyStore!Next]_(KeyStore!vars)
  <2> SUFFICES ASSUME PlacedInv, [Next]_vars PROVE [KeyStore!Next]_(KeyStore!vars)
    OBVIOUS
  <2>1. CASE UNCHANGED vars
    BY <2>1 DEF vars, KeyStore!vars, KeyContents, ContentAt
  <2>2. ASSUME NEW c \in Clients, handle_command(c) PROVE KeyStore!Next
    BY <2>2, HandlerServesKey DEF KeyStore!Next
  <2>3. ASSUME NEW c \in Clients, NEW r \in Requests, Send(c, r) PROVE KeyStore!Next
    <3>1. KeyStore!Invoke(c, r)
      BY <2>3 DEF Send, KeyStore!Invoke, KeyContents, ContentAt
    <3> QED BY <3>1 DEF KeyStore!Next
  <2> QED BY <2>1, <2>2, <2>3 DEF Next
<1> QED BY <1>1, <1>2, PlacedInvariance, PTL DEF Spec, ImplementsKeyStore, KeyStore!SafeSpec

\* hash_table.h on hash_table_get, "if not found returns NULL": what a search
\* finds was written under the key looked for, when no two keys share a slot.
THEOREM CacheGetFindsOwnKey == OneKeyPerSlot => (Spec => []GetFindsOwnKey)
<1> SUFFICES ASSUME OneKeyPerSlot PROVE Spec => []GetFindsOwnKey
  OBVIOUS
<1>1. PlacedInv => GetFindsOwnKey
  <2> SUFFICES ASSUME PlacedInv, NEW k \in Keys, hash_table_get(table, k) # NULL
               PROVE  hash_table_get(table, k).key = k
    BY DEF GetFindsOwnKey
  <2>1. Hash[k] \in Full(table)
    BY HashAssumption DEF hash_table_get, Full
  <2>2. table.slot[Hash[k]].key \in Keys
    <3>1. table.slot[Hash[k]] \in Cell
      BY <2>1, CellFields DEF PlacedInv, IInv, Good
    <3> QED BY <3>1 DEF Cell
  <2>3. Hash[table.slot[Hash[k]].key] = Hash[k]
    BY <2>1 DEF PlacedInv, InPlace
  <2> QED BY <2>2, <2>3 DEF OneKeyPerSlot, hash_table_get
<1> QED BY <1>1, PlacedInvariance, PTL
=============================================================================
