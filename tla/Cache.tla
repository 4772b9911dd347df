-------------------------------- MODULE Cache --------------------------------
(***************************************************************************)
(* The cache table (hash_table.c) and the commands on it (connection.c),   *)
(* with each command handler run as one step.  This is the server as one   *)
(* client at a time sees it; CacheThreads takes the handlers apart.        *)
(*                                                                         *)
(* The table has one cell per slot and no chaining: a cell records the key *)
(* it was written under, and no operation compares it.                     *)
(***************************************************************************)
EXTENDS Protocol, FiniteSets

CONSTANTS
  Clients,   (* connections, one server thread each                        *)
  Requests,  (* what they may send                                         *)
  Slots,     (* the indices of table->table                                *)
  Hash,      (* fnv1a(key) % table->size, for each key                     *)
  MaxNumber  (* bound: clients count no further once a number is this big  *)

ASSUME RequestsAssumption == Requests \subseteq Request /\ NULL \notin Request
ASSUME HashAssumption == Hash \in [Keys -> Slots] /\ IsFiniteSet(Slots)
ASSUME MaxNumberAssumption == MaxNumber \in Nat

VARIABLES
  table,     (* hash_table_t: the cells, and how many there are            *)
  pending,   (* the command each connection's thread is about to handle    *)
  answer     (* what was last written to each connection                   *)

vars == <<table, pending, answer>>

Cell == [key : Keys, content : Value]

ASSUME CellAssumption == NULL \notin Cell

TypeOK ==
  /\ table \in [slot : [Slots -> Cell \cup {NULL}], count : Int]
  /\ pending \in [Clients -> Requests \cup {NULL}]
  /\ answer \in [Clients -> Reply \cup {NULL}]

(***************************************************************************)
(* hash_table.c.  Each operation takes the table and gives what becomes of *)
(* it; a search gives the cell.                                            *)
(***************************************************************************)
hash_table_create == [slot |-> [s \in Slots |-> NULL], count |-> 0]

hash_table_get(t, key) == t.slot[Hash[key]]

\* Mutant of hash_table_set: every write counts.
hash_table_set_counting(t, key, v) ==
  [slot  |-> [t.slot EXCEPT ![Hash[key]] = [key |-> key, content |-> v]],
   count |-> t.count + 1]

hash_table_set(t, key, v) ==
  [slot  |-> [t.slot EXCEPT ![Hash[key]] = [key |-> key, content |-> v]],
   count |-> IF t.slot[Hash[key]] = NULL THEN t.count + 1 ELSE t.count]

hash_table_del(t, key) ==
  [slot  |-> [t.slot EXCEPT ![Hash[key]] = NULL],
   count |-> IF t.slot[Hash[key]] = NULL THEN t.count ELSE t.count - 1]

\* hash_table_inc and hash_table_dec return NULL in the first case: the
\* slot is empty or holds no number.
HasNumber(t, key) ==
  /\ hash_table_get(t, key) # NULL
  /\ IsNumber(hash_table_get(t, key).content)

hash_table_shift(t, key, by) ==
  [t EXCEPT !.slot[Hash[key]].content = Shifted(@, by)]

(***************************************************************************)
(* The command handlers: the table afterwards and the reply.               *)
(***************************************************************************)
memuncached_get(t, r) ==
  [table |-> t,
   reply |-> IF hash_table_get(t, r.key) = NULL
               THEN NotFound ELSE Ok(hash_table_get(t, r.key).content)]

\* Mutant of memuncached_del: the reply is made after the deletion.
memuncached_del_first(t, r) == memuncached_get(hash_table_del(t, r.key), r)

memuncached_del(t, r) ==
  [table |-> hash_table_del(t, r.key), reply |-> memuncached_get(t, r).reply]

\* memuncached_inc and memuncached_dec: change the number or plant INITIAL,
\* then answer as GET does.
memuncached_shift(t, r) ==
  memuncached_get(IF HasNumber(t, r.key)
                    THEN hash_table_shift(t, r.key, Change(r))
                    ELSE hash_table_set(t, r.key, InitialValue(r.initial)), r)

\* The old cell goes before TYPE is looked at.
memuncached_set(t, r) ==
  LET cleared == hash_table_del(t, r.key) IN
  IF r.type \in Types
    THEN [table |-> hash_table_set(cleared, r.key, StoredValue(r.type, r.payload)),
          reply |-> Ok(NULL)]
    ELSE [table |-> cleared, reply |-> BadRequest]

\* Mutant of memuncached_add: the old cell is gone before the test.
memuncached_add_cleared(t, r) ==
  IF hash_table_get(t, r.key) # NULL
    THEN [table |-> hash_table_del(t, r.key), reply |-> KeyExists]
    ELSE memuncached_set(t, r)

memuncached_add(t, r) ==
  IF hash_table_get(t, r.key) # NULL
    THEN [table |-> t, reply |-> KeyExists]
    ELSE memuncached_set(t, r)

memuncached_stt(t) == [table |-> t, reply |-> Ok([keys |-> t.count])]

(***************************************************************************)
(* The state machine.                                                      *)
(***************************************************************************)
Init ==
  /\ table = hash_table_create
  /\ pending = [c \in Clients |-> NULL]
  /\ answer = [c \in Clients |-> NULL]

\* MaxNumber keeps the model finite.
MayCount ==
  \A s \in Slots :
    table.slot[s] # NULL /\ IsNumber(table.slot[s].content)
      => table.slot[s].content.val \in (-MaxNumber) .. MaxNumber

\* A client sends its next request once the last one is answered.
Send(c, r) ==
  /\ pending[c] = NULL
  /\ r.cmd \in {"INC", "DEC"} => MayCount
  /\ pending' = [pending EXCEPT ![c] = r]
  /\ answer' = [answer EXCEPT ![c] = NULL]
  /\ UNCHANGED table

Dispatched(c, cmds) ==
  /\ pending[c] # NULL
  /\ Accepted(pending[c])
  /\ pending[c].cmd \in cmds

Finish(c, result) ==
  /\ table' = result.table
  /\ answer' = [answer EXCEPT ![c] = result.reply]
  /\ pending' = [pending EXCEPT ![c] = NULL]

BadCommand(c) ==
  /\ pending[c] # NULL
  /\ ~ Accepted(pending[c])
  /\ Finish(c, [table |-> table, reply |-> BadRequest])

\* recv fails while memuncached_set reads the payload.
ReadFailed(c) ==
  Dispatched(c, {"SET", "ADD"}) /\ Finish(c, [table |-> table, reply |-> ServerError])

Get(c) == Dispatched(c, {"GET"}) /\ Finish(c, memuncached_get(table, pending[c]))
Set(c) == Dispatched(c, {"SET"}) /\ Finish(c, memuncached_set(table, pending[c]))
Add(c) == Dispatched(c, {"ADD"}) /\ Finish(c, memuncached_add(table, pending[c]))
Del(c) == Dispatched(c, {"DEL"}) /\ Finish(c, memuncached_del(table, pending[c]))
\* Mutant of IncDec: DEC is dispatched to no handler.
IncOnly(c) == Dispatched(c, {"INC"}) /\ Finish(c, memuncached_shift(table, pending[c]))

IncDec(c) ==
  Dispatched(c, {"INC", "DEC"}) /\ Finish(c, memuncached_shift(table, pending[c]))
Stt(c) == Dispatched(c, {"STT"}) /\ Finish(c, memuncached_stt(table))
Ver(c) == Dispatched(c, {"VER"}) /\ Finish(c, [table |-> table, reply |-> Ok(NULL)])

handle_command(c) ==
  \/ BadCommand(c) \/ ReadFailed(c) \/ Get(c) \/ Set(c) \/ Add(c)
  \/ Del(c) \/ IncDec(c) \/ Stt(c) \/ Ver(c)

Next == \E c \in Clients : handle_command(c) \/ \E r \in Requests : Send(c, r)

Spec == Init /\ [][Next]_vars /\ \A c \in Clients : WF_vars(handle_command(c))
-----------------------------------------------------------------------------
Occupied == {s \in Slots : table.slot[s] # NULL}

\* STT's Key-Count is the number of cells, whatever sequence of SET, ADD,
\* INC, DEC and DEL led here: the two counter updates in hash_table_set and
\* hash_table_del are guarded by the same test, and memuncached_set runs both.
CountIsOccupancy == table.count = Cardinality(Occupied)

\* DECIMAL cells hold whole numbers, through every conversion on the way in
\* (payload, INITIAL, fractional OFFSET), so that "%ld" prints what is there.
DecimalsAreWhole ==
  \A s \in Occupied :
    LET v == table.slot[s].content
    IN  v.type = CACHE_VALUE_DECIMAL => v.val % Unit = 0

\* A command answered with anything but 200 leaves the table alone, with one
\* exception: memuncached_set deletes the old cell before it looks at TYPE,
\* so a TYPE that names no type costs the key its value.
LeavesTable(c) ==
  LET r == pending[c] IN
  /\ pending'[c] = NULL
  /\ r # NULL
  /\ answer'[c].code # 200
  => \/ UNCHANGED table
     \/ /\ r.cmd = "SET"
        /\ r.type \notin Types
        /\ table'.slot = [table.slot EXCEPT ![Hash[r.key]] = NULL]

FailureLeavesTable == [][\A c \in Clients : LeavesTable(c)]_vars

(***************************************************************************)
(* Refinement.  The cache is a store of slots, whatever the hash: two keys *)
(* with one slot are the same key to every command, and when no two keys   *)
(* share a slot, slots are keys by another name.                           *)
(***************************************************************************)
ContentAt(s) == IF table.slot[s] = NULL THEN NULL ELSE table.slot[s].content

ToSlot(r) ==
  IF r.cmd \in {"STT", "VER", "???"} \/ r.key = NoArg
    THEN r ELSE [r EXCEPT !.key = Hash[@]]

ASSUME SlotsAssumption ==
  NoArg \notin Slots /\ NULL \notin {ToSlot(r) : r \in Requests}

Contents == [s \in Slots |-> ContentAt(s)]
Asks == [c \in Clients |-> IF pending[c] = NULL THEN NULL ELSE ToSlot(pending[c])]

SlotStore == INSTANCE KeyValueStore WITH
  Keys     <- Slots,
  Requests <- {ToSlot(r) : r \in Requests},
  store    <- Contents,
  pending  <- Asks

\* Every command takes effect at one moment, for its slot alone, and its
\* reply (Key-Count included) tells what that moment saw.
ImplementsSlotStore == SlotStore!SafeSpec

\* And every request is answered, whatever else is being asked.
ImplementsLiveSlotStore == SlotStore!Spec

\* Of the keys in use no two share a slot.
OneKeyPerSlot == \A k, l \in Keys : Hash[k] = Hash[l] => k = l

KeyContents == [k \in Keys |-> ContentAt(Hash[k])]

KeyStore == INSTANCE KeyValueStore WITH store <- KeyContents

\* With OneKeyPerSlot the cache is the store of keys its README describes.
\* Key-Count then counts keys: every cell is where its own key is looked for.
ImplementsKeyStore == KeyStore!SafeSpec

(***************************************************************************)
(* What the repository says of the cache and the code does not do.         *)
(***************************************************************************)
\* hash_table.h on hash_table_get: "if not found returns NULL".  A search
\* for a key may find only a cell written under that key.
GetFindsOwnKey ==
  \A k \in Keys :
    hash_table_get(table, k) # NULL => hash_table_get(table, k).key = k

\* README on INC and DEC: "INITIAL value will be inserted".  A fresh counter
\* starts at the number the client wrote.
InitialIsInserted ==
  [][\A c \in Clients :
       LET r == pending[c] IN
       IncDec(c) /\ hash_table_get(table, r.key) = NULL /\ r.initial # NoArg
         => hash_table_get(table', r.key).content.val = r.initial.num]_vars
=============================================================================
