---------------------------- MODULE CacheThreads ----------------------------
(***************************************************************************)
(* The command handlers as the server really runs them: one thread per     *)
(* connection, on one hash table that has no lock.  A step is one          *)
(* statement's access to shared memory; a counter update is a load and a   *)
(* store.  Steps that touch a thread's own variables only ride along.      *)
(*                                                                         *)
(* Memory is explicit.  A slot points to a cell (struct cache_value), a    *)
(* cell to a block (its value), and both come from malloc, which may give  *)
(* out again what was freed.  Following a null, uninitialised or freed     *)
(* pointer, freeing twice, or reading a block as another type than it was  *)
(* allocated for is undefined behaviour: the model records the fault and   *)
(* stops there, since nothing can be said of what a build does next.       *)
(*                                                                         *)
(* Commands that touch nothing shared (VER, a refused command line, a SET  *)
(* whose payload cannot be read) are left to Cache.                        *)
(***************************************************************************)
EXTENDS Protocol, FiniteSets

CONSTANTS
  Threads,   (* one per connection                                         *)
  May,       (* the requests each thread may be sent                       *)
  Slots,     (* the indices of table->table                                *)
  Hash,      (* fnv1a(key) % table->size                                   *)
  Cells,     (* bound: the cells malloc has                                *)
  Blocks,    (* bound: the value blocks malloc has                         *)
  Preset,    (* what an earlier client left: slots to values               *)
  Junk,      (* the content of memory fresh from malloc                    *)
  MaxNumber, (* bound: clients count no further once a number is this big  *)
  MaxDrift   (* bound: or change keys once table->count is this far off    *)

ASSUME MayAssumption ==
  May \in [Threads -> SUBSET {r \in Request : Accepted(r) /\ r.cmd # "VER"}]
ASSUME HashAssumption == Hash \in [Keys -> Slots] /\ IsFiniteSet(Slots)
ASSUME PresetAssumption ==
  DOMAIN Preset \subseteq Slots /\ \A s \in DOMAIN Preset : Preset[s] \in Value
ASSUME MemoryAssumption ==
  /\ NULL \notin Cells \cup Blocks \cup Request
  /\ Junk \notin Cells \cup Blocks \cup Types \cup Texts \cup {NULL}

VARIABLES
  slot,      (* table->table: a cell or NULL                               *)
  cell,      (* each cell: is it allocated, its type, its value pointer    *)
  block,     (* each block: is it allocated, and for what type; its value  *)
  count,     (* table->count                                               *)
  pc,        (* where each thread is in its handler                        *)
  reg,       (* each thread's local variables                              *)
  pending,   (* the request each thread is handling, or NULL               *)
  answer,    (* what each thread last wrote to its connection, or NULL     *)
  before,    (* history: what the slot of the pending request held when it *)
             (* came.  Read by the refinement mapping and by no step.      *)
  fault      (* has some thread done something undefined?                  *)

heap    == <<slot, cell, block, count>>
session == <<pending, answer, before>>
vars    == <<heap, pc, reg, session, fault>>

Labels == {"idle", "stt", "exists",
           "get", "get_type", "get_length", "get_value",
           "del", "del_value", "del_cell", "del_unlink", "del_load", "del_store",
           "inc", "inc_type", "inc_load", "inc_store",
           "set", "set_alloc", "set_null", "set_load", "set_store",
           "set_fields", "set_free", "set_block", "set_value"}

Registers ==
  [cell : Cells \cup {NULL}, block : Blocks \cup {NULL, Junk},
   type : Types, num : Texts]

\* A reply's TYPE and its text are read at different moments: when threads share
\* a key they may not belong together.
TypeOK ==
  /\ slot \in [Slots -> Cells \cup {NULL}]
  /\ cell \in [Cells -> [live : BOOLEAN, type : Types \cup {Junk},
                         block : Blocks \cup {NULL, Junk}]]
  /\ block \in [Blocks -> [live : BOOLEAN, type : Types \cup {Junk},
                           val : Texts \cup {Junk}]]
  /\ count \in Int
  /\ pc \in [Threads -> Labels]
  /\ reg \in [Threads -> Registers]
  /\ pending \in [Threads -> Request \cup {NULL}]
  /\ answer \in [Threads -> Reply \cup {NULL}
                    \cup [code : {200}, body : [type : Types, val : Texts]]]
  /\ before \in [Threads -> Value \cup {NULL}]
  /\ fault \in BOOLEAN

-----------------------------------------------------------------------------
(***************************************************************************)
(* Memory.                                                                 *)
(***************************************************************************)
IsCell(p)  == p \in Cells /\ cell[p].live
IsBlock(b) == b \in Blocks /\ block[b].live

\* May free() be given the value pointer of cell p?
Freeable(p) == IsCell(p) /\ (cell[p].block = NULL \/ IsBlock(cell[p].block))

\* Can the block of cell p be read as a value of this type?
ReadsAs(p, type) ==
  /\ IsCell(p)
  /\ IsBlock(cell[p].block)
  /\ block[cell[p].block].type = type
  /\ block[cell[p].block].val # Junk

NewBlock(type) == [live |-> TRUE, type |-> type, val |-> Junk]
Free == [live |-> FALSE, type |-> Junk, val |-> Junk]
Freed(b) == IF b = NULL THEN block ELSE [block EXCEPT ![b] = Free]

\* A thread about to do something undefined does it; the model ends.
Checked(defined, step) ==
  IF defined
    THEN step /\ UNCHANGED fault
    ELSE fault' = TRUE /\ UNCHANGED <<heap, pc, reg, session>>

(***************************************************************************)
(* Control.                                                                *)
(***************************************************************************)
At(t, label) == pc[t] = label /\ ~ fault
Go(t, label) == pc' = [pc EXCEPT ![t] = label]
Load(t, field, v) == reg' = [reg EXCEPT ![t][field] = v]

Fresh == [cell |-> NULL, block |-> NULL, type |-> CACHE_VALUE_DECIMAL, num |-> 0]

\* A function returns, and its local variables go.
Return(t, label) == Go(t, label) /\ reg' = [reg EXCEPT ![t] = Fresh]

Index(t)   == Hash[pending[t].key]
Command(t) == pending[t].cmd

Tell(t, reply) == answer' = [answer EXCEPT ![t] = reply]
Finish(t) ==
  /\ Return(t, "idle")
  /\ pending' = [pending EXCEPT ![t] = NULL]
  /\ before' = [before EXCEPT ![t] = NULL]

\* The value a thread in hash_table_set is storing.
New(t) ==
  IF Command(t) \in {"INC", "DEC"}
    THEN InitialValue(pending[t].initial)
    ELSE StoredValue(pending[t].type, pending[t].payload)

\* The value in a slot.  There is none while a thread is changing the cell.
Content(s) ==
  IF ReadsAs(slot[s], IF IsCell(slot[s]) THEN cell[slot[s]].type ELSE Junk)
    THEN [type |-> cell[slot[s]].type, val |-> block[cell[slot[s]].block].val]
    ELSE NULL

\* p and b are the memory an earlier client's values went to.
Init ==
  LET Used == DOMAIN Preset IN
  /\ \E p \in [Used -> Cells], b \in [Used -> Blocks] :
       /\ \A i, j \in Used : i # j => p[i] # p[j] /\ b[i] # b[j]
       /\ slot = [s \in Slots |-> IF s \in Used THEN p[s] ELSE NULL]
       /\ cell = [c \in Cells |->
            IF \E s \in Used : p[s] = c
              THEN LET s == CHOOSE s \in Used : p[s] = c
                   IN  [live |-> TRUE, type |-> Preset[s].type, block |-> b[s]]
              ELSE [live |-> FALSE, type |-> Junk, block |-> Junk]]
       /\ block = [c \in Blocks |->
            IF \E s \in Used : b[s] = c
              THEN LET v == Preset[CHOOSE s \in Used : b[s] = c]
                   IN  [live |-> TRUE, type |-> v.type, val |-> v.val]
              ELSE Free]
  /\ count = Cardinality(Used)
  /\ pc = [t \in Threads |-> "idle"]
  /\ reg = [t \in Threads |-> Fresh]
  /\ pending = [t \in Threads |-> NULL]
  /\ answer = [t \in Threads |-> NULL]
  /\ before = [t \in Threads |-> NULL]
  /\ fault = FALSE

\* MaxNumber and MaxDrift keep the model finite: past them, clients only look.
Bounded ==
  /\ count \in (-MaxDrift) .. (Cardinality(Slots) + MaxDrift)
  /\ \A b \in Blocks :
       block[b].val \notin {Word, Junk} => block[b].val \in (-MaxNumber) .. MaxNumber

\* handle_command picks the handler.  SET and ADD have read their payload
\* before they first look at the table.
Send(t, r) ==
  /\ At(t, "idle")
  /\ r.cmd \in {"GET", "STT"} \/ Bounded
  /\ pending' = [pending EXCEPT ![t] = r]
  /\ before' = [before EXCEPT ![t] = IF r.cmd = "STT" THEN NULL ELSE Content(Hash[r.key])]
  /\ Tell(t, NULL)
  /\ Go(t, CASE r.cmd = "SET"            -> "del"
             [] r.cmd = "ADD"            -> "exists"
             [] r.cmd \in {"GET", "DEL"} -> "get"
             [] r.cmd \in {"INC", "DEC"} -> "inc"
             [] r.cmd = "STT"            -> "stt")
  /\ UNCHANGED <<heap, reg, fault>>

-----------------------------------------------------------------------------
(***************************************************************************)
(* memuncached_stt reads the counter; memuncached_set on behalf of ADD     *)
(* looks at the slot first.                                                *)
(***************************************************************************)
Stt(t) ==
  /\ At(t, "stt")
  /\ Tell(t, Ok([keys |-> count]))
  /\ Finish(t)
  /\ UNCHANGED <<heap, fault>>

\* Mutant of AddExists: ADD goes on like SET.
AddUntested(t) ==
  /\ At(t, "exists")
  /\ Return(t, "del")
  /\ UNCHANGED <<heap, session, fault>>

AddExists(t) ==
  /\ At(t, "exists")
  /\ IF slot[Index(t)] = NULL
       THEN Return(t, "del") /\ UNCHANGED session
       ELSE Tell(t, KeyExists) /\ Finish(t)
  /\ UNCHANGED <<heap, fault>>

(***************************************************************************)
(* memuncached_get.  The cell is found once and read three times: for its  *)
(* type, for the length of its text, and for the reply itself.  DEL goes   *)
(* on to delete what it has already answered with.                         *)
(***************************************************************************)
Answered(t) ==
  IF Command(t) = "DEL"
    THEN Return(t, "del") /\ UNCHANGED <<pending, before>>
    ELSE Finish(t)

GetFind(t) ==
  /\ At(t, "get")
  /\ IF slot[Index(t)] = NULL
       THEN Tell(t, NotFound) /\ Answered(t)
       ELSE Load(t, "cell", slot[Index(t)]) /\ Go(t, "get_type") /\ UNCHANGED session
  /\ UNCHANGED <<heap, fault>>

GetType(t) ==
  LET p == reg[t].cell IN
  /\ At(t, "get_type")
  /\ Checked(IsCell(p) /\ cell[p].type # Junk,
             /\ Load(t, "type", cell[p].type)
             /\ Go(t, "get_length")
             /\ UNCHANGED <<heap, session>>)

\* Mutant of GetLength: INC and DEC measure the number they found, not theirs.
GetLengthBefore(t) ==
  LET p == reg[t].cell
      number == reg[t].type # CACHE_VALUE_STRING
      found  == IF before[t] = NULL THEN block[cell[p].block].val ELSE before[t].val
  IN  /\ At(t, "get_length")
      /\ Checked(IF number THEN ReadsAs(p, reg[t].type) ELSE IsCell(p),
                 /\ IF number THEN Load(t, "num", found) ELSE UNCHANGED reg
                 /\ Go(t, "get_value")
                 /\ UNCHANGED <<heap, session>>)

\* The length of a text is a field of its cell; that of a number is found by
\* printing it, and reg's num is the number printed.
GetLength(t) ==
  LET p == reg[t].cell
      number == reg[t].type # CACHE_VALUE_STRING
  IN  /\ At(t, "get_length")
      /\ Checked(IF number THEN ReadsAs(p, reg[t].type) ELSE IsCell(p),
                 /\ IF number THEN Load(t, "num", block[cell[p].block].val) ELSE UNCHANGED reg
                 /\ Go(t, "get_value")
                 /\ UNCHANGED <<heap, session>>)

GetValue(t) ==
  LET p == reg[t].cell IN
  /\ At(t, "get_value")
  /\ Checked(ReadsAs(p, reg[t].type) /\ cell[p].type # Junk,
             /\ Tell(t, Ok([type |-> cell[p].type, val |-> block[cell[p].block].val]))
             /\ Answered(t)
             /\ UNCHANGED heap)

(***************************************************************************)
(* hash_table_del, for DEL and at the head of every SET and ADD.           *)
(***************************************************************************)
Deleted(t) ==
  \/ Command(t) = "DEL" /\ Finish(t) /\ UNCHANGED answer
  \/ Command(t) # "DEL" /\ pending[t].type \in Types /\ Return(t, "set") /\ UNCHANGED session
  \/ Command(t) # "DEL" /\ pending[t].type \notin Types /\ Tell(t, BadRequest) /\ Finish(t)

DelFind(t) ==
  /\ At(t, "del")
  /\ IF slot[Index(t)] = NULL
       THEN Deleted(t)
       ELSE Load(t, "cell", slot[Index(t)]) /\ Go(t, "del_value") /\ UNCHANGED session
  /\ UNCHANGED <<heap, fault>>

DelFreeValue(t) ==
  LET p == reg[t].cell IN
  /\ At(t, "del_value")
  /\ Checked(Freeable(p),
             /\ block' = Freed(cell[p].block)
             /\ Go(t, "del_cell")
             /\ UNCHANGED <<slot, cell, count, reg, session>>)

DelFreeCell(t) ==
  LET p == reg[t].cell IN
  /\ At(t, "del_cell")
  /\ Checked(IsCell(p),
             /\ cell' = [cell EXCEPT ![p] = [live |-> FALSE, type |-> Junk, block |-> Junk]]
             /\ Go(t, "del_unlink")
             /\ UNCHANGED <<slot, block, count, reg, session>>)

DelUnlink(t) ==
  /\ At(t, "del_unlink")
  /\ slot' = [slot EXCEPT ![Index(t)] = NULL]
  /\ Go(t, "del_load")
  /\ UNCHANGED <<cell, block, count, reg, session, fault>>

DelCountLoad(t) ==
  /\ At(t, "del_load")
  /\ Load(t, "num", count)
  /\ Go(t, "del_store")
  /\ UNCHANGED <<heap, session, fault>>

\* Mutant of DelCountStore: table->count is not lowered.
DelUncounted(t) ==
  /\ At(t, "del_store")
  /\ Deleted(t)
  /\ UNCHANGED <<heap, fault>>

DelCountStore(t) ==
  /\ At(t, "del_store")
  /\ count' = reg[t].num - 1
  /\ Deleted(t)
  /\ UNCHANGED <<slot, cell, block, fault>>

(***************************************************************************)
(* hash_table_inc and hash_table_dec.  Without a number to change, INC and *)
(* DEC go on to hash_table_set; either way they end as GET does.           *)
(***************************************************************************)
IncFind(t) ==
  /\ At(t, "inc")
  /\ IF slot[Index(t)] = NULL
       THEN Return(t, "set")
       ELSE Load(t, "cell", slot[Index(t)]) /\ Go(t, "inc_type")
  /\ UNCHANGED <<heap, session, fault>>

\* Mutant of IncType: numbers are taken for text.
IncTypeSwapped(t) ==
  LET p == reg[t].cell IN
  /\ At(t, "inc_type")
  /\ Checked(IsCell(p) /\ cell[p].type # Junk,
             Return(t, "set") /\ UNCHANGED <<heap, session>>)

IncType(t) ==
  LET p == reg[t].cell IN
  /\ At(t, "inc_type")
  /\ Checked(IsCell(p) /\ cell[p].type # Junk,
             /\ IF cell[p].type = CACHE_VALUE_STRING
                  THEN Return(t, "set")
                  ELSE /\ reg' = [reg EXCEPT ![t] = [@ EXCEPT !.type = cell[p].type,
                                                          !.block = cell[p].block]]
                       /\ Go(t, "inc_load")
             /\ UNCHANGED <<heap, session>>)

IncLoad(t) ==
  LET b == reg[t].block IN
  /\ At(t, "inc_load")
  /\ Checked(IsBlock(b) /\ block[b].type = reg[t].type /\ block[b].val # Junk,
             /\ Load(t, "num", block[b].val)
             /\ Go(t, "inc_store")
             /\ UNCHANGED <<heap, session>>)

IncStore(t) ==
  LET b == reg[t].block
      old == [type |-> reg[t].type, val |-> reg[t].num]
  IN  /\ At(t, "inc_store")
      /\ Checked(IsBlock(b) /\ block[b].type = old.type,
                 /\ block' = [block EXCEPT ![b].val = Shifted(old, Change(pending[t])).val]
                 /\ Return(t, "get")
                 /\ UNCHANGED <<slot, cell, count, session>>)

(***************************************************************************)
(* hash_table_set.  Every statement finds the cell through the slot again. *)
(* An empty slot is given its cell before the cell is filled in.           *)
(***************************************************************************)
SetFind(t) ==
  /\ At(t, "set")
  /\ Go(t, IF slot[Index(t)] = NULL THEN "set_alloc" ELSE "set_fields")
  /\ UNCHANGED <<heap, reg, session, fault>>

SetAlloc(t) ==
  /\ At(t, "set_alloc")
  /\ \E p \in Cells :
       /\ ~ cell[p].live
       /\ cell' = [cell EXCEPT ![p] = [live |-> TRUE, type |-> Junk, block |-> Junk]]
       /\ slot' = [slot EXCEPT ![Index(t)] = p]
  /\ Go(t, "set_null")
  /\ UNCHANGED <<block, count, reg, session, fault>>

\* Mutant of SetNull: the value pointer of a fresh cell is not set.
SetNullMissing(t) ==
  /\ At(t, "set_null")
  /\ Go(t, "set_load")
  /\ UNCHANGED <<heap, reg, session, fault>>

SetNull(t) ==
  LET p == slot[Index(t)] IN
  /\ At(t, "set_null")
  /\ Checked(IsCell(p),
             /\ cell' = [cell EXCEPT ![p].block = NULL]
             /\ Go(t, "set_load")
             /\ UNCHANGED <<slot, block, count, reg, session>>)

SetCountLoad(t) ==
  /\ At(t, "set_load")
  /\ Load(t, "num", count)
  /\ Go(t, "set_store")
  /\ UNCHANGED <<heap, session, fault>>

SetCountStore(t) ==
  /\ At(t, "set_store")
  /\ count' = reg[t].num + 1
  /\ Return(t, "set_fields")
  /\ UNCHANGED <<slot, cell, block, session, fault>>

SetFields(t) ==
  LET p == slot[Index(t)] IN
  /\ At(t, "set_fields")
  /\ Checked(IsCell(p),
             /\ cell' = [cell EXCEPT ![p].type = New(t).type]
             /\ Go(t, "set_free")
             /\ UNCHANGED <<slot, block, count, reg, session>>)

\* Mutant of SetFreeOld: the old value is dropped, not freed.
SetFreeMissing(t) ==
  /\ At(t, "set_free")
  /\ Go(t, "set_block")
  /\ UNCHANGED <<heap, reg, session, fault>>

SetFreeOld(t) ==
  LET p == slot[Index(t)] IN
  /\ At(t, "set_free")
  /\ Checked(Freeable(p),
             /\ block' = Freed(cell[p].block)
             /\ Go(t, "set_block")
             /\ UNCHANGED <<slot, cell, count, reg, session>>)

SetBlock(t) ==
  LET p == slot[Index(t)] IN
  /\ At(t, "set_block")
  /\ Checked(IsCell(p),
             /\ \E b \in Blocks :
                  /\ ~ block[b].live
                  /\ block' = [block EXCEPT ![b] = NewBlock(New(t).type)]
                  /\ cell' = [cell EXCEPT ![p].block = b]
             /\ Go(t, "set_value")
             /\ UNCHANGED <<slot, count, reg, session>>)

SetValue(t) ==
  LET p == slot[Index(t)] IN
  /\ At(t, "set_value")
  /\ Checked(IsCell(p) /\ IsBlock(cell[p].block)
               /\ block[cell[p].block].type = New(t).type,
             /\ block' = [block EXCEPT ![cell[p].block].val = New(t).val]
             /\ IF Command(t) \in {"INC", "DEC"}
                  THEN Return(t, "get") /\ UNCHANGED session
                  ELSE Tell(t, Ok(NULL)) /\ Finish(t)
             /\ UNCHANGED <<slot, cell, count>>)

-----------------------------------------------------------------------------
Step(t) ==
  \/ Stt(t) \/ AddExists(t)
  \/ GetFind(t) \/ GetType(t) \/ GetLength(t) \/ GetValue(t)
  \/ DelFind(t) \/ DelFreeValue(t) \/ DelFreeCell(t) \/ DelUnlink(t)
  \/ DelCountLoad(t) \/ DelCountStore(t)
  \/ IncFind(t) \/ IncType(t) \/ IncLoad(t) \/ IncStore(t)
  \/ SetFind(t) \/ SetAlloc(t) \/ SetNull(t) \/ SetCountLoad(t) \/ SetCountStore(t)
  \/ SetFields(t) \/ SetFreeOld(t) \/ SetBlock(t) \/ SetValue(t)

Next == \E t \in Threads : Step(t) \/ \E r \in May[t] : Send(t, r)

Spec == Init /\ [][Next]_vars /\ \A t \in Threads : WF_vars(Step(t))
-----------------------------------------------------------------------------
(***************************************************************************)
(* Properties.                                                             *)
(***************************************************************************)
Quiet == \A t \in Threads : pending[t] = NULL
Linked == {slot[s] : s \in Slots} \ {NULL}

\* No handler follows a null, uninitialised or freed pointer, frees twice,
\* or counts with text.  README: hash_table.c is a "Thread-safe hash table".
NoFault == ~ fault

\* Between commands, what is allocated is what the table holds: each path
\* through DEL, an overwriting SET, a refused SET and INC over a STRING frees
\* the cell and the value it takes out, once.
NoLeak ==
  Quiet /\ NoFault =>
    /\ {p \in Cells : cell[p].live} = Linked
    /\ {b \in Blocks : block[b].live} = {cell[p].block : p \in Linked}
    /\ \A i, j \in Slots : i # j /\ slot[i] # NULL => slot[i] # slot[j]

\* The LENGTH in a reply is that of its payload: from the moment GET, INC, DEC
\* or DEL has measured a number until it writes it, the number stays the same.
\* (connection.c:393 and 397 evaluate it once for LENGTH and line 394 or 398
\* again for the payload.)
LengthMatches ==
  \A t \in Threads :
    At(t, "get_value") /\ reg[t].type # CACHE_VALUE_STRING =>
      ReadsAs(reg[t].cell, reg[t].type) /\ block[cell[reg[t].cell].block].val = reg[t].num

\* Between commands, STT's Key-Count is the number of cells.  README on STT:
\* "Get total key count".
CountWhenQuiet == Quiet => count = Cardinality(Linked)

\* When clients send nothing but ADD of one key, one of them wins.  README on
\* ADD: "Similar to SET but fails if key exists".
OneAddWins ==
  \A t, u \in Threads :
    answer[t] = Ok(NULL) /\ answer[u] = Ok(NULL) => t = u

\* While clients only look at a key that has a number and count with it, the
\* key stays there: no thread finds it missing.
NeverMissing ==
  \A t \in Threads : answer[t] # NULL => answer[t] # NotFound

(***************************************************************************)
(* Refinement.  A command counts as done when its handler returns: until   *)
(* then its key shows what it held before.                                 *)
(***************************************************************************)
Changing(k) ==
  {t \in Threads : pending[t] # NULL /\ Command(t) # "STT" /\ pending[t].key = k}

Shown ==
  [k \in Keys |-> IF Changing(k) = {} THEN Content(Hash[k])
                    ELSE before[CHOOSE t \in Changing(k) : TRUE]]
Told == [t \in Threads |-> IF pending[t] = NULL THEN answer[t] ELSE NULL]

Store == INSTANCE KeyValueStore WITH
  Clients  <- Threads,
  Requests <- UNION {May[t] : t \in Threads},
  store    <- Shown,
  answer   <- Told

\* Threads that use slots of their own do not disturb each other: every
\* command takes effect as if alone, at one moment before it returns.
ImplementsStore == Store!SafeSpec

\* And it does return.
ImplementsLiveStore == Store!Spec
=============================================================================
