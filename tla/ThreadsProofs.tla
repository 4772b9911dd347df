---------------------------- MODULE ThreadsProofs ----------------------------
(***************************************************************************)
(* Theorems about CacheThreads, for every number of threads, however their *)
(* requests fall on the slots.                                             *)
(***************************************************************************)
EXTENDS CacheThreads, ProtocolProofs, FiniteSetTheorems

(***************************************************************************)
(* The inductive invariant: what a thread handles where it is, what its    *)
(* variables hold there, and that a block's value fits what the block was  *)
(* allocated for.                                                          *)
(***************************************************************************)
GetLabels == {"get", "get_type", "get_length", "get_value"}
DelLabels == {"del", "del_value", "del_cell", "del_unlink", "del_load", "del_store"}
IncLabels == {"inc", "inc_type", "inc_load", "inc_store"}
SetLabels == {"set", "set_alloc", "set_null", "set_load", "set_store",
              "set_fields", "set_free", "set_block", "set_value"}

Handling(t) ==
  /\ pc[t] = "idle" <=> pending[t] = NULL
  /\ pending[t] # NULL => pending[t] \in May[t]
  /\ pc[t] = "exists" => Command(t) = "ADD"
  /\ pc[t] = "stt" => Command(t) = "STT"
  /\ pc[t] \in GetLabels => Command(t) \in {"GET", "DEL", "INC", "DEC"}
  /\ pc[t] \in DelLabels => Command(t) \in {"SET", "ADD", "DEL"}
  /\ pc[t] \in IncLabels => Command(t) \in {"INC", "DEC"}
  /\ pc[t] \in SetLabels => \/ Command(t) \in {"INC", "DEC"}
                            \/ Command(t) \in {"SET", "ADD"} /\ pending[t].type \in Types

Holding(t) ==
  /\ pc[t] \in {"inc_load", "inc_store"} => reg[t].type # CACHE_VALUE_STRING
  /\ pc[t] \in {"del_store", "set_store", "inc_store"} => reg[t].num \in Int

Fits(b) == block[b].val # Junk => [type |-> block[b].type, val |-> block[b].val] \in Value

TypeInv ==
  /\ TypeOK
  /\ \A t \in Threads : Handling(t) /\ Holding(t)
  /\ \A b \in Blocks : Fits(b)

(***************************************************************************)
(* Requests.                                                               *)
(***************************************************************************)
\* A request a thread may be sent is well formed, and asks for a key unless it
\* is STT.
LEMMA MayRequest ==
  ASSUME NEW t \in Threads, NEW r \in May[t]
  PROVE  /\ r \in Request
         /\ r # NULL
         /\ r.cmd \in {"SET", "ADD", "INC", "DEC", "GET", "DEL", "STT"}
         /\ r.cmd # "STT" => r.key \in Keys /\ Hash[r.key] \in Slots
         /\ r.cmd \in {"SET", "ADD"} => r.type \in Nat /\ r.payload \in Texts
         /\ r.cmd \in {"INC", "DEC"} =>
              Change(r) \in Int /\ r.initial \in Numeral \cup {NoArg}
<1>1. r \in Request /\ Accepted(r) /\ r.cmd # "VER"
  BY MayAssumption
<1>2. r # NULL
  BY <1>1, MemoryAssumption
<1>3. CASE r.cmd \in {"SET", "ADD"}
  BY <1>1, <1>2, <1>3, HashAssumption DEF Request, Accepted
<1>4. CASE r.cmd \in {"INC", "DEC"}
  BY <1>1, <1>2, <1>4, HashAssumption DEF Request, Accepted, Change, Offset, Unit
<1>5. CASE r.cmd \in {"GET", "DEL"}
  BY <1>1, <1>2, <1>5, HashAssumption DEF Request, Accepted
<1>6. CASE r.cmd = "STT"
  BY <1>1, <1>2, <1>6
<1>7. r.cmd \in {"SET", "ADD", "INC", "DEC", "GET", "DEL", "STT", "VER", "???"}
  BY <1>1 DEF Request
<1>8. r.cmd # "???"
  BY <1>1 DEF Accepted
<1> QED BY <1>1, <1>3, <1>4, <1>5, <1>6, <1>7, <1>8

\* What hash_table_set stores is a value.
LEMMA NewValue ==
  ASSUME NEW t \in Threads, pending[t] \in May[t],
         \/ Command(t) \in {"INC", "DEC"}
         \/ Command(t) \in {"SET", "ADD"} /\ pending[t].type \in Types
  PROVE  New(t) \in Value /\ New(t).type \in Types /\ New(t).val \in Texts
<1>1. New(t) \in Value
  BY MayRequest, StoredValueIsWhole, InitialValueIsWhole DEF New, Command
<1> QED BY <1>1 DEF Value, Types, Texts

(***************************************************************************)
(* Every step keeps the invariant.                                         *)
(***************************************************************************)
\* A step of one thread leaves the others where they were.
LEMMA TypeInvStep ==
  ASSUME TypeInv, NEW t \in Threads, TypeOK', Handling(t)', Holding(t)',
         \A u \in Threads \ {t} :
           pc'[u] = pc[u] /\ reg'[u] = reg[u] /\ pending'[u] = pending[u],
         \A b \in Blocks : Fits(b)'
  PROVE  TypeInv'
<1>1. ASSUME NEW u \in Threads \ {t} PROVE Handling(u)' /\ Holding(u)'
  BY DEF TypeInv, Handling, Holding, Command
<1> QED BY <1>1 DEF TypeInv

\* So does one that faults.
LEMMA TypeInvFault ==
  ASSUME TypeInv, fault' = TRUE, UNCHANGED <<heap, pc, reg, session>>
  PROVE  TypeInv'
BY DEF TypeInv, TypeOK, heap, session, Handling, Holding, Command, Fits

LEMMA TypeInit == Init => TypeInv
<1> SUFFICES ASSUME Init PROVE TypeInv
  OBVIOUS
<1> DEFINE Used == DOMAIN Preset
<1>1. PICK p \in [Used -> Cells], b \in [Used -> Blocks] :
        /\ slot = [s \in Slots |-> IF s \in Used THEN p[s] ELSE NULL]
        /\ cell = [c \in Cells |->
             IF \E s \in Used : p[s] = c
               THEN LET s == CHOOSE s \in Used : p[s] = c
                    IN  [live |-> TRUE, type |-> Preset[s].type, block |-> b[s]]
               ELSE [live |-> FALSE, type |-> Junk, block |-> Junk]]
        /\ block = [c \in Blocks |->
             IF \E s \in Used : b[s] = c
               THEN LET v == Preset[CHOOSE s \in Used : b[s] = c]
                    IN  [live |-> TRUE, type |-> v.type, val |-> v.val]
               ELSE Free]
  BY DEF Init
<1>2. \A s \in Used : Preset[s] \in Value /\ Preset[s].type \in Types /\ Preset[s].val \in Texts
  BY PresetAssumption DEF Value, Types, Texts
<1>3. slot \in [Slots -> Cells \cup {NULL}]
  BY <1>1
<1>4. cell \in [Cells -> [live : BOOLEAN, type : Types \cup {Junk},
                          block : Blocks \cup {NULL, Junk}]]
  BY <1>1, <1>2
<1>5. /\ block \in [Blocks -> [live : BOOLEAN, type : Types \cup {Junk},
                               val : Texts \cup {Junk}]]
      /\ \A c \in Blocks : Fits(c)
  <2> SUFFICES ASSUME NEW c \in Blocks
               PROVE  /\ block[c] \in [live : BOOLEAN, type : Types \cup {Junk},
                                       val : Texts \cup {Junk}]
                      /\ Fits(c)
    BY <1>1
  <2>1. CASE \E s \in Used : b[s] = c
    <3>1. PICK s \in Used : s = CHOOSE i \in Used : b[i] = c
      BY <2>1
    <3>2. block[c] = [live |-> TRUE, type |-> Preset[s].type, val |-> Preset[s].val]
      BY <1>1, <2>1, <3>1
    <3>3. [type |-> Preset[s].type, val |-> Preset[s].val] = Preset[s]
      BY <1>2 DEF Value
    <3> QED BY <1>2, <3>2, <3>3 DEF Fits
  <2>2. CASE ~ \E s \in Used : b[s] = c
    BY <1>1, <2>2 DEF Fits, Free
  <2> QED BY <2>1, <2>2
<1>6. count \in Int
  <2>1. IsFiniteSet(Used)
    BY PresetAssumption, HashAssumption, FS_Subset
  <2> QED BY <2>1, FS_CardinalityType DEF Init
<1>7. \A t \in Threads : pc[t] = "idle" /\ reg[t] = Fresh /\ pending[t] = NULL
  BY DEF Init
<1>8. Fresh \in Registers
  BY DEF Fresh, Registers, Types, Texts, CACHE_VALUE_DECIMAL
<1>9. TypeOK
  BY <1>3, <1>4, <1>5, <1>6, <1>8 DEF Init, TypeOK, Labels
<1>10. \A t \in Threads : Handling(t) /\ Holding(t)
  BY <1>7 DEF Handling, Holding, GetLabels, DelLabels, IncLabels, SetLabels
<1> QED BY <1>5, <1>9, <1>10 DEF TypeInv

\* What a slot holds is a value, once the slot holds any.
LEMMA ContentValue ==
  ASSUME TypeInv, NEW s \in Slots
  PROVE  Content(s) \in Value \cup {NULL}
<1> SUFFICES ASSUME Content(s) # NULL PROVE Content(s) \in Value
  OBVIOUS
<1>1. ReadsAs(slot[s], IF IsCell(slot[s]) THEN cell[slot[s]].type ELSE Junk)
  BY DEF Content
<1>2. IsCell(slot[s]) /\ IsBlock(cell[slot[s]].block)
  BY <1>1 DEF ReadsAs
<1>3. block[cell[slot[s]].block].type = cell[slot[s]].type
      /\ block[cell[slot[s]].block].val # Junk
  BY <1>1, <1>2 DEF ReadsAs
<1>4. Fits(cell[slot[s]].block)
  BY <1>2 DEF TypeInv, IsBlock
<1> QED BY <1>1, <1>3, <1>4 DEF Content, Fits

LEMMA SendTypeInv ==
  ASSUME TypeInv, NEW t \in Threads, NEW r \in May[t], Send(t, r)
  PROVE  TypeInv'
<1> USE DEF Send, At, Go, Tell, TypeInv, TypeOK
<1>1. /\ r \in Request /\ r # NULL
      /\ r.cmd # "STT" => Content(Hash[r.key]) \in Value \cup {NULL}
  BY MayRequest, ContentValue
<1>2. r.cmd \in {"SET", "ADD", "INC", "DEC", "GET", "DEL", "STT"}
  BY MayRequest
<1>3. /\ pc' = [pc EXCEPT ![t] = pc'[t]]
      /\ r.cmd = "SET" => pc'[t] = "del"
      /\ r.cmd = "ADD" => pc'[t] = "exists"
      /\ r.cmd \in {"GET", "DEL"} => pc'[t] = "get"
      /\ r.cmd \in {"INC", "DEC"} => pc'[t] = "inc"
      /\ r.cmd = "STT" => pc'[t] = "stt"
  BY <1>2
<1>4. TypeOK'
  BY <1>1, <1>2, <1>3 DEF Labels, heap
<1>5. Handling(t)'
  BY <1>1, <1>2, <1>3 DEF Handling, Command, GetLabels, DelLabels, IncLabels, SetLabels
<1>6. Holding(t)'
  BY <1>2, <1>3 DEF Holding
<1>7. \A b \in Blocks : Fits(b)'
  BY DEF Fits, heap
<1> QED BY <1>4, <1>5, <1>6, <1>7, TypeInvStep, <1>3

\* The thread's variables after a step that moves it on.
ThreadTyped ==
  /\ pc \in [Threads -> Labels]
  /\ reg \in [Threads -> Registers]
  /\ pending \in [Threads -> Request \cup {NULL}]
  /\ before \in [Threads -> Value \cup {NULL}]

Frame(t) ==
  \A u \in Threads \ {t} : pc'[u] = pc[u] /\ reg'[u] = reg[u] /\ pending'[u] = pending[u]

\* A thread whose handler returns is idle.
LEMMA FinishTyped ==
  ASSUME TypeInv, NEW t \in Threads, Finish(t)
  PROVE  /\ ThreadTyped' /\ Frame(t) /\ Handling(t)' /\ Holding(t)'
         /\ pc'[t] = "idle" /\ pending'[t] = NULL
<1>1. Fresh \in Registers
  BY DEF Fresh, Registers, Types, Texts, CACHE_VALUE_DECIMAL
<1>2. ThreadTyped' /\ Frame(t) /\ pc'[t] = "idle" /\ pending'[t] = NULL
  BY <1>1 DEF Finish, Return, Go, ThreadTyped, Frame, TypeInv, TypeOK, Labels
<1>3. Handling(t)' /\ Holding(t)'
  BY <1>2 DEF Handling, Holding, GetLabels, DelLabels, IncLabels, SetLabels
<1> QED BY <1>2, <1>3

\* A function that returns to its caller.
LEMMA ReturnTyped ==
  ASSUME TypeInv, NEW t \in Threads, NEW label \in Labels \ {"idle"},
         Return(t, label), UNCHANGED <<pending, before>>
  PROVE  /\ ThreadTyped' /\ Frame(t) /\ pc'[t] = label /\ pending'[t] = pending[t]
         /\ label \notin {"inc_load", "inc_store"} => Holding(t)'
<1>1. Fresh \in Registers /\ Fresh.num \in Int
  BY DEF Fresh, Registers, Types, Texts, CACHE_VALUE_DECIMAL
<1> QED BY <1>1 DEF Return, Go, ThreadTyped, Frame, TypeInv, TypeOK, Holding

\* A variable is loaded, or none.
LEMMA GoTyped ==
  ASSUME TypeInv, NEW t \in Threads, NEW label \in Labels, Go(t, label),
         reg' \in [Threads -> Registers], \A u \in Threads \ {t} : reg'[u] = reg[u],
         UNCHANGED <<pending, before>>
  PROVE  ThreadTyped' /\ Frame(t) /\ pc'[t] = label /\ pending'[t] = pending[t]
BY DEF Go, ThreadTyped, Frame, TypeInv, TypeOK

LEMMA LoadTyped ==
  ASSUME TypeInv, NEW t \in Threads, NEW field, NEW v, Load(t, field, v),
         \/ field = "cell" /\ v \in Cells \cup {NULL}
         \/ field = "type" /\ v \in Types
         \/ field = "num" /\ v \in Texts
  PROVE  /\ reg' \in [Threads -> Registers]
         /\ \A u \in Threads \ {t} : reg'[u] = reg[u]
         /\ \A f \in {"cell", "block", "type", "num"} \ {field} : reg'[t][f] = reg[t][f]
         /\ reg'[t][field] = v
<1>1. reg \in [Threads -> Registers]
  BY DEF TypeInv, TypeOK
<1>2. CASE field = "cell" /\ v \in Cells \cup {NULL}
  BY <1>1, <1>2 DEF Load, Registers
<1>3. CASE field = "type" /\ v \in Types
  BY <1>1, <1>3 DEF Load, Registers
<1>4. CASE field = "num" /\ v \in Texts
  BY <1>1, <1>4 DEF Load, Registers
<1> QED BY <1>2, <1>3, <1>4

\* When the heap stays, what was typed in it is.
LEMMA SameHeapTypeInv ==
  ASSUME TypeInv, NEW t \in Threads, UNCHANGED <<heap, fault>>,
         ThreadTyped', Frame(t), Handling(t)', Holding(t)',
         answer' \in [Threads -> Reply \cup {NULL}
                        \cup [code : {200}, body : [type : Types, val : Texts]]]
  PROVE  TypeInv'
<1>1. TypeOK'
  BY DEF TypeInv, TypeOK, heap, ThreadTyped
<1>2. \A b \in Blocks : Fits(b)'
  BY DEF TypeInv, Fits, heap
<1> QED BY <1>1, <1>2, TypeInvStep DEF Frame

LEMMA Replies ==
  /\ NotFound \in Reply /\ KeyExists \in Reply /\ BadRequest \in Reply /\ Ok(NULL) \in Reply
  /\ \A n \in Int : Ok([keys |-> n]) \in Reply
BY DEF NotFound, KeyExists, BadRequest, Ok, Reply

LEMMA SttTypeInv ==
  ASSUME TypeInv, NEW t \in Threads, Stt(t)
  PROVE  TypeInv'
<1>1. Ok([keys |-> count]) \in Reply
  BY Replies DEF TypeInv, TypeOK
<1>2. answer' \in [Threads -> Reply \cup {NULL}
                     \cup [code : {200}, body : [type : Types, val : Texts]]]
  BY <1>1 DEF Stt, Tell, TypeInv, TypeOK
<1> QED BY <1>2, FinishTyped, SameHeapTypeInv DEF Stt

LEMMA AddExistsTypeInv ==
  ASSUME TypeInv, NEW t \in Threads, AddExists(t)
  PROVE  TypeInv'
<1>1. CASE slot[Index(t)] = NULL
  <2>1. Return(t, "del") /\ UNCHANGED <<pending, before>> /\ UNCHANGED answer
    BY <1>1 DEF AddExists, session
  <2>2. ThreadTyped' /\ Frame(t) /\ pc'[t] = "del" /\ pending'[t] = pending[t] /\ Holding(t)'
    BY <2>1, ReturnTyped DEF Labels
  <2>3. Handling(t)'
    BY <2>2 DEF AddExists, At, TypeInv, Handling, Command, GetLabels, DelLabels, IncLabels,
                SetLabels
  <2> QED BY <2>1, <2>2, <2>3, SameHeapTypeInv DEF AddExists, TypeInv, TypeOK
<1>2. CASE slot[Index(t)] # NULL
  <2>1. Tell(t, KeyExists) /\ Finish(t)
    BY <1>2 DEF AddExists
  <2>2. answer' \in [Threads -> Reply \cup {NULL}
                       \cup [code : {200}, body : [type : Types, val : Texts]]]
    BY <2>1, Replies DEF Tell, TypeInv, TypeOK
  <2> QED BY <2>1, <2>2, FinishTyped, SameHeapTypeInv DEF AddExists
<1> QED BY <1>1, <1>2

\* GET, INC and DEC have finished with their reply; DEL goes on.
LEMMA AnsweredTyped ==
  ASSUME TypeInv, NEW t \in Threads, pc[t] \in GetLabels, Answered(t)
  PROVE  ThreadTyped' /\ Frame(t) /\ Handling(t)' /\ Holding(t)'
<1>1. CASE Command(t) = "DEL"
  <2>1. Return(t, "del") /\ UNCHANGED <<pending, before>>
    BY <1>1 DEF Answered
  <2>2. ThreadTyped' /\ Frame(t) /\ pc'[t] = "del" /\ pending'[t] = pending[t] /\ Holding(t)'
    BY <2>1, ReturnTyped DEF Labels
  <2>3. Handling(t)'
    BY <1>1, <2>2 DEF TypeInv, Handling, Command, GetLabels, DelLabels, IncLabels, SetLabels
  <2> QED BY <2>2, <2>3
<1>2. CASE Command(t) # "DEL"
  BY <1>2, FinishTyped DEF Answered
<1> QED BY <1>1, <1>2

LEMMA GetFindTypeInv ==
  ASSUME TypeInv, NEW t \in Threads, GetFind(t)
  PROVE  TypeInv'
<1>0. /\ pc[t] = "get" /\ pc[t] \in GetLabels /\ pending[t] # NULL /\ pending[t] \in May[t]
      /\ Command(t) \in {"GET", "DEL", "INC", "DEC"}
  BY DEF GetFind, At, GetLabels, TypeInv, Handling
<1>1. CASE slot[Index(t)] = NULL
  <2>1. Tell(t, NotFound) /\ Answered(t)
    BY <1>1 DEF GetFind
  <2>2. answer' \in [Threads -> Reply \cup {NULL}
                       \cup [code : {200}, body : [type : Types, val : Texts]]]
    BY <2>1, Replies DEF Tell, TypeInv, TypeOK
  <2> QED BY <1>0, <2>1, <2>2, AnsweredTyped, SameHeapTypeInv DEF GetFind
<1>2. CASE slot[Index(t)] # NULL
  <2>1. Load(t, "cell", slot[Index(t)]) /\ Go(t, "get_type") /\ UNCHANGED <<pending, answer, before>>
    BY <1>2 DEF GetFind, session
  <2>2. slot[Index(t)] \in Cells
    BY <1>0, <1>2, MayRequest DEF Index, TypeInv, TypeOK, Command
  <2>3. ThreadTyped' /\ Frame(t) /\ pc'[t] = "get_type" /\ pending'[t] = pending[t]
    BY <2>1, <2>2, LoadTyped, GoTyped DEF Labels
  <2>4. Handling(t)' /\ Holding(t)'
    BY <1>0, <2>3 DEF TypeInv, Handling, Holding, Command, GetLabels, DelLabels, IncLabels, SetLabels
  <2> QED BY <2>1, <2>3, <2>4, SameHeapTypeInv DEF GetFind, TypeInv, TypeOK
<1> QED BY <1>1, <1>2

LEMMA GetTypeTypeInv ==
  ASSUME TypeInv, NEW t \in Threads, GetType(t)
  PROVE  TypeInv'
<1> DEFINE p == reg[t].cell
<1>0. pc[t] = "get_type"
  BY DEF GetType, At
<1>1. CASE IsCell(p) /\ cell[p].type # Junk
  <2>1. Load(t, "type", cell[p].type) /\ Go(t, "get_length") /\ UNCHANGED <<heap, session, fault>>
    BY <1>1 DEF GetType, Checked
  <2>2. cell[p].type \in Types
    BY <1>1 DEF IsCell, TypeInv, TypeOK
  <2>3. ThreadTyped' /\ Frame(t) /\ pc'[t] = "get_length" /\ pending'[t] = pending[t]
    BY <2>1, <2>2, LoadTyped, GoTyped DEF Labels, session
  <2>4. Handling(t)' /\ Holding(t)'
    BY <1>0, <2>3 DEF TypeInv, Handling, Holding, Command, GetLabels, DelLabels, IncLabels, SetLabels
  <2> QED BY <2>1, <2>3, <2>4, SameHeapTypeInv DEF session, TypeInv, TypeOK
<1>2. CASE ~ (IsCell(p) /\ cell[p].type # Junk)
  BY <1>2, TypeInvFault DEF GetType, Checked
<1> QED BY <1>1, <1>2

LEMMA GetLengthTypeInv ==
  ASSUME TypeInv, NEW t \in Threads, GetLength(t)
  PROVE  TypeInv'
<1> DEFINE p == reg[t].cell
           defined == IF reg[t].type # CACHE_VALUE_STRING THEN ReadsAs(p, reg[t].type) ELSE IsCell(p)
<1>0. pc[t] = "get_length"
  BY DEF GetLength, At
<1>1. CASE defined
  <2>1. /\ IF reg[t].type # CACHE_VALUE_STRING THEN Load(t, "num", block[cell[p].block].val)
             ELSE UNCHANGED reg
        /\ Go(t, "get_value") /\ UNCHANGED <<heap, session, fault>>
    BY <1>1 DEF GetLength, Checked
  <2>2. reg' \in [Threads -> Registers] /\ \A u \in Threads \ {t} : reg'[u] = reg[u]
    <3>1. CASE reg[t].type # CACHE_VALUE_STRING
      <4>1. block[cell[p].block].val \in Texts
        BY <1>1, <3>1 DEF ReadsAs, IsBlock, TypeInv, TypeOK
      <4> QED BY <2>1, <3>1, <4>1, LoadTyped
    <3>2. CASE reg[t].type = CACHE_VALUE_STRING
      BY <2>1, <3>2 DEF TypeInv, TypeOK
    <3> QED BY <3>1, <3>2
  <2>3. ThreadTyped' /\ Frame(t) /\ pc'[t] = "get_value" /\ pending'[t] = pending[t]
    BY <2>1, <2>2, GoTyped DEF Labels, session
  <2>4. Handling(t)' /\ Holding(t)'
    BY <1>0, <2>3 DEF TypeInv, Handling, Holding, Command, GetLabels, DelLabels, IncLabels, SetLabels
  <2> QED BY <2>1, <2>3, <2>4, SameHeapTypeInv DEF session, TypeInv, TypeOK
<1>2. CASE ~ defined
  BY <1>2, TypeInvFault DEF GetLength, Checked
<1> QED BY <1>1, <1>2

LEMMA GetValueTypeInv ==
  ASSUME TypeInv, NEW t \in Threads, GetValue(t)
  PROVE  TypeInv'
<1> DEFINE p == reg[t].cell
           text == [type |-> cell[p].type, val |-> block[cell[p].block].val]
<1>0. pc[t] \in GetLabels
  BY DEF GetValue, At, GetLabels
<1>1. CASE ReadsAs(p, reg[t].type) /\ cell[p].type # Junk
  <2>1. Tell(t, Ok(text)) /\ Answered(t) /\ UNCHANGED <<heap, fault>>
    BY <1>1 DEF GetValue, Checked
  <2>2. Ok(text) \in [code : {200}, body : [type : Types, val : Texts]]
    BY <1>1 DEF ReadsAs, IsCell, IsBlock, Ok, TypeInv, TypeOK
  <2>3. answer' \in [Threads -> Reply \cup {NULL}
                       \cup [code : {200}, body : [type : Types, val : Texts]]]
    BY <2>1, <2>2 DEF Tell, TypeInv, TypeOK
  <2> QED BY <1>0, <2>1, <2>3, AnsweredTyped, SameHeapTypeInv
<1>2. CASE ~ (ReadsAs(p, reg[t].type) /\ cell[p].type # Junk)
  BY <1>2, TypeInvFault DEF GetValue, Checked
<1> QED BY <1>1, <1>2

(***************************************************************************)
(* hash_table_del.                                                         *)
(***************************************************************************)
\* A thread in a handler has a request, and its slot.
LEMMA AtSlot ==
  ASSUME TypeInv, NEW t \in Threads, pc[t] \notin {"idle", "stt"}
  PROVE  /\ pending[t] # NULL /\ pending[t] \in May[t]
         /\ Command(t) \in {"SET", "ADD", "INC", "DEC", "GET", "DEL"}
         /\ pending[t].key \in Keys
         /\ Index(t) \in Slots /\ slot[Index(t)] \in Cells \cup {NULL}
<1>1. pending[t] # NULL /\ pending[t] \in May[t]
  BY DEF TypeInv, Handling
<1>2. Command(t) \in {"SET", "ADD", "INC", "DEC", "GET", "DEL"}
  BY DEF TypeInv, TypeOK, Labels, Handling, GetLabels, DelLabels, IncLabels, SetLabels
<1> QED BY <1>1, <1>2, MayRequest DEF Index, Command, TypeInv, TypeOK

\* After hash_table_del a SET or ADD inserts, or is refused; a DEL is done.
LEMMA DeletedTyped ==
  ASSUME TypeInv, NEW t \in Threads, pc[t] \in DelLabels, Deleted(t)
  PROVE  /\ ThreadTyped' /\ Frame(t) /\ Handling(t)' /\ Holding(t)'
         /\ answer' \in [Threads -> Reply \cup {NULL}
                           \cup [code : {200}, body : [type : Types, val : Texts]]]
<1>1. CASE Command(t) = "DEL" /\ Finish(t) /\ UNCHANGED answer
  BY <1>1, FinishTyped DEF TypeInv, TypeOK
<1>2. CASE /\ Command(t) # "DEL" /\ pending[t].type \in Types
           /\ Return(t, "set") /\ UNCHANGED session
  <2>1. ThreadTyped' /\ Frame(t) /\ pc'[t] = "set" /\ pending'[t] = pending[t] /\ Holding(t)'
    BY <1>2, ReturnTyped DEF Labels, session
  <2>2. Command(t) \in {"SET", "ADD"} /\ pc[t] # "idle"
    BY <1>2 DEF TypeInv, Handling, DelLabels
  <2>3. Handling(t)'
    BY <1>2, <2>1, <2>2
      DEF TypeInv, Handling, Command, GetLabels, DelLabels, IncLabels, SetLabels
  <2> QED BY <1>2, <2>1, <2>3 DEF session, TypeInv, TypeOK
<1>3. CASE Command(t) # "DEL" /\ Tell(t, BadRequest) /\ Finish(t)
  <2>1. answer' \in [Threads -> Reply \cup {NULL}
                       \cup [code : {200}, body : [type : Types, val : Texts]]]
    BY <1>3, Replies DEF Tell, TypeInv, TypeOK
  <2> QED BY <1>3, <2>1, FinishTyped
<1> QED BY <1>1, <1>2, <1>3 DEF Deleted

LEMMA DelFindTypeInv ==
  ASSUME TypeInv, NEW t \in Threads, DelFind(t)
  PROVE  TypeInv'
<1>0. pc[t] = "del" /\ pc[t] \in DelLabels
  BY DEF DelFind, At, DelLabels
<1>1. CASE slot[Index(t)] = NULL
  BY <1>0, <1>1, DeletedTyped, SameHeapTypeInv DEF DelFind
<1>2. CASE slot[Index(t)] # NULL
  <2>1. Load(t, "cell", slot[Index(t)]) /\ Go(t, "del_value") /\ UNCHANGED <<heap, session, fault>>
    BY <1>2 DEF DelFind
  <2>2. slot[Index(t)] \in Cells
    BY <1>0, <1>2, AtSlot
  <2>3. ThreadTyped' /\ Frame(t) /\ pc'[t] = "del_value" /\ pending'[t] = pending[t]
    BY <2>1, <2>2, LoadTyped, GoTyped DEF Labels, session
  <2>4. Handling(t)' /\ Holding(t)'
    BY <1>0, <2>3 DEF TypeInv, Handling, Holding, Command, GetLabels, DelLabels, IncLabels, SetLabels
  <2> QED BY <2>1, <2>3, <2>4, SameHeapTypeInv DEF session, TypeInv, TypeOK
<1> QED BY <1>1, <1>2

\* A step inside a function that changes the heap and moves on.
LEMMA MoveTypeInv ==
  ASSUME TypeInv, NEW t \in Threads, NEW label \in Labels, Go(t, label), pc[t] # "idle",
         UNCHANGED <<reg, session, fault>>,
         slot' \in [Slots -> Cells \cup {NULL}],
         cell' \in [Cells -> [live : BOOLEAN, type : Types \cup {Junk},
                              block : Blocks \cup {NULL, Junk}]],
         block' \in [Blocks -> [live : BOOLEAN, type : Types \cup {Junk},
                                val : Texts \cup {Junk}]],
         \A b \in Blocks : Fits(b)', count' \in Int,
         \/ pc[t] \in DelLabels /\ label \in DelLabels
         \/ pc[t] \in SetLabels /\ label \in SetLabels,
         label \notin {"del_store", "set_store"}
  PROVE  TypeInv'
<1>1. ThreadTyped' /\ Frame(t) /\ pc'[t] = label /\ pending'[t] = pending[t] /\ UNCHANGED answer
  BY GoTyped DEF session, TypeInv, TypeOK
<1>2. Handling(t)' /\ Holding(t)'
  BY <1>1 DEF TypeInv, Handling, Holding, Command, GetLabels, DelLabels, IncLabels, SetLabels
<1>3. TypeOK'
  BY <1>1 DEF TypeInv, TypeOK, ThreadTyped
<1> QED BY <1>1, <1>2, <1>3, TypeInvStep DEF Frame

\* free() leaves blocks that are as good as before.
LEMMA FreedTyped ==
  ASSUME TypeInv, NEW b \in Blocks \cup {NULL}, block' = Freed(b)
  PROVE  /\ block' \in [Blocks -> [live : BOOLEAN, type : Types \cup {Junk},
                                   val : Texts \cup {Junk}]]
         /\ \A c \in Blocks : Fits(c)'
<1>1. Free \in [live : BOOLEAN, type : Types \cup {Junk}, val : Texts \cup {Junk}] /\ Free.val = Junk
  BY DEF Free
<1>2. CASE b = NULL
  BY <1>2 DEF Freed, TypeInv, TypeOK, Fits
<1>3. CASE b # NULL
  <2>1. b \in Blocks /\ block' = [block EXCEPT ![b] = Free]
    BY <1>3 DEF Freed
  <2> QED BY <1>1, <2>1 DEF TypeInv, TypeOK, Fits
<1> QED BY <1>2, <1>3

LEMMA DelFreeValueTypeInv ==
  ASSUME TypeInv, NEW t \in Threads, DelFreeValue(t)
  PROVE  TypeInv'
<1> DEFINE p == reg[t].cell
<1>1. CASE Freeable(p)
  <2>1. /\ block' = Freed(cell[p].block) /\ Go(t, "del_cell")
        /\ UNCHANGED <<slot, cell, count, reg, session, fault>>
    BY <1>1 DEF DelFreeValue, Checked
  <2>2. cell[p].block \in Blocks \cup {NULL}
    BY <1>1 DEF Freeable, IsBlock
  <2> QED BY <2>1, <2>2, FreedTyped, MoveTypeInv
    DEF DelFreeValue, At, Labels, DelLabels, TypeInv, TypeOK
<1>2. CASE ~ Freeable(p)
  BY <1>2, TypeInvFault DEF DelFreeValue, Checked
<1> QED BY <1>1, <1>2

LEMMA DelFreeCellTypeInv ==
  ASSUME TypeInv, NEW t \in Threads, DelFreeCell(t)
  PROVE  TypeInv'
<1> DEFINE p == reg[t].cell
<1>1. CASE IsCell(p)
  <2>1. /\ cell' = [cell EXCEPT ![p] = [live |-> FALSE, type |-> Junk, block |-> Junk]]
        /\ Go(t, "del_unlink") /\ UNCHANGED <<slot, block, count, reg, session, fault>>
    BY <1>1 DEF DelFreeCell, Checked
  <2>2. \A b \in Blocks : Fits(b)'
    BY <2>1 DEF TypeInv, Fits
  <2> QED BY <2>1, <2>2, MoveTypeInv DEF DelFreeCell, At, Labels, DelLabels, TypeInv, TypeOK
<1>2. CASE ~ IsCell(p)
  BY <1>2, TypeInvFault DEF DelFreeCell, Checked
<1> QED BY <1>1, <1>2

LEMMA DelUnlinkTypeInv ==
  ASSUME TypeInv, NEW t \in Threads, DelUnlink(t)
  PROVE  TypeInv'
<1>1. \A b \in Blocks : Fits(b)'
  BY DEF DelUnlink, TypeInv, Fits
<1> QED BY <1>1, MoveTypeInv DEF DelUnlink, At, Labels, DelLabels, TypeInv, TypeOK

\* The counter is read: the same for hash_table_del and hash_table_set.
LEMMA CountLoadTypeInv ==
  ASSUME TypeInv, NEW t \in Threads, DelCountLoad(t) \/ SetCountLoad(t)
  PROVE  TypeInv'
<1> DEFINE label == IF DelCountLoad(t) THEN "del_store" ELSE "set_store"
<1>1. Load(t, "num", count) /\ Go(t, label) /\ UNCHANGED <<heap, session, fault>>
  BY DEF DelCountLoad, SetCountLoad
<1>2. count \in Int /\ count \in Texts
  BY DEF TypeInv, TypeOK, Texts
<1>3. ThreadTyped' /\ Frame(t) /\ pc'[t] = label /\ pending'[t] = pending[t] /\ reg'[t].num = count
  <2>1. /\ reg' \in [Threads -> Registers] /\ \A u \in Threads \ {t} : reg'[u] = reg[u]
        /\ reg'[t]["num"] = count
    BY <1>1, <1>2, LoadTyped
  <2> QED BY <1>1, <2>1, GoTyped DEF Labels, session
<1>4. pc[t] = IF DelCountLoad(t) THEN "del_load" ELSE "set_load"
  BY DEF DelCountLoad, SetCountLoad, At
<1>5. Handling(t)' /\ Holding(t)'
  BY <1>2, <1>3, <1>4
    DEF TypeInv, Handling, Holding, Command, GetLabels, DelLabels, IncLabels, SetLabels
<1> QED BY <1>1, <1>3, <1>5, SameHeapTypeInv DEF session, TypeInv, TypeOK

LEMMA DelCountStoreTypeInv ==
  ASSUME TypeInv, NEW t \in Threads, DelCountStore(t)
  PROVE  TypeInv'
<1>1. pc[t] = "del_store" /\ pc[t] \in DelLabels /\ Deleted(t) /\ UNCHANGED <<slot, cell, block, fault>>
  BY DEF DelCountStore, At, DelLabels
<1>2. count' \in Int
  BY <1>1 DEF DelCountStore, TypeInv, Holding
<1>3. /\ ThreadTyped' /\ Frame(t) /\ Handling(t)' /\ Holding(t)'
      /\ answer' \in [Threads -> Reply \cup {NULL}
                        \cup [code : {200}, body : [type : Types, val : Texts]]]
  BY <1>1, DeletedTyped
<1>4. TypeOK' /\ \A b \in Blocks : Fits(b)'
  BY <1>1, <1>2, <1>3 DEF TypeInv, TypeOK, ThreadTyped, Fits
<1> QED BY <1>3, <1>4, TypeInvStep DEF Frame

(***************************************************************************)
(* hash_table_inc and hash_table_dec.                                      *)
(***************************************************************************)
LEMMA IncFindTypeInv ==
  ASSUME TypeInv, NEW t \in Threads, IncFind(t)
  PROVE  TypeInv'
<1>0. pc[t] = "inc" /\ Command(t) \in {"INC", "DEC"}
  BY DEF IncFind, At, TypeInv, Handling, IncLabels
<1>1. CASE slot[Index(t)] = NULL
  <2>1. ThreadTyped' /\ Frame(t) /\ pc'[t] = "set" /\ pending'[t] = pending[t] /\ Holding(t)'
    BY <1>1, ReturnTyped DEF IncFind, Labels, session
  <2>2. Handling(t)'
    BY <1>0, <2>1 DEF TypeInv, Handling, Command, GetLabels, DelLabels, IncLabels, SetLabels
  <2> QED BY <2>1, <2>2, SameHeapTypeInv DEF IncFind, session, TypeInv, TypeOK
<1>2. CASE slot[Index(t)] # NULL
  <2>1. Load(t, "cell", slot[Index(t)]) /\ Go(t, "inc_type") /\ UNCHANGED <<heap, session, fault>>
    BY <1>2 DEF IncFind
  <2>2. slot[Index(t)] \in Cells
    BY <1>0, <1>2, AtSlot
  <2>3. ThreadTyped' /\ Frame(t) /\ pc'[t] = "inc_type" /\ pending'[t] = pending[t]
    BY <2>1, <2>2, LoadTyped, GoTyped DEF Labels, session
  <2>4. Handling(t)' /\ Holding(t)'
    BY <1>0, <2>3 DEF TypeInv, Handling, Holding, Command, GetLabels, DelLabels, IncLabels, SetLabels
  <2> QED BY <2>1, <2>3, <2>4, SameHeapTypeInv DEF session, TypeInv, TypeOK
<1> QED BY <1>1, <1>2

LEMMA IncTypeTypeInv ==
  ASSUME TypeInv, NEW t \in Threads, IncType(t)
  PROVE  TypeInv'
<1> DEFINE p == reg[t].cell
<1>0. pc[t] = "inc_type" /\ Command(t) \in {"INC", "DEC"}
  BY DEF IncType, At, TypeInv, Handling, IncLabels
<1>1. CASE IsCell(p) /\ cell[p].type # Junk
  <2>1. cell[p].type \in Types /\ cell[p].block \in Blocks \cup {NULL, Junk}
    BY <1>1 DEF IsCell, TypeInv, TypeOK
  <2>2. CASE cell[p].type = CACHE_VALUE_STRING
    <3>1. Return(t, "set") /\ UNCHANGED <<heap, session, fault>>
      BY <1>1, <2>2 DEF IncType, Checked
    <3>2. ThreadTyped' /\ Frame(t) /\ pc'[t] = "set" /\ pending'[t] = pending[t] /\ Holding(t)'
      BY <3>1, ReturnTyped DEF Labels, session
    <3>3. Handling(t)'
      BY <1>0, <3>2 DEF TypeInv, Handling, Command, GetLabels, DelLabels, IncLabels, SetLabels
    <3> QED BY <3>1, <3>2, <3>3, SameHeapTypeInv DEF session, TypeInv, TypeOK
  <2>3. CASE cell[p].type # CACHE_VALUE_STRING
    <3>1. /\ reg' = [reg EXCEPT ![t] = [@ EXCEPT !.type = cell[p].type, !.block = cell[p].block]]
          /\ Go(t, "inc_load") /\ UNCHANGED <<heap, session, fault>>
      BY <1>1, <2>3 DEF IncType, Checked
    <3>2. /\ reg' \in [Threads -> Registers] /\ \A u \in Threads \ {t} : reg'[u] = reg[u]
          /\ reg'[t].type = cell[p].type
      <4> DEFINE loaded == [reg[t] EXCEPT !.type = cell[p].type, !.block = cell[p].block]
      <4>1. reg[t] \in Registers /\ reg \in [Threads -> Registers]
        BY DEF TypeInv, TypeOK
      <4>2. loaded \in Registers /\ loaded.type = cell[p].type
        BY <2>1, <4>1 DEF Registers
      <4>3. reg' = [reg EXCEPT ![t] = loaded]
        BY <3>1
      <4> HIDE DEF loaded
      <4> QED BY <4>1, <4>2, <4>3
    <3>3. ThreadTyped' /\ Frame(t) /\ pc'[t] = "inc_load" /\ pending'[t] = pending[t]
      BY <3>1, <3>2, GoTyped DEF Labels, session
    <3>4. Handling(t)' /\ Holding(t)'
      BY <1>0, <2>3, <3>2, <3>3
        DEF TypeInv, Handling, Holding, Command, GetLabels, DelLabels, IncLabels, SetLabels
    <3> QED BY <3>1, <3>3, <3>4, SameHeapTypeInv DEF session, TypeInv, TypeOK
  <2> QED BY <2>2, <2>3
<1>2. CASE ~ (IsCell(p) /\ cell[p].type # Junk)
  BY <1>2, TypeInvFault DEF IncType, Checked
<1> QED BY <1>1, <1>2

LEMMA IncLoadTypeInv ==
  ASSUME TypeInv, NEW t \in Threads, IncLoad(t)
  PROVE  TypeInv'
<1> DEFINE b == reg[t].block
           defined == IsBlock(b) /\ block[b].type = reg[t].type /\ block[b].val # Junk
<1>0. pc[t] = "inc_load" /\ reg[t].type # CACHE_VALUE_STRING
  BY DEF IncLoad, At, TypeInv, Holding
<1>1. CASE defined
  <2>1. Load(t, "num", block[b].val) /\ Go(t, "inc_store") /\ UNCHANGED <<heap, session, fault>>
    BY <1>1 DEF IncLoad, Checked
  <2>2. block[b].val \in Int
    <3>1. [type |-> block[b].type, val |-> block[b].val] \in Value
      BY <1>1 DEF IsBlock, TypeInv, Fits
    <3> QED BY <1>0, <1>1, <3>1 DEF Value
  <2>3. /\ reg' \in [Threads -> Registers] /\ \A u \in Threads \ {t} : reg'[u] = reg[u]
        /\ reg'[t]["num"] = block[b].val /\ reg'[t]["type"] = reg[t]["type"]
    BY <2>1, <2>2, LoadTyped DEF Texts
  <2>4. ThreadTyped' /\ Frame(t) /\ pc'[t] = "inc_store" /\ pending'[t] = pending[t]
    BY <2>1, <2>3, GoTyped DEF Labels, session
  <2>5. Handling(t)' /\ Holding(t)'
    BY <1>0, <2>2, <2>3, <2>4
      DEF TypeInv, Handling, Holding, Command, GetLabels, DelLabels, IncLabels, SetLabels
  <2> QED BY <2>1, <2>4, <2>5, SameHeapTypeInv DEF session, TypeInv, TypeOK
<1>2. CASE ~ defined
  BY <1>2, TypeInvFault DEF IncLoad, Checked
<1> QED BY <1>1, <1>2

LEMMA IncStoreTypeInv ==
  ASSUME TypeInv, NEW t \in Threads, IncStore(t)
  PROVE  TypeInv'
<1> DEFINE b == reg[t].block
           old == [type |-> reg[t].type, val |-> reg[t].num]
           new == Shifted(old, Change(pending[t]))
<1>0. /\ pc[t] = "inc_store" /\ pending[t] # NULL /\ pending[t] \in May[t]
      /\ Command(t) \in {"INC", "DEC"}
      /\ reg[t].type # CACHE_VALUE_STRING /\ reg[t].num \in Int
  BY DEF IncStore, At, TypeInv, Handling, Holding, IncLabels
<1>1. old \in Value /\ IsNumber(old)
  BY <1>0 DEF TypeInv, TypeOK, Registers, Types, Value, IsNumber
<1>2. new \in Value /\ new.type = old.type /\ new.val \in Int
  <2>1. Change(pending[t]) \in Int
    BY <1>0, MayRequest DEF Command
  <2>2. new \in Value /\ IsNumber(new)
    BY <1>1, <2>1, ShiftedIsWhole
  <2>3. new.type = old.type
    BY DEF Shifted
  <2> QED BY <2>2, <2>3 DEF Value, IsNumber
<1>3. CASE IsBlock(b) /\ block[b].type = old.type
  <2>1. /\ block' = [block EXCEPT ![b].val = new.val] /\ Return(t, "get")
        /\ UNCHANGED <<slot, cell, count, session, fault>>
    BY <1>3 DEF IncStore, Checked
  <2>2. /\ block' \in [Blocks -> [live : BOOLEAN, type : Types \cup {Junk},
                                  val : Texts \cup {Junk}]]
        /\ \A c \in Blocks \ {b} : block'[c] = block[c]
        /\ block'[b].type = old.type /\ block'[b].val = new.val
    BY <1>2, <1>3, <2>1 DEF IsBlock, TypeInv, TypeOK, Texts
  <2>3. \A c \in Blocks : Fits(c)'
    <3>1. [type |-> new.type, val |-> new.val] = new
      BY <1>2 DEF Value
    <3> QED BY <1>2, <2>2, <3>1 DEF TypeInv, Fits
  <2>4. ThreadTyped' /\ Frame(t) /\ pc'[t] = "get" /\ pending'[t] = pending[t] /\ Holding(t)'
    BY <2>1, ReturnTyped DEF Labels, session
  <2>5. Handling(t)'
    BY <1>0, <2>4 DEF TypeInv, Handling, Command, GetLabels, DelLabels, IncLabels, SetLabels
  <2>6. TypeOK'
    BY <2>1, <2>2, <2>4 DEF TypeInv, TypeOK, ThreadTyped, session
  <2> QED BY <2>3, <2>4, <2>5, <2>6, TypeInvStep DEF Frame
<1>4. CASE ~ (IsBlock(b) /\ block[b].type = old.type)
  BY <1>4, TypeInvFault DEF IncStore, Checked
<1> QED BY <1>3, <1>4

(***************************************************************************)
(* hash_table_set.                                                         *)
(***************************************************************************)
LEMMA SetFindTypeInv ==
  ASSUME TypeInv, NEW t \in Threads, SetFind(t)
  PROVE  TypeInv'
<1>1. \A b \in Blocks : Fits(b)'
  BY DEF SetFind, TypeInv, Fits, heap
<1> QED BY <1>1, MoveTypeInv DEF SetFind, At, Labels, SetLabels, TypeInv, TypeOK, heap

LEMMA SetAllocTypeInv ==
  ASSUME TypeInv, NEW t \in Threads, SetAlloc(t)
  PROVE  TypeInv'
<1>1. PICK p \in Cells :
        /\ cell' = [cell EXCEPT ![p] = [live |-> TRUE, type |-> Junk, block |-> Junk]]
        /\ slot' = [slot EXCEPT ![Index(t)] = p]
  BY DEF SetAlloc
<1>2. \A b \in Blocks : Fits(b)'
  BY DEF SetAlloc, TypeInv, Fits
<1>3. Go(t, "set_null") /\ UNCHANGED <<block, count, reg, session, fault>> /\ pc[t] = "set_alloc"
  BY DEF SetAlloc, At
<1>4. /\ slot' \in [Slots -> Cells \cup {NULL}]
      /\ cell' \in [Cells -> [live : BOOLEAN, type : Types \cup {Junk},
                              block : Blocks \cup {NULL, Junk}]]
  BY <1>1 DEF TypeInv, TypeOK
<1> QED BY <1>2, <1>3, <1>4, MoveTypeInv DEF Labels, SetLabels, TypeInv, TypeOK

LEMMA SetNullTypeInv ==
  ASSUME TypeInv, NEW t \in Threads, SetNull(t)
  PROVE  TypeInv'
<1> DEFINE p == slot[Index(t)]
<1>1. CASE IsCell(p)
  <2>1. /\ cell' = [cell EXCEPT ![p].block = NULL]
        /\ Go(t, "set_load") /\ UNCHANGED <<slot, block, count, reg, session, fault>>
    BY <1>1 DEF SetNull, Checked
  <2>2. cell' \in [Cells -> [live : BOOLEAN, type : Types \cup {Junk},
                             block : Blocks \cup {NULL, Junk}]]
    BY <1>1, <2>1 DEF IsCell, TypeInv, TypeOK
  <2>3. \A b \in Blocks : Fits(b)'
    BY <2>1 DEF TypeInv, Fits
  <2> QED BY <2>1, <2>2, <2>3, MoveTypeInv DEF SetNull, At, Labels, SetLabels, TypeInv, TypeOK
<1>2. CASE ~ IsCell(p)
  BY <1>2, TypeInvFault DEF SetNull, Checked
<1> QED BY <1>1, <1>2

LEMMA SetCountStoreTypeInv ==
  ASSUME TypeInv, NEW t \in Threads, SetCountStore(t)
  PROVE  TypeInv'
<1>1. /\ pc[t] = "set_store" /\ Return(t, "set_fields")
      /\ UNCHANGED <<slot, cell, block, session, fault>>
  BY DEF SetCountStore, At
<1>2. count' \in Int
  BY <1>1 DEF SetCountStore, TypeInv, Holding
<1>3. ThreadTyped' /\ Frame(t) /\ pc'[t] = "set_fields" /\ pending'[t] = pending[t] /\ Holding(t)'
  BY <1>1, ReturnTyped DEF Labels, session
<1>4. Handling(t)'
  BY <1>1, <1>3 DEF TypeInv, Handling, Command, GetLabels, DelLabels, IncLabels, SetLabels
<1>5. TypeOK' /\ \A b \in Blocks : Fits(b)'
  BY <1>1, <1>2, <1>3 DEF TypeInv, TypeOK, ThreadTyped, Fits, session
<1> QED BY <1>3, <1>4, <1>5, TypeInvStep DEF Frame

\* A thread in hash_table_set has a value to store.
LEMMA NewAt ==
  ASSUME TypeInv, NEW t \in Threads, pc[t] \in SetLabels
  PROVE  New(t) \in Value /\ New(t).type \in Types /\ New(t).val \in Texts
<1>1. pc[t] \notin {"idle", "stt"}
  BY DEF SetLabels
<1> QED BY <1>1, AtSlot, NewValue DEF TypeInv, Handling

LEMMA SetFieldsTypeInv ==
  ASSUME TypeInv, NEW t \in Threads, SetFields(t)
  PROVE  TypeInv'
<1> DEFINE p == slot[Index(t)]
<1>0. pc[t] = "set_fields" /\ New(t).type \in Types
  BY NewAt DEF SetFields, At, SetLabels
<1>1. CASE IsCell(p)
  <2>1. /\ cell' = [cell EXCEPT ![p].type = New(t).type]
        /\ Go(t, "set_free") /\ UNCHANGED <<slot, block, count, reg, session, fault>>
    BY <1>1 DEF SetFields, Checked
  <2>2. cell' \in [Cells -> [live : BOOLEAN, type : Types \cup {Junk},
                             block : Blocks \cup {NULL, Junk}]]
    BY <1>0, <1>1, <2>1 DEF IsCell, TypeInv, TypeOK
  <2>3. \A b \in Blocks : Fits(b)'
    BY <2>1 DEF TypeInv, Fits
  <2> QED BY <1>0, <2>1, <2>2, <2>3, MoveTypeInv DEF Labels, SetLabels, TypeInv, TypeOK
<1>2. CASE ~ IsCell(p)
  BY <1>2, TypeInvFault DEF SetFields, Checked
<1> QED BY <1>1, <1>2

LEMMA SetFreeOldTypeInv ==
  ASSUME TypeInv, NEW t \in Threads, SetFreeOld(t)
  PROVE  TypeInv'
<1> DEFINE p == slot[Index(t)]
<1>1. CASE Freeable(p)
  <2>1. /\ block' = Freed(cell[p].block) /\ Go(t, "set_block")
        /\ UNCHANGED <<slot, cell, count, reg, session, fault>>
    BY <1>1 DEF SetFreeOld, Checked
  <2>2. cell[p].block \in Blocks \cup {NULL}
    BY <1>1 DEF Freeable, IsBlock
  <2> QED BY <2>1, <2>2, FreedTyped, MoveTypeInv
    DEF SetFreeOld, At, Labels, SetLabels, TypeInv, TypeOK
<1>2. CASE ~ Freeable(p)
  BY <1>2, TypeInvFault DEF SetFreeOld, Checked
<1> QED BY <1>1, <1>2

LEMMA SetBlockTypeInv ==
  ASSUME TypeInv, NEW t \in Threads, SetBlock(t)
  PROVE  TypeInv'
<1> DEFINE p == slot[Index(t)]
<1>0. pc[t] = "set_block" /\ New(t).type \in Types
  BY NewAt DEF SetBlock, At, SetLabels
<1>1. CASE IsCell(p)
  <2>1. PICK b \in Blocks :
          /\ block' = [block EXCEPT ![b] = NewBlock(New(t).type)]
          /\ cell' = [cell EXCEPT ![p].block = b]
    BY <1>1 DEF SetBlock, Checked
  <2>2. Go(t, "set_value") /\ UNCHANGED <<slot, count, reg, session, fault>>
    BY <1>1 DEF SetBlock, Checked
  <2>3. cell' \in [Cells -> [live : BOOLEAN, type : Types \cup {Junk},
                             block : Blocks \cup {NULL, Junk}]]
    BY <1>1, <2>1 DEF IsCell, TypeInv, TypeOK
  <2>4. /\ block' \in [Blocks -> [live : BOOLEAN, type : Types \cup {Junk},
                                  val : Texts \cup {Junk}]]
        /\ \A c \in Blocks : Fits(c)'
    BY <1>0, <2>1 DEF TypeInv, TypeOK, NewBlock, Fits
  <2> QED BY <1>0, <2>2, <2>3, <2>4, MoveTypeInv DEF Labels, SetLabels, TypeInv, TypeOK
<1>2. CASE ~ IsCell(p)
  BY <1>2, TypeInvFault DEF SetBlock, Checked
<1> QED BY <1>1, <1>2

LEMMA SetValueTypeInv ==
  ASSUME TypeInv, NEW t \in Threads, SetValue(t)
  PROVE  TypeInv'
<1> DEFINE p == slot[Index(t)]
           b == cell[p].block
           defined == IsCell(p) /\ IsBlock(b) /\ block[b].type = New(t).type
           counting == Command(t) \in {"INC", "DEC"}
<1>0. pc[t] = "set_value" /\ New(t) \in Value /\ New(t).type \in Types /\ New(t).val \in Texts
  BY NewAt DEF SetValue, At, SetLabels
<1>1. CASE defined
  <2>1. /\ block' = [block EXCEPT ![b].val = New(t).val]
        /\ UNCHANGED <<slot, cell, count, fault>>
        /\ counting => Return(t, "get") /\ UNCHANGED session
        /\ ~ counting => Tell(t, Ok(NULL)) /\ Finish(t)
    BY <1>1 DEF SetValue, Checked
  <2>2. /\ block' \in [Blocks -> [live : BOOLEAN, type : Types \cup {Junk},
                                  val : Texts \cup {Junk}]]
        /\ \A c \in Blocks \ {b} : block'[c] = block[c]
        /\ block'[b].type = New(t).type /\ block'[b].val = New(t).val
    BY <1>0, <1>1, <2>1 DEF IsBlock, TypeInv, TypeOK
  <2>3. \A c \in Blocks : Fits(c)'
    <3>1. [type |-> New(t).type, val |-> New(t).val] = New(t)
      BY <1>0 DEF Value
    <3> QED BY <1>0, <2>2, <3>1 DEF TypeInv, Fits
  <2>4. /\ ThreadTyped' /\ Frame(t) /\ Handling(t)' /\ Holding(t)'
        /\ answer' \in [Threads -> Reply \cup {NULL}
                          \cup [code : {200}, body : [type : Types, val : Texts]]]
    <3>1. CASE counting
      <4>1. ThreadTyped' /\ Frame(t) /\ pc'[t] = "get" /\ pending'[t] = pending[t] /\ Holding(t)'
        BY <2>1, <3>1, ReturnTyped DEF Labels, session
      <4>2. Handling(t)'
        BY <1>0, <3>1, <4>1
          DEF TypeInv, Handling, Command, GetLabels, DelLabels, IncLabels, SetLabels
      <4> QED BY <2>1, <3>1, <4>1, <4>2 DEF session, TypeInv, TypeOK
    <3>2. CASE ~ counting
      <4>1. answer' \in [Threads -> Reply \cup {NULL}
                           \cup [code : {200}, body : [type : Types, val : Texts]]]
        BY <2>1, <3>2, Replies DEF Tell, TypeInv, TypeOK
      <4> QED BY <2>1, <3>2, <4>1, FinishTyped
    <3> QED BY <3>1, <3>2
  <2>5. TypeOK'
    BY <2>1, <2>2, <2>4 DEF TypeInv, TypeOK, ThreadTyped
  <2> QED BY <2>3, <2>4, <2>5, TypeInvStep DEF Frame
<1>2. CASE ~ defined
  BY <1>2, TypeInvFault DEF SetValue, Checked
<1> QED BY <1>1, <1>2

LEMMA NextTypeInv == TypeInv /\ [Next]_vars => TypeInv'
<1> SUFFICES ASSUME TypeInv, [Next]_vars PROVE TypeInv'
  OBVIOUS
<1>1. ASSUME NEW t \in Threads, Step(t) PROVE TypeInv'
  BY <1>1, SttTypeInv, AddExistsTypeInv, GetFindTypeInv, GetTypeTypeInv, GetLengthTypeInv,
     GetValueTypeInv, DelFindTypeInv, DelFreeValueTypeInv, DelFreeCellTypeInv,
     DelUnlinkTypeInv, CountLoadTypeInv, DelCountStoreTypeInv, IncFindTypeInv, IncTypeTypeInv,
     IncLoadTypeInv, IncStoreTypeInv, SetFindTypeInv, SetAllocTypeInv, SetNullTypeInv,
     SetCountStoreTypeInv, SetFieldsTypeInv, SetFreeOldTypeInv, SetBlockTypeInv,
     SetValueTypeInv
  DEF Step
<1>2. ASSUME NEW t \in Threads, NEW r \in May[t], Send(t, r) PROVE TypeInv'
  BY <1>2, SendTypeInv
<1>3. CASE UNCHANGED vars
  BY <1>3 DEF vars, heap, session, TypeInv, TypeOK, Handling, Holding, Command, Fits
<1> QED BY <1>1, <1>2, <1>3 DEF Next

LEMMA TypeInvariance == Spec => []TypeInv
<1> QED BY TypeInit, NextTypeInv, PTL DEF Spec

\* The threads' variables and the memory keep their types, whatever the
\* threads do to each other: a block never holds what its type cannot, the
\* counter stays a number, and a handler is where its command can be.
THEOREM ThreadsTypeOK == Spec => []TypeOK
<1>1. TypeInv => TypeOK
  BY DEF TypeInv
<1> QED BY <1>1, TypeInvariance, PTL

(***************************************************************************)
(* Where a step leaves its thread, and the memory at first.                *)
(***************************************************************************)
\* Where a thread goes when a function it called returns, loads a variable, or
\* is the last of its handler.
LEMMA Moves ==
  ASSUME TypeInv, NEW t \in Threads
  PROVE  /\ Finish(t) => Frame(t) /\ pc'[t] = "idle" /\ pending'[t] = NULL
         /\ \A label \in Labels \ {"idle"} : Return(t, label) /\ UNCHANGED <<pending, before>> =>
              Frame(t) /\ pc'[t] = label /\ pending'[t] = pending[t]
         /\ \A label \in Labels : Go(t, label) /\ UNCHANGED <<pending, reg>> =>
              Frame(t) /\ pc'[t] = label /\ pending'[t] = pending[t] /\ reg'[t] = reg[t]
         /\ \A label \in Labels, v \in Cells \cup {NULL} :
              Go(t, label) /\ Load(t, "cell", v) /\ UNCHANGED pending =>
              /\ Frame(t) /\ pc'[t] = label /\ pending'[t] = pending[t]
              /\ reg'[t].cell = v
         /\ \A label \in Labels, v \in Types :
              Go(t, label) /\ Load(t, "type", v) /\ UNCHANGED pending =>
              /\ Frame(t) /\ pc'[t] = label /\ pending'[t] = pending[t]
              /\ reg'[t].type = v /\ reg'[t].cell = reg[t].cell
         /\ \A label \in Labels, v \in Texts :
              Go(t, label) /\ Load(t, "num", v) /\ UNCHANGED pending =>
              /\ Frame(t) /\ pc'[t] = label /\ pending'[t] = pending[t] /\ reg'[t].num = v
              /\ reg'[t].type = reg[t].type /\ reg'[t].cell = reg[t].cell
              /\ reg'[t].block = reg[t].block
<1>1. Finish(t) => Frame(t) /\ pc'[t] = "idle" /\ pending'[t] = NULL
  BY FinishTyped
<1>2. ASSUME NEW label \in Labels \ {"idle"}, Return(t, label), UNCHANGED <<pending, before>>
      PROVE  Frame(t) /\ pc'[t] = label /\ pending'[t] = pending[t]
  BY <1>2, ReturnTyped
<1>3. ASSUME NEW label \in Labels, Go(t, label), UNCHANGED <<pending, reg>>
      PROVE  Frame(t) /\ pc'[t] = label /\ pending'[t] = pending[t] /\ reg'[t] = reg[t]
  BY <1>3 DEF Go, Frame, TypeInv, TypeOK
<1>4. ASSUME NEW label \in Labels, Go(t, label), UNCHANGED pending,
             \A u \in Threads \ {t} : reg'[u] = reg[u]
      PROVE  Frame(t) /\ pc'[t] = label /\ pending'[t] = pending[t]
  BY <1>4 DEF Go, Frame, TypeInv, TypeOK
<1>5. ASSUME NEW v \in Cells \cup {NULL}, Load(t, "cell", v)
      PROVE  reg'[t].cell = v /\ \A u \in Threads \ {t} : reg'[u] = reg[u]
  <2>1. reg'[t]["cell"] = v /\ \A u \in Threads \ {t} : reg'[u] = reg[u]
    BY <1>5, LoadTyped
  <2> QED BY <2>1
<1>6. ASSUME NEW v \in Types, Load(t, "type", v)
      PROVE  /\ reg'[t].type = v /\ reg'[t].cell = reg[t].cell
             /\ \A u \in Threads \ {t} : reg'[u] = reg[u]
  <2>1. /\ reg'[t]["type"] = v /\ \A u \in Threads \ {t} : reg'[u] = reg[u]
        /\ \A f \in {"cell", "block", "type", "num"} \ {"type"} : reg'[t][f] = reg[t][f]
    BY <1>6, LoadTyped
  <2> QED BY <2>1
<1>7. ASSUME NEW v \in Texts, Load(t, "num", v)
      PROVE  /\ reg'[t].num = v /\ reg'[t].cell = reg[t].cell
             /\ reg'[t].type = reg[t].type /\ reg'[t].block = reg[t].block
             /\ \A u \in Threads \ {t} : reg'[u] = reg[u]
  <2>1. /\ reg'[t]["num"] = v /\ \A u \in Threads \ {t} : reg'[u] = reg[u]
        /\ \A f \in {"cell", "block", "type", "num"} \ {"num"} : reg'[t][f] = reg[t][f]
    BY <1>7, LoadTyped
  <2> QED BY <2>1
<1> QED BY <1>1, <1>2, <1>3, <1>4, <1>5, <1>6, <1>7

LEMMA AnsweredMoves ==
  ASSUME TypeInv, NEW t \in Threads, Answered(t)
  PROVE  /\ Frame(t)
         /\ \/ pc'[t] = "idle" /\ Command(t) # "DEL" /\ Finish(t)
            \/ pc'[t] = "del" /\ Command(t) = "DEL" /\ UNCHANGED <<pending, before>>
<1>1. CASE Command(t) = "DEL"
  <2>1. Return(t, "del") /\ UNCHANGED <<pending, before>>
    BY <1>1 DEF Answered
  <2> QED BY <1>1, <2>1, Moves DEF Labels
<1>2. CASE Command(t) # "DEL"
  BY <1>2, Moves DEF Answered
<1> QED BY <1>1, <1>2

LEMMA DeletedMoves ==
  ASSUME TypeInv, NEW t \in Threads, Deleted(t)
  PROVE  /\ Frame(t)
         /\ \/ pc'[t] = "idle" /\ Finish(t)
            \/ pc'[t] = "set" /\ UNCHANGED <<pending, before>>
<1>1. CASE Command(t) = "DEL" /\ Finish(t)
  BY <1>1, Moves
<1>2. CASE Return(t, "set") /\ UNCHANGED session
  BY <1>2, Moves DEF session, Labels
<1>3. CASE Tell(t, BadRequest) /\ Finish(t)
  BY <1>3, Moves
<1> QED BY <1>1, <1>2, <1>3 DEF Deleted

\* The memory at first: each value an earlier client left has a cell and a
\* block of its own.
LEMMA InitMemory ==
  ASSUME Init
  PROVE  \E p \in [DOMAIN Preset -> Cells], b \in [DOMAIN Preset -> Blocks] :
           /\ \A i, j \in DOMAIN Preset : i # j => p[i] # p[j] /\ b[i] # b[j]
           /\ slot = [s \in Slots |-> IF s \in DOMAIN Preset THEN p[s] ELSE NULL]
           /\ \A s \in DOMAIN Preset :
                /\ cell[p[s]] = [live |-> TRUE, type |-> Preset[s].type, block |-> b[s]]
                /\ block[b[s]] = [live |-> TRUE, type |-> Preset[s].type, val |-> Preset[s].val]
           /\ \A c \in Cells : cell[c].live => \E s \in DOMAIN Preset : p[s] = c
           /\ \A c \in Blocks : block[c].live => \E s \in DOMAIN Preset : b[s] = c
<1> DEFINE Used == DOMAIN Preset
<1>1. PICK p \in [Used -> Cells], b \in [Used -> Blocks] :
        /\ \A i, j \in Used : i # j => p[i] # p[j] /\ b[i] # b[j]
        /\ slot = [s \in Slots |-> IF s \in Used THEN p[s] ELSE NULL]
        /\ cell = [c \in Cells |->
             IF \E s \in Used : p[s] = c
               THEN LET s == CHOOSE s \in Used : p[s] = c
                    IN  [live |-> TRUE, type |-> Preset[s].type, block |-> b[s]]
               ELSE [live |-> FALSE, type |-> Junk, block |-> Junk]]
        /\ block = [c \in Blocks |->
             IF \E s \in Used : b[s] = c
               THEN LET v == Preset[CHOOSE s \in Used : b[s] = c]
                    IN  [live |-> TRUE, type |-> v.type, val |-> v.val]
               ELSE Free]
  BY DEF Init
<1>2. ASSUME NEW s \in Used
      PROVE  /\ cell[p[s]] = [live |-> TRUE, type |-> Preset[s].type, block |-> b[s]]
             /\ block[b[s]] = [live |-> TRUE, type |-> Preset[s].type, val |-> Preset[s].val]
  <2>1. s = CHOOSE i \in Used : p[i] = p[s]
    BY <1>1
  <2>2. s = CHOOSE i \in Used : b[i] = b[s]
    BY <1>1
  <2>3. p[s] \in Cells /\ b[s] \in Blocks
    OBVIOUS
  <2>4. cell[p[s]] = LET i == CHOOSE i \in Used : p[i] = p[s]
                     IN  [live |-> TRUE, type |-> Preset[i].type, block |-> b[i]]
    BY <1>1, <2>3
  <2>5. block[b[s]] = LET v == Preset[CHOOSE i \in Used : b[i] = b[s]]
                      IN  [live |-> TRUE, type |-> v.type, val |-> v.val]
    BY <1>1, <2>3
  <2> QED BY <2>1, <2>2, <2>4, <2>5
<1>3. ASSUME NEW c \in Cells, cell[c].live PROVE \E s \in Used : p[s] = c
  BY <1>1, <1>3
<1>4. ASSUME NEW c \in Blocks, block[c].live PROVE \E s \in Used : b[s] = c
  BY <1>1, <1>4 DEF Free
<1>5. /\ \A i, j \in Used : i # j => p[i] # p[j] /\ b[i] # b[j]
      /\ slot = [s \in Slots |-> IF s \in Used THEN p[s] ELSE NULL]
  BY <1>1
<1> WITNESS p \in [Used -> Cells], b \in [Used -> Blocks]
<1> QED BY <1>2, <1>3, <1>4, <1>5

(***************************************************************************)
(* Threads that look at numbers and count with them, on keys they share.   *)
(***************************************************************************)
\* Clients send nothing but GET, ADD, INC and DEC of keys that hold a number,
\* and STT.
OnlyCounting ==
  \A t \in Threads : \A r \in May[t] :
    r.cmd # "STT" =>
      /\ r.cmd \in {"GET", "ADD", "INC", "DEC"}
      /\ Hash[r.key] \in DOMAIN Preset /\ IsNumber(Preset[Hash[r.key]])

\* The slot holds a number, complete.
Number(s) ==
  /\ ReadsAs(slot[s], cell[slot[s]].type)
  /\ cell[slot[s]].type \in {CACHE_VALUE_DECIMAL, CACHE_VALUE_REAL}

\* A thread that has found its cell knows of it what is so.
Counting(t) ==
  /\ pc[t] \in {"idle", "stt", "exists", "inc", "inc_type", "inc_load", "inc_store"} \cup GetLabels
  /\ pc[t] \in {"get_type", "get_length", "get_value", "inc_type", "inc_load", "inc_store"} =>
       reg[t].cell = slot[Index(t)]
  /\ pc[t] \in {"get_length", "get_value", "inc_load", "inc_store"} =>
       reg[t].type = cell[slot[Index(t)]].type
  /\ pc[t] \in {"inc_load", "inc_store"} => reg[t].block = cell[slot[Index(t)]].block
  /\ answer[t] # NULL => answer[t] # NotFound

CountingInv ==
  /\ TypeInv
  /\ ~ fault
  /\ \A s \in DOMAIN Preset : IsNumber(Preset[s]) => Number(s)
  /\ \A t \in Threads : Counting(t)

\* Every slot a thread asks for holds a number.
LEMMA CountingAt ==
  ASSUME OnlyCounting, CountingInv, NEW t \in Threads, pc[t] \notin {"idle", "stt"}
  PROVE  /\ Number(Index(t)) /\ slot[Index(t)] # NULL
         /\ Command(t) \in {"GET", "ADD", "INC", "DEC"}
<1>1. pending[t] \in May[t] /\ Command(t) # "STT"
  BY AtSlot DEF CountingInv
<1>2. Number(Index(t)) /\ Command(t) \in {"GET", "ADD", "INC", "DEC"}
  BY <1>1 DEF OnlyCounting, CountingInv, Index, Command
<1> QED BY <1>2, MemoryAssumption DEF Number, ReadsAs, IsCell

\* The shape of a number does not change with its value.
LEMMA NumberStays ==
  ASSUME NEW s, Number(s), slot' = slot, cell' = cell,
         \A b \in Blocks : /\ block'[b].live = block[b].live /\ block'[b].type = block[b].type
                           /\ block[b].val # Junk => block'[b].val # Junk
  PROVE  Number(s)'
<1>1. PICK v \in Blocks : v = cell[slot[s]].block
  BY DEF Number, ReadsAs, IsBlock
<1>2. block[v].live /\ block[v].type = cell[slot[s]].type /\ block[v].val # Junk
  BY <1>1 DEF Number, ReadsAs, IsBlock
<1>3. block'[v].live /\ block'[v].type = cell[slot[s]].type /\ block'[v].val # Junk
  BY <1>2
<1> QED BY <1>1, <1>3 DEF Number, ReadsAs, IsCell, IsBlock

\* A step of one thread that leaves the shape of the numbers as it is.
LEMMA CountingStep ==
  ASSUME CountingInv, TypeInv', NEW t \in Threads,
         UNCHANGED <<slot, cell, fault>>, Frame(t), Counting(t)',
         \A u \in Threads \ {t} : answer'[u] = answer[u],
         \A b \in Blocks : /\ block'[b].live = block[b].live /\ block'[b].type = block[b].type
                           /\ block[b].val # Junk => block'[b].val # Junk
  PROVE  CountingInv'
<1>1. \A s \in DOMAIN Preset : IsNumber(Preset[s]) => Number(s)'
  BY NumberStays DEF CountingInv
<1>2. ASSUME NEW u \in Threads \ {t} PROVE Counting(u)'
  BY DEF CountingInv, Counting, Frame, Index
<1> QED BY <1>1, <1>2 DEF CountingInv

\* A thread that returns with another reply than 404 is counting still.
LEMMA CountingReturns ==
  ASSUME CountingInv, TypeInv', NEW t \in Threads, UNCHANGED <<heap, fault>>,
         Frame(t), pc'[t] \in {"idle", "stt", "exists", "inc", "get"},
         \A u \in Threads \ {t} : answer'[u] = answer[u],
         answer'[t] # NULL => answer'[t] # NotFound
  PROVE  CountingInv'
<1>1. Counting(t)'
  BY DEF Counting, GetLabels
<1> QED BY <1>1, CountingStep DEF heap

LEMMA CountingInit == Init => CountingInv
<1> SUFFICES ASSUME Init PROVE CountingInv
  OBVIOUS
<1>1. TypeInv
  BY TypeInit
<1>2. ASSUME NEW s \in DOMAIN Preset, IsNumber(Preset[s]) PROVE Number(s)
  <2>1. PICK p \in [DOMAIN Preset -> Cells], b \in [DOMAIN Preset -> Blocks] :
          /\ slot = [i \in Slots |-> IF i \in DOMAIN Preset THEN p[i] ELSE NULL]
          /\ \A i \in DOMAIN Preset :
               /\ cell[p[i]] = [live |-> TRUE, type |-> Preset[i].type, block |-> b[i]]
               /\ block[b[i]] = [live |-> TRUE, type |-> Preset[i].type, val |-> Preset[i].val]
    BY InitMemory
  <2>2. slot[s] = p[s] /\ p[s] \in Cells /\ b[s] \in Blocks
    BY <2>1, PresetAssumption
  <2>3. /\ Preset[s].type \in {CACHE_VALUE_DECIMAL, CACHE_VALUE_REAL}
        /\ Preset[s].val \in Texts
    BY <1>2, PresetAssumption DEF Value, IsNumber, Texts
  <2>4. Preset[s].val # Junk
    BY <2>3, MemoryAssumption
  <2>5. /\ cell[slot[s]] = [live |-> TRUE, type |-> Preset[s].type, block |-> b[s]]
        /\ block[b[s]] = [live |-> TRUE, type |-> Preset[s].type, val |-> Preset[s].val]
    BY <2>1, <2>2
  <2> QED BY <2>2, <2>3, <2>4, <2>5 DEF Number, ReadsAs, IsCell, IsBlock
<1>3. \A t \in Threads : Counting(t)
  BY DEF Init, Counting, GetLabels
<1> QED BY <1>1, <1>2, <1>3 DEF CountingInv, Init

\* A thread that has told its client something and is done.
LEMMA CountingFinish ==
  ASSUME CountingInv, TypeInv', NEW t \in Threads, NEW reply, reply # NotFound,
         Tell(t, reply), Finish(t), UNCHANGED <<heap, fault>>
  PROVE  CountingInv'
<1>1. Frame(t) /\ pc'[t] = "idle"
  BY FinishTyped DEF CountingInv
<1>2. answer'[t] = reply /\ \A u \in Threads \ {t} : answer'[u] = answer[u]
  BY DEF Tell, CountingInv, TypeInv, TypeOK
<1> QED BY <1>1, <1>2, CountingReturns

LEMMA SendCounting ==
  ASSUME OnlyCounting, CountingInv, TypeInv', NEW t \in Threads, NEW r \in May[t], Send(t, r)
  PROVE  CountingInv'
<1>1. r.cmd \in {"GET", "ADD", "INC", "DEC", "STT"}
  BY DEF OnlyCounting
<1>2. pc'[t] \in {"idle", "stt", "exists", "inc", "get"} /\ Frame(t)
  BY <1>1 DEF Send, Go, Frame, CountingInv, TypeInv, TypeOK
<1>3. answer'[t] = NULL /\ \A u \in Threads \ {t} : answer'[u] = answer[u]
  BY DEF Send, Tell, CountingInv, TypeInv, TypeOK
<1> QED BY <1>2, <1>3, CountingReturns DEF Send

\* GET, INC and DEC of a number that is there.
LEMMA GetCounting ==
  ASSUME OnlyCounting, CountingInv, TypeInv', NEW t \in Threads,
         GetFind(t) \/ GetType(t) \/ GetLength(t) \/ GetValue(t)
  PROVE  CountingInv'
<1> DEFINE s == Index(t)
           p == slot[s]
           Same == \A u \in Threads \ {t} : answer'[u] = answer[u]
<1>0. /\ pc[t] \in GetLabels /\ TypeInv /\ ~ fault /\ Counting(t)
      /\ Command(t) \in {"GET", "ADD", "INC", "DEC"}
      /\ Number(s) /\ p # NULL /\ p \in Cells
  <2>1. pc[t] \in GetLabels
    BY DEF GetFind, GetType, GetLength, GetValue, At, GetLabels
  <2> QED BY <2>1, CountingAt, AtSlot DEF CountingInv, GetLabels
<1>1. /\ ReadsAs(p, cell[p].type) /\ IsCell(p)
      /\ cell[p].type \in Types /\ cell[p].type # Junk /\ cell[p].type # CACHE_VALUE_STRING
      /\ block[cell[p].block].val \in Texts
  <2>1. ReadsAs(p, cell[p].type) /\ cell[p].type \in {CACHE_VALUE_DECIMAL, CACHE_VALUE_REAL}
    BY <1>0 DEF Number
  <2>2. cell[p].type \in Types /\ cell[p].type # CACHE_VALUE_STRING
    BY <2>1 DEF Types, CACHE_VALUE_DECIMAL, CACHE_VALUE_REAL, CACHE_VALUE_STRING
  <2>3. block[cell[p].block].val \in Texts
    BY <1>0, <2>1 DEF ReadsAs, IsBlock, TypeInv, TypeOK
  <2> QED BY <2>1, <2>2, <2>3, MemoryAssumption DEF ReadsAs
<1>2. CASE GetFind(t)
  <2>1. Load(t, "cell", p) /\ Go(t, "get_type") /\ UNCHANGED <<heap, session, fault>>
    BY <1>0, <1>2 DEF GetFind
  <2>2. reg'[t]["cell"] = p /\ reg' \in [Threads -> Registers]
        /\ \A u \in Threads \ {t} : reg'[u] = reg[u]
    BY <1>0, <2>1, LoadTyped
  <2>3. Frame(t) /\ pc'[t] = "get_type" /\ pending'[t] = pending[t]
    BY <1>0, <2>1, <2>2, GoTyped DEF Labels, session
  <2>4. Counting(t)'
    BY <1>0, <2>1, <2>2, <2>3 DEF Counting, Index, heap, session, GetLabels
  <2> QED BY <2>1, <2>3, <2>4, CountingStep DEF heap, session
<1>3. CASE GetType(t)
  <2>0. reg[t].cell = p
    BY <1>0, <1>3 DEF GetType, At, Counting
  <2>1. Load(t, "type", cell[p].type) /\ Go(t, "get_length") /\ UNCHANGED <<heap, session, fault>>
    BY <1>1, <1>3, <2>0 DEF GetType, Checked
  <2>2. reg'[t]["cell"] = p /\ reg'[t]["type"] = cell[p].type /\ reg' \in [Threads -> Registers]
        /\ \A u \in Threads \ {t} : reg'[u] = reg[u]
    BY <1>0, <1>1, <2>0, <2>1, LoadTyped
  <2>3. Frame(t) /\ pc'[t] = "get_length" /\ pending'[t] = pending[t]
    BY <1>0, <2>1, <2>2, GoTyped DEF Labels, session
  <2>4. Counting(t)'
    BY <1>0, <2>1, <2>2, <2>3 DEF Counting, Index, heap, session, GetLabels
  <2> QED BY <2>1, <2>3, <2>4, CountingStep DEF heap, session
<1>4. CASE GetLength(t)
  <2>0. reg[t].cell = p /\ reg[t].type = cell[p].type
    BY <1>0, <1>4 DEF GetLength, At, Counting
  <2>1. /\ Load(t, "num", block[cell[p].block].val) /\ Go(t, "get_value")
        /\ UNCHANGED <<heap, session, fault>>
    BY <1>1, <1>4, <2>0 DEF GetLength, Checked
  <2>2. /\ reg'[t]["cell"] = p /\ reg'[t]["type"] = cell[p].type
        /\ reg' \in [Threads -> Registers] /\ \A u \in Threads \ {t} : reg'[u] = reg[u]
    BY <1>0, <1>1, <2>0, <2>1, LoadTyped
  <2>3. Frame(t) /\ pc'[t] = "get_value" /\ pending'[t] = pending[t]
    BY <1>0, <2>1, <2>2, GoTyped DEF Labels, session
  <2>4. Counting(t)'
    BY <1>0, <2>1, <2>2, <2>3 DEF Counting, Index, heap, session, GetLabels
  <2> QED BY <2>1, <2>3, <2>4, CountingStep DEF heap, session
<1>5. CASE GetValue(t)
  <2>0. reg[t].cell = p /\ reg[t].type = cell[p].type
    BY <1>0, <1>5 DEF GetValue, At, Counting
  <2>1. /\ Tell(t, Ok([type |-> cell[p].type, val |-> block[cell[p].block].val]))
        /\ Finish(t) /\ UNCHANGED <<heap, fault>>
    BY <1>0, <1>1, <1>5, <2>0 DEF GetValue, Checked, Answered
  <2>2. Ok([type |-> cell[p].type, val |-> block[cell[p].block].val]) # NotFound
    BY DEF Ok, NotFound
  <2> QED BY <2>1, <2>2, CountingFinish
<1> QED BY <1>2, <1>3, <1>4, <1>5

LEMMA IncCounting ==
  ASSUME OnlyCounting, CountingInv, TypeInv', NEW t \in Threads,
         IncFind(t) \/ IncType(t) \/ IncLoad(t)
  PROVE  CountingInv'
<1> DEFINE s == Index(t)
           p == slot[s]
           b == cell[p].block
<1>0. /\ pc[t] \in IncLabels /\ TypeInv /\ ~ fault /\ Counting(t)
      /\ Number(s) /\ p # NULL /\ p \in Cells
  <2>1. pc[t] \in IncLabels
    BY DEF IncFind, IncType, IncLoad, At, IncLabels
  <2> QED BY <2>1, CountingAt, AtSlot DEF CountingInv, IncLabels
<1>1. /\ IsCell(p) /\ IsBlock(b) /\ block[b].type = cell[p].type
      /\ cell[p].type \in Types /\ cell[p].type # Junk /\ cell[p].type # CACHE_VALUE_STRING
      /\ block[b].val \in Texts /\ block[b].val # Junk
  <2>1. ReadsAs(p, cell[p].type) /\ cell[p].type \in {CACHE_VALUE_DECIMAL, CACHE_VALUE_REAL}
    BY <1>0 DEF Number
  <2>2. cell[p].type \in Types /\ cell[p].type # CACHE_VALUE_STRING
    BY <2>1 DEF Types, CACHE_VALUE_DECIMAL, CACHE_VALUE_REAL, CACHE_VALUE_STRING
  <2>3. block[b].val \in Texts
    BY <1>0, <2>1 DEF ReadsAs, IsBlock, TypeInv, TypeOK
  <2> QED BY <2>1, <2>2, <2>3, MemoryAssumption DEF ReadsAs
<1>2. CASE IncFind(t)
  <2>1. Load(t, "cell", p) /\ Go(t, "inc_type") /\ UNCHANGED <<heap, session, fault>>
    BY <1>0, <1>2 DEF IncFind
  <2>2. reg'[t]["cell"] = p /\ reg' \in [Threads -> Registers]
        /\ \A u \in Threads \ {t} : reg'[u] = reg[u]
    BY <1>0, <2>1, LoadTyped
  <2>3. Frame(t) /\ pc'[t] = "inc_type" /\ pending'[t] = pending[t]
    BY <1>0, <2>1, <2>2, GoTyped DEF Labels, session
  <2>4. Counting(t)'
    BY <1>0, <2>1, <2>2, <2>3 DEF Counting, Index, heap, session, GetLabels
  <2> QED BY <2>1, <2>3, <2>4, CountingStep DEF heap, session
<1>3. CASE IncType(t)
  <2> DEFINE loaded == [reg[t] EXCEPT !.type = cell[p].type, !.block = b]
  <2>0. reg[t].cell = p /\ reg[t] \in Registers /\ reg \in [Threads -> Registers]
    BY <1>0, <1>3 DEF IncType, At, Counting, TypeInv, TypeOK
  <2>1. reg' = [reg EXCEPT ![t] = loaded] /\ Go(t, "inc_load") /\ UNCHANGED <<heap, session, fault>>
    BY <1>1, <1>3, <2>0 DEF IncType, Checked
  <2>2. loaded \in Registers /\ loaded.cell = p /\ loaded.type = cell[p].type /\ loaded.block = b
    BY <1>1, <2>0 DEF Registers, IsBlock
  <2> HIDE DEF loaded
  <2>3. /\ reg'[t] = loaded /\ reg' \in [Threads -> Registers]
        /\ \A u \in Threads \ {t} : reg'[u] = reg[u]
    BY <2>0, <2>1, <2>2
  <2>4. Frame(t) /\ pc'[t] = "inc_load" /\ pending'[t] = pending[t]
    BY <1>0, <2>1, <2>3, GoTyped DEF Labels, session
  <2>5. Counting(t)'
    BY <1>0, <2>1, <2>2, <2>3, <2>4 DEF Counting, Index, heap, session, GetLabels
  <2> QED BY <2>1, <2>4, <2>5, CountingStep DEF heap, session
<1>4. CASE IncLoad(t)
  <2>0. reg[t].cell = p /\ reg[t].type = cell[p].type /\ reg[t].block = b
    BY <1>0, <1>4 DEF IncLoad, At, Counting
  <2>1. Load(t, "num", block[b].val) /\ Go(t, "inc_store") /\ UNCHANGED <<heap, session, fault>>
    BY <1>1, <1>4, <2>0 DEF IncLoad, Checked
  <2>2. /\ reg'[t]["cell"] = p /\ reg'[t]["type"] = cell[p].type /\ reg'[t]["block"] = b
        /\ reg' \in [Threads -> Registers] /\ \A u \in Threads \ {t} : reg'[u] = reg[u]
    BY <1>0, <1>1, <2>0, <2>1, LoadTyped
  <2>3. Frame(t) /\ pc'[t] = "inc_store" /\ pending'[t] = pending[t]
    BY <1>0, <2>1, <2>2, GoTyped DEF Labels, session
  <2>4. Counting(t)'
    BY <1>0, <2>1, <2>2, <2>3 DEF Counting, Index, heap, session, GetLabels
  <2> QED BY <2>1, <2>3, <2>4, CountingStep DEF heap, session
<1> QED BY <1>2, <1>3, <1>4

\* What is stored back is a number of the same type.
LEMMA IncStoreCounting ==
  ASSUME OnlyCounting, CountingInv, TypeInv', NEW t \in Threads, IncStore(t)
  PROVE  CountingInv'
<1> DEFINE p == slot[Index(t)]
           b == cell[p].block
           old == [type |-> reg[t].type, val |-> reg[t].num]
           new == Shifted(old, Change(pending[t])).val
<1>0. /\ pc[t] = "inc_store" /\ TypeInv /\ Counting(t) /\ Number(Index(t))
      /\ pending[t] \in May[t] /\ Command(t) \in {"INC", "DEC"}
      /\ reg[t].type # CACHE_VALUE_STRING /\ reg[t].num \in Int
      /\ reg[t].type = cell[p].type /\ reg[t].block = b
  <2>1. pc[t] = "inc_store" /\ TypeInv
    BY DEF IncStore, At, CountingInv
  <2>2. Counting(t) /\ Handling(t) /\ Holding(t) /\ Number(Index(t))
    BY <2>1, CountingAt DEF CountingInv, TypeInv
  <2> QED BY <2>1, <2>2 DEF Counting, Handling, Holding, IncLabels
<1>1. IsBlock(b) /\ block[b].type = old.type
  BY <1>0 DEF Number, ReadsAs
<1>2. new \in Int
  <2>1. old \in Value /\ IsNumber(old)
    BY <1>0 DEF TypeInv, TypeOK, Registers, Types, Value, IsNumber
  <2>2. Change(pending[t]) \in Int
    BY <1>0, MayRequest DEF Command
  <2> QED BY <2>1, <2>2, ShiftedIsWhole DEF Value, IsNumber
<1>3. /\ block' = [block EXCEPT ![b].val = new] /\ Return(t, "get")
      /\ UNCHANGED <<slot, cell, count, session, fault>>
  BY <1>0, <1>1 DEF IncStore, Checked
<1>4. new # Junk
  BY <1>2, MemoryAssumption DEF Texts
<1>5. \A c \in Blocks : /\ block'[c].live = block[c].live /\ block'[c].type = block[c].type
                        /\ block[c].val # Junk => block'[c].val # Junk
  BY <1>0, <1>1, <1>3, <1>4 DEF IsBlock, TypeInv, TypeOK
<1>6. Frame(t) /\ pc'[t] = "get"
  BY <1>0, <1>3, ReturnTyped DEF Labels, session
<1>7. Counting(t)'
  BY <1>0, <1>3, <1>6 DEF Counting, session, GetLabels
<1> QED BY <1>3, <1>5, <1>6, <1>7, CountingStep DEF session

LEMMA NextCounting ==
  ASSUME OnlyCounting
  PROVE  CountingInv /\ [Next]_vars => CountingInv'
<1> SUFFICES ASSUME CountingInv, [Next]_vars PROVE CountingInv'
  OBVIOUS
<1>1. TypeInv'
  BY NextTypeInv DEF CountingInv
<1>2. ASSUME NEW t \in Threads, Step(t) PROVE CountingInv'
  <2>1. pc[t] \in {"idle", "stt", "exists", "inc", "inc_type", "inc_load", "inc_store"} \cup GetLabels
    BY DEF CountingInv, Counting
  <2>2. CASE Stt(t)
    <3>1. Ok([keys |-> count]) # NotFound
      BY DEF Ok, NotFound
    <3> QED BY <1>1, <2>2, <3>1, CountingFinish DEF Stt
  <2>3. CASE AddExists(t)
    <3>1. slot[Index(t)] # NULL
      BY <2>3, CountingAt DEF AddExists, At
    <3>2. Tell(t, KeyExists) /\ Finish(t) /\ KeyExists # NotFound
      BY <2>3, <3>1 DEF AddExists, KeyExists, NotFound
    <3> QED BY <1>1, <2>3, <3>2, CountingFinish DEF AddExists
  <2>4. CASE GetFind(t) \/ GetType(t) \/ GetLength(t) \/ GetValue(t)
    BY <1>1, <2>4, GetCounting
  <2>5. CASE IncFind(t) \/ IncType(t) \/ IncLoad(t) \/ IncStore(t)
    BY <1>1, <2>5, IncCounting, IncStoreCounting
  <2>6. ~ \/ DelFind(t) \/ DelFreeValue(t) \/ DelFreeCell(t) \/ DelUnlink(t)
          \/ DelCountLoad(t) \/ DelCountStore(t)
    BY <2>1 DEF DelFind, DelFreeValue, DelFreeCell, DelUnlink, DelCountLoad, DelCountStore,
               At, GetLabels
  <2>7. ~ \/ SetFind(t) \/ SetAlloc(t) \/ SetNull(t) \/ SetCountLoad(t) \/ SetCountStore(t)
          \/ SetFields(t) \/ SetFreeOld(t) \/ SetBlock(t) \/ SetValue(t)
    BY <2>1 DEF SetFind, SetAlloc, SetNull, SetCountLoad, SetCountStore, SetFields,
               SetFreeOld, SetBlock, SetValue, At, GetLabels
  <2> QED BY <1>2, <2>2, <2>3, <2>4, <2>5, <2>6, <2>7 DEF Step
<1>3. ASSUME NEW t \in Threads, NEW r \in May[t], Send(t, r) PROVE CountingInv'
  BY <1>1, <1>3, SendCounting
<1>4. CASE UNCHANGED vars
  BY <1>1, <1>4 DEF vars, heap, session, CountingInv, Counting, Number, ReadsAs, IsCell, IsBlock,
                    Index
<1> QED BY <1>2, <1>3, <1>4 DEF Next

LEMMA CountingInvariance == OnlyCounting => (Spec => []CountingInv)
<1> SUFFICES ASSUME OnlyCounting PROVE Spec => []CountingInv
  OBVIOUS
<1> QED BY CountingInit, NextCounting, PTL DEF Spec

\* However many threads look at numbers and count with them, on whatever keys
\* they share, no step of theirs does anything undefined: INC and DEC lose
\* updates, but never the cell.
THEOREM CountersNoFault == OnlyCounting => (Spec => []NoFault)
<1>1. CountingInv => NoFault
  BY DEF CountingInv, NoFault
<1> QED BY <1>1, CountingInvariance, PTL

\* Nor does one of them find its key missing.
THEOREM CountersNeverMissing == OnlyCounting => (Spec => []NeverMissing)
<1>1. CountingInv => NeverMissing
  BY DEF CountingInv, Counting, NeverMissing
<1> QED BY <1>1, CountingInvariance, PTL

-----------------------------------------------------------------------------
(***************************************************************************)
(* One thread that changes the table, and others that look.                *)
(***************************************************************************)
\* Thread t may be sent more than GET and STT.
Writing(t) == \E r \in May[t] : r.cmd \notin {"GET", "STT"}

OneWriter == \A t, u \in Threads : Writing(t) /\ Writing(u) => t = u

WriteLabels == {"exists"} \cup DelLabels \cup IncLabels \cup SetLabels

\* The slots that have a cell.
Taken == {s \in Slots : slot[s] # NULL}

\* How far table->count is from their number, in the middle of a command.
Owed(t) ==
  IF pc[t] \in {"del_load", "del_store"} THEN 1
    ELSE IF pc[t] \in {"set_null", "set_load", "set_store"} THEN -1 ELSE 0

\* What the writing thread knows of the table.
Tally(t) ==
  /\ count = Cardinality(Taken) + Owed(t)
  /\ pc[t] \in {"del_store", "set_store"} => reg[t].num = count
  /\ pc[t] \in {"del_value", "del_cell", "del_unlink"} =>
       slot[Index(t)] # NULL /\ reg[t].cell = slot[Index(t)]
  /\ pc[t] = "set_alloc" => slot[Index(t)] = NULL
  /\ \A s \in Taken : cell[slot[s]].live \/ (pc[t] = "del_unlink" /\ s = Index(t))

WriterInv ==
  /\ TypeInv
  /\ \A i, j \in Taken : slot[i] = slot[j] => i = j
  /\ \A t \in Threads : Writing(t) => Tally(t)
  /\ (\A t \in Threads : ~ Writing(t)) => count = Cardinality(Taken)

\* Only the writing thread is where the table is changed.
LEMMA WriterAt ==
  ASSUME OneWriter, TypeInv, NEW t \in Threads, pc[t] \in WriteLabels
  PROVE  /\ Writing(t)
         /\ \A u \in Threads : Writing(u) => u = t
<1>1. pending[t] \in May[t] /\ pc[t] \notin {"idle", "stt"}
  BY AtSlot DEF WriteLabels, DelLabels, IncLabels, SetLabels
<1>2. Command(t) \in {"SET", "ADD", "DEL", "INC", "DEC"}
  BY DEF TypeInv, Handling, WriteLabels
<1> QED BY <1>1, <1>2 DEF Writing, OneWriter, Command

\* A step that leaves the table its cells.
LEMMA TallyStep ==
  ASSUME OneWriter, WriterInv, TypeInv', NEW t \in Threads, Frame(t),
         slot' = slot, count' = count, \A c \in Cells : cell'[c].live = cell[c].live,
         Writing(t) => Tally(t)'
  PROVE  WriterInv'
<1>1. Taken' = Taken
  BY DEF Taken
<1>2. ASSUME NEW u \in Threads \ {t}, Writing(u) PROVE Tally(u)'
  <2>1. \A s \in Taken : slot[s] \in Cells
    BY DEF Taken, WriterInv, TypeInv, TypeOK
  <2>2. Tally(u) /\ Index(u)' = Index(u) /\ Owed(u)' = Owed(u)
    BY <1>2 DEF WriterInv, Frame, Index, Owed
  <2> QED BY <1>1, <2>1, <2>2 DEF Tally, Frame
<1>3. \A u \in Threads : Writing(u)' <=> Writing(u)
  BY DEF Writing
<1> QED BY <1>1, <1>2, <1>3 DEF WriterInv

\* One that is not at a place where the thread's variables tell of the table.
TellLabels == {"del_value", "del_cell", "del_unlink", "del_load", "del_store",
               "set_alloc", "set_null", "set_load", "set_store"}

LEMMA PlainTally ==
  ASSUME OneWriter, WriterInv, TypeInv', NEW t \in Threads, Frame(t),
         slot' = slot, count' = count, \A c \in Cells : cell'[c].live = cell[c].live,
         pc[t] \notin TellLabels, pc'[t] \notin TellLabels
  PROVE  WriterInv'
<1>1. ASSUME Writing(t) PROVE Tally(t)'
  <2>1. Tally(t) /\ Taken' = Taken /\ Owed(t) = 0 /\ Owed(t)' = 0
    BY <1>1 DEF WriterInv, Taken, Owed, TellLabels
  <2>2. \A s \in Taken : slot[s] \in Cells
    BY DEF Taken, WriterInv, TypeInv, TypeOK
  <2> QED BY <2>1, <2>2 DEF Tally, TellLabels
<1> QED BY <1>1, TallyStep

\* The steps that read, and those of INC, DEC and SET on a cell that stays.
LEMMA LookTally ==
  ASSUME OneWriter, WriterInv, TypeInv', NEW t \in Threads,
         \/ Stt(t) \/ AddExists(t)
         \/ GetFind(t) \/ GetType(t) \/ GetLength(t) \/ GetValue(t)
         \/ IncFind(t) \/ IncType(t) \/ IncLoad(t) \/ IncStore(t)
         \/ SetFields(t) \/ SetFreeOld(t) \/ SetBlock(t) \/ SetValue(t),
         ~ fault'
  PROVE  WriterInv'
<1>1. TypeInv /\ pc[t] \notin TellLabels
  BY DEF Stt, AddExists, GetFind, GetType, GetLength, GetValue, IncFind, IncType, IncLoad,
         IncStore, SetFields, SetFreeOld, SetBlock, SetValue, At, WriterInv, TellLabels
<1>2. slot' = slot /\ count' = count /\ \A c \in Cells : cell'[c].live = cell[c].live
  <2>1. CASE \/ Stt(t) \/ AddExists(t)
             \/ GetFind(t) \/ GetType(t) \/ GetLength(t) \/ GetValue(t)
             \/ IncFind(t) \/ IncType(t) \/ IncLoad(t) \/ IncStore(t)
             \/ SetFreeOld(t) \/ SetValue(t)
    BY <2>1 DEF Stt, AddExists, GetFind, GetType, GetLength, GetValue, IncFind, IncType,
                IncLoad, IncStore, SetFreeOld, SetValue, Checked, heap
  <2>2. CASE SetFields(t)
    BY <1>1, <2>2 DEF SetFields, Checked, IsCell, TypeInv, TypeOK
  <2>3. CASE SetBlock(t)
    <3>1. PICK p \in Cells, b \in Blocks :
            slot' = slot /\ count' = count /\ cell' = [cell EXCEPT ![p].block = b]
      BY <2>3 DEF SetBlock, Checked, IsCell
    <3> QED BY <1>1, <3>1 DEF TypeInv, TypeOK
  <2> QED BY <2>1, <2>2, <2>3
<1>3. Frame(t) /\ pc'[t] \notin TellLabels
  <2>1. CASE Stt(t)
    BY <1>1, <2>1, Moves DEF Stt, TellLabels
  <2>2. CASE AddExists(t)
    <3>1. (Return(t, "del") /\ UNCHANGED session) \/ Finish(t)
      BY <2>2 DEF AddExists
    <3> QED BY <1>1, <3>1, Moves DEF session, Labels, TellLabels
  <2>3. CASE GetFind(t) \/ GetType(t) \/ GetLength(t) \/ GetValue(t)
    <3>1. \/ Answered(t)
          \/ /\ Go(t, "get_type") \/ Go(t, "get_length") \/ Go(t, "get_value")
             /\ UNCHANGED session
             /\ reg' = reg \/ \E field, v : Load(t, field, v)
      BY <2>3 DEF GetFind, GetType, GetLength, GetValue, Checked
    <3>2. CASE Answered(t)
      BY <1>1, <3>2, AnsweredMoves DEF TellLabels
    <3>3. CASE /\ Go(t, "get_type") \/ Go(t, "get_length") \/ Go(t, "get_value")
               /\ UNCHANGED session
               /\ reg' = reg \/ \E field, v : Load(t, field, v)
      BY <1>1, <3>3 DEF Go, Load, Frame, session, TypeInv, TypeOK, TellLabels
    <3> QED BY <3>1, <3>2, <3>3
  <2>4. CASE IncFind(t) \/ IncType(t) \/ IncLoad(t) \/ IncStore(t)
    BY <1>1, <2>4 DEF IncFind, IncType, IncLoad, IncStore, Checked, Go, Return, Load, Frame,
                      session, TypeInv, TypeOK, TellLabels
  <2>5. CASE SetFields(t) \/ SetFreeOld(t) \/ SetBlock(t)
    BY <1>1, <2>5 DEF SetFields, SetFreeOld, SetBlock, Checked, Go, Frame, session, TypeInv,
                      TypeOK, TellLabels
  <2>6. CASE SetValue(t)
    <3>1. (Return(t, "get") /\ UNCHANGED session) \/ Finish(t)
      BY <2>6 DEF SetValue, Checked
    <3> QED BY <1>1, <3>1, Moves DEF session, Labels, TellLabels
  <2> QED BY <2>1, <2>2, <2>3, <2>4, <2>5, <2>6
<1> QED BY <1>1, <1>2, <1>3, PlainTally

LEMMA TakenFinite ==
  ASSUME TypeInv
  PROVE  Taken \in SUBSET Slots /\ IsFiniteSet(Taken) /\ Cardinality(Taken) \in Nat
<1>1. Taken \in SUBSET Slots
  BY DEF Taken
<1> QED BY <1>1, HashAssumption, FS_Subset, FS_CardinalityType

\* The steps of the writing thread that change what its variables tell.
LEMMA WriterStep ==
  ASSUME OneWriter, WriterInv, TypeInv', NEW t \in Threads, Frame(t), pc[t] \in WriteLabels,
         \A i, j \in Taken' : slot'[i] = slot'[j] => i = j, Tally(t)'
  PROVE  WriterInv'
<1>1. Writing(t) /\ \A u \in Threads : Writing(u) => u = t
  BY WriterAt DEF WriterInv
<1>2. \A u \in Threads : Writing(u)' <=> Writing(u)
  BY DEF Writing
<1> QED BY <1>1, <1>2 DEF WriterInv

LEMMA TellsOf ==
  ASSUME OneWriter, WriterInv, NEW t \in Threads, pc[t] \in WriteLabels
  PROVE  /\ Tally(t) /\ TypeInv
         /\ Index(t) \in Slots
         /\ \A s \in Taken : s \in Slots /\ slot[s] # NULL /\ slot[s] \in Cells
         /\ \A i, j \in Taken : slot[i] = slot[j] => i = j
<1>1. Writing(t)
  BY WriterAt DEF WriterInv
<1>2. Index(t) \in Slots
  BY AtSlot DEF WriterInv, WriteLabels, DelLabels, IncLabels, SetLabels
<1> QED BY <1>1, <1>2 DEF WriterInv, Taken, TypeInv, TypeOK

LEMMA DelFindTally ==
  ASSUME OneWriter, WriterInv, TypeInv', NEW t \in Threads, DelFind(t)
  PROVE  WriterInv'
<1>0. pc[t] = "del" /\ pc[t] \in WriteLabels /\ pc[t] \notin TellLabels
  BY DEF DelFind, At, WriteLabels, DelLabels, TellLabels
<1>1. slot' = slot /\ count' = count /\ cell' = cell
  BY DEF DelFind, heap
<1>2. Tally(t) /\ TypeInv /\ Index(t) \in Slots
  BY <1>0, TellsOf
<1>3. CASE slot[Index(t)] = NULL
  <2>1. Frame(t) /\ pc'[t] \notin TellLabels
    BY <1>2, <1>3, DeletedMoves DEF DelFind, TellLabels
  <2> QED BY <1>0, <1>1, <2>1, PlainTally
<1>4. CASE slot[Index(t)] # NULL
  <2>1. Frame(t) /\ pc'[t] = "del_value" /\ pending'[t] = pending[t]
        /\ reg'[t].cell = slot[Index(t)]
    BY <1>2, <1>4, Moves DEF DelFind, session, Labels, TypeInv, TypeOK
  <2>2. Taken' = Taken /\ Index(t)' = Index(t) /\ Owed(t) = 0 /\ Owed(t)' = 0
    BY <1>0, <1>1, <2>1 DEF Taken, Index, Owed
  <2>3. Tally(t)'
    BY <1>0, <1>1, <1>2, <1>4, <2>1, <2>2 DEF Tally
  <2> QED BY <1>1, <2>1, <2>3, TallyStep
<1> QED BY <1>3, <1>4

\* The counter is read.
LEMMA CountLoadTally ==
  ASSUME OneWriter, WriterInv, TypeInv', NEW t \in Threads, DelCountLoad(t) \/ SetCountLoad(t)
  PROVE  WriterInv'
<1> DEFINE del == pc[t] = "del_load"
<1>0. pc[t] \in {"del_load", "set_load"} /\ pc[t] \in WriteLabels
  BY DEF DelCountLoad, SetCountLoad, At, WriteLabels, DelLabels, SetLabels
<1>1. slot' = slot /\ count' = count /\ cell' = cell /\ UNCHANGED pending /\ Load(t, "num", count)
  BY DEF DelCountLoad, SetCountLoad, heap, session
<1>2. Tally(t) /\ TypeInv /\ count \in Texts
  BY <1>0, TellsOf DEF TypeInv, TypeOK, Texts
<1>3. /\ Frame(t) /\ pending'[t] = pending[t] /\ reg'[t].num = count
      /\ pc'[t] = IF del THEN "del_store" ELSE "set_store"
  BY <1>1, <1>2, Moves DEF DelCountLoad, SetCountLoad, At, Labels
<1>4. Taken' = Taken /\ Index(t)' = Index(t) /\ Owed(t)' = Owed(t)
  BY <1>0, <1>1, <1>3 DEF Taken, Index, Owed
<1>5. Tally(t)'
  BY <1>0, <1>1, <1>2, <1>3, <1>4 DEF Tally
<1> QED BY <1>1, <1>3, <1>5, TallyStep

\* hash_table_del frees the cell, then takes it out.
LEMMA DelFreeTally ==
  ASSUME OneWriter, WriterInv, TypeInv', NEW t \in Threads,
         DelFreeValue(t) \/ DelFreeCell(t), UNCHANGED fault
  PROVE  WriterInv'
<1> DEFINE i == Index(t)
<1>0. pc[t] \in {"del_value", "del_cell"} /\ pc[t] \in WriteLabels /\ ~ fault'
  BY DEF DelFreeValue, DelFreeCell, At, WriteLabels, DelLabels
<1>1. /\ Tally(t) /\ TypeInv /\ i \in Slots
      /\ slot[i] # NULL /\ reg[t].cell = slot[i] /\ i \in Taken
  BY <1>0, TellsOf DEF Tally, Taken
<1>2. UNCHANGED <<slot, count, reg, pending>>
  BY <1>0 DEF DelFreeValue, DelFreeCell, Checked, session
<1>3. CASE DelFreeValue(t)
  <2>1. cell' = cell /\ Go(t, "del_cell")
    BY <1>0, <1>3 DEF DelFreeValue, Checked
  <2>2. Frame(t) /\ pc'[t] = "del_cell" /\ pending'[t] = pending[t] /\ reg'[t] = reg[t]
    BY <1>1, <1>2, <2>1, Moves DEF Labels
  <2>3. Taken' = Taken /\ i' = i /\ Owed(t)' = Owed(t)
    BY <1>0, <1>2, <2>2 DEF Taken, Index, Owed
  <2>4. Tally(t)'
    BY <1>0, <1>1, <1>2, <2>1, <2>2, <2>3 DEF Tally
  <2> QED BY <1>2, <2>1, <2>2, <2>4, TallyStep
<1>4. CASE DelFreeCell(t)
  <2>1. /\ cell' = [cell EXCEPT ![slot[i]] = [live |-> FALSE, type |-> Junk, block |-> Junk]]
        /\ Go(t, "del_unlink")
    BY <1>0, <1>1, <1>4 DEF DelFreeCell, Checked
  <2>2. Frame(t) /\ pc'[t] = "del_unlink" /\ pending'[t] = pending[t] /\ reg'[t] = reg[t]
    BY <1>1, <1>2, <2>1, Moves DEF Labels
  <2>3. Taken' = Taken /\ i' = i /\ Owed(t)' = Owed(t)
    BY <1>0, <1>2, <1>4, <2>2 DEF Taken, Index, Owed, DelFreeCell, At
  <2>4. ASSUME NEW s \in Taken, s # i PROVE cell'[slot[s]].live
    <3>1. slot[s] # slot[i] /\ cell[slot[s]].live
      BY <1>0, <1>1, <1>4, <2>4, TellsOf DEF Tally, DelFreeCell, At
    <3>2. slot[s] \in Cells
      BY <1>0, <2>4, TellsOf
    <3> QED BY <1>1, <2>1, <3>1, <3>2 DEF TypeInv, TypeOK
  <2>5. Tally(t)'
    BY <1>0, <1>1, <1>2, <2>2, <2>3, <2>4 DEF Tally
  <2>6. \A m, n \in Taken' : slot'[m] = slot'[n] => m = n
    BY <1>0, <1>2, <2>3, TellsOf
  <2> QED BY <1>0, <2>2, <2>5, <2>6, WriterStep
<1> QED BY <1>3, <1>4

LEMMA DelUnlinkTally ==
  ASSUME OneWriter, WriterInv, TypeInv', NEW t \in Threads, DelUnlink(t)
  PROVE  WriterInv'
<1> DEFINE i == Index(t)
<1>0. pc[t] = "del_unlink" /\ pc[t] \in WriteLabels
  BY DEF DelUnlink, At, WriteLabels, DelLabels
<1>1. Tally(t) /\ TypeInv /\ i \in Slots /\ slot[i] # NULL /\ i \in Taken
  BY <1>0, TellsOf DEF Tally, Taken
<1>2. /\ slot' = [slot EXCEPT ![i] = NULL] /\ Go(t, "del_load")
      /\ UNCHANGED <<cell, count, reg, pending>>
  BY DEF DelUnlink, session
<1>3. Frame(t) /\ pc'[t] = "del_load" /\ pending'[t] = pending[t] /\ reg'[t] = reg[t]
  BY <1>1, <1>2, Moves DEF Labels
<1>4. Taken' = Taken \ {i}
  BY <1>1, <1>2 DEF Taken, TypeInv, TypeOK
<1>5. Cardinality(Taken') = Cardinality(Taken) - 1
  BY <1>1, <1>4, TakenFinite, FS_RemoveElement
<1>6. Owed(t) = 0 /\ Owed(t)' = 1 /\ Cardinality(Taken) \in Nat
  BY <1>0, <1>1, <1>3, TakenFinite DEF Owed
<1>7. \A s \in Taken' : slot'[s] = slot[s] /\ cell[slot[s]].live
  BY <1>0, <1>1, <1>2, <1>4, TellsOf DEF Tally, TypeInv, TypeOK
<1>8. Tally(t)'
  <2>1. count' = Cardinality(Taken') + Owed(t)'
    BY <1>1, <1>2, <1>5, <1>6 DEF Tally
  <2> QED BY <1>2, <1>3, <1>7, <2>1 DEF Tally
<1>9. \A m, n \in Taken' : slot'[m] = slot'[n] => m = n
  BY <1>0, <1>4, <1>7, TellsOf
<1> QED BY <1>0, <1>3, <1>8, <1>9, WriterStep

\* The counter is written.
LEMMA CountStoreTally ==
  ASSUME OneWriter, WriterInv, TypeInv', NEW t \in Threads, DelCountStore(t) \/ SetCountStore(t)
  PROVE  WriterInv'
<1>0. pc[t] \in {"del_store", "set_store"} /\ pc[t] \in WriteLabels
  BY DEF DelCountStore, SetCountStore, At, WriteLabels, DelLabels, SetLabels
<1>1. Tally(t) /\ TypeInv /\ reg[t].num = count /\ Cardinality(Taken) \in Nat
  BY <1>0, TellsOf, TakenFinite DEF Tally
<1>2. /\ UNCHANGED <<slot, cell>>
      /\ count' = IF pc[t] = "del_store" THEN count - 1 ELSE count + 1
  BY <1>1 DEF DelCountStore, SetCountStore, At
<1>3. Frame(t) /\ pc'[t] \in {"idle", "set", "set_fields"}
  <2>1. CASE DelCountStore(t)
    BY <1>1, <2>1, DeletedMoves DEF DelCountStore
  <2>2. CASE SetCountStore(t)
    BY <1>1, <2>2, Moves DEF SetCountStore, session, Labels
  <2> QED BY <2>1, <2>2
<1>4. Taken' = Taken /\ Owed(t)' = 0
  BY <1>2, <1>3 DEF Taken, Owed
<1>5. count' = Cardinality(Taken') + Owed(t)'
  BY <1>0, <1>1, <1>2, <1>4 DEF Tally, Owed
<1>6. Tally(t)'
  BY <1>0, <1>1, <1>2, <1>3, <1>4, <1>5 DEF Tally
<1>7. \A m, n \in Taken' : slot'[m] = slot'[n] => m = n
  BY <1>0, <1>2, <1>4, TellsOf
<1> QED BY <1>0, <1>3, <1>6, <1>7, WriterStep

\* hash_table_set gives an empty slot a cell of its own.
LEMMA SetFindTally ==
  ASSUME OneWriter, WriterInv, TypeInv', NEW t \in Threads,
         SetFind(t) \/ SetNull(t), UNCHANGED fault
  PROVE  WriterInv'
<1>0. pc[t] \in {"set", "set_null"} /\ pc[t] \in WriteLabels /\ ~ fault'
  BY DEF SetFind, SetNull, At, WriteLabels, SetLabels
<1>1. Tally(t) /\ TypeInv /\ Index(t) \in Slots
  BY <1>0, TellsOf
<1>2. /\ UNCHANGED <<slot, count, reg, pending>>
      /\ Go(t, IF pc[t] = "set_null" THEN "set_load"
                 ELSE IF slot[Index(t)] = NULL THEN "set_alloc" ELSE "set_fields")
  BY <1>0 DEF SetFind, SetNull, Checked, heap, session, At
<1>3. /\ Frame(t) /\ pending'[t] = pending[t]
      /\ pc'[t] = IF pc[t] = "set_null" THEN "set_load"
                    ELSE IF slot[Index(t)] = NULL THEN "set_alloc" ELSE "set_fields"
  BY <1>1, <1>2, Moves DEF Labels
<1>4. \A c \in Cells : cell'[c].live = cell[c].live
  <2>1. CASE SetFind(t)
    BY <2>1 DEF SetFind, heap
  <2>2. CASE SetNull(t)
    <3>1. PICK p \in Cells : cell' = [cell EXCEPT ![p].block = NULL]
      BY <1>0, <2>2 DEF SetNull, Checked, IsCell
    <3> QED BY <1>1, <3>1 DEF TypeInv, TypeOK
  <2> QED BY <2>1, <2>2
<1>5. Taken' = Taken /\ Index(t)' = Index(t) /\ Owed(t)' = Owed(t)
  BY <1>0, <1>2, <1>3 DEF Taken, Index, Owed
<1>6. \A s \in Taken : cell'[slot[s]].live
  BY <1>0, <1>1, <1>4, TellsOf DEF Tally
<1>7. Tally(t)'
  BY <1>0, <1>1, <1>2, <1>3, <1>5, <1>6 DEF Tally
<1> QED BY <1>2, <1>3, <1>4, <1>7, TallyStep

LEMMA SetAllocTally ==
  ASSUME OneWriter, WriterInv, TypeInv', NEW t \in Threads, SetAlloc(t)
  PROVE  WriterInv'
<1> DEFINE i == Index(t)
<1>0. pc[t] = "set_alloc" /\ pc[t] \in WriteLabels
  BY DEF SetAlloc, At, WriteLabels, SetLabels
<1>1. Tally(t) /\ TypeInv /\ i \in Slots /\ slot[i] = NULL /\ i \notin Taken
  BY <1>0, TellsOf DEF Tally, Taken
<1>2. PICK p \in Cells :
        /\ ~ cell[p].live
        /\ cell' = [cell EXCEPT ![p] = [live |-> TRUE, type |-> Junk, block |-> Junk]]
        /\ slot' = [slot EXCEPT ![i] = p]
  BY DEF SetAlloc
<1>3. Go(t, "set_null") /\ UNCHANGED <<count, reg, pending>>
  BY DEF SetAlloc, session
<1>4. Frame(t) /\ pc'[t] = "set_null" /\ pending'[t] = pending[t] /\ reg'[t] = reg[t]
  BY <1>1, <1>3, Moves DEF Labels
<1>5. slot'[i] = p /\ p # NULL /\ \A s \in Slots \ {i} : slot'[s] = slot[s]
  BY <1>1, <1>2, MemoryAssumption DEF TypeInv, TypeOK
<1>6. Taken' = Taken \cup {i}
  BY <1>1, <1>5 DEF Taken
<1>7. Cardinality(Taken') = Cardinality(Taken) + 1 /\ Cardinality(Taken) \in Nat
  BY <1>1, <1>6, TakenFinite, FS_AddElement
<1>8. Owed(t) = 0 /\ Owed(t)' = -1
  BY <1>0, <1>4 DEF Owed
<1>9. \A s \in Taken : slot'[s] = slot[s] /\ cell[slot[s]].live /\ slot[s] # p
  BY <1>0, <1>1, <1>2, <1>5, TellsOf DEF Tally
<1>10. \A s \in Taken' : cell'[slot'[s]].live
  <2>1. cell'[p].live
    BY <1>1, <1>2 DEF TypeInv, TypeOK
  <2>2. \A s \in Taken : cell'[slot[s]].live
    BY <1>0, <1>1, <1>2, <1>9, TellsOf DEF TypeInv, TypeOK
  <2> QED BY <1>5, <1>6, <1>9, <2>1, <2>2
<1>11. Tally(t)'
  <2>1. count' = Cardinality(Taken') + Owed(t)'
    BY <1>1, <1>3, <1>7, <1>8 DEF Tally
  <2> QED BY <1>4, <1>10, <2>1 DEF Tally
<1>12. \A m, n \in Taken' : slot'[m] = slot'[n] => m = n
  BY <1>0, <1>5, <1>6, <1>9, TellsOf
<1> QED BY <1>0, <1>4, <1>11, <1>12, WriterStep

LEMMA SendTally ==
  ASSUME OneWriter, WriterInv, TypeInv', NEW t \in Threads, NEW r \in May[t], Send(t, r)
  PROVE  WriterInv'
<1>1. /\ pc[t] = "idle" /\ UNCHANGED <<slot, cell, count, reg>>
      /\ \A u \in Threads \ {t} : pc'[u] = pc[u] /\ pending'[u] = pending[u]
      /\ pc'[t] \in {"del", "exists", "get", "inc", "stt"}
  <2>1. r.cmd \in {"SET", "ADD", "INC", "DEC", "GET", "DEL", "STT"}
    BY MayRequest
  <2> QED BY <2>1 DEF Send, At, Go, heap, WriterInv, TypeInv, TypeOK
<1> QED BY <1>1, PlainTally DEF Frame, TellLabels

LEMMA WriterInit ==
  ASSUME OneWriter, Init
  PROVE  WriterInv
<1>1. PICK p \in [DOMAIN Preset -> Cells], b \in [DOMAIN Preset -> Blocks] :
        /\ \A i, j \in DOMAIN Preset : i # j => p[i] # p[j] /\ b[i] # b[j]
        /\ slot = [s \in Slots |-> IF s \in DOMAIN Preset THEN p[s] ELSE NULL]
        /\ \A s \in DOMAIN Preset :
             /\ cell[p[s]] = [live |-> TRUE, type |-> Preset[s].type, block |-> b[s]]
             /\ block[b[s]] = [live |-> TRUE, type |-> Preset[s].type, val |-> Preset[s].val]
        /\ \A c \in Cells : cell[c].live => \E s \in DOMAIN Preset : p[s] = c
        /\ \A c \in Blocks : block[c].live => \E s \in DOMAIN Preset : b[s] = c
  BY InitMemory
<1>2. Taken = DOMAIN Preset /\ \A s \in Taken : slot[s] = p[s]
  <2>1. \A s \in DOMAIN Preset : s \in Slots /\ p[s] \in Cells /\ p[s] # NULL
    BY PresetAssumption, MemoryAssumption
  <2>2. \A s \in Slots : slot[s] = IF s \in DOMAIN Preset THEN p[s] ELSE NULL
    BY <1>1
  <2> QED BY <2>1, <2>2 DEF Taken
<1>3. count = Cardinality(Taken) /\ TypeInv /\ Cardinality(Taken) \in Nat
  BY <1>2, TypeInit, TakenFinite DEF Init
<1>4. ASSUME NEW t \in Threads PROVE Tally(t)
  <2>1. pc[t] = "idle" /\ Owed(t) = 0
    BY DEF Init, Owed
  <2>2. ASSUME NEW s \in Taken PROVE cell[slot[s]].live
    <3>1. s \in DOMAIN Preset /\ slot[s] = p[s]
      BY <1>2
    <3>2. cell[p[s]] = [live |-> TRUE, type |-> Preset[s].type, block |-> b[s]]
      BY <1>1, <3>1
    <3> QED BY <3>1, <3>2
  <2> QED BY <1>3, <2>1, <2>2 DEF Tally
<1> QED BY <1>1, <1>2, <1>3, <1>4 DEF WriterInv

LEMMA NextWriter ==
  ASSUME OneWriter
  PROVE  WriterInv /\ [Next]_vars => WriterInv'
<1> SUFFICES ASSUME WriterInv, [Next]_vars PROVE WriterInv'
  OBVIOUS
<1>1. TypeInv'
  BY NextTypeInv DEF WriterInv
<1>2. ASSUME UNCHANGED <<heap, pc, reg, session>> PROVE WriterInv'
  BY <1>1, <1>2 DEF heap, session, WriterInv, Taken, Tally, Owed, Index, Writing
<1>3. ASSUME NEW t \in Threads, Step(t), fault' = fault PROVE WriterInv'
  <2>1. ~ fault'
    BY <1>3 DEF Step, At, Stt, AddExists, GetFind, GetType, GetLength, GetValue, DelFind,
                DelFreeValue, DelFreeCell, DelUnlink, DelCountLoad, DelCountStore, IncFind,
                IncType, IncLoad, IncStore, SetFind, SetAlloc, SetNull, SetCountLoad,
                SetCountStore, SetFields, SetFreeOld, SetBlock, SetValue
  <2> QED BY <1>1, <1>3, <2>1, LookTally, DelFindTally, DelFreeTally, DelUnlinkTally,
             CountLoadTally, CountStoreTally, SetFindTally, SetAllocTally DEF Step
<1>4. ASSUME NEW t \in Threads, Step(t), fault' # fault
      PROVE  UNCHANGED <<heap, pc, reg, session>>
  <2>1. CASE \/ GetType(t) \/ GetLength(t) \/ GetValue(t) \/ DelFreeValue(t) \/ DelFreeCell(t)
             \/ IncType(t) \/ IncLoad(t) \/ IncStore(t)
    BY <1>4, <2>1 DEF Checked, GetType, GetLength, GetValue, DelFreeValue, DelFreeCell,
                      IncType, IncLoad, IncStore
  <2>2. CASE SetNull(t) \/ SetFields(t) \/ SetFreeOld(t) \/ SetBlock(t) \/ SetValue(t)
    BY <1>4, <2>2 DEF Checked, SetNull, SetFields, SetFreeOld, SetBlock, SetValue
  <2>3. ~ \/ Stt(t) \/ AddExists(t) \/ GetFind(t) \/ DelFind(t) \/ DelUnlink(t)
          \/ DelCountLoad(t) \/ DelCountStore(t) \/ IncFind(t) \/ SetFind(t) \/ SetAlloc(t)
          \/ SetCountLoad(t) \/ SetCountStore(t)
    BY <1>4 DEF Stt, AddExists, GetFind, DelFind, DelUnlink, DelCountLoad, DelCountStore,
                IncFind, SetFind, SetAlloc, SetCountLoad, SetCountStore
  <2> QED BY <1>4, <2>1, <2>2, <2>3 DEF Step
<1>5. ASSUME NEW t \in Threads, NEW r \in May[t], Send(t, r) PROVE WriterInv'
  BY <1>1, <1>5, SendTally
<1>6. CASE UNCHANGED vars
  BY <1>2, <1>6 DEF vars
<1> QED BY <1>2, <1>3, <1>4, <1>5, <1>6 DEF Next

LEMMA WriterInvariance == OneWriter => (Spec => []WriterInv)
<1> SUFFICES ASSUME OneWriter PROVE Spec => []WriterInv
  OBVIOUS
<1> QED BY WriterInit, NextWriter, PTL DEF Spec

\* The cells the table links to are as many as the slots that have one.
LEMMA LinkedTaken ==
  ASSUME TypeInv, \A i, j \in Taken : slot[i] = slot[j] => i = j
  PROVE  Cardinality(Linked) = Cardinality(Taken)
<1> DEFINE f == [s \in Taken |-> slot[s]]
<1>1. f \in [Taken -> Linked] /\ \A p \in Linked : \E s \in Taken : f[s] = p
  BY DEF Taken, Linked
<1>2. \A i, j \in Taken : f[i] = f[j] => i = j
  OBVIOUS
<1>3. f \in Bijection(Taken, Linked)
  BY <1>1, <1>2 DEF Bijection, Injection, Surjection, IsInjective
<1>4. ExistsBijection(Taken, Linked)
  BY <1>3 DEF ExistsBijection
<1> QED BY <1>4, TakenFinite, FS_Bijection

\* When one client alone changes the table, its counter is right between
\* commands, whatever the others look at meanwhile: the load and the store of
\* hash_table_set and hash_table_del are two steps, and only a second writer
\* can come between them.
THEOREM OneWriterCounts == OneWriter => (Spec => []CountWhenQuiet)
<1> SUFFICES ASSUME OneWriter PROVE Spec => []CountWhenQuiet
  OBVIOUS
<1>1. WriterInv => CountWhenQuiet
  <2> SUFFICES ASSUME WriterInv, Quiet PROVE count = Cardinality(Linked)
    BY DEF CountWhenQuiet
  <2>1. TypeInv /\ Cardinality(Linked) = Cardinality(Taken) /\ Cardinality(Taken) \in Nat
    BY LinkedTaken, TakenFinite DEF WriterInv
  <2>2. ASSUME NEW t \in Threads, Writing(t) PROVE count = Cardinality(Taken)
    <3>1. pc[t] = "idle" /\ Tally(t)
      BY <2>1, <2>2 DEF Quiet, TypeInv, Handling, WriterInv
    <3> QED BY <2>1, <3>1 DEF Tally, Owed
  <2> QED BY <2>1, <2>2 DEF WriterInv
<1> QED BY <1>1, WriterInvariance, PTL

=============================================================================
