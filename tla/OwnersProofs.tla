---------------------------- MODULE OwnersProofs ----------------------------
(***************************************************************************)
(* Theorems about CacheThreads when no two threads use the same slot: each *)
(* thread then works on memory of its own, and every command takes effect  *)
(* as if it ran alone.                                                     *)
(***************************************************************************)
EXTENDS ThreadsProofs

\* No two threads are sent requests for keys of the same slot.
OwnSlots ==
  \A t, u \in Threads : \A r \in May[t], q \in May[u] :
    t # u /\ r.cmd # "STT" /\ q.cmd # "STT" => Hash[r.key] # Hash[q.key]

(***************************************************************************)
(* Whose memory is whose.  A slot owns its cell until hash_table_del has   *)
(* freed it, and the cell's block until hash_table_del or hash_table_set   *)
(* has freed that.                                                         *)
(***************************************************************************)
Busy == Labels \ {"idle", "stt"}

\* Some thread is at one of these labels, on behalf of slot s.
Working(s, labels) == \E t \in Threads : pc[t] \in labels /\ Index(t) = s

OwnsCell(s, c) == slot[s] = c /\ ~ Working(s, {"del_unlink"})

OwnsBlock(s, b) ==
  /\ slot[s] \in Cells /\ cell[slot[s]].block = b
  /\ ~ Working(s, {"del_cell", "del_unlink", "set_block"})

\* What is allocated is owned, by one slot, and what is owned is allocated.
Owned ==
  /\ \A c \in Cells : cell[c].live <=> \E s \in Slots : OwnsCell(s, c)
  /\ \A c \in Cells : \A i, j \in Slots : OwnsCell(i, c) /\ OwnsCell(j, c) => i = j
  /\ \A b \in Blocks : block[b].live <=> \E s \in Slots : OwnsBlock(s, b)
  /\ \A b \in Blocks : \A i, j \in Slots : OwnsBlock(i, b) /\ OwnsBlock(j, b) => i = j

(***************************************************************************)
(* What a thread finds at each place of its handler in the slot it works   *)
(* on, and what its variables say of it.                                   *)
(***************************************************************************)
\* The slot is empty, or has a complete value.
Settled(s) == slot[s] = NULL \/ ReadsAs(slot[s], cell[slot[s]].type)

ReadLabels == {"get_type", "get_length", "get_value", "del_value",
               "inc_type", "inc_load", "inc_store"}
InsertLabels == {"set_null", "set_load", "set_store", "set_fields", "set_free",
                 "set_block", "set_value"}

Place(t, s) ==
  LET p == slot[s]
      b == cell[p].block
  IN  /\ pc[t] \in {"exists", "get", "del", "inc", "set"} \cup ReadLabels => Settled(s)
      /\ pc[t] \in ReadLabels \cup {"del_cell", "del_unlink"} => p # NULL /\ reg[t].cell = p
      /\ pc[t] \in InsertLabels => p # NULL
      /\ pc[t] \in {"del_load", "del_store", "set_alloc"} => p = NULL
      /\ pc[t] \in {"get_length", "get_value", "inc_load", "inc_store"} =>
           reg[t].type = cell[p].type
      /\ pc[t] = "get_value" /\ reg[t].type # CACHE_VALUE_STRING => reg[t].num = block[b].val
      /\ pc[t] \in {"inc_load", "inc_store"} => reg[t].block = b
      /\ pc[t] = "inc_store" => reg[t].num = block[b].val
      /\ pc[t] = "set_null" => b = Junk
      /\ pc[t] \in {"set_load", "set_store"} => b = NULL
      /\ pc[t] \in {"set_fields", "set_free"} => b \in Blocks \cup {NULL}
      /\ pc[t] \in {"set_free", "set_block", "set_value"} => cell[p].type = New(t).type
      /\ pc[t] = "set_value" => b \in Blocks /\ block[b].type = New(t).type

OwnersInv ==
  /\ TypeInv
  /\ ~ fault
  /\ Owned
  /\ \A t \in Threads : pc[t] \in Busy => Place(t, Index(t))
  /\ \A s \in Slots : Settled(s) \/ Working(s, Busy)

-----------------------------------------------------------------------------
(***************************************************************************)
(* A step of one thread, seen from the slots of the others.                *)
(***************************************************************************)
\* Thread t takes a step of a handler that touches no memory but its slot's.
OwnStep(t) ==
  LET s == Index(t) IN
  /\ pc[t] \in Busy /\ Frame(t) /\ UNCHANGED fault
  /\ pc'[t] = "idle" \/ (pc'[t] \in Busy /\ pending'[t] = pending[t])
  /\ \A i \in Slots \ {s} : slot'[i] = slot[i]
  /\ \A c \in Cells : cell[c].live /\ ~ OwnsCell(s, c) => cell'[c] = cell[c]
  /\ \A b \in Blocks : block[b].live /\ ~ OwnsBlock(s, b) => block'[b] = block[b]

\* A slot has at most one thread working on it.
LEMMA OneWorker ==
  ASSUME OwnSlots, TypeInv, NEW t \in Threads, NEW u \in Threads,
         pc[t] \in Busy, pc[u] \in Busy, Index(t) = Index(u)
  PROVE  t = u
<1>1. /\ pending[t] \in May[t] /\ pending[t].cmd # "STT"
      /\ pending[u] \in May[u] /\ pending[u].cmd # "STT"
  BY AtSlot DEF Busy, Command
<1> QED BY <1>1 DEF OwnSlots, Index

\* So whether there is one at a label is a matter of where t is, for its slot,
\* and does not change, for the others.
LEMMA WorkingStep ==
  ASSUME OwnSlots, TypeInv, NEW t \in Threads, OwnStep(t), NEW s, s = Index(t),
         NEW labels \in SUBSET Busy
  PROVE  /\ Working(s, labels) <=> pc[t] \in labels
         /\ Working(s, labels)' <=> pc'[t] \in labels
         /\ \A i \in Slots \ {s} : Working(i, labels)' <=> Working(i, labels)
<1>1. ASSUME NEW u \in Threads \ {t}
      PROVE  /\ pc'[u] = pc[u] /\ Index(u)' = Index(u)
             /\ pc[u] \in labels => Index(u) # s
  BY OneWorker DEF OwnStep, Frame, Index
<1>2. /\ pc[t] \in Busy
      /\ pc'[t] \in labels => Index(t)' = s
  BY DEF OwnStep, Index, Busy
<1>3. Working(s, labels) <=> pc[t] \in labels
  BY <1>1 DEF Working
<1>4. Working(s, labels)' <=> pc'[t] \in labels
  BY <1>1, <1>2 DEF Working
<1>5. ASSUME NEW i \in Slots \ {s} PROVE Working(i, labels)' <=> Working(i, labels)
  <2>1. ASSUME NEW u \in Threads, pc[u] \in labels, Index(u) = i PROVE u # t
    BY <2>1
  <2>2. ASSUME NEW u \in Threads, pc'[u] \in labels, Index(u)' = i PROVE u # t
    BY <1>2, <2>2
  <2> QED BY <1>1, <2>1, <2>2 DEF Working
<1> QED BY <1>3, <1>4, <1>5

\* The other slots own what they owned, and it is as it was.
LEMMA Undisturbed ==
  ASSUME OwnSlots, OwnersInv, NEW t \in Threads, OwnStep(t),
         NEW i \in Slots \ {Index(t)}
  PROVE  /\ slot'[i] = slot[i]
         /\ \A c \in Cells : OwnsCell(i, c)' <=> OwnsCell(i, c)
         /\ \A c \in Cells : OwnsCell(i, c) => cell'[c] = cell[c]
         /\ \A b \in Blocks : OwnsBlock(i, b)' <=> OwnsBlock(i, b)
         /\ \A b \in Blocks : OwnsBlock(i, b) => block'[b] = block[b]
<1> DEFINE s == Index(t)
<1>0. s \in Slots /\ TypeInv /\ Owned
  BY AtSlot DEF OwnersInv, OwnStep, Busy
<1>1. slot'[i] = slot[i]
  BY DEF OwnStep
<1>2. /\ {"del_unlink"} \in SUBSET Busy
      /\ {"del_cell", "del_unlink", "set_block"} \in SUBSET Busy
  BY DEF Busy, Labels
<1>3. /\ Working(i, {"del_unlink"})' <=> Working(i, {"del_unlink"})
      /\ Working(i, {"del_cell", "del_unlink", "set_block"})'
           <=> Working(i, {"del_cell", "del_unlink", "set_block"})
  BY <1>0, <1>2, WorkingStep
<1>4. ASSUME NEW c \in Cells
      PROVE  (OwnsCell(i, c)' <=> OwnsCell(i, c)) /\ (OwnsCell(i, c) => cell'[c] = cell[c])
  <2>1. OwnsCell(i, c)' <=> OwnsCell(i, c)
    BY <1>1, <1>3 DEF OwnsCell
  <2>2. OwnsCell(i, c) => cell[c].live /\ ~ OwnsCell(s, c)
    BY <1>0 DEF Owned
  <2> QED BY <2>1, <2>2 DEF OwnStep
<1>5. ASSUME NEW b \in Blocks
      PROVE  (OwnsBlock(i, b)' <=> OwnsBlock(i, b)) /\ (OwnsBlock(i, b) => block'[b] = block[b])
  <2>1. Working(i, {"del_unlink"}) => Working(i, {"del_cell", "del_unlink", "set_block"})
    BY DEF Working
  <2>2. ASSUME slot[i] \in Cells, ~ Working(i, {"del_cell", "del_unlink", "set_block"})
        PROVE  cell'[slot[i]] = cell[slot[i]]
    BY <1>4, <2>1, <2>2 DEF OwnsCell
  <2>3. OwnsBlock(i, b)' <=> OwnsBlock(i, b)
    BY <1>1, <1>3, <2>2 DEF OwnsBlock
  <2>4. OwnsBlock(i, b) => block[b].live /\ ~ OwnsBlock(s, b)
    BY <1>0 DEF Owned
  <2> QED BY <2>3, <2>4 DEF OwnStep
<1> QED BY <1>1, <1>4, <1>5

\* Their values stay, unless they are being taken out.
LEMMA ValueStays ==
  ASSUME OwnSlots, OwnersInv, NEW t \in Threads, OwnStep(t),
         NEW i \in Slots \ {Index(t)},
         ~ Working(i, {"del_cell", "del_unlink", "set_block"})
  PROVE  /\ Settled(i)' <=> Settled(i)
         /\ Content(i)' = Content(i)
<1> DEFINE p == slot[i]
           b == cell[p].block
<1>1. slot'[i] = p /\ p \in Cells \cup {NULL}
  BY Undisturbed DEF OwnersInv, TypeInv, TypeOK
<1>2. CASE p = NULL
  <2>1. ~ IsCell(p) /\ ~ IsCell(p)'
    BY <1>2, <1>1, MemoryAssumption DEF IsCell
  <2> QED BY <1>1, <1>2, <2>1 DEF Settled, Content, ReadsAs, IsCell
<1>3. CASE p \in Cells
  <2>1. OwnsCell(i, p) /\ OwnsBlock(i, b)
    BY <1>3 DEF Working, OwnsCell, OwnsBlock
  <2>2. cell'[p] = cell[p]
    BY <1>3, <2>1, Undisturbed
  <2>3. b \in Blocks => block'[b] = block[b]
    BY <2>1, Undisturbed
  <2>4. \A type : ReadsAs(p, type)' <=> ReadsAs(p, type)
    <3> TAKE type
    <3> QED BY <1>1, <2>2, <2>3 DEF ReadsAs, IsCell, IsBlock
  <2>5. IsCell(p)' <=> IsCell(p)
    BY <1>1, <2>2 DEF IsCell
  <2>6. Settled(i)' <=> Settled(i)
    BY <1>1, <2>2, <2>4 DEF Settled
  <2>7. ASSUME ~ IsCell(p) PROVE Content(i)' = Content(i)
    BY <1>1, <2>5, <2>7 DEF Content, ReadsAs
  <2>8. ASSUME IsCell(p) PROVE Content(i)' = Content(i)
    <3>1. CASE ReadsAs(p, cell[p].type)
      <4>1. b \in Blocks
        BY <3>1 DEF ReadsAs, IsBlock
      <4> QED BY <1>1, <2>2, <2>3, <2>4, <2>5, <2>8, <3>1, <4>1 DEF Content
    <3>2. CASE ~ ReadsAs(p, cell[p].type)
      BY <1>1, <2>2, <2>4, <2>5, <2>8, <3>2 DEF Content
    <3> QED BY <3>1, <3>2
  <2> QED BY <2>6, <2>7, <2>8
<1> QED BY <1>1, <1>2, <1>3

\* A thread at work on another slot stays where it is, and so does what it
\* knows of its slot.
LEMMA PlaceStays ==
  ASSUME OwnSlots, OwnersInv, NEW t \in Threads, OwnStep(t),
         NEW u \in Threads \ {t}, pc[u] \in Busy
  PROVE  Index(u)' = Index(u) /\ Place(u, Index(u))'
<1>0. PICK i \in Slots : i = Index(u)
  BY AtSlot DEF OwnersInv, Busy
<1> DEFINE p == slot[i]
           b == cell[p].block
<1>1. /\ Place(u, i) /\ TypeInv /\ p \in Cells \cup {NULL}
      /\ i # Index(t)
  BY <1>0, OneWorker DEF OwnersInv, OwnStep, TypeInv, TypeOK
<1>2. pc'[u] = pc[u] /\ reg'[u] = reg[u] /\ pending'[u] = pending[u] /\ Index(u)' = i
  BY <1>0 DEF OwnStep, Frame, Index
<1>3. New(u)' = New(u)
  BY <1>2 DEF New, Command
<1>4. slot'[i] = p
  BY <1>1, Undisturbed
<1>5. pc[u] \notin {"del_cell", "del_unlink", "set_block"} =>
        /\ ~ Working(i, {"del_cell", "del_unlink", "set_block"})
        /\ Settled(i)' <=> Settled(i)
  <2>1. {"del_cell", "del_unlink", "set_block"} \subseteq Busy
    BY DEF Busy, Labels
  <2>2. ASSUME pc[u] \notin {"del_cell", "del_unlink", "set_block"}
        PROVE  ~ Working(i, {"del_cell", "del_unlink", "set_block"})
    BY <1>0, <1>1, <2>1, <2>2, OneWorker DEF Working
  <2> QED BY <1>1, <2>2, ValueStays
<1>6. p \in Cells /\ pc[u] # "del_unlink" => cell'[p] = cell[p]
  <2>1. {"del_unlink"} \subseteq Busy
    BY DEF Busy, Labels
  <2>2. ASSUME p \in Cells, pc[u] # "del_unlink" PROVE OwnsCell(i, p)
    BY <1>0, <1>1, <2>1, <2>2, OneWorker DEF Working, OwnsCell
  <2> QED BY <1>1, <2>2, Undisturbed
<1>7. p \in Cells /\ pc[u] \notin {"del_cell", "del_unlink", "set_block"} /\ b \in Blocks =>
        block'[b] = block[b]
  <2>1. ASSUME p \in Cells, pc[u] \notin {"del_cell", "del_unlink", "set_block"}
        PROVE  OwnsBlock(i, b)
    BY <1>5, <2>1 DEF OwnsBlock
  <2> QED BY <1>1, <2>1, Undisturbed
<1>8. Settled(i) /\ p # NULL => b \in Blocks
  BY DEF Settled, ReadsAs, IsBlock
<1>9. Place(u, i)'
  BY <1>1, <1>2, <1>3, <1>4, <1>5, <1>6, <1>7, <1>8
    DEF Place, ReadLabels, InsertLabels
<1> QED BY <1>0, <1>2, <1>9

\* In a step, what slot s owned is freed or kept, and what it owns then is what
\* it kept or what was free.
Trades(s) ==
  /\ \A c \in Cells : cell'[c].live <=> (cell[c].live /\ ~ OwnsCell(s, c)) \/ OwnsCell(s, c)'
  /\ \A c \in Cells : OwnsCell(s, c)' => OwnsCell(s, c) \/ ~ cell[c].live
  /\ \A b \in Blocks : block'[b].live <=> (block[b].live /\ ~ OwnsBlock(s, b)) \/ OwnsBlock(s, b)'
  /\ \A b \in Blocks : OwnsBlock(s, b)' => OwnsBlock(s, b) \/ ~ block[b].live

\* Then what is allocated is owned, by one slot.
LEMMA OwnedStep ==
  ASSUME OwnSlots, OwnersInv, NEW t \in Threads, OwnStep(t),
         NEW s \in Slots, s = Index(t), Trades(s)
  PROVE  Owned'
<1>0. Owned
  BY DEF OwnersInv
<1>1. \A c \in Cells : \A i \in Slots \ {s} : OwnsCell(i, c)' <=> OwnsCell(i, c)
  BY Undisturbed
<1>2. \A b \in Blocks : \A i \in Slots \ {s} : OwnsBlock(i, b)' <=> OwnsBlock(i, b)
  BY Undisturbed
<1>3. ASSUME NEW c \in Cells
      PROVE  /\ cell[c].live /\ ~ OwnsCell(s, c) <=> \E i \in Slots \ {s} : OwnsCell(i, c)
             /\ cell'[c].live <=> \E i \in Slots : OwnsCell(i, c)'
             /\ \A i, j \in Slots : OwnsCell(i, c)' /\ OwnsCell(j, c)' => i = j
  <2>1. cell[c].live /\ ~ OwnsCell(s, c) <=> \E i \in Slots \ {s} : OwnsCell(i, c)
    BY <1>0 DEF Owned
  <2>2. cell'[c].live <=> \E i \in Slots : OwnsCell(i, c)'
    BY <1>1, <2>1 DEF Trades
  <2>3. \A i, j \in Slots : OwnsCell(i, c)' /\ OwnsCell(j, c)' => i = j
    BY <1>0, <1>1, <2>1 DEF Owned, Trades
  <2> QED BY <2>1, <2>2, <2>3
<1>4. ASSUME NEW b \in Blocks
      PROVE  /\ block[b].live /\ ~ OwnsBlock(s, b) <=> \E i \in Slots \ {s} : OwnsBlock(i, b)
             /\ block'[b].live <=> \E i \in Slots : OwnsBlock(i, b)'
             /\ \A i, j \in Slots : OwnsBlock(i, b)' /\ OwnsBlock(j, b)' => i = j
  <2>1. block[b].live /\ ~ OwnsBlock(s, b) <=> \E i \in Slots \ {s} : OwnsBlock(i, b)
    BY <1>0 DEF Owned
  <2>2. block'[b].live <=> \E i \in Slots : OwnsBlock(i, b)'
    BY <1>2, <2>1 DEF Trades
  <2>3. \A i, j \in Slots : OwnsBlock(i, b)' /\ OwnsBlock(j, b)' => i = j
    BY <1>0, <1>2, <2>1 DEF Owned, Trades
  <2> QED BY <2>1, <2>2, <2>3
<1> QED BY <1>3, <1>4 DEF Owned

\* A step of a thread on its own slot: it is enough to look at that slot.
LEMMA OwnersStep ==
  ASSUME OwnSlots, OwnersInv, TypeInv', NEW t \in Threads, OwnStep(t),
         NEW s \in Slots, s = Index(t), Trades(s),
         pc'[t] = "idle" => Settled(s)',
         pc'[t] \in Busy => Place(t, s)'
  PROVE  OwnersInv'
<1>1. Owned'
  BY OwnedStep
<1>2. ASSUME NEW u \in Threads, pc'[u] \in Busy PROVE Place(u, Index(u))'
  <2>1. CASE u = t
    <3>1. Index(t)' = s
      BY <1>2, <2>1 DEF OwnStep, Index, Busy
    <3> QED BY <1>2, <2>1, <3>1
  <2>2. CASE u # t
    <3>1. pc[u] \in Busy
      BY <1>2, <2>2 DEF OwnStep, Frame
    <3> QED BY <2>2, <3>1, PlaceStays
  <2> QED BY <2>1, <2>2
<1>3. /\ Working(s, Busy)' <=> pc'[t] \in Busy
      /\ \A i \in Slots \ {s} : Working(i, Busy)' <=> Working(i, Busy)
  BY WorkingStep DEF OwnersInv
<1>4. ASSUME NEW i \in Slots PROVE Settled(i)' \/ Working(i, Busy)'
  <2>1. CASE i = s
    BY <1>3, <2>1 DEF OwnStep
  <2>2. CASE i # s /\ Working(i, Busy)
    BY <1>3, <2>2
  <2>3. CASE i # s /\ ~ Working(i, Busy)
    <3>1. ~ Working(i, {"del_cell", "del_unlink", "set_block"})
      BY <2>3 DEF Working, Busy, Labels
    <3>2. Settled(i)
      BY <2>3 DEF OwnersInv
    <3> QED BY <2>3, <3>1, <3>2, ValueStays
  <2> QED BY <2>1, <2>2, <2>3
<1>5. ~ fault'
  BY DEF OwnersInv, OwnStep
<1> QED BY <1>1, <1>2, <1>4, <1>5 DEF OwnersInv

-----------------------------------------------------------------------------
(***************************************************************************)
(* A step of one thread, on its own slot.                                  *)
(***************************************************************************)
Freeing == {"del_cell", "del_unlink", "set_block"}

\* What thread t knows of slot s, on which it works.
Mine(t, s) ==
  LET p == slot[s] IN
  /\ s \in Slots /\ s = Index(t) /\ pc[t] \in Busy /\ Place(t, s) /\ p \in Cells \cup {NULL}
  /\ \A c \in Cells : OwnsCell(s, c) <=> c = p /\ pc[t] # "del_unlink"
  /\ \A b \in Blocks :
       OwnsBlock(s, b) <=> p # NULL /\ b = cell[p].block /\ pc[t] \notin Freeing
  /\ p # NULL /\ pc[t] # "del_unlink" => IsCell(p)
  /\ p # NULL /\ pc[t] \notin Freeing /\ cell[p].block \in Blocks => IsBlock(cell[p].block)
  /\ p # NULL /\ Settled(s) =>
       cell[p].type \in Types /\ cell[p].type # Junk /\ block[cell[p].block].val \in Texts

LEMMA MineHolds ==
  ASSUME OwnSlots, OwnersInv, NEW t \in Threads, pc[t] \in Busy
  PROVE  \E s \in Slots : Mine(t, s)
<1>1. PICK s \in Slots : s = Index(t)
  BY AtSlot DEF OwnersInv, Busy
<1> DEFINE p == slot[s]
<1>2. Place(t, s) /\ p \in Cells \cup {NULL} /\ TypeInv /\ Owned
  BY <1>1, AtSlot DEF OwnersInv, Busy
<1>3. /\ Working(s, {"del_unlink"}) <=> pc[t] = "del_unlink"
      /\ Working(s, {"del_cell", "del_unlink", "set_block"}) <=> pc[t] \in Freeing
  <2>1. "del_unlink" \in Busy /\ "del_cell" \in Busy /\ "set_block" \in Busy
    BY DEF Busy, Labels
  <2>2. ASSUME NEW u \in Threads, pc[u] \in Busy, Index(u) = s PROVE u = t
    BY <1>1, <1>2, <2>2, OneWorker
  <2> QED BY <1>1, <2>1, <2>2 DEF Working, Freeing
<1>4. \A c \in Cells : OwnsCell(s, c) <=> c = p /\ pc[t] # "del_unlink"
  BY <1>3 DEF OwnsCell
<1>5. \A b \in Blocks :
        OwnsBlock(s, b) <=> p # NULL /\ b = cell[p].block /\ pc[t] \notin Freeing
  BY <1>2, <1>3, MemoryAssumption DEF OwnsBlock
<1>6. p # NULL /\ pc[t] # "del_unlink" => IsCell(p)
  BY <1>2, <1>4 DEF Owned, IsCell
<1>7. p # NULL /\ pc[t] \notin Freeing /\ cell[p].block \in Blocks => IsBlock(cell[p].block)
  BY <1>5, <1>2 DEF Owned, IsBlock
<1>8. ASSUME p # NULL, Settled(s)
      PROVE  cell[p].type \in Types /\ cell[p].type # Junk /\ block[cell[p].block].val \in Texts
  <2> DEFINE b == cell[p].block
  <2>1. b \in Blocks /\ block[b].type = cell[p].type /\ block[b].val # Junk
    BY <1>8 DEF Settled, ReadsAs, IsBlock
  <2>2. [type |-> block[b].type, val |-> block[b].val] \in Value
    BY <1>2, <2>1 DEF TypeInv, Fits
  <2>3. block[b].type \in Types /\ block[b].val \in Texts
    BY <2>2 DEF Value, Types, Texts
  <2> QED BY <2>1, <2>3, MemoryAssumption
<1>9. Mine(t, s)
  BY <1>1, <1>2, <1>4, <1>5, <1>6, <1>7, <1>8 DEF Mine
<1> QED BY <1>9

\* A step that leaves the memory as it is.
LEMMA SameHeapOwners ==
  ASSUME OwnSlots, OwnersInv, TypeInv', NEW t \in Threads, NEW s, Mine(t, s),
         UNCHANGED <<slot, cell, block, fault>>, Frame(t),
         pc'[t] = "idle" \/ (pc'[t] \in Busy /\ pending'[t] = pending[t]),
         pc[t] \notin Freeing, pc'[t] \notin Freeing,
         pc'[t] = "idle" => Settled(s),
         pc'[t] \in Busy => Place(t, s)'
  PROVE  OwnStep(t) /\ OwnersInv'
<1>1. OwnStep(t)
  BY DEF OwnStep, Mine
<1>2. /\ {"del_unlink"} \in SUBSET Busy
      /\ {"del_cell", "del_unlink", "set_block"} \in SUBSET Busy
  BY DEF Busy, Labels
<1>3. /\ ~ Working(s, {"del_unlink"}) /\ ~ Working(s, {"del_unlink"})'
      /\ ~ Working(s, {"del_cell", "del_unlink", "set_block"})
      /\ ~ Working(s, {"del_cell", "del_unlink", "set_block"})'
  BY <1>1, <1>2, WorkingStep DEF OwnersInv, Freeing, Mine
<1>4. \A c \in Cells : OwnsCell(s, c)' <=> OwnsCell(s, c)
  BY <1>3 DEF OwnsCell
<1>5. \A b \in Blocks : OwnsBlock(s, b)' <=> OwnsBlock(s, b)
  BY <1>3 DEF OwnsBlock
<1>6. Trades(s)
  BY <1>4, <1>5 DEF Trades, OwnersInv, Owned, Mine
<1>7. Settled(s)' <=> Settled(s)
  BY DEF Settled, ReadsAs, IsCell, IsBlock
<1> QED BY <1>1, <1>6, <1>7, OwnersStep DEF Mine

LEMMA SettledSame ==
  ASSUME NEW s, UNCHANGED <<slot, cell, block>>
  PROVE  (Settled(s)' <=> Settled(s)) /\ Content(s)' = Content(s)
BY DEF Settled, Content, ReadsAs, IsCell, IsBlock

LEMMA AddExistsOwners ==
  ASSUME OwnSlots, OwnersInv, TypeInv', NEW t \in Threads, AddExists(t)
  PROVE  OwnStep(t) /\ OwnersInv'
<1>1. pc[t] = "exists" /\ TypeInv
  BY DEF AddExists, At, OwnersInv
<1>2. PICK s \in Slots : Mine(t, s)
  BY <1>1, MineHolds DEF Busy, Labels
<1>3. Settled(s) /\ s = Index(t)
  BY <1>1, <1>2 DEF Mine, Place
<1>4. UNCHANGED <<slot, cell, block, fault>>
  BY DEF AddExists, heap
<1>5. CASE slot[s] = NULL
  <2>1. Frame(t) /\ pc'[t] = "del" /\ pending'[t] = pending[t]
    <3>1. Return(t, "del") /\ UNCHANGED <<pending, before>>
      BY <1>3, <1>5 DEF AddExists, session
    <3> QED BY <1>1, <3>1, Moves DEF Labels
  <2>2. Place(t, s)'
    BY <1>3, <1>4, <2>1, SettledSame DEF Place, ReadLabels, InsertLabels
  <2> QED BY <1>1, <1>2, <1>4, <2>1, <2>2, SameHeapOwners DEF Freeing, Busy, Labels
<1>6. CASE slot[s] # NULL
  <2>1. Frame(t) /\ pc'[t] = "idle"
    <3>1. Finish(t)
      BY <1>3, <1>6 DEF AddExists
    <3> QED BY <1>1, <3>1, Moves
  <2> QED BY <1>1, <1>2, <1>3, <1>4, <2>1, SameHeapOwners DEF Freeing, Busy
<1> QED BY <1>5, <1>6

LEMMA GetFindOwners ==
  ASSUME OwnSlots, OwnersInv, TypeInv', NEW t \in Threads, GetFind(t)
  PROVE  OwnStep(t) /\ OwnersInv'
<1>1. pc[t] = "get" /\ TypeInv
  BY DEF GetFind, At, OwnersInv
<1>2. PICK s \in Slots : Mine(t, s)
  BY <1>1, MineHolds DEF Busy, Labels
<1>3. Settled(s) /\ s = Index(t) /\ slot[s] \in Cells \cup {NULL}
  BY <1>1, <1>2 DEF Mine, Place
<1>4. UNCHANGED <<slot, cell, block, fault>>
  BY DEF GetFind, heap
<1>5. CASE slot[s] = NULL
  <2>1. Frame(t) /\ (pc'[t] = "idle" \/ (pc'[t] = "del" /\ pending'[t] = pending[t]))
    <3>1. Answered(t)
      BY <1>3, <1>5 DEF GetFind
    <3> QED BY <1>1, <3>1, AnsweredMoves
  <2>2. pc'[t] = "del" => Place(t, s)'
    BY <1>3, <1>4, SettledSame DEF Place, ReadLabels, InsertLabels
  <2> QED BY <1>1, <1>2, <1>3, <1>4, <2>1, <2>2, SameHeapOwners DEF Freeing, Busy, Labels
<1>6. CASE slot[s] # NULL
  <2>1. /\ Frame(t) /\ pc'[t] = "get_type" /\ pending'[t] = pending[t]
        /\ reg'[t].cell = slot[s]
    <3>1. Go(t, "get_type") /\ Load(t, "cell", slot[s]) /\ UNCHANGED pending
      BY <1>3, <1>6 DEF GetFind, session
    <3> QED BY <1>1, <1>3, <3>1, Moves DEF Labels
  <2>2. Place(t, s)'
    BY <1>3, <1>4, <1>6, <2>1, SettledSame DEF Place, ReadLabels, InsertLabels
  <2> QED BY <1>1, <1>2, <1>4, <2>1, <2>2, SameHeapOwners DEF Freeing, Busy, Labels
<1> QED BY <1>5, <1>6

LEMMA GetTypeOwners ==
  ASSUME OwnSlots, OwnersInv, TypeInv', NEW t \in Threads, GetType(t)
  PROVE  OwnStep(t) /\ OwnersInv'
<1>1. pc[t] = "get_type" /\ TypeInv
  BY DEF GetType, At, OwnersInv
<1>2. PICK s \in Slots : Mine(t, s)
  BY <1>1, MineHolds DEF Busy, Labels
<1> DEFINE p == slot[s]
<1>3. /\ Settled(s) /\ p # NULL /\ reg[t].cell = p
      /\ IsCell(p) /\ cell[p].type \in Types /\ cell[p].type # Junk
  BY <1>1, <1>2 DEF Mine, Place, ReadLabels
<1>4. /\ Go(t, "get_length") /\ Load(t, "type", cell[p].type) /\ UNCHANGED pending
      /\ UNCHANGED <<slot, cell, block, fault>>
  BY <1>3 DEF GetType, Checked, heap, session
<1>5. /\ Frame(t) /\ pc'[t] = "get_length" /\ pending'[t] = pending[t]
      /\ reg'[t].type = cell[p].type /\ reg'[t].cell = p
  BY <1>1, <1>3, <1>4, Moves DEF Labels
<1>6. Place(t, s)'
  BY <1>3, <1>4, <1>5, SettledSame DEF Place, ReadLabels, InsertLabels
<1> QED BY <1>1, <1>2, <1>4, <1>5, <1>6, SameHeapOwners DEF Freeing, Busy, Labels

LEMMA GetLengthOwners ==
  ASSUME OwnSlots, OwnersInv, TypeInv', NEW t \in Threads, GetLength(t)
  PROVE  OwnStep(t) /\ OwnersInv'
<1>1. pc[t] = "get_length" /\ TypeInv
  BY DEF GetLength, At, OwnersInv
<1>2. PICK s \in Slots : Mine(t, s)
  BY <1>1, MineHolds DEF Busy, Labels
<1> DEFINE p == slot[s]
           val == block[cell[p].block].val
<1>3. /\ Settled(s) /\ p # NULL /\ reg[t].cell = p /\ reg[t].type = cell[p].type
      /\ IsCell(p) /\ val \in Texts /\ ReadsAs(p, reg[t].type)
  BY <1>1, <1>2 DEF Mine, Place, ReadLabels, Settled
<1>4. /\ Go(t, "get_value") /\ UNCHANGED pending /\ UNCHANGED <<slot, cell, block, fault>>
      /\ IF reg[t].type # CACHE_VALUE_STRING THEN Load(t, "num", val) ELSE UNCHANGED reg
  BY <1>3 DEF GetLength, Checked, heap, session
<1>5. /\ Frame(t) /\ pc'[t] = "get_value" /\ pending'[t] = pending[t]
      /\ reg'[t].type = cell[p].type /\ reg'[t].cell = p
      /\ reg[t].type # CACHE_VALUE_STRING => reg'[t].num = val
  <2>1. CASE reg[t].type # CACHE_VALUE_STRING
    BY <1>1, <1>3, <1>4, <2>1, Moves DEF Labels
  <2>2. CASE reg[t].type = CACHE_VALUE_STRING
    BY <1>1, <1>3, <1>4, <2>2, Moves DEF Labels
  <2> QED BY <2>1, <2>2
<1>6. Place(t, s)'
  BY <1>3, <1>4, <1>5, SettledSame DEF Place, ReadLabels, InsertLabels
<1> QED BY <1>1, <1>2, <1>4, <1>5, <1>6, SameHeapOwners DEF Freeing, Busy, Labels

LEMMA GetValueOwners ==
  ASSUME OwnSlots, OwnersInv, TypeInv', NEW t \in Threads, GetValue(t)
  PROVE  OwnStep(t) /\ OwnersInv'
<1>1. pc[t] = "get_value" /\ TypeInv
  BY DEF GetValue, At, OwnersInv
<1>2. PICK s \in Slots : Mine(t, s)
  BY <1>1, MineHolds DEF Busy, Labels
<1> DEFINE p == slot[s]
<1>3. /\ Settled(s) /\ p # NULL /\ reg[t].cell = p /\ reg[t].type = cell[p].type
      /\ ReadsAs(p, reg[t].type) /\ cell[p].type # Junk
  BY <1>1, <1>2 DEF Mine, Place, ReadLabels, Settled
<1>4. Answered(t) /\ UNCHANGED <<slot, cell, block, fault>>
  BY <1>3 DEF GetValue, Checked, heap
<1>5. Frame(t) /\ (pc'[t] = "idle" \/ (pc'[t] = "del" /\ pending'[t] = pending[t]))
  BY <1>1, <1>4, AnsweredMoves
<1>6. pc'[t] = "del" => Place(t, s)'
  BY <1>3, <1>4, SettledSame DEF Place, ReadLabels, InsertLabels
<1> QED BY <1>1, <1>2, <1>3, <1>4, <1>5, <1>6, SameHeapOwners DEF Freeing, Busy, Labels

\* IncFind, and the steps after it that only look.
LEMMA IncLookOwners ==
  ASSUME OwnSlots, OwnersInv, TypeInv', NEW t \in Threads,
         IncFind(t) \/ IncType(t) \/ IncLoad(t)
  PROVE  OwnStep(t) /\ OwnersInv'
<1>1. pc[t] \in {"inc", "inc_type", "inc_load"} /\ TypeInv
  BY DEF IncFind, IncType, IncLoad, At, OwnersInv
<1>2. PICK s \in Slots : Mine(t, s)
  BY <1>1, MineHolds DEF Busy, Labels
<1> DEFINE p == slot[s]
           b == cell[p].block
<1>3. /\ Settled(s) /\ s = Index(t) /\ p \in Cells \cup {NULL}
      /\ p # NULL => /\ IsCell(p) /\ ReadsAs(p, cell[p].type) /\ cell[p].type \in Types
                     /\ cell[p].type # Junk /\ block[b].val \in Texts
  BY <1>1, <1>2 DEF Mine, Place, ReadLabels, Settled
<1>4. UNCHANGED <<slot, cell, block, fault>> /\ UNCHANGED <<pending, before>> => Settled(s)'
  BY <1>3, SettledSame
<1>5. CASE IncFind(t)
  <2>1. UNCHANGED <<slot, cell, block, fault>> /\ UNCHANGED <<pending, before>> /\ pc[t] = "inc"
    BY <1>5 DEF IncFind, At, heap, session
  <2>2. CASE p = NULL
    <3>1. Frame(t) /\ pc'[t] = "set" /\ pending'[t] = pending[t]
      <4>1. Return(t, "set")
        BY <1>3, <1>5, <2>2 DEF IncFind
      <4> QED BY <1>1, <2>1, <4>1, Moves DEF Labels
    <3>2. Place(t, s)'
      BY <1>4, <2>1, <3>1 DEF Place, ReadLabels, InsertLabels
    <3> QED BY <1>2, <2>1, <3>1, <3>2, SameHeapOwners DEF Freeing, Busy, Labels
  <2>3. CASE p # NULL
    <3>1. Frame(t) /\ pc'[t] = "inc_type" /\ pending'[t] = pending[t] /\ reg'[t].cell = p
      <4>1. Go(t, "inc_type") /\ Load(t, "cell", p)
        BY <1>3, <1>5, <2>3 DEF IncFind
      <4> QED BY <1>1, <1>3, <2>1, <4>1, Moves DEF Labels
    <3>2. Place(t, s)'
      BY <1>4, <2>1, <2>3, <3>1 DEF Place, ReadLabels, InsertLabels
    <3> QED BY <1>2, <2>1, <3>1, <3>2, SameHeapOwners DEF Freeing, Busy, Labels
  <2> QED BY <2>2, <2>3
<1>6. CASE IncType(t)
  <2>0. pc[t] = "inc_type" /\ p # NULL /\ reg[t].cell = p
    BY <1>2, <1>6 DEF IncType, At, Mine, Place, ReadLabels
  <2>1. UNCHANGED <<slot, cell, block, fault>> /\ UNCHANGED <<pending, before>>
    BY <1>3, <1>6, <2>0 DEF IncType, Checked, heap, session
  <2>2. CASE cell[p].type = CACHE_VALUE_STRING
    <3>1. Frame(t) /\ pc'[t] = "set" /\ pending'[t] = pending[t]
      <4>1. Return(t, "set")
        BY <1>3, <1>6, <2>0, <2>2 DEF IncType, Checked
      <4> QED BY <1>1, <2>1, <4>1, Moves DEF Labels
    <3>2. Place(t, s)'
      BY <1>4, <2>1, <3>1 DEF Place, ReadLabels, InsertLabels
    <3> QED BY <1>2, <2>0, <2>1, <3>1, <3>2, SameHeapOwners DEF Freeing, Busy, Labels
  <2>3. CASE cell[p].type # CACHE_VALUE_STRING
    <3> DEFINE loaded == [reg[t] EXCEPT !.type = cell[p].type, !.block = b]
    <3>1. Go(t, "inc_load") /\ reg' = [reg EXCEPT ![t] = loaded]
      BY <1>3, <1>6, <2>0, <2>3 DEF IncType, Checked
    <3>2. loaded.cell = p /\ loaded.type = cell[p].type /\ loaded.block = b
          /\ reg \in [Threads -> Registers]
      BY <1>1, <2>0 DEF TypeInv, TypeOK, Registers
    <3> HIDE DEF loaded
    <3>3. /\ Frame(t) /\ pc'[t] = "inc_load" /\ pending'[t] = pending[t] /\ reg'[t] = loaded
      BY <1>1, <2>1, <3>1, <3>2 DEF Go, Frame, TypeInv, TypeOK
    <3>4. Place(t, s)'
      BY <1>4, <2>0, <2>1, <3>2, <3>3 DEF Place, ReadLabels, InsertLabels
    <3> QED BY <1>2, <2>0, <2>1, <3>3, <3>4, SameHeapOwners DEF Freeing, Busy, Labels
  <2> QED BY <2>2, <2>3
<1>7. CASE IncLoad(t)
  <2>0. /\ pc[t] = "inc_load" /\ p # NULL /\ reg[t].cell = p /\ reg[t].type = cell[p].type
        /\ reg[t].block = b
    BY <1>2, <1>7 DEF IncLoad, At, Mine, Place, ReadLabels
  <2>1. /\ Go(t, "inc_store") /\ Load(t, "num", block[b].val)
        /\ UNCHANGED <<slot, cell, block, fault>> /\ UNCHANGED <<pending, before>>
    BY <1>3, <1>7, <2>0 DEF IncLoad, Checked, heap, session, ReadsAs
  <2>2. /\ Frame(t) /\ pc'[t] = "inc_store" /\ pending'[t] = pending[t]
        /\ reg'[t].num = block[b].val /\ reg'[t].type = cell[p].type
        /\ reg'[t].cell = p /\ reg'[t].block = b
    BY <1>1, <1>3, <2>0, <2>1, Moves DEF Labels
  <2>3. Place(t, s)'
    BY <1>4, <2>0, <2>1, <2>2 DEF Place, ReadLabels, InsertLabels
  <2> QED BY <1>2, <2>0, <2>1, <2>2, <2>3, SameHeapOwners DEF Freeing, Busy, Labels
<1> QED BY <1>5, <1>6, <1>7

LEMMA DelFindOwners ==
  ASSUME OwnSlots, OwnersInv, TypeInv', NEW t \in Threads, DelFind(t)
  PROVE  OwnStep(t) /\ OwnersInv'
<1>1. pc[t] = "del" /\ TypeInv
  BY DEF DelFind, At, OwnersInv
<1>2. PICK s \in Slots : Mine(t, s)
  BY <1>1, MineHolds DEF Busy, Labels
<1>3. Settled(s) /\ s = Index(t) /\ slot[s] \in Cells \cup {NULL}
  BY <1>1, <1>2 DEF Mine, Place
<1>4. UNCHANGED <<slot, cell, block, fault>>
  BY DEF DelFind, heap
<1>5. CASE slot[s] = NULL
  <2>1. Frame(t) /\ (pc'[t] = "idle" \/ (pc'[t] = "set" /\ pending'[t] = pending[t]))
    <3>1. Deleted(t)
      BY <1>3, <1>5 DEF DelFind
    <3> QED BY <1>1, <3>1, DeletedMoves
  <2>2. pc'[t] = "set" => Place(t, s)'
    BY <1>3, <1>4, SettledSame DEF Place, ReadLabels, InsertLabels
  <2> QED BY <1>1, <1>2, <1>3, <1>4, <2>1, <2>2, SameHeapOwners DEF Freeing, Busy, Labels
<1>6. CASE slot[s] # NULL
  <2>1. /\ Frame(t) /\ pc'[t] = "del_value" /\ pending'[t] = pending[t]
        /\ reg'[t].cell = slot[s]
    <3>1. Go(t, "del_value") /\ Load(t, "cell", slot[s]) /\ UNCHANGED pending
      BY <1>3, <1>6 DEF DelFind, session
    <3> QED BY <1>1, <1>3, <3>1, Moves DEF Labels
  <2>2. Place(t, s)'
    BY <1>3, <1>4, <1>6, <2>1, SettledSame DEF Place, ReadLabels, InsertLabels
  <2> QED BY <1>1, <1>2, <1>4, <2>1, <2>2, SameHeapOwners DEF Freeing, Busy, Labels
<1> QED BY <1>5, <1>6

\* The counter is loaded and stored; the memory is not touched.
LEMMA CountOwners ==
  ASSUME OwnSlots, OwnersInv, TypeInv', NEW t \in Threads,
         DelCountLoad(t) \/ DelCountStore(t) \/ SetCountLoad(t) \/ SetCountStore(t)
  PROVE  OwnStep(t) /\ OwnersInv'
<1>1. pc[t] \in {"del_load", "del_store", "set_load", "set_store"} /\ TypeInv
  BY DEF DelCountLoad, DelCountStore, SetCountLoad, SetCountStore, At, OwnersInv
<1>2. PICK s \in Slots : Mine(t, s)
  BY <1>1, MineHolds DEF Busy, Labels
<1>3. /\ s = Index(t)
      /\ pc[t] \in {"del_load", "del_store"} => slot[s] = NULL
      /\ pc[t] \in {"set_load", "set_store"} => slot[s] # NULL /\ cell[slot[s]].block = NULL
  BY <1>1, <1>2 DEF Mine, Place, InsertLabels
<1>4. UNCHANGED <<slot, cell, block, fault>>
  BY DEF DelCountLoad, DelCountStore, SetCountLoad, SetCountStore, heap
<1>5. CASE DelCountLoad(t) \/ SetCountLoad(t)
  <2>1. PICK label \in {"del_store", "set_store"} :
          /\ pc[t] = IF label = "del_store" THEN "del_load" ELSE "set_load"
          /\ Go(t, label) /\ Load(t, "num", count) /\ UNCHANGED pending
    BY <1>5 DEF DelCountLoad, SetCountLoad, At, session
  <2>2. Frame(t) /\ pc'[t] = label /\ pending'[t] = pending[t]
    <3>1. count \in Texts
      BY <1>1 DEF TypeInv, TypeOK, Texts
    <3> QED BY <1>1, <2>1, <3>1, Moves DEF Labels
  <2>3. Place(t, s)'
    BY <1>3, <1>4, <2>1, <2>2 DEF Place, ReadLabels, InsertLabels
  <2> QED BY <1>1, <1>2, <1>4, <2>2, <2>3, SameHeapOwners DEF Freeing, Busy, Labels
<1>6. CASE DelCountStore(t)
  <2>1. Deleted(t) /\ slot[s] = NULL
    BY <1>3, <1>6 DEF DelCountStore, At
  <2>2. Frame(t) /\ (pc'[t] = "idle" \/ (pc'[t] = "set" /\ pending'[t] = pending[t]))
    BY <1>1, <2>1, DeletedMoves
  <2>3. Settled(s) /\ Settled(s)'
    BY <1>4, <2>1, SettledSame DEF Settled
  <2>4. pc'[t] = "set" => Place(t, s)'
    BY <1>4, <2>3 DEF Place, ReadLabels, InsertLabels
  <2> QED BY <1>1, <1>2, <1>4, <2>2, <2>3, <2>4, SameHeapOwners DEF Freeing, Busy, Labels
<1>7. CASE SetCountStore(t)
  <2>1. Return(t, "set_fields") /\ UNCHANGED <<pending, before>> /\ pc[t] = "set_store"
    BY <1>7 DEF SetCountStore, At, session
  <2>2. Frame(t) /\ pc'[t] = "set_fields" /\ pending'[t] = pending[t]
    BY <1>1, <2>1, Moves DEF Labels
  <2>3. Place(t, s)'
    BY <1>3, <1>4, <2>1, <2>2 DEF Place, ReadLabels, InsertLabels
  <2> QED BY <1>1, <1>2, <1>4, <2>2, <2>3, SameHeapOwners DEF Freeing, Busy, Labels
<1> QED BY <1>5, <1>6, <1>7

LEMMA SetFindOwners ==
  ASSUME OwnSlots, OwnersInv, TypeInv', NEW t \in Threads, SetFind(t)
  PROVE  OwnStep(t) /\ OwnersInv'
<1>1. pc[t] = "set" /\ TypeInv
  BY DEF SetFind, At, OwnersInv
<1>2. PICK s \in Slots : Mine(t, s)
  BY <1>1, MineHolds DEF Busy, Labels
<1>3. Settled(s) /\ s = Index(t)
  BY <1>1, <1>2 DEF Mine, Place
<1>4. UNCHANGED <<slot, cell, block, fault>>
  BY DEF SetFind, heap
<1> DEFINE label == IF slot[s] = NULL THEN "set_alloc" ELSE "set_fields"
<1>5. Frame(t) /\ pc'[t] = label /\ pending'[t] = pending[t]
  <2>1. Go(t, label) /\ UNCHANGED <<pending, reg>> /\ label \in Labels
    BY <1>3 DEF SetFind, session, Labels
  <2> HIDE DEF label
  <2> QED BY <1>1, <2>1, Moves
<1>6. slot[s] # NULL => cell[slot[s]].block \in Blocks
  BY <1>3 DEF Settled, ReadsAs, IsBlock
<1>7. Place(t, s)'
  BY <1>4, <1>5, <1>6 DEF Place, ReadLabels, InsertLabels
<1> QED BY <1>1, <1>2, <1>4, <1>5, <1>7, SameHeapOwners DEF Freeing, Busy, Labels

\* A thread that takes a request, or reads the counter, touches no memory.
LEMMA OutsideOwners ==
  ASSUME OwnersInv, TypeInv', NEW t \in Threads, pc[t] \in {"idle", "stt"},
         UNCHANGED <<slot, cell, block, fault>>, Frame(t), pc'[t] \notin Freeing,
         pc'[t] \in Busy => Place(t, Index(t))'
  PROVE  OwnersInv'
<1>1. ASSUME NEW u \in Threads \ {t}
      PROVE  /\ pc'[u] = pc[u] /\ reg'[u] = reg[u] /\ pending'[u] = pending[u]
             /\ Index(u)' = Index(u) /\ New(u)' = New(u)
  BY DEF Frame, Index, New, Command
<1>2. ASSUME NEW i \in Slots, NEW labels \in SUBSET Freeing
      PROVE  Working(i, labels)' <=> Working(i, labels)
  <2>1. pc[t] \notin labels /\ pc'[t] \notin labels
    BY DEF Freeing
  <2> QED BY <1>1, <2>1 DEF Working
<1>3. ASSUME NEW i \in Slots
      PROVE  /\ \A c \in Cells : OwnsCell(i, c)' <=> OwnsCell(i, c)
             /\ \A b \in Blocks : OwnsBlock(i, b)' <=> OwnsBlock(i, b)
             /\ Settled(i)' <=> Settled(i)
  <2>1. Working(i, {"del_unlink"})' <=> Working(i, {"del_unlink"})
    BY <1>2 DEF Freeing
  <2>2. Working(i, {"del_cell", "del_unlink", "set_block"})'
          <=> Working(i, {"del_cell", "del_unlink", "set_block"})
    BY <1>2 DEF Freeing
  <2> QED BY <2>1, <2>2, SettledSame DEF OwnsCell, OwnsBlock
<1>4. Owned'
  BY <1>3 DEF OwnersInv, Owned
<1>5. ASSUME NEW u \in Threads \ {t}, pc'[u] \in Busy PROVE Place(u, Index(u))'
  <2>1. PICK i \in Slots : i = Index(u) /\ pc[u] \in Busy /\ Place(u, i)
    BY <1>1, <1>5, AtSlot DEF OwnersInv, Busy
  <2>2. Place(u, i)'
    BY <1>1, <1>3, <2>1 DEF Place
  <2> QED BY <1>1, <2>1, <2>2
<1>6. ASSUME NEW i \in Slots PROVE Settled(i)' \/ Working(i, Busy)'
  <2>1. pc[t] \notin Busy
    BY DEF Busy
  <2>2. Working(i, Busy) => Working(i, Busy)'
    BY <1>1, <2>1 DEF Working
  <2> QED BY <1>3, <2>2 DEF OwnersInv
<1> QED BY <1>4, <1>5, <1>6 DEF OwnersInv

LEMMA SttOwners ==
  ASSUME OwnersInv, TypeInv', NEW t \in Threads, Stt(t)
  PROVE  OwnersInv'
<1>1. Frame(t) /\ pc'[t] = "idle"
  BY Moves DEF Stt, OwnersInv
<1> QED BY <1>1, OutsideOwners DEF Stt, At, heap, Freeing, Busy

\* A request comes for a slot nobody works on.
LEMMA SendOwners ==
  ASSUME OwnSlots, OwnersInv, TypeInv', NEW t \in Threads, NEW r \in May[t], Send(t, r)
  PROVE  /\ OwnersInv'
         /\ r.cmd # "STT" => Settled(Hash[r.key]) /\ ~ Working(Hash[r.key], Busy)
<1> DEFINE s == Hash[r.key]
<1>1. /\ pc[t] = "idle" /\ UNCHANGED <<slot, cell, block, fault>> /\ Frame(t)
      /\ pending'[t] = r
  BY DEF Send, At, Go, Frame, heap, OwnersInv, TypeInv, TypeOK
<1>2. /\ r.cmd \in {"SET", "ADD", "INC", "DEC", "GET", "DEL", "STT"}
      /\ r.cmd # "STT" => s \in Slots
  BY MayRequest
<1>3. /\ r.cmd = "SET" => pc'[t] = "del"
      /\ r.cmd = "ADD" => pc'[t] = "exists"
      /\ r.cmd \in {"GET", "DEL"} => pc'[t] = "get"
      /\ r.cmd \in {"INC", "DEC"} => pc'[t] = "inc"
      /\ r.cmd = "STT" => pc'[t] = "stt"
  BY <1>2 DEF Send, Go, OwnersInv, TypeInv, TypeOK
<1>4. ASSUME r.cmd # "STT" PROVE Settled(s) /\ ~ Working(s, Busy)
  <2>1. ASSUME NEW u \in Threads, pc[u] \in Busy PROVE Index(u) # s
    <3>1. u # t /\ pending[u] \in May[u] /\ pending[u].cmd # "STT"
      BY <1>1, <2>1, AtSlot DEF Busy, OwnersInv, Command
    <3> QED BY <1>4, <3>1 DEF OwnSlots, Index
  <2>2. ~ Working(s, Busy)
    BY <2>1 DEF Working
  <2> QED BY <1>2, <1>4, <2>2 DEF OwnersInv
<1>5. ASSUME pc'[t] \in Busy PROVE Place(t, Index(t))'
  <2>1. r.cmd # "STT"
    BY <1>3, <1>5 DEF Busy
  <2>2. PICK i \in Slots : i = s
    BY <1>2, <2>1
  <2>3. Settled(i)' /\ Index(t)' = i
    BY <1>1, <1>4, <2>1, <2>2, SettledSame DEF Index
  <2>4. Place(t, i)'
    BY <1>2, <1>3, <2>1, <2>3 DEF Place, ReadLabels, InsertLabels
  <2> QED BY <2>3, <2>4
<1>6. OwnersInv'
  BY <1>1, <1>2, <1>3, <1>5, OutsideOwners DEF Freeing
<1> QED BY <1>4, <1>6

-----------------------------------------------------------------------------
(***************************************************************************)
(* The steps that change the memory.                                       *)
(***************************************************************************)
\* What the thread's slot owns after a step.
LEMMA OwnsAfter ==
  ASSUME OwnSlots, OwnersInv, TypeInv', NEW t \in Threads, NEW s, Mine(t, s), OwnStep(t)
  PROVE  /\ \A c \in Cells : OwnsCell(s, c)' <=> slot'[s] = c /\ pc'[t] # "del_unlink"
         /\ \A b \in Blocks :
              OwnsBlock(s, b)' <=>
                slot'[s] # NULL /\ cell'[slot'[s]].block = b /\ pc'[t] \notin Freeing
<1>1. /\ {"del_unlink"} \in SUBSET Busy
      /\ {"del_cell", "del_unlink", "set_block"} \in SUBSET Busy
  BY DEF Busy, Labels
<1>2. /\ Working(s, {"del_unlink"})' <=> pc'[t] = "del_unlink"
      /\ Working(s, {"del_cell", "del_unlink", "set_block"})' <=> pc'[t] \in Freeing
  BY <1>1, WorkingStep DEF OwnersInv, Mine, Freeing
<1>3. slot'[s] \in Cells \cup {NULL}
  BY DEF Mine, TypeInv, TypeOK
<1> QED BY <1>2, <1>3, MemoryAssumption DEF OwnsCell, OwnsBlock

\* A number, or a fresh block, is given a value: IncStore and SetValue.
LEMMA WriteOwners ==
  ASSUME OwnSlots, OwnersInv, TypeInv', NEW t \in Threads, NEW s, Mine(t, s),
         slot[s] # NULL, pc[t] \notin Freeing,
         NEW b \in Blocks, b = cell[slot[s]].block, block[b].type = cell[slot[s]].type,
         NEW val \in Texts, block' = [block EXCEPT ![b].val = val],
         UNCHANGED <<slot, cell, fault>>, Frame(t),
         pc'[t] = "idle" \/ (pc'[t] = "get" /\ pending'[t] = pending[t])
  PROVE  /\ OwnStep(t) /\ OwnersInv'
         /\ Content(s)' = [type |-> cell[slot[s]].type, val |-> val]
<1> DEFINE p == slot[s]
<1>0. s \in Slots /\ p \in Cells /\ IsCell(p) /\ IsBlock(b) /\ TypeInv /\ val # Junk
  BY MemoryAssumption DEF Mine, OwnersInv, Freeing
<1>1. /\ \A c \in Blocks \ {b} : block'[c] = block[c]
      /\ \A c \in Blocks : block'[c].live = block[c].live
      /\ block'[b].type = block[b].type /\ block'[b].val = val
  BY <1>0 DEF TypeInv, TypeOK
<1>2. OwnsBlock(s, b) /\ OwnsCell(s, p)
  BY <1>0 DEF Mine, Freeing
<1>3. OwnStep(t)
  BY <1>1, <1>2 DEF OwnStep, Mine, Busy, Labels
<1>4. pc'[t] \notin Freeing
  BY DEF Freeing
<1>5. /\ \A c \in Cells : OwnsCell(s, c)' <=> c = p
      /\ \A c \in Blocks : OwnsBlock(s, c)' <=> c = b
  BY <1>0, <1>3, <1>4, OwnsAfter DEF Freeing
<1>6. /\ \A c \in Cells : OwnsCell(s, c) <=> c = p
      /\ \A c \in Blocks : OwnsBlock(s, c) <=> c = b
  BY <1>0 DEF Mine, Freeing
<1>7. Trades(s)
  BY <1>0, <1>1, <1>5, <1>6 DEF Trades, IsCell, IsBlock
<1>8. Settled(s)'
  BY <1>0, <1>1 DEF Settled, ReadsAs, IsCell, IsBlock
<1>9. pc'[t] \in Busy => Place(t, s)'
  BY <1>8 DEF Busy, Place, ReadLabels, InsertLabels
<1>10. Content(s)' = [type |-> cell[p].type, val |-> val]
  BY <1>0, <1>1 DEF Content, ReadsAs, IsCell, IsBlock
<1>11. OwnersInv'
  BY <1>3, <1>7, <1>8, <1>9, OwnersStep DEF Mine
<1> QED BY <1>3, <1>10, <1>11

LEMMA IncStoreOwners ==
  ASSUME OwnSlots, OwnersInv, TypeInv', NEW t \in Threads, IncStore(t)
  PROVE  /\ OwnStep(t) /\ OwnersInv'
         /\ Content(Index(t)) # NULL
         /\ \A s \in Slots : s = Index(t) =>
              Content(s)' = Shifted(Content(s), Change(pending[t]))
<1> DEFINE old == [type |-> reg[t].type, val |-> reg[t].num]
           new == Shifted(old, Change(pending[t])).val
<1>1. /\ pc[t] = "inc_store" /\ TypeInv /\ pending[t] \in May[t] /\ Command(t) \in {"INC", "DEC"}
      /\ reg[t].type # CACHE_VALUE_STRING /\ reg[t].num \in Int
  BY DEF IncStore, At, OwnersInv, TypeInv, Handling, Holding, IncLabels
<1>2. PICK s \in Slots : Mine(t, s)
  BY <1>1, MineHolds DEF Busy, Labels
<1> DEFINE p == slot[s]
           b == cell[p].block
<1>3. /\ Settled(s) /\ p # NULL /\ reg[t].type = cell[p].type /\ reg[t].block = b
      /\ reg[t].num = block[b].val /\ s = Index(t) /\ IsCell(p)
  BY <1>1, <1>2 DEF Mine, Place, ReadLabels
<1>4. ReadsAs(p, cell[p].type) /\ IsBlock(b) /\ b \in Blocks /\ block[b].type = cell[p].type
  BY <1>3 DEF Settled, ReadsAs, IsBlock
<1>5. new \in Int
  <2>1. old \in Value /\ IsNumber(old)
    BY <1>1 DEF TypeInv, TypeOK, Registers, Types, Value, IsNumber
  <2>2. Change(pending[t]) \in Int
    BY <1>1, MayRequest DEF Command
  <2> QED BY <2>1, <2>2, ShiftedIsWhole DEF Value, IsNumber
<1>6. /\ block' = [block EXCEPT ![b].val = new] /\ Return(t, "get")
      /\ UNCHANGED <<slot, cell, fault>> /\ UNCHANGED <<pending, before>>
  BY <1>3, <1>4 DEF IncStore, Checked, session
<1>7. Frame(t) /\ pc'[t] = "get" /\ pending'[t] = pending[t]
  BY <1>1, <1>6, Moves DEF Labels
<1>8. Content(s) = old
  BY <1>3, <1>4 DEF Content
<1>9. Shifted(old, Change(pending[t])) = [type |-> cell[p].type, val |-> new]
  BY <1>3 DEF Shifted
<1> HIDE DEF new
<1>10. OwnStep(t) /\ OwnersInv' /\ Content(s)' = [type |-> cell[p].type, val |-> new]
  BY <1>1, <1>2, <1>3, <1>4, <1>5, <1>6, <1>7, WriteOwners DEF Texts, Freeing
<1>11. old # NULL
  BY <1>1, NullAssumption DEF TypeInv, TypeOK, Registers, Types, Value
<1> QED BY <1>3, <1>8, <1>9, <1>10, <1>11

LEMMA SetValueOwners ==
  ASSUME OwnSlots, OwnersInv, TypeInv', NEW t \in Threads, SetValue(t)
  PROVE  /\ OwnStep(t) /\ OwnersInv'
         /\ \A s \in Slots : s = Index(t) => Content(s)' = New(t)
<1>1. /\ pc[t] = "set_value" /\ TypeInv
      /\ New(t) \in Value /\ New(t).val \in Texts
  BY NewAt DEF SetValue, At, OwnersInv, SetLabels
<1>2. PICK s \in Slots : Mine(t, s)
  BY <1>1, MineHolds DEF Busy, Labels
<1> DEFINE p == slot[s]
           b == cell[p].block
<1>3. /\ p # NULL /\ s = Index(t) /\ IsCell(p) /\ IsBlock(b) /\ b \in Blocks
      /\ block[b].type = New(t).type /\ cell[p].type = New(t).type
  BY <1>1, <1>2 DEF Mine, Place, InsertLabels, Freeing
<1>4. /\ block' = [block EXCEPT ![b].val = New(t).val] /\ UNCHANGED <<slot, cell, fault>>
      /\ (Return(t, "get") /\ UNCHANGED session) \/ Finish(t)
  BY <1>3 DEF SetValue, Checked
<1>5. Frame(t) /\ (pc'[t] = "idle" \/ (pc'[t] = "get" /\ pending'[t] = pending[t]))
  BY <1>1, <1>4, Moves DEF session, Labels
<1>6. [type |-> New(t).type, val |-> New(t).val] = New(t)
  BY <1>1 DEF Value
<1>7. OwnStep(t) /\ OwnersInv' /\ Content(s)' = New(t)
  BY <1>1, <1>2, <1>3, <1>4, <1>5, <1>6, WriteOwners DEF Freeing
<1> QED BY <1>3, <1>7

LEMMA DelFreeValueOwners ==
  ASSUME OwnSlots, OwnersInv, TypeInv', NEW t \in Threads, DelFreeValue(t)
  PROVE  OwnStep(t) /\ OwnersInv'
<1>1. pc[t] = "del_value" /\ TypeInv
  BY DEF DelFreeValue, At, OwnersInv
<1>2. PICK s \in Slots : Mine(t, s)
  BY <1>1, MineHolds DEF Busy, Labels
<1> DEFINE p == slot[s]
           b == cell[p].block
<1>3. p # NULL /\ reg[t].cell = p /\ IsCell(p) /\ IsBlock(b) /\ s \in Slots
  BY <1>1, <1>2 DEF Mine, Place, ReadLabels, Settled, ReadsAs
<1>4. /\ block' = [block EXCEPT ![b] = Free] /\ Go(t, "del_cell")
      /\ UNCHANGED <<slot, cell, fault>> /\ UNCHANGED <<pending, reg>>
  BY <1>3, MemoryAssumption DEF DelFreeValue, Checked, Freeable, Freed, session, IsBlock
<1>5. Frame(t) /\ pc'[t] = "del_cell" /\ pending'[t] = pending[t] /\ reg'[t] = reg[t]
  BY <1>1, <1>4, Moves DEF Labels
<1>6. /\ \A c \in Blocks \ {b} : block'[c] = block[c]
      /\ ~ block'[b].live
  BY <1>3, <1>4 DEF TypeInv, TypeOK, IsBlock, Free
<1>7. /\ \A c \in Cells : OwnsCell(s, c) <=> c = p
      /\ \A c \in Blocks : OwnsBlock(s, c) <=> c = b
  BY <1>1, <1>2, <1>3 DEF Mine, Freeing
<1>8. OwnStep(t)
  BY <1>1, <1>2, <1>4, <1>5, <1>6, <1>7 DEF OwnStep, Mine, Busy, Labels
<1>9. /\ \A c \in Cells : OwnsCell(s, c)' <=> c = p
      /\ \A c \in Blocks : ~ OwnsBlock(s, c)'
  BY <1>2, <1>4, <1>5, <1>8, OwnsAfter DEF Freeing
<1>10. Trades(s)
  BY <1>3, <1>4, <1>6, <1>7, <1>9 DEF Trades, IsCell, IsBlock
<1>11. Place(t, s)'
  BY <1>3, <1>4, <1>5 DEF Place, ReadLabels, InsertLabels
<1> QED BY <1>2, <1>5, <1>8, <1>10, <1>11, OwnersStep DEF Mine

LEMMA DelFreeCellOwners ==
  ASSUME OwnSlots, OwnersInv, TypeInv', NEW t \in Threads, DelFreeCell(t)
  PROVE  OwnStep(t) /\ OwnersInv'
<1>1. pc[t] = "del_cell" /\ TypeInv
  BY DEF DelFreeCell, At, OwnersInv
<1>2. PICK s \in Slots : Mine(t, s)
  BY <1>1, MineHolds DEF Busy, Labels
<1> DEFINE p == slot[s]
<1>3. p # NULL /\ reg[t].cell = p /\ IsCell(p) /\ s \in Slots
  BY <1>1, <1>2 DEF Mine, Place, ReadLabels
<1>4. /\ cell' = [cell EXCEPT ![p] = [live |-> FALSE, type |-> Junk, block |-> Junk]]
      /\ Go(t, "del_unlink") /\ UNCHANGED <<slot, block, fault>> /\ UNCHANGED <<pending, reg>>
  BY <1>3 DEF DelFreeCell, Checked, session
<1>5. Frame(t) /\ pc'[t] = "del_unlink" /\ pending'[t] = pending[t] /\ reg'[t] = reg[t]
  BY <1>1, <1>4, Moves DEF Labels
<1>6. /\ \A c \in Cells \ {p} : cell'[c] = cell[c]
      /\ ~ cell'[p].live
  BY <1>3, <1>4 DEF TypeInv, TypeOK, IsCell
<1>7. /\ \A c \in Cells : OwnsCell(s, c) <=> c = p
      /\ \A c \in Blocks : ~ OwnsBlock(s, c)
  BY <1>1, <1>2, <1>3 DEF Mine, Freeing
<1>8. OwnStep(t)
  BY <1>1, <1>2, <1>4, <1>5, <1>6, <1>7 DEF OwnStep, Mine, Busy, Labels
<1>9. /\ \A c \in Cells : ~ OwnsCell(s, c)'
      /\ \A c \in Blocks : ~ OwnsBlock(s, c)'
  BY <1>2, <1>5, <1>8, OwnsAfter DEF Freeing
<1>10. Trades(s)
  BY <1>3, <1>4, <1>6, <1>7, <1>9 DEF Trades, IsCell
<1>11. Place(t, s)'
  BY <1>3, <1>4, <1>5 DEF Place, ReadLabels, InsertLabels
<1> QED BY <1>2, <1>5, <1>8, <1>10, <1>11, OwnersStep DEF Mine

LEMMA DelUnlinkOwners ==
  ASSUME OwnSlots, OwnersInv, TypeInv', NEW t \in Threads, DelUnlink(t)
  PROVE  OwnStep(t) /\ OwnersInv'
<1>1. pc[t] = "del_unlink" /\ TypeInv
  BY DEF DelUnlink, At, OwnersInv
<1>2. PICK s \in Slots : Mine(t, s)
  BY <1>1, MineHolds DEF Busy, Labels
<1>3. /\ slot' = [slot EXCEPT ![s] = NULL] /\ s \in Slots
      /\ Go(t, "del_load") /\ UNCHANGED <<cell, block, fault>> /\ UNCHANGED <<pending, reg>>
  BY <1>2 DEF DelUnlink, session, Mine
<1>4. Frame(t) /\ pc'[t] = "del_load" /\ pending'[t] = pending[t]
  BY <1>1, <1>3, Moves DEF Labels
<1>5. slot'[s] = NULL /\ \A i \in Slots \ {s} : slot'[i] = slot[i]
  BY <1>1, <1>3 DEF TypeInv, TypeOK
<1>6. /\ \A c \in Cells : ~ OwnsCell(s, c)
      /\ \A c \in Blocks : ~ OwnsBlock(s, c)
  BY <1>1, <1>2 DEF Mine, Freeing
<1>7. OwnStep(t)
  BY <1>1, <1>2, <1>3, <1>4, <1>5 DEF OwnStep, Mine, Busy, Labels
<1>8. /\ \A c \in Cells : ~ OwnsCell(s, c)'
      /\ \A c \in Blocks : ~ OwnsBlock(s, c)'
  BY <1>2, <1>5, <1>7, OwnsAfter, MemoryAssumption
<1>9. Trades(s)
  BY <1>3, <1>6, <1>8 DEF Trades
<1>10. Place(t, s)'
  BY <1>4, <1>5 DEF Place, ReadLabels, InsertLabels
<1> QED BY <1>2, <1>4, <1>7, <1>9, <1>10, OwnersStep DEF Mine

LEMMA SetAllocOwners ==
  ASSUME OwnSlots, OwnersInv, TypeInv', NEW t \in Threads, SetAlloc(t)
  PROVE  OwnStep(t) /\ OwnersInv'
<1>1. pc[t] = "set_alloc" /\ TypeInv
  BY DEF SetAlloc, At, OwnersInv
<1>2. PICK s \in Slots : Mine(t, s)
  BY <1>1, MineHolds DEF Busy, Labels
<1>3. slot[s] = NULL
  BY <1>1, <1>2 DEF Mine, Place
<1>4. PICK p \in Cells :
        /\ ~ cell[p].live
        /\ cell' = [cell EXCEPT ![p] = [live |-> TRUE, type |-> Junk, block |-> Junk]]
        /\ slot' = [slot EXCEPT ![s] = p]
  BY <1>2 DEF SetAlloc, Mine
<1>5. Go(t, "set_null") /\ UNCHANGED <<block, fault>> /\ UNCHANGED <<pending, reg>>
  BY DEF SetAlloc, session
<1>6. Frame(t) /\ pc'[t] = "set_null" /\ pending'[t] = pending[t]
  BY <1>1, <1>5, Moves DEF Labels
<1>7. /\ slot'[s] = p /\ \A i \in Slots \ {s} : slot'[i] = slot[i]
      /\ cell'[p].live /\ cell'[p].block = Junk /\ \A c \in Cells \ {p} : cell'[c] = cell[c]
  BY <1>1, <1>4 DEF TypeInv, TypeOK
<1>8. /\ \A c \in Cells : ~ OwnsCell(s, c)
      /\ \A c \in Blocks : ~ OwnsBlock(s, c)
  BY <1>2, <1>3, MemoryAssumption DEF Mine
<1>9. OwnStep(t)
  BY <1>1, <1>2, <1>4, <1>5, <1>6, <1>7 DEF OwnStep, Mine, Busy, Labels
<1>10. /\ \A c \in Cells : OwnsCell(s, c)' <=> c = p
       /\ \A c \in Blocks : ~ OwnsBlock(s, c)'
  BY <1>2, <1>6, <1>7, <1>9, OwnsAfter, MemoryAssumption
<1>11. Trades(s)
  BY <1>4, <1>5, <1>7, <1>8, <1>10 DEF Trades
<1>12. Place(t, s)'
  BY <1>6, <1>7, MemoryAssumption DEF Place, ReadLabels, InsertLabels
<1> QED BY <1>2, <1>6, <1>9, <1>11, <1>12, OwnersStep DEF Mine

\* A field of the cell is filled in: SetNull and SetFields.
LEMMA FillOwners ==
  ASSUME OwnSlots, OwnersInv, TypeInv', NEW t \in Threads, NEW s, Mine(t, s),
         slot[s] # NULL, pc[t] \notin Freeing,
         \A c \in Cells \ {slot[s]} : cell'[c] = cell[c],
         cell'[slot[s]].live,
         \/ cell'[slot[s]].block = cell[slot[s]].block
         \/ cell[slot[s]].block \notin Blocks /\ cell'[slot[s]].block \notin Blocks,
         UNCHANGED <<slot, block, fault>>, Frame(t), pc'[t] \in Busy \ Freeing,
         pending'[t] = pending[t], Place(t, s)'
  PROVE  OwnStep(t) /\ OwnersInv'
<1> DEFINE p == slot[s]
<1>1. p \in Cells /\ IsCell(p) /\ s \in Slots
  BY DEF Mine, Freeing
<1>2. /\ \A c \in Cells : OwnsCell(s, c) <=> c = p
      /\ \A c \in Blocks : OwnsBlock(s, c) <=> c = cell[p].block
  BY DEF Mine, Freeing
<1>3. OwnStep(t)
  BY <1>2 DEF OwnStep, Mine
<1>4. /\ \A c \in Cells : OwnsCell(s, c)' <=> c = p
      /\ \A c \in Blocks : OwnsBlock(s, c)' <=> c = cell'[p].block
  BY <1>3, OwnsAfter DEF Freeing
<1>5. \A b \in Blocks : OwnsBlock(s, b)' <=> OwnsBlock(s, b)
  BY <1>2, <1>4
<1>6. \A b \in Blocks : OwnsBlock(s, b) => block[b].live
  BY <1>1 DEF OwnersInv, Owned
<1>7. Trades(s)
  BY <1>1, <1>2, <1>4, <1>5, <1>6 DEF Trades, IsCell
<1> QED BY <1>3, <1>7, OwnersStep DEF Mine, Busy

LEMMA SetNullOwners ==
  ASSUME OwnSlots, OwnersInv, TypeInv', NEW t \in Threads, SetNull(t)
  PROVE  OwnStep(t) /\ OwnersInv'
<1>1. pc[t] = "set_null" /\ TypeInv
  BY DEF SetNull, At, OwnersInv
<1>2. PICK s \in Slots : Mine(t, s)
  BY <1>1, MineHolds DEF Busy, Labels
<1> DEFINE p == slot[s]
<1>3. p # NULL /\ IsCell(p) /\ cell[p].block = Junk /\ s = Index(t)
  BY <1>1, <1>2 DEF Mine, Place, InsertLabels
<1>4. /\ cell' = [cell EXCEPT ![p].block = NULL] /\ Go(t, "set_load")
      /\ UNCHANGED <<slot, block, fault>> /\ UNCHANGED <<pending, reg>>
  BY <1>3 DEF SetNull, Checked, session
<1>5. Frame(t) /\ pc'[t] = "set_load" /\ pending'[t] = pending[t]
  BY <1>1, <1>4, Moves DEF Labels
<1>6. /\ \A c \in Cells \ {p} : cell'[c] = cell[c]
      /\ cell'[p].live /\ cell'[p].block = NULL
  BY <1>1, <1>3, <1>4 DEF TypeInv, TypeOK, IsCell
<1>7. Place(t, s)'
  BY <1>3, <1>4, <1>5, <1>6 DEF Place, ReadLabels, InsertLabels
<1>8. cell[p].block \notin Blocks /\ cell'[p].block \notin Blocks
  BY <1>3, <1>6, MemoryAssumption
<1> QED BY <1>1, <1>2, <1>3, <1>4, <1>5, <1>6, <1>7, <1>8, FillOwners DEF Freeing, Busy, Labels

LEMMA SetFieldsOwners ==
  ASSUME OwnSlots, OwnersInv, TypeInv', NEW t \in Threads, SetFields(t)
  PROVE  OwnStep(t) /\ OwnersInv'
<1>1. pc[t] = "set_fields" /\ TypeInv
  BY DEF SetFields, At, OwnersInv
<1>2. PICK s \in Slots : Mine(t, s)
  BY <1>1, MineHolds DEF Busy, Labels
<1> DEFINE p == slot[s]
<1>3. p # NULL /\ IsCell(p) /\ cell[p].block \in Blocks \cup {NULL} /\ s = Index(t)
  BY <1>1, <1>2 DEF Mine, Place, InsertLabels
<1>4. /\ cell' = [cell EXCEPT ![p].type = New(t).type] /\ Go(t, "set_free")
      /\ UNCHANGED <<slot, block, fault>> /\ UNCHANGED <<pending, reg>>
  BY <1>3 DEF SetFields, Checked, session
<1>5. Frame(t) /\ pc'[t] = "set_free" /\ pending'[t] = pending[t] /\ New(t)' = New(t)
  BY <1>1, <1>4, Moves DEF Labels, New, Command
<1>6. /\ \A c \in Cells \ {p} : cell'[c] = cell[c]
      /\ cell'[p].live /\ cell'[p].block = cell[p].block /\ cell'[p].type = New(t).type
  BY <1>1, <1>3, <1>4 DEF TypeInv, TypeOK, IsCell
<1>7. Place(t, s)'
  BY <1>3, <1>4, <1>5, <1>6 DEF Place, ReadLabels, InsertLabels
<1> QED BY <1>1, <1>2, <1>3, <1>4, <1>5, <1>6, <1>7, FillOwners DEF Freeing, Busy, Labels

LEMMA SetFreeOldOwners ==
  ASSUME OwnSlots, OwnersInv, TypeInv', NEW t \in Threads, SetFreeOld(t)
  PROVE  OwnStep(t) /\ OwnersInv'
<1>1. pc[t] = "set_free" /\ TypeInv
  BY DEF SetFreeOld, At, OwnersInv
<1>2. PICK s \in Slots : Mine(t, s)
  BY <1>1, MineHolds DEF Busy, Labels
<1> DEFINE p == slot[s]
           b == cell[p].block
<1>3. /\ p # NULL /\ IsCell(p) /\ s = Index(t) /\ s \in Slots
      /\ b \in Blocks \cup {NULL} /\ (b \in Blocks => IsBlock(b))
      /\ cell[p].type = New(t).type
  BY <1>1, <1>2 DEF Mine, Place, InsertLabels, Freeing
<1>4. /\ block' = Freed(b) /\ Go(t, "set_block")
      /\ UNCHANGED <<slot, cell, fault>> /\ UNCHANGED <<pending, reg>>
  BY <1>3 DEF SetFreeOld, Checked, Freeable, session
<1>5. Frame(t) /\ pc'[t] = "set_block" /\ pending'[t] = pending[t] /\ New(t)' = New(t)
  BY <1>1, <1>4, Moves DEF Labels, New, Command
<1>6. /\ \A c \in Blocks \ {b} : block'[c] = block[c]
      /\ b \in Blocks => ~ block'[b].live
  BY <1>1, <1>3, <1>4, MemoryAssumption DEF TypeInv, TypeOK, Freed, Free
<1>7. /\ \A c \in Cells : OwnsCell(s, c) <=> c = p
      /\ \A c \in Blocks : OwnsBlock(s, c) <=> c = b
  BY <1>1, <1>2, <1>3 DEF Mine, Freeing
<1>8. OwnStep(t)
  BY <1>1, <1>2, <1>4, <1>5, <1>6, <1>7 DEF OwnStep, Mine, Busy, Labels
<1>9. /\ \A c \in Cells : OwnsCell(s, c)' <=> c = p
      /\ \A c \in Blocks : ~ OwnsBlock(s, c)'
  BY <1>2, <1>4, <1>5, <1>8, OwnsAfter DEF Freeing
<1>10. Trades(s)
  BY <1>3, <1>4, <1>6, <1>7, <1>9 DEF Trades, IsCell
<1>11. Place(t, s)'
  BY <1>3, <1>4, <1>5 DEF Place, ReadLabels, InsertLabels
<1> QED BY <1>2, <1>5, <1>8, <1>10, <1>11, OwnersStep DEF Mine

LEMMA SetBlockOwners ==
  ASSUME OwnSlots, OwnersInv, TypeInv', NEW t \in Threads, SetBlock(t)
  PROVE  OwnStep(t) /\ OwnersInv'
<1>1. pc[t] = "set_block" /\ TypeInv
  BY DEF SetBlock, At, OwnersInv
<1>2. PICK s \in Slots : Mine(t, s)
  BY <1>1, MineHolds DEF Busy, Labels
<1> DEFINE p == slot[s]
<1>3. p # NULL /\ IsCell(p) /\ p \in Cells /\ s = Index(t) /\ s \in Slots /\ cell[p].type = New(t).type
  BY <1>1, <1>2 DEF Mine, Place, InsertLabels, IsCell
<1>4. PICK b \in Blocks :
        /\ ~ block[b].live
        /\ block' = [block EXCEPT ![b] = NewBlock(New(t).type)]
        /\ cell' = [cell EXCEPT ![p].block = b]
  BY <1>3 DEF SetBlock, Checked
<1>5. Go(t, "set_value") /\ UNCHANGED <<slot, fault>> /\ UNCHANGED <<pending, reg>>
  BY <1>3 DEF SetBlock, Checked, session
<1>6. Frame(t) /\ pc'[t] = "set_value" /\ pending'[t] = pending[t] /\ New(t)' = New(t)
  BY <1>1, <1>5, Moves DEF Labels, New, Command
<1>7. /\ \A c \in Blocks \ {b} : block'[c] = block[c]
      /\ block'[b].live /\ block'[b].type = New(t).type
      /\ \A c \in Cells \ {p} : cell'[c] = cell[c]
      /\ cell'[p].live /\ cell'[p].block = b /\ cell'[p].type = New(t).type
  BY <1>1, <1>3, <1>4 DEF TypeInv, TypeOK, NewBlock, IsCell
<1>8. /\ \A c \in Cells : OwnsCell(s, c) <=> c = p
      /\ \A c \in Blocks : ~ OwnsBlock(s, c)
  BY <1>1, <1>2, <1>3 DEF Mine, Freeing
<1>9. OwnStep(t)
  BY <1>1, <1>2, <1>4, <1>5, <1>6, <1>7, <1>8 DEF OwnStep, Mine, Busy, Labels
<1>10. /\ \A c \in Cells : OwnsCell(s, c)' <=> c = p
       /\ \A c \in Blocks : OwnsBlock(s, c)' <=> c = b
  BY <1>2, <1>3, <1>5, <1>6, <1>7, <1>9, OwnsAfter DEF Freeing
<1>11. Trades(s)
  BY <1>3, <1>4, <1>7, <1>8, <1>10 DEF Trades, IsCell
<1>12. Place(t, s)'
  BY <1>3, <1>5, <1>6, <1>7 DEF Place, ReadLabels, InsertLabels
<1> QED BY <1>2, <1>6, <1>9, <1>11, <1>12, OwnersStep DEF Mine

-----------------------------------------------------------------------------
(***************************************************************************)
(* The invariant, and what follows from it.                                *)
(***************************************************************************)
LEMMA OwnersInit == Init => OwnersInv
<1> SUFFICES ASSUME Init PROVE OwnersInv
  OBVIOUS
<1>1. PICK p \in [DOMAIN Preset -> Cells], b \in [DOMAIN Preset -> Blocks] :
        /\ \A i, j \in DOMAIN Preset : i # j => p[i] # p[j] /\ b[i] # b[j]
        /\ slot = [s \in Slots |-> IF s \in DOMAIN Preset THEN p[s] ELSE NULL]
        /\ \A s \in DOMAIN Preset :
             /\ cell[p[s]] = [live |-> TRUE, type |-> Preset[s].type, block |-> b[s]]
             /\ block[b[s]] = [live |-> TRUE, type |-> Preset[s].type, val |-> Preset[s].val]
        /\ \A c \in Cells : cell[c].live => \E s \in DOMAIN Preset : p[s] = c
        /\ \A c \in Blocks : block[c].live => \E s \in DOMAIN Preset : b[s] = c
  BY InitMemory
<1>2. \A t \in Threads : pc[t] = "idle"
  BY DEF Init
<1>3. \A s, labels : labels \subseteq Busy => ~ Working(s, labels)
  BY <1>2 DEF Working, Busy
<1>4. /\ \A s : ~ Working(s, {"del_unlink"})
      /\ \A s : ~ Working(s, {"del_cell", "del_unlink", "set_block"})
  BY <1>2 DEF Working
<1>5. \A s \in Slots : /\ s \in DOMAIN Preset => slot[s] = p[s] /\ p[s] \in Cells /\ b[s] \in Blocks
                       /\ s \notin DOMAIN Preset => slot[s] = NULL
  BY <1>1
<1>6. ASSUME NEW s \in Slots, NEW c \in Cells
      PROVE  OwnsCell(s, c) <=> s \in DOMAIN Preset /\ p[s] = c
  <2>1. OwnsCell(s, c) <=> slot[s] = c
    BY <1>4 DEF OwnsCell
  <2> QED BY <1>5, <2>1, MemoryAssumption
<1>7. ASSUME NEW s \in Slots, NEW c \in Blocks
      PROVE  OwnsBlock(s, c) <=> s \in DOMAIN Preset /\ b[s] = c
  <2>1. OwnsBlock(s, c) <=> slot[s] \in Cells /\ cell[slot[s]].block = c
    BY <1>4 DEF OwnsBlock
  <2>2. ASSUME s \in DOMAIN Preset
        PROVE  slot[s] = p[s] /\ p[s] \in Cells /\ cell[p[s]].block = b[s]
    <3>1. cell[p[s]] = [live |-> TRUE, type |-> Preset[s].type, block |-> b[s]]
      BY <1>1, <2>2
    <3> QED BY <1>5, <2>2, <3>1
  <2>3. s \notin DOMAIN Preset => slot[s] \notin Cells
    BY <1>5, MemoryAssumption
  <2> QED BY <2>1, <2>2, <2>3
<1>8. ASSUME NEW s \in DOMAIN Preset PROVE cell[p[s]].live /\ block[b[s]].live
  <2>1. /\ cell[p[s]] = [live |-> TRUE, type |-> Preset[s].type, block |-> b[s]]
        /\ block[b[s]] = [live |-> TRUE, type |-> Preset[s].type, val |-> Preset[s].val]
    BY <1>1
  <2> QED BY <2>1
<1>9. Owned
  <2>1. ASSUME NEW c \in Cells
        PROVE  /\ cell[c].live <=> \E s \in Slots : OwnsCell(s, c)
               /\ \A i, j \in Slots : OwnsCell(i, c) /\ OwnsCell(j, c) => i = j
    BY <1>1, <1>6, <1>8, PresetAssumption
  <2>2. ASSUME NEW c \in Blocks
        PROVE  /\ block[c].live <=> \E s \in Slots : OwnsBlock(s, c)
               /\ \A i, j \in Slots : OwnsBlock(i, c) /\ OwnsBlock(j, c) => i = j
    BY <1>1, <1>7, <1>8, PresetAssumption
  <2> QED BY <2>1, <2>2 DEF Owned
<1>10. ASSUME NEW s \in Slots PROVE Settled(s)
  <2>1. CASE s \in DOMAIN Preset
    <3>1. /\ cell[slot[s]] = [live |-> TRUE, type |-> Preset[s].type, block |-> b[s]]
          /\ block[b[s]] = [live |-> TRUE, type |-> Preset[s].type, val |-> Preset[s].val]
          /\ slot[s] \in Cells /\ b[s] \in Blocks
      BY <1>1, <1>5, <2>1
    <3>2. Preset[s].val \in Texts
      BY <2>1, PresetAssumption DEF Value, Texts
    <3>3. Preset[s].val # Junk
      BY <3>2, MemoryAssumption
    <3> QED BY <3>1, <3>3 DEF Settled, ReadsAs, IsCell, IsBlock
  <2>2. CASE s \notin DOMAIN Preset
    BY <1>5, <2>2 DEF Settled
  <2> QED BY <2>1, <2>2
<1>11. TypeInv /\ ~ fault
  BY TypeInit DEF Init
<1> QED BY <1>2, <1>9, <1>10, <1>11 DEF OwnersInv, Busy

\* Every step of a handler stays on its thread's slot and keeps the invariant.
LEMMA StepOwners ==
  ASSUME OwnSlots, OwnersInv, NEW t \in Threads, Step(t)
  PROVE  OwnersInv' /\ (~ Stt(t) => OwnStep(t))
<1>1. TypeInv'
  BY NextTypeInv DEF OwnersInv, Next
<1> QED BY <1>1, SttOwners, AddExistsOwners, GetFindOwners, GetTypeOwners, GetLengthOwners,
           GetValueOwners, DelFindOwners, DelFreeValueOwners, DelFreeCellOwners,
           DelUnlinkOwners, CountOwners, IncLookOwners, IncStoreOwners, SetFindOwners,
           SetAllocOwners, SetNullOwners, SetFieldsOwners, SetFreeOldOwners, SetBlockOwners,
           SetValueOwners
   DEF Step

LEMMA NextOwners ==
  ASSUME OwnSlots
  PROVE  OwnersInv /\ [Next]_vars => OwnersInv'
<1> SUFFICES ASSUME OwnersInv, [Next]_vars PROVE OwnersInv'
  OBVIOUS
<1>1. TypeInv'
  BY NextTypeInv DEF OwnersInv
<1>2. ASSUME NEW t \in Threads, NEW r \in May[t], Send(t, r) PROVE OwnersInv'
  BY <1>1, <1>2, SendOwners
<1>3. CASE UNCHANGED vars
  <2>1. UNCHANGED <<slot, cell, block, pc, reg, pending, fault>>
    BY <1>3 DEF vars, heap, session
  <2>2. ASSUME NEW t \in Threads
        PROVE  Index(t)' = Index(t) /\ New(t)' = New(t)
    BY <2>1 DEF Index, New, Command
  <2>3. \A s, labels : Working(s, labels)' <=> Working(s, labels)
    BY <2>1, <2>2 DEF Working
  <2>4. Owned'
    <3>1. \A s, c : OwnsCell(s, c)' <=> OwnsCell(s, c)
      BY <2>1, <2>3 DEF OwnsCell
    <3>2. \A s, b : OwnsBlock(s, b)' <=> OwnsBlock(s, b)
      BY <2>1, <2>3 DEF OwnsBlock
    <3> QED BY <2>1, <3>1, <3>2 DEF OwnersInv, Owned
  <2>5. \A s : Settled(s)' <=> Settled(s)
    BY <2>1, SettledSame
  <2>6. ASSUME NEW t \in Threads, pc'[t] \in Busy PROVE Place(t, Index(t))'
    <3>1. PICK s \in Slots : s = Index(t) /\ Place(t, s)
      BY <2>1, <2>6, AtSlot DEF OwnersInv, Busy
    <3>2. Place(t, s)'
      BY <2>1, <2>2, <2>5, <3>1 DEF Place
    <3> QED BY <2>2, <3>1, <3>2
  <2> QED BY <1>1, <2>1, <2>3, <2>4, <2>5, <2>6 DEF OwnersInv
<1> QED BY <1>2, <1>3, StepOwners DEF Next

LEMMA OwnersInvariance == OwnSlots => (Spec => []OwnersInv)
<1> SUFFICES ASSUME OwnSlots PROVE Spec => []OwnersInv
  OBVIOUS
<1> QED BY OwnersInit, NextOwners, PTL DEF Spec

\* However many threads there are, if no two of them use one slot, none does
\* anything undefined: every pointer a handler follows is to memory that is
\* allocated and filled in.
THEOREM OwnersNoFault == OwnSlots => (Spec => []NoFault)
<1>1. OwnersInv => NoFault
  BY DEF OwnersInv, NoFault
<1> QED BY <1>1, OwnersInvariance, PTL

\* What a handler on its own slot takes out of the table it frees, and no more:
\* between commands, what is allocated is what the table holds.
LEMMA OwnedWhenQuiet ==
  ASSUME OwnersInv, Quiet
  PROVE  NoLeak
<1>1. \A t \in Threads : pc[t] = "idle"
  BY DEF Quiet, OwnersInv, TypeInv, Handling
<1>2. \A s : ~ Working(s, {"del_unlink"})
            /\ ~ Working(s, {"del_cell", "del_unlink", "set_block"})
            /\ ~ Working(s, Busy)
  BY <1>1 DEF Working, Busy
<1>3. \A s \in Slots : slot[s] \in Cells \cup {NULL} /\ Settled(s)
  BY <1>2 DEF OwnersInv, TypeInv, TypeOK
<1>4. \A s \in Slots, c \in Cells : OwnsCell(s, c) <=> slot[s] = c
  BY <1>2 DEF OwnsCell
<1>5. \A s \in Slots, b \in Blocks :
        OwnsBlock(s, b) <=> slot[s] \in Cells /\ cell[slot[s]].block = b
  BY <1>2 DEF OwnsBlock
<1>6. \A s \in Slots : slot[s] # NULL => cell[slot[s]].block \in Blocks
  BY <1>3 DEF Settled, ReadsAs, IsBlock
<1>7. {p \in Cells : cell[p].live} = Linked
  BY <1>3, <1>4, MemoryAssumption DEF OwnersInv, Owned, Linked
<1>8. {b \in Blocks : block[b].live} = {cell[p].block : p \in Linked}
  <2>1. ASSUME NEW b \in Blocks, block[b].live PROVE \E p \in Linked : cell[p].block = b
    <3>1. PICK s \in Slots : slot[s] \in Cells /\ cell[slot[s]].block = b
      BY <1>5, <2>1 DEF OwnersInv, Owned
    <3>2. slot[s] \in Linked
      BY <3>1, MemoryAssumption DEF Linked
    <3> QED BY <3>1, <3>2
  <2>2. ASSUME NEW p \in Linked PROVE cell[p].block \in Blocks /\ block[cell[p].block].live
    <3>1. PICK s \in Slots : slot[s] = p /\ p \in Cells
      BY <1>3 DEF Linked
    <3>2. cell[p].block \in Blocks
      BY <1>6, <3>1, MemoryAssumption
    <3>3. OwnsBlock(s, cell[p].block)
      BY <1>5, <3>1, <3>2
    <3> QED BY <3>2, <3>3 DEF OwnersInv, Owned
  <2> QED BY <2>1, <2>2
<1>9. \A i, j \in Slots : i # j /\ slot[i] # NULL => slot[i] # slot[j]
  BY <1>3, <1>4 DEF OwnersInv, Owned
<1> QED BY <1>7, <1>8, <1>9 DEF NoLeak

\* No command leaks the cell or the value it takes out, frees either twice, or
\* leaves two slots with one cell.
THEOREM OwnersNoLeak == OwnSlots => (Spec => []NoLeak)
<1>1. OwnersInv => NoLeak
  BY OwnedWhenQuiet DEF NoLeak
<1> QED BY <1>1, OwnersInvariance, PTL

\* The number a thread has measured is the number it goes on to write.
THEOREM OwnersLengthMatches == OwnSlots => (Spec => []LengthMatches)
<1> SUFFICES ASSUME OwnSlots PROVE Spec => []LengthMatches
  OBVIOUS
<1>1. ASSUME OwnersInv PROVE LengthMatches
  <2>1. ASSUME NEW t \in Threads, At(t, "get_value"), reg[t].type # CACHE_VALUE_STRING
        PROVE  ReadsAs(reg[t].cell, reg[t].type) /\ block[cell[reg[t].cell].block].val = reg[t].num
    <3>1. pc[t] = "get_value" /\ pc[t] \in Busy
      BY <2>1 DEF At, Busy, Labels
    <3>2. PICK s \in Slots : Place(t, s)
      BY <1>1, <3>1, MineHolds DEF Mine
    <3> QED BY <2>1, <3>1, <3>2 DEF Place, ReadLabels, Settled
  <2> QED BY <2>1 DEF LengthMatches
<1> QED BY <1>1, OwnersInvariance, PTL

-----------------------------------------------------------------------------
(***************************************************************************)
(* Every command takes effect at one moment: the threads implement the     *)
(* key-value store.                                                        *)
(***************************************************************************)
\* Keys do not share slots, and nobody asks for the counter.
OwnKeys ==
  /\ OwnSlots
  /\ \A j, k \in Keys : Hash[j] = Hash[k] => j = k
  /\ \A t \in Threads : \A r \in May[t] : r.cmd # "STT"

(***************************************************************************)
(* What the slot holds, compared with what it held when the request came.  *)
(***************************************************************************)
\* What INC and DEC make of it.
Counted(t) ==
  IF before[t] # NULL /\ IsNumber(before[t])
    THEN Shifted(before[t], Change(pending[t]))
    ELSE InitialValue(pending[t].initial)

History(t, s) ==
  /\ pc[t] \in {"exists"} \cup IncLabels => Content(s) = before[t]
  /\ pc[t] \in GetLabels /\ Command(t) \notin {"INC", "DEC"} => Content(s) = before[t]
  /\ pc[t] \in GetLabels /\ Command(t) \in {"INC", "DEC"} =>
       Content(s) = Counted(t) /\ Content(s) # NULL
  /\ pc[t] # "exists" /\ Command(t) = "ADD" => before[t] = NULL
  /\ pc[t] \in DelLabels /\ Command(t) = "DEL" =>
       answer[t] = IF before[t] = NULL THEN NotFound ELSE Ok(before[t])
  /\ pc[t] \in SetLabels /\ Command(t) \in {"INC", "DEC"} =>
       before[t] = NULL \/ ~ IsNumber(before[t])

HistoryInv ==
  /\ OwnersInv
  /\ \A t \in Threads : pc[t] \in Busy => History(t, Index(t))

(***************************************************************************)
(* The store's operators, in this instance of it, are those of Protocol.   *)
(***************************************************************************)
LEMMA SameValues ==
  /\ \A type, payload : Store!StoredValue(type, payload) = StoredValue(type, payload)
  /\ \A v : Store!IsNumber(v) = IsNumber(v)
  /\ \A v, by : Store!Shifted(v, by) = Shifted(v, by)
  /\ \A initial : Store!InitialValue(initial) = InitialValue(initial)
  /\ Store!Types = Types
  /\ \A r : Store!Change(r) = Change(r)
<1>1. \A n : Store!Trunc(n) = Trunc(n)
  BY DEF Store!Trunc, Trunc, Store!Unit, Unit
<1>2. \A t : Store!atoll(t) = atoll(t) /\ Store!atof(t) = atof(t)
  BY <1>1 DEF Store!atoll, atoll, Store!atof, atof
<1>3. /\ Store!CACHE_VALUE_DECIMAL = CACHE_VALUE_DECIMAL
      /\ Store!CACHE_VALUE_REAL = CACHE_VALUE_REAL
      /\ Store!CACHE_VALUE_STRING = CACHE_VALUE_STRING
  BY DEF Store!CACHE_VALUE_DECIMAL, CACHE_VALUE_DECIMAL, Store!CACHE_VALUE_REAL,
         CACHE_VALUE_REAL, Store!CACHE_VALUE_STRING, CACHE_VALUE_STRING
<1>4. \A type, payload : Store!StoredValue(type, payload) = StoredValue(type, payload)
  BY <1>2, <1>3 DEF Store!StoredValue, StoredValue
<1>5. \A v : Store!IsNumber(v) = IsNumber(v)
  BY <1>3 DEF Store!IsNumber, IsNumber
<1>6. \A v, by : Store!Shifted(v, by) = Shifted(v, by)
  BY <1>1, <1>3 DEF Store!Shifted, Shifted
<1>7. \A initial : Store!InitialValue(initial) = InitialValue(initial)
  BY <1>2, <1>3 DEF Store!InitialValue, InitialValue, Store!Unit, Unit
<1>8. \A r : Store!Change(r) = Change(r)
  BY DEF Store!Change, Change, Store!Offset, Offset, Store!Unit, Unit
<1> QED BY <1>3, <1>4, <1>5, <1>6, <1>7, <1>8 DEF Store!Types, Types

LEMMA SameReplies ==
  /\ Store!BadRequest = BadRequest
  /\ Store!NotFound = NotFound
  /\ Store!KeyExists = KeyExists
  /\ \A body : Store!Ok(body) = Ok(body)
BY DEF Store!BadRequest, BadRequest, Store!NotFound, NotFound,
       Store!KeyExists, KeyExists, Store!Ok, Ok

(***************************************************************************)
(* One step of a thread, seen from the store.                              *)
(***************************************************************************)
\* The other threads' replies, and what they found, stay.
Aside(t) ==
  \A u \in Threads \ {t} : answer'[u] = answer[u] /\ before'[u] = before[u]

LEMMA StepAside ==
  ASSUME TypeInv, NEW t \in Threads, Step(t)
  PROVE  Aside(t)
<1>1. \/ UNCHANGED before
      \/ before' = [before EXCEPT ![t] = NULL]
  BY DEF Step, Stt, AddExists, GetFind, GetType, GetLength, GetValue, Answered, DelFind,
         DelFreeValue, DelFreeCell, DelUnlink, DelCountLoad, DelCountStore, Deleted, IncFind,
         IncType, IncLoad, IncStore, SetFind, SetAlloc, SetNull, SetCountLoad, SetCountStore,
         SetFields, SetFreeOld, SetBlock, SetValue, Checked, Finish, session
<1>2. \/ UNCHANGED answer
      \/ \E reply : Tell(t, reply)
  BY DEF Step, Stt, AddExists, GetFind, GetType, GetLength, GetValue, Answered, DelFind,
         DelFreeValue, DelFreeCell, DelUnlink, DelCountLoad, DelCountStore, Deleted, IncFind,
         IncType, IncLoad, IncStore, SetFind, SetAlloc, SetNull, SetCountLoad, SetCountStore,
         SetFields, SetFreeOld, SetBlock, SetValue, Checked, Finish, session
<1> QED BY <1>1, <1>2 DEF Aside, Tell, TypeInv, TypeOK

\* A slot is empty exactly when it has no value, if nobody is changing it.
LEMMA EmptyIsNull ==
  ASSUME TypeInv, NEW s \in Slots, Settled(s)
  PROVE  /\ Content(s) = NULL <=> slot[s] = NULL
         /\ slot[s] # NULL =>
              Content(s) = [type |-> cell[slot[s]].type, val |-> block[cell[slot[s]].block].val]
<1> DEFINE p == slot[s]
           v == [type |-> cell[p].type, val |-> block[cell[p].block].val]
<1>1. CASE p = NULL
  <2>1. ~ IsCell(p)
    BY <1>1, MemoryAssumption DEF IsCell
  <2> QED BY <1>1, <2>1 DEF Content, ReadsAs
<1>2. CASE p # NULL
  <2>1. ReadsAs(p, cell[p].type) /\ IsCell(p)
    BY <1>2 DEF Settled, ReadsAs
  <2>2. Content(s) = v
    BY <2>1 DEF Content
  <2>3. v \in Value
    <3>1. cell[p].block \in Blocks
      BY <2>1 DEF ReadsAs, IsBlock
    <3>2. block[cell[p].block].type = cell[p].type /\ block[cell[p].block].val # Junk
      BY <2>1 DEF ReadsAs
    <3> QED BY <3>1, <3>2 DEF TypeInv, Fits
  <2> QED BY <1>2, <2>2, <2>3, NullAssumption
<1> QED BY <1>1, <1>2

\* Of the threads that work for a key, none is at work on the slot of another.
LEMMA OneChanging ==
  ASSUME OwnKeys, TypeInv, NEW k \in Keys
  PROVE  /\ \A t \in Changing(k) : pc[t] \in Busy /\ Index(t) = Hash[k] /\ Changing(k) = {t}
         /\ Changing(k) = {} => ~ Working(Hash[k], Busy)
<1>1. ASSUME NEW t \in Changing(k) PROVE pc[t] \in Busy /\ Index(t) = Hash[k]
  <2>1. t \in Threads /\ pending[t] # NULL /\ pending[t].cmd # "STT" /\ pending[t].key = k
    BY DEF Changing, Command
  <2>2. pc[t] # "idle" /\ pc[t] # "stt" /\ pc[t] \in Labels
    BY <2>1 DEF TypeInv, TypeOK, Handling, Command
  <2> QED BY <2>1, <2>2 DEF Busy, Index
<1>2. ASSUME NEW t \in Changing(k), NEW u \in Changing(k) PROVE t = u
  <2>1. t \in Threads /\ u \in Threads
    BY DEF Changing
  <2> QED BY <1>1, <2>1, OneWorker DEF OwnKeys
<1>3. ASSUME NEW t \in Threads, pc[t] \in Busy, Index(t) = Hash[k] PROVE t \in Changing(k)
  <2>1. pending[t] \in May[t] /\ pending[t] # NULL /\ Command(t) # "STT"
    BY <1>3, AtSlot, MayRequest DEF Busy
  <2>2. pending[t].key \in Keys
    BY <2>1, MayRequest DEF Command
  <2> QED BY <1>3, <2>1, <2>2 DEF Changing, OwnKeys, Index
<1> QED BY <1>1, <1>2, <1>3 DEF Working

\* A step on one slot leaves what the keys of the others show.
LEMMA OthersShown ==
  ASSUME OwnKeys, OwnersInv, TypeInv', NEW t \in Threads, OwnStep(t), Aside(t),
         NEW k \in Keys, k # pending[t].key
  PROVE  Changing(k)' = Changing(k) /\ Shown'[k] = Shown[k]
<1>1. Hash[k] \in Slots \ {Index(t)}
  BY AtSlot, HashAssumption DEF OwnersInv, OwnStep, Busy, OwnKeys, Index
<1>2. ASSUME NEW u \in Threads PROVE u \in Changing(k)' <=> u \in Changing(k)
  <2>1. CASE u = t
    <3>1. pending'[t] = NULL \/ pending'[t] = pending[t]
      BY DEF OwnStep, TypeInv, Handling
    <3> QED BY <2>1, <3>1 DEF Changing
  <2>2. CASE u # t
    BY <2>2 DEF OwnStep, Frame, Changing, Command
  <2> QED BY <2>1, <2>2
<1>3. Changing(k)' = Changing(k)
  BY <1>2 DEF Changing
<1>4. CASE Changing(k) = {}
  <2>1. ~ Working(Hash[k], {"del_cell", "del_unlink", "set_block"})
    BY <1>4, OneChanging DEF OwnersInv, Working, Busy, Labels
  <2>2. Content(Hash[k])' = Content(Hash[k])
    <3>1. PICK i \in Slots \ {Index(t)} : i = Hash[k]
      BY <1>1
    <3> QED BY <2>1, <3>1, ValueStays DEF OwnKeys
  <2> QED BY <1>3, <1>4, <2>2 DEF Shown
<1>5. CASE Changing(k) # {}
  <2>1. PICK u \in Threads : u = (CHOOSE v \in Changing(k) : TRUE) /\ u \in Changing(k)
    BY <1>5 DEF Changing
  <2>2. before'[u] = before[u]
    BY <2>1 DEF Aside, Changing
  <2> QED BY <1>3, <1>5, <2>1, <2>2 DEF Shown
<1> QED BY <1>3, <1>4, <1>5

\* Until its handler returns, a command has done nothing a client can see.
LEMMA MidStore ==
  ASSUME OwnKeys, OwnersInv, TypeInv', NEW t \in Threads, OwnStep(t), Aside(t),
         pc'[t] \in Busy, before'[t] = before[t]
  PROVE  UNCHANGED Store!vars
<1>1. pending' = pending /\ pending[t] # NULL /\ pending[t].key \in Keys
  <2>1. \A u \in Threads : pending'[u] = pending[u]
    BY DEF OwnStep, Frame, Busy
  <2>2. pending[t] # NULL /\ pending[t].key \in Keys
    BY AtSlot DEF OwnersInv, OwnStep, Busy
  <2> QED BY <2>1, <2>2 DEF OwnersInv, TypeInv, TypeOK
<1>2. ASSUME NEW k \in Keys PROVE Shown'[k] = Shown[k]
  <2>1. CASE k = pending[t].key
    <3>1. t \in Changing(k)
      BY <1>1, <2>1, AtSlot DEF OwnersInv, OwnStep, Busy, Changing
    <3>2. Changing(k) = {t} /\ Changing(k)' = Changing(k)
      BY <1>1, <3>1, OneChanging DEF OwnersInv, Changing, Command
    <3> QED BY <3>2 DEF Shown
  <2>2. CASE k # pending[t].key
    BY <2>2, OthersShown
  <2> QED BY <2>1, <2>2
<1>3. Shown' = Shown
  BY <1>2 DEF Shown
<1>4. Told' = Told
  BY <1>1 DEF Told, Aside
<1> QED BY <1>1, <1>3, <1>4 DEF Store!vars

\* When it returns, the key shows what the slot holds, and the reply is told.
LEMMA DoneStore ==
  ASSUME OwnKeys, OwnersInv, TypeInv', NEW t \in Threads, OwnStep(t), Aside(t), Finish(t),
         NEW s \in Slots, s = Index(t)
  PROVE  /\ pending[t].key \in Keys /\ Shown[pending[t].key] = before[t]
         /\ Shown' = [Shown EXCEPT ![pending[t].key] = Content(s)']
         /\ Store!Respond(t, answer'[t])
<1>0. PICK k \in Keys : k = pending[t].key
  BY AtSlot DEF OwnersInv, OwnStep, Busy
<1>1. pending[t] # NULL /\ s = Hash[k] /\ t \in Changing(k)
  BY <1>0, AtSlot DEF OwnersInv, OwnStep, Busy, Changing, Index
<1>2. Changing(k) = {t}
  BY <1>1, OneChanging DEF OwnersInv
<1>3. pending' = [pending EXCEPT ![t] = NULL] /\ pending'[t] = NULL
  BY DEF Finish, OwnersInv, TypeInv, TypeOK
<1>4. Changing(k)' = {}
  <2>1. ASSUME NEW u \in Threads PROVE u \in Changing(k)' => u \in Changing(k) /\ u # t
    BY <1>3 DEF Changing, Command, OwnersInv, TypeInv, TypeOK
  <2> QED BY <1>2, <2>1 DEF Changing
<1>5. Shown[k] = before[t] /\ Shown'[k] = Content(s)'
  BY <1>1, <1>2, <1>4 DEF Shown
<1>6. \A j \in Keys : j # k => Shown'[j] = Shown[j]
  BY <1>0, OthersShown
<1>7. Shown' = [Shown EXCEPT ![k] = Content(s)']
  BY <1>1, <1>5, <1>6 DEF Shown
<1>8. Told' = [Told EXCEPT ![t] = answer'[t]]
  BY <1>3 DEF Told, Aside, OwnersInv, TypeInv, TypeOK
<1> QED BY <1>0, <1>3, <1>5, <1>7, <1>8 DEF Store!Respond

\* A request is taken; the key goes on showing what it held.
LEMMA SendStore ==
  ASSUME OwnKeys, OwnersInv, TypeInv', NEW t \in Threads, NEW r \in May[t], Send(t, r)
  PROVE  Store!Next
<1>1. /\ r.cmd # "STT" /\ r # NULL /\ r \in UNION {May[u] : u \in Threads}
      /\ pc[t] = "idle" /\ pending[t] = NULL /\ UNCHANGED heap
  BY MayRequest DEF OwnKeys, Send, At, OwnersInv, TypeInv, Handling
<1>2. PICK k \in Keys : k = r.key
  BY <1>1, MayRequest
<1>3. /\ pending' = [pending EXCEPT ![t] = r] /\ pending'[t] = r
      /\ before'[t] = Content(Hash[k])
      /\ \A u \in Threads \ {t} : pending'[u] = pending[u] /\ before'[u] = before[u]
  BY <1>1, <1>2 DEF Send, OwnersInv, TypeInv, TypeOK
<1>4. \A j \in Keys : Content(Hash[j])' = Content(Hash[j])
  BY <1>1, SettledSame DEF heap
<1>5. ASSUME NEW j \in Keys PROVE Shown'[j] = Shown[j]
  <2>1. t \notin Changing(j)
    BY <1>1 DEF Changing
  <2>2. CASE j = k
    <3>1. ~ Working(Hash[k], Busy)
      BY <1>1, <1>2, SendOwners DEF OwnKeys
    <3>2. Changing(k) = {}
      BY <3>1, OneChanging DEF OwnersInv, Working, Changing
    <3>3. Changing(k)' = {t}
      BY <1>1, <1>2, <1>3, <3>2 DEF Changing, Command
    <3> QED BY <1>3, <2>2, <3>2, <3>3 DEF Shown
  <2>3. CASE j # k
    <3>1. Changing(j)' = Changing(j)
      BY <1>2, <1>3, <2>1, <2>3 DEF Changing, Command
    <3>2. CASE Changing(j) = {}
      BY <1>4, <3>1, <3>2 DEF Shown
    <3>3. CASE Changing(j) # {}
      <4>1. PICK u \in Threads : u = (CHOOSE v \in Changing(j) : TRUE) /\ u \in Changing(j)
        BY <3>3 DEF Changing
      <4>2. before'[u] = before[u]
        BY <1>3, <2>1, <4>1
      <4> QED BY <3>1, <3>3, <4>1, <4>2 DEF Shown
    <3> QED BY <3>2, <3>3
  <2> QED BY <2>2, <2>3
<1>6. Shown' = Shown
  BY <1>5 DEF Shown
<1>7. Told' = [Told EXCEPT ![t] = NULL]
  BY <1>1, <1>3 DEF Send, Tell, Told, OwnersInv, TypeInv, TypeOK
<1>8. Store!Invoke(t, r)
  BY <1>1, <1>3, <1>6, <1>7 DEF Store!Invoke
<1> QED BY <1>1, <1>8 DEF Store!Next

\* What the other threads know of their slots stays true.
LEMMA HistoryStep ==
  ASSUME OwnSlots, HistoryInv, OwnersInv', NEW t \in Threads, OwnStep(t), Aside(t),
         NEW s \in Slots, s = Index(t), pc'[t] \in Busy => History(t, s)'
  PROVE  HistoryInv'
<1>1. ASSUME NEW u \in Threads, pc'[u] \in Busy PROVE History(u, Index(u))'
  <2>1. CASE u = t
    <3>1. Index(t)' = s
      BY <1>1, <2>1 DEF OwnStep, Index, Busy
    <3> QED BY <1>1, <2>1, <3>1
  <2>2. CASE u # t
    <3>1. /\ pc'[u] = pc[u] /\ pending'[u] = pending[u] /\ before'[u] = before[u]
          /\ answer'[u] = answer[u] /\ pc[u] \in Busy
      BY <1>1, <2>2 DEF OwnStep, Frame, Aside
    <3>2. PICK i \in Slots : i = Index(u) /\ i = Index(u)' /\ History(u, i)
      BY <3>1, AtSlot DEF HistoryInv, OwnersInv, Busy, Index
    <3>3. i # s
      BY <2>2, <3>1, <3>2, OneWorker DEF HistoryInv, OwnersInv, OwnStep
    <3>4. pc[u] \in {"exists"} \cup IncLabels \cup GetLabels => Content(i)' = Content(i)
      <4>1. ASSUME pc[u] \in {"exists"} \cup IncLabels \cup GetLabels
            PROVE  ~ Working(i, {"del_cell", "del_unlink", "set_block"})
        <5>1. ASSUME NEW v \in Threads, pc[v] \in {"del_cell", "del_unlink", "set_block"},
                     Index(v) = i
              PROVE  FALSE
          <6>1. v = u
            BY <3>1, <3>2, <5>1, OneWorker DEF HistoryInv, OwnersInv, Busy, Labels
          <6> QED BY <4>1, <5>1, <6>1 DEF IncLabels, GetLabels
        <5> QED BY <5>1 DEF Working
      <4> QED BY <3>3, <4>1, ValueStays DEF HistoryInv
    <3>5. Counted(u)' = Counted(u) /\ Command(u)' = Command(u)
      BY <3>1 DEF Counted, Command
    <3>6. History(u, i)'
      BY <3>1, <3>2, <3>4, <3>5 DEF History
    <3> QED BY <3>2, <3>6
  <2> QED BY <2>1, <2>2
<1> QED BY <1>1 DEF HistoryInv

\* A step within one function, that leaves the connection alone.
LEMMA Carries ==
  ASSUME HistoryInv, NEW t \in Threads, OwnStep(t), NEW s \in Slots, History(t, s),
         pending'[t] = pending[t], before'[t] = before[t], answer'[t] = answer[t],
         NEW labels \in {GetLabels, DelLabels, IncLabels, SetLabels},
         pc[t] \in labels, pc'[t] \in labels,
         labels \in {GetLabels, IncLabels} => Content(s)' = Content(s)
  PROVE  History(t, s)'
<1>1. Counted(t)' = Counted(t) /\ Command(t)' = Command(t)
  BY DEF Counted, Command
<1>2. labels \notin {GetLabels, IncLabels} =>
        pc'[t] \notin {"exists"} \cup IncLabels \cup GetLabels
  BY DEF GetLabels, DelLabels, IncLabels, SetLabels
<1>3. pc[t] # "exists" /\ pc'[t] # "exists"
  BY DEF GetLabels, DelLabels, IncLabels, SetLabels
<1>4. /\ pc'[t] \in GetLabels <=> pc[t] \in GetLabels
      /\ pc'[t] \in DelLabels <=> pc[t] \in DelLabels
      /\ pc'[t] \in IncLabels <=> pc[t] \in IncLabels
      /\ pc'[t] \in SetLabels <=> pc[t] \in SetLabels
  <2>1. /\ GetLabels \cap DelLabels = {} /\ GetLabels \cap IncLabels = {}
        /\ GetLabels \cap SetLabels = {} /\ DelLabels \cap IncLabels = {}
        /\ DelLabels \cap SetLabels = {} /\ IncLabels \cap SetLabels = {}
    BY DEF GetLabels, DelLabels, IncLabels, SetLabels
  <2> QED BY <2>1
<1> QED BY <1>1, <1>2, <1>3, <1>4 DEF History

\* Where a step of a handler finds its thread.
LEMMA StepFacts ==
  ASSUME OwnKeys, HistoryInv, NEW t \in Threads, Step(t)
  PROVE  /\ OwnersInv /\ TypeInv /\ OwnersInv' /\ TypeInv' /\ OwnStep(t) /\ Aside(t)
         /\ ~ fault /\ ~ fault'
         /\ \E s \in Slots : s = Index(t) /\ Mine(t, s) /\ History(t, s)
         /\ \A cmds : Command(t) \in cmds => Store!Asked(t, cmds)
<1>1. OwnersInv /\ TypeInv /\ OwnSlots
  BY DEF HistoryInv, OwnersInv, OwnKeys
<1>2. ~ Stt(t)
  <2>1. ASSUME Stt(t) PROVE FALSE
    <3>1. pending[t] \in May[t] /\ pending[t].cmd = "STT"
      BY <1>1, <2>1 DEF Stt, At, TypeInv, Handling, Command
    <3> QED BY <3>1 DEF OwnKeys
  <2> QED BY <2>1
<1>3. OwnersInv' /\ OwnStep(t) /\ Aside(t)
  BY <1>1, <1>2, StepOwners, StepAside
<1>4. pc[t] \in Busy
  BY <1>3 DEF OwnStep
<1>5. PICK s \in Slots : Mine(t, s)
  BY <1>1, <1>4, MineHolds
<1>6. s = Index(t) /\ History(t, s)
  BY <1>4, <1>5 DEF Mine, HistoryInv
<1>7. \A cmds : Command(t) \in cmds => Store!Asked(t, cmds)
  <2>1. pending[t] # NULL /\ pending[t] \in May[t]
    BY <1>1, <1>4, AtSlot DEF Busy
  <2>2. Accepted(pending[t])
    BY <2>1, MayAssumption
  <2>3. Store!Accepted(pending[t]) <=> Accepted(pending[t])
    BY DEF Store!Accepted, Accepted
  <2> QED BY <2>1, <2>2, <2>3 DEF Store!Asked, Command
<1>8. TypeInv' /\ ~ fault /\ ~ fault'
  BY <1>1, <1>3 DEF OwnersInv
<1> QED BY <1>1, <1>3, <1>5, <1>6, <1>7, <1>8

\* A step on the way is none of the store's.
LEMMA Midway ==
  ASSUME OwnKeys, HistoryInv, NEW t \in Threads, Step(t), NEW s \in Slots, s = Index(t),
         pc'[t] \in Busy, before'[t] = before[t], History(t, s)'
  PROVE  HistoryInv' /\ UNCHANGED Store!vars
BY StepFacts, HistoryStep, MidStore DEF OwnKeys

\* A handler that returns serves its request: the key shows v from now on.
Served(t, v) ==
  /\ pending[t].key \in Keys
  /\ Shown[pending[t].key] = before[t]
  /\ Shown' = [Shown EXCEPT ![pending[t].key] = v]
  /\ v = before[t] => UNCHANGED Shown
  /\ Store!Respond(t, answer'[t])

LEMMA Returns ==
  ASSUME OwnKeys, HistoryInv, NEW t \in Threads, Step(t), NEW s \in Slots, s = Index(t),
         Finish(t)
  PROVE  HistoryInv' /\ Served(t, Content(s)')
<1>1. OwnersInv /\ OwnersInv' /\ TypeInv /\ TypeInv' /\ OwnStep(t) /\ Aside(t)
  BY StepFacts
<1>2. pc'[t] \notin Busy
  BY <1>1, Moves DEF Busy
<1>3. HistoryInv'
  BY <1>1, <1>2, HistoryStep DEF OwnKeys
<1>4. /\ pending[t].key \in Keys /\ Shown[pending[t].key] = before[t]
      /\ Shown' = [Shown EXCEPT ![pending[t].key] = Content(s)']
      /\ Store!Respond(t, answer'[t])
  BY <1>1, DoneStore
<1>5. Content(s)' = before[t] => UNCHANGED Shown
  BY <1>4 DEF Shown
<1> QED BY <1>3, <1>4, <1>5 DEF Served

\* The steps within one function.
LEMMA CarryStore ==
  ASSUME OwnKeys, HistoryInv, NEW t \in Threads,
         \/ GetType(t) \/ GetLength(t)
         \/ DelFreeValue(t) \/ DelFreeCell(t) \/ DelUnlink(t) \/ DelCountLoad(t)
         \/ IncLoad(t)
         \/ SetFind(t) \/ SetAlloc(t) \/ SetNull(t) \/ SetCountLoad(t) \/ SetCountStore(t)
         \/ SetFields(t) \/ SetFreeOld(t) \/ SetBlock(t)
  PROVE  HistoryInv' /\ UNCHANGED Store!vars
<1>1. Step(t)
  BY DEF Step
<1>2. PICK s \in Slots : s = Index(t) /\ History(t, s)
  BY <1>1, StepFacts
<1>3. /\ ~ fault' /\ OwnStep(t) /\ pc \in [Threads -> Labels]
  BY <1>1, StepFacts DEF TypeInv, TypeOK
<1>4. UNCHANGED session
  BY <1>3 DEF GetType, GetLength, DelFreeValue, DelFreeCell, DelUnlink, DelCountLoad, IncLoad,
              SetFind, SetAlloc, SetNull, SetCountLoad, SetCountStore, SetFields, SetFreeOld,
              SetBlock, Checked
<1>5. PICK labels \in {GetLabels, DelLabels, IncLabels, SetLabels} :
        /\ pc[t] \in labels /\ pc'[t] \in labels
        /\ labels \in {GetLabels, IncLabels} => UNCHANGED heap
  <2>1. CASE GetType(t) \/ GetLength(t)
    <3>1. pc[t] \in GetLabels /\ pc'[t] \in GetLabels /\ UNCHANGED heap
      BY <1>3, <2>1 DEF GetType, GetLength, At, Checked, Go, GetLabels
    <3> QED BY <3>1
  <2>2. CASE DelFreeValue(t) \/ DelFreeCell(t) \/ DelUnlink(t) \/ DelCountLoad(t)
    <3>1. pc[t] \in DelLabels /\ pc'[t] \in DelLabels
      BY <1>3, <2>2 DEF DelFreeValue, DelFreeCell, DelUnlink, DelCountLoad, At, Checked, Go,
                        DelLabels
    <3>2. DelLabels \notin {GetLabels, IncLabels}
      BY DEF DelLabels, GetLabels, IncLabels
    <3> QED BY <3>1, <3>2
  <2>3. CASE IncLoad(t)
    <3>1. pc[t] \in IncLabels /\ pc'[t] \in IncLabels /\ UNCHANGED heap
      BY <1>3, <2>3 DEF IncLoad, At, Checked, Go, IncLabels
    <3> QED BY <3>1
  <2>4. CASE \/ SetFind(t) \/ SetAlloc(t) \/ SetNull(t) \/ SetCountLoad(t) \/ SetCountStore(t)
             \/ SetFields(t) \/ SetFreeOld(t) \/ SetBlock(t)
    <3>1. pc[t] \in SetLabels /\ pc'[t] \in SetLabels
      BY <1>3, <2>4 DEF SetFind, SetAlloc, SetNull, SetCountLoad, SetCountStore, SetFields,
                        SetFreeOld, SetBlock, At, Checked, Go, Return, SetLabels
    <3>2. SetLabels \notin {GetLabels, IncLabels}
      BY DEF SetLabels, GetLabels, IncLabels
    <3> QED BY <3>1, <3>2
  <2> QED BY <2>1, <2>2, <2>3, <2>4
<1>6. labels \in {GetLabels, IncLabels} => Content(s)' = Content(s)
  BY <1>5, SettledSame DEF heap
<1>7. History(t, s)'
  BY <1>2, <1>3, <1>4, <1>5, <1>6, Carries DEF session
<1>8. pc'[t] \in Busy
  BY <1>5 DEF Busy, Labels, GetLabels, DelLabels, IncLabels, SetLabels
<1> QED BY <1>1, <1>2, <1>4, <1>7, <1>8, Midway DEF session

LEMMA AddExistsStore ==
  ASSUME OwnKeys, HistoryInv, NEW t \in Threads, AddExists(t)
  PROVE  HistoryInv' /\ [Store!Next]_(Store!vars)
<1>1. Step(t) /\ pc[t] = "exists"
  BY DEF Step, AddExists, At
<1>2. PICK s \in Slots : s = Index(t) /\ Mine(t, s) /\ History(t, s)
  BY <1>1, StepFacts
<1>3. /\ TypeInv /\ Command(t) = "ADD" /\ Settled(s) /\ UNCHANGED heap
      /\ Content(s) = before[t]
  BY <1>1, <1>2, StepFacts DEF TypeInv, Handling, Mine, Place, History, AddExists
<1>4. Content(s)' = Content(s)
  BY <1>3, SettledSame DEF heap
<1>5. CASE slot[s] = NULL
  <2>1. Return(t, "del") /\ UNCHANGED session
    BY <1>2, <1>5 DEF AddExists
  <2>2. pc'[t] = "del" /\ Command(t)' = "ADD"
    BY <1>3, <2>1, Moves DEF session, Labels, Command
  <2>3. before[t] = NULL
    BY <1>3, <1>5, EmptyIsNull
  <2>4. History(t, s)'
    BY <2>1, <2>2, <2>3 DEF session, History, GetLabels, DelLabels, IncLabels, SetLabels
  <2> QED BY <1>1, <1>2, <2>1, <2>2, <2>4, Midway DEF session, Busy, Labels
<1>6. CASE slot[s] # NULL
  <2>1. Tell(t, KeyExists) /\ Finish(t)
    BY <1>2, <1>6 DEF AddExists
  <2>2. HistoryInv' /\ Served(t, before[t])
    BY <1>1, <1>2, <1>3, <1>4, <2>1, Returns
  <2>3. answer'[t] = KeyExists /\ before[t] # NULL
    BY <1>3, <1>6, <2>1, EmptyIsNull DEF Tell, TypeInv, TypeOK
  <2>4. Store!AddTaken(t)
    BY <1>1, <1>3, <2>2, <2>3, StepFacts, SameReplies DEF Store!AddTaken, Served
  <2> QED BY <2>2, <2>4 DEF Store!Next, Store!Serve
<1> QED BY <1>5, <1>6

\* memuncached_get has written its reply: GET, INC and DEC are done with it.
LEMMA AnsweredStore ==
  ASSUME OwnKeys, HistoryInv, NEW t \in Threads, GetFind(t) \/ GetValue(t), NEW s \in Slots,
         Mine(t, s), History(t, s), Answered(t), Content(s)' = Content(s),
         answer'[t] = IF Content(s) = NULL THEN NotFound ELSE Ok(Content(s))
  PROVE  HistoryInv' /\ [Store!Next]_(Store!vars)
<1>1. Step(t) /\ pc[t] \in GetLabels /\ TypeInv /\ s = Index(t)
  BY DEF Step, GetFind, GetValue, At, GetLabels, Mine, HistoryInv, OwnersInv
<1>2. Command(t) \in {"GET", "DEL", "INC", "DEC"}
  BY <1>1 DEF TypeInv, Handling
<1>3. CASE Command(t) = "DEL"
  <2>1. pc'[t] = "del" /\ UNCHANGED <<pending, before>>
    BY <1>1, <1>3, AnsweredMoves, Moves DEF Answered
  <2>2. Content(s) = before[t]
    BY <1>1, <1>3 DEF History
  <2>3. History(t, s)'
    BY <1>3, <2>1, <2>2 DEF History, Command, GetLabels, DelLabels, IncLabels, SetLabels
  <2> QED BY <1>1, <2>1, <2>3, Midway DEF Busy, Labels
<1>4. CASE Command(t) # "DEL"
  <2>1. HistoryInv' /\ Served(t, Content(s))
    BY <1>1, <1>4, Returns DEF Answered
  <2>2. CASE Command(t) = "GET"
    <3>1. Content(s) = before[t]
      BY <1>1, <2>2 DEF History
    <3>2. Store!Get(t)
      BY <1>1, <2>1, <2>2, <3>1, StepFacts, SameReplies DEF Store!Get, Served
    <3> QED BY <2>1, <3>2 DEF Store!Next, Store!Serve
  <2>3. CASE Command(t) \in {"INC", "DEC"}
    <3>1. Content(s) = Counted(t) /\ Content(s) # NULL
      BY <1>1, <2>3 DEF History
    <3>2. Store!Count(t)
      BY <1>1, <2>1, <2>3, <3>1, StepFacts, SameReplies, SameValues
        DEF Store!Count, Store!Write, Served, Counted
    <3> QED BY <2>1, <3>2 DEF Store!Next, Store!Serve
  <2> QED BY <1>2, <1>4, <2>2, <2>3
<1> QED BY <1>3, <1>4

LEMMA GetFindStore ==
  ASSUME OwnKeys, HistoryInv, NEW t \in Threads, GetFind(t)
  PROVE  HistoryInv' /\ [Store!Next]_(Store!vars)
<1>1. Step(t) /\ pc[t] = "get" /\ UNCHANGED heap
  BY DEF Step, GetFind, At
<1>2. PICK s \in Slots : s = Index(t) /\ Mine(t, s) /\ History(t, s)
  BY <1>1, StepFacts
<1>3. TypeInv /\ OwnStep(t) /\ Settled(s) /\ Content(s)' = Content(s)
  BY <1>1, <1>2, StepFacts, SettledSame DEF Mine, Place, heap
<1>4. CASE slot[s] = NULL
  <2>1. Answered(t) /\ answer'[t] = NotFound /\ Content(s) = NULL
    BY <1>2, <1>3, <1>4, EmptyIsNull DEF GetFind, Tell, TypeInv, TypeOK
  <2> QED BY <1>2, <1>3, <2>1, AnsweredStore
<1>5. CASE slot[s] # NULL
  <2>1. Go(t, "get_type") /\ UNCHANGED session
    BY <1>2, <1>5 DEF GetFind
  <2>2. pc'[t] = "get_type"
    BY <1>3, <2>1 DEF Go, TypeInv, TypeOK
  <2>3. pc[t] \in GetLabels /\ pc'[t] \in GetLabels /\ pc'[t] \in Busy
    BY <1>1, <2>2 DEF GetLabels, Busy, Labels
  <2>4. History(t, s)'
    BY <1>2, <1>3, <2>1, <2>3, Carries DEF session
  <2> QED BY <1>1, <1>2, <2>1, <2>3, <2>4, Midway DEF session
<1> QED BY <1>4, <1>5

LEMMA GetValueStore ==
  ASSUME OwnKeys, HistoryInv, NEW t \in Threads, GetValue(t)
  PROVE  HistoryInv' /\ [Store!Next]_(Store!vars)
<1>1. Step(t) /\ pc[t] = "get_value"
  BY DEF Step, GetValue, At
<1>2. PICK s \in Slots : s = Index(t) /\ Mine(t, s) /\ History(t, s)
  BY <1>1, StepFacts
<1> DEFINE p == slot[s]
           v == [type |-> cell[p].type, val |-> block[cell[p].block].val]
<1>3. TypeInv /\ ~ fault' /\ Settled(s) /\ p # NULL /\ reg[t].cell = p
  BY <1>1, <1>2, StepFacts DEF Mine, Place, ReadLabels
<1>4. Answered(t) /\ Tell(t, Ok(v)) /\ UNCHANGED heap
  BY <1>3 DEF GetValue, Checked
<1>5. Content(s) = v /\ Content(s) # NULL /\ Content(s)' = Content(s)
  BY <1>3, <1>4, EmptyIsNull, SettledSame DEF heap
<1>6. answer'[t] = Ok(Content(s))
  BY <1>3, <1>4, <1>5 DEF Tell, TypeInv, TypeOK
<1> QED BY <1>2, <1>4, <1>5, <1>6, AnsweredStore

\* hash_table_del is done: a DEL with it, and a SET or ADD that is refused.
LEMMA DeletedStore ==
  ASSUME OwnKeys, HistoryInv, NEW t \in Threads, DelFind(t) \/ DelCountStore(t),
         NEW s \in Slots, Mine(t, s), History(t, s), Deleted(t), Content(s)' = NULL
  PROVE  HistoryInv' /\ [Store!Next]_(Store!vars)
<1>1. Step(t) /\ pc[t] \in DelLabels /\ TypeInv /\ s = Index(t)
  BY DEF Step, DelFind, DelCountStore, At, DelLabels, Mine, HistoryInv, OwnersInv
<1>2. /\ Command(t) \in {"SET", "ADD", "DEL"}
      /\ pc[t] # "exists"
  BY <1>1 DEF TypeInv, Handling, DelLabels
<1>3. CASE Command(t) = "DEL" /\ Finish(t) /\ UNCHANGED answer
  <2>1. HistoryInv' /\ Served(t, NULL)
    BY <1>1, <1>3, Returns
  <2>2. answer'[t] = IF before[t] = NULL THEN NotFound ELSE Ok(before[t])
    BY <1>1, <1>3 DEF History
  <2>3. Store!Delete(t)
    BY <1>1, <1>3, <2>1, <2>2, StepFacts, SameReplies DEF Store!Delete, Store!Write, Served
  <2> QED BY <2>1, <2>3 DEF Store!Next, Store!Serve
<1>4. CASE Command(t) # "DEL" /\ pending[t].type \in Types /\ Return(t, "set") /\ UNCHANGED session
  <2>1. pc'[t] = "set" /\ UNCHANGED <<pending, before>>
    BY <1>1, <1>4, Moves DEF session, Labels
  <2>2. Command(t)' = "ADD" => before'[t] = NULL
    BY <1>2, <2>1 DEF History, Command
  <2>3. Command(t)' \in {"SET", "ADD"}
    BY <1>2, <1>4, <2>1 DEF Command
  <2>4. History(t, s)'
    BY <2>1, <2>2, <2>3 DEF History, GetLabels, DelLabels, IncLabels, SetLabels
  <2> QED BY <1>1, <2>1, <2>4, Midway DEF Busy, Labels
<1>5. CASE Command(t) # "DEL" /\ pending[t].type \notin Types /\ Tell(t, BadRequest) /\ Finish(t)
  <2>1. HistoryInv' /\ Served(t, NULL)
    BY <1>1, <1>5, Returns
  <2>2. answer'[t] = BadRequest
    BY <1>1, <1>5 DEF Tell, TypeInv, TypeOK
  <2>3. Command(t) = "ADD" => before[t] = NULL
    BY <1>2 DEF History
  <2>4. Store!Put(t)
    BY <1>1, <1>2, <1>5, <2>1, <2>2, <2>3, StepFacts, SameReplies, SameValues
      DEF Store!Put, Store!Write, Served, Command
  <2> QED BY <2>1, <2>4 DEF Store!Next, Store!Serve
<1> QED BY <1>3, <1>4, <1>5 DEF Deleted

LEMMA DelFindStore ==
  ASSUME OwnKeys, HistoryInv, NEW t \in Threads, DelFind(t)
  PROVE  HistoryInv' /\ [Store!Next]_(Store!vars)
<1>1. Step(t) /\ pc[t] = "del" /\ UNCHANGED heap
  BY DEF Step, DelFind, At
<1>2. PICK s \in Slots : s = Index(t) /\ Mine(t, s) /\ History(t, s)
  BY <1>1, StepFacts
<1>3. TypeInv /\ OwnStep(t) /\ Settled(s) /\ Content(s)' = Content(s)
  BY <1>1, <1>2, StepFacts, SettledSame DEF Mine, Place, heap
<1>4. CASE slot[s] = NULL
  <2>1. Deleted(t) /\ Content(s) = NULL
    BY <1>2, <1>3, <1>4, EmptyIsNull DEF DelFind
  <2> QED BY <1>2, <1>3, <2>1, DeletedStore
<1>5. CASE slot[s] # NULL
  <2>1. Go(t, "del_value") /\ UNCHANGED session
    BY <1>2, <1>5 DEF DelFind
  <2>2. pc'[t] = "del_value"
    BY <1>3, <2>1 DEF Go, TypeInv, TypeOK
  <2>3. pc[t] \in DelLabels /\ pc'[t] \in DelLabels /\ pc'[t] \in Busy
    BY <1>1, <2>2 DEF DelLabels, Busy, Labels
  <2>4. History(t, s)'
    BY <1>2, <1>3, <2>1, <2>3, Carries DEF session
  <2> QED BY <1>1, <1>2, <2>1, <2>3, <2>4, Midway DEF session
<1> QED BY <1>4, <1>5

LEMMA DelCountStoreStore ==
  ASSUME OwnKeys, HistoryInv, NEW t \in Threads, DelCountStore(t)
  PROVE  HistoryInv' /\ [Store!Next]_(Store!vars)
<1>1. Step(t) /\ pc[t] = "del_store" /\ Deleted(t) /\ UNCHANGED <<slot, cell, block>>
  BY DEF Step, DelCountStore, At
<1>2. PICK s \in Slots : s = Index(t) /\ Mine(t, s) /\ History(t, s)
  BY <1>1, StepFacts
<1>3. TypeInv /\ slot[s] = NULL /\ Settled(s)
  BY <1>1, <1>2, StepFacts DEF Mine, Place, Settled
<1>4. Content(s)' = NULL
  BY <1>1, <1>3, EmptyIsNull, SettledSame
<1> QED BY <1>1, <1>2, <1>4, DeletedStore

\* INC and DEC set out: with a number to change, or to hash_table_set.
LEMMA IncLookStore ==
  ASSUME OwnKeys, HistoryInv, NEW t \in Threads, IncFind(t) \/ IncType(t)
  PROVE  HistoryInv' /\ UNCHANGED Store!vars
<1>1. Step(t) /\ pc[t] \in {"inc", "inc_type"}
  BY DEF Step, IncFind, IncType, At
<1>2. PICK s \in Slots : s = Index(t) /\ Mine(t, s) /\ History(t, s)
  BY <1>1, StepFacts
<1> DEFINE p == slot[s]
<1>3. /\ TypeInv /\ OwnStep(t) /\ ~ fault' /\ Settled(s) /\ Content(s) = before[t]
      /\ pc[t] = "inc_type" => p # NULL /\ reg[t].cell = p
      /\ Command(t) \in {"INC", "DEC"}
  BY <1>1, <1>2, StepFacts
    DEF TypeInv, Handling, Mine, Place, ReadLabels, History, IncLabels
<1>4. UNCHANGED heap /\ UNCHANGED session
  BY <1>3 DEF IncFind, IncType, Checked
<1>5. Content(s)' = Content(s)
  BY <1>4, SettledSame DEF heap
<1>6. \/ pc'[t] \in IncLabels
      \/ pc'[t] = "set" /\ (p = NULL \/ cell[p].type = CACHE_VALUE_STRING)
  <2>1. CASE IncFind(t)
    BY <1>2, <1>3, <2>1 DEF IncFind, Go, Return, IncLabels, TypeInv, TypeOK
  <2>2. CASE IncType(t)
    <3>1. pc[t] = "inc_type"
      BY <2>2 DEF IncType, At
    <3> QED BY <1>3, <2>2, <3>1 DEF IncType, Checked, Go, Return, IncLabels, TypeInv, TypeOK
  <2> QED BY <2>1, <2>2
<1>7. pc'[t] \in Busy
  BY <1>6 DEF Busy, Labels, IncLabels
<1>8. History(t, s)'
  <2>1. CASE pc'[t] \in IncLabels
    <3>1. pc[t] \in IncLabels
      BY <1>1 DEF IncLabels
    <3> QED BY <1>2, <1>3, <1>4, <1>5, <2>1, <3>1, Carries DEF session
  <2>2. CASE pc'[t] = "set" /\ (p = NULL \/ cell[p].type = CACHE_VALUE_STRING)
    <3>1. before[t] = NULL \/ ~ IsNumber(before[t])
      BY <1>3, <2>2, EmptyIsNull DEF IsNumber
    <3>2. Command(t)' \in {"INC", "DEC"} /\ before'[t] = before[t]
      BY <1>3, <1>4 DEF session, Command
    <3> QED BY <2>2, <3>1, <3>2 DEF History, GetLabels, DelLabels, IncLabels, SetLabels
  <2> QED BY <1>6, <2>1, <2>2
<1> QED BY <1>1, <1>2, <1>4, <1>7, <1>8, Midway DEF session

\* The number is changed, once.
LEMMA IncStoreStore ==
  ASSUME OwnKeys, HistoryInv, NEW t \in Threads, IncStore(t)
  PROVE  HistoryInv' /\ UNCHANGED Store!vars
<1>1. Step(t) /\ pc[t] = "inc_store"
  BY DEF Step, IncStore, At
<1>2. PICK s \in Slots : s = Index(t) /\ Mine(t, s) /\ History(t, s)
  BY <1>1, StepFacts
<1> DEFINE p == slot[s]
<1>3. /\ OwnersInv /\ TypeInv /\ TypeInv' /\ ~ fault' /\ Settled(s) /\ Content(s) = before[t]
      /\ Command(t) \in {"INC", "DEC"} /\ p # NULL
      /\ cell[p].type = reg[t].type /\ reg[t].type # CACHE_VALUE_STRING
  BY <1>1, <1>2, StepFacts
    DEF TypeInv, Handling, Holding, Mine, Place, ReadLabels, History, IncLabels
<1>4. before[t] # NULL /\ IsNumber(before[t])
  BY <1>3, EmptyIsNull DEF IsNumber
<1>5. Content(s)' = Counted(t)
  BY <1>2, <1>3, <1>4, IncStoreOwners DEF OwnKeys, Counted
<1>6. Return(t, "get") /\ UNCHANGED session
  BY <1>3 DEF IncStore, Checked
<1>7. pc'[t] = "get" /\ UNCHANGED <<pending, before>>
  BY <1>3, <1>6, Moves DEF session, Labels
<1>8. Content(s)' # NULL
  <2>1. before[t] \in Value
    BY <1>3, <1>4 DEF TypeInv, TypeOK
  <2>2. Change(pending[t]) \in Int
    BY <1>1, <1>3, AtSlot, MayRequest DEF Command
  <2>3. Counted(t) \in Value
    BY <1>4, <2>1, <2>2, ShiftedIsWhole DEF Counted
  <2> QED BY <1>5, <2>3, NullAssumption
<1>9. History(t, s)'
  BY <1>3, <1>5, <1>7, <1>8
    DEF History, Counted, Command, GetLabels, DelLabels, IncLabels, SetLabels
<1> QED BY <1>1, <1>2, <1>7, <1>9, Midway DEF Busy, Labels

\* hash_table_set has stored its value.
LEMMA SetValueStore ==
  ASSUME OwnKeys, HistoryInv, NEW t \in Threads, SetValue(t)
  PROVE  HistoryInv' /\ [Store!Next]_(Store!vars)
<1>1. Step(t) /\ pc[t] = "set_value" /\ pc[t] \in SetLabels /\ pc[t] # "exists"
  BY DEF Step, SetValue, At, SetLabels
<1>2. PICK s \in Slots : s = Index(t) /\ Mine(t, s) /\ History(t, s)
  BY <1>1, StepFacts
<1>3. /\ OwnersInv /\ TypeInv /\ TypeInv' /\ ~ fault'
      /\ \/ Command(t) \in {"INC", "DEC"}
         \/ Command(t) \in {"SET", "ADD"} /\ pending[t].type \in Types
  BY <1>1, <1>2, StepFacts DEF TypeInv, Handling
<1>4. Content(s)' = New(t)
  BY <1>2, <1>3, SetValueOwners DEF OwnKeys
<1>5. New(t) # NULL
  <2>1. New(t) \in Value
    BY <1>1, <1>3, NewAt
  <2> QED BY <2>1, NullAssumption
<1>6. CASE Command(t) \in {"INC", "DEC"}
  <2>1. Return(t, "get") /\ UNCHANGED session
    BY <1>3, <1>6 DEF SetValue, Checked
  <2>2. pc'[t] = "get" /\ UNCHANGED <<pending, before>>
    BY <1>3, <2>1, Moves DEF session, Labels
  <2>3. before[t] = NULL \/ ~ IsNumber(before[t])
    BY <1>1, <1>2, <1>6 DEF History
  <2>4. New(t) = Counted(t)
    BY <1>6, <2>3 DEF New, Counted
  <2>5. History(t, s)'
    BY <1>4, <1>5, <1>6, <2>2, <2>4
      DEF History, Counted, Command, GetLabels, DelLabels, IncLabels, SetLabels
  <2> QED BY <1>1, <1>2, <2>2, <2>5, Midway DEF Busy, Labels
<1>7. CASE Command(t) \notin {"INC", "DEC"}
  <2>1. Tell(t, Ok(NULL)) /\ Finish(t)
    BY <1>3, <1>7 DEF SetValue, Checked
  <2>2. HistoryInv' /\ Served(t, New(t))
    BY <1>1, <1>2, <1>4, <2>1, Returns
  <2>3. answer'[t] = Ok(NULL)
    BY <1>3, <2>1 DEF Tell, TypeInv, TypeOK
  <2>4. Command(t) = "ADD" => before[t] = NULL
    BY <1>1, <1>2 DEF History
  <2>5. New(t) = StoredValue(pending[t].type, pending[t].payload)
    BY <1>7 DEF New
  <2>6. Store!Put(t)
    BY <1>1, <1>3, <1>7, <2>2, <2>3, <2>4, <2>5, StepFacts, SameReplies, SameValues
      DEF Store!Put, Store!Write, Served, Command
  <2> QED BY <2>2, <2>6 DEF Store!Next, Store!Serve
<1> QED BY <1>6, <1>7

(***************************************************************************)
(* The refinement.                                                         *)
(***************************************************************************)
LEMMA StoreInit ==
  ASSUME DOMAIN Preset = {}, Init
  PROVE  HistoryInv /\ Store!Init
<1>1. OwnersInv
  BY OwnersInit
<1>2. \A t \in Threads : pc[t] = "idle" /\ pending[t] = NULL
  BY DEF Init
<1>3. \A s \in Slots : slot[s] = NULL
  BY DEF Init
<1>4. HistoryInv
  BY <1>1, <1>2 DEF HistoryInv, Busy
<1>5. ASSUME NEW k \in Keys PROVE Shown[k] = NULL
  <2>1. Changing(k) = {}
    BY <1>2 DEF Changing
  <2>2. PICK s \in Slots : s = Hash[k]
    BY HashAssumption
  <2>3. Content(s) = NULL
    BY <1>1, <1>3, EmptyIsNull DEF OwnersInv, Settled
  <2> QED BY <2>1, <2>2, <2>3 DEF Shown
<1>6. Shown = [k \in Keys |-> NULL]
  BY <1>5 DEF Shown
<1>7. Told = [t \in Threads |-> NULL]
  BY DEF Told, Init
<1> QED BY <1>4, <1>6, <1>7 DEF Store!Init, Init

LEMMA NextStore ==
  ASSUME OwnKeys
  PROVE  HistoryInv /\ [Next]_vars => HistoryInv' /\ [Store!Next]_(Store!vars)
<1> SUFFICES ASSUME HistoryInv, [Next]_vars
             PROVE  HistoryInv' /\ [Store!Next]_(Store!vars)
  OBVIOUS
<1>1. OwnersInv' /\ OwnersInv
  BY NextOwners DEF OwnKeys, HistoryInv
<1>2. ASSUME NEW t \in Threads, Step(t)
      PROVE  HistoryInv' /\ [Store!Next]_(Store!vars)
  <2>1. ~ Stt(t)
    BY <1>2, StepFacts DEF OwnStep, Busy, Stt, At
  <2> QED BY <1>2, <2>1, AddExistsStore, GetFindStore, GetValueStore, DelFindStore,
             DelCountStoreStore, IncLookStore, IncStoreStore, SetValueStore, CarryStore
        DEF Step
<1>3. ASSUME NEW t \in Threads, NEW r \in May[t], Send(t, r)
      PROVE  HistoryInv' /\ Store!Next
  <2>1. Store!Next
    BY <1>1, <1>3, SendStore DEF OwnersInv
  <2>2. ASSUME NEW u \in Threads, pc'[u] \in Busy PROVE History(u, Index(u))'
    <3>1. /\ UNCHANGED heap /\ r \in Request /\ r.cmd # "STT"
          /\ r.cmd \in {"SET", "ADD", "INC", "DEC", "GET", "DEL"}
      BY <1>3, MayRequest DEF Send, OwnKeys
    <3>2. \A i \in Slots : Content(i)' = Content(i)
      BY <3>1, SettledSame DEF heap
    <3>3. CASE u = t
      <4>1. /\ pending'[t] = r /\ before'[t] = Content(Hash[r.key])
            /\ r.cmd = "SET" => pc'[t] = "del"
            /\ r.cmd = "ADD" => pc'[t] = "exists"
            /\ r.cmd = "GET" => pc'[t] = "get"
            /\ r.cmd = "DEL" => pc'[t] = "get"
            /\ r.cmd \in {"INC", "DEC"} => pc'[t] = "inc"
        BY <1>1, <1>3, <3>1 DEF Send, Go, OwnersInv, TypeInv, TypeOK
      <4>2. PICK i \in Slots : i = Hash[r.key] /\ i = Index(t)' /\ Command(t)' = r.cmd
        BY <3>1, <4>1, MayRequest DEF Index, Command
      <4>3. History(t, i)'
        BY <3>1, <3>2, <4>1, <4>2 DEF History, GetLabels, DelLabels, IncLabels, SetLabels
      <4> QED BY <3>3, <4>2, <4>3
    <3>4. CASE u # t
      <4>1. /\ pc'[u] = pc[u] /\ pending'[u] = pending[u] /\ before'[u] = before[u]
            /\ answer'[u] = answer[u]
        BY <1>1, <1>3, <3>4 DEF Send, Go, Tell, OwnersInv, TypeInv, TypeOK
      <4>2. PICK i \in Slots : i = Index(u) /\ History(u, i)
        BY <1>1, <2>2, <4>1, AtSlot DEF HistoryInv, OwnersInv, Busy
      <4>3. Index(u)' = i /\ Counted(u)' = Counted(u) /\ Command(u)' = Command(u)
        BY <4>1, <4>2 DEF Index, Counted, Command
      <4>4. History(u, i)'
        BY <3>2, <4>1, <4>2, <4>3 DEF History
      <4> QED BY <4>3, <4>4
    <3> QED BY <3>3, <3>4
  <2> QED BY <1>1, <2>1, <2>2 DEF HistoryInv
<1>4. CASE UNCHANGED vars
  <2>1. UNCHANGED <<slot, cell, block, pc, pending, answer, before>>
    BY <1>4 DEF vars, heap, session
  <2>2. \A s : Content(s)' = Content(s)
    BY <2>1, SettledSame
  <2>3. ASSUME NEW u \in Threads, pc'[u] \in Busy PROVE History(u, Index(u))'
    <3>1. PICK i \in Slots : i = Index(u) /\ History(u, i)
      BY <1>1, <2>1, <2>3, AtSlot DEF HistoryInv, OwnersInv, Busy
    <3>2. Index(u)' = i /\ Counted(u)' = Counted(u) /\ Command(u)' = Command(u)
      BY <2>1, <3>1 DEF Index, Counted, Command
    <3>3. History(u, i)'
      BY <2>1, <2>2, <3>1, <3>2 DEF History
    <3> QED BY <3>2, <3>3
  <2>4. Shown' = Shown /\ Told' = Told
    <3>1. \A k : Changing(k)' = Changing(k)
      BY <2>1 DEF Changing, Command
    <3>2. ASSUME NEW k \in Keys PROVE Shown'[k] = Shown[k]
      <4>1. PICK s \in Slots : s = Hash[k] /\ Content(s)' = Content(s)
        BY <2>2, HashAssumption
      <4>2. CASE Changing(k) = {}
        BY <3>1, <4>1, <4>2 DEF Shown
      <4>3. CASE Changing(k) # {}
        <5>1. PICK u \in Threads : u = CHOOSE v \in Changing(k) : TRUE
          BY <4>3 DEF Changing
        <5>2. before'[u] = before[u]
          BY <2>1
        <5> QED BY <3>1, <4>3, <5>1, <5>2 DEF Shown
      <4> QED BY <4>2, <4>3
    <3>3. Shown' = Shown
      BY <3>2 DEF Shown
    <3>4. Told' = Told
      BY <2>1 DEF Told
    <3> QED BY <3>3, <3>4
  <2> QED BY <1>1, <2>1, <2>3, <2>4 DEF HistoryInv, Store!vars
<1> QED BY <1>2, <1>3, <1>4 DEF Next

\* Threads that use keys, and slots, of their own do not disturb each other:
\* seen from their clients every command takes effect at one moment before it
\* returns, and its reply tells what that moment saw, however the statements
\* of the handlers interleave.
THEOREM ThreadsImplementStore ==
  OwnKeys /\ DOMAIN Preset = {} => (Spec => ImplementsStore)
<1> SUFFICES ASSUME OwnKeys, DOMAIN Preset = {} PROVE Spec => ImplementsStore
  OBVIOUS
<1>1. Init => HistoryInv /\ Store!Init
  BY StoreInit
<1> QED BY <1>1, NextStore, PTL DEF Spec, ImplementsStore, Store!SafeSpec

=============================================================================
