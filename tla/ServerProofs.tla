---------------------------- MODULE ServerProofs ----------------------------
(***************************************************************************)
(* The safety of Server, for any number of connections, threads and        *)
(* registry entries.                                                       *)
(***************************************************************************)
EXTENDS Server, VectorProofs

(***************************************************************************)
(* The inductive invariant.                                                *)
(***************************************************************************)
\* A thread that runs has a connection, and no other does.
ThreadsHaveClients ==
  \A t \in Tids : thread[t].pc = "none" <=> thread[t].client = NULL

\* Only the holder of the lock looks through the registry or changes it.
LockRespected ==
  /\ \A t \in Tids : thread[t].pc \in {"scan", "remove"} => lock = t
  /\ main.pc \in {"inserting", "drain"} => lock = "main"

\* What main has in hand: first a connection of its own, then one that it
\* shares with the new thread, and in the end one that is registered.
InHand ==
  /\ main.pc \in {"accept", "spawn", "insert", "inserting", "accepted"}
       => main.client \in Conns
  /\ main.pc \in {"loop", "closing", "drain", "table", "vector", "return"}
       => main.client = NULL
  /\ main.pc \in {"accept", "spawn"}
       => Live(main.client) /\ \A t \in Active : Own(t) # main.client
  /\ main.pc = "spawn" => sock[main.client] \notin {"closed", "shut"}
  /\ ~ astray /\ main.pc \in {"insert", "inserting", "accepted"} => Live(main.client)
  /\ ~ astray /\ main.pc \in {"accept", "spawn", "insert", "inserting"}
       => main.client \notin Entries(clients)
  /\ ~ astray /\ ~ Overstated(clients) /\ main.pc = "accepted"
       => main.client \in Entries(clients)

\* A thread about to remove an entry removes its own, which main has let go.
FoundOwn ==
  \A t \in Tids :
    ~ astray /\ thread[t].pc = "remove" =>
      /\ thread[t].index \in Indices(clients)
      /\ clients.array[thread[t].index] = Own(t)
      /\ main.client # Own(t)

\* Main frees what is registered, and what all threads use, only after SIGINT.
ClosingStopped ==
  /\ main.pc \in {"closing", "drain", "table", "vector", "return"} => ~ is_running
  /\ ~ table \/ lock = "destroyed" => ~ is_running

IInv ==
  /\ TypeOK
  /\ ThreadsHaveClients
  /\ LockRespected
  /\ InHand
  /\ FoundOwn
  /\ ClosingStopped
  /\ ThreadsOwnClients
  /\ RegistryExact
  /\ FaultHasCause
-----------------------------------------------------------------------------
(***************************************************************************)
(* Steps that have an effect in common.                                    *)
(***************************************************************************)
\* A thread goes on.  What it writes to its connection or reads from its socket
\* leaves allocated connections allocated and open sockets open.
LEMMA ThreadMoves ==
  ASSUME IInv, NEW t \in Tids, thread[t].pc \notin {"none", "scan", "remove"},
         NEW label \in Steps \ {"none", "scan", "remove"},
         thread' = [thread EXCEPT ![t].pc = label],
         client' \in [Conns -> [live : BOOLEAN, thread_id : Tids \cup {Junk},
                                is_thread_running : BOOLEAN \cup {Junk}]],
         \A c \in Conns : client'[c].live = client[c].live,
         sock' \in [Conns -> {"closed", "open", "sent", "bye", "ended", "shut"}],
         \A c \in Conns : sock[c] \notin {"closed", "shut"} => sock'[c] \notin {"closed", "shut"},
         UNCHANGED <<is_running, main, clients, lock, table, astray, fault>>
  PROVE  IInv'
<1>1. TypeOK'
  <2>1. thread \in [Tids -> [pc : Steps, client : Conns \cup {NULL}, index : Nat]]
    BY DEF IInv, TypeOK
  <2>2. thread' \in [Tids -> [pc : Steps, client : Conns \cup {NULL}, index : Nat]]
    BY <2>1
  <2> QED
    BY <2>2 DEF IInv, TypeOK
<1> USE DEF IInv, Steps
<1>2. \A u \in Tids : /\ thread'[u].client = thread[u].client
                      /\ thread'[u].index = thread[u].index
                      /\ u # t => thread'[u].pc = thread[u].pc
  BY DEF TypeOK
<1>3. thread'[t].pc = label
  BY DEF TypeOK
<1>4. Active' = Active
  BY <1>2, <1>3 DEF Active
<1>6. ThreadsHaveClients'
  BY <1>2, <1>3 DEF ThreadsHaveClients
<1>7. LockRespected'
  BY <1>2, <1>3 DEF LockRespected
<1>8. InHand'
  BY <1>2, <1>4 DEF InHand, Live, Own, Active
<1>9. FoundOwn'
  BY <1>2, <1>3 DEF FoundOwn, Own
<1>10. ThreadsOwnClients'
  BY <1>2, <1>4 DEF ThreadsOwnClients, Live, Own, Closing, Active
<1>11. RegistryExact'
  BY <1>2, <1>4 DEF RegistryExact, Live, Own, Closing, Active
<1>12. ClosingStopped' /\ FaultHasCause'
  BY DEF ClosingStopped, FaultHasCause
<1> QED
  BY <1>1, <1>6, <1>7, <1>8, <1>9, <1>10, <1>11, <1>12

\* A thread ends, and holds no lock.
LEMMA ThreadEnds ==
  ASSUME IInv, NEW t \in Tids, thread[t].pc \notin {"scan", "remove"}, Exit(t),
         UNCHANGED <<is_running, main, client, clients, lock, sock, table, astray, fault>>
  PROVE  IInv'
<1> USE DEF IInv, Exit, NoThread
<1>1. TypeOK'
  BY DEF TypeOK, Steps
<1>2. /\ thread'[t].pc = "none" /\ thread'[t].client = NULL
      /\ \A u \in Tids \ {t} : thread'[u] = thread[u]
  BY DEF TypeOK
<1>3. Active' = Active \ {t}
  BY <1>2 DEF Active
<1>4. ThreadsHaveClients' /\ LockRespected'
  BY <1>2 DEF ThreadsHaveClients, LockRespected
<1>5. InHand' /\ FoundOwn'
  BY <1>2, <1>3 DEF InHand, FoundOwn, Own, Live, Active
<1>6. ThreadsOwnClients' /\ RegistryExact'
  BY <1>2, <1>3 DEF ThreadsOwnClients, RegistryExact, Own, Live, Closing, Active
<1>7. ClosingStopped' /\ FaultHasCause'
  BY DEF ClosingStopped, FaultHasCause
<1> QED
  BY <1>1, <1>4, <1>5, <1>6, <1>7

\* A running thread loses its connection only to a main that closes down.
LEMMA LostToShutdown ==
  ASSUME IInv, NEW t \in Tids, thread[t].pc # "none", main.pc # "exit", ~ Live(Own(t))
  PROVE  ~ is_running
BY DEF IInv, ThreadsOwnClients, Active, Closing, ClosingStopped

\* Undefined behaviour: the model stops.
LEMMA FaultStep ==
  ASSUME IInv, fault' = TRUE, astray \/ Overstated(clients) \/ ~ is_running,
         UNCHANGED <<is_running, main, thread, client, clients, lock, sock, table, astray>>
  PROVE  IInv'
BY DEF IInv, TypeOK, ThreadsHaveClients, LockRespected, InHand, FoundOwn, ClosingStopped,
       ThreadsOwnClients, RegistryExact, FaultHasCause, Active, Live, Own, Closing

-----------------------------------------------------------------------------
(***************************************************************************)
(* The main thread.                                                        *)
(***************************************************************************)
LEMMA MainLoopStep ==
  ASSUME IInv, MainLoop
  PROVE  IInv'
<1> USE DEF IInv, MainLoop, MainAt, MainGo
<1>1. CASE ~ is_running
  <2>1. UNCHANGED <<is_running, thread, client, clients, lock, sock, table, astray, fault>>
        /\ main' = [main EXCEPT !.pc = "closing"]
    BY <1>1
  <2>2. TypeOK' /\ main'.pc = "closing" /\ main'.client = NULL
    BY <2>1 DEF TypeOK, InHand, MainSteps
  <2> QED
    BY <1>1, <2>1, <2>2 DEF ThreadsHaveClients, LockRespected, InHand, FoundOwn,
         ClosingStopped, ThreadsOwnClients, RegistryExact, FaultHasCause, Closing, Own, Active
<1>2. CASE is_running
  <2>1. PICK c \in Conns :
          /\ ~ client[c].live
          /\ client' = [client EXCEPT ![c].live = TRUE]
          /\ main' = [pc |-> "accept", client |-> c]
    BY <1>2
  <2>2. UNCHANGED <<is_running, thread, clients, lock, sock, table, astray, fault>>
    OBVIOUS
  <2>3. TypeOK'
    <3>0. client \in [Conns -> [live : BOOLEAN, thread_id : Tids \cup {Junk},
                                   is_thread_running : BOOLEAN \cup {Junk}]]
      BY DEF TypeOK
    <3> HIDE DEF IInv
    <3>1. client' \in [Conns -> [live : BOOLEAN, thread_id : Tids \cup {Junk},
                                   is_thread_running : BOOLEAN \cup {Junk}]]
      BY <2>1, <3>0
    <3>2. main' \in [pc : MainSteps, client : Conns \cup {NULL}]
      BY <2>1 DEF MainSteps
    <3> HIDE DEF MainLoop
    <3> QED
      BY <2>2, <3>1, <3>2 DEF TypeOK, IInv
  <2>4. Live(c)' /\ ~ Live(c) /\ \A d : Live(d) => Live(d)'
    BY <2>1 DEF Live, TypeOK
  <2>5. /\ \A t \in Active : Own(t) # c
        /\ ~ astray => c \notin Entries(clients)
    BY <2>4 DEF ThreadsOwnClients, RegistryExact, Closing
  <2>6. InHand'
    BY <2>1, <2>2, <2>4, <2>5 DEF InHand, Active, Own
  <2>7. FoundOwn'
    BY <2>1, <2>2, <2>5 DEF FoundOwn, Own, Active
  <2>8. /\ ~ Closing /\ ~ Closing' /\ main.client = NULL
    BY <2>1, <2>2 DEF Closing, InHand
  <2>10. \A d \in Conns : client[d].live => client'[d].live
    BY <2>1 DEF TypeOK
  <2>11. ThreadsOwnClients'
    BY <2>2, <2>8, <2>10 DEF ThreadsOwnClients, Active, Own, Live
  <2>12. RegistryExact'
    <3>1. \A t \in Active : Own(t) # NULL
      BY DEF ThreadsHaveClients, Active, Own
    <3> QED
      BY <2>2, <2>8, <2>10, <3>1 DEF RegistryExact, Active, Own, Live
  <2>9. ThreadsHaveClients' /\ LockRespected' /\ ClosingStopped' /\ FaultHasCause'
    BY <2>1, <2>2 DEF ThreadsHaveClients, LockRespected, ClosingStopped, FaultHasCause
  <2> QED
    BY <2>3, <2>6, <2>7, <2>9, <2>11, <2>12
<1> QED
  BY <1>1, <1>2

LEMMA AcceptStep ==
  ASSUME IInv, Accept
  PROVE  IInv'
<1> USE DEF IInv, Accept, MainAt, MainGo
<1>1. main.client \in Conns /\ main' = [main EXCEPT !.pc = "spawn"]
  BY DEF InHand
<1>2. TypeOK' /\ main'.pc = "spawn" /\ main'.client = main.client
  <2>0. /\ client \in [Conns -> [live : BOOLEAN, thread_id : Tids \cup {Junk},
                                is_thread_running : BOOLEAN \cup {Junk}]]
        /\ sock \in [Conns -> {"closed", "open", "sent", "bye", "ended", "shut"}]
        /\ main \in [pc : MainSteps, client : Conns \cup {NULL}]
    BY DEF TypeOK
  <2>3. /\ client' = [client EXCEPT ![main.client].is_thread_running = TRUE]
        /\ sock' = [sock EXCEPT ![main.client] = "open"]
        /\ UNCHANGED <<is_running, thread, clients, lock, table, astray, fault>>
    OBVIOUS
  <2> HIDE DEF Accept, IInv
  <2>1. /\ client' \in [Conns -> [live : BOOLEAN, thread_id : Tids \cup {Junk},
                                 is_thread_running : BOOLEAN \cup {Junk}]]
        /\ sock' \in [Conns -> {"closed", "open", "sent", "bye", "ended", "shut"}]
    BY <2>0, <2>3
  <2>2. /\ main' \in [pc : MainSteps, client : Conns \cup {NULL}]
        /\ main'.pc = "spawn" /\ main'.client = main.client
    BY <1>1, <2>0 DEF MainSteps
  <2> QED
    BY <2>1, <2>2, <2>3 DEF TypeOK, IInv
<1>3. /\ \A c \in Conns : Live(c)' = Live(c)
      /\ \A c \in Conns \ {main.client} : sock'[c] = sock[c]
      /\ sock'[main.client] = "open"
  BY <1>1 DEF Live, TypeOK
<1>4. InHand'
  BY <1>1, <1>2, <1>3 DEF InHand, Own, Active, TypeOK
<1>5. ThreadsOwnClients'
  BY <1>2, <1>3 DEF ThreadsOwnClients, Closing, Own, Active, InHand, Live
<1>6. RegistryExact'
  BY <1>2, <1>3 DEF RegistryExact, Closing, Own, Active, Live
<1>7. ThreadsHaveClients' /\ LockRespected' /\ FoundOwn' /\ ClosingStopped' /\ FaultHasCause'
  BY <1>2 DEF ThreadsHaveClients, LockRespected, FoundOwn, ClosingStopped, FaultHasCause, Own
<1> QED
  BY <1>2, <1>4, <1>5, <1>6, <1>7

LEMMA SpawnStep ==
  ASSUME IInv, Spawn
  PROVE  IInv'
<1> USE DEF IInv, Spawn, MainAt
<1>1. main.client \in Conns /\ Live(main.client) /\ \A t \in Active : Own(t) # main.client
  BY DEF InHand
<1>2. CASE Discard /\ UNCHANGED thread
  BY <1>1, <1>2 DEF Discard, Dead, TypeOK, ThreadsHaveClients, LockRespected, InHand,
       FoundOwn, ClosingStopped, ThreadsOwnClients, RegistryExact, FaultHasCause,
       Active, Live, Own, Closing, MainSteps, Entries
<1>3. ASSUME NEW t \in Tids \ Active,
             thread' = [thread EXCEPT ![t] =
                          [pc |-> "start", client |-> main.client, index |-> 0]],
             MainGo("insert"), UNCHANGED <<client, sock>>
      PROVE  IInv'
  <2> USE <1>3 DEF MainGo
  <2>1. main'.pc = "insert" /\ main'.client = main.client /\ TypeOK'
    BY <1>1 DEF TypeOK, MainSteps, Steps
  <2>2. /\ thread'[t].client = main.client /\ thread'[t].pc = "start"
        /\ \A u \in Tids \ {t} : thread'[u] = thread[u]
        /\ Active' = Active \cup {t}
    BY DEF TypeOK, Active
  <2>3. ThreadsHaveClients' /\ LockRespected'
    BY <1>1, <2>1, <2>2, JunkAssumption DEF ThreadsHaveClients, LockRespected, Own
  <2>4. InHand'
    BY <1>1, <2>1 DEF InHand, Live
  <2>5. FoundOwn'
    BY <1>1, <2>1, <2>2 DEF FoundOwn, Own, Active
  <2>6. ~ Closing /\ ~ Closing' /\ \A u \in Active : u # t /\ u \in Tids
    BY <2>1 DEF Closing, Active
  <2>7. ThreadsOwnClients'
    BY <1>1, <2>1, <2>2, <2>6 DEF ThreadsOwnClients, InHand, Own, Live
  <2>9. RegistryExact'
    BY <1>1, <2>1, <2>2, <2>6 DEF RegistryExact, Own, Live
  <2>8. ClosingStopped' /\ FaultHasCause'
    BY <2>1 DEF ClosingStopped, FaultHasCause
  <2> QED
    BY <2>1, <2>3, <2>4, <2>5, <2>7, <2>8, <2>9
<1> QED
  BY <1>2, <1>3

LEMMA AcceptedStep ==
  ASSUME IInv, Accepted
  PROVE  IInv'
<1> USE DEF IInv, Accepted, MainAt
<1>1. CASE ~ Live(main.client)
  BY <1>1, FaultStep DEF Checked, InHand
<1>2. CASE Live(main.client)
  <2>1. /\ main' = [pc |-> "loop", client |-> NULL]
        /\ UNCHANGED <<is_running, thread, client, clients, lock, sock, table, astray, fault>>
    BY <1>2 DEF Checked
  <2>2. TypeOK'
    BY <2>1 DEF TypeOK, MainSteps
  <2>3. InHand' /\ LockRespected' /\ ClosingStopped' /\ FaultHasCause' /\ ThreadsHaveClients'
    BY <2>1 DEF InHand, LockRespected, ClosingStopped, FaultHasCause, ThreadsHaveClients
  <2>4. FoundOwn'
    BY <2>1, JunkAssumption DEF FoundOwn, Own, ThreadsHaveClients
  <2>5. ThreadsOwnClients' /\ RegistryExact'
    BY <2>1 DEF ThreadsOwnClients, RegistryExact, InHand, Live, Closing, Own, Active
  <2> QED
    BY <2>2, <2>3, <2>4, <2>5
<1> QED
  BY <1>1, <1>2

LEMMA AcceptFailsStep ==
  ASSUME IInv, AcceptFails
  PROVE  IInv'
BY DEF AcceptFails, Discard, Dead, IInv, TypeOK, ThreadsHaveClients, LockRespected, InHand, FoundOwn,
       ClosingStopped, ThreadsOwnClients, RegistryExact, FaultHasCause, Active, Live, Own,
       Closing, MainSteps, MainAt, MainGo

\* The steps in which main only moves on, takes the lock or lets go of it.
LEMMA MainMoves ==
  ASSUME IInv, InsertLock \/ CloseLock \/ Drained \/ DestroyTable \/ Return
  PROVE  IInv'
<1>1. CASE InsertLock
  BY <1>1, JunkAssumption DEF InsertLock, IInv, TypeOK, ThreadsHaveClients, LockRespected, InHand, FoundOwn,
       ClosingStopped, ThreadsOwnClients, RegistryExact, FaultHasCause, Active, Live, Own,
       Closing, MainSteps, MainAt, MainGo
<1>2. CASE CloseLock
  BY <1>2, JunkAssumption DEF CloseLock, IInv, TypeOK, ThreadsHaveClients, LockRespected, InHand, FoundOwn,
       ClosingStopped, ThreadsOwnClients, RegistryExact, FaultHasCause, Active, Live, Own,
       Closing, MainSteps, MainAt, MainGo
<1>3. CASE Drained
  BY <1>3, JunkAssumption DEF Drained, IInv, TypeOK, ThreadsHaveClients, LockRespected, InHand, FoundOwn,
       ClosingStopped, ThreadsOwnClients, RegistryExact, FaultHasCause, Active, Live, Own,
       Closing, MainSteps, MainAt, MainGo
<1>4. CASE DestroyTable
  BY <1>4, JunkAssumption DEF DestroyTable, IInv, TypeOK, ThreadsHaveClients, LockRespected, InHand, FoundOwn,
       ClosingStopped, ThreadsOwnClients, RegistryExact, FaultHasCause, Active, Live, Own,
       Closing, MainSteps, MainAt, MainGo
<1>5. CASE Return
  BY <1>5, JunkAssumption DEF Return, IInv, TypeOK, ThreadsHaveClients, LockRespected, InHand, FoundOwn,
       ClosingStopped, ThreadsOwnClients, RegistryExact, FaultHasCause, Active, Live, Own,
       Closing, MainSteps, MainAt, MainGo
<1> QED
  BY <1>1, <1>2, <1>3, <1>4, <1>5

LEMMA DestroyVectorStep ==
  ASSUME IInv, DestroyVector
  PROVE  IInv'
<1>1. CASE lock # NULL
  <2>1. ~ is_running
    BY DEF IInv, ClosingStopped, DestroyVector, MainAt
  <2> QED
    BY <1>1, <2>1, FaultStep DEF DestroyVector, Checked
<1>2. CASE lock = NULL
  BY <1>2, JunkAssumption DEF DestroyVector, Checked, IInv, TypeOK, ThreadsHaveClients, LockRespected, InHand, FoundOwn,
       ClosingStopped, ThreadsOwnClients, RegistryExact, FaultHasCause, Active, Live, Own,
       Closing, MainSteps, MainAt, MainGo
<1> QED
  BY <1>1, <1>2

LEMMA InsertStep ==
  ASSUME IInv, Insert
  PROVE  IInv'
<1> USE DEF IInv, Insert, MainAt, MainGo
<1>1. main.client \in Conns /\ lock = "main" /\ IsVector(clients, Conns)
  BY DEF InHand, LockRespected, TypeOK
<1>2. CASE ~ Fits(clients)
  <2>1. Overstated(clients)
    BY <1>1, <1>2 DEF IsVector, Fits, Full, Overstated
  <2> QED
    BY <1>2, <2>1, FaultStep DEF Checked
<1>3. CASE Fits(clients)
  <2>1. PICK success \in BOOLEAN :
          clients' = vector_insert_unsafe(clients, main.client, success)
    BY <1>3 DEF Checked
  <2>2. /\ lock' = NULL /\ main' = [main EXCEPT !.pc = "accepted"]
        /\ UNCHANGED <<is_running, thread, client, sock, table, astray, fault>>
    BY <1>3 DEF Checked
  <2>3. /\ IsVector(clients', Conns)
        /\ Overstated(clients) => Overstated(clients')
    BY <1>1, <1>3, <2>1, VectorInserted
  <2>4. /\ Entries(clients) \subseteq Entries(clients')
        /\ Entries(clients') \subseteq Entries(clients) \cup {main.client}
        /\ ~ Overstated(clients') => main.client \in Entries(clients')
        /\ Distinct(clients) /\ main.client \notin Entries(clients) => Distinct(clients')
    BY <1>1, <1>3, <2>1, InsertedEntries
  <2>5. main'.pc = "accepted" /\ main'.client = main.client /\ TypeOK'
    BY <2>2, <2>3 DEF TypeOK, MainSteps
  <2>6. \A t \in Tids : thread[t].pc \notin {"scan", "remove"}
    BY <1>1, JunkAssumption DEF LockRespected
  <2>7. ThreadsHaveClients' /\ LockRespected' /\ FoundOwn' /\ ClosingStopped'
    BY <2>2, <2>5, <2>6, JunkAssumption DEF ThreadsHaveClients, LockRespected, FoundOwn, ClosingStopped
  <2>8. InHand'
    BY <1>1, <2>2, <2>4, <2>5 DEF InHand, Live
  <2>9. ThreadsOwnClients'
    BY <2>2, <2>5 DEF ThreadsOwnClients, Active, Own, Live, Closing
  <2>10. RegistryExact'
    BY <2>2, <2>3, <2>4, <2>5 DEF RegistryExact, InHand, Active, Own, Live, Closing
  <2>11. FaultHasCause'
    BY <2>2 DEF FaultHasCause
  <2> QED
    BY <2>5, <2>7, <2>8, <2>9, <2>10, <2>11
<1> QED
  BY <1>2, <1>3

LEMMA DrainStep ==
  ASSUME IInv, Drain
  PROVE  IInv'
<1> DEFINE last == clients.count - 1
           c == clients.array[last]
<1> USE DEF IInv, Drain, MainAt
<1>1. ~ is_running /\ lock = "main" /\ IsVector(clients, Conns) /\ last \in Indices(clients)
  BY DEF ClosingStopped, LockRespected, TypeOK, IsVector, Indices
<1>2. CASE ~ Live(c)
  BY <1>1, <1>2, FaultStep DEF Checked
<1>3. CASE Live(c)
  <2>1. /\ sock' = [sock EXCEPT ![c] = "shut"]
        /\ clients' = vector_remove_unsafe(clients, last)
        /\ client' = [client EXCEPT ![c] = Dead]
        /\ UNCHANGED <<is_running, main, thread, lock, table, astray, fault>>
    BY <1>3 DEF Checked
  <2>2. IsVector(clients', Conns)
    BY <1>1, <2>1, VectorRemoved, JunkAssumption
  <2>3. TypeOK'
    BY <1>3, <2>1, <2>2 DEF TypeOK, Dead, Live
  <2>4. \A t \in Tids : thread[t].pc \notin {"scan", "remove"}
    BY <1>1, JunkAssumption DEF LockRespected
  <2>5. ThreadsHaveClients' /\ LockRespected' /\ FoundOwn' /\ ClosingStopped' /\ InHand'
    BY <2>1, <2>4 DEF ThreadsHaveClients, LockRespected, FoundOwn, ClosingStopped, InHand
  <2>6. ThreadsOwnClients' /\ RegistryExact' /\ FaultHasCause'
    BY <1>1, <2>1 DEF ThreadsOwnClients, RegistryExact, FaultHasCause, Closing
  <2> QED
    BY <2>3, <2>5, <2>6
<1> QED
  BY <1>2, <1>3
-----------------------------------------------------------------------------
(***************************************************************************)
(* A connection's thread.                                                  *)
(***************************************************************************)
LEMMA StartStep ==
  ASSUME IInv, NEW t \in Tids, Start(t)
  PROVE  IInv'
<1> USE DEF Start, At, Go
<1>1. CASE ~ Live(Own(t))
  BY <1>1, LostToShutdown, FaultStep DEF Checked
<1>2. CASE Live(Own(t))
  <2>1. /\ client' = [client EXCEPT ![Own(t)].thread_id = t]
        /\ thread' = [thread EXCEPT ![t].pc = "loop"]
        /\ UNCHANGED <<is_running, main, clients, lock, sock, table, astray, fault>>
    BY <1>2 DEF Checked
  <2>2. /\ client' \in [Conns -> [live : BOOLEAN, thread_id : Tids \cup {Junk},
                                  is_thread_running : BOOLEAN \cup {Junk}]]
        /\ \A c \in Conns : client'[c].live = client[c].live
        /\ sock' \in [Conns -> {"closed", "open", "sent", "bye", "ended", "shut"}]
    BY <1>2, <2>1 DEF IInv, TypeOK, Live
  <2> QED
    BY <2>1, <2>2, ThreadMoves DEF Steps
<1> QED
  BY <1>1, <1>2

LEMMA ByeStep ==
  ASSUME IInv, NEW t \in Tids, memuncached_bye(t)
  PROVE  IInv'
<1> USE DEF memuncached_bye, At, Go
<1>1. CASE ~ Live(Own(t))
  BY <1>1, LostToShutdown, FaultStep DEF Checked
<1>2. CASE Live(Own(t))
  <2>1. /\ client' = [client EXCEPT ![Own(t)].is_thread_running = FALSE]
        /\ thread' = [thread EXCEPT ![t].pc = "loop"]
        /\ UNCHANGED <<is_running, main, clients, lock, sock, table, astray, fault>>
    BY <1>2 DEF Checked
  <2>2. /\ client' \in [Conns -> [live : BOOLEAN, thread_id : Tids \cup {Junk},
                                  is_thread_running : BOOLEAN \cup {Junk}]]
        /\ \A c \in Conns : client'[c].live = client[c].live
        /\ sock' \in [Conns -> {"closed", "open", "sent", "bye", "ended", "shut"}]
    BY <1>2, <2>1 DEF IInv, TypeOK, Live
  <2> QED
    BY <2>1, <2>2, ThreadMoves DEF Steps
<1> QED
  BY <1>1, <1>2

\* The steps in which a thread only reads.
LEMMA ReadStep ==
  ASSUME IInv, NEW t \in Tids, Loop(t) \/ Enter(t) \/ Fetch(t) \/ Handle(t)
  PROVE  IInv'
<1> USE DEF At, Go
<1>1. CASE /\ thread[t].pc \in {"loop", "enter", "fetch", "handle"}
           /\ \E label \in {"loop", "enter", "fetch", "recv", "clean"} : Go(t, label)
           /\ UNCHANGED <<is_running, main, client, clients, lock, sock, table, astray, fault>>
  BY <1>1, ThreadMoves DEF Steps, IInv, TypeOK
<1>2. CASE Loop(t)
  BY <1>1, <1>2 DEF Loop
<1>3. CASE Enter(t)
  BY <1>1, <1>3, LostToShutdown, FaultStep DEF Enter, Checked
<1>4. CASE Fetch(t)
  BY <1>1, <1>4, LostToShutdown, FaultStep DEF Fetch, Checked
<1>5. CASE Handle(t)
  <2>1. ~ table => ~ is_running
    BY DEF IInv, ClosingStopped
  <2> QED
    BY <1>1, <1>5, <2>1, LostToShutdown, FaultStep DEF Handle, Checked
<1> QED
  BY <1>2, <1>3, <1>4, <1>5

LEMMA RecvStep ==
  ASSUME IInv, NEW t \in Tids, Recv(t)
  PROVE  IInv'
<1>1. /\ \E label \in {"handle", "bye", "loop"} : thread' = [thread EXCEPT ![t].pc = label]
      /\ thread[t].pc = "recv"
      /\ UNCHANGED <<is_running, main, client, clients, lock, table, astray, fault>>
  BY DEF Recv, At, Go
<1>2. /\ sock' \in [Conns -> {"closed", "open", "sent", "bye", "ended", "shut"}]
      /\ \A c \in Conns : sock[c] \notin {"closed", "shut"} => sock'[c] \notin {"closed", "shut"}
  BY DEF Recv, IInv, TypeOK
<1> QED
  BY <1>1, <1>2, ThreadMoves DEF Steps, IInv, TypeOK

LEMMA CleanStep ==
  ASSUME IInv, NEW t \in Tids, Clean(t)
  PROVE  IInv'
<1>1. /\ thread[t].pc = "clean"
      /\ thread' = [thread EXCEPT ![t].pc = "lock"] \/ Exit(t)
      /\ UNCHANGED <<is_running, main, client, clients, lock, sock, table, astray, fault>>
  BY DEF Clean, At, Go
<1>2. CASE Exit(t)
  BY <1>1, <1>2, ThreadEnds
<1>3. CASE thread' = [thread EXCEPT ![t].pc = "lock"]
  BY <1>1, <1>3, ThreadMoves DEF Steps, IInv, TypeOK
<1> QED
  BY <1>1, <1>2, <1>3

LEMMA TimedLockStep ==
  ASSUME IInv, NEW t \in Tids, TimedLock(t)
  PROVE  IInv'
<1> USE DEF TimedLock, At
<1>1. CASE lock = "destroyed"
  <2>1. ~ is_running
    BY <1>1 DEF IInv, ClosingStopped
  <2> QED
    BY <1>1, <2>1, FaultStep DEF Checked
<1>2. CASE lock \notin {"destroyed", NULL}
  <2>1. /\ thread[t].pc = "lock" /\ Exit(t)
        /\ UNCHANGED <<is_running, main, client, clients, lock, sock, table, astray, fault>>
    BY <1>2 DEF Checked
  <2> QED
    BY <2>1, ThreadEnds
<1>3. CASE lock = NULL
  <2> USE DEF IInv
  <2>1. /\ lock' = t /\ thread' = [thread EXCEPT ![t].pc = "scan"] /\ thread[t].pc = "lock"
        /\ UNCHANGED <<is_running, main, client, clients, sock, table, astray, fault>>
    BY <1>3, JunkAssumption DEF Checked, Go
  <2>2. TypeOK'
    BY <2>1 DEF TypeOK, Steps
  <2>3. /\ \A u \in Tids : /\ thread'[u].client = thread[u].client
                           /\ thread'[u].index = thread[u].index
                           /\ u # t => thread'[u].pc = thread[u].pc
        /\ thread'[t].pc = "scan" /\ Active' = Active
    BY <2>1 DEF TypeOK, Active
  <2>4. LockRespected'
    BY <1>3, <2>1, <2>3, JunkAssumption DEF LockRespected
  <2>5. ThreadsHaveClients' /\ FoundOwn'
    BY <2>1, <2>3 DEF ThreadsHaveClients, FoundOwn, Own
  <2>6. InHand'
    BY <2>1, <2>3 DEF InHand, Live, Own, Active
  <2>7. ThreadsOwnClients' /\ RegistryExact'
    BY <2>1, <2>3 DEF ThreadsOwnClients, RegistryExact, Live, Own, Closing, Active
  <2>8. ClosingStopped' /\ FaultHasCause'
    BY <2>1, JunkAssumption DEF ClosingStopped, FaultHasCause
  <2> QED
    BY <2>2, <2>4, <2>5, <2>6, <2>7, <2>8
<1> QED
  BY <1>1, <1>2, <1>3

LEMMA ScanStep ==
  ASSUME IInv, NEW t \in Tids, Scan(t)
  PROVE  IInv'
<1> DEFINE Handed == main.client = Own(t) /\ main.pc \in {"insert", "inserting", "accepted"}
<1> USE DEF At
<1>1. PICK i \in 0 .. clients.count :
        /\ \A j \in 0 .. (i - 1) : Live(clients.array[j]) /\ MayDiffer(j, t)
        /\ Checked(Live(Own(t)) /\ (i < clients.count => Live(clients.array[i])),
             /\ i < clients.count => MayMatch(i, t)
             /\ thread' = [thread EXCEPT ![t].pc = "remove", ![t].index = i]
             /\ astray' = (astray \/ Handed \/ i = clients.count
                             \/ clients.array[i] # Own(t))
             /\ UNCHANGED <<is_running, main, client, clients, lock, sock, table>>)
  BY DEF Scan
<1>2. thread[t].pc = "scan" /\ main.pc # "exit"
  BY DEF Scan
<1>3. clients.count \in Nat /\ i \in Nat /\ IsVector(clients, Conns)
  BY <1>1, VectorParts DEF IInv, TypeOK
<1>4. CASE ~ Live(Own(t))
  BY <1>1, <1>2, <1>4, LostToShutdown, FaultStep DEF Checked
<1>5. CASE i < clients.count /\ ~ Live(clients.array[i])
  <2>1. clients.array[i] \in Entries(clients)
    BY <1>3, <1>5 DEF Entries, Indices
  <2>2. astray \/ ~ is_running
    BY <1>2, <1>5, <2>1 DEF IInv, RegistryExact, Closing, ClosingStopped
  <2> QED
    BY <1>1, <1>5, <2>2, FaultStep DEF Checked
<1>6. CASE Live(Own(t)) /\ (i < clients.count => Live(clients.array[i]))
  <2>1. /\ thread' = [thread EXCEPT ![t].pc = "remove", ![t].index = i]
        /\ astray' = (astray \/ Handed \/ i = clients.count \/ clients.array[i] # Own(t))
        /\ UNCHANGED <<is_running, main, client, clients, lock, sock, table, fault>>
    BY <1>1, <1>6 DEF Checked
  <2>2. TypeOK'
    <3>1. thread \in [Tids -> [pc : Steps, client : Conns \cup {NULL}, index : Nat]]
      BY DEF IInv, TypeOK
    <3>2. thread' \in [Tids -> [pc : Steps, client : Conns \cup {NULL}, index : Nat]]
      BY <1>3, <2>1, <3>1 DEF Steps
    <3>3. astray' \in BOOLEAN
      BY <2>1
    <3> QED
      BY <2>1, <3>2, <3>3 DEF IInv, TypeOK
  <2> USE DEF IInv
  <2>3. /\ \A u \in Tids : /\ thread'[u].client = thread[u].client
                           /\ u # t => /\ thread'[u].pc = thread[u].pc
                                       /\ thread'[u].index = thread[u].index
        /\ thread'[t].pc = "remove" /\ thread'[t].index = i
    BY <2>1 DEF TypeOK
  <2>4. Active' = Active
    BY <1>2, <2>3 DEF Active
  <2>5. ~ astray' => ~ astray
    BY <2>1
  <2>6. ThreadsHaveClients' /\ LockRespected'
    BY <1>2, <2>1, <2>3 DEF ThreadsHaveClients, LockRespected
  <2>7. InHand'
    BY <2>1, <2>3, <2>4, <2>5 DEF InHand, Own, Live, Active
  <2>8. ~ astray' => /\ i \in Indices(clients)
                     /\ clients.array[i] = Own(t)
                     /\ main.client # Own(t)
    <3>1. t \in Active /\ Own(t) # NULL /\ main.pc \in MainSteps
      BY <1>2 DEF Active, ThreadsHaveClients, Own, TypeOK
    <3>2. ~ Handed => main.client # Own(t)
      BY <1>2, <3>1 DEF InHand, MainSteps
    <3>3. ~ astray' => ~ Handed /\ i # clients.count /\ clients.array[i] = Own(t)
      BY <2>1
    <3>4. i # clients.count => i \in Indices(clients)
      BY <1>3 DEF Indices
    <3> QED
      BY <3>2, <3>3, <3>4
  <2>13. UNCHANGED <<main, client, clients, sock>>
    BY <2>1
  <2>9. FoundOwn'
    <3> HIDE DEF IInv
    <3>1. FoundOwn
      BY DEF IInv
    <3> QED
      BY <2>3, <2>5, <2>8, <2>13, <3>1 DEF FoundOwn, Own
  <2>10. ThreadsOwnClients'
    BY <2>3, <2>4, <2>13 DEF ThreadsOwnClients, Own, Live, Closing, Active
  <2>11. RegistryExact'
    BY <2>3, <2>4, <2>5, <2>13 DEF RegistryExact, Own, Live, Closing, Active
  <2>12. ClosingStopped' /\ FaultHasCause'
    BY <2>1 DEF ClosingStopped, FaultHasCause
  <2> QED
    BY <2>2, <2>6, <2>7, <2>9, <2>10, <2>11, <2>12
<1> QED
  BY <1>4, <1>5, <1>6

LEMMA RemoveStep ==
  ASSUME IInv, NEW t \in Tids, Remove(t)
  PROVE  IInv'
<1> DEFINE i == thread[t].index
           c == Own(t)
<1> USE DEF At
<1>1. thread[t].pc = "remove" /\ main.pc # "exit"
  BY DEF Remove
<1>2. CASE ~ Live(c)
  BY <1>1, <1>2, LostToShutdown, FaultStep DEF Remove, Checked
<1>3. CASE Live(c)
  <2> USE DEF IInv
  <2>1. /\ clients' = IF i < clients.count THEN vector_remove_unsafe(clients, i) ELSE clients
        /\ client' = [client EXCEPT ![c] = Dead]
        /\ sock' = [sock EXCEPT ![c] = "closed"]
        /\ lock' = NULL
        /\ thread' = [thread EXCEPT ![t] = NoThread]
        /\ UNCHANGED <<is_running, main, table, astray, fault>>
    BY <1>3 DEF Remove, Checked, Exit
  <2>2. c \in Conns /\ i \in Nat /\ IsVector(clients, Conns) /\ lock = t
    BY <1>1, <1>3 DEF Live, TypeOK, LockRespected
  <2>3. clients.count \in Nat /\ NULL \notin Conns
    BY <2>2, VectorParts, JunkAssumption
  <2>5. IsVector(clients', Conns)
    <3>1. CASE i < clients.count
      <4>1. i \in Indices(clients)
        BY <2>2, <2>3, <3>1 DEF Indices
      <4> QED
        BY <2>1, <2>2, <2>3, <3>1, <4>1, VectorRemoved
    <3>2. CASE ~ (i < clients.count)
      BY <2>1, <2>2, <3>2
    <3> QED
      BY <3>1, <3>2
  <2>6. TypeOK'
    <3>1. /\ thread' \in [Tids -> [pc : Steps, client : Conns \cup {NULL}, index : Nat]]
          /\ client' \in [Conns -> [live : BOOLEAN, thread_id : Tids \cup {Junk},
                                    is_thread_running : BOOLEAN \cup {Junk}]]
          /\ sock' \in [Conns -> {"closed", "open", "sent", "bye", "ended", "shut"}]
      BY <2>1 DEF TypeOK, NoThread, Dead, Steps
    <3> QED
      BY <2>1, <2>5, <3>1 DEF TypeOK
  <2>7. /\ thread'[t].pc = "none" /\ thread'[t].client = NULL
        /\ \A u \in Tids \ {t} : thread'[u] = thread[u]
        /\ Active' = Active \ {t}
        /\ \A d \in Conns \ {c} : client'[d] = client[d] /\ sock'[d] = sock[d]
    BY <2>1 DEF TypeOK, Active, NoThread
  <2>8. /\ \A u \in Tids \ {t} : thread[u].pc \notin {"scan", "remove"}
        /\ main.pc \notin {"inserting", "drain"}
    BY <2>2, JunkAssumption DEF LockRespected
  <2>9. ThreadsHaveClients' /\ LockRespected' /\ FoundOwn'
    BY <2>1, <2>7, <2>8 DEF ThreadsHaveClients, LockRespected, FoundOwn
  <2>10. ~ astray => i \in Indices(clients) /\ clients.array[i] = c /\ main.client # c
    BY <1>1 DEF FoundOwn
  <2>11. ASSUME ~ astray, ~ Closing
         PROVE  /\ Distinct(clients') /\ Entries(clients') = Entries(clients) \ {c}
                /\ Overstated(clients') <=> Overstated(clients)
    <3>1. i \in Indices(clients) /\ clients.array[i] = c /\ i < clients.count
      BY <2>3, <2>10, <2>11 DEF Indices
    <3>2. Distinct(clients)
      BY <2>11 DEF RegistryExact
    <3> QED
      BY <2>1, <2>2, <2>3, <3>1, <3>2, VectorRemoved, RemovedEntries
  <2>12. t \in Active
    BY <1>1 DEF Active
  <2>13. InHand'
    <3>1. /\ main.pc \in {"accept", "spawn"} => main.client # c
          /\ main.pc \in {"accept", "spawn", "insert", "inserting", "accepted"} => ~ Closing
      BY <2>12 DEF InHand, Closing
    <3> QED
      BY <2>1, <2>7, <2>10, <2>11, <3>1 DEF InHand, Live, Own, Active
  <2>14. ThreadsOwnClients'
    <3> SUFFICES ASSUME ~ Closing
                 PROVE  /\ \A u \in Active \ {t} : /\ thread[u].client \in Conns \ {c}
                                                   /\ Live(thread[u].client)
                                                   /\ sock[thread[u].client] \notin {"closed", "shut"}
                        /\ \A u, w \in Active \ {t} : u # w => thread[u].client # thread[w].client
      BY <2>1, <2>7 DEF ThreadsOwnClients, Closing, Live, Own, Active
    <3> QED
      BY <2>12 DEF ThreadsOwnClients, Live, Own
  <2>15. RegistryExact'
    <3> SUFFICES ASSUME ~ astray, ~ Closing
                 PROVE  /\ \A d \in Entries(clients') : Live(d) /\ d # c
                        /\ Distinct(clients')
                        /\ ~ Overstated(clients') =>
                             \A u \in Active \ {t} : thread[u].client \in Entries(clients')
                                                     \/ main.client = thread[u].client
      BY <2>1, <2>7 DEF RegistryExact, Closing, Live, Own, Active
    <3>1. \A u \in Active \ {t} : thread[u].client # c
      BY <2>12 DEF ThreadsOwnClients, Own
    <3> QED
      BY <2>11, <3>1 DEF RegistryExact, Own
  <2>16. ClosingStopped' /\ FaultHasCause'
    <3>1. Overstated(clients) => Overstated(clients')
      <4>1. CASE i < clients.count
        <5>1. i \in Indices(clients)
          BY <2>2, <2>3, <4>1 DEF Indices
        <5> QED
          BY <2>1, <2>2, <2>3, <4>1, <5>1, VectorRemoved
      <4> QED
        BY <2>1, <4>1
    <3> QED
      BY <2>1, <3>1, JunkAssumption DEF ClosingStopped, FaultHasCause
  <2> QED
    BY <2>6, <2>9, <2>13, <2>14, <2>15, <2>16
<1> QED
  BY <1>2, <1>3
-----------------------------------------------------------------------------
(***************************************************************************)
(* The outside world.                                                      *)
(***************************************************************************)
LEMMA PeerStep ==
  ASSUME IInv, NEW c \in Conns, Peer(c)
  PROVE  IInv'
BY JunkAssumption DEF Peer, IInv, TypeOK, ThreadsHaveClients, LockRespected, InHand, FoundOwn,
       ClosingStopped, ThreadsOwnClients, RegistryExact, FaultHasCause, Active, Live, Own, Closing

LEMMA SigpipeStep ==
  ASSUME IInv, NEW t \in Tids, Sigpipe(t)
  PROVE  IInv'
BY JunkAssumption DEF Sigpipe, IInv, TypeOK, ThreadsHaveClients, LockRespected, InHand, FoundOwn,
       ClosingStopped, ThreadsOwnClients, RegistryExact, FaultHasCause, Active, Live, Own,
       Closing, MainSteps, MainGo

LEMMA SigintStep ==
  ASSUME IInv, Sigint
  PROVE  IInv'
<1> USE DEF Sigint, IInv, MainGo
<1>1. /\ is_running' = FALSE
      /\ UNCHANGED <<thread, clients, lock, table, astray, fault>>
  OBVIOUS
<1>2. ASSUME UNCHANGED <<client, sock>>, main' = [main EXCEPT !.pc = "exit"] \/ main' = main
      PROVE  IInv'
  <2>1. main'.client = main.client /\ main'.pc \in {main.pc, "exit"} /\ main'.pc \in MainSteps
        /\ main' \in [pc : MainSteps, client : Conns \cup {NULL}]
    BY <1>2 DEF TypeOK, MainSteps
  <2>2. TypeOK'
    BY <1>1, <1>2, <2>1 DEF TypeOK
  <2>3. ThreadsHaveClients' /\ LockRespected' /\ ClosingStopped' /\ FaultHasCause'
    BY <1>1, <2>1 DEF ThreadsHaveClients, LockRespected, ClosingStopped, FaultHasCause
  <2>4. InHand' /\ FoundOwn'
    BY <1>1, <1>2, <2>1 DEF InHand, FoundOwn, Live, Own, Active
  <2>5. ThreadsOwnClients' /\ RegistryExact'
    BY <1>1, <1>2, <2>1 DEF ThreadsOwnClients, RegistryExact, Live, Own, Active, Closing
  <2> QED
    BY <2>2, <2>3, <2>4, <2>5
<1>3. CASE is_running /\ main.pc = "accept"
  <2>1. main.client \in Conns /\ Live(main.client) /\ \A t \in Active : Own(t) # main.client
    BY <1>3 DEF InHand
  <2>2. /\ client' = [client EXCEPT ![main.client] = Dead]
        /\ sock' = [sock EXCEPT ![main.client] = "closed"]
        /\ main' = [pc |-> "loop", client |-> NULL]
    BY <1>3 DEF Discard
  <2>3. TypeOK'
    BY <1>1, <2>1, <2>2 DEF TypeOK, Dead, MainSteps
  <2>4. \A c \in Conns \ {main.client} : client'[c] = client[c] /\ sock'[c] = sock[c]
    BY <2>2 DEF TypeOK
  <2>5. ThreadsHaveClients' /\ LockRespected' /\ ClosingStopped' /\ FaultHasCause' /\ InHand'
    BY <1>1, <2>2 DEF ThreadsHaveClients, LockRespected, ClosingStopped, FaultHasCause, InHand
  <2>6. FoundOwn'
    BY <1>1, <2>2, JunkAssumption DEF FoundOwn, Own, ThreadsHaveClients
  <2>7. ThreadsOwnClients'
    BY <1>1, <1>3, <2>1, <2>2, <2>4 DEF ThreadsOwnClients, Live, Own, Active, Closing
  <2>8. RegistryExact'
    BY <1>1, <1>3, <2>1, <2>2, <2>4 DEF RegistryExact, InHand, Live, Own, Active, Closing
  <2> QED
    BY <2>3, <2>5, <2>6, <2>7, <2>8
<1>4. CASE ~ is_running
  <2>1. main' = [main EXCEPT !.pc = "exit"] /\ client' = client /\ sock' = sock
    BY <1>4
  <2> QED
    BY <1>2, <2>1
<1>5. CASE is_running /\ main.pc # "accept"
  <2>1. main' = main /\ client' = client /\ sock' = sock
    BY <1>5
  <2> QED
    BY <1>2, <2>1
<1> QED
  BY <1>3, <1>4, <1>5
-----------------------------------------------------------------------------
(***************************************************************************)
(* The theorems.                                                           *)
(***************************************************************************)
LEMMA InitIInv == Init => IInv
<1> SUFFICES ASSUME Init
             PROVE  IInv
  OBVIOUS
<1> USE DEF Init
<1>1. IsVector(clients, Conns)
  <2>1. clients = [array |-> [i \in 0 .. (InitialSize - 1) |-> NULL],
                   size |-> InitialSize, count |-> 0]
    BY DEF vector_create
  <2> QED
    BY <2>1, InitialSizeAssumption DEF IsVector, Indices
<1>2. TypeOK
  BY <1>1 DEF TypeOK, NoThread, Dead, Steps, MainSteps
<1>3. Active = {} /\ Entries(clients) = {} /\ Distinct(clients)
  BY DEF Active, NoThread, Entries, Distinct, Indices, vector_create
<1>4. ThreadsHaveClients /\ LockRespected /\ FoundOwn
  BY JunkAssumption DEF ThreadsHaveClients, LockRespected, FoundOwn, NoThread
<1>5. InHand /\ ClosingStopped
  BY JunkAssumption DEF InHand, ClosingStopped
<1>6. ThreadsOwnClients /\ RegistryExact /\ FaultHasCause
  BY <1>3 DEF ThreadsOwnClients, RegistryExact, FaultHasCause
<1> QED
  BY <1>2, <1>4, <1>5, <1>6 DEF IInv

LEMMA NextIInv == IInv /\ [Next]_vars => IInv'
<1> SUFFICES ASSUME IInv, [Next]_vars
             PROVE  IInv'
  OBVIOUS
<1>1. CASE Main
  BY <1>1, MainLoopStep, SpawnStep, InsertStep, AcceptedStep, DrainStep, DestroyVectorStep,
     MainMoves DEF Main
<1>2. CASE Accept \/ AcceptFails \/ Sigint
  BY <1>2, AcceptStep, AcceptFailsStep, SigintStep
<1>3. ASSUME NEW t \in Tids, handle_connection(t) \/ Sigpipe(t)
      PROVE  IInv'
  BY <1>3, StartStep, ReadStep, RecvStep, ByeStep, CleanStep, TimedLockStep, ScanStep,
     RemoveStep, SigpipeStep DEF handle_connection
<1>4. ASSUME NEW c \in Conns, Peer(c)
      PROVE  IInv'
  BY <1>4, PeerStep
<1>5. CASE UNCHANGED vars
  BY <1>5 DEF vars, IInv, TypeOK, ThreadsHaveClients, LockRespected, InHand, FoundOwn,
     ClosingStopped, ThreadsOwnClients, RegistryExact, FaultHasCause, Active, Live, Own, Closing
<1> QED
  BY <1>1, <1>2, <1>3, <1>4, <1>5 DEF Next

THEOREM IInvHolds == Spec => []IInv
BY InitIInv, NextIInv, PTL DEF Spec

\* Every variable keeps its type; above all the registry stays a vector of
\* allocated structs (vector.c), whatever threads insert and remove.
THEOREM ServerTypeOK == Spec => []TypeOK
<1>1. IInv => TypeOK
  BY DEF IInv
<1> QED
  BY <1>1, IInvHolds, PTL

\* Each thread of handle_connection works on a connection of its own until main
\* closes down, for any number of connections and threads.
THEOREM ServerThreadsOwnClients == Spec => []ThreadsOwnClients
<1>1. IInv => ThreadsOwnClients
  BY DEF IInv
<1> QED
  BY <1>1, IInvHolds, PTL

\* The registry that main's vector_insert and the threads' vector_remove_unsafe
\* keep is exact until a thread has gone astray.
THEOREM ServerRegistryExact == Spec => []RegistryExact
<1>1. IInv => RegistryExact
  BY DEF IInv
<1> QED
  BY <1>1, IInvHolds, PTL

\* Undefined behaviour has one of three causes: a thread freed a connection main
\* was still handing over or left it listed, a realloc failed, or SIGINT came.
THEOREM ServerFaultHasCause == Spec => []FaultHasCause
<1>1. IInv => FaultHasCause
  BY DEF IInv
<1> QED
  BY <1>1, IInvHolds, PTL
=============================================================================
