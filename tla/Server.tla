------------------------------- MODULE Server -------------------------------
(***************************************************************************)
(* The life of the server: main accepts connections and starts a detached  *)
(* thread for each; a thread serves its connection, then takes it out of   *)
(* the registry "clients" and frees it; after SIGINT main frees whatever   *)
(* is still registered and exits.  A step is one access to memory that is  *)
(* shared, or one blocking call.                                           *)
(*                                                                         *)
(* What the commands do to the cache is left to Cache and CacheThreads: a  *)
(* command is here a line received and a reply written.  As in             *)
(* CacheThreads, the model stops at undefined behaviour.                   *)
(***************************************************************************)
EXTENDS Vector, FiniteSets

CONSTANTS
  Conns,       (* bound: the client_connection_t structs malloc has        *)
  Tids,        (* bound: the thread ids there are, reused like any memory  *)
  InitialSize, (* the registry's first size                                *)
  MaxCount     (* bound: no connections arrive once this many are listed   *)

ASSUME InitialSizeAssumption == InitialSize \in Nat \ {0}
ASSUME JunkAssumption ==
  /\ NULL \notin Conns /\ Junk \notin Tids
  /\ Tids \cap {NULL, "main", "destroyed"} = {}
  /\ NULL \notin {"main", "destroyed"}

VARIABLES
  is_running,  (* cleared by SIGINT                                        *)
  main,        (* where main is, and the connection it has in hand         *)
  thread,      (* where each thread is, and its connection                 *)
  client,      (* the client_connection_t structs                          *)
  clients,     (* the registry, a vector of pointers to them               *)
  lock,        (* who holds the registry's lock                            *)
  sock,        (* each connection's socket, and what waits to be read      *)
  table,       (* is there a cache table?                                  *)
  astray,      (* history: did a thread free a connection that main was    *)
               (* still handing over, or leave it in the registry?         *)
  fault        (* has something undefined been done?                       *)

vars == <<is_running, main, thread, client, clients, lock, sock, table, astray, fault>>

Steps == {"start", "loop", "enter", "fetch", "recv", "handle", "bye",
          "clean", "lock", "scan", "remove", "none"}

MainSteps == {"loop", "accept", "spawn", "insert", "inserting", "accepted",
              "closing", "drain", "table", "vector", "return", "exit"}

TypeOK ==
  /\ is_running \in BOOLEAN
  /\ main \in [pc : MainSteps, client : Conns \cup {NULL}]
  /\ thread \in [Tids -> [pc : Steps, client : Conns \cup {NULL}, index : Nat]]
  /\ client \in [Conns -> [live : BOOLEAN, thread_id : Tids \cup {Junk},
                           is_thread_running : BOOLEAN \cup {Junk}]]
  /\ IsVector(clients, Conns)
  /\ lock \in Tids \cup {"main", "destroyed", NULL}
  /\ sock \in [Conns -> {"closed", "open", "sent", "bye", "ended", "shut"}]
  /\ table \in BOOLEAN
  /\ astray \in BOOLEAN
  /\ fault \in BOOLEAN
-----------------------------------------------------------------------------
Active == {t \in Tids : thread[t].pc # "none"}

\* Main is done accepting, and frees what is registered.
Closing == main.pc \in {"closing", "drain", "table", "vector", "return", "exit"}

Live(c) == c \in Conns /\ client[c].live

NoThread == [pc |-> "none", client |-> NULL, index |-> 0]
Dead == [live |-> FALSE, thread_id |-> Junk, is_thread_running |-> Junk]

Checked(defined, step) ==
  IF defined
    THEN step /\ UNCHANGED fault
    ELSE /\ fault' = TRUE
         /\ UNCHANGED <<is_running, main, thread, client, clients, lock, sock, table, astray>>

Init ==
  /\ is_running = TRUE
  /\ main = [pc |-> "loop", client |-> NULL]
  /\ thread = [t \in Tids |-> NoThread]
  /\ client = [c \in Conns |-> Dead]
  /\ clients = vector_create(InitialSize)
  /\ lock = NULL
  /\ sock = [c \in Conns |-> "closed"]
  /\ table = TRUE
  /\ astray = FALSE
  /\ fault = FALSE
-----------------------------------------------------------------------------
(***************************************************************************)
(* The main thread.                                                        *)
(***************************************************************************)
MainAt(label) == main.pc = label /\ ~ fault
MainGo(label) == main' = [main EXCEPT !.pc = label]

\* The connection main has in hand goes, and main looks at is_running again.
Discard ==
  /\ client' = [client EXCEPT ![main.client] = Dead]
  /\ sock' = [sock EXCEPT ![main.client] = "closed"]
  /\ main' = [pc |-> "loop", client |-> NULL]

MainLoop ==
  /\ MainAt("loop")
  /\ \/ /\ is_running
        /\ \E c \in Conns :
             /\ ~ client[c].live
             /\ client' = [client EXCEPT ![c].live = TRUE]
             /\ main' = [pc |-> "accept", client |-> c]
     \/ /\ ~ is_running
        /\ MainGo("closing")
        /\ UNCHANGED client
  /\ UNCHANGED <<is_running, thread, clients, lock, sock, table, astray, fault>>

\* A connection arrives.
Accept ==
  /\ MainAt("accept")
  /\ clients.count < MaxCount
  /\ client' = [client EXCEPT ![main.client].is_thread_running = TRUE]
  /\ sock' = [sock EXCEPT ![main.client] = "open"]
  /\ MainGo("spawn")
  /\ UNCHANGED <<is_running, thread, clients, lock, table, astray, fault>>

\* accept gives up on a connection.
AcceptFails ==
  /\ MainAt("accept")
  /\ Discard
  /\ UNCHANGED <<is_running, thread, clients, lock, table, astray, fault>>

\* pthread_create may fail.
Spawn ==
  /\ MainAt("spawn")
  /\ \/ /\ \E t \in Tids \ Active :
             thread' = [thread EXCEPT ![t] =
                          [pc |-> "start", client |-> main.client, index |-> 0]]
        /\ MainGo("insert")
        /\ UNCHANGED <<client, sock>>
     \/ Discard /\ UNCHANGED thread
  /\ UNCHANGED <<is_running, clients, lock, table, astray, fault>>

InsertLock ==
  /\ MainAt("insert")
  /\ lock = NULL
  /\ lock' = "main"
  /\ MainGo("inserting")
  /\ UNCHANGED <<is_running, thread, client, clients, sock, table, astray, fault>>

\* Whether the vector could grow or not, the connection counts as accepted.
Insert ==
  /\ MainAt("inserting")
  /\ Checked(Fits(clients),
             /\ \E success \in BOOLEAN :
                  clients' = vector_insert_unsafe(clients, main.client, success)
             /\ lock' = NULL
             /\ MainGo("accepted")
             /\ UNCHANGED <<is_running, thread, client, sock, table, astray>>)

\* The log line about the connection reads its address.
Accepted ==
  /\ MainAt("accepted")
  /\ Checked(Live(main.client),
             /\ main' = [pc |-> "loop", client |-> NULL]
             /\ UNCHANGED <<is_running, thread, client, clients, lock, sock, table, astray>>)

CloseLock ==
  /\ MainAt("closing")
  /\ lock = NULL
  /\ lock' = "main"
  /\ MainGo("drain")
  /\ UNCHANGED <<is_running, thread, client, clients, sock, table, astray, fault>>

\* The loop over the registry starts at its end, and each turn removes the
\* entry it looks at: the last one.
Drain ==
  LET last == clients.count - 1
      c == clients.array[last]
  IN  /\ MainAt("drain")
      /\ clients.count > 0
      /\ Checked(Live(c),
                 /\ sock' = [sock EXCEPT ![c] = "shut"]
                 /\ clients' = vector_remove_unsafe(clients, last)
                 /\ client' = [client EXCEPT ![c] = Dead]
                 /\ UNCHANGED <<is_running, main, thread, lock, table, astray>>)

Drained ==
  /\ MainAt("drain")
  /\ clients.count = 0
  /\ lock' = NULL
  /\ MainGo("table")
  /\ UNCHANGED <<is_running, thread, client, clients, sock, table, astray, fault>>

DestroyTable ==
  /\ MainAt("table")
  /\ table' = FALSE
  /\ MainGo("vector")
  /\ UNCHANGED <<is_running, thread, client, clients, lock, sock, astray, fault>>

DestroyVector ==
  /\ MainAt("vector")
  /\ Checked(lock = NULL,
             /\ lock' = "destroyed"
             /\ MainGo("return")
             /\ UNCHANGED <<is_running, thread, client, clients, sock, table, astray>>)

\* The process ends, and its threads with it.
Return ==
  /\ MainAt("return")
  /\ MainGo("exit")
  /\ UNCHANGED <<is_running, thread, client, clients, lock, sock, table, astray, fault>>

\* What main does without waiting for a connection.
Main ==
  \/ MainLoop \/ Spawn \/ InsertLock \/ Insert \/ Accepted
  \/ CloseLock \/ Drain \/ Drained \/ DestroyTable \/ DestroyVector \/ Return

-----------------------------------------------------------------------------
(***************************************************************************)
(* A connection's thread.                                                  *)
(***************************************************************************)
At(t, label) == thread[t].pc = label /\ ~ fault /\ main.pc # "exit"
Go(t, label) == thread' = [thread EXCEPT ![t].pc = label]
Exit(t) == thread' = [thread EXCEPT ![t] = NoThread]

Own(t) == thread[t].client

Start(t) ==
  /\ At(t, "start")
  /\ Checked(Live(Own(t)),
             /\ client' = [client EXCEPT ![Own(t)].thread_id = t]
             /\ Go(t, "loop")
             /\ UNCHANGED <<is_running, main, clients, lock, sock, table, astray>>)

\* while (is_running && client->is_thread_running)
Loop(t) ==
  /\ At(t, "loop")
  /\ Go(t, IF is_running THEN "enter" ELSE "clean")
  /\ UNCHANGED <<is_running, main, client, clients, lock, sock, table, astray, fault>>

\* The second half of that test and the first of the next,
\* while (is_running && !is_end && recv(client->socket_fd, ...) > 0)
Enter(t) ==
  /\ At(t, "enter")
  /\ Checked(Live(Own(t)),
             /\ Go(t, IF ~ client[Own(t)].is_thread_running THEN "clean"
                      ELSE IF is_running THEN "fetch" ELSE "loop")
             /\ UNCHANGED <<is_running, main, client, clients, lock, sock, table, astray>>)

Fetch(t) ==
  /\ At(t, "fetch")
  /\ Checked(Live(Own(t)),
             /\ Go(t, "recv")
             /\ UNCHANGED <<is_running, main, client, clients, lock, sock, table, astray>>)

\* Mutant of Recv: a connection that has ended is closed, and the loop goes on.
RecvCloses(t) ==
  /\ At(t, "recv")
  /\ sock[Own(t)] # "open"
  /\ Go(t, "loop")
  /\ sock' = [sock EXCEPT ![Own(t)] = IF @ = "ended" THEN "closed" ELSE @]
  /\ UNCHANGED <<is_running, main, client, clients, lock, table, astray, fault>>

\* recv blocks while the peer is silent.  When the connection has ended, on
\* either side, it returns no data; that ends the inner loop and no more.
Recv(t) ==
  LET arrived == sock[Own(t)] IN
  /\ At(t, "recv")
  /\ arrived # "open"
  /\ Go(t, CASE arrived = "sent" -> "handle" [] arrived = "bye" -> "bye" [] OTHER -> "loop")
  /\ sock' = [sock EXCEPT ![Own(t)] = IF @ = "sent" THEN "open" ELSE @]
  /\ UNCHANGED <<is_running, main, client, clients, lock, table, astray, fault>>

\* A command on the cache and its reply.
Handle(t) ==
  /\ At(t, "handle")
  /\ Checked(Live(Own(t)) /\ table,
             /\ Go(t, "loop")
             /\ UNCHANGED <<is_running, main, client, clients, lock, sock, table, astray>>)

\* Mutant of memuncached_bye: is_thread_running stays.
ByeUnheeded(t) ==
  /\ At(t, "bye")
  /\ Go(t, "loop")
  /\ UNCHANGED <<is_running, main, client, clients, lock, sock, table, astray, fault>>

memuncached_bye(t) ==
  /\ At(t, "bye")
  /\ Checked(Live(Own(t)),
             /\ client' = [client EXCEPT ![Own(t)].is_thread_running = FALSE]
             /\ Go(t, "loop")
             /\ UNCHANGED <<is_running, main, clients, lock, sock, table, astray>>)

\* Writing to a peer that has gone raises SIGPIPE, if that peer's answer to
\* what was written before is already here.  Nobody catches it.
Sigpipe(t) ==
  /\ At(t, "start") \/ At(t, "handle")
  /\ sock[Own(t)] = "ended"
  /\ MainGo("exit")
  /\ UNCHANGED <<is_running, thread, client, clients, lock, sock, table, astray, fault>>

\* After the loop a thread cleans up only if the server still runs.
Clean(t) ==
  /\ At(t, "clean")
  /\ IF is_running THEN Go(t, "lock") ELSE Exit(t)
  /\ UNCHANGED <<is_running, main, client, clients, lock, sock, table, astray, fault>>

\* Mutant of TimedLock: what vector_timed_lock returns is ignored.
TimedLockIgnored(t) ==
  /\ At(t, "lock")
  /\ lock' = IF lock = NULL THEN t ELSE lock
  /\ Go(t, "scan")
  /\ UNCHANGED <<is_running, main, client, clients, sock, table, astray, fault>>

\* The wait for the lock lasts a second at most, and then nothing is cleaned.
TimedLock(t) ==
  /\ At(t, "lock")
  /\ Checked(lock # "destroyed",
             /\ IF lock = NULL THEN lock' = t /\ Go(t, "scan")
                               ELSE Exit(t) /\ UNCHANGED lock
             /\ UNCHANGED <<is_running, main, client, clients, sock, table, astray>>)

\* Is entry i's thread id t, and is it not?  A connection whose thread has
\* not started carries what malloc left there: it may be either.
MayMatch(i, t) == client[clients.array[i]].thread_id \in {t, Junk}
MayDiffer(i, t) == client[clients.array[i]].thread_id # t

\* The search for the first entry with t's thread id ends at that entry, or
\* after the last.
Scan(t) ==
  LET InHand == main.client = Own(t) /\ main.pc \in {"insert", "inserting", "accepted"}
  IN  /\ At(t, "scan")
      /\ \E i \in 0 .. clients.count :
           /\ \A j \in 0 .. (i - 1) : Live(clients.array[j]) /\ MayDiffer(j, t)
           /\ Checked(Live(Own(t)) /\ (i < clients.count => Live(clients.array[i])),
                /\ i < clients.count => MayMatch(i, t)
                /\ thread' = [thread EXCEPT ![t].pc = "remove", ![t].index = i]
                /\ astray' = (astray \/ InHand \/ i = clients.count
                                \/ clients.array[i] # Own(t))
                /\ UNCHANGED <<is_running, main, client, clients, lock, sock, table>>)

\* Mutants of Remove: the entry stays, and the lock is kept.
RemoveUnlisted(t) ==
  /\ At(t, "remove")
  /\ client' = [client EXCEPT ![Own(t)] = Dead]
  /\ sock' = [sock EXCEPT ![Own(t)] = "closed"]
  /\ lock' = NULL
  /\ Exit(t)
  /\ UNCHANGED <<is_running, main, clients, table, astray, fault>>
RemoveLocked(t) ==
  /\ At(t, "remove")
  /\ clients' = IF thread[t].index < clients.count
                  THEN vector_remove_unsafe(clients, thread[t].index) ELSE clients
  /\ client' = [client EXCEPT ![Own(t)] = Dead]
  /\ sock' = [sock EXCEPT ![Own(t)] = "closed"]
  /\ Exit(t)
  /\ UNCHANGED <<is_running, main, lock, table, astray, fault>>

\* The entry found goes; the connection is closed and freed in any case.
Remove(t) ==
  LET i == thread[t].index IN
  /\ At(t, "remove")
  /\ Checked(Live(Own(t)),
       /\ clients' = IF i < clients.count THEN vector_remove_unsafe(clients, i) ELSE clients
       /\ client' = [client EXCEPT ![Own(t)] = Dead]
       /\ sock' = [sock EXCEPT ![Own(t)] = "closed"]
       /\ lock' = NULL
       /\ Exit(t)
       /\ UNCHANGED <<is_running, main, table, astray>>)

handle_connection(t) ==
  \/ Start(t) \/ Loop(t) \/ Enter(t) \/ Fetch(t) \/ Recv(t)
  \/ Handle(t) \/ memuncached_bye(t) \/ Clean(t) \/ TimedLock(t)
  \/ Scan(t) \/ Remove(t)

-----------------------------------------------------------------------------
(***************************************************************************)
(* The outside world.                                                      *)
(***************************************************************************)
\* A peer sends a command, sends BYE as its last, or ends the connection.
Peer(c) ==
  /\ sock[c] = "open" /\ ~ fault /\ main.pc # "exit"
  /\ \E what \in {"sent", "bye", "ended"} : sock' = [sock EXCEPT ![c] = what]
  /\ UNCHANGED <<is_running, main, thread, client, clients, lock, table, astray, fault>>

\* The handler runs on the main thread.  It interrupts accept and nothing
\* else, and it is in place once: the next SIGINT kills.
Sigint ==
  /\ ~ fault /\ main.pc # "exit"
  /\ is_running' = FALSE
  /\ \/ ~ is_running /\ MainGo("exit") /\ UNCHANGED <<client, sock>>
     \/ is_running /\ main.pc = "accept" /\ Discard
     \/ is_running /\ main.pc # "accept" /\ UNCHANGED <<main, client, sock>>
  /\ UNCHANGED <<thread, clients, lock, table, astray, fault>>

Next ==
  \/ Main \/ Accept \/ AcceptFails \/ Sigint
  \/ \E t \in Tids : handle_connection(t) \/ Sigpipe(t)
  \/ \E c \in Conns : Peer(c)

Spec ==
  /\ Init
  /\ [][Next]_vars
  /\ WF_vars(Main)
  /\ \A t \in Tids : WF_vars(handle_connection(t))
-----------------------------------------------------------------------------
(***************************************************************************)
(* Properties.                                                             *)
(***************************************************************************)
\* Until main closes down, a thread's connection is its own: allocated, with
\* an open socket, and no other thread's, though memory and thread ids are
\* used again and again.
ThreadsOwnClients ==
  ~ Closing =>
    /\ \A t \in Active : Live(Own(t)) /\ sock[Own(t)] \notin {"closed", "shut"}
    /\ \A t, u \in Active : t # u => Own(t) # Own(u)

\* Until a thread has gone astray, the registry lists allocated connections,
\* each once; and every thread's, but for the one main has still to insert
\* and those a failed realloc kept out.  README: vector.c is a "Thread-safe
\* dynamic array".
RegistryExact ==
  ~ astray /\ ~ Closing =>
    /\ \A c \in Entries(clients) : Live(c)
    /\ Distinct(clients)
    /\ ~ Overstated(clients) =>
         \A t \in Active : Own(t) \in Entries(clients) \/ main.client = Own(t)

\* Nothing undefined happens in a running server otherwise.
FaultHasCause == fault => astray \/ Overstated(clients) \/ ~ is_running

\* BYE ends the thread, and main gets through its shutdown: no wait for the
\* registry's lock is for ever.  README on BYE: "Close connection."
Over == fault \/ main.pc = "exit"
ByeEndsThread == \A t \in Tids : thread[t].pc = "bye" ~> thread[t].pc = "none" \/ Over
ShutdownEnds == main.pc = "closing" ~> Over

\* connection.c, where recv returns 0: "client disconnected."  The thread of a
\* connection its peer has closed closes it too.
DisconnectNoticed == \A c \in Conns : sock[c] = "ended" ~> sock[c] # "ended" \/ Over
=============================================================================
