---------------------------- MODULE KeyValueStore ----------------------------
(***************************************************************************)
(* What the cache promises its clients: a map from keys to values.  Every  *)
(* accepted request takes effect for its own key and no other, at one      *)
(* moment between the request and the reply, and the reply tells what that *)
(* moment saw.                                                             *)
(*                                                                         *)
(* Two consequences of the commands' code are part of the promise, because *)
(* a client can rely on nothing better: INC and DEC treat a STRING as an   *)
(* empty key, and a SET or ADD whose TYPE is none of the three is answered *)
(* 400 and leaves its key empty.                                           *)
(***************************************************************************)
EXTENDS Protocol, FiniteSets

CONSTANTS
  Clients,   (* who sends requests                                         *)
  Requests   (* what they may send                                         *)

VARIABLES
  store,     (* the value of each key, NULL when it has none               *)
  pending,   (* each client's request in progress, or NULL                 *)
  answer     (* the reply to each client's last request, or NULL           *)

vars == <<store, pending, answer>>

Present == {k \in Keys : store[k] # NULL}

TypeOK ==
  /\ store \in [Keys -> Value \cup {NULL}]
  /\ pending \in [Clients -> Requests \cup {NULL}]
  /\ answer \in [Clients -> Reply \cup {NULL}]

Init ==
  /\ store = [k \in Keys |-> NULL]
  /\ pending = [c \in Clients |-> NULL]
  /\ answer = [c \in Clients |-> NULL]

Invoke(c, r) ==
  /\ pending[c] = NULL
  /\ pending' = [pending EXCEPT ![c] = r]
  /\ answer' = [answer EXCEPT ![c] = NULL]
  /\ UNCHANGED store

\* Client c's accepted request is one of cmds.
Asked(c, cmds) ==
  /\ pending[c] # NULL
  /\ Accepted(pending[c])
  /\ pending[c].cmd \in cmds

Respond(c, reply) ==
  /\ pending' = [pending EXCEPT ![c] = NULL]
  /\ answer' = [answer EXCEPT ![c] = reply]

Write(key, v) == store' = [store EXCEPT ![key] = v]

Refuse(c) ==
  /\ pending[c] # NULL
  /\ ~ Accepted(pending[c])
  /\ Respond(c, BadRequest)
  /\ UNCHANGED store

Get(c) ==
  /\ Asked(c, {"GET"})
  /\ LET v == store[pending[c].key]
     IN  Respond(c, IF v = NULL THEN NotFound ELSE Ok(v))
  /\ UNCHANGED store

Put(c) ==
  LET r == pending[c] IN
  /\ Asked(c, {"SET", "ADD"})
  /\ r.cmd = "ADD" => store[r.key] = NULL
  /\ \/ /\ r.type \in Types
        /\ Write(r.key, StoredValue(r.type, r.payload))
        /\ Respond(c, Ok(NULL))
     \/ /\ r.type \notin Types
        /\ Write(r.key, NULL)
        /\ Respond(c, BadRequest)

\* The connection failed before the payload was there.
Fail(c) ==
  /\ Asked(c, {"SET", "ADD"})
  /\ Respond(c, ServerError)
  /\ UNCHANGED store

AddTaken(c) ==
  /\ Asked(c, {"ADD"})
  /\ store[pending[c].key] # NULL
  /\ Respond(c, KeyExists)
  /\ UNCHANGED store

Count(c) ==
  LET r == pending[c]
      old == store[r.key]
      new == IF old # NULL /\ IsNumber(old)
               THEN Shifted(old, Change(r)) ELSE InitialValue(r.initial)
  IN  /\ Asked(c, {"INC", "DEC"})
      /\ Write(r.key, new)
      /\ Respond(c, Ok(new))

Delete(c) ==
  LET r == pending[c] IN
  /\ Asked(c, {"DEL"})
  /\ Write(r.key, NULL)
  /\ Respond(c, IF store[r.key] = NULL THEN NotFound ELSE Ok(store[r.key]))

Stats(c) ==
  /\ Asked(c, {"STT"})
  /\ Respond(c, Ok([keys |-> Cardinality(Present)]))
  /\ UNCHANGED store

Version(c) ==
  /\ Asked(c, {"VER"})
  /\ Respond(c, Ok(NULL))
  /\ UNCHANGED store

Serve(c) ==
  \/ Refuse(c) \/ Get(c) \/ Put(c) \/ Fail(c) \/ AddTaken(c)
  \/ Count(c) \/ Delete(c) \/ Stats(c) \/ Version(c)

Next == \E c \in Clients : Serve(c) \/ \E r \in Requests : Invoke(c, r)

SafeSpec == Init /\ [][Next]_vars

Spec == SafeSpec /\ \A c \in Clients : WF_vars(Serve(c))
=============================================================================
