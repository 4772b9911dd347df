-------------------------------- MODULE Link --------------------------------
(***************************************************************************)
(* A program with libmemuncached, TCP, and its session in the server: the  *)
(* composition of Library and Session over one connection.  TCP delivers   *)
(* what was written, in order, any number of bytes at a time; the program  *)
(* may die at any moment, and what it wrote then may not all arrive.       *)
(***************************************************************************)
EXTENDS Session, Library

CONSTANTS
  Calls,         (* what the program may call                              *)
  LateCalls,     (* bound: those made when requests and replies are skewed *)
  ArgLists,      (* the OFFSETs and INITIALs that ints may turn into       *)
  MaxNumber,     (* bound: a number this big, or zero, is counted no more  *)
  Word, NoArg, Bad, NULL   (* markers of KeyValueStore                     *)

\* The calls there are.  A SET or ADD of another TYPE returns false with nothing
\* sent: no step here.  A key is a C string; a number is a digit, LENGTH too.
ASSUME CallsAssumption ==
  /\ Calls \subseteq [cmd : {SET, ADD, GET, DEL, INC, DEC, STT, VER, BYE},
                     key : Seq(Byte \ {NUL}), type : 0 .. 2, data : Seq(Byte),
                     int : BOOLEAN, args : Seq(0 .. 9)]
  /\ \A c \in Calls : Len(c.data) <= 9
  /\ ArgLists \subseteq Seq(0 .. 9)

VARIABLE torn    (* history: did a request arrive in part only?            *)

vars == <<wire, state, client, torn>>

Init ==
  /\ inbox = <<>> /\ outbox = Welcome /\ closed = FALSE
  /\ odd = {} /\ fault = "none"
  /\ NewSession
  /\ store = <<>>              \* no key
  /\ answered = NULL
  /\ NewClient
  /\ torn = FALSE

\* What a call's key does to the line it is written in.
PlainKey(key) == Len(key) = 1 /\ key[1] \notin Blank

MayCount(c) ==
  c.cmd \in {INC, DEC} /\ c.key \in DOMAIN store /\ store[c.key].type # 2
    => Number(store[c.key].body) \in 1 .. MaxNumber

\* Requests and replies are out of step from here on: the one refused SET or
\* cut greeting, a key that is no word, a buffer that could not grow, a line
\* split for want of memory, a server that has stopped.
Skewed == odd \cap {"refused", "welcome", "key", "realloc", "split", "stopped"} # {}

\* Bound: one of LateCalls, at most, is made out of step, and none after a
\* line was split.
Ask(c) ==
  /\ Skewed => odd \cap {"late", "split"} = {} /\ c \in LateCalls
  /\ MayCount(c)
  /\ \E args \in Arguments(c, ArgLists) :
       /\ Begin(c, args)
       /\ odd' = (odd \ {"va_arg"})
                   \cup (IF args = c.args THEN {} ELSE {"va_arg"})
                   \cup (IF PlainKey(c.key) THEN {} ELSE {"key"})
                   \cup (IF c.cmd = BYE THEN {"bye"} ELSE {})
                   \cup (IF Skewed THEN {"late"} ELSE {})
  /\ answered' = NULL
  /\ UNCHANGED <<session, command, put, store, torn>>

\* The program dies.
HangUp ==
  /\ ~ closed
  /\ lib \in {"idle", "call"}
  /\ \E n \in 0 .. Len(inbox) :
       /\ inbox' = SubSeq(inbox, 1, n)
       /\ torn' = (n < Len(inbox))
  /\ outbox' = <<>>
  /\ closed' = TRUE
  /\ lib' = "gone"
  /\ rx' = NoReply
  /\ buffer_size' = InitialBuffer /\ room' = InitialBuffer
  /\ UNCHANGED <<odd, fault, state, call, result>>

\* The server's process ends, and its end of the connection with it.
ServerStops ==
  /\ session # "ended" /\ ~ Skewed
  /\ session' = "ended"
  /\ outbox' \in {outbox, <<>>}
  /\ odd' = odd \cup {"stopped"}
  /\ UNCHANGED <<inbox, closed, fault, command, put, store, answered, client, torn>>

Server == handle_connection /\ UNCHANGED <<client, torn>>
Reply == memuncached_recv /\ UNCHANGED <<state, torn>>
Eof == Disconnected(session = "ended") /\ UNCHANGED <<state, torn>>

\* Bound: the server runs out of memory only while in step and with no key.
Shortage == ReallocFails /\ ~ Skewed /\ store = <<>> /\ UNCHANGED <<client, torn>>
Reset == PayloadFails /\ UNCHANGED <<client, torn>>

Running == fault = "none"

Next ==
  /\ Running
  /\ \/ Server \/ Shortage \/ Reset \/ Reply \/ Eof \/ HangUp \/ ServerStops
     \/ Connect /\ UNCHANGED <<state, torn>>
     \/ \E c \in Calls : Ask(c)

Spec == Init /\ [][Next]_vars /\ WF_vars(Running /\ Server) /\ WF_vars(Running /\ (Reply \/ Eof))
-----------------------------------------------------------------------------
Values == [type : Nat, body : Seq(Byte)]
Replies == [code : Codes, type : {NoType} \cup Nat, body : Seq(Byte)]

\* No reply yet, and no call yet, are told from every one.
ASSUME NoneAssumption == NULL \notin Replies /\ NoCall \notin Calls

TypeOK ==
  /\ inbox \in Seq(Byte) /\ outbox \in Seq(Byte) /\ closed \in BOOLEAN
  /\ odd \subseteq {"refused", "welcome", "key", "realloc", "split", "va_arg", "bye", "late", "stopped"}
  /\ session \in {"recv", "handle", "payload", "ended"}
  /\ command \in [text : Seq(Byte), len : Nat, free : Int, chunk : Nat]
  /\ put \in [add : BOOLEAN, key : Seq(Byte), type : Int, payload : Seq(Byte), left : Nat]
  /\ store \in [DOMAIN store -> Values]
  /\ answered \in Replies \cup {NULL}
  /\ lib \in {"connect", "lost", "idle", "call", "gone"}
  /\ call \in Calls \cup {NoCall}
  /\ rx \in [got : Seq(Byte), line : 0 .. 2, start : Nat, stale : BOOLEAN, payload : Nat,
             code : {0} \cup Codes, body : Nat, size : Nat, type : Nat]
  /\ buffer_size \in Nat /\ room \in Nat
  /\ result \in [ok : BOOLEAN, type : Nat, body : Seq(Byte)]
  /\ torn \in BOOLEAN

\* Every chunk lands behind the last one and inside its buffer: of a command,
\* with a byte left over for the zero handle_command relies on; of a payload,
\* up to its two last bytes.
ChunksFit ==
  /\ Len(command.text) = command.len
  /\ 0 < command.free /\ command.free <= command.len
  /\ session = "payload" => put.left <= Len(put.payload)

\* The reply buffer: recv is never asked for no bytes, which the library would
\* take for the end of the connection; until a realloc fails the buffer holds
\* what is asked for; and the payload is counted from its first byte on.
ReplyFits ==
  /\ Len(rx.got) < buffer_size
  /\ "realloc" \notin odd => room = buffer_size
  /\ rx.line = 2 => rx.body + rx.payload = Len(rx.got) + 1

\* Between calls nothing is under way: no byte on the wire, no half-read line.
InStep ==
  lib = "idle" /\ ~ Skewed =>
    inbox = <<>> /\ outbox = <<>> /\ session = "recv" /\ command = Fresh

\* What a call returns is read off the reply to this very call.
SameReply ==
  lib = "idle" /\ ~ Skewed /\ call # NoCall =>
    answered # NULL /\ result = Outcome(call.cmd, answered.code, Max({answered.type, 0}), answered.body)

\* The payload's first bytes came with the line, and begin with a blank, which
\* the search for arguments skips, or end in a line end, which the trimming
\* takes off.
Eaten ==
  LET with == Min({command.chunk, Len(call.data)}) IN
  with > 0 /\ (call.data[1] \in Blank \/ call.data[with] \in Newline)

\* The value stored is the one sent, but for that.
PayloadIntact ==
  session = "payload" /\ put.left = 0 /\ ~ Skewed /\ ~ torn =>
    (Data = call.data <=> ~ Eaten)

\* A request that has not arrived to its last byte does nothing.
TornDoesNothing == [][torn /\ ~ Skewed => UNCHANGED store]_vars

\* What undefined behaviour takes, in the program and in the server.
FaultHasCause ==
  \/ fault = "none" \/ Skewed
  \/ fault = "stale" /\ buffer_size <= 2 * MaxHeader
  \/ /\ fault = "unterminated"
     /\ command.len > RecvLength
     /\ command.chunk \in 1 .. Len(call.data)
  \/ fault = "overread" /\ Eaten

\* Every call returns.
CallReturns == lib = "call" ~> lib # "call" \/ Skewed \/ fault # "none"
-----------------------------------------------------------------------------
(***************************************************************************)
(* Refinement: the program sees the key-value store that Cache and         *)
(* CacheThreads implement on the server's side.                            *)
(***************************************************************************)
Half == 2

Text(s) == IF Len(s) = 1 /\ IsDigit(s[1]) THEN Half * Number(s) ELSE Word
Content(v) == [type |-> v.type, val |-> Text(v.body)]

Name(cmd) ==
  CASE cmd = SET -> "SET" [] cmd = ADD -> "ADD" [] cmd = GET -> "GET" [] cmd = DEL -> "DEL"
    [] cmd = INC -> "INC" [] cmd = DEC -> "DEC" [] cmd = STT -> "STT" [] OTHER -> "VER"

Meant(c) ==
  CASE c.cmd \in {SET, ADD} ->
         [cmd |-> Name(c.cmd), key |-> c.key, type |-> c.type,
          length |-> Len(c.data), payload |-> Text(c.data)]
    [] c.cmd \in {INC, DEC} ->
         [cmd |-> Name(c.cmd), key |-> c.key,
          offset |-> IF c.args = <<>> THEN NoArg ELSE Half * c.args[1],
          initial |-> IF Len(c.args) < 2 THEN NoArg
                      ELSE [num |-> Half * c.args[2], point |-> 0]]
    [] c.cmd \in {GET, DEL} -> [cmd |-> Name(c.cmd), key |-> c.key]
    [] OTHER -> [cmd |-> Name(c.cmd), extra |-> FALSE]

Told(a) ==
  [code |-> a.code,
   body |-> CASE a.code # 200 -> NULL
              [] a.code = 200 /\ call.cmd = STT -> [keys |-> Number(Rest(a.body, 2))]
              [] a.code = 200 /\ a.type # NoType -> Content(a)
              [] OTHER -> NULL]

PlainKeys == {c.key : c \in {d \in Calls : PlainKey(d.key)}}

StoreView == [k \in PlainKeys |-> IF k \in DOMAIN store THEN Content(store[k]) ELSE NULL]

KV == INSTANCE KeyValueStore WITH
  Keys     <- PlainKeys,
  Clients  <- {"program"},
  Requests <- {Meant(c) : c \in Calls},
  store    <- StoreView,
  pending  <- [p \in {"program"} |->
                 IF call = NoCall \/ answered # NULL THEN NULL ELSE Meant(call)],
  answer   <- [p \in {"program"} |-> IF answered = NULL THEN NULL ELSE Told(answered)]

\* Calls do to the store what they mean, at one moment each, and are told what
\* that moment saw; but for the incidents in odd, and payloads eaten.
ImplementsStore ==
  KV!Init /\ [][odd' # {} \/ (session = "payload" /\ Eaten) \/ KV!Next]_<<KV!vars>>
=============================================================================
