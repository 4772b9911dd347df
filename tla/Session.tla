------------------------------ MODULE Session -------------------------------
(***************************************************************************)
(* The server's side of one connection, byte by byte: handle_connection    *)
(* gathers a command line from chunks of at most RecvLength bytes, however *)
(* TCP cuts the stream; handle_command takes its arguments; and            *)
(* memuncached_set reads the payload, whose first bytes may have come with *)
(* the line.  (How the thread starts and ends is in Server; how handlers   *)
(* of several threads interleave, in CacheThreads.)                        *)
(***************************************************************************)
EXTENDS Wire

CONSTANT RecvLength            (* CONNECTION_RECV_LENGTH                   *)
ASSUME RecvLengthAssumption == RecvLength \in Nat \ {0}

VARIABLES
  session,   (* where the thread is                                        *)
  command,   (* the command buffer, its size, how much of it is free, and  *)
             (* how many payload bytes came with the line                  *)
  put,       (* the SET or ADD whose payload is being read                 *)
  store,     (* the cache: a value for each key present                    *)
  answered   (* history: the last reply                                    *)

state == <<session, command, put, store, answered>>

Fresh == [text |-> Zeros(RecvLength), len |-> RecvLength, free |-> RecvLength, chunk |-> 0]
NoPut == [add |-> FALSE, key |-> <<>>, type |-> NUL, payload |-> <<>>, left |-> 0]

NewSession ==
  /\ session = "recv"
  /\ command = Fresh
  /\ put = NoPut

Stop(what) == fault' = what /\ UNCHANGED <<inbox, outbox, closed, odd, state>>

\* To a client that has gone, nothing is sent.
Write(reply) ==
  /\ outbox' = IF closed THEN outbox ELSE outbox \o RESPONSE_WRITE(reply)
  /\ answered' = reply

\* The end of a turn of handle_connection's loop.
Continue ==
  /\ session' = "recv"
  /\ command' = Fresh
  /\ put' = NoPut
-----------------------------------------------------------------------------
(***************************************************************************)
(* Gathering the line.                                                     *)
(***************************************************************************)
Grows(c, n) == c.free - n <= 0

\* What realloc may leave in the new half.
Unwritten(c, n) == IF Grows(c, n) THEN {NUL, JUNK} ELSE {NUL}

\* Mutant of Appended: a chunk may fill the buffer.
AppendedFull(c, chunk, fresh) ==
  LET n     == Len(chunk)
      grows == c.free - n < 0
      len   == IF grows THEN 2 * c.len ELSE c.len
      free  == c.free - n + (IF grows THEN c.len ELSE 0)
      room  == IF grows THEN c.text \o [i \in 1 .. c.len |-> fresh] ELSE c.text
  IN  [c EXCEPT !.text = Copy(room, len - free - n, chunk), !.len = len, !.free = free]

\* The command buffer with one more chunk.  When it grows, its new half is
\* whatever realloc left there.
Appended(c, chunk, fresh) ==
  LET n     == Len(chunk)
      len   == IF Grows(c, n) THEN 2 * c.len ELSE c.len
      free  == c.free - n + (IF Grows(c, n) THEN c.len ELSE 0)
      room  == IF Grows(c, n) THEN c.text \o [i \in 1 .. c.len |-> fresh] ELSE c.text
  IN  [c EXCEPT !.text = Copy(room, len - free - n, chunk), !.len = len, !.free = free]

\* Mutant of ChunkOf: the line end counts as payload.
ChunkWithEnd(chunk) == Len(chunk) - First(chunk, 1, {LF}) + 1

\* payload_chunk_size
ChunkOf(chunk) == Len(chunk) - First(chunk, 1, {LF})

\* Carriage returns and line feeds are taken off the end of all that was
\* received, payload included.
Trimmed(c) ==
  LET received == c.len - c.free IN
  [c EXCEPT !.text = [i \in DOMAIN c.text |->
     IF i <= received /\ \A j \in i .. received : c.text[j] \in Newline
       THEN NUL ELSE c.text[i]]]

Recv ==
  /\ session = "recv"
  /\ \E chunk \in Received(inbox, RecvLength) : \E fresh \in Unwritten(command, Len(chunk)) :
     \E more \in {Appended(command, chunk, fresh)} :
       /\ inbox' = Rest(inbox, Len(chunk))
       /\ \/ LF \notin Range(chunk) /\ session' = "recv" /\ command' = more
          \/ /\ LF \in Range(chunk)
             /\ session' = "handle"
             /\ command' = [Trimmed(more) EXCEPT !.chunk = ChunkOf(chunk)]
  /\ UNCHANGED <<outbox, closed, odd, fault, put, store, answered>>

\* The chunk is lost, and with it what came before of the line.
ReallocFails ==
  /\ session = "recv"
  /\ \E chunk \in Received(inbox, RecvLength) :
       /\ Grows(command, Len(chunk))
       /\ inbox' = Rest(inbox, Len(chunk))
  /\ Write(ServerError)
  /\ Continue
  /\ odd' = odd \cup {"split"}
  /\ UNCHANGED <<closed, fault, store>>

\* recv has nothing more to give: a line that is not complete is dropped.
Drop ==
  /\ session = "recv" /\ closed /\ inbox = <<>>
  /\ Continue
  /\ UNCHANGED <<wire, store, answered>>
-----------------------------------------------------------------------------
(***************************************************************************)
(* The arguments.                                                          *)
(***************************************************************************)
WordEnd(b, i) == First(b, i, Blank \cup {NUL})
WordAt(b, i) == SubSeq(b, i, WordEnd(b, i) - 1)

\* From the word at i to the next: over blanks and line ends alike.
put_null_terminator_unknown_size(b, i) ==
  CHOOSE j \in WordEnd(b, i) .. Len(b) :
    /\ b[j] \notin Blank
    /\ \A k \in WordEnd(b, i) .. j - 1 : b[k] \in Blank

\* A command line: the command, up to three arguments, and where the search
\* for a next one stopped.  A word that is missing is empty.
Line(b) ==
  LET word  == [i \in DOMAIN b |-> WordAt(b, i)]
      after == [i \in DOMAIN b |-> put_null_terminator_unknown_size(b, i)]
  IN  [cmd  |-> IF WordEnd(b, 1) = 2 THEN b[1] ELSE TEXT,
       key  |-> word[after[1]],
       arg1 |-> word[after[after[1]]],
       arg2 |-> word[after[after[after[1]]]],
       rest |-> after[after[after[after[1]]]]]

Positive(w) == w[1] # MINUS

\* The argument checks of handle_command.
Acceptable(line) ==
  CASE line.cmd \in {SET, ADD} ->
         /\ line.key # <<>>
         /\ \A w \in {line.arg1, line.arg2} : w # <<>> /\ Positive(w) /\ is_decimal_string(w)
    [] line.cmd \in {INC, DEC} ->
         /\ line.key # <<>>
         /\ line.arg1 # <<>> => Positive(line.arg1) /\ is_real_string(line.arg1)
         /\ line.arg2 # <<>> => is_real_string(line.arg2)
    [] line.cmd \in {GET, DEL} -> line.key # <<>>
    [] line.cmd \in {BYE, STT, VER} -> line.key = <<>>
    [] OTHER -> FALSE
-----------------------------------------------------------------------------
(***************************************************************************)
(* The handlers.  Numbers are single digits; see MaxNumber in Link.        *)
(***************************************************************************)
With(s, key, value) ==
  [k \in DOMAIN s \cup {key} |-> IF k = key THEN value ELSE s[k]]
Without(s, key) == [k \in DOMAIN s \ {key} |-> s[k]]

memuncached_get(s, key) ==
  IF key \in DOMAIN s THEN Ok(s[key].type, s[key].body) ELSE NotFound

\* Mutant of memuncached_inc: a STRING is taken for a number.
memuncached_incAny(s, key, by, initial) ==
  With(s, key, IF key \in DOMAIN s
                 THEN [s[key] EXCEPT !.body = <<Digit((Number(@) + by) % 10)>>]
                 ELSE [type |-> 0, body |-> <<Digit(initial)>>])

\* INC and DEC of a number change it; else they plant INITIAL.
memuncached_inc(s, key, by, initial) ==
  With(s, key, IF key \in DOMAIN s /\ s[key].type # 2
                 THEN [s[key] EXCEPT !.body = <<Digit((Number(@) + by) % 10)>>]
                 ELSE [type |-> 0, body |-> <<Digit(initial)>>])

\* Client-Count (one, here) and Key-Count, on two lines.
memuncached_stt(s) ==
  Ok(NoType, <<Digit(1), LF, Digit(Cardinality(DOMAIN s))>>)

\* One command without payload: the cache afterwards and the reply.
Handled(line, s) ==
  LET offset  == IF line.arg1 = <<>> THEN 1 ELSE Number(line.arg1)
      initial == IF line.arg2 = <<>> THEN 1 ELSE Number(line.arg2)
      counted == memuncached_inc(s, line.key, IF line.cmd = INC THEN offset ELSE -offset, initial)
  IN  CASE line.cmd = GET -> [store |-> s, reply |-> memuncached_get(s, line.key)]
        [] line.cmd = DEL -> [store |-> Without(s, line.key), reply |-> memuncached_get(s, line.key)]
        [] line.cmd \in {INC, DEC} -> [store |-> counted, reply |-> memuncached_get(counted, line.key)]
        [] line.cmd = STT -> [store |-> s, reply |-> memuncached_stt(s)]
        [] OTHER -> [store |-> s, reply |-> Ok(NoType, <<TEXT>>)]

\* Mutant of StartPut: the two bytes after the payload are not waited for.
StartPutShort(line) ==
  LET length == Number(line.arg2)
      last   == line.rest + command.chunk - 1
  IN  IF last > command.len \/ command.chunk > length + 2
        THEN Stop(IF last > command.len THEN "overread" ELSE "overflow")
        ELSE
         /\ put' = [add     |-> line.cmd = ADD,
                    key     |-> line.key,
                    type    |-> line.arg1[1] - Digit(0),
                    payload |-> Copy(Zeros(length + 2), 0, SubSeq(command.text, line.rest, last)),
                    left    |-> length - command.chunk]
         /\ session' = "payload"
         /\ UNCHANGED <<wire, command, store, answered>>

\* SET and ADD begin with what came with the line, taken from where the
\* search for a next argument stopped.
StartPut(line) ==
  LET length == Number(line.arg2)
      last   == line.rest + command.chunk - 1
  IN  IF last > command.len \/ command.chunk > length + 2
        THEN Stop(IF last > command.len THEN "overread" ELSE "overflow")
        ELSE
         /\ put' = [add     |-> line.cmd = ADD,
                    key     |-> line.key,
                    type    |-> line.arg1[1] - Digit(0),
                    payload |-> Copy(Zeros(length + 2), 0, SubSeq(command.text, line.rest, last)),
                    left    |-> length + 2 - command.chunk]
         /\ session' = "payload"
         /\ UNCHANGED <<wire, command, store, answered>>

\* A refused SET or ADD leaves its payload on the stream.
Refuse(line) ==
  /\ Write(BadRequest)
  /\ odd' = IF line.cmd \in {SET, ADD} THEN odd \cup {"refused"} ELSE odd
  /\ Continue
  /\ UNCHANGED <<inbox, closed, fault, store>>

Serve(line) ==
  /\ Write(Handled(line, store).reply)
  /\ store' = Handled(line, store).store
  /\ Continue
  /\ UNCHANGED <<inbox, closed, odd, fault>>

memuncached_bye ==
  /\ Write(Ok(NoType, <<TEXT>>))
  /\ session' = "ended"
  /\ UNCHANGED <<inbox, closed, odd, fault, command, put, store>>

\* Of a line that is empty, the trimming has read the byte before the buffer.
EmptyLine ==
  \/ Stop("underread")
  \/ Continue /\ UNCHANGED <<wire, store, answered>>

handle_command ==
  /\ session = "handle"
  /\ LET b == command.text IN
     \/ NUL \notin Range(b) /\ Stop("unterminated")
     \/ b[1] = NUL /\ EmptyLine
     \/ /\ NUL \in Range(b) /\ b[1] # NUL
        /\ \E line \in {Line(b)} :
             \/ ~ Acceptable(line) /\ Refuse(line)
             \/ /\ Acceptable(line)
                /\ \/ line.cmd \in {SET, ADD} /\ StartPut(line)
                   \/ line.cmd = BYE /\ memuncached_bye
                   \/ line.cmd \notin {SET, ADD, BYE} /\ Serve(line)
-----------------------------------------------------------------------------
(***************************************************************************)
(* Reading a payload.  When the client has gone and nothing is left, recv  *)
(* returns 0 for ever, and the loop goes round without a change of state.  *)
(***************************************************************************)
\* Mutant of RecvPayload: a closed connection ends the loop.
RecvPayloadToEnd ==
  /\ session = "payload" /\ put.left > 0
  /\ \/ \E chunk \in Received(inbox, put.left) :
          /\ inbox' = Rest(inbox, Len(chunk))
          /\ put' = [put EXCEPT !.left = @ - Len(chunk),
                                !.payload = Copy(@, Len(@) - put.left, chunk)]
     \/ closed /\ inbox = <<>> /\ put' = [put EXCEPT !.left = 0] /\ UNCHANGED inbox
  /\ UNCHANGED <<outbox, closed, odd, fault, session, command, store, answered>>

RecvPayload ==
  /\ session = "payload" /\ put.left > 0
  /\ \E chunk \in Received(inbox, put.left) :
       /\ inbox' = Rest(inbox, Len(chunk))
       /\ put' = [put EXCEPT !.left = @ - Len(chunk),
                             !.payload = Copy(@, Len(@) - put.left, chunk)]
  /\ UNCHANGED <<outbox, closed, odd, fault, session, command, store, answered>>

\* Or recv fails: what had arrived is read, and the client has reset the
\* connection.
PayloadFails ==
  /\ session = "payload" /\ put.left > 0 /\ closed /\ inbox = <<>>
  /\ Write(ServerError)
  /\ Continue
  /\ UNCHANGED <<inbox, closed, odd, fault, store>>

\* The value: LENGTH bytes, or the number they spell.
Data == SubSeq(put.payload, 1, Len(put.payload) - 2)
Value == [type |-> put.type, body |-> IF put.type = 2 THEN Data ELSE <<Digit(Number(Data))>>]

memuncached_set ==
  /\ session = "payload" /\ put.left <= 0
  /\ \/ put.add /\ put.key \in DOMAIN store /\ Write(KeyExists) /\ UNCHANGED store
     \/ /\ put.add => put.key \notin DOMAIN store
        /\ IF put.type \in 0 .. 2
             THEN Write(Done) /\ store' = With(store, put.key, Value)
             ELSE Write(BadRequest) /\ store' = Without(store, put.key)
  /\ Continue
  /\ UNCHANGED <<inbox, closed, odd, fault>>

handle_connection ==
  Recv \/ Drop \/ handle_command \/ RecvPayload \/ memuncached_set
=============================================================================
