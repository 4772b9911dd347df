------------------------------ MODULE Library -------------------------------
(***************************************************************************)
(* libmemuncached: one program's calls on one connection.  A call writes   *)
(* its request and then memuncached_recv gathers the reply, in a buffer    *)
(* that grows and is kept for the next call, however TCP cuts the stream.  *)
(***************************************************************************)
EXTENDS Wire

CONSTANTS
  InitialBuffer, (* the reply buffer's first size                          *)
  WelcomeRoom,   (* the buffer memuncached_connect greets the server with  *)
  NoCall
ASSUME ClientAssumption ==
  InitialBuffer \in Nat \ {0} /\ WelcomeRoom \in Nat

VARIABLES
  lib,           (* what the program is doing                              *)
  call,          (* its last call                                          *)
  rx,            (* memuncached_recv: bytes received and how they parse    *)
  buffer_size,   (* client->buffer_size                                    *)
  room,          (* the bytes that are really allocated                    *)
  result         (* what the last call returned                            *)

client == <<lib, call, rx, buffer_size, room, result>>

Welcome == <<TEXT, LF, NUL>>   \* CLIENT_WELCOME_MESSAGE, zero included

\* memuncached_recv as it starts: line_start is at the first byte.
NoReply == [got |-> <<>>, line |-> 0, start |-> 1, stale |-> FALSE, payload |-> 0,
            code |-> 0, body |-> 0, size |-> 0, type |-> 0]

Failed == [ok |-> FALSE, type |-> 0, body |-> <<>>]

NewClient ==
  /\ lib = "connect"
  /\ call = NoCall
  /\ rx = NoReply
  /\ buffer_size = InitialBuffer
  /\ room = InitialBuffer
  /\ result = Failed

\* memuncached_connect reads its greeting with one recv.  Short of two bytes
\* it gives up, and never closes the socket.
Connect ==
  /\ lib = "connect"
  /\ \E greeting \in Received(outbox, WelcomeRoom) :
       /\ outbox' = Rest(outbox, Len(greeting))
       /\ lib' = IF Len(greeting) < 2 THEN "lost" ELSE "idle"
       /\ odd' = IF outbox' = <<>> THEN odd ELSE odd \cup {"welcome"}
  /\ UNCHANGED <<inbox, closed, fault, call, rx, buffer_size, room, result>>
-----------------------------------------------------------------------------
(***************************************************************************)
(* Requests.  A call is a command with a key, the TYPE and the bytes of a  *)
(* value, OFFSET and INITIAL as far as given, and whether these are of C   *)
(* type int; each command takes of them what it needs.                     *)
(***************************************************************************)
Numerals(args) ==
  IF args = <<>> THEN <<>>
  ELSE <<SP, Digit(args[1])>> \o (IF Len(args) = 1 THEN <<>> ELSE <<SP, Digit(args[2])>>)

\* __memuncached_inc assigns where __memuncached_dec compares, so it takes
\* any arguments for doubles: ints come out as anything.
Arguments(c, all) == IF c.cmd = INC /\ c.int THEN all ELSE {c.args}

Request(c, args) ==
  CASE c.cmd \in {SET, ADD} ->
         <<c.cmd, SP>> \o c.key \o <<SP, Digit(c.type), SP, Digit(Len(c.data))>> \o CRLF
           \o c.data \o CRLF
    [] c.cmd \in {GET, DEL} -> <<c.cmd, SP>> \o c.key \o CRLF
    [] c.cmd \in {INC, DEC} -> <<c.cmd, SP>> \o c.key \o Numerals(args) \o CRLF
    [] OTHER -> <<c.cmd>> \o CRLF

\* A call begins: its request is written, and memuncached_recv starts.
Begin(c, args) ==
  /\ lib = "idle"
  /\ inbox' = inbox \o Request(c, args)
  /\ lib' = "call"
  /\ call' = c
  /\ rx' = NoReply
  /\ result' = Failed
  /\ UNCHANGED <<outbox, closed, fault, buffer_size, room>>
-----------------------------------------------------------------------------
(***************************************************************************)
(* memuncached_recv.                                                       *)
(***************************************************************************)
\* The place of the line's end.
End(r) == First(r.got, r.start, {LF})

\* CODE, a byte, and DESCRIPTION; each is made a string.
StatusLine(r) ==
  LET i   == End(r)
      got == [r.got EXCEPT ![i - 1] = NUL, ![r.start + 1] = NUL]
  IN  IF r.line # 0 \/ i > Len(r.got) THEN r
      ELSE [r EXCEPT !.line = 1, !.got = got, !.start = i + 1,
              !.code = IF got[r.start] \in Codes THEN got[r.start] ELSE 0]

\* LENGTH and perhaps TYPE, after the last blank; from here on bytes count as
\* payload.
LengthLine(r) ==
  LET i     == End(r)
      blank == Max({j \in r.start .. i - 1 : r.got[j] = SP} \cup {0})
      got   == [r.got EXCEPT ![i - 1] = NUL, ![blank] = NUL]
  IN  IF r.line # 1 \/ i > Len(r.got) THEN r
      ELSE [r EXCEPT !.line = 2, !.got = got, !.start = i + 1, !.body = i + 1,
              !.type = IF blank = 0 THEN 0 ELSE Number(Rest(got, blank)),
              !.size = Number(Rest(got, r.start - 1)),
              !.payload = Len(got) - i]

\* The bytes of a chunk, counted once the payload has begun.
More(r, chunk) ==
  [r EXCEPT !.got = @ \o chunk, !.payload = IF r.line = 2 THEN @ + Len(chunk) ELSE @]

\* Mutant of Enough: one byte more is waited for.
EnoughAndMore(r) == r.line = 2 /\ r.payload > r.size + 3

\* The payload, its zero and its line end.
Enough(r) == r.line = 2 /\ r.payload >= r.size + 3

\* Mutant of Full: a byte is not kept free.
FullBeyond(r) == buffer_size - Len(r.got) < 0

Full(r) == buffer_size - (Len(r.got) + 1) < 0

\* The reply begins with a line feed: the byte before the buffer is zeroed.
Underrun(r) == r.got[1] = LF

\* What each call makes of its reply.
Outcome(cmd, code, type, body) ==
  IF \/ code # 200
     \/ cmd \in {INC, DEC} /\ type \notin 0 .. 1
     \/ cmd \in {GET, DEL} /\ type \notin 0 .. 2
    THEN Failed
    ELSE [ok |-> TRUE, type |-> type,
          body |-> IF cmd \in {SET, ADD, BYE} THEN <<>> ELSE body]

\* A call returns; BYE's closes the connection, whatever the reply.
Return(outcome) ==
  /\ result' = outcome
  /\ lib' = IF call.cmd = BYE THEN "gone" ELSE "idle"
  /\ closed' = (call.cmd = BYE)

\* Mutant of Parsed: the body keeps its terminating zero.
ParsedWithZero(r) ==
  Outcome(call.cmd, r.code, r.type, SubSeq(r.got, r.body, r.body + r.size))

Parsed(r) == Outcome(call.cmd, r.code, r.type, SubSeq(r.got, r.body, r.body + r.size - 1))

Crash(what) == fault' = what /\ UNCHANGED <<inbox, outbox, closed, odd, client>>

\* buffer_size is doubled before realloc is known to have succeeded, and
\* line_start stays where it was when realloc moved the rest.
Grow(r) ==
  /\ buffer_size' = 2 * buffer_size
  /\ \/ \E moved \in BOOLEAN :
          /\ rx' = [r EXCEPT !.stale = @ \/ moved]
          /\ room' = buffer_size'
          /\ UNCHANGED <<closed, odd, lib, result>>
     \/ /\ Return(Failed)
        /\ rx' = NoReply
        /\ odd' = odd \cup {"realloc"}
        /\ UNCHANGED room

memuncached_recv ==
  /\ lib = "call"
  /\ \E chunk \in Received(outbox, buffer_size - Len(rx.got)) :
     \E more \in {More(rx, chunk)} : \E head \in {StatusLine(more)} : \E r \in {LengthLine(head)} :
       CASE Len(r.got) > room          -> Crash("overflow")
         [] rx.stale /\ rx.line < 2    -> Crash("stale")
         [] Underrun(r)                -> Crash("underrun")
         [] OTHER ->
              /\ outbox' = Rest(outbox, Len(chunk))
              /\ \/ /\ Enough(r)
                    /\ Return(Parsed(r))
                    /\ rx' = NoReply
                    /\ UNCHANGED <<odd, buffer_size, room>>
                 \/ /\ ~ Enough(r) /\ Full(r)
                    /\ Grow(r)
                 \/ /\ ~ Enough(r) /\ ~ Full(r)
                    /\ rx' = r
                    /\ UNCHANGED <<closed, odd, lib, buffer_size, room, result>>
              /\ UNCHANGED <<inbox, fault, call>>

\* recv returns 0: the server has closed the connection, or no byte was asked
\* for.
Disconnected(ended) ==
  /\ lib = "call"
  /\ (ended /\ outbox = <<>>) \/ Len(rx.got) = buffer_size
  /\ Return(Failed)
  /\ rx' = NoReply
  /\ UNCHANGED <<inbox, outbox, odd, fault, call, buffer_size, room>>
=============================================================================
