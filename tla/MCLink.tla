------------------------------- MODULE MCLink --------------------------------
(***************************************************************************)
(* An instance of Link for TLC: the calls of lib_demo.c, with payloads and *)
(* keys that are hard on the parsers.                                      *)
(***************************************************************************)
EXTENDS Link

K == <<107>>
X == 120

Simple(cmd) ==
  [cmd |-> cmd, key |-> K, type |-> 0, data |-> <<>>, int |-> FALSE, args |-> <<>>]
Put(cmd, key, type, data) == [Simple(cmd) EXCEPT !.key = key, !.type = type, !.data = data]
Shift(cmd, int, args) == [Simple(cmd) EXCEPT !.int = int, !.args = args]

MCCalls ==
  {Put(SET, K, 2, d) : d \in {<<>>, <<X>>, <<SP, SP>>, <<X, LF>>}}
  \cup {Put(cmd, K, 0, <<Digit(1)>>) : cmd \in {SET, ADD}}
  \cup {Put(SET, <<X, SP, X>>, 2, <<BYE, LF, X>>),
        Put(SET, <<X, SP, Digit(3), SP, Digit(1)>>, 2, <<X>>)}
  \cup {Simple(cmd) : cmd \in {GET, DEL, STT, VER, BYE}}
  \cup {Shift(INC, TRUE, <<1, 2>>), Shift(INC, FALSE, <<>>), Shift(DEC, TRUE, <<1, 2>>)}

MCLateCalls == {Simple(GET)}

MCArgLists == {<<>>, <<1, 2>>}
=============================================================================
