----------------------------- MODULE MCThreads ------------------------------
(***************************************************************************)
(* Instances of CacheThreads for TLC.                                      *)
(***************************************************************************)
EXTENDS CacheThreads, TLC

MCKeys  == {"a", "b"}
MCSlots == {0, 1}
MCHash  == "a" :> 0 @@ "b" :> 1

Put(cmd, key, type, payload) ==
  [cmd |-> cmd, key |-> key, type |-> type, length |-> 3, payload |-> payload]
Shift(cmd, key) == [cmd |-> cmd, key |-> key, offset |-> NoArg, initial |-> NoArg]
Ask(cmd, key) == [cmd |-> cmd, key |-> key]
STT == [cmd |-> "STT", extra |-> FALSE]

AllOn(key) ==
  {Put("SET", key, CACHE_VALUE_DECIMAL, 3), Put("SET", key, CACHE_VALUE_STRING, Word),
   Put("SET", key, 3, Word), Put("ADD", key, CACHE_VALUE_REAL, 1),
   Shift("INC", key), Ask("GET", key), Ask("DEL", key)}

NoPreset   == [s \in {} |-> NULL]
ZeroPreset == 0 :> [type |-> CACHE_VALUE_DECIMAL, val |-> 0]

CONSTANTS t1, t2

\* One thread, both keys, and STT.
Alone == t1 :> (AllOn("a") \cup {Put("SET", "b", CACHE_VALUE_REAL, 1), Ask("DEL", "b"),
                                 Shift("DEC", "b"), STT})
\* Two threads, a key each.
Owners == t1 :> AllOn("a")
            @@ t2 :> {Put("SET", "b", CACHE_VALUE_STRING, Word), Put("ADD", "b", 3, Word),
                      Shift("INC", "b"), Ask("GET", "b"), Ask("DEL", "b")}
\* Two threads on one key, as the run needs them.
Both(requests) == t1 :> requests @@ t2 :> requests
Counters == Both({Shift("INC", "a"), Shift("DEC", "a"), Ask("GET", "a"),
                  Put("ADD", "a", CACHE_VALUE_REAL, 1)})
Adders   == Both({Put("ADD", "a", CACHE_VALUE_DECIMAL, 3)})
Deleters == Both({Ask("GET", "a"), Ask("DEL", "a")})

Memory == Permutations(Cells) \cup Permutations(Blocks)
=============================================================================
