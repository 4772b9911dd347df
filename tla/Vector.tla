------------------------------- MODULE Vector -------------------------------
(***************************************************************************)
(* vector.c: the growing array behind the registry of clients, as          *)
(* operators on the struct.  Its lock is a variable of Server.             *)
(*                                                                         *)
(* The domain of "array" is the memory there is.  It is 0 .. size - 1,     *)
(* unless a realloc has failed: then size is doubled and the array is not. *)
(***************************************************************************)
EXTENDS Integers

CONSTANTS
  NULL,      (* the C null pointer                                         *)
  Junk       (* the content of memory fresh from malloc or realloc         *)

vector_create(size) ==
  [array |-> [i \in 0 .. (size - 1) |-> NULL], size |-> size, count |-> 0]

Full(v) == v.size = v.count

\* Doubled by a realloc that succeeds or not.  What it adds is not cleared.
Grown(v, success) ==
  [array |-> IF success
               THEN [i \in 0 .. (2 * v.size - 1) |->
                       IF i \in DOMAIN v.array THEN v.array[i] ELSE Junk]
               ELSE v.array,
   size  |-> 2 * v.size,
   count |-> v.count]

\* Does the insertion stay within the array?
Fits(v) == Full(v) \/ v.count \in DOMAIN v.array

vector_insert_unsafe(v, element, success) ==
  LET w == IF Full(v) THEN Grown(v, success) ELSE v
  IN  IF Full(v) /\ ~ success
        THEN w
        ELSE [array |-> [w.array EXCEPT ![w.count] = element],
              size  |-> w.size,
              count |-> w.count + 1]

\* Mutant of vector_remove_unsafe: the count stays.
vector_remove_uncounted(v, index) ==
  IF index >= v.size \/ v.array[index] = NULL
    THEN v
    ELSE [v EXCEPT !.array[index] = NULL]

\* The last element takes the place of the one removed.
vector_remove_unsafe(v, index) ==
  LET last == v.count - 1 IN
  IF index >= v.size \/ v.array[index] = NULL
    THEN v
    ELSE [array |-> IF last > 0
                      THEN [v.array EXCEPT ![index] = v.array[last], ![last] = NULL]
                      ELSE [v.array EXCEPT ![index] = NULL],
          size  |-> v.size,
          count |-> last]

\* A realloc failed, and size promises more than there is.
Overstated(v) == v.size - 1 \notin DOMAIN v.array

Indices(v) == 0 .. (v.count - 1)
Entries(v) == {v.array[i] : i \in Indices(v)}
Distinct(v) == \A i, j \in Indices(v) : v.array[i] = v.array[j] => i = j

\* The type of a vector of elements: its first count entries are elements.
IsVector(v, Element) ==
  /\ v \in [array : {v.array}, size : Nat \ {0}, count : Nat]
  /\ v.array \in [DOMAIN v.array -> Element \cup {NULL, Junk}]
  /\ \E n \in v.count .. v.size : DOMAIN v.array = 0 .. (n - 1)
  /\ \A i \in Indices(v) : v.array[i] \in Element
=============================================================================
