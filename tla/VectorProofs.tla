---------------------------- MODULE VectorProofs ----------------------------
(***************************************************************************)
(* What the operations of vector.c do, for vectors of any size.            *)
(***************************************************************************)
EXTENDS Vector, TLAPS

\* A vector's parts.
LEMMA VectorParts ==
  ASSUME NEW Element, NEW v, IsVector(v, Element)
  PROVE  /\ v.size \in Nat \ {0}
         /\ v.count \in Nat
         /\ v.array \in [DOMAIN v.array -> Element \cup {NULL, Junk}]
         /\ v = [array |-> v.array, size |-> v.size, count |-> v.count]
         /\ v.count <= v.size
         /\ \A i \in Indices(v) : i \in DOMAIN v.array /\ v.array[i] \in Element
         /\ Full(v) => ~ Overstated(v)
<1>1. v \in [array : {v.array}, size : Nat \ {0}, count : Nat]
  BY DEF IsVector
<1>2. PICK n \in v.count .. v.size : DOMAIN v.array = 0 .. (n - 1)
  BY DEF IsVector
<1>3. v.count \in Nat /\ v.size \in Nat \ {0}
  BY <1>1
<1>4. \A i \in Indices(v) : i \in DOMAIN v.array /\ v.array[i] \in Element
  BY <1>2, <1>3 DEF IsVector, Indices
<1>5. Full(v) => ~ Overstated(v)
  BY <1>2, <1>3 DEF Full, Overstated
<1> QED
  BY <1>1, <1>2, <1>3, <1>4, <1>5 DEF IsVector

\* How a vector is put together.
LEMMA VectorOf ==
  ASSUME NEW Element, NEW n \in Nat, NEW array \in [0 .. (n - 1) -> Element \cup {NULL, Junk}],
         NEW size \in Nat \ {0}, NEW count \in Nat, count <= n, n <= size,
         \A i \in 0 .. (count - 1) : array[i] \in Element
  PROVE  IsVector([array |-> array, size |-> size, count |-> count], Element)
BY DEF IsVector, Indices

\* vector_insert_unsafe either adds the element at the end or, when realloc
\* fails, changes nothing but what size claims.
LEMMA VectorInserted ==
  ASSUME NEW Element, NEW v, IsVector(v, Element), NEW e \in Element,
         NEW success \in BOOLEAN, Fits(v)
  PROVE  LET w == vector_insert_unsafe(v, e, success) IN
         /\ IsVector(w, Element)
         /\ \A i \in Indices(v) : w.array[i] = v.array[i]
         /\ Overstated(v) => Overstated(w)
         /\ \/ /\ w.count = v.count
               /\ Overstated(w)
            \/ /\ w.count = v.count + 1
               /\ w.array[v.count] = e
<1> DEFINE w == vector_insert_unsafe(v, e, success)
<1> HIDE DEF w
<1>0. /\ v.size \in Nat \ {0} /\ v.count \in Nat /\ v.count <= v.size
      /\ v.array \in [DOMAIN v.array -> Element \cup {NULL, Junk}]
      /\ \A i \in Indices(v) : i \in DOMAIN v.array /\ v.array[i] \in Element
      /\ Full(v) => ~ Overstated(v)
  BY VectorParts
<1> USE <1>0
<1>1. PICK n \in v.count .. v.size : DOMAIN v.array = 0 .. (n - 1)
  BY DEF IsVector
<1>2. n \in Nat
  BY <1>1
<1>3. CASE Full(v) /\ ~ success
  <2>1. w = [array |-> v.array, size |-> 2 * v.size, count |-> v.count]
    BY <1>3 DEF vector_insert_unsafe, Grown, w
  <2>2. IsVector(w, Element)
    BY <1>1, <1>2, <2>1, VectorOf DEF Indices
  <2>3. Overstated(w)
    BY <1>1, <1>2, <2>1 DEF Overstated
  <2> QED
    BY <2>1, <2>2, <2>3 DEF w
<1>4. CASE Full(v) /\ success
  <2> DEFINE larger == [i \in 0 .. (2 * v.size - 1) |->
                          IF i \in DOMAIN v.array THEN v.array[i] ELSE Junk]
             filled == [larger EXCEPT ![v.count] = e]
  <2>1. w = [array |-> filled, size |-> 2 * v.size, count |-> v.count + 1]
    BY <1>4 DEF vector_insert_unsafe, Grown, w
  <2>2. v.count = v.size
    BY <1>4 DEF Full
  <2>3. larger \in [0 .. (2 * v.size - 1) -> Element \cup {NULL, Junk}]
    OBVIOUS
  <2>4. filled \in [0 .. (2 * v.size - 1) -> Element \cup {NULL, Junk}]
    BY <2>3
  <2>5. v.count \in 0 .. (2 * v.size - 1)
    BY <2>2
  <2>6. \A i \in Indices(v) : filled[i] = v.array[i]
    BY <2>5, <2>2 DEF Indices
  <2>7. filled[v.count] = e
    BY <2>5
  <2>8. /\ \A i \in 0 .. ((v.count + 1) - 1) : filled[i] \in Element
        /\ 2 * v.size \in Nat \ {0} /\ v.count + 1 \in Nat /\ v.count + 1 <= 2 * v.size
    <3>1. 0 .. ((v.count + 1) - 1) = Indices(v) \cup {v.count}
      BY DEF Indices
    <3>2. 2 * v.size \in Nat \ {0} /\ v.count + 1 \in Nat /\ v.count + 1 <= 2 * v.size
      BY <2>2
    <3> HIDE DEF filled, larger
    <3> QED
      BY <2>6, <2>7, <3>1, <3>2
  <2>9. IsVector(w, Element)
    <3> DEFINE twice == 2 * v.size
    <3>1. /\ w = [array |-> filled, size |-> twice, count |-> v.count + 1]
          /\ filled \in [0 .. (twice - 1) -> Element \cup {NULL, Junk}]
          /\ twice \in Nat \ {0} /\ v.count + 1 \in Nat /\ v.count + 1 <= twice
          /\ twice \in Nat /\ twice <= twice
          /\ \A i \in 0 .. ((v.count + 1) - 1) : filled[i] \in Element
      BY <2>1, <2>4, <2>8
    <3> HIDE DEF filled, larger, twice
    <3>2. IsVector([array |-> filled, size |-> twice, count |-> v.count + 1], Element)
      BY <3>1, VectorOf
    <3> QED BY <3>1, <3>2
  <2> QED
    <3> HIDE DEF filled, larger
    <3>1. w.array = filled /\ w.count = v.count + 1
      BY <2>1
    <3> QED BY <1>4, <2>6, <2>7, <2>9, <3>1 DEF w
<1>5. CASE ~ Full(v)
  <2> DEFINE filled == [v.array EXCEPT ![v.count] = e]
  <2>1. w = [array |-> filled, size |-> v.size, count |-> v.count + 1]
    BY <1>5 DEF vector_insert_unsafe, w
  <2>2. v.count \in DOMAIN v.array /\ v.count + 1 <= n
    BY <1>1, <1>2, <1>5 DEF Fits
  <2>3. filled \in [0 .. (n - 1) -> Element \cup {NULL, Junk}]
    BY <1>1
  <2>4. \A i \in Indices(v) : filled[i] = v.array[i]
    BY DEF Indices
  <2>5. filled[v.count] = e
    BY <2>2
  <2>6. \A i \in 0 .. ((v.count + 1) - 1) : filled[i] \in Element
    BY <2>4, <2>5 DEF Indices
  <2>7. IsVector(w, Element)
    <3>1. n <= v.size /\ v.count + 1 \in Nat
      BY <1>1
    <3> HIDE DEF filled
    <3>2. IsVector([array |-> filled, size |-> v.size, count |-> v.count + 1], Element)
      BY <1>2, <2>2, <2>3, <2>6, <3>1, VectorOf
    <3> QED BY <2>1, <3>2
  <2>8. Overstated(v) => Overstated(w)
    BY <2>1 DEF Overstated
  <2> QED
    <3> HIDE DEF filled
    <3> QED BY <2>1, <2>4, <2>5, <2>7, <2>8 DEF w
<1> QED
  BY <1>3, <1>4, <1>5

\* vector_remove_unsafe of an index in use closes the gap with the last
\* element and touches no other.
LEMMA VectorRemoved ==
  ASSUME NEW Element, NEW v, IsVector(v, Element), NULL \notin Element,
         NEW index \in Indices(v)
  PROVE  LET w == vector_remove_unsafe(v, index) IN
         /\ IsVector(w, Element)
         /\ w.count = v.count - 1
         /\ \A i \in Indices(w) :
              w.array[i] = IF i = index THEN v.array[v.count - 1] ELSE v.array[i]
         /\ Overstated(w) <=> Overstated(v)
<1> DEFINE w == vector_remove_unsafe(v, index)
           last == v.count - 1
           left == IF last > 0
                     THEN [v.array EXCEPT ![index] = v.array[last], ![last] = NULL]
                     ELSE [v.array EXCEPT ![index] = NULL]
<1> HIDE DEF w
<1>0. /\ v.size \in Nat \ {0} /\ v.count \in Nat /\ v.count <= v.size
      /\ v.array \in [DOMAIN v.array -> Element \cup {NULL, Junk}]
      /\ \A i \in Indices(v) : i \in DOMAIN v.array /\ v.array[i] \in Element
      /\ Full(v) => ~ Overstated(v)
  BY VectorParts
<1> USE <1>0
<1>1. PICK n \in v.count .. v.size : DOMAIN v.array = 0 .. (n - 1)
  BY DEF IsVector
<1>2. n \in Nat /\ last \in Nat /\ index \in Nat /\ index < v.size /\ index <= last
  BY <1>1 DEF Indices
<1>3. v.array[index] # NULL
  OBVIOUS
<1>4. w = [array |-> left, size |-> v.size, count |-> last]
  BY <1>2, <1>3 DEF vector_remove_unsafe, w
<1>5. v.array[last] \in Element
  BY <1>2 DEF Indices
<1>6. left \in [0 .. (n - 1) -> Element \cup {NULL, Junk}]
  BY <1>1, <1>5
<1>7. \A i \in 0 .. (last - 1) :
        left[i] = IF i = index THEN v.array[last] ELSE v.array[i]
  BY <1>1, <1>2, <1>6
<1>8. \A i \in 0 .. (last - 1) : left[i] \in Element
  BY <1>2, <1>5, <1>7 DEF Indices
<1>9. IsVector(w, Element)
  <2> HIDE DEF left
  <2> QED BY <1>1, <1>2, <1>4, <1>6, <1>8, VectorOf
<1>10. Overstated(w) <=> Overstated(v)
  BY <1>1, <1>4, <1>6 DEF Overstated
<1> QED
  <2> HIDE DEF left
  <2> QED BY <1>4, <1>7, <1>9, <1>10 DEF Indices, w

\* Inserting keeps the elements of a vector distinct.
LEMMA InsertedEntries ==
  ASSUME NEW Element, NEW v, IsVector(v, Element), NEW e \in Element,
         NEW success \in BOOLEAN, Fits(v)
  PROVE  LET w == vector_insert_unsafe(v, e, success) IN
         /\ Entries(v) \subseteq Entries(w)
         /\ Entries(w) \subseteq Entries(v) \cup {e}
         /\ ~ Overstated(w) => e \in Entries(w)
         /\ Distinct(v) /\ e \notin Entries(v) => Distinct(w)
<1> DEFINE w == vector_insert_unsafe(v, e, success)
<1> HIDE DEF w
<1>0. /\ v.size \in Nat \ {0} /\ v.count \in Nat /\ v.count <= v.size
      /\ v.array \in [DOMAIN v.array -> Element \cup {NULL, Junk}]
      /\ \A i \in Indices(v) : i \in DOMAIN v.array /\ v.array[i] \in Element
      /\ Full(v) => ~ Overstated(v)
  BY VectorParts
<1> USE <1>0
<1>1. /\ \A i \in Indices(v) : w.array[i] = v.array[i]
      /\ \/ w.count = v.count /\ Overstated(w)
         \/ w.count = v.count + 1 /\ w.array[v.count] = e
  BY VectorInserted DEF w
<1>2. CASE w.count = v.count /\ Overstated(w)
  <2>1. Indices(w) = Indices(v)
    BY <1>2 DEF Indices
  <2> QED
    BY <1>1, <1>2, <2>1 DEF Entries, Distinct, w
<1>3. CASE w.count = v.count + 1 /\ w.array[v.count] = e
  <2>1. Indices(w) = Indices(v) \cup {v.count} /\ v.count \notin Indices(v)
    BY <1>3 DEF Indices
  <2>2. Entries(w) = Entries(v) \cup {e}
    BY <1>1, <1>3, <2>1 DEF Entries
  <2>3. Distinct(v) /\ e \notin Entries(v) => Distinct(w)
    BY <1>1, <1>3, <2>1 DEF Entries, Distinct
  <2> QED
    BY <2>2, <2>3 DEF w
<1> QED
  BY <1>1, <1>2, <1>3

\* Removing takes exactly one element out of a vector of distinct ones.
LEMMA RemovedEntries ==
  ASSUME NEW Element, NEW v, IsVector(v, Element), NULL \notin Element,
         NEW index \in Indices(v)
  PROVE  LET w == vector_remove_unsafe(v, index) IN
         /\ Entries(w) \subseteq Entries(v)
         /\ Distinct(v) => /\ Distinct(w)
                           /\ Entries(w) = Entries(v) \ {v.array[index]}
<1> DEFINE w == vector_remove_unsafe(v, index)
           last == v.count - 1
<1> HIDE DEF w
<1>0. /\ v.size \in Nat \ {0} /\ v.count \in Nat /\ v.count <= v.size
      /\ v.array \in [DOMAIN v.array -> Element \cup {NULL, Junk}]
      /\ \A i \in Indices(v) : i \in DOMAIN v.array /\ v.array[i] \in Element
      /\ Full(v) => ~ Overstated(v)
  BY VectorParts
<1> USE <1>0
<1>1. w.count = last
  BY VectorRemoved DEF w
<1>2. \A i \in Indices(w) : w.array[i] = IF i = index THEN v.array[last] ELSE v.array[i]
  BY VectorRemoved DEF w
<1>3. /\ Indices(v) = Indices(w) \cup {last}
      /\ last \notin Indices(w) /\ last \in Indices(v) /\ index \in Int
  BY <1>1 DEF Indices
<1>4. Entries(w) \subseteq Entries(v)
  BY <1>2, <1>3 DEF Entries
<1>5. ASSUME Distinct(v)
      PROVE  Distinct(w)
  BY <1>2, <1>3, <1>5 DEF Distinct
<1>6. ASSUME Distinct(v)
      PROVE  v.array[index] \notin Entries(w)
  BY <1>2, <1>3, <1>6 DEF Distinct, Entries
<1>7. Entries(v) \ {v.array[index]} \subseteq Entries(w)
  <2> SUFFICES ASSUME NEW i \in Indices(v), v.array[i] # v.array[index]
               PROVE  v.array[i] \in Entries(w)
    BY DEF Entries
  <2>1. CASE i \in Indices(w)
    BY <1>2, <2>1 DEF Entries
  <2>2. CASE i = last
    <3>1. index \in Indices(w)
      BY <1>3, <2>2
    <3> QED
      BY <1>2, <2>2, <3>1 DEF Entries
  <2> QED
    BY <1>3, <2>1, <2>2
<1> QED
  BY <1>4, <1>5, <1>6, <1>7 DEF w
=============================================================================
