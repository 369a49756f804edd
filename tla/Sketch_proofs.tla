--------------------------- MODULE Sketch_proofs ---------------------------
(***************************************************************************)
(* The tree of the processes and the tasks of the sketch.                  *)
(*                                                                         *)
(* First the lists of children: that the walk along first_child and        *)
(* next_sibling meets the children of a process, each once, and ends, is   *)
(* an induction along the list.  Then the blocks: what a task has mapped   *)
(* at each point of its turn, over what PageTable_proofs says of the      *)
(* allocator, and last what follows for every variable of Sketch.          *)
(***************************************************************************)
EXTENDS Sketch, PageTable_proofs, WellFoundedInduction

\* Induction, for sets: the theorems of the library that take a predicate are of
\* no use to the provers, the one that says Nat is well founded is.
LEMMA NatSetInduction ==
  ASSUME NEW S, 0 \in S, \A n \in Nat : n \in S => n + 1 \in S
  PROVE  Nat \subseteq S
  <1> DEFINE T == Nat \ S
  <1> SUFFICES ASSUME T # {} PROVE FALSE
    OBVIOUS
  <1>1. PICK m \in T : \A y \in T : ~ (<<y, m>> \in OpToRel(<, Nat))
    <2>1. T \subseteq Nat
      OBVIOUS
    <2> HIDE DEF T
    <2> QED
      BY <2>1, WFMin, NatLessThanWellFounded
  <1>2. \A y \in T : ~ (y < m)
    BY <1>1 DEF OpToRel
  <1>3. m - 1 \in Nat /\ m - 1 < m /\ m - 1 + 1 = m
    OBVIOUS
  <1> QED
    BY <1>2, <1>3

-----------------------------------------------------------------------------

(***************************************************************************)
(* The lists of children.                                                  *)
(***************************************************************************)
Pointers == [Processes -> Processes \cup {NULL}]

TreeTypeOK ==
  /\ state \in [Processes -> {"READY", "KILL_PENDING", "ZOMBIE"}]
  /\ ref_count \in [Processes -> Nat]
  /\ first_child \in Pointers /\ next_sibling \in Pointers /\ parent \in Pointers

\* The list of p is s[0], ..., s[len - 1]: the children of p, each once.
IsList(p, len, s) ==
  /\ s[0] = first_child[p] /\ s[len] = NULL
  /\ \A k \in 0 .. len - 1 :
       /\ s[k] \in Processes
       /\ parent[s[k]] = p /\ next_sibling[s[k]] = s[k + 1]
  /\ \A j, k \in 0 .. len - 1 : s[j] = s[k] => j = k
  /\ \A c \in Processes : parent[c] = p => \E k \in 0 .. len - 1 : s[k] = c

Lists(len) == [0 .. len -> Processes \cup {NULL}]

HasList(p) == \E len \in Nat : \E s \in Lists(len) : IsList(p, len, s)

TreeInv == TreeTypeOK /\ (\A p \in Processes : HasList(p)) /\ RefCounts

N == Cardinality(Processes)

LEMMA NOK == N \in Nat
  BY ProcessesOK, FS_CardinalityType DEF N

\* A list is no longer than there are processes.
LEMMA ListFits ==
  ASSUME NEW p \in Processes, NEW len \in Nat, NEW s \in Lists(len), IsList(p, len, s)
  PROVE  len <= N
  <1> DEFINE f == [k \in 1 .. len |-> s[k - 1]]
  <1>1. f \in [1 .. len -> Processes]
    BY DEF IsList
  <1>2. \A j, k \in 1 .. len : f[j] = f[k] => j = k
    <2> TAKE j, k \in 1 .. len
    <2>1. j - 1 \in 0 .. len - 1 /\ k - 1 \in 0 .. len - 1
      OBVIOUS
    <2> QED
      BY <2>1 DEF IsList
  <1>3. f \in Injection(1 .. len, Processes)
    BY <1>1, <1>2 DEF Injection, IsInjective
  <1>4. Cardinality(1 .. len) <= Cardinality(Processes)
    BY <1>3, ProcessesOK, FS_Injection
  <1>5. Cardinality(1 .. len) = len
    BY FS_Interval
  <1> QED
    BY <1>4, <1>5 DEF N

\* The loop "curr = curr->next_sibling" goes through the list and stops.
LEMMA NthOfList ==
  ASSUME NEW p \in Processes, NEW len \in Nat, NEW s \in Lists(len), IsList(p, len, s)
  PROVE  Nth(p) = [n \in 0 .. N |-> IF n <= len THEN s[n] ELSE NULL]
  <1> DEFINE After(c, n) == IF n = 0 THEN first_child[p]
                           ELSE IF c[n - 1] = NULL THEN NULL ELSE next_sibling[c[n - 1]]
             Loop(c) == c = [n \in 0 .. N |-> After(c, n)]
             g == [n \in 0 .. N |-> IF n <= len THEN s[n] ELSE NULL]
  <1>1. Nth(p) = CHOOSE c : Loop(c)
    BY DEF Nth, N
  <1>2. Loop(g)
    <2>1. ASSUME NEW n \in 0 .. N PROVE g[n] = After(g, n)
      <3>1. n \in Nat /\ N \in Nat
        BY NOK
      <3>2. CASE n = 0
        BY <3>1, <3>2 DEF IsList
      <3>3. CASE n # 0 /\ n <= len
        <4>1. n - 1 \in 0 .. len - 1 /\ n - 1 \in 0 .. N /\ g[n - 1] = s[n - 1] /\ n - 1 + 1 = n
          BY <3>1, <3>3
        <4>2. s[n - 1] \in Processes /\ next_sibling[s[n - 1]] = s[n]
          BY <4>1 DEF IsList
        <4> QED
          BY <3>1, <3>3, <4>1, <4>2, ProcessesOK
      <3>4. CASE n # 0 /\ n > len
        <4>1. n - 1 \in 0 .. N /\ g[n - 1] = NULL
          <5>1. n - 1 \in 0 .. N /\ (n - 1 <= len => n - 1 = len)
            BY <3>1, <3>4
          <5> QED
            BY <5>1 DEF IsList
        <4> QED
          BY <3>1, <3>4, <4>1
      <3> QED
        BY <3>1, <3>2, <3>3, <3>4
    <2> QED
      BY <2>1
  <1>3. Loop(Nth(p))
    <2> HIDE DEF Loop
    <2> QED
      BY <1>1, <1>2
  <1>4. ASSUME NEW n \in 0 .. N PROVE Nth(p)[n] = g[n]
    <2> DEFINE c == Nth(p)
               S == {m \in Nat : m <= N => c[m] = g[m]}
    <2>1. \A m \in 0 .. N : c[m] = After(c, m) /\ g[m] = After(g, m)
      BY <1>2, <1>3
    <2> HIDE DEF c, g
    <2>2. 0 \in S
      BY <2>1, NOK
    <2>3. ASSUME NEW m \in Nat, m \in S PROVE m + 1 \in S
      <3>1. SUFFICES ASSUME m + 1 <= N PROVE c[m + 1] = g[m + 1]
        OBVIOUS
      <3>2. m + 1 \in 0 .. N /\ c[m] = g[m] /\ m + 1 # 0 /\ m + 1 - 1 = m
        BY <2>3, <3>1, NOK
      <3> QED
        BY <2>1, <3>2
    <2> HIDE DEF S
    <2>4. Nat \subseteq S
      BY <2>2, <2>3, NatSetInduction
    <2> QED
      BY <2>4, NOK DEF S, c
  <1> QED
    BY <1>3, <1>4

\* So it visits the children, and ends.
LEMMA VisitsChildren ==
  ASSUME NEW p \in Processes, NEW len \in Nat, NEW s \in Lists(len), IsList(p, len, s)
  PROVE  /\ WalkEnds(p)
         /\ Visited(p) = Children(p)
         /\ Visited(p) = {s[k] : k \in 0 .. len - 1}
  <1>1. len <= N /\ N \in Nat
    BY ListFits, NOK
  <1>2. Nth(p) = [n \in 0 .. N |-> IF n <= len THEN s[n] ELSE NULL]
    BY NthOfList
  <1>3. WalkEnds(p)
    BY <1>1, <1>2 DEF WalkEnds, N, IsList
  <1>4. Visited(p) = {s[k] : k \in 0 .. len - 1}
    <2>1. Visited(p) = {Nth(p)[n] : n \in 0 .. N} \ {NULL}
      BY DEF Visited, N
    <2>2. ASSUME NEW n \in 0 .. N, Nth(p)[n] # NULL
          PROVE  n \in 0 .. len - 1 /\ Nth(p)[n] = s[n]
      BY <1>1, <1>2, <2>2 DEF IsList
    <2>3. ASSUME NEW k \in 0 .. len - 1
          PROVE  k \in 0 .. N /\ Nth(p)[k] = s[k] /\ s[k] # NULL
      BY <1>1, <1>2, ProcessesOK DEF IsList
    <2> QED
      BY <2>1, <2>2, <2>3
  <1>5. Children(p) = {s[k] : k \in 0 .. len - 1}
    BY DEF Children, IsList
  <1> QED
    BY <1>3, <1>4, <1>5

LEMMA VisitedOf ==
  ASSUME TreeInv, NEW p \in Processes
  PROVE  WalkEnds(p) /\ Visited(p) = Children(p)
  BY VisitsChildren DEF TreeInv, HasList

\* In a list the loop of removeChild stops at the child in front of s[m].
LEMMA StopsBefore ==
  ASSUME NEW p \in Processes, NEW len \in Nat, NEW s \in Lists(len), IsList(p, len, s),
         NEW m \in 1 .. len - 1, NEW c \in Processes, c = s[m],
         \A k \in 0 .. len - 1 : next_sibling[s[k]] = c <=> k + 1 = m,
         NEW x \in Processes
  PROVE  x \in Before(p, c) <=> x = s[m - 1]
  <1>1. len <= N /\ N \in Nat
    BY ListFits, NOK
  <1>2. \A n \in 0 .. N : Nth(p)[n] = IF n <= len THEN s[n] ELSE NULL
    <2>1. Nth(p) = [n \in 0 .. N |-> IF n <= len THEN s[n] ELSE NULL]
      BY NthOfList
    <2> QED
      BY <2>1
  <1>3. x \in Before(p, c) <=>
          \E n \in 0 .. N :
            /\ Nth(p)[n] = x /\ next_sibling[x] = c
            /\ \A i \in 0 .. n - 1 : next_sibling[Nth(p)[i]] # c
    BY DEF Before, N
  <1>4. ASSUME NEW n \in 0 .. N, Nth(p)[n] = x, next_sibling[x] = c
        PROVE  x = s[m - 1]
    <2>1. n \in 0 .. len - 1 /\ x = s[n]
      BY <1>1, <1>2, <1>4, ProcessesOK DEF IsList
    <2> QED
      BY <1>4, <2>1
  <1>5. ASSUME x = s[m - 1]
        PROVE  \E n \in 0 .. N :
                 /\ Nth(p)[n] = x /\ next_sibling[x] = c
                 /\ \A i \in 0 .. n - 1 : next_sibling[Nth(p)[i]] # c
    <2>1. m - 1 \in 0 .. N /\ m - 1 \in 0 .. len - 1 /\ m - 1 <= len
      BY <1>1
    <2>2. Nth(p)[m - 1] = x /\ next_sibling[x] = c
      BY <1>2, <1>5, <2>1
    <2>3. ASSUME NEW i \in 0 .. m - 1 - 1 PROVE next_sibling[Nth(p)[i]] # c
      <3>1. i \in 0 .. N /\ i \in 0 .. len - 1 /\ i <= len /\ i + 1 # m
        BY <1>1
      <3> QED
        BY <1>2, <3>1
    <2> QED
      BY <2>1, <2>2, <2>3
  <1> QED
    BY <1>3, <1>4, <1>5

\* A list is left alone by what is done to the children of others.
LEMMA OtherList ==
  ASSUME NEW q \in Processes, HasList(q), first_child'[q] = first_child[q],
         \A x \in Processes : parent[x] = q =>
           next_sibling'[x] = next_sibling[x] /\ parent'[x] = q,
         \A x \in Processes : parent'[x] = q => parent[x] = q
  PROVE  HasList(q)'
  <1>0. PICK len \in Nat : \E s \in Lists(len) : IsList(q, len, s)
    BY DEF HasList
  <1>1. PICK s \in Lists(len) : IsList(q, len, s)
    BY <1>0
  <1>2. \A k \in 0 .. len - 1 :
          /\ s[k] \in Processes
          /\ parent'[s[k]] = q /\ next_sibling'[s[k]] = s[k + 1]
    BY <1>1 DEF IsList
  <1>3. IsList(q, len, s)'
    BY <1>1, <1>2 DEF IsList
  <1> QED
    BY <1>1, <1>3 DEF HasList, Lists

-----------------------------------------------------------------------------
(***************************************************************************)
(* What a call does to the lists.                                          *)
(***************************************************************************)

\* The new child comes last.
LEMMA AttachKeeps ==
  ASSUME TreeInv, NEW p \in Processes, NEW c \in Processes,
         CanAttach(p, c), addChild(p, c)
  PROVE  TreeInv'
  <1>0. PICK len \in Nat : \E s \in Lists(len) : IsList(p, len, s)
    BY DEF TreeInv, HasList
  <1>1. PICK s \in Lists(len) : IsList(p, len, s)
    BY <1>0
  <1>2. /\ p # c /\ p # NULL /\ c # NULL
        /\ parent[c] = NULL /\ next_sibling[c] = NULL /\ state[p] # "ZOMBIE"
    BY ProcessesOK DEF CanAttach, Adopts
  <1>4. TreeTypeOK /\ ref_count[c] = 1
    BY <1>2 DEF TreeInv, RefCounts
  <1>3. /\ parent' = [parent EXCEPT ![c] = p] /\ state' = state
        /\ ref_count' = [ref_count EXCEPT ![c] = 2]
        /\ Append(p, c)
    <2>1. (ref_count[c] + 1) % 256 = 2
      BY <1>4
    <2> QED
      BY <1>2, <1>4, <2>1 DEF addChild, TreeTypeOK
  <1>5. /\ parent'[c] = p
        /\ \A x \in Processes \ {c} : parent'[x] = parent[x]
        /\ \A x \in Processes : parent'[x] = p <=> x = c \/ parent[x] = p
    BY <1>2, <1>3, <1>4 DEF TreeTypeOK, Pointers
  <1>6. Visited(p) = {s[k] : k \in 0 .. len - 1}
    BY <1>1, VisitsChildren
  <1>7. first_child[p] = NULL <=> len = 0
    BY <1>1, ProcessesOK DEF IsList
  <1> DEFINE t == [k \in 0 .. len + 1 |-> IF k < len THEN s[k] ELSE IF k = len THEN c ELSE NULL]
  <1>8. /\ first_child' \in Pointers /\ next_sibling' \in Pointers
        /\ first_child'[p] = IF len = 0 THEN c ELSE first_child[p]
        /\ \A q \in Processes \ {p} : first_child'[q] = first_child[q]
        /\ len # 0 => next_sibling'[s[len - 1]] = c
        /\ \A x \in Processes : (len = 0 \/ x # s[len - 1]) => next_sibling'[x] = next_sibling[x]
    <2>1. CASE len = 0
      BY <1>3, <1>4, <1>7, <2>1 DEF Append, TreeTypeOK, Pointers
    <2>2. CASE len # 0
      <3>1. PICK last \in Visited(p) :
              /\ next_sibling[last] = NULL
              /\ next_sibling' = [next_sibling EXCEPT ![last] = c]
              /\ first_child' = first_child
        BY <1>3, <1>7, <2>2 DEF Append
      <3>2. PICK k \in 0 .. len - 1 : last = s[k]
        BY <1>6, <3>1
      <3>3. k = len - 1
        <4>1. s[k + 1] = NULL
          BY <1>1, <3>1, <3>2 DEF IsList
        <4>2. k + 1 \notin 0 .. len - 1
          BY <1>1, <4>1, ProcessesOK DEF IsList
        <4> QED
          BY <4>2
      <3>4. last \in Processes
        BY <1>1, <3>2 DEF IsList
      <3> QED
        BY <1>4, <2>2, <3>1, <3>2, <3>3, <3>4 DEF TreeTypeOK, Pointers
    <2> QED
      BY <2>1, <2>2
  <1>9. \A k \in 0 .. len - 1 : s[k] \in Processes /\ s[k] # c /\ parent[s[k]] = p
    BY <1>1, <1>2 DEF IsList
  <1>10. HasList(p)'
    <2>1. t \in Lists(len + 1) /\ len + 1 \in Nat
      BY DEF Lists
    <2>2. t[0] = first_child'[p] /\ t[len + 1] = NULL
      BY <1>1, <1>8 DEF IsList
    <2>3. ASSUME NEW k \in 0 .. len + 1 - 1
          PROVE  t[k] \in Processes /\ parent'[t[k]] = p /\ next_sibling'[t[k]] = t[k + 1]
      <3>1. CASE k = len
        <4>1. len = 0 \/ c # s[len - 1]
          BY <1>9
        <4> QED
          BY <1>2, <1>5, <1>8, <3>1, <4>1
      <3>2. CASE k < len
        <4>1. k \in 0 .. len - 1 /\ t[k] = s[k]
          BY <3>2
        <4>2. s[k] \in Processes /\ parent'[s[k]] = p
          BY <1>5, <1>9, <4>1
        <4>3. CASE k = len - 1
          BY <1>8, <3>2, <4>1, <4>2, <4>3
        <4>4. CASE k # len - 1
          <5>1. len - 1 \in 0 .. len - 1 /\ k + 1 \in 0 .. len - 1 /\ t[k + 1] = s[k + 1]
            BY <3>2, <4>4
          <5>2. s[k] # s[len - 1] /\ next_sibling[s[k]] = s[k + 1]
            BY <1>1, <4>1, <4>4, <5>1 DEF IsList
          <5> QED
            BY <1>8, <4>1, <4>2, <5>1, <5>2
        <4> QED
          BY <4>3, <4>4
      <3> QED
        BY <3>1, <3>2
    <2>4. ASSUME NEW j \in 0 .. len + 1 - 1, NEW k \in 0 .. len + 1 - 1, t[j] = t[k]
          PROVE  j = k
      <3>1. \A i \in 0 .. len - 1 : t[i] = s[i] /\ t[i] # c
        BY <1>9
      <3>2. t[len] = c
        OBVIOUS
      <3>3. j \in 0 .. len - 1 \/ j = len
        OBVIOUS
      <3>4. k \in 0 .. len - 1 \/ k = len
        OBVIOUS
      <3> HIDE DEF t
      <3> QED
        BY <1>1, <2>4, <3>1, <3>2, <3>3, <3>4 DEF IsList
    <2>5. ASSUME NEW x \in Processes, parent'[x] = p
          PROVE  \E k \in 0 .. len + 1 - 1 : t[k] = x
      <3>1. CASE x = c
        <4>1. len \in 0 .. len + 1 - 1 /\ t[len] = x
          BY <3>1
        <4> QED
          BY <4>1
      <3>2. CASE x # c
        <4>1. PICK k \in 0 .. len - 1 : s[k] = x
          BY <1>1, <1>5, <2>5, <3>2 DEF IsList
        <4>2. k \in 0 .. len + 1 - 1 /\ t[k] = x
          BY <4>1
        <4> QED
          BY <4>2
      <3> QED
        BY <3>1, <3>2
    <2> HIDE DEF t
    <2>6. IsList(p, len + 1, t)'
      BY <2>2, <2>3, <2>4, <2>5 DEF IsList
    <2> QED
      BY <2>1, <2>6 DEF HasList, Lists
  <1> HIDE DEF t
  <1>11. ASSUME NEW q \in Processes, q # p PROVE HasList(q)'
    <2>1. \A x \in Processes : parent[x] = q => x # c /\ (len = 0 \/ x # s[len - 1])
      BY <1>2, <1>9, <1>11, ProcessesOK
    <2> QED
      BY <1>2, <1>5, <1>8, <1>11, <2>1, OtherList DEF TreeInv
  <1>12. TreeTypeOK'
    BY <1>3, <1>4, <1>8 DEF TreeTypeOK, Pointers
  <1>13. RefCounts'
    <2>1. SUFFICES ASSUME NEW x \in Processes
                   PROVE  ref_count'[x] =
                            IF parent'[x] # NULL /\ state'[parent'[x]] # "ZOMBIE" THEN 2 ELSE 1
      BY DEF RefCounts
    <2>2. ref_count[x] = IF parent[x] # NULL /\ state[parent[x]] # "ZOMBIE" THEN 2 ELSE 1
      BY DEF TreeInv, RefCounts
    <2>3. CASE x = c
      BY <1>2, <1>3, <1>4, <1>5, <2>2, <2>3 DEF TreeTypeOK
    <2>4. CASE x # c
      BY <1>3, <1>4, <1>5, <2>2, <2>4 DEF TreeTypeOK
    <2> QED
      BY <2>3, <2>4
  <1> QED
    BY <1>10, <1>11, <1>12, <1>13 DEF TreeInv

\* The child is taken out where it is; the others keep their order.
LEMMA DetachKeeps ==
  ASSUME TreeInv, NEW p \in Processes, NEW c \in Processes,
         CanDetach(p, c), removeChild(p, c)
  PROVE  TreeInv'
  <1>0. PICK len \in Nat : \E s \in Lists(len) : IsList(p, len, s)
    BY DEF TreeInv, HasList
  <1>1. PICK s \in Lists(len) : IsList(p, len, s)
    BY <1>0
  <1>2. parent[c] = p /\ state[p] # "ZOMBIE" /\ p # NULL /\ c # NULL
    BY ProcessesOK DEF CanDetach
  <1>3. PICK m \in 0 .. len - 1 : s[m] = c
    BY <1>1, <1>2 DEF IsList
  <1>4. TreeTypeOK
    BY DEF TreeInv
  <1>5. first_child[p] \in Processes /\ (first_child[p] = c <=> m = 0)
    <2>1. 0 \in 0 .. len - 1
      OBVIOUS
    <2> QED
      BY <1>1, <1>3, <2>1 DEF IsList
  <1>6. /\ Unlink(p, c) /\ state' = state
        /\ parent' = [parent EXCEPT ![c] = NULL]
        /\ ref_count' = [ref_count EXCEPT ![c] = Less(@)]
    BY <1>5, ProcessesOK DEF removeChild
  <1>7. /\ parent'[c] = NULL
        /\ \A x \in Processes \ {c} : parent'[x] = parent[x]
    BY <1>4, <1>6 DEF TreeTypeOK, Pointers
  <1>9. \A k \in 0 .. len - 1 :
          /\ s[k] \in Processes /\ parent[s[k]] = p /\ next_sibling[s[k]] = s[k + 1]
          /\ next_sibling[s[k]] = c <=> k + 1 = m
    <2> TAKE k \in 0 .. len - 1
    <2>1. s[k] \in Processes /\ parent[s[k]] = p /\ next_sibling[s[k]] = s[k + 1]
      BY <1>1 DEF IsList
    <2>2. CASE k + 1 = len
      BY <1>1, <1>2, <2>1, <2>2 DEF IsList
    <2>3. CASE k + 1 # len
      <3>1. k + 1 \in 0 .. len - 1
        BY <2>3
      <3> QED
        BY <1>1, <1>3, <2>1, <3>1 DEF IsList
    <2> QED
      BY <2>2, <2>3
  <1>10. /\ first_child' \in Pointers /\ next_sibling' \in Pointers
         /\ first_child'[p] = IF m = 0 THEN s[1] ELSE s[0]
         /\ \A q \in Processes \ {p} : first_child'[q] = first_child[q]
         /\ \A x \in Processes : parent[x] # p => next_sibling'[x] = next_sibling[x]
         /\ \A k \in 0 .. len - 1 :
              next_sibling'[s[k]] = IF k + 1 = m THEN s[m + 1] ELSE s[k + 1]
    <2>1. next_sibling[c] = s[m + 1]
      BY <1>3, <1>9
    <2>2. next_sibling[c] \in Processes \cup {NULL}
      BY <1>4 DEF TreeTypeOK, Pointers
    <2>3. CASE m = 0
      <3>1. /\ first_child' = [first_child EXCEPT ![p] = next_sibling[c]]
            /\ next_sibling' = next_sibling
        BY <1>5, <1>6, <2>3 DEF Unlink
      <3> QED
        BY <1>4, <1>9, <2>1, <2>2, <2>3, <3>1 DEF TreeTypeOK, Pointers
    <2>4. CASE m # 0
      <3>0. \A x \in Processes : x \in Before(p, c) <=> x = s[m - 1]
        BY <1>1, <1>3, <1>9, <2>4, StopsBefore
      <3>1. /\ next_sibling' = [t \in Processes |->
                   IF t = s[m - 1] THEN next_sibling[c] ELSE next_sibling[t]]
            /\ first_child' = first_child
        BY <1>5, <1>6, <2>4, <3>0 DEF Unlink
      <3>6. m - 1 \in 0 .. len - 1
        BY <2>4
      <3>2. next_sibling' \in Pointers
        BY <1>4, <2>2, <3>1 DEF TreeTypeOK, Pointers
      <3>3. \A x \in Processes : parent[x] # p => next_sibling'[x] = next_sibling[x]
        BY <1>9, <3>1, <3>6
      <3>4. \A k \in 0 .. len - 1 :
              next_sibling'[s[k]] = IF k + 1 = m THEN s[m + 1] ELSE s[k + 1]
        <4> TAKE k \in 0 .. len - 1
        <4>1. s[k] = s[m - 1] <=> k + 1 = m
          BY <1>1, <3>6 DEF IsList
        <4> QED
          BY <1>9, <2>1, <3>1, <4>1
      <3>5. first_child'[p] = s[0]
        BY <1>1, <3>1 DEF IsList
      <3> QED
        BY <1>4, <2>4, <3>1, <3>2, <3>3, <3>4, <3>5 DEF TreeTypeOK
    <2> QED
      BY <2>3, <2>4
  <1> DEFINE t == [k \in 0 .. len - 1 |-> IF k < m THEN s[k] ELSE s[k + 1]]
  <1>11. HasList(p)'
    <2>0. len - 1 \in Nat /\ m \in Nat /\ m <= len - 1
      OBVIOUS
    <2>1. t \in Lists(len - 1)
      BY DEF Lists
    <2>2. t[0] = first_child'[p] /\ t[len - 1] = NULL
      BY <1>1, <1>10, <2>0 DEF IsList
    <2>3. ASSUME NEW k \in 0 .. len - 1 - 1
          PROVE  t[k] \in Processes /\ parent'[t[k]] = p /\ next_sibling'[t[k]] = t[k + 1]
      <3> DEFINE i == IF k < m THEN k ELSE k + 1
      <3>1. i \in 0 .. len - 1 /\ i # m /\ t[k] = s[i]
        BY <2>0
      <3>2. s[i] # c
        BY <1>1, <1>3, <3>1 DEF IsList
      <3>3. s[i] \in Processes /\ parent'[s[i]] = p
        BY <1>7, <1>9, <3>1, <3>2
      <3>4. next_sibling'[s[i]] = IF i + 1 = m THEN s[m + 1] ELSE s[i + 1]
        BY <1>10, <3>1
      <3>5. t[k + 1] = IF k + 1 < m THEN s[k + 1] ELSE s[k + 1 + 1]
        BY <2>0
      <3>6. next_sibling'[s[i]] = t[k + 1]
        <4>1. CASE k < m /\ k + 1 = m
          <5>1. i = k /\ k + 1 + 1 = m + 1 /\ ~ (k + 1 < m)
            BY <4>1
          <5> QED
            BY <3>4, <3>5, <4>1, <5>1
        <4>2. CASE k < m /\ k + 1 # m
          <5>1. i = k /\ k + 1 < m
            BY <4>2
          <5> QED
            BY <3>4, <3>5, <4>2, <5>1
        <4>3. CASE ~ (k < m)
          <5>1. i = k + 1 /\ i + 1 = k + 1 + 1 /\ i + 1 # m /\ ~ (k + 1 < m)
            BY <4>3
          <5> HIDE DEF i
          <5> QED
            BY <3>4, <3>5, <5>1
        <4> QED
          BY <4>1, <4>2, <4>3
      <3> QED
        BY <3>1, <3>3, <3>6
    <2>4. ASSUME NEW j \in 0 .. len - 1 - 1, NEW k \in 0 .. len - 1 - 1, t[j] = t[k]
          PROVE  j = k
      <3> DEFINE I(x) == IF x < m THEN x ELSE x + 1
      <3>1. /\ I(j) \in 0 .. len - 1 /\ t[j] = s[I(j)]
            /\ I(k) \in 0 .. len - 1 /\ t[k] = s[I(k)]
        BY <2>0
      <3>2. I(j) = I(k)
        BY <1>1, <2>4, <3>1 DEF IsList
      <3> QED
        BY <2>0, <3>2
    <2>5. ASSUME NEW x \in Processes, parent'[x] = p
          PROVE  \E k \in 0 .. len - 1 - 1 : t[k] = x
      <3>1. x # c /\ parent[x] = p
        BY <1>2, <1>7, <2>5
      <3>2. PICK i \in 0 .. len - 1 : s[i] = x
        BY <1>1, <3>1 DEF IsList
      <3>3. i # m
        BY <1>3, <3>1, <3>2
      <3>4. CASE i < m
        <4>1. i \in 0 .. len - 1 - 1 /\ t[i] = x
          BY <2>0, <3>2, <3>4
        <4> QED
          BY <4>1
      <3>5. CASE i > m
        <4>1. i - 1 \in 0 .. len - 1 - 1 /\ t[i - 1] = x
          BY <2>0, <3>2, <3>5
        <4> QED
          BY <4>1
      <3> QED
        BY <2>0, <3>3, <3>4, <3>5
    <2> HIDE DEF t
    <2>6. IsList(p, len - 1, t)'
      BY <2>2, <2>3, <2>4, <2>5 DEF IsList
    <2> QED
      BY <2>0, <2>1, <2>6 DEF HasList, Lists
  <1> HIDE DEF t
  <1>12. ASSUME NEW q \in Processes, q # p PROVE HasList(q)'
    <2>1. q # NULL
      BY ProcessesOK
    <2> QED
      BY <1>2, <1>7, <1>10, <1>12, <2>1, OtherList DEF TreeInv
  <1>13. RefCounts
    BY DEF TreeInv
  <1>14. ref_count[c] = 2
    BY <1>2, <1>13 DEF RefCounts
  <1>15. TreeTypeOK'
    <2>1. ref_count' \in [Processes -> Nat]
      BY <1>4, <1>6, <1>14 DEF TreeTypeOK, Less
    <2>2. parent' \in Pointers
      BY <1>4, <1>6 DEF TreeTypeOK, Pointers
    <2> QED
      BY <1>4, <1>6, <1>10, <2>1, <2>2 DEF TreeTypeOK
  <1>16. RefCounts'
    <2>1. SUFFICES ASSUME NEW x \in Processes
                   PROVE  ref_count'[x] =
                            IF parent'[x] # NULL /\ state'[parent'[x]] # "ZOMBIE" THEN 2 ELSE 1
      BY DEF RefCounts
    <2>2. ref_count[x] = IF parent[x] # NULL /\ state[parent[x]] # "ZOMBIE" THEN 2 ELSE 1
      BY <1>13 DEF RefCounts
    <2>3. CASE x = c
      BY <1>4, <1>6, <1>7, <1>14, <2>3 DEF TreeTypeOK, Less
    <2>4. CASE x # c
      BY <1>4, <1>6, <1>7, <2>2, <2>4 DEF TreeTypeOK
    <2> QED
      BY <2>3, <2>4
  <1> QED
    BY <1>11, <1>12, <1>15, <1>16 DEF TreeInv

\* A process that dies leaves the lists as they are and gives back one reference
\* of each of its children.
LEMMA LeaveKeeps ==
  ASSUME TreeInv, NEW p \in Processes, CanDie(p), LeaveChildren(p)
  PROVE  /\ TreeInv'
         /\ state' = [state EXCEPT ![p] = "ZOMBIE"]
  <1>1. Visited(p) = Children(p)
    BY VisitedOf
  <1>2. TreeTypeOK /\ RefCounts
    BY DEF TreeInv
  <1>3. /\ ref_count' = [c \in Processes |->
             IF c \in Children(p) THEN Less(ref_count[c]) ELSE ref_count[c]]
        /\ UNCHANGED <<first_child, next_sibling, parent>>
    BY <1>1 DEF LeaveChildren
  <1>4. p # NULL /\ state[p] # "ZOMBIE"
    BY ProcessesOK DEF CanDie
  <1>5. \A c \in Processes :
          /\ c \in Children(p) <=> parent[c] = p
          /\ c \in Children(p) => ref_count[c] = 2 /\ ref_count'[c] = 1
          /\ c \notin Children(p) => ref_count'[c] = ref_count[c]
          /\ ref_count'[c] \in {1, 2}
    BY <1>2, <1>3, <1>4 DEF Children, RefCounts, Less
  <1>6. state' = [state EXCEPT ![p] = "ZOMBIE"]
    <2>1. [c \in Processes |->
             IF c \in Visited(p) /\ ref_count'[c] = 0 /\ state[c] # "ZOMBIE"
             THEN "KILL_PENDING" ELSE state[c]] = state
      BY <1>2, <1>5 DEF TreeTypeOK
    <2> QED
      BY <2>1 DEF LeaveChildren
  <1>7. TreeTypeOK'
    BY <1>2, <1>3, <1>5, <1>6 DEF TreeTypeOK, Pointers
  <1>8. RefCounts'
    <2>1. SUFFICES ASSUME NEW x \in Processes
                   PROVE  ref_count'[x] =
                            IF parent[x] # NULL /\ state'[parent[x]] # "ZOMBIE" THEN 2 ELSE 1
      BY <1>3 DEF RefCounts
    <2>2. parent[x] # NULL => parent[x] \in Processes
      BY <1>2 DEF TreeTypeOK, Pointers
    <2>3. CASE parent[x] = p
      BY <1>2, <1>4, <1>5, <1>6, <2>3 DEF TreeTypeOK
    <2>4. CASE parent[x] # p
      BY <1>2, <1>5, <1>6, <2>2, <2>4 DEF TreeTypeOK, RefCounts
    <2> QED
      BY <2>3, <2>4
  <1>9. ASSUME NEW q \in Processes PROVE HasList(q)'
    BY <1>3, OtherList DEF TreeInv
  <1> QED
    BY <1>6, <1>7, <1>8, <1>9 DEF TreeInv

LEMMA TreeStutters ==
  ASSUME TreeInv, UNCHANGED treeVars
  PROVE  TreeInv'
  <1>1. ASSUME NEW q \in Processes PROVE HasList(q)'
    BY OtherList DEF TreeInv, treeVars
  <1> QED
    BY <1>1 DEF treeVars, TreeInv, TreeTypeOK, Pointers, RefCounts

LEMMA RuledCallKeeps ==
  ASSUME TreeInv, RuledCall
  PROVE  TreeInv' /\ state' = state
  <1>1. ASSUME NEW p \in Processes, NEW c \in Processes, CanAttach(p, c), addChild(p, c)
        PROVE  TreeInv' /\ state' = state
    BY <1>1, AttachKeeps DEF addChild, treeVars
  <1>2. ASSUME NEW p \in Processes, NEW c \in Processes, CanDetach(p, c), removeChild(p, c)
        PROVE  TreeInv' /\ state' = state
    BY <1>2, DetachKeeps DEF removeChild, treeVars
  <1> QED
    BY <1>1, <1>2 DEF RuledCall

LEMMA TreeInitInv == TreeInit => TreeInv
  <1> SUFFICES ASSUME TreeInit PROVE TreeInv
    OBVIOUS
  <1>1. TreeTypeOK
    BY DEF TreeInit, Constructed, TreeTypeOK, Pointers
  <1>2. RefCounts
    BY DEF TreeInit, Constructed, RefCounts
  <1>3. ASSUME NEW p \in Processes PROVE HasList(p)
    <2> DEFINE s == [k \in 0 .. 0 |-> NULL]
    <2>1. s \in Lists(0) /\ s[0] = NULL
      BY DEF Lists
    <2>2. \A c \in Processes : parent[c] # p
      BY ProcessesOK DEF TreeInit
    <2>3. first_child[p] = NULL
      BY DEF TreeInit
    <2>4. 0 .. 0 - 1 = {}
      OBVIOUS
    <2> HIDE DEF s
    <2>5. IsList(p, 0, s)
      BY <2>1, <2>2, <2>3, <2>4 DEF IsList
    <2> QED
      BY <2>1, <2>5 DEF HasList
  <1> QED
    BY <1>1, <1>2, <1>3 DEF TreeInv

LEMMA ListsRight == TreeInv => ListIsChildren /\ RefCounts
  BY VisitedOf DEF ListIsChildren, TreeInv

LEMMA RuledStep == TreeInv /\ [RuledNext]_treeVars => TreeInv'
  <1> SUFFICES ASSUME TreeInv, [RuledNext]_treeVars PROVE TreeInv'
    OBVIOUS
  <1>1. CASE RuledCall
    BY <1>1, RuledCallKeeps
  <1>2. ASSUME NEW p \in Processes, CanDie(p), LeaveChildren(p) PROVE TreeInv'
    BY <1>2, LeaveKeeps
  <1>3. CASE UNCHANGED treeVars
    BY <1>3, TreeStutters
  <1> QED
    BY <1>1, <1>2, <1>3 DEF RuledNext

LEMMA TreeInvAlways == RuledSpec => []TreeInv
  BY TreeInitInv, RuledStep, PTL DEF RuledSpec

\* For a manager that attaches only what has no parent and no next_sibling, to a
\* process that lives, that takes a child from its parent only while the parent
\* lives, and that lets a process die once: the list of a living process is its
\* children, each once, and the loops along it end, wherever in the list a child
\* was taken out (Process.cpp:23-110 checks none of these rules).
THEOREM ListIsChildrenAlways == RuledSpec => []ListIsChildren
  BY TreeInvAlways, ListsRight, PTL

\* For a manager that keeps the same rules: a process counts its own reference and
\* that of a parent that lives, so that no reference is taken back twice
\* (Process.cpp:30-33, 50-70 and 96-103).
THEOREM RefCountsAlways == RuledSpec => []RefCounts
  BY TreeInvAlways, ListsRight, PTL

-----------------------------------------------------------------------------
(***************************************************************************)
(* The tasks and their blocks.                                             *)
(***************************************************************************)

\* The record of a task that has its block, which is page 1.
WithBlock(p) ==
  [sensor_addr |-> IF p \in Sensors THEN PAGE_SIZE ELSE 0,
   data_addr   |-> IF p \in Sensors THEN 0 ELSE PAGE_SIZE,
   initialized |-> TRUE]

Recorded(p) == proc_mem[p] = NoBlock \/ (proc_mem[p] = WithBlock(p) /\ 1 \in LPs)

Records == \A p \in Pids : Recorded(p)

\* The first n pages of p are mapped, and no other.
Holds(p, n) == \A l \in LPs : Mapped(p, l) <=> l < n

Bare(p) == Holds(p, 0) \/ Holds(p, 1)

Full(p) == Holds(p, 2) /\ 1 \in LPs

\* What p has mapped is what its record says.
Settled(p) ==
  \/ proc_mem[p] = NoBlock /\ Bare(p)
  \/ proc_mem[p] = WithBlock(p) /\ Full(p)

\* pagedMalloc looks for a page behind those that are mapped, or undoes it.
Allocating(p) ==
  /\ call.op = "pagedMalloc" /\ call.pid = p
  /\ call.n = 1 /\ call.start \in {0, 1}
  /\ call.pc = "malloc" \/ (call.pc = "undo" /\ call.i = 0)

\* pagedFree takes page 1 back.
Freeing(p) ==
  /\ call.op = "pagedFree" /\ call.pid = p
  /\ call.pc = "free" /\ call.start = 1 /\ call.i = 1

\* What pagedMalloc has told p.
Told(p) == (ret.val = 0 /\ Bare(p)) \/ (ret.val = PAGE_SIZE /\ Full(p))

Freed(p) == (Idle /\ Bare(p)) \/ Freeing(p)

TurnAt(p) ==
  CASE turn.at = "loop"     -> Idle /\ Settled(p)
    [] turn.at = "use"      -> Idle /\ Settled(p) /\ proc_mem[p] = WithBlock(p)
    [] turn.at = "malloc"   -> proc_mem[p] = NoBlock /\ ((Idle /\ Told(p)) \/ Allocating(p))
    [] turn.at = "sensor"   -> Idle /\ Settled(p)
    [] turn.at = "data"     -> IF p \in Sensors THEN Freed(p) ELSE Idle /\ Settled(p)
    [] turn.at = "reset"    -> Freed(p)
    [] turn.at = "children" -> Idle /\ Settled(p) /\ (p \in Cleaned => proc_mem[p] = NoBlock)

Turns == [pid : Pids,
          at : {"loop", "malloc", "use", "sensor", "data", "reset", "children"}]

\* A process is dead only when its death is over, and cleaned up then.
Deaths ==
  /\ turn.at # "loop" => state[turn.pid] # "ZOMBIE"
  /\ turn.at \in {"sensor", "data", "reset"} => turn.pid \in Cleaned
  /\ \A p \in Cleaned : state[p] = "ZOMBIE" => proc_mem[p] = NoBlock

BlockInv ==
  /\ StackInv
  /\ turn \in Turns
  /\ proc_mem \in [Pids -> [sensor_addr : Nat, data_addr : Nat, initialized : BOOLEAN]]
  /\ Records
  /\ \A p \in Pids : p # turn.pid => Settled(p)
  /\ TurnAt(turn.pid)

SketchInv == TreeInv /\ BlockInv /\ Deaths

-----------------------------------------------------------------------------
(***************************************************************************)
(* Sizes and addresses.                                                    *)
(***************************************************************************)

LEMMA PageOK ==
  PAGE_SIZE \in Nat /\ PAGE_SIZE >= 64 /\ MAX_PAGES_PER_PROC \in Nat
  BY ConstantsOK, SketchConstantsOK DEF LoggerSize

\* The block of a task is one page.
LEMMA OnePage ==
  ASSUME NEW p \in Pids
  PROVE  TaskSize(p) \in Nat /\ PagesNeeded(TaskSize(p)) = 1
  <1>1. TaskSize(p) \in 1 .. PAGE_SIZE
    BY PageOK DEF TaskSize, SensorSize, LoggerSize
  <1>2. ASSUME NEW n \in 1 .. PAGE_SIZE PROVE (n + PAGE_SIZE - 1) \div PAGE_SIZE = 1
    BY PageOK
  <1> QED
    BY <1>1, <1>2 DEF PagesNeeded

\* The addresses from PAGE_SIZE on are of page 1.
LEMMA PageOfBlock ==
  ASSUME 1 \in LPs, NEW a \in PAGE_SIZE .. 2 * PAGE_SIZE - 1
  PROVE  LogicalPage(a) = 1
  <1>1. a \div PAGE_SIZE = 1
    BY PageOK
  <1>2. PAGE_NUMBERS \in Nat /\ 1 < PAGE_NUMBERS
    BY PageOK, ConstantsOK, SketchConstantsOK DEF LPs
  <1>3. 1 % PAGE_NUMBERS = 1
    BY <1>2
  <1> QED
    BY <1>1, <1>3 DEF LogicalPage

-----------------------------------------------------------------------------
(***************************************************************************)
(* What the calls of the allocator do.                                     *)
(***************************************************************************)

LEMMA TablesKept ==
  ASSUME PagedInv, UNCHANGED <<phys_pages, page_table>>, TypeOK'
  PROVE  PagedInv'
  BY DEF PagedInv, FreeIffUnreferenced, Isolation, OwnerMatches, PagedRefCount, Mappers

LEMMA HoldsKept ==
  ASSUME NEW p \in Pids, page_table'[p] = page_table[p]
  PROVE  \A n : Holds(p, n)' = Holds(p, n)
  BY DEF Holds, Mapped

\* pagedMalloc gives up, or takes the page behind the mapped ones.
LEMMA TaskMalloc ==
  ASSUME StackInv, NEW p \in Pids, Bare(p), pagedMalloc(p, TaskSize(p))
  PROVE  /\ StackInv' /\ page_table' = page_table
         /\ (Idle' /\ ret'.val = 0) \/ Allocating(p)'
  <1>1. TaskSize(p) \in Nat /\ PagesNeeded(TaskSize(p)) = 1
    BY OnePage
  <1>2. p \in AnyPid
    BY ConstantsOK DEF Pids, AnyPid
  <1>3. Idle /\ EnterMalloc("pagedMalloc", p, TaskSize(p), 0, 0)
    BY DEF pagedMalloc
  <1>4. TypeOK'
    BY <1>1, <1>2, <1>3, EnterMallocType DEF StackInv, PagedInv
  <1>5. Stack'
    BY <1>1, <1>3, IdleStack, EnterMallocStack DEF StackInv
  <1>6. UNCHANGED <<phys_pages, page_table>>
    BY <1>3 DEF EnterMalloc
  <1>7. ASSUME Return("pagedMalloc", p, 0) PROVE Idle' /\ ret'.val = 0
    BY <1>7 DEF Return, Idle, NoCall
  <1>8. ASSUME NEW s \in FirstFit(p, TaskSize(p)),
               call' = [pc |-> "malloc", op |-> "pagedMalloc", pid |-> p, start |-> s,
                        n |-> PagesNeeded(TaskSize(p)), i |-> 0, j |-> 0,
                        old |-> 0, len |-> 0, new |-> 0]
        PROVE  Allocating(p)'
    <2>1. s \in LPs /\ \A l \in LPs : Mapped(p, l) <=> l < s
      BY <1>1, <1>3, FirstFitOK, FirstFitEnd, IdleStack DEF StackInv
    <2>2. s \in {0, 1}
      <3>1. CASE Holds(p, 0)
        <4>1. 0 \in LPs
          BY ConstantsOK DEF LPs
        <4> QED
          BY <2>1, <3>1, <4>1 DEF Holds, LPs
      <3>2. CASE Holds(p, 1)
        <4>1. 1 \in LPs => ~ Mapped(p, 1)
          BY <3>2 DEF Holds
        <4>2. s > 1 => 1 \in LPs
          BY <2>1, PageOK DEF LPs
        <4> QED
          BY <2>1, <4>1, <4>2 DEF LPs
      <3> QED
        BY <3>1, <3>2 DEF Bare
    <2> QED
      BY <1>1, <1>8, <2>2 DEF Allocating
  <1> QED
    BY <1>3, <1>4, <1>5, <1>6, <1>7, <1>8, TablesKept DEF EnterMalloc, StackInv

\* pagedFree of the block finds page 1.
LEMMA TaskFree ==
  ASSUME StackInv, NEW p \in Pids, Full(p), pagedFree(p, PAGE_SIZE)
  PROVE  StackInv' /\ page_table' = page_table /\ Freeing(p)'
  <1>1. PAGE_SIZE \in Nat /\ PAGE_SIZE # 0 /\ LogicalPage(PAGE_SIZE) = 1
    BY PageOK, PageOfBlock DEF Full
  <1>2. p \in AnyPid
    BY ConstantsOK DEF Pids, AnyPid
  <1>3. Idle /\ EnterFree("pagedFree", p, PAGE_SIZE, 0)
    BY DEF pagedFree
  <1>4. TypeOK'
    BY <1>1, <1>2, <1>3, EnterFreeType DEF StackInv, PagedInv
  <1>5. Stack'
    BY <1>1, <1>3, IdleStack, EnterFreeStack DEF StackInv
  <1>6. UNCHANGED <<phys_pages, page_table>>
    BY <1>3 DEF EnterFree
  <1>7. FreedRun(p, PAGE_SIZE) = MappedRun(p, 1)
    BY <1>1 DEF FreedRun
  <1>8. 1 \in MappedRun(p, 1)
    <2>1. 1 \in 1 .. MAX_PAGES_PER_PROC - 1
      BY PageOK DEF Full, LPs
    <2>2. \A lp \in 1 .. 1 + 1 - 1 : page_table[p][lp] # Unmapped
      BY DEF Full, Holds, Mapped
    <2>3. 1 + 1 < MAX_PAGES_PER_PROC => page_table[p][1 + 1] = Unmapped
      BY PageOK DEF Full, Holds, Mapped, LPs
    <2> QED
      BY <2>1, <2>2, <2>3 DEF MappedRun
  <1>9. \A c \in MappedRun(p, 1) : c = 1
    <2> TAKE c \in MappedRun(p, 1)
    <2>1. c \in Nat \ {0} /\ 1 + c <= MAX_PAGES_PER_PROC
      BY MappedRunOK
    <2>2. \A l \in LPs : Mapped(p, l) <=> l < 1 + c
      BY <1>3, IdleStack, MappedRunEnd DEF StackInv
    <2>3. c >= 2 => 2 \in LPs
      BY <2>1, PageOK DEF LPs
    <2> QED
      BY <2>1, <2>2, <2>3 DEF Full, Holds
  <1>10. PICK c \in MappedRun(p, 1) :
           call' = [NoCall EXCEPT !.pc = "free", !.op = "pagedFree", !.pid = p,
                      !.start = LogicalPage(PAGE_SIZE), !.i = c, !.new = 0]
    BY <1>3, <1>7, <1>8 DEF EnterFree
  <1>11. Freeing(p)'
    BY <1>1, <1>9, <1>10 DEF Freeing, NoCall
  <1> QED
    BY <1>4, <1>5, <1>6, <1>11, TablesKept DEF StackInv

\* A step of the allocator works on the table of the process that called it.
LEMMA StepTable ==
  ASSUME StackInv, Step, NEW p \in Pids, p # call.pid
  PROVE  page_table'[p] = page_table[p]
  <1>1. page_table \in [Pids -> [LPs -> Frames \cup {Unmapped}]]
    BY DEF StackInv, PagedInv, TypeOK, PageTables
  <1>2. ASSUME NEW f \in Frames, MallocPage(f) PROVE page_table'[p] = page_table[p]
    <2>1. page_table' = [page_table EXCEPT ![call.pid][call.start + call.i] = f]
      BY <1>2, MallocPageFacts DEF StackInv
    <2> QED
      BY <1>1, <2>1
  <1>3. CASE UnmapNext
    BY <1>1, <1>3 DEF UnmapNext, Unmap
  <1> QED
    BY <1>2, <1>3 DEF Step, MallocOutOfFrames, MallocReturns, UnmapReturns, CopyByte,
       CopyReturns, EnterFree

LEMMA StepStack ==
  ASSUME StackInv, Step
  PROVE  StackInv'
  BY PagedInvNext, StackStep DEF StackInv, PagedNext

\* A pagedMalloc in progress goes on, or returns what the task is told.
LEMMA AllocatingStep ==
  ASSUME StackInv, NEW p \in Pids, Allocating(p), Step
  PROVE  (Idle' /\ Told(p)') \/ Allocating(p)'
  <1>1. /\ call.pid = p /\ call.n = 1 /\ call.start \in {0, 1}
        /\ call.op = "pagedMalloc" /\ call \in Calls
        /\ call.pc \in {"malloc", "undo"} /\ ~ Idle
    BY DEF Allocating, StackInv, PagedInv, TypeOK, Idle
  <1>2. ASSUME NEW f \in Frames, MallocPage(f) PROVE Allocating(p)'
    BY <1>1, <1>2 DEF MallocPage, Allocating, Calls
  <1>3. CASE MallocOutOfFrames
    <2>1. call.i = 0 /\ call' = [call EXCEPT !.pc = "undo"]
      BY <1>1, <1>3 DEF MallocOutOfFrames, Calls
    <2> QED
      BY <1>1, <2>1 DEF Allocating, Calls
  <1>4. CASE MallocReturns
    <2>1. /\ call.pc = "malloc" /\ call.i = 1 /\ page_table' = page_table
          /\ Return("pagedMalloc", p, call.start * PAGE_SIZE)
      BY <1>1, <1>4 DEF MallocReturns
    <2>2. Holds(p, call.start + 1)
      BY <1>1, <2>1 DEF StackInv, Stack, Holds
    <2>3. \A n : Holds(p, n)' = Holds(p, n)
      BY <2>1, HoldsKept
    <2>4. Idle' /\ ret'.val = call.start * PAGE_SIZE
      BY <2>1 DEF Return, Idle, NoCall
    <2>5. CASE call.start = 0
      BY <2>2, <2>3, <2>4, <2>5, PageOK DEF Told, Bare
    <2>6. CASE call.start = 1
      <3>1. 1 \in LPs
        BY <1>1, <2>1, <2>6, LoopTypes, PageOK DEF LPs
      <3>2. 1 + 1 = 2 /\ 1 * PAGE_SIZE = PAGE_SIZE
        BY PageOK
      <3> QED
        BY <2>2, <2>3, <2>4, <2>6, <3>1, <3>2 DEF Told, Full
    <2> QED
      BY <1>1, <2>5, <2>6
  <1>5. CASE UnmapReturns
    <2>1. /\ call.pc = "undo" /\ call.i = 0 /\ call.j = 0 /\ page_table' = page_table
          /\ Return("pagedMalloc", p, 0)
      BY <1>1, <1>5 DEF UnmapReturns, Allocating
    <2>2. Holds(p, call.start)
      BY <1>1, <2>1 DEF StackInv, Stack, Holds, LPs
    <2>3. \A n : Holds(p, n)' = Holds(p, n)
      BY <2>1, HoldsKept
    <2> QED
      BY <1>1, <2>1, <2>2, <2>3 DEF Told, Bare, Return, Idle, NoCall
  <1>6. ~ UnmapNext
    <2>1. call.j \in Nat
      BY <1>1 DEF Calls
    <2> QED
      BY <1>1, <2>1 DEF Allocating, UnmapNext
  <1> QED
    BY <1>1, <1>2, <1>3, <1>4, <1>5, <1>6 DEF Step, CopyByte, CopyReturns

\* A pagedFree in progress goes on, or has left page 0 at most.
LEMMA FreeingStep ==
  ASSUME StackInv, NEW p \in Pids, Freeing(p), Step
  PROVE  Freed(p)'
  <1>1. /\ call.pid = p /\ call.start = 1 /\ call.i = 1
        /\ call.op = "pagedFree" /\ call.pc = "free" /\ call \in Calls
    BY DEF Freeing, StackInv, PagedInv, TypeOK
  <1>2. CASE UnmapNext
    BY <1>1, <1>2 DEF UnmapNext, Freed, Freeing, Calls
  <1>3. CASE UnmapReturns
    <2>1. call.j = 1 /\ page_table' = page_table /\ call' = NoCall
      BY <1>1, <1>3 DEF UnmapReturns, Return
    <2>2. Holds(p, 1)
      BY <1>1, <2>1 DEF StackInv, Stack, Holds, LPs
    <2>3. \A n : Holds(p, n)' = Holds(p, n)
      BY <2>1, HoldsKept
    <2> QED
      BY <2>1, <2>2, <2>3 DEF Freed, Bare, Idle, NoCall
  <1> QED
    BY <1>1, <1>2, <1>3 DEF Step, MallocPage, MallocOutOfFrames, MallocReturns, CopyByte,
       CopyReturns

-----------------------------------------------------------------------------
(***************************************************************************)
(* The turns.                                                              *)
(***************************************************************************)

LEMMA SettledKept ==
  ASSUME NEW p \in Pids, page_table'[p] = page_table[p]
  PROVE  /\ Bare(p)' <=> Bare(p)
         /\ Full(p)' <=> Full(p)
         /\ proc_mem'[p] = proc_mem[p] => (Settled(p)' <=> Settled(p))
  <1>1. Bare(p)' <=> Bare(p)
    BY HoldsKept DEF Bare
  <1>2. Full(p)' <=> Full(p)
    BY HoldsKept DEF Full
  <1>3. WithBlock(p)' = WithBlock(p)
    BY DEF WithBlock
  <1> QED
    BY <1>1, <1>2, <1>3 DEF Settled

\* Between two calls the tables are left alone; the answer may be forgotten.
LEMMA AnswerKeeps ==
  ASSUME StackInv, UNCHANGED <<phys_pages, page_table, call>>, ret' = ret \/ ret' = NoRet
  PROVE  StackInv'
  <1>1. ret' \in [op : Functions, pid : AnyPid, val : Int]
    BY ConstantsOK DEF StackInv, PagedInv, TypeOK, NoRet, Functions, AnyPid
  <1>2. TypeOK'
    BY <1>1 DEF StackInv, PagedInv, TypeOK, LoopOK
  <1>3. Stack'
    BY DEF StackInv, Stack, Busy, Prefix, Mapped, OldBelow, Idle
  <1> QED
    BY <1>2, <1>3, TablesKept DEF StackInv

\* What an action has to show that leaves the records of the blocks alone.
LEMMA BlocksKept ==
  ASSUME BlockInv, StackInv', turn' \in Turns, proc_mem' = proc_mem,
         \A q \in Pids : q # turn'.pid => Settled(q) /\ page_table'[q] = page_table[q],
         TurnAt(turn.pid)'
  PROVE  BlockInv'
  <1>1. Records'
    BY DEF BlockInv, Records, Recorded, WithBlock
  <1>2. \A q \in Pids : q # turn'.pid => Settled(q)'
    BY SettledKept
  <1> QED
    BY <1>1, <1>2 DEF BlockInv

\* loop() has all processes settled.
LEMMA LoopSettled ==
  ASSUME BlockInv, turn.at = "loop"
  PROVE  Idle /\ \A p \in Pids : Settled(p)
  BY DEF BlockInv, TurnAt, Turns

LEMMA RunTaskKeeps ==
  ASSUME BlockInv, Deaths, NEW p \in Pids, RunTask(p)
  PROVE  BlockInv' /\ Deaths'
  <1>1. /\ \A q \in Pids : Settled(q)
        /\ StackInv /\ proc_mem' = proc_mem /\ state' = state
        /\ Idle /\ state[p] # "ZOMBIE"
    BY LoopSettled DEF RunTask, At, treeVars, BlockInv
  <1>2. proc_mem[p] = NoBlock \/ proc_mem[p] = WithBlock(p)
    BY DEF BlockInv, Records, Recorded
  <1>3. CASE proc_mem[p].initialized
    <2>1. turn' = [pid |-> p, at |-> "use"] /\ UNCHANGED vars
      BY <1>3 DEF RunTask
    <2>2. proc_mem[p] = WithBlock(p) /\ WithBlock(p)' = WithBlock(p)
      BY <1>2, <1>3 DEF NoBlock, WithBlock
    <2>3. StackInv' /\ Idle' /\ Settled(p)'
      BY <1>1, <2>1, AnswerKeeps, SettledKept DEF vars, Idle
    <2>4. TurnAt(turn.pid)'
      BY <1>1, <2>1, <2>2, <2>3 DEF TurnAt
    <2>5. BlockInv'
      BY <1>1, <2>1, <2>3, <2>4, BlocksKept DEF vars, Turns
    <2> QED
      BY <1>1, <2>1, <2>5 DEF Deaths
  <1>4. CASE ~ proc_mem[p].initialized
    <2>1. turn' = [pid |-> p, at |-> "malloc"] /\ pagedMalloc(p, TaskSize(p))
      BY <1>4 DEF RunTask
    <2>2. proc_mem[p] = NoBlock /\ Bare(p)
      BY <1>1, <1>2, <1>4 DEF NoBlock, WithBlock, Settled
    <2>3. StackInv' /\ page_table' = page_table /\ ((Idle' /\ ret'.val = 0) \/ Allocating(p)')
      BY <1>1, <2>1, <2>2, TaskMalloc
    <2>4. (Idle /\ Told(p))' \/ Allocating(p)'
      BY <2>2, <2>3, SettledKept DEF Told
    <2>5. TurnAt(turn.pid)'
      BY <1>1, <2>1, <2>2, <2>4 DEF TurnAt
    <2>6. BlockInv'
      BY <1>1, <2>1, <2>3, <2>5, BlocksKept DEF Turns
    <2> QED
      BY <1>1, <2>1, <2>6 DEF Deaths
  <1> QED
    BY <1>3, <1>4

LEMMA TaskHasBlockKeeps ==
  ASSUME BlockInv, Deaths, TaskHasBlock
  PROVE  BlockInv' /\ Deaths'
  <1> DEFINE p == turn.pid
  <1>1. /\ p \in Pids /\ turn.at = "malloc" /\ Idle
        /\ StackInv /\ proc_mem[p] = NoBlock /\ Told(p)
        /\ \A q \in Pids : q # p => Settled(q)
        /\ DOMAIN proc_mem = Pids /\ turn \in Turns
    BY DEF TaskHasBlock, At, BlockInv, Turns, TurnAt, Allocating, Idle
  <1>2. StackInv' /\ Idle' /\ page_table' = page_table /\ state' = state
    BY <1>1, AnswerKeeps DEF TaskHasBlock, AnswerTaken, Idle, treeVars
  <1>3. proc_mem' = [proc_mem EXCEPT ![p] =
          IF ret.val = 0 THEN NoBlock ELSE WithBlock(p)]
    <2>1. proc_mem[p] = [sensor_addr |-> 0, data_addr |-> 0, initialized |-> FALSE]
      BY <1>1 DEF NoBlock
    <2>2. ret.val \in {0, PAGE_SIZE} /\ PAGE_SIZE # 0
      BY <1>1, PageOK DEF Told
    <2>3. proc_mem' = [proc_mem EXCEPT ![p] =
            [sensor_addr |-> IF p \in Sensors THEN ret.val ELSE 0,
             data_addr |-> IF p \in Sensors THEN 0 ELSE ret.val,
             initialized |-> ret.val # 0]]
      <3>1. \E addr, ok : addr = ret.val /\ ok = (ret.val # 0)
        OBVIOUS
      <3>2. PICK addr, ok : addr = ret.val /\ ok = (ret.val # 0)
        BY <3>1
      <3>3. proc_mem' = [proc_mem EXCEPT
              ![p].sensor_addr = IF p \in Sensors THEN addr ELSE @,
              ![p].data_addr   = IF p \in Sensors THEN @ ELSE addr,
              ![p].initialized = ok]
        BY <3>2 DEF TaskHasBlock
      <3>4. proc_mem' = [proc_mem EXCEPT ![p] =
              [sensor_addr |-> IF p \in Sensors THEN addr ELSE 0,
               data_addr |-> IF p \in Sensors THEN 0 ELSE addr,
               initialized |-> ok]]
        <4>1. proc_mem \in [Pids -> [sensor_addr : Nat, data_addr : Nat, initialized : BOOLEAN]]
          BY DEF BlockInv
        <4>2. ASSUME NEW q \in Pids, q # p PROVE proc_mem'[q] = proc_mem[q]
          BY <1>1, <3>3, <4>1, <4>2
        <4> DEFINE r == [sensor_addr |-> IF p \in Sensors THEN addr ELSE 0,
                         data_addr |-> IF p \in Sensors THEN 0 ELSE addr,
                         initialized |-> ok]
        <4>3. \E b, c : b = proc_mem[p] /\ c = proc_mem'[p]
          OBVIOUS
        <4>4. PICK b, c : b = proc_mem[p] /\ c = proc_mem'[p]
          BY <4>3
        <4>5. b = NoBlock
          BY <1>1, <4>4
        <4>6. ASSUME p \in Sensors PROVE proc_mem'[p] = r
          <5>1. c = [[[b EXCEPT !.sensor_addr = addr] EXCEPT !.data_addr = b.data_addr]
                       EXCEPT !.initialized = ok]
            BY <1>1, <3>3, <4>1, <4>4, <4>6
          <5>2. c = [sensor_addr |-> addr, data_addr |-> 0, initialized |-> ok]
            BY <4>5, <5>1 DEF NoBlock
          <5> QED
            BY <4>4, <4>6, <5>2
        <4>7. ASSUME p \notin Sensors PROVE proc_mem'[p] = r
          <5>1. c = [[[b EXCEPT !.sensor_addr = b.sensor_addr] EXCEPT !.data_addr = addr]
                       EXCEPT !.initialized = ok]
            BY <1>1, <3>3, <4>1, <4>4, <4>7
          <5>2. c = [sensor_addr |-> 0, data_addr |-> addr, initialized |-> ok]
            BY <4>5, <5>1 DEF NoBlock
          <5> QED
            BY <4>4, <4>7, <5>2
        <4>8. proc_mem' = [q \in Pids |-> proc_mem'[q]]
          BY <3>3, <4>1
        <4>9. [proc_mem EXCEPT ![p] = r] = [q \in Pids |-> IF q = p THEN r ELSE proc_mem[q]]
          BY <4>1
        <4>10. proc_mem'[p] = r
          BY <4>6, <4>7
        <4> HIDE DEF r
        <4>11. proc_mem' = [proc_mem EXCEPT ![p] = r]
          BY <4>2, <4>8, <4>9, <4>10
        <4> QED
          BY <4>11 DEF r
      <3> QED
        BY <3>2, <3>4
    <2> QED
      BY <2>2, <2>3 DEF NoBlock, WithBlock
  <1>4. ASSUME NEW q \in Pids PROVE Settled(q)' /\ Recorded(q)'
    <2>1. CASE q = p
      BY <1>1, <1>2, <1>3, <2>1, SettledKept, PageOK DEF Settled, Told, WithBlock, Recorded, Full
    <2>2. CASE q # p
      BY <1>1, <1>2, <1>3, <2>2, SettledKept DEF BlockInv, Records, Recorded
    <2> QED
      BY <2>1, <2>2
  <1>5. proc_mem' \in [Pids -> [sensor_addr : Nat, data_addr : Nat, initialized : BOOLEAN]]
    <2>1. NoBlock \in [sensor_addr : Nat, data_addr : Nat, initialized : BOOLEAN]
      BY DEF NoBlock
    <2>2. WithBlock(p) \in [sensor_addr : Nat, data_addr : Nat, initialized : BOOLEAN]
      BY PageOK DEF WithBlock
    <2> QED
      BY <1>1, <1>3, <2>1, <2>2 DEF BlockInv
  <1>6. turn' \in Turns /\ TurnAt(turn.pid)'
    <2>1. CASE ret.val = 0
      <3>1. turn' = [pid |-> 0, at |-> "loop"] /\ 0 \in Pids
        BY <2>1, ConstantsOK DEF TaskHasBlock, NoTurn, Pids
      <3> QED
        BY <1>2, <1>4, <3>1 DEF TurnAt, Turns
    <2>2. CASE ret.val # 0
      <3>1. turn' = [pid |-> p, at |-> "use"]
        BY <1>1, <2>2 DEF TaskHasBlock, Turns
      <3> QED
        BY <1>1, <1>2, <1>3, <1>4, <2>2, <3>1 DEF TurnAt, Turns, WithBlock
    <2> QED
      BY <2>1, <2>2
  <1>7. BlockInv'
    BY <1>2, <1>4, <1>5, <1>6 DEF BlockInv, Records, Recorded, WithBlock
  <1>8. Deaths'
    <2>1. turn'.at # "loop" => turn'.pid = turn.pid /\ turn'.at = "use"
      BY <1>1 DEF TaskHasBlock, NoTurn, Turns
    <2>2. \A q \in Cleaned : state[q] = "ZOMBIE" => q # p
      BY <1>1 DEF Deaths
    <2>3. \A q \in Cleaned : state'[q] = "ZOMBIE" => proc_mem'[q] = NoBlock
      BY <1>1, <1>2, <1>3, <2>2, SketchConstantsOK DEF Deaths
    <2>4. turn.at # "loop"
      BY <1>1
    <2> QED
      BY <1>2, <2>1, <2>3, <2>4 DEF Deaths
  <1> QED
    BY <1>7, <1>8

LEMMA TaskUsesKeeps ==
  ASSUME BlockInv, Deaths, TaskUses
  PROVE  BlockInv' /\ Deaths'
  <1>1. /\ StackInv /\ \A q \in Pids : Settled(q)
        /\ Idle /\ turn' = [pid |-> 0, at |-> "loop"] /\ 0 \in Pids
        /\ proc_mem' = proc_mem /\ UNCHANGED vars /\ state' = state
    BY ConstantsOK DEF BlockInv, TurnAt, TaskUses, At, treeVars, NoTurn, Pids
  <1>2. StackInv' /\ Idle' /\ Settled(0)'
    BY <1>1, AnswerKeeps, SettledKept DEF vars, Idle
  <1>3. TurnAt(turn.pid)'
    BY <1>1, <1>2 DEF TurnAt
  <1> QED
    BY <1>1, <1>2, <1>3, BlocksKept DEF vars, Turns, Deaths

LEMMA DeathKeeps ==
  ASSUME BlockInv, Deaths, NEW p \in Pids, prepareForDeath(p)
  PROVE  BlockInv' /\ Deaths'
  <1> DEFINE where == IF p \in Cleaned THEN "sensor" ELSE "children"
  <1>1. /\ StackInv /\ Idle /\ \A q \in Pids : Settled(q)
        /\ turn' = [pid |-> p, at |-> where] /\ state[p] # "ZOMBIE"
        /\ proc_mem' = proc_mem /\ UNCHANGED vars /\ state' = state
    BY LoopSettled DEF prepareForDeath, At, CanDie, treeVars, BlockInv
  <1>2. StackInv' /\ Idle' /\ Settled(p)' /\ page_table' = page_table
    BY <1>1, AnswerKeeps, SettledKept DEF vars, Idle
  <1>3. TurnAt(turn.pid)'
    BY <1>1, <1>2 DEF TurnAt
  <1>4. BlockInv'
    BY <1>1, <1>2, <1>3, BlocksKept DEF Turns
  <1> QED
    BY <1>1, <1>4 DEF Deaths

\* pagedFree of the block, or nothing.
LEMMA CleanUpOne ==
  ASSUME StackInv, Idle, NEW p \in Pids, Settled(p), NEW addr,
         (addr = 0 /\ proc_mem[p] = NoBlock) \/ (addr = PAGE_SIZE /\ proc_mem[p] = WithBlock(p)),
         IF addr # 0 THEN pagedFree(p, addr) ELSE UNCHANGED vars
  PROVE  StackInv' /\ page_table' = page_table /\ Freed(p)'
  <1>1. CASE addr = 0
    <2>1. UNCHANGED vars /\ Bare(p)
      BY <1>1, PageOK DEF Settled, NoBlock, WithBlock
    <2> QED
      BY <2>1, AnswerKeeps, SettledKept DEF vars, Freed, Idle
  <1>2. CASE addr # 0
    <2>1. pagedFree(p, PAGE_SIZE) /\ Full(p)
      BY <1>2, PageOK DEF Settled, NoBlock, WithBlock
    <2> QED
      BY <2>1, TaskFree DEF Freed
  <1> QED
    BY <1>1, <1>2

LEMMA CleanUpSensorKeeps ==
  ASSUME BlockInv, Deaths, CleanUpSensor
  PROVE  BlockInv' /\ Deaths'
  <1> DEFINE p == turn.pid
             addr == proc_mem[p].sensor_addr
  <1>1. /\ p \in Pids /\ StackInv /\ Idle /\ Settled(p) /\ turn.at = "sensor"
        /\ \A q \in Pids : q # p => Settled(q)
        /\ turn' = [pid |-> p, at |-> "data"] /\ proc_mem' = proc_mem /\ state' = state
        /\ IF addr # 0 THEN pagedFree(p, addr) ELSE UNCHANGED vars
    BY DEF BlockInv, Turns, TurnAt, CleanUpSensor, CleanUp, At, Goto, treeVars
  <1>2. StackInv' /\ page_table' = page_table /\ TurnAt(turn.pid)'
    <2>1. CASE p \in Sensors
      <3>1. (addr = 0 /\ proc_mem[p] = NoBlock) \/ (addr = PAGE_SIZE /\ proc_mem[p] = WithBlock(p))
        <4>1. proc_mem[p] = NoBlock => addr = 0
          BY DEF NoBlock
        <4>2. proc_mem[p] = WithBlock(p) => addr = PAGE_SIZE
          BY <2>1 DEF WithBlock
        <4> QED
          BY <1>1, <4>1, <4>2 DEF Settled
      <3>2. StackInv' /\ page_table' = page_table /\ Freed(p)'
        BY <1>1, <3>1, CleanUpOne
      <3> QED
        BY <1>1, <2>1, <3>2 DEF TurnAt
    <2>2. CASE p \notin Sensors
      <3>1. addr = 0
        BY <1>1, <2>2 DEF Settled, NoBlock, WithBlock
      <3>2. UNCHANGED vars
        BY <1>1, <3>1
      <3>3. StackInv' /\ Idle' /\ Settled(p)'
        BY <1>1, <3>2, AnswerKeeps, SettledKept DEF vars, Idle
      <3> QED
        BY <1>1, <2>2, <3>2, <3>3 DEF TurnAt, vars
    <2> QED
      BY <2>1, <2>2
  <1>3. BlockInv'
    BY <1>1, <1>2, BlocksKept DEF Turns
  <1> QED
    BY <1>1, <1>3 DEF Deaths

LEMMA CleanUpDataKeeps ==
  ASSUME BlockInv, Deaths, CleanUpData
  PROVE  BlockInv' /\ Deaths'
  <1> DEFINE p == turn.pid
             addr == proc_mem[p].data_addr
  <1>1. /\ p \in Pids /\ StackInv /\ Idle /\ turn.at = "data"
        /\ IF p \in Sensors THEN Freed(p) ELSE Settled(p)
        /\ \A q \in Pids : q # p => Settled(q)
        /\ proc_mem[p] = NoBlock \/ proc_mem[p] = WithBlock(p)
        /\ turn' = [pid |-> p, at |-> "reset"] /\ proc_mem' = proc_mem /\ state' = state
        /\ IF addr # 0 THEN pagedFree(p, addr) ELSE UNCHANGED vars
    BY DEF BlockInv, Turns, TurnAt, CleanUpData, CleanUp, At, Goto, treeVars, Records, Recorded
  <1>2. StackInv' /\ page_table' = page_table /\ Freed(p)'
    <2>1. CASE p \notin Sensors
      <3>1. (addr = 0 /\ proc_mem[p] = NoBlock) \/ (addr = PAGE_SIZE /\ proc_mem[p] = WithBlock(p))
        <4>1. proc_mem[p] = NoBlock => addr = 0
          BY DEF NoBlock
        <4>2. proc_mem[p] = WithBlock(p) => addr = PAGE_SIZE
          BY <2>1 DEF WithBlock
        <4> QED
          BY <1>1, <4>1, <4>2 DEF Settled
      <3> QED
        BY <1>1, <2>1, <3>1, CleanUpOne
    <2>2. CASE p \in Sensors
      <3>1. addr = 0
        BY <1>1, <2>2 DEF NoBlock, WithBlock
      <3>2. UNCHANGED vars /\ Bare(p)
        BY <1>1, <2>2, <3>1 DEF Freed, Freeing, Idle
      <3> QED
        BY <1>1, <3>2, AnswerKeeps, SettledKept DEF vars, Idle, Freed
    <2> QED
      BY <2>1, <2>2
  <1>3. TurnAt(turn.pid)'
    BY <1>1, <1>2 DEF TurnAt
  <1>4. BlockInv'
    BY <1>1, <1>2, <1>3, BlocksKept DEF Turns
  <1> QED
    BY <1>1, <1>4 DEF Deaths

LEMMA CleanUpReturnsKeeps ==
  ASSUME BlockInv, Deaths, CleanUpReturns
  PROVE  BlockInv' /\ Deaths'
  <1> DEFINE p == turn.pid
  <1>1. /\ p \in Pids /\ turn.at = "reset" /\ Idle /\ StackInv /\ Bare(p)
        /\ \A q \in Pids : q # p => Settled(q)
        /\ proc_mem' = [proc_mem EXCEPT ![p] = NoBlock] /\ state' = state
        /\ turn' = [pid |-> p, at |-> "children"] /\ AnswerTaken
    BY DEF BlockInv, Turns, TurnAt, Freed, Freeing, Idle, CleanUpReturns, At, Goto, treeVars
  <1>2. StackInv' /\ Idle' /\ page_table' = page_table
    BY <1>1, AnswerKeeps DEF AnswerTaken, Idle
  <1>3. NoBlock \in [sensor_addr : Nat, data_addr : Nat, initialized : BOOLEAN]
    BY DEF NoBlock
  <1>4. proc_mem' \in [Pids -> [sensor_addr : Nat, data_addr : Nat, initialized : BOOLEAN]]
    BY <1>1, <1>3 DEF BlockInv
  <1>5. proc_mem'[p] = NoBlock /\ \A q \in Pids : q # p => proc_mem'[q] = proc_mem[q]
    BY <1>1 DEF BlockInv
  <1>6. ASSUME NEW q \in Pids PROVE Settled(q)' /\ Recorded(q)'
    <2>1. CASE q = p
      BY <1>1, <1>2, <1>5, <2>1, SettledKept DEF Settled, Recorded
    <2>2. CASE q # p
      BY <1>1, <1>2, <1>5, <2>2, SettledKept DEF BlockInv, Records, Recorded
    <2> QED
      BY <2>1, <2>2
  <1>7. TurnAt(turn.pid)' /\ turn' \in Turns
    BY <1>1, <1>2, <1>5, <1>6 DEF TurnAt, Turns
  <1>8. BlockInv'
    BY <1>2, <1>4, <1>6, <1>7 DEF BlockInv, Records, Recorded, WithBlock
  <1>9. Deaths'
    BY <1>1, <1>5, SketchConstantsOK DEF Deaths
  <1> QED
    BY <1>8, <1>9

LEMMA DiesKeeps ==
  ASSUME SketchInv, Dies
  PROVE  SketchInv'
  <1> DEFINE p == turn.pid
  <1>1. /\ p \in Pids /\ turn.at = "children" /\ Idle /\ StackInv
        /\ \A q \in Pids : Settled(q)
        /\ p \in Cleaned => proc_mem[p] = NoBlock
        /\ turn' = [pid |-> 0, at |-> "loop"] /\ 0 \in Pids
        /\ proc_mem' = proc_mem /\ UNCHANGED vars
    BY ConstantsOK DEF SketchInv, BlockInv, Turns, TurnAt, Dies, At, NoTurn, Pids
  <1>2. TreeInv' /\ state' = [state EXCEPT ![p] = "ZOMBIE"]
    <2>1. CanDie(p)
      BY <1>1 DEF SketchInv, Deaths, CanDie
    <2> QED
      BY <1>1, <2>1, LeaveKeeps, SketchConstantsOK DEF SketchInv, Dies
  <1>3. StackInv' /\ Idle' /\ Settled(0)' /\ page_table' = page_table
    BY <1>1, AnswerKeeps, SettledKept DEF vars, Idle
  <1>4. TurnAt(turn.pid)'
    BY <1>1, <1>3 DEF TurnAt
  <1>5. BlockInv'
    BY <1>1, <1>3, <1>4, BlocksKept DEF SketchInv, Turns
  <1>6. Deaths'
    <2>1. \A q \in Cleaned : q # p => state'[q] = state[q]
      BY <1>2, SketchConstantsOK DEF SketchInv, TreeInv, TreeTypeOK
    <2> QED
      BY <1>1, <2>1 DEF SketchInv, Deaths
  <1> QED
    BY <1>2, <1>5, <1>6 DEF SketchInv

\* An iteration of the allocator works for the task or the clean-up in progress.
LEMMA AllocatorStepKeeps ==
  ASSUME BlockInv, Deaths, AllocatorStep
  PROVE  BlockInv' /\ Deaths'
  <1> DEFINE p == turn.pid
  <1>1. /\ p \in Pids /\ StackInv /\ Step /\ turn' = turn /\ proc_mem' = proc_mem
        /\ state' = state
    BY DEF BlockInv, Turns, AllocatorStep, Step, treeVars
  <1>2. ~ Idle
    BY DEF AllocatorStep, Idle, MallocPage, MallocOutOfFrames, MallocReturns, UnmapNext,
       UnmapReturns
  <1>3. StackInv'
    BY <1>1, StepStack
  <1>4. TurnAt(p)' /\ call.pid = p
    <2>1. CASE turn.at = "malloc"
      <3>1. proc_mem[p] = NoBlock /\ Allocating(p)
        BY <1>2, <2>1 DEF BlockInv, TurnAt
      <3>2. (Idle' /\ Told(p)') \/ Allocating(p)'
        BY <1>1, <3>1, AllocatingStep
      <3> QED
        BY <1>1, <2>1, <3>1, <3>2 DEF TurnAt, Allocating
    <2>2. CASE turn.at \in {"data", "reset"}
      <3>1. Freeing(p) /\ (turn.at = "data" => p \in Sensors)
        BY <1>2, <2>2 DEF BlockInv, TurnAt, Freed
      <3>2. Freed(p)'
        BY <1>1, <3>1, FreeingStep
      <3> QED
        BY <1>1, <2>2, <3>1, <3>2 DEF TurnAt, Freeing
    <2> QED
      BY <1>2, <2>1, <2>2 DEF BlockInv, TurnAt, Turns
  <1>5. \A q \in Pids : q # p => Settled(q) /\ page_table'[q] = page_table[q]
    BY <1>1, <1>4, StepTable DEF BlockInv
  <1>6. BlockInv'
    BY <1>1, <1>3, <1>4, <1>5, BlocksKept DEF BlockInv
  <1>7. Deaths'
    BY <1>1 DEF Deaths
  <1> QED
    BY <1>6, <1>7

-----------------------------------------------------------------------------
(***************************************************************************)
(* The invariant and what follows from it.                                 *)
(***************************************************************************)

LEMMA SketchInitInv == SketchInit => SketchInv
  <1> SUFFICES ASSUME SketchInit PROVE SketchInv
    OBVIOUS
  <1>1. /\ StackInv /\ Idle /\ page_table = [p \in Pids |-> [lp \in LPs |-> Unmapped]]
    <2>1. Stack
      BY DEF SketchInit, Init, NoCall, Stack, Prefix, Mapped
    <2> QED
      BY <2>1, PagedInvInit DEF SketchInit, Init, StackInv, Idle, NoCall
  <1>2. TreeInv
    BY TreeInitInv DEF SketchInit
  <1>3. proc_mem = [p \in Pids |-> NoBlock] /\ turn = [pid |-> 0, at |-> "loop"] /\ 0 \in Pids
    BY ConstantsOK DEF SketchInit, NoTurn, Pids
  <1>4. \A p \in Pids : Settled(p)
    BY <1>1, <1>3 DEF Settled, Bare, Holds, Mapped, LPs
  <1>5. NoBlock \in [sensor_addr : Nat, data_addr : Nat, initialized : BOOLEAN]
    BY DEF NoBlock
  <1>6. BlockInv
    BY <1>1, <1>3, <1>4, <1>5 DEF BlockInv, Records, Recorded, Turns, TurnAt
  <1>7. Deaths
    BY <1>3, SketchConstantsOK DEF Deaths
  <1> QED
    BY <1>2, <1>6, <1>7 DEF SketchInv

LEMMA SketchStep == SketchInv /\ [SketchNext]_sketchVars => SketchInv'
  <1> SUFFICES ASSUME SketchInv, [SketchNext]_sketchVars PROVE SketchInv'
    OBVIOUS
  <1>1. BlockInv /\ Deaths /\ TreeInv
    BY DEF SketchInv
  <1>2. ASSUME BlockInv', Deaths', UNCHANGED treeVars PROVE SketchInv'
    BY <1>1, <1>2, TreeStutters DEF SketchInv
  <1>3. ASSUME UNCHANGED <<vars, proc_mem, turn>> PROVE BlockInv'
    <2>1. StackInv'
      BY <1>1, <1>3, AnswerKeeps DEF vars, BlockInv
    <2> QED
      BY <1>1, <1>3, <2>1 DEF vars, BlockInv, Records, Recorded, WithBlock, Settled, TurnAt, Bare, Full,
         Holds, Mapped, Idle, Told, Freed, Freeing, Allocating
  <1>4. ASSUME UNCHANGED sketchVars PROVE SketchInv'
    <2>1. BlockInv' /\ Deaths'
      BY <1>1, <1>3, <1>4 DEF sketchVars, Deaths, treeVars
    <2> QED
      BY <1>2, <1>4, <2>1 DEF sketchVars
  <1>5. ASSUME NEW p \in Pids, RunTask(p) PROVE SketchInv'
    BY <1>1, <1>2, <1>5, RunTaskKeeps DEF RunTask
  <1>6. ASSUME NEW p \in Pids, prepareForDeath(p) PROVE SketchInv'
    BY <1>1, <1>2, <1>6, DeathKeeps DEF prepareForDeath
  <1>7. CASE turn.at = "loop" /\ RuledCall /\ UNCHANGED <<vars, proc_mem, turn>>
    <2>1. TreeInv' /\ state' = state
      BY <1>1, <1>7, RuledCallKeeps
    <2>2. Deaths'
      BY <1>1, <1>7, <2>1 DEF Deaths
    <2> QED
      BY <1>3, <1>7, <2>1, <2>2 DEF SketchInv
  <1>8. CASE AllocatorStep
    BY <1>1, <1>2, <1>8, AllocatorStepKeeps DEF AllocatorStep
  <1>9. CASE TaskHasBlock
    BY <1>1, <1>2, <1>9, TaskHasBlockKeeps DEF TaskHasBlock
  <1>10. CASE TaskUses
    BY <1>1, <1>2, <1>10, TaskUsesKeeps DEF TaskUses
  <1>11. CASE CleanUpSensor
    BY <1>1, <1>2, <1>11, CleanUpSensorKeeps DEF CleanUpSensor, CleanUp
  <1>12. CASE CleanUpData
    BY <1>1, <1>2, <1>12, CleanUpDataKeeps DEF CleanUpData, CleanUp
  <1>13. CASE CleanUpReturns
    BY <1>1, <1>2, <1>13, CleanUpReturnsKeeps DEF CleanUpReturns
  <1>14. CASE Dies
    BY <1>14, DiesKeeps
  <1> QED
    BY <1>4, <1>5, <1>6, <1>7, <1>8, <1>9, <1>10, <1>11, <1>12, <1>13, <1>14
       DEF SketchNext, TurnStep, NothingToRun, At

LEMMA SketchInvAlways == SketchSpec => []SketchInv
  BY SketchInitInv, SketchStep, PTL DEF SketchSpec

\* What a process with these pages has mapped.
LEMMA MappedPages ==
  ASSUME NEW p \in Pids
  PROVE  /\ Bare(p) => MappedOf(p) \subseteq {0} /\ 1 \notin MappedOf(p)
         /\ Full(p) => MappedOf(p) = {0, 1}
  <1>1. \A l : l \in MappedOf(p) <=> l \in LPs /\ Mapped(p, l)
    BY DEF MappedOf, Mapped
  <1>2. Bare(p) => \A l \in MappedOf(p) : l = 0
    BY <1>1 DEF Bare, Holds, LPs
  <1>3. Full(p) => \A l \in MappedOf(p) : l \in {0, 1}
    BY <1>1 DEF Full, Holds, LPs
  <1>4. Full(p) => 0 \in MappedOf(p) /\ 1 \in MappedOf(p)
    BY <1>1, ConstantsOK DEF Full, Holds, LPs
  <1> QED
    BY <1>2, <1>3, <1>4

\* Between two turns the pages of a process are those its task knows of, and
\* page 0, which a task takes for a failure and never frees (.ino:49-53).
THEOREM KnownOrPageZeroAlways == SketchSpec => []KnownOrPageZero
  <1>1. SketchInv => KnownOrPageZero
    <2> SUFFICES ASSUME SketchInv, turn.at = "loop", NEW p \in Pids
                 PROVE  /\ MappedOf(p) \subseteq {0, 1}
                        /\ proc_mem[p].initialized <=> 1 \in MappedOf(p)
                        /\ proc_mem[p].initialized => BlockAddr(p) = PAGE_SIZE /\ 0 \in MappedOf(p)
      BY DEF KnownOrPageZero
    <2>1. Settled(p)
      BY LoopSettled DEF SketchInv
    <2>2. CASE proc_mem[p] = NoBlock /\ Bare(p)
      <3>1. ~ proc_mem[p].initialized
        BY <2>2 DEF NoBlock
      <3> QED
        BY <2>2, <3>1, MappedPages
    <2>3. CASE proc_mem[p] = WithBlock(p) /\ Full(p)
      <3>1. proc_mem[p].initialized /\ BlockAddr(p) = PAGE_SIZE
        BY <2>3 DEF WithBlock, BlockAddr
      <3> QED
        BY <2>3, <3>1, MappedPages
    <2> QED
      BY <2>1, <2>2, <2>3 DEF Settled
  <1> QED
    BY <1>1, SketchInvAlways, PTL

\* No access of a task faults: every byte it reads or writes is of a page that it
\* has mapped (.ino:56-77, 108-128 and 158-190).
THEOREM AccessesMappedAlways == SketchSpec => []AccessesMapped
  <1>1. SketchInv => AccessesMapped
    <2> DEFINE p == turn.pid
    <2> SUFFICES ASSUME SketchInv, turn.at = "use", NEW a \in TaskAddrs(p)
                 PROVE  LogicalPage(a) \in MappedOf(p)
      BY DEF AccessesMapped
    <2>1. p \in Pids /\ proc_mem[p] = WithBlock(p) /\ Settled(p)
      BY DEF SketchInv, BlockInv, Turns, TurnAt
    <2>2. Full(p)
      BY <2>1 DEF Settled, NoBlock, WithBlock
    <2>3. BlockAddr(p) = PAGE_SIZE
      BY <2>1 DEF BlockAddr, WithBlock
    <2>4. a \in PAGE_SIZE .. 2 * PAGE_SIZE - 1
      BY <2>3, PageOK DEF TaskAddrs
    <2>5. LogicalPage(a) = 1
      BY <2>2, <2>4, PageOfBlock DEF Full
    <2> QED
      BY <2>1, <2>2, <2>5, MappedPages
  <1> QED
    BY <1>1, SketchInvAlways, PTL

\* A process that dies by way of cleanup_paginado leaves page 0 mapped and nothing
\* else (.ino:221-236, Process.cpp:89-107).
THEOREM CleanedUpAlways == SketchSpec => []CleanedUp
  <1>1. SketchInv => CleanedUp
    <2> SUFFICES ASSUME SketchInv, NEW p \in Cleaned, state[p] = "ZOMBIE"
                 PROVE  MappedOf(p) \subseteq {0} /\ proc_mem[p] = NoBlock
      BY DEF CleanedUp
    <2>1. p \in Pids /\ proc_mem[p] = NoBlock
      BY SketchConstantsOK DEF SketchInv, Deaths
    <2>2. Settled(p)
      <3>1. turn.at = "loop" \/ p # turn.pid
        BY DEF SketchInv, Deaths
      <3> QED
        BY <2>1, <3>1, LoopSettled DEF SketchInv, BlockInv
    <2>3. Bare(p)
      BY <2>1, <2>2, PageOK DEF Settled, NoBlock, WithBlock
    <2> QED
      BY <2>1, <2>3, MappedPages
  <1> QED
    BY <1>1, SketchInvAlways, PTL

\* Every variable of the sketch keeps its type: an address in proc_mem is the first
\* of a page (.ino:17-21) and a uint8_t reference count does not wrap.
THEOREM SketchTypeCorrect == SketchSpec => []SketchTypeOK
  <1>1. SketchInv => SketchTypeOK
    <2> SUFFICES ASSUME SketchInv PROVE SketchTypeOK
      OBVIOUS
    <2>1. 0 \in BlockAddrs
      <3>1. 0 \in LPs /\ 0 * PAGE_SIZE = 0
        BY ConstantsOK DEF LPs
      <3> QED
        BY <3>1 DEF BlockAddrs
    <2>2. ASSUME 1 \in LPs PROVE PAGE_SIZE \in BlockAddrs
      <3>1. 1 * PAGE_SIZE = PAGE_SIZE
        BY ConstantsOK
      <3> QED
        BY <2>2, <3>1 DEF BlockAddrs
    <2>3. ASSUME NEW p \in Pids PROVE Recorded(p)
      BY DEF SketchInv, BlockInv, Records
    <2>4. ASSUME NEW p \in Pids PROVE proc_mem[p] \in ProcMemInfo
      <3>1. NoBlock \in ProcMemInfo
        BY <2>1 DEF NoBlock, ProcMemInfo
      <3>2. 1 \in LPs => WithBlock(p) \in ProcMemInfo
        BY <2>1, <2>2 DEF WithBlock, ProcMemInfo
      <3> QED
        BY <2>3, <3>1, <3>2 DEF Recorded
    <2>5. proc_mem \in [Pids -> ProcMemInfo]
      BY <2>4 DEF SketchInv, BlockInv
    <2>6. ref_count \in [Processes -> 0 .. 255]
      BY DEF SketchInv, TreeInv, TreeTypeOK, RefCounts
    <2> QED
      BY <2>5, <2>6 DEF SketchTypeOK, SketchInv, TreeInv, TreeTypeOK, Pointers, BlockInv, Turns
  <1> QED
    BY <1>1, SketchInvAlways, PTL

=============================================================================
