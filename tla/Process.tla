------------------------------ MODULE Process ------------------------------
(***************************************************************************)
(* The tree of processes (src/Process.cpp).  The children of a process are *)
(* a list: first_child, then next_sibling from each child to the next.     *)
(* Every process counts a reference of its own and one of its parent.      *)
(*                                                                         *)
(* Each function is one step; one whose loop would not end is no step.     *)
(*                                                                         *)
(* The process manager, which makes the calls, has no code in the          *)
(* repository: ProcessManager.cpp is empty, and ProcessManager.h:35-36     *)
(* declares attachChild and detachChild.  Process.cpp asks nothing of its  *)
(* caller, so there are two specifications: LegalSpec with the calls that  *)
(* the two declarations suggest, and RuledSpec with the rules that a       *)
(* manager has to keep for the lists and the counts to stay right.         *)
(***************************************************************************)
EXTENDS Integers, FiniteSets

CONSTANTS
  Processes, \* the Process objects
  NULL

ASSUME ProcessesOK == IsFiniteSet(Processes) /\ NULL \notin Processes

VARIABLES state, ref_count, first_child, next_sibling, parent

treeVars == <<state, ref_count, first_child, next_sibling, parent>>

\* The fields the constructor does not set to NULL.
Constructed ==
  /\ state = [p \in Processes |-> "READY"]
  /\ ref_count = [p \in Processes |-> 1]

TreeInit ==
  /\ Constructed
  /\ first_child = [p \in Processes |-> NULL]
  /\ next_sibling = [p \in Processes |-> NULL]
  /\ parent = [p \in Processes |-> NULL]

-----------------------------------------------------------------------------
(***************************************************************************)
(* Walks along the list of p.                                              *)
(***************************************************************************)

\* curr after n turns of a loop "curr = curr->next_sibling".
Nth(p) ==
  LET curr[n \in 0 .. Cardinality(Processes)] ==
        IF n = 0 THEN first_child[p]
        ELSE IF curr[n - 1] = NULL THEN NULL ELSE next_sibling[curr[n - 1]]
  IN  curr

\* The loop ends: it does unless it has met a process twice.
WalkEnds(p) == Nth(p)[Cardinality(Processes)] = NULL

\* The processes the loop visits; countChildren returns their number.
Visited(p) == {Nth(p)[n] : n \in 0 .. Cardinality(Processes)} \ {NULL}

countChildren(p) == Cardinality(Visited(p))

-----------------------------------------------------------------------------

\* The list of p with c at its end.  The next_sibling of c is left as it is.
Append(p, c) ==
  IF first_child[p] = NULL
  THEN first_child' = [first_child EXCEPT ![p] = c] /\ UNCHANGED next_sibling
  ELSE /\ \E last \in Visited(p) :
            /\ next_sibling[last] = NULL
            /\ next_sibling' = [next_sibling EXCEPT ![last] = c]
       /\ UNCHANGED first_child

\* Mutant of addChild: the reference is taken by the parent.
addChildToParent(p, c) ==
  /\ c # NULL
  /\ Append(p, c)
  /\ ref_count' = [ref_count EXCEPT ![p] = @ + 1]
  /\ parent' = [parent EXCEPT ![c] = p]
  /\ UNCHANGED state

\* ref_count is a uint8_t.
addChild(p, c) ==
  IF c = NULL THEN UNCHANGED treeVars
  ELSE /\ Append(p, c)
       /\ ref_count' = [ref_count EXCEPT ![c] = (@ + 1) % 256]
       /\ parent' = [parent EXCEPT ![c] = p]
       /\ UNCHANGED state

\* Mutant of Unlink: with the first child the whole list is dropped.
UnlinkAll(p, c) ==
  /\ first_child' = IF first_child[p] = c THEN [first_child EXCEPT ![p] = NULL] ELSE first_child
  /\ next_sibling' = [t \in Processes |->
       IF first_child[p] # c /\ t \in Visited(p) /\ next_sibling[t] = c
       THEN next_sibling[c] ELSE next_sibling[t]]

\* Where the loop along the list of p stops in front of c, if it does.
Before(p, c) ==
  {t \in Processes : \E n \in 0 .. Cardinality(Processes) :
     /\ Nth(p)[n] = t /\ next_sibling[t] = c
     /\ \A m \in 0 .. n - 1 : next_sibling[Nth(p)[m]] # c}

\* The list of p without c; c keeps its next_sibling.
Unlink(p, c) ==
  IF first_child[p] = c
  THEN first_child' = [first_child EXCEPT ![p] = next_sibling[c]] /\ UNCHANGED next_sibling
  ELSE /\ WalkEnds(p) \/ Before(p, c) # {}
       /\ next_sibling' = [t \in Processes |->
            IF t \in Before(p, c) THEN next_sibling[c] ELSE next_sibling[t]]
       /\ UNCHANGED first_child

Less(n) == IF n > 0 THEN n - 1 ELSE 0

\* The reference is taken back and the parent forgotten also if c was not found.
removeChild(p, c) ==
  IF c = NULL \/ first_child[p] = NULL THEN UNCHANGED treeVars
  ELSE /\ Unlink(p, c)
       /\ ref_count' = [ref_count EXCEPT ![c] = Less(@)]
       /\ parent' = [parent EXCEPT ![c] = NULL]
       /\ UNCHANGED state

\* prepareForDeath behind its callback.  The children stay in the list and keep
\* their parent.
LeaveChildren(p) ==
  /\ WalkEnds(p)
  /\ ref_count' = [c \in Processes |->
       IF c \in Visited(p) THEN Less(ref_count[c]) ELSE ref_count[c]]
  /\ state' = [[c \in Processes |->
       IF c \in Visited(p) /\ ref_count'[c] = 0 /\ state[c] # "ZOMBIE"
       THEN "KILL_PENDING" ELSE state[c]] EXCEPT ![p] = "ZOMBIE"]
  /\ UNCHANGED <<first_child, next_sibling, parent>>

-----------------------------------------------------------------------------
(***************************************************************************)
(* The calls of a process manager.                                         *)
(***************************************************************************)

\* A living process takes a child that has none.
Adopts(p, c) == p # c /\ state[p] # "ZOMBIE" /\ parent[c] = NULL

\* A process dies once.
CanDie(p) == state[p] # "ZOMBIE"

\* A child is taken from its parent, living or not.
LegalNext ==
  \/ \E p, c \in Processes : Adopts(p, c) /\ addChild(p, c)
  \/ \E p, c \in Processes : parent[c] = p /\ removeChild(p, c)
  \/ \E p \in Processes : CanDie(p) /\ LeaveChildren(p)

LegalSpec == TreeInit /\ [][LegalNext]_treeVars

\* The rules.  A child that was taken from a list is attached again only if it was
\* the last of that list.
CanAttach(p, c) == Adopts(p, c) /\ next_sibling[c] = NULL

\* A child is taken from its parent while the parent lives.
CanDetach(p, c) == parent[c] = p /\ state[p] # "ZOMBIE"

RuledCall ==
  \/ \E p, c \in Processes : CanAttach(p, c) /\ addChild(p, c)
  \/ \E p, c \in Processes : CanDetach(p, c) /\ removeChild(p, c)

RuledNext == RuledCall \/ \E p \in Processes : CanDie(p) /\ LeaveChildren(p)

RuledSpec == TreeInit /\ [][RuledNext]_treeVars

-----------------------------------------------------------------------------
(***************************************************************************)
(* Properties.                                                             *)
(***************************************************************************)

Children(p) == {c \in Processes : parent[c] = p}

\* The list of a process that lives is its children by their parent pointers,
\* each once, and the loops along it end (Process.cpp:42, 59, 78 and 94).  It
\* holds for a manager that keeps the rules, wherever in the list a child is
\* taken out; in LegalSpec a child that was not the last of its list and is
\* attached again breaks it.
ListIsChildren ==
  \A p \in Processes :
    state[p] # "ZOMBIE" => WalkEnds(p) /\ Visited(p) = Children(p)

\* A process counts its own reference and the one of a parent that lives.  It
\* holds for a manager that keeps the rules; in LegalSpec the death of a parent and
\* a later removal of its child take the same reference twice.
RefCounts ==
  \A c \in Processes :
    ref_count[c] =
      IF parent[c] # NULL /\ state[parent[c]] # "ZOMBIE" THEN 2 ELSE 1
=============================================================================
