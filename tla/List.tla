-------------------------------- MODULE List --------------------------------
(***************************************************************************)
(* The doubly linked lists of src/src/c/list.c at the level of their       *)
(* pointers.  Module Vmm takes them for sequences; here it is checked that *)
(* they are, for several lists among which nodes move.                     *)
(***************************************************************************)
EXTENDS Integers, Sequences, SequencesExt, FiniteSetsExt

CONSTANTS Lists, Nodes, NULL

ASSUME ListAssumption == NULL \notin Nodes /\ IsFiniteSet(Nodes)

VARIABLES
    first, last,    \* of each list
    prev, next      \* of each node

vars == <<first, last, prev, next>>

Init ==
    /\ first = [list \in Lists |-> NULL] /\ last = first
    /\ prev = [node \in Nodes |-> NULL] /\ next = prev

insert_after(list, node, new_node) ==
    /\ prev' = [n \in Nodes |-> CASE n = new_node -> node
                                  [] n = next[node] -> new_node
                                  [] OTHER -> prev[n]]
    /\ next' = [next EXCEPT ![new_node] = next[node], ![node] = new_node]
    /\ last' = IF next[node] = NULL
               THEN [last EXCEPT ![list] = new_node] ELSE last
    /\ UNCHANGED first

insert_before(list, node, new_node) ==
    /\ next' = [n \in Nodes |-> CASE n = new_node -> node
                                  [] n = prev[node] -> new_node
                                  [] OTHER -> next[n]]
    /\ prev' = [prev EXCEPT ![new_node] = prev[node], ![node] = new_node]
    /\ first' = IF prev[node] = NULL
                THEN [first EXCEPT ![list] = new_node] ELSE first
    /\ UNCHANGED last

insert_first(list, new_node) ==
    \/ /\ first[list] = NULL
       /\ first' = [first EXCEPT ![list] = new_node]
       /\ last' = [last EXCEPT ![list] = new_node]
       /\ prev' = [prev EXCEPT ![new_node] = NULL]
       /\ next' = [next EXCEPT ![new_node] = NULL]
    \/ /\ first[list] # NULL
       /\ insert_before(list, first[list], new_node)

(* Mutant: the new node goes before the last one.                          *)
insert_last_before(list, new_node) ==
    \/ last[list] = NULL /\ insert_first(list, new_node)
    \/ last[list] # NULL /\ insert_before(list, last[list], new_node)

insert_last(list, new_node) ==
    \/ last[list] = NULL /\ insert_first(list, new_node)
    \/ last[list] # NULL /\ insert_after(list, last[list], new_node)

(* Mutant: the list's last node is not updated.                            *)
remove_last_kept(list, node) ==
    /\ IF prev[node] = NULL
       THEN first' = [first EXCEPT ![list] = next[node]] /\ UNCHANGED next
       ELSE next' = [next EXCEPT ![prev[node]] = next[node]] /\ UNCHANGED first
    /\ prev' = [n \in Nodes |-> IF n = next[node] THEN prev[node] ELSE prev[n]]
    /\ UNCHANGED last

remove(list, node) ==
    /\ IF prev[node] = NULL
       THEN first' = [first EXCEPT ![list] = next[node]] /\ UNCHANGED next
       ELSE next' = [next EXCEPT ![prev[node]] = next[node]] /\ UNCHANGED first
    /\ IF next[node] = NULL
       THEN last' = [last EXCEPT ![list] = prev[node]] /\ UNCHANGED prev
       ELSE prev' = [prev EXCEPT ![next[node]] = prev[node]] /\ UNCHANGED last

(* The nodes met from "start" along "link", the loop of every search: in   *)
(* a list that is sound it meets NULL after all nodes at the latest.       *)
Walk(start, link) ==
    LET at[k \in 1..(Cardinality(Nodes) + 1)] ==
            IF k = 1 THEN start
            ELSE IF at[k-1] = NULL THEN NULL ELSE link[at[k-1]]
    IN  at
Chain(start, link) ==
    LET at == Walk(start, link)
    IN  [k \in {k \in DOMAIN at : at[k] # NULL} |-> at[k]]

Forward(list) == Chain(first[list], next)
Members(list) == ToSet(Forward(list))
Loose == Nodes \ UNION {Members(list) : list \in Lists}

(* The callers insert nodes that are on no list, next to one that is on    *)
(* this list, and remove one that is.                                      *)
Next == \E list \in Lists :
    \/ \E node \in Members(list), new_node \in Loose :
          insert_after(list, node, new_node) \/ insert_before(list, node, new_node)
    \/ \E new_node \in Loose :
          insert_first(list, new_node) \/ insert_last(list, new_node)
    \/ \E node \in Members(list) : remove(list, node)

Spec == Init /\ [][Next]_vars

-----------------------------------------------------------------------------
TypeOK ==
    /\ {first, last} \subseteq [Lists -> Nodes \cup {NULL}]
    /\ {prev, next} \subseteq [Nodes -> Nodes \cup {NULL}]

(* Every list reads the same from both ends, and no node is on two lists   *)
(* or twice on one, whatever its pointers were when it was inserted.       *)
WellLinked ==
    /\ \A list \in Lists :
          /\ Chain(last[list], prev) = Reverse(Forward(list))
          /\ Cardinality(Members(list)) = Len(Forward(list))
    /\ \A l1, l2 \in Lists : l1 # l2 => Members(l1) \cap Members(l2) = {}

(* The operations do to the sequence of nodes what their names say, and    *)
(* nothing to the other lists.                                             *)
At(list, node) == CHOOSE i \in DOMAIN Forward(list) : Forward(list)[i] = node
Becomes(list, seq) ==
    /\ Forward(list)' = seq
    /\ \A other \in Lists \ {list} : Forward(other)' = Forward(other)
ActsOnSequences == [][\A list \in Lists :
    /\ \A node \in Members(list), new_node \in Loose :
          /\ insert_after(list, node, new_node) =>
                Becomes(list, InsertAt(Forward(list), At(list, node) + 1, new_node))
          /\ insert_before(list, node, new_node) =>
                Becomes(list, InsertAt(Forward(list), At(list, node), new_node))
    /\ \A new_node \in Loose :
          /\ insert_first(list, new_node) =>
                Becomes(list, <<new_node>> \o Forward(list))
          /\ insert_last(list, new_node) =>
                Becomes(list, Append(Forward(list), new_node))
    /\ \A node \in Members(list) : remove(list, node) =>
          Becomes(list, RemoveAt(Forward(list), At(list, node)))]_vars
=============================================================================
