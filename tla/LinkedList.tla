----------------------------- MODULE LinkedList -----------------------------
(***************************************************************************)
(* The doubly linked list of data_structures/linkedlist.c, as operators on *)
(* a record: head, tail and size of the list, and next, prev and data of   *)
(* the elements.  Used by the desktop (its windows), the components of a   *)
(* window (their children) and the PCI bus (its devices).  Null stands for *)
(* address 0: the code reads and writes its fields too, and they have      *)
(* cells of their own here.                                                *)
(***************************************************************************)
EXTENDS Integers, Sequences

CONSTANTS Element, Null

ASSUME NullIsNoElement == Null \notin Element

ListAddress == Element \union {Null}

\* list_init: nothing is in the list; the memory holds what it held.
list_init(mem) == [mem EXCEPT !.size = 0, !.head = Null, !.tail = Null]

NoElements == [size |-> 0, head |-> Null, tail |-> Null,
          next |-> [x \in ListAddress |-> Null],
          prev |-> [x \in ListAddress |-> Null],
          data |-> [x \in ListAddress |-> Null]]

\* list_insert_next with NULL for the element: in front of the head.
InsertAtHead(l, n, d) ==
  [size |-> l.size + 1,
   head |-> n,
   tail |-> IF l.size = 0 THEN n ELSE l.tail,
   next |-> [l.next EXCEPT ![n] = l.head],
   prev |-> [x \in ListAddress |-> IF x = n THEN Null
                                 ELSE IF x = l.head /\ x # Null THEN n
                                 ELSE l.prev[x]],
   data |-> [l.data EXCEPT ![n] = d]]

\* list_insert_next behind element e.  Behind the tail the back pointer that
\* is set is that of address 0.
InsertBehind(l, e, n, d) ==
  [size |-> l.size + 1,
   head |-> l.head,
   tail |-> IF l.next[e] = Null THEN n ELSE l.tail,
   next |-> [l.next EXCEPT ![n] = l.next[e], ![e] = n],
   prev |-> [l.prev EXCEPT ![n] = e, ![l.next[e]] = n],
   data |-> [l.data EXCEPT ![n] = d]]

\* list_insert_next(list, e, d) when __kmalloc returned n.
list_insert_next(l, e, n, d) ==
  IF e = Null THEN InsertAtHead(l, n, d) ELSE InsertBehind(l, e, n, d)

\* The conditions under which list_remove_next answers -1 and does nothing.
NothingToRemove(l, e) == l.size = 0 \/ (e # Null /\ l.next[e] = Null)

\* The element that list_remove_next(list, e) takes out and frees.
Removed(l, e) == IF e = Null THEN l.head ELSE l.next[e]

\* The tail is not moved when the last element goes.
list_remove_next_KeepsTail(l, e) ==
  IF e = Null
  THEN [l EXCEPT !.head = l.next[l.head],
                 !.tail = IF l.size = 1 THEN Null ELSE @,
                 !.size = @ - 1]
  ELSE [l EXCEPT !.next[e] = l.next[Removed(l, e)], !.size = @ - 1]

\* list_remove_next: the forward pointers, the tail and the size are kept;
\* the back pointer of the element behind the removed one is not.
list_remove_next(l, e) ==
  IF e = Null
  THEN [l EXCEPT !.head = l.next[l.head],
                 !.tail = IF l.size = 1 THEN Null ELSE @,
                 !.size = @ - 1]
  ELSE [l EXCEPT !.next[e] = l.next[Removed(l, e)],
                 !.tail = IF l.next[Removed(l, e)] = Null THEN e ELSE @,
                 !.size = @ - 1]

\* list_destroy: takes the head out until the size is 0, hands each datum to
\* the destructor, and clears the list.
list_destroy(l) == [l EXCEPT !.size = 0, !.head = Null, !.tail = Null]

\* The elements met by a loop over next from the head, at most limit of them.
Forward(l, limit) ==
  LET node[k \in 1 .. limit] ==
        IF k = 1 THEN l.head
        ELSE IF node[k - 1] = Null THEN Null ELSE l.next[node[k - 1]]
  IN [k \in {j \in 1 .. limit : node[j] # Null} |-> node[k]]

\* The elements met by a loop over prev from the tail.
Backward(l, limit) ==
  Forward([l EXCEPT !.head = l.tail, !.next = l.prev], limit)

DataOf(l, s) == [k \in DOMAIN s |-> l.data[s[k]]]
=============================================================================
