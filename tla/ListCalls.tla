----------------------------- MODULE ListCalls ------------------------------
(***************************************************************************)
(* Any sequence of calls to one linked list, and the sequence that the     *)
(* list stands for.  The callers hold elements of the list only: an        *)
(* element that was removed was freed, and the heap may hand it out again. *)
(***************************************************************************)
EXTENDS LinkedList, SequencesExt

CONSTANT Datum

VARIABLES
  lst,       \* the list and the memory of its elements
  listed,    \* history: the elements of the list, in order
  stored,    \* history: what was stored in each
  unlinked   \* whether an element was removed since the list was empty

listVars == <<lst, listed, stored, unlinked>>

ListInit ==
  /\ lst = list_init(NoElements)
  /\ listed = <<>> /\ stored = [x \in Element |-> Null]
  /\ unlinked = FALSE

\* Where a caller may point: in front of the list or at one of its elements.
Places == {Null} \union Range(listed)

Place(e) == IF e = Null THEN 0 ELSE CHOOSE k \in DOMAIN listed : listed[k] = e

Insert(e, n, d) ==
  /\ e \in Places /\ n \in Element \ Range(listed)
  /\ lst' = list_insert_next(lst, e, n, d)
  /\ listed' = InsertAt(listed, Place(e) + 1, n)
  /\ stored' = [stored EXCEPT ![n] = d]
  /\ UNCHANGED unlinked

RemoveNext(e) ==
  /\ e \in Places
  /\ Place(e) < Len(listed)
  /\ ~NothingToRemove(lst, e)
  /\ lst' = list_remove_next(lst, e)
  /\ listed' = RemoveAt(listed, Place(e) + 1)
  /\ unlinked' = (listed' # <<>>)
  /\ UNCHANGED stored

Destroy ==
  /\ listed # <<>>
  /\ lst' = list_init(list_destroy(lst))
  /\ listed' = <<>> /\ unlinked' = FALSE
  /\ UNCHANGED stored

ListNext ==
  \/ \E e \in Places, n \in Element, d \in Datum : Insert(e, n, d)
  \/ \E e \in Places : RemoveNext(e)
  \/ Destroy

ListSpec == ListInit /\ [][ListNext]_listVars

Size == Len(listed)

\* From the head, the next pointers lead through exactly the elements that
\* were inserted and not removed, in order, each with its datum; the tail is
\* the last of them and the size their number.  The prev pointers lead back
\* through the same elements as long as nothing was removed: a removal leaves
\* one of them pointing at the element it freed (linkedlist.c:94-112).
ListKept ==
  /\ Forward(lst, Size + 1) = listed
  /\ \A k \in DOMAIN listed : lst.data[listed[k]] = stored[listed[k]]
  /\ lst.tail = IF listed = <<>> THEN Null ELSE listed[Size]
  /\ lst.size = Size
  /\ ~unlinked => Backward(lst, Size + 1) = Reverse(listed)

=============================================================================
