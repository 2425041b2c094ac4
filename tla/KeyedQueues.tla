---------------------------- MODULE KeyedQueues ----------------------------
(***************************************************************************)
(* What a queue of queues.c promises, whatever it is made of: "generic,    *)
(* self-ordering queues" (queues.h).  A queue is a sequence of items.  An  *)
(* ordered queue keeps its items by ascending key and equal keys in the    *)
(* order in which they came; the others are first come, first served.      *)
(***************************************************************************)
EXTENDS Integers, Sequences, SequencesExt

CONSTANTS Queues, OrderedQueues, QueueKeys, Data

VARIABLES
  items,    \* the items of each queue
  answer    \* what the last call returned: a datum, or a status

Item == [key : QueueKeys, data : Data]

AInit ==
  /\ items = [q \in Queues |-> <<>>]
  /\ answer = "NONE"

\* Behind how many items of s an item with key k goes.
Position(s, k) ==
  CHOOSE n \in 0 .. Len(s) :
    /\ \A i \in 1 .. n : s[i].key <= k
    /\ n = Len(s) \/ k < s[n + 1].key

AInsert(q, k, d) ==
  LET n == IF q \in OrderedQueues THEN Position(items[q], k) ELSE Len(items[q])
  IN
  /\ items' = [items EXCEPT ![q] =
                 InsertAt(items[q], n + 1, [key |-> k, data |-> d])]
  /\ answer' = "SUCCESS"

\* The item at position n leaves.
ARemoveAt(q, n) ==
  /\ n \in 1 .. Len(items[q])
  /\ items' = [items EXCEPT ![q] = RemoveAt(items[q], n)]
  /\ answer' = items[q][n].data

ARemove(q) == ARemoveAt(q, 1)

\* _q_peek: the smallest key, of an ordered queue.
APeek(q) ==
  /\ items[q] # <<>>
  /\ answer' = ToString(items[q][1].key)
  /\ UNCHANGED items

\* The first item with key k.
First(s, k, n) ==
  /\ n \in 1 .. Len(s) /\ s[n].key = k
  /\ \A i \in 1 .. (n - 1) : s[i].key # k

ARemoveByKey(q, k) ==
  \E n \in 1 .. Len(items[q]) : First(items[q], k, n) /\ ARemoveAt(q, n)

AGetByKey(q, k) ==
  /\ \E n \in 1 .. Len(items[q]) :
       First(items[q], k, n) /\ answer' = items[q][n].data
  /\ UNCHANGED items

\* There is none.
ANotFound(q, k) ==
  /\ \A n \in 1 .. Len(items[q]) : items[q][n].key # k
  /\ answer' \in {"EMPTY_QUEUE", "NOT_FOUND"}
  /\ UNCHANGED items

ANext ==
  \E q \in Queues :
    \/ \E k \in QueueKeys : \/ \E d \in Data : AInsert(q, k, d)
                       \/ ARemoveByKey(q, k) \/ AGetByKey(q, k)
                       \/ ANotFound(q, k)
    \/ ARemove(q)
    \/ APeek(q)

ASpec == AInit /\ [][ANext]_<<items, answer>>
=============================================================================
