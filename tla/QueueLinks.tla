----------------------------- MODULE QueueLinks -----------------------------
(***************************************************************************)
(* The priority queues (queues.c) down to their nodes: doubly linked, from *)
(* the heap, with a head and a tail.  The other modules know a queue as a  *)
(* sequence; this one shows that the code keeps one (KeyedQueues).         *)
(*                                                                         *)
(* Calls do not overlap: handlers run with interrupts disabled.  The loops *)
(* that walk a queue are one action per iteration; qphase says which call  *)
(* is in its loop:                                                         *)
(*    "idle"    none;                                                      *)
(*    "insert"  _q_insert looks for the first node with a larger key;      *)
(*    "find"    _q_remove_by_key, _q_remove_selected or _q_get_by_key      *)
(*              looks for a node.                                          *)
(***************************************************************************)
EXTENDS Integers, Sequences, SequencesExt

CONSTANTS
  Queues,
  OrderedQueues,  \* those with a comparison routine: _comp_ascend_uint
  QueueKeys, Data,
  QueueNodes           \* where __kmalloc can put a Qnode

NIL == 0

LinksAssumption ==
  /\ OrderedQueues \subseteq Queues
  /\ QueueKeys \subseteq Nat /\ QueueKeys # {}
  /\ NIL \notin QueueNodes

ASSUME LinksAssumptions == LinksAssumption

VARIABLES
  qprev, qnext, qkey, qdata,  \* the fields of the nodes
  head, tail,                 \* the fields of the queues
  qphase,
  que, curr, qn, goal, take,  \* the variables of the call: the queue, the
                              \* cursor, the new node, the key to find, and
                              \* whether the node found is removed
  result,                     \* what the last call returned
  order                       \* history: the nodes of each queue, in order

fields == <<qprev, qnext, qkey, qdata, head, tail>>
locals == <<qphase, que, curr, qn, goal, take>>
qVars  == <<fields, locals, result, order>>

AnyQueue == CHOOSE q \in Queues : TRUE
AnyKey   == CHOOSE k \in QueueKeys : TRUE
AnyDatum == CHOOSE d \in Data : TRUE

\* The nodes that the heap can hand out.
FreeNodes == (QueueNodes \ UNION {Range(order[q]) : q \in Queues}) \ {qn}

QInit ==
  /\ qprev = [n \in QueueNodes |-> NIL] /\ qnext = [n \in QueueNodes |-> NIL]
  /\ qkey = [n \in QueueNodes |-> AnyKey]
  /\ qdata = [n \in QueueNodes |-> AnyDatum]
  /\ head = [q \in Queues |-> NIL] /\ tail = [q \in Queues |-> NIL]
  /\ qphase = "idle"
  /\ que = AnyQueue /\ curr = NIL /\ qn = NIL
  /\ goal = AnyKey /\ take = FALSE
  /\ result = "NONE"
  /\ order = [q \in Queues |-> <<>>]

\* _q_empty.
Empty(q) == head[q] = NIL

\* A call ends, and its variables with it.
Return(status) ==
  /\ qphase' = "idle"
  /\ que' = AnyQueue /\ curr' = NIL /\ qn' = NIL
  /\ goal' = AnyKey /\ take' = FALSE
  /\ result' = status

-----------------------------------------------------------------------------
(* _q_insert.                                                              *)

\* The new node; the search begins at the head, or for a queue without an
\* order at the end.
QueueInsert(q, k, d) ==
  /\ qphase = "idle"
  /\ \E n \in FreeNodes :
       /\ qn' = n
       /\ qkey' = [qkey EXCEPT ![n] = k]
       /\ qdata' = [qdata EXCEPT ![n] = d]
  /\ qphase' = "insert"
  /\ que' = q
  /\ curr' = IF q \in OrderedQueues THEN head[q] ELSE NIL
  /\ UNCHANGED <<qprev, qnext, head, tail, goal, take, result, order>>

\* The loop goes on past smaller keys and past equal ones.
Goes_Less(c) == qkey[c] < qkey[qn]     \* in front of equal keys: QueuesKept
Goes(c)      == qkey[c] <= qkey[qn]

InsertStep ==
  /\ qphase = "insert" /\ curr # NIL /\ Goes(curr)
  /\ curr' = qnext[curr]
  /\ UNCHANGED <<fields, qphase, que, qn, goal, take, result, order>>

\* How many nodes of a queue stand before node c.
Before(s, c) == CHOOSE n \in 0 .. (Len(s) - 1) : s[n + 1] = c

\* Add before curr.
InsertBefore ==
  LET p == qprev[curr] IN
  /\ qphase = "insert" /\ curr # NIL /\ ~Goes(curr)
  /\ qprev' = [qprev EXCEPT ![qn] = p, ![curr] = qn]
  /\ qnext' = IF p = NIL THEN [qnext EXCEPT ![qn] = curr]
              ELSE [qnext EXCEPT ![qn] = curr, ![p] = qn]
  /\ head' = IF p = NIL THEN [head EXCEPT ![que] = qn] ELSE head
  /\ order' = [order EXCEPT ![que] = InsertAt(@, Before(@, curr) + 1, qn)]
  /\ Return("SUCCESS")
  /\ UNCHANGED <<qkey, qdata, tail>>

\* Add to the end.
InsertAtEnd ==
  LET t == tail[que] IN
  /\ qphase = "insert" /\ curr = NIL
  /\ qprev' = [qprev EXCEPT ![qn] = t]
  /\ qnext' = IF t = NIL THEN [qnext EXCEPT ![qn] = NIL]
              ELSE [qnext EXCEPT ![qn] = NIL, ![t] = qn]
  /\ head' = IF t = NIL THEN [head EXCEPT ![que] = qn] ELSE head
  /\ tail' = [tail EXCEPT ![que] = qn]
  /\ order' = [order EXCEPT ![que] = Append(@, qn)]
  /\ Return("SUCCESS")
  /\ UNCHANGED <<qkey, qdata>>

-----------------------------------------------------------------------------
(* _q_remove.                                                              *)

\* The node after the head becomes the head, without a node before it.
NewHead(h) == [qprev EXCEPT ![h] = NIL]

RemoveHead(q) ==
  LET h == head[q]
      s == qnext[h]
  IN
  /\ qphase = "idle" /\ ~Empty(q)
  /\ head' = [head EXCEPT ![q] = s]
  /\ IF s = NIL THEN tail' = [tail EXCEPT ![q] = NIL] /\ UNCHANGED qprev
                ELSE qprev' = NewHead(s) /\ UNCHANGED tail
  /\ order' = [order EXCEPT ![q] = Tail(@)]
  /\ result' = qdata[h]
  /\ UNCHANGED <<qnext, qkey, qdata, locals>>

\* _q_peek returns the key of the head, here as text, like a status.
Peek(q) ==
  /\ qphase = "idle" /\ ~Empty(q)
  /\ result' = ToString(qkey[head[q]])
  /\ UNCHANGED <<fields, locals, order>>

-----------------------------------------------------------------------------
(* The calls that look for a node: the first with the key (for             *)
(* _q_remove_selected, the first that its comparison accepts).             *)

FindIn(q, k, removes) ==
  /\ qphase = "idle" /\ ~Empty(q)
  /\ qphase' = "find" /\ que' = q /\ curr' = head[q]
  /\ goal' = k /\ take' = removes
  /\ UNCHANGED <<fields, qn, result, order>>

FindInEmpty(q) ==
  /\ qphase = "idle" /\ Empty(q)
  /\ result' = "EMPTY_QUEUE"
  /\ UNCHANGED <<fields, locals, order>>

FindStep ==
  /\ qphase = "find" /\ curr # NIL /\ qkey[curr] # goal
  /\ curr' = qnext[curr]
  /\ UNCHANGED <<fields, qphase, que, qn, goal, take, result, order>>

FindEnds ==
  /\ qphase = "find" /\ curr = NIL
  /\ Return("NOT_FOUND")
  /\ UNCHANGED <<fields, order>>

FoundGet ==
  /\ qphase = "find" /\ curr # NIL /\ qkey[curr] = goal /\ ~take
  /\ Return(qdata[curr])
  /\ UNCHANGED <<fields, order>>

\* _q_delete_node.
FoundRemove ==
  LET p == qprev[curr]
      s == qnext[curr]
  IN
  /\ qphase = "find" /\ curr # NIL /\ qkey[curr] = goal /\ take
  /\ IF p = NIL THEN head' = [head EXCEPT ![que] = s] /\ UNCHANGED qnext
                ELSE qnext' = [qnext EXCEPT ![p] = s] /\ UNCHANGED head
  /\ IF s = NIL THEN tail' = [tail EXCEPT ![que] = p] /\ UNCHANGED qprev
                ELSE qprev' = [qprev EXCEPT ![s] = p] /\ UNCHANGED tail
  /\ order' = [order EXCEPT ![que] = RemoveAt(@, Before(@, curr) + 1)]
  /\ Return(qdata[curr])
  /\ UNCHANGED <<qkey, qdata>>

-----------------------------------------------------------------------------
QNext ==
  \/ \E q \in Queues :
       \/ \E k \in QueueKeys : \/ \E d \in Data : QueueInsert(q, k, d)
                          \/ \E removes \in BOOLEAN : FindIn(q, k, removes)
       \/ FindInEmpty(q)
       \/ RemoveHead(q)
       \/ Peek(q)
  \/ InsertStep \/ InsertBefore \/ InsertAtEnd
  \/ FindStep \/ FindEnds \/ FoundGet \/ FoundRemove

QSpec == QInit /\ [][QNext]_qVars

-----------------------------------------------------------------------------
(* Properties.                                                             *)

\* The pointers are what they should be: each queue is the chain of its nodes
\* in both directions, ends in NIL on both sides, and no node is in two
\* queues, twice in one, or in the hands of a call and in a queue.
Linked ==
  /\ \A q \in Queues :
       LET s == order[q] IN
       /\ head[q] = IF s = <<>> THEN NIL ELSE s[1]
       /\ tail[q] = IF s = <<>> THEN NIL ELSE s[Len(s)]
       /\ \A i \in 1 .. Len(s) :
            /\ qnext[s[i]] = IF i = Len(s) THEN NIL ELSE s[i + 1]
            /\ qprev[s[i]] = IF i = 1 THEN NIL ELSE s[i - 1]
       /\ \A i, j \in 1 .. Len(s) : s[i] = s[j] => i = j
       /\ \A i \in 1 .. Len(s) : s[i] # qn
  /\ \A q, r \in Queues : q # r => Range(order[q]) \cap Range(order[r]) = {}

\* The queues that the nodes stand for.
Items == [q \in Queues |->
            [i \in 1 .. Len(order[q]) |->
               [key |-> qkey[order[q][i]], data |-> qdata[order[q][i]]]]]

KQ == INSTANCE KeyedQueues WITH items <- Items, answer <- result

\* The linked nodes implement the promise of queues.h: by key, first come
\* first served among equal keys; what a call removes is the first that fits,
\* and nothing else is lost, moved or doubled.
QueuesKept == KQ!ASpec
=============================================================================
