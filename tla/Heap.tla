-------------------------------- MODULE Heap --------------------------------
(***************************************************************************)
(* The kernel heap (kmalloc.c): a free list in address order, doubly       *)
(* linked through the free blocks themselves.                              *)
(*                                                                         *)
(* Addresses and sizes count words of four bytes; the rounding of a        *)
(* request to whole words has been done.  Calls come one after the other:  *)
(* handlers run with interrupts disabled.  The two loops over the free     *)
(* list are one action per iteration; `phase' says where the call is:      *)
(*    "idle"    no call;                                                   *)
(*    "find"    __kmalloc looks for a node, from `current_node' on;        *)
(*    "insert"  __kfree looks for the node behind the one to free;         *)
(*    "full", "fell"  the two calls of _kpanic.                            *)
(*                                                                         *)
(* Memory is three arrays over the addresses, one for each field of        *)
(* linked_node_t.  A field holds 0 where the code no longer reads it: what *)
(* stands there belongs to a caller or lies inside a larger free node.     *)
(* So a node begins wherever `size' is not 0.                              *)
(*                                                                         *)
(* Callers free what they have been given, and once: "there are no safe    *)
(* guards against bad blocks" (kmalloc.h).                                 *)
(***************************************************************************)
EXTENDS Integers

CONSTANTS
  PAGE_SIZE,
  HEAP_START_LOCATION,
  HEAP_MAX_LOCATION,
  INITIAL_SIZE,   \* HEAP_INITIAL_PAGES * PAGE_SIZE
  Requests        \* the sizes that callers ask for

NULL        == 0
NODE_SIZE   == 3  \* sizeof(linked_node_t)
HEADER_SIZE == 1

HeapAssumption ==
  /\ PAGE_SIZE \in Nat \ {0}
  /\ HEAP_START_LOCATION \in Nat \ {NULL}
  /\ HEAP_MAX_LOCATION \in Nat
  /\ INITIAL_SIZE \in Nat /\ INITIAL_SIZE >= NODE_SIZE
  /\ HEAP_START_LOCATION + INITIAL_SIZE <= HEAP_MAX_LOCATION
  /\ Requests \subseteq Nat

ASSUME HeapAssumptions == HeapAssumption

\* The addresses up to which the heap can grow: it stops only when its end is
\* beyond the maximum.
LIMIT == HEAP_MAX_LOCATION + PAGE_SIZE
Addrs == HEAP_START_LOCATION .. (LIMIT - 1)

VARIABLES
  size, next, prev,    \* the fields of the nodes
  start_node,          \* kernel_heap.start_node
  end_address,         \* kernel_heap.end_address
  phase,
  current_node,        \* the loop's cursor
  arg,                 \* the words needed, or the node to free
  used,                \* history: the nodes in the hands of callers
  asked                \* history: what the caller of __kmalloc asked for

list == <<size, next, prev, start_node, end_address>>
call == <<phase, current_node, arg, asked>>
vars == <<list, call, used>>

\* __kmem_init_kmalloc.
Init ==
  /\ size = [a \in Addrs |->
               IF a = HEAP_START_LOCATION THEN INITIAL_SIZE ELSE 0]
  /\ next = [a \in Addrs |-> NULL]
  /\ prev = [a \in Addrs |-> NULL]
  /\ start_node = HEAP_START_LOCATION
  /\ end_address = HEAP_START_LOCATION + INITIAL_SIZE
  /\ phase = "idle"
  /\ current_node = NULL
  /\ arg = 0
  /\ used = {}
  /\ asked = -1

\* *(f + a) = v, unless a is the NULL that the code has just looked at.
Put(f, a, v) == IF a = NULL THEN f ELSE [f EXCEPT ![a] = v]

-----------------------------------------------------------------------------
(* __kmalloc.                                                              *)

Needed_Bare(n) == IF n < NODE_SIZE THEN NODE_SIZE ELSE n
                                           \* no header: Allocates

Needed(n) == (IF n < NODE_SIZE THEN NODE_SIZE ELSE n) + HEADER_SIZE

Malloc(n) ==
  /\ phase = "idle"
  /\ phase' = "find"
  /\ arg' = Needed(n)
  /\ current_node' = start_node
  /\ asked' = n
  /\ UNCHANGED <<list, used>>

\* The node can be cut in two, and is not the last one.
Splits(s, need) == s > need + NODE_SIZE

FindNext ==
  /\ phase = "find"
  /\ next[current_node] # NULL
  /\ ~Splits(size[current_node], arg)
  /\ current_node' = next[current_node]
  /\ UNCHANGED <<list, phase, arg, asked, used>>

\* The last node is too small: the pages that it takes to make up for it are
\* mapped behind it.  Before each page the end is compared with the maximum.
TooSmall == size[current_node] < arg + NODE_SIZE

NewWords_Short ==                          \* one page too few: CallReturns
  ((arg - size[current_node] + NODE_SIZE) \div PAGE_SIZE) * PAGE_SIZE

NewWords ==
  ((arg - size[current_node] + NODE_SIZE) \div PAGE_SIZE + 1) * PAGE_SIZE

Grow ==
  /\ phase = "find"
  /\ next[current_node] = NULL
  /\ TooSmall
  /\ IF end_address + NewWords - PAGE_SIZE <= HEAP_MAX_LOCATION
       THEN /\ end_address' = end_address + NewWords
            /\ size' = [size EXCEPT ![current_node] = @ + NewWords]
            /\ UNCHANGED phase
       ELSE /\ phase' = "full"
            /\ UNCHANGED <<size, end_address>>
  /\ UNCHANGED <<next, prev, start_node, current_node, arg, asked, used>>

\* The list after `rest' has taken the place of c.
Relink(c, rest) ==
  next' = IF c = start_node
            THEN [next EXCEPT ![rest] = next[c], ![c] = NULL]
            ELSE [next EXCEPT ![rest] = next[c], ![prev[c]] = rest, ![c] = NULL]

\* The node is cut: the caller gets the lower part, the upper part takes its
\* place in the free list.
Carve ==
  LET c    == current_node
      rest == c + arg
  IN
  /\ phase = "find"
  /\ IF next[c] = NULL THEN ~TooSmall ELSE Splits(size[c], arg)
  /\ size' = [size EXCEPT ![rest] = size[c] - arg, ![c] = arg]
  /\ Relink(c, rest)
  /\ prev' = Put([prev EXCEPT ![rest] = prev[c], ![c] = NULL], next[c], rest)
  /\ start_node' = IF c = start_node THEN rest ELSE start_node
  /\ used' = used \cup {c}
  /\ phase' = "idle"
  /\ current_node' = NULL
  /\ arg' = 0
  /\ asked' = -1
  /\ UNCHANGED end_address

-----------------------------------------------------------------------------
(* __kfree.                                                                *)

\* The node is below the first free one, with which it may be combined.
FreeFirst(b) ==
  LET s == start_node IN
  /\ phase = "idle"
  /\ b \in used
  /\ b < s
  /\ IF b + size[b] = s
       THEN /\ size' = [size EXCEPT ![b] = @ + size[s], ![s] = 0]
            /\ next' = [next EXCEPT ![b] = next[s], ![s] = NULL]
            /\ prev' = Put([prev EXCEPT ![b] = NULL], next[s], b)
       ELSE /\ next' = [next EXCEPT ![b] = s]
            /\ prev' = [prev EXCEPT ![b] = NULL, ![s] = b]
            /\ UNCHANGED size
  /\ start_node' = b
  /\ used' = used \ {b}
  /\ UNCHANGED <<end_address, call>>

\* The node is not: the loop starts.
Free(b) ==
  /\ phase = "idle"
  /\ b \in used
  /\ b >= start_node
  /\ phase' = "insert"
  /\ arg' = b
  /\ current_node' = start_node
  /\ used' = used \ {b}
  /\ UNCHANGED <<list, asked>>

\* At the end of the list: "We fell off the list! This should be impossible!"
InsertNext ==
  /\ phase = "insert"
  /\ current_node < arg
  /\ current_node' = next[current_node]
  /\ phase' = IF next[current_node] = NULL THEN "fell" ELSE phase
  /\ UNCHANGED <<list, arg, asked, used>>

\* The node goes in front of the cursor and is combined with its neighbours.
Touches_Never(a, s, b) == FALSE            \* not combined: HeapSound

Touches(a, s, b) == a + s = b

Insert ==
  LET m  == arg
      l  == current_node
      p  == prev[l]
      lo == Touches(p, size[p], m)           \* combined with the one below
      hi == Touches(m, size[m], l)           \* with the one above
      f  == IF lo THEN p ELSE m              \* where the node begins
      n  == IF hi THEN next[l] ELSE l        \* the next one
  IN
  /\ phase = "insert"
  /\ l >= m
  /\ size' = [a \in Addrs |->
                CASE a = f -> (IF lo THEN size[p] ELSE 0) + size[m]
                                + (IF hi THEN size[l] ELSE 0)
                  [] a = m /\ lo -> 0
                  [] a = l /\ hi -> 0
                  [] OTHER -> size[a]]
  /\ next' = [a \in Addrs |->
                CASE a = f -> n
                  [] a = p /\ ~lo -> m
                  [] a = l /\ hi -> NULL
                  [] OTHER -> next[a]]
  /\ prev' = [a \in Addrs |->
                CASE a = n -> f
                  [] a = m /\ ~lo -> p
                  [] a = l /\ hi -> NULL
                  [] OTHER -> prev[a]]
  /\ phase' = "idle"
  /\ current_node' = NULL
  /\ arg' = 0
  /\ UNCHANGED <<start_node, end_address, asked, used>>

-----------------------------------------------------------------------------
Loop == FindNext \/ Grow \/ Carve \/ InsertNext \/ Insert

Next ==
  \/ \E n \in Requests : Malloc(n)
  \/ \E b \in used : FreeFirst(b) \/ Free(b)
  \/ Loop

Spec == Init /\ [][Next]_vars

(* A call runs to its end.                                                 *)
FairSpec == Spec /\ WF_vars(Loop)

-----------------------------------------------------------------------------
(* Properties.                                                             *)

TypeOK ==
  /\ size \in [Addrs -> Nat]
  /\ next \in [Addrs -> Addrs \cup {NULL}]
  /\ prev \in [Addrs -> Addrs \cup {NULL}]
  /\ start_node \in Addrs
  /\ end_address \in HEAP_START_LOCATION .. LIMIT
  /\ phase \in {"idle", "find", "insert", "full", "fell"}
  /\ current_node \in Addrs \cup {NULL}
  /\ arg \in Nat
  /\ used \subseteq Addrs
  /\ asked \in Requests \cup {-1}

Nodes == {a \in Addrs : size[a] # 0}

\* The node that __kfree is about to insert is in nobody's hands any more.
Freeing  == IF phase \in {"insert", "fell"} THEN {arg} ELSE {}
FreeList == Nodes \ (used \cup Freeing)

\* The nodes, used and free, lie side by side from the start of the heap to
\* its end: none overlaps another, no word is lost, and each has room for the
\* links of a free node.  Every cut and every combination keeps it so.
Tiled ==
  /\ used \cup Freeing \subseteq Nodes
  /\ HEAP_START_LOCATION \in Nodes
  /\ \A a \in Nodes : a + size[a] \in Nodes \cup {end_address}
  /\ \A a, b \in Nodes : a < b => a + size[a] <= b
  /\ \A a \in Nodes : a + size[a] <= end_address
  /\ \A a \in Nodes : size[a] >= NODE_SIZE

\* n is the free node that follows a in address order.
Follows(a, n) ==
  /\ a < n
  /\ \A b \in FreeList : b <= a \/ b >= n

\* The free list holds exactly the free nodes, in address order, and can be
\* walked in both directions; no two of its nodes touch; the last one ends
\* where the heap ends, so there is always a node behind one that is freed.
FreeListSound ==
  /\ start_node \in FreeList
  /\ \A a \in FreeList : start_node <= a
  /\ \A a \in FreeList :
       /\ next[a] # NULL => next[a] \in FreeList /\ Follows(a, next[a])
                              /\ prev[next[a]] = a
       /\ next[a] = NULL => a + size[a] = end_address
       /\ prev[a] # NULL => prev[a] \in FreeList /\ next[prev[a]] = a
       /\ prev[a] = NULL => a = start_node
  /\ \A a \in FreeList : a + size[a] \notin FreeList

\* __kfree never falls off the free list: the "impossible condition" of its
\* panic is impossible.
NeverFellOff == phase # "fell"

\* The three together: every word of the heap is in one node, the free list is
\* exactly the free nodes, and a free always finds its place in it, for every
\* order of requests and frees (kmalloc.c:118-420).
HeapSound == Tiled /\ FreeListSound /\ NeverFellOff

\* The heap does what an allocator promises: what callers hold never overlaps
\* and is never smaller than what they asked for, and lies in the arena.
Promise == INSTANCE Allocator WITH
  Low   <- HEAP_START_LOCATION,
  High  <- LIMIT,
  held  <- {<<a + HEADER_SIZE, size[a] - HEADER_SIZE>> : a \in used},
  asked <- asked

Allocates == Promise!AllocatorSpec

\* Every call ends: it returns, or panics when the heap is at its maximum.
CallReturns == phase \in {"find", "insert"} ~> phase \in {"idle", "full"}
=============================================================================
